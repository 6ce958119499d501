--------------------------- MODULE EmuMemoryProofs --------------------------
(***************************************************************************)
(* Proofs about the client's access to the N64's memory, for every layout  *)
(* of the address space that the assumptions of EmuMemory allow.           *)
(***************************************************************************)
EXTENDS EmuMemory, TLAPS

\* The types that read() and write() are overloaded for have these sizes.
LEMMA Sizes ==
    /\ \A t \in IntTypes : SizeOf[t] \in {1, 2, 4, 8}
    /\ \A t \in FloatTypes : SizeOf[t] \in {4, 8}
    /\ IntTypes \cap FloatTypes = {}
    /\ "block" \notin Types /\ "none" \notin Types
BY TypesAssumption DEF SizeOf, IntTypes, FloatTypes

\* Addition to an address that does not pass the end of the address space, and
\* one that does.
LEMMA WrapLow == ASSUME NEW a \in Nat, a < AddrSpace PROVE Wrap(a) = a
BY LayoutAssumption DEF Wrap

LEMMA WrapHigh ==
    ASSUME NEW a \in Nat, AddrSpace <= a, a < 2 * AddrSpace
    PROVE  Wrap(a) = a - AddrSpace
BY LayoutAssumption DEF Wrap

\* real_addr is where the host keeps the byte, in the same word, and no two
\* bytes share a place.
LEMMA SwapIsHostByte ==
    ASSUME NEW a \in Physical
    PROVE  /\ Swap(a) = HostByte(a) /\ HostByte(a) \in Physical
           /\ \A w \in Nat : a \in WORD * w .. WORD * w + WORD - 1
                <=> HostByte(a) \in WORD * w .. WORD * w + WORD - 1
           /\ \A b \in Physical : HostByte(a) = HostByte(b) => a = b
BY LayoutAssumption DEF Swap, HostByte, Physical, WORD

\* What an access that throws nothing tells: its bytes lie in the RAM.
LEMMA NoErrorInside ==
    ASSUME NEW a \in Addr, NEW size \in 1 .. 8, ErrorAt(a, size) = "none"
    PROVE  LogicalBase <= a /\ a + size <= LogicalBase + RamSize /\ ready
<1>1. LogicalBase <= a /\ ~OutOfBounds(a - LogicalBase, size) /\ ready
  <2>1. ~ (a < LogicalBase \/ OutOfBounds(a - LogicalBase, size))
    BY DEF ErrorAt
  <2>2. ready
    BY <2>1 DEF ErrorAt
  <2>3. LogicalBase <= a
    BY <2>1, LayoutAssumption DEF Addr
  <2> QED BY <2>1, <2>2, <2>3
<1>2. Wrap(a - LogicalBase + size) = a - LogicalBase + size
  <2>1. a - LogicalBase + size \in Nat /\ a - LogicalBase + size < AddrSpace
    BY <1>1, LayoutAssumption DEF Addr
  <2> QED BY <2>1, WrapLow
<1> QED BY <1>1, <1>2, LayoutAssumption DEF OutOfBounds, Addr

\* The converse: a value that lies in the RAM is accessible.
LEMMA InsideNoError ==
    ASSUME NEW a \in Addr, NEW size \in 1 .. 8,
           LogicalBase <= a, a + size <= LogicalBase + RamSize
    PROVE  ErrorAt(a, size) = IF ready THEN "none" ELSE "INVALID_STATE"
<1>2. Wrap(a - LogicalBase + size) = a - LogicalBase + size
  <2>1. a - LogicalBase + size \in Nat /\ a - LogicalBase + size < AddrSpace
    BY LayoutAssumption DEF Addr
  <2> QED BY <2>1, WrapLow
<1> QED BY <1>2, LayoutAssumption DEF OutOfBounds, Addr, ErrorAt

\* The byte of memory that holds byte k of a value at a, from the RAM's start.
Position(t, k) == IF t \in FloatTypes THEN SizeOf[t] - 1 - k ELSE k

\* An access that throws nothing, as Thrown() is for the call in progress.
Granted(o, t, a, i) ==
    IF t \in FloatTypes THEN ErrorAt(a, SizeOf[t]) = "none"
                        ELSE ErrorAt(AddrOf(o, t, a, i), 1) = "none"

\* The order of accesses visits every byte of a value once.
LEMMA PlaceIsOrder ==
    ASSUME NEW o \in {"read", "write"}, NEW t \in IntTypes \cup FloatTypes
    PROVE  /\ \A i \in Bytes(t) : Place(o, t, i) \in Bytes(t)
           /\ \A i, j \in Bytes(t) : Place(o, t, i) = Place(o, t, j) => i = j
           /\ \A k \in Bytes(t) : \E i \in Bytes(t) : Place(o, t, i) = k
<1>1. CASE t \in FloatTypes
  <2>1. SizeOf[t] \in {4, 8} BY <1>1, Sizes
  <2>2. \A i \in Bytes(t) : /\ Place(o, t, i) = SizeOf[t] - 1 - Swap(i)
                            /\ Swap(i) \in Bytes(t) /\ Swap(Swap(i)) = i
    BY <1>1, <2>1 DEF Place, Bytes, Swap, WORD
  <2>3. \A i \in Bytes(t) : Place(o, t, i) \in Bytes(t)
    BY <2>1, <2>2 DEF Bytes
  <2>4. \A i, j \in Bytes(t) : Place(o, t, i) = Place(o, t, j) => i = j
    BY <2>1, <2>2 DEF Bytes, Swap, WORD
  <2>5. \A k \in Bytes(t) : \E i \in Bytes(t) : Place(o, t, i) = k
    <3> SUFFICES ASSUME NEW k \in Bytes(t)
                 PROVE \E i \in Bytes(t) : Place(o, t, i) = k
      OBVIOUS
    <3>1. SizeOf[t] - 1 - k \in Bytes(t) BY <2>1 DEF Bytes
    <3>2. Place(o, t, Swap(SizeOf[t] - 1 - k)) = SizeOf[t] - 1 - (SizeOf[t] - 1 - k)
      BY <2>2, <3>1
    <3> QED BY <2>1, <2>2, <3>1, <3>2 DEF Bytes
  <2> QED BY <2>3, <2>4, <2>5
<1>2. CASE t \in IntTypes
  <2>1. SizeOf[t] \in {1, 2, 4, 8} /\ t \notin FloatTypes BY <1>2, Sizes
  <2>2. CASE o = "read"
    BY <2>1, <2>2 DEF Place, Bytes
  <2>3. CASE o = "write"
    <3>1. \A i \in Bytes(t) : Place(o, t, i) = SizeOf[t] - 1 - i
      BY <2>1, <2>3 DEF Place
    <3>2. \A k \in Bytes(t) : SizeOf[t] - 1 - k \in Bytes(t)
                              /\ Place(o, t, SizeOf[t] - 1 - k) = k
      BY <2>1, <3>1 DEF Bytes
    <3> QED BY <2>1, <3>1, <3>2 DEF Bytes
  <2> QED BY <2>2, <2>3
<1> QED BY <1>1, <1>2

\* A granted access goes to the place in the host's memory where the N64's byte
\* is that it is meant for.
LEMMA Geometry ==
    ASSUME NEW o \in {"read", "write"}, NEW t \in IntTypes \cup FloatTypes,
           NEW a \in Addr, t \in FloatTypes => a % WORD = 0,
           NEW i \in Bytes(t), Granted(o, t, a, i)
    PROVE  /\ a - LogicalBase + Position(t, Place(o, t, i)) \in Physical
           /\ HostOf(o, t, a, i) \in Physical
           /\ HostOf(o, t, a, i)
                = HostByte(a - LogicalBase + Position(t, Place(o, t, i)))
<1> DEFINE k == Place(o, t, i)
<1>0. k \in Bytes(t) BY PlaceIsOrder
<1>1. CASE t \in FloatTypes
  <2>1. SizeOf[t] \in {4, 8} BY <1>1, Sizes
  <2>2. LogicalBase <= a /\ a + SizeOf[t] <= LogicalBase + RamSize
    BY <1>1, <2>1, NoErrorInside DEF Granted
  <2>3. Position(t, k) = Swap(i) /\ HostOf(o, t, a, i) = a - LogicalBase + i
    BY <1>1, <2>1 DEF Position, Place, HostOf, Bytes, Swap, WORD
  <2>4. Swap(i) \in Bytes(t) BY <2>1 DEF Bytes, Swap, WORD
  <2>5. a - LogicalBase + Swap(i) \in Physical /\ a - LogicalBase + i \in Physical
    BY <2>1, <2>2, <2>4, LayoutAssumption DEF Bytes, Physical, Addr
  <2>6. a - LogicalBase + i = HostByte(a - LogicalBase + Swap(i))
    BY <1>1, <2>1, <2>2, LayoutAssumption DEF HostByte, Swap, WORD, Bytes, Addr
  <2> QED BY <2>3, <2>5, <2>6
<1>2. CASE t \in IntTypes
  <2>1. SizeOf[t] \in {1, 2, 4, 8} /\ t \notin FloatTypes BY <1>2, Sizes
  <2> DEFINE b == AddrOf(o, t, a, i)
  <2>2. k \in 0 .. 7 /\ b = Wrap(a + k) BY <1>0, <2>1 DEF Bytes, AddrOf
  <2>3. b \in Addr BY <2>2, LayoutAssumption DEF Wrap, Addr
  <2>4. LogicalBase <= b /\ b + 1 <= LogicalBase + RamSize
    BY <2>1, <2>3, NoErrorInside DEF Granted
  <2>5. b = a + k
    <3>1. CASE a + k < AddrSpace BY <2>2, <3>1, WrapLow DEF Addr
    <3>2. CASE AddrSpace <= a + k
      <4>1. Wrap(a + k) = a + k - AddrSpace
        BY <2>2, <3>2, WrapHigh, LayoutAssumption DEF Addr
      <4> QED BY <2>2, <2>4, <4>1, LayoutAssumption DEF Addr
    <3> QED BY <2>2, <3>1, <3>2, LayoutAssumption DEF Addr
  <2>6. a - LogicalBase + k \in Physical
    BY <2>2, <2>4, <2>5, LayoutAssumption DEF Physical, Addr
  <2>7. HostOf(o, t, a, i) = Swap(b - LogicalBase) /\ Position(t, k) = k
    BY <2>1 DEF HostOf, Position
  <2>8. b - LogicalBase = a - LogicalBase + k
    BY <2>2, <2>5, LayoutAssumption DEF Addr
  <2> HIDE DEF b, k
  <2> QED BY <2>6, <2>7, <2>8, SwapIsHostByte DEF k
<1> QED BY <1>1, <1>2

\* Two granted accesses of a call go to different bytes.
LEMMA AccessesApart ==
    ASSUME NEW o \in {"read", "write"}, NEW t \in IntTypes \cup FloatTypes,
           NEW a \in Addr, t \in FloatTypes => a % WORD = 0,
           NEW i \in Bytes(t), NEW j \in Bytes(t), i # j,
           Granted(o, t, a, i), Granted(o, t, a, j)
    PROVE  HostOf(o, t, a, i) # HostOf(o, t, a, j)
<1> DEFINE pos(n) == a - LogicalBase + Position(t, Place(o, t, n))
<1>1. /\ pos(i) \in Physical /\ HostOf(o, t, a, i) = HostByte(pos(i))
      /\ pos(j) \in Physical /\ HostOf(o, t, a, j) = HostByte(pos(j))
  BY Geometry
<1>2. Place(o, t, i) # Place(o, t, j)
      /\ Place(o, t, i) \in Bytes(t) /\ Place(o, t, j) \in Bytes(t)
  BY PlaceIsOrder
<1>3. SizeOf[t] \in {1, 2, 4, 8} BY Sizes
<1>4. Position(t, Place(o, t, i)) # Position(t, Place(o, t, j))
      /\ Position(t, Place(o, t, i)) \in Int /\ Position(t, Place(o, t, j)) \in Int
  BY <1>2, <1>3 DEF Position, Bytes
<1>5. pos(i) # pos(j) BY <1>4, LayoutAssumption DEF Addr
<1> HIDE DEF pos
<1> QED BY <1>1, <1>5, SwapIsHostByte

-----------------------------------------------------------------------------
\* What holds of a call between two of its steps: it never went past its last
\* byte, every access so far was granted, a write that failed had none, and
\* the bytes moved agree with memory while the game leaves them alone.
CallInv ==
    /\ type \in Types =>
         /\ type \in FloatTypes => addr % WORD = 0
         /\ res = "pending" => next < SizeOf[type]
         /\ res = "ok" => next = SizeOf[type]
         /\ \A i \in 0 .. next - 1 : Granted(op, type, addr, i)
         /\ FailedWriteChangesNothing
         /\ quiet => \A i \in 0 .. next - 1 :
                val[Place(op, type, i)] = rdram[HostOf(op, type, addr, i)]
    /\ BlocksAlwaysThrow

IInv == TypeOK /\ CallInv

\* A call in progress, spelled out.
LEMMA PendingCall ==
    ASSUME IInv, res = "pending"
    PROVE  /\ op \in {"read", "write"} /\ type \in Types /\ addr \in Addr
           /\ type \in IntTypes \cup FloatTypes
           /\ type \in FloatTypes => addr % WORD = 0
           /\ SizeOf[type] \in {1, 2, 4, 8} /\ next \in Bytes(type)
           /\ val \in [Bytes(type) -> Byte \cup IF op = "read" THEN {NoByte} ELSE {}]
           /\ \A i \in 0 .. next - 1 : i \in Bytes(type) /\ Granted(op, type, addr, i)
<1>1. op \in {"read", "write"} /\ type \in Types /\ addr \in Addr
      /\ next \in 0 .. SizeOf[type] /\ val \in [Bytes(type) -> Byte \cup IF op = "read" THEN {NoByte} ELSE {}]
  BY DEF IInv, TypeOK, Errors
<1>2. type \in IntTypes \cup FloatTypes BY <1>1, TypesAssumption
<1>3. SizeOf[type] \in {1, 2, 4, 8} BY <1>2, Sizes
<1>4. next < SizeOf[type] /\ (type \in FloatTypes => addr % WORD = 0)
      /\ \A i \in 0 .. next - 1 : Granted(op, type, addr, i)
  BY <1>1 DEF IInv, CallInv
<1>5. next \in Bytes(type) /\ \A i \in 0 .. next - 1 : i \in Bytes(type)
  BY <1>1, <1>3, <1>4 DEF Bytes
<1> QED BY <1>1, <1>2, <1>3, <1>4, <1>5

\* What the next access of a call throws.
LEMMA NextGranted ==
    ASSUME IInv, res = "pending"
    PROVE  /\ Thrown(next) = "none" <=> Granted(op, type, addr, next)
           /\ Thrown(next) \in Errors \cup {"none"}
<1>1. PICK t \in IntTypes \cup FloatTypes : t = type BY PendingCall
<1>2. Thrown(next) \in Errors \cup {"none"}
  <2>1. \A a, size : ErrorAt(a, size) \in Errors \cup {"none"}
    BY DEF ErrorAt, Errors
  <2> QED BY <2>1 DEF Thrown
<1>3. CASE type \in IntTypes
  <2>1. type \notin FloatTypes BY <1>3, Sizes
  <2> QED BY <1>2, <1>3, <2>1 DEF Thrown, Granted
<1>4. CASE type \in FloatTypes
  <2>1. type \notin IntTypes BY <1>4, Sizes
  <2>2. CASE next = 0 BY <1>2, <1>4, <2>1, <2>2 DEF Thrown, Granted
  <2>3. CASE next # 0
    <3>1. 0 \in 0 .. next - 1 BY <2>3, PendingCall DEF Bytes
    <3>2. Granted(op, type, addr, 0) BY <3>1, PendingCall
    <3> QED BY <1>2, <1>4, <2>1, <2>3, <3>2 DEF Thrown, Granted
  <2> QED BY <2>2, <2>3
<1> QED BY <1>1, <1>2, <1>3, <1>4

\* A write across the end of the RAM finds out with its first byte.
LEMMA WriteFailsFirst ==
    ASSUME IInv, res = "pending", op = "write", LogicalBase <= addr, next # 0
    PROVE  Thrown(next) = "none"
<1>1. 0 \in 0 .. next - 1 /\ 0 \in Bytes(type)
  BY PendingCall DEF Bytes
<1>2. Granted(op, type, addr, 0) BY <1>1, PendingCall
<1>3. CASE type \in FloatTypes
  BY <1>2, <1>3, NextGranted DEF Granted
<1>4. CASE type \in IntTypes
  <2>1. type \notin FloatTypes /\ SizeOf[type] \in {1, 2, 4, 8} BY <1>4, Sizes
  <2>2. /\ Place(op, type, 0) = SizeOf[type] - 1
        /\ Place(op, type, next) = SizeOf[type] - 1 - next
        /\ Position(type, Place(op, type, 0)) = Place(op, type, 0)
        /\ next \in 1 .. SizeOf[type] - 1
    BY <2>1, PendingCall DEF Place, Position, Bytes
  <2>3. addr - LogicalBase + (SizeOf[type] - 1) \in Physical
    <3>1. addr - LogicalBase + Position(type, Place(op, type, 0)) \in Physical
      BY <1>1, <1>2, PendingCall, Geometry
    <3> QED BY <2>2, <3>1
  <2> DEFINE b == addr + (SizeOf[type] - 1 - next)
  <2>4. b \in Addr /\ LogicalBase <= b /\ b + 1 <= LogicalBase + RamSize
    BY <2>1, <2>2, <2>3, LayoutAssumption, PendingCall DEF Addr, Physical
  <2>5. AddrOf(op, type, addr, next) = b
    <3>1. b \in Nat /\ b < AddrSpace BY <2>4, LayoutAssumption DEF Addr
    <3> QED BY <2>2, <3>1, WrapLow DEF AddrOf
  <2>6. ready
    <3>1. AddrOf(op, type, addr, 0) \in Addr
      BY <2>1, <2>2, LayoutAssumption, PendingCall DEF AddrOf, Wrap, Addr
    <3>2. ErrorAt(AddrOf(op, type, addr, 0), 1) = "none"
      BY <1>2, <2>1 DEF Granted
    <3> QED BY <3>1, <3>2, NoErrorInside
  <2>7. ErrorAt(b, 1) = "none" BY <2>4, <2>6, InsideNoError
  <2> QED BY <1>4, <2>5, <2>7 DEF Thrown
<1> QED BY <1>3, <1>4, PendingCall

-----------------------------------------------------------------------------
\* Each step keeps the invariant.

\* While the call stays the same and memory does not go away, accesses that
\* were granted still are.
LEMMA GrantedStays ==
    ASSUME IInv, type \in Types, UNCHANGED << op, type, addr >>,
           ready' = ready \/ ready' = TRUE
    PROVE  \A i \in 0 .. next - 1 : Granted(op, type, addr, i)'
<1> SUFFICES ASSUME NEW i \in 0 .. next - 1 PROVE Granted(op, type, addr, i)'
  OBVIOUS
<1>1. Granted(op, type, addr, i) BY DEF IInv, CallInv
<1> QED BY <1>1 DEF Granted, ErrorAt

LEMMA InitInv == Init => IInv
<1> SUFFICES ASSUME Init PROVE IInv
  OBVIOUS
<1>0. 0 \in Addr BY LayoutAssumption DEF Addr
<1>1. TypeOK BY <1>0 DEF Init, TypeOK
<1>2. type \notin Types /\ type # "block" BY Sizes DEF Init
<1> QED BY <1>1, <1>2 DEF IInv, CallInv, BlocksAlwaysThrow

LEMMA MemoryAppearsKeepsInv == ASSUME IInv, MemoryAppears PROVE IInv'
<1>1. TypeOK' BY DEF MemoryAppears, call, IInv, TypeOK
<1>2. ASSUME type' \in Types PROVE \A i \in 0 .. next' - 1 : Granted(op, type, addr, i)'
  BY <1>2, GrantedStays DEF MemoryAppears, call
<1>3. CallInv' BY <1>2 DEF MemoryAppears, call, IInv, CallInv,
                         FailedWriteChangesNothing, BlocksAlwaysThrow
<1> QED BY <1>1, <1>3 DEF IInv

LEMMA GameWritesKeepsInv == ASSUME IInv, GameWrites PROVE IInv'
<1>1. UNCHANGED << ready, op, type, addr, val, next, res >>
  BY DEF GameWrites, call
<1>2. PICK w \in 0 .. (RamSize \div WORD) - 1, word \in GameWords :
        /\ rdram' = [p \in Physical |-> IF p \in WORD * w .. WORD * w + WORD - 1
                                        THEN word[p - WORD * w] ELSE rdram[p]]
        /\ quiet' = (quiet /\ (WORD * w .. WORD * w + WORD - 1) \cap Touched = {})
  BY DEF GameWrites
<1> DEFINE place == WORD * w .. WORD * w + WORD - 1
<1>3. TypeOK'
  <2>1. \A p \in place : word[p - WORD * w] \in Byte
    <3>1. word \in [0 .. WORD - 1 -> Byte] BY ByteAssumption
    <3>2. \A p \in place : p - WORD * w \in 0 .. WORD - 1 BY DEF WORD
    <3> QED BY <3>1, <3>2
  <2>2. rdram \in [Physical -> Byte] BY DEF IInv, TypeOK
  <2>3. rdram' \in [Physical -> Byte] BY <1>2, <2>1, <2>2
  <2>4. quiet' \in BOOLEAN BY <1>2
  <2> QED BY <1>1, <2>3, <2>4 DEF IInv, TypeOK
<1>4. ASSUME type' \in Types PROVE \A i \in 0 .. next' - 1 : Granted(op, type, addr, i)'
  BY <1>1, <1>4, GrantedStays
<1>5. ASSUME type' \in Types, quiet', NEW i \in 0 .. next' - 1
      PROVE  val'[Place(op', type', i)] = rdram'[HostOf(op', type', addr', i)]
  <2> DEFINE p == HostOf(op, type, addr, i)
  <2>1. op \in {"read", "write"} /\ type \in IntTypes \cup FloatTypes
        /\ next \in 0 .. SizeOf[type] /\ addr \in Addr
    BY <1>1, <1>5, TypesAssumption, Sizes DEF IInv, TypeOK
  <2>2. i \in Bytes(type) /\ i \in 0 .. next - 1
    BY <1>1, <1>5, <2>1, Sizes DEF Bytes
  <2>3. quiet /\ p \notin place
    BY <1>1, <1>2, <1>5, <2>2 DEF Touched
  <2>4. p \in Physical
    <3>1. Granted(op, type, addr, i) /\ (type \in FloatTypes => addr % WORD = 0)
      BY <1>1, <1>5, <2>2 DEF IInv, CallInv
    <3> QED BY <2>1, <2>2, <3>1, Geometry
  <2>5. val[Place(op, type, i)] = rdram[p]
    BY <1>1, <1>5, <2>2, <2>3 DEF IInv, CallInv
  <2>6. rdram'[p] = rdram[p] BY <1>2, <2>3, <2>4
  <2> QED BY <1>1, <2>5, <2>6
<1>6. CallInv'
  BY <1>1, <1>4, <1>5 DEF IInv, CallInv, FailedWriteChangesNothing, BlocksAlwaysThrow
<1> QED BY <1>3, <1>6 DEF IInv

LEMMA CallKeepsInv ==
    ASSUME IInv, NEW o \in {"read", "write"}, NEW t \in Types, NEW a \in Addr,
           Call(o, t, a)
    PROVE  IInv'
<1>1. /\ op' = o /\ type' = t /\ addr' = a /\ next' = 0 /\ res' = "pending"
      /\ rdram' = rdram /\ ready' = ready /\ quiet' = TRUE
      /\ val' \in [Bytes(t) -> IF o = "read" THEN {NoByte} ELSE Byte]
      /\ t \in FloatTypes => a % WORD = 0
  BY DEF Call
<1>2. SizeOf[t] \in {1, 2, 4, 8} BY Sizes, TypesAssumption
<1>3. TypeOK' BY <1>1, <1>2 DEF IInv, TypeOK
<1>4. CallInv'
  BY <1>1, <1>2, Sizes DEF CallInv, FailedWriteChangesNothing, BlocksAlwaysThrow
<1> QED BY <1>3, <1>4 DEF IInv

LEMMA ThrowsKeepsInv == ASSUME IInv, Throws PROVE IInv'
<1>1. /\ res = "pending" /\ Thrown(next) # "none" /\ res' = Thrown(next)
      /\ UNCHANGED << rdram, ready, op, type, addr, val, next, quiet >>
  BY DEF Throws
<1>2. res' \in Errors BY <1>1, NextGranted
<1>3. type \in Types /\ type # "block" BY <1>1, PendingCall, Sizes
<1>4. TypeOK' BY <1>1, <1>2, <1>3, PendingCall DEF IInv, TypeOK
<1>5. \A i \in 0 .. next' - 1 : Granted(op, type, addr, i)'
  BY <1>1, <1>3, GrantedStays
<1>6. FailedWriteChangesNothing'
  BY <1>1, WriteFailsFirst DEF FailedWriteChangesNothing
<1>7. CallInv'
  BY <1>1, <1>2, <1>3, <1>5, <1>6 DEF IInv, CallInv, BlocksAlwaysThrow, Errors
<1> QED BY <1>4, <1>7 DEF IInv

LEMMA MovesByteKeepsInv == ASSUME IInv, MovesByte PROVE IInv'
<1> DEFINE k == Place(op, type, next)
           p == HostOf(op, type, addr, next)
<1>1. /\ res = "pending" /\ Thrown(next) = "none" /\ next' = next + 1
      /\ UNCHANGED << ready, op, type, addr, quiet >>
      /\ res' = IF next' = SizeOf[type] THEN "ok" ELSE "pending"
  BY DEF MovesByte
<1>2. \/ op = "read" /\ val' = [val EXCEPT ![k] = rdram[p]] /\ rdram' = rdram
      \/ op = "write" /\ rdram' = [rdram EXCEPT ![p] = val[k]] /\ val' = val
  BY <1>1, PendingCall DEF MovesByte
<1>3. /\ op \in {"read", "write"} /\ type \in Types /\ addr \in Addr
      /\ type \in IntTypes \cup FloatTypes
      /\ type \in FloatTypes => addr % WORD = 0
      /\ SizeOf[type] \in {1, 2, 4, 8} /\ next \in Bytes(type)
      /\ val \in [Bytes(type) -> Byte \cup IF op = "read" THEN {NoByte} ELSE {}]
      /\ \A i \in 0 .. next - 1 : i \in Bytes(type) /\ Granted(op, type, addr, i)
  BY <1>1, PendingCall
<1>4. Granted(op, type, addr, next) BY <1>1, NextGranted
<1>5. k \in Bytes(type) /\ p \in Physical
  BY <1>3, <1>4, PlaceIsOrder, Geometry
<1>6. TypeOK'
  <2>1. rdram \in [Physical -> Byte] BY DEF IInv, TypeOK
  <2>2. rdram' \in [Physical -> Byte] BY <1>2, <1>3, <1>5, <2>1
  <2> QED BY <1>1, <1>2, <1>3, <1>5, <2>1, <2>2 DEF IInv, TypeOK, Bytes
<1>7. \A i \in 0 .. next' - 1 : i \in Bytes(type) /\ Granted(op, type, addr, i)
  BY <1>1, <1>3, <1>4 DEF Bytes
<1>8. \A i \in 0 .. next' - 1 : Granted(op, type, addr, i)'
  BY <1>1, <1>7 DEF Granted, ErrorAt
<1>9. ASSUME quiet', NEW i \in 0 .. next' - 1
      PROVE  val'[Place(op', type', i)] = rdram'[HostOf(op', type', addr', i)]
  <2> DEFINE n == Place(op, type, i)
             q == HostOf(op, type, addr, i)
  <2>1. /\ i \in Bytes(type) /\ Granted(op, type, addr, i)
        /\ n \in Bytes(type) /\ q \in Physical
    BY <1>3, <1>7, <1>9, PlaceIsOrder, Geometry
  <2>2. rdram \in [Physical -> Byte] BY DEF IInv, TypeOK
  <2>3. CASE i = next
    <3>1. val'[k] = rdram'[p] BY <1>2, <1>3, <1>5, <2>2
    <3> QED BY <1>1, <2>3, <3>1
  <2>4. CASE i # next
    <3>1. i \in 0 .. next - 1 BY <1>1, <1>3, <1>9, <2>4 DEF Bytes
    <3>2. val[n] = rdram[q] BY <1>1, <1>3, <1>9, <3>1 DEF IInv, CallInv
    <3>3. n # k BY <1>3, <2>1, <2>4, PlaceIsOrder
    <3>4. q # p BY <1>3, <1>4, <2>1, <2>4, AccessesApart
    <3>5. val'[n] = val[n] /\ rdram'[q] = rdram[q]
      BY <1>2, <1>3, <1>5, <2>1, <2>2, <3>3, <3>4
    <3> QED BY <1>1, <3>2, <3>5
  <2> QED BY <2>3, <2>4
<1>10. CallInv'
  <2>1. FailedWriteChangesNothing' /\ BlocksAlwaysThrow'
    BY <1>1, <1>3, Sizes DEF FailedWriteChangesNothing, BlocksAlwaysThrow, Errors
  <2> QED BY <1>1, <1>3, <1>8, <1>9, <2>1 DEF CallInv, Bytes
<1> QED BY <1>6, <1>10 DEF IInv

\* A block is at least a word and fits the RAM.
LEMMA BlockFits == BlockLen \in Nat /\ 4 <= BlockLen /\ BlockLen <= RamSize
BY LayoutAssumption, BlockAssumption DEF WORD

\* No block access gets past its second conversion of an address.
LEMMA ReadMemoryFails == ASSUME NEW a \in Addr PROVE ReadMemoryThrown(a) \in Errors
<1>1. CASE ErrorAt(a, BlockLen) # "none"
  BY <1>1 DEF ReadMemoryThrown, ErrorAt, Errors
<1>2. CASE ErrorAt(a, BlockLen) = "none"
  <2> DEFINE p == a - LogicalBase
             b == Align(p)
  <2>1. LogicalBase <= a /\ ~OutOfBounds(p, BlockLen)
    <3>1. ~ (a < LogicalBase \/ OutOfBounds(p, BlockLen)) BY <1>2 DEF ErrorAt
    <3> QED BY <3>1, LayoutAssumption DEF Addr
  <2>2. p + BlockLen <= RamSize
    <3>1. p + BlockLen \in Nat /\ p + BlockLen < AddrSpace
      BY <2>1, LayoutAssumption, BlockFits DEF Addr
    <3> QED BY <2>1, <3>1, WrapLow, LayoutAssumption DEF OutOfBounds
  <2>3. b \in Nat /\ b < RamSize /\ b + 0 = b
    BY <2>1, <2>2, LayoutAssumption, BlockFits DEF Align, WORD, Addr
  <2>4. Wrap(b + 0) = b BY <2>3, WrapLow, LayoutAssumption
  <2>5. ErrorAt(Wrap(b + 0), 1) = "INVALID_ADDR"
    BY <2>3, <2>4, LayoutAssumption DEF ErrorAt
  <2>6. WordsThrown({b, Align(p + BlockLen)}) = "INVALID_ADDR"
    BY <2>5 DEF WordsThrown, WORD
  <2> QED BY <1>2, <2>6 DEF ReadMemoryThrown, Errors
<1> QED BY <1>1, <1>2

LEMMA WriteMemoryFails == ASSUME NEW a \in Addr PROVE WriteMemoryThrown(a) \in Errors
<1> DEFINE from == Align(a)
           len  == BlockLen + (a % WORD) + WORD - (Wrap(a + BlockLen) % WORD)
           last == Wrap(from + len - WORD)
<1>1. CASE ~ready BY <1>1 DEF WriteMemoryThrown, Errors
<1>2. CASE ready /\ (a < LogicalBase \/ OutOfBounds(from, len))
  BY <1>2 DEF WriteMemoryThrown, Errors
<1>3. CASE ready /\ ~ (a < LogicalBase \/ OutOfBounds(from, len))
  <2>1. WriteMemoryThrown(a) = WordsThrown({from, last})
    BY <1>3 DEF WriteMemoryThrown
  <2>2. /\ LogicalBase <= from /\ from <= a /\ from \in Nat
        /\ len \in BlockLen + 1 .. BlockLen + 7
    <3>1. Wrap(a + BlockLen) \in Nat
      BY LayoutAssumption, BlockFits DEF Wrap, Addr
    <3> HIDE DEF from, len
    <3>2. from = a - (a % 4) /\ len = BlockLen + (a % 4) + 4 - (Wrap(a + BlockLen) % 4)
      BY DEF from, len, Align, WORD
    <3> QED BY <1>3, <3>1, <3>2, LayoutAssumption, BlockFits DEF Addr, WORD
  <2> HIDE DEF from, len
  <2>3. Wrap(from + len) <= RamSize /\ from + len < 2 * AddrSpace
    BY <1>3, <2>2, LayoutAssumption, BlockFits DEF OutOfBounds, Addr, Wrap
  <2>4. AddrSpace <= from + len
    BY <2>2, <2>3, WrapLow, LayoutAssumption, BlockFits
  <2>5. Wrap(from + len) = from + len - AddrSpace
    BY <2>2, <2>3, <2>4, WrapHigh, LayoutAssumption, BlockFits
  <2> DEFINE d == from + len - AddrSpace
  <2>6. d \in 0 .. RamSize BY <2>2, <2>3, <2>4, <2>5, LayoutAssumption, BlockFits
  <2>7. \E i \in 0 .. WORD - 1 : ErrorAt(Wrap(last + i), 1) = "INVALID_ADDR"
    <3>1. CASE WORD <= d
      <4>1. last = d - WORD
        BY <2>2, <2>6, <3>1, WrapHigh, LayoutAssumption, BlockFits DEF WORD
      <4>2. Wrap(last + 0) = d - WORD /\ d - WORD < LogicalBase
        BY <2>6, <3>1, <4>1, WrapLow, LayoutAssumption DEF WORD
      <4> QED BY <4>2 DEF ErrorAt, WORD
    <3>2. CASE d < WORD
      <4>1. last = AddrSpace + d - WORD
        BY <2>2, <2>6, <3>2, WrapLow, LayoutAssumption, BlockFits DEF WORD
      <4>2. CASE d = 0
        <5>1. Wrap(last + 3) = AddrSpace - 1
          BY <4>1, <4>2, WrapLow, LayoutAssumption DEF WORD
        <5>2. AddrSpace - 1 - LogicalBase + 1 > RamSize /\ AddrSpace - LogicalBase \in Nat
              /\ AddrSpace - LogicalBase < AddrSpace
          BY LayoutAssumption
        <5>3. OutOfBounds(AddrSpace - 1 - LogicalBase, 1)
          BY <5>2, WrapLow, LayoutAssumption DEF OutOfBounds
        <5> QED BY <5>1, <5>3 DEF ErrorAt, WORD
      <4>3. CASE d # 0
        <5>1. WORD - d \in 1 .. WORD - 1 /\ last + (WORD - d) = AddrSpace
          BY <2>6, <3>2, <4>1, <4>3, LayoutAssumption DEF WORD
        <5>2. Wrap(AddrSpace) = 0 /\ 0 < LogicalBase
          BY WrapHigh, LayoutAssumption
        <5>3. ErrorAt(Wrap(last + (WORD - d)), 1) = "INVALID_ADDR"
          BY <5>1, <5>2 DEF ErrorAt
        <5> QED BY <5>1, <5>3 DEF WORD
      <4> QED BY <4>2, <4>3
    <3> QED BY <2>6, <3>1, <3>2, LayoutAssumption DEF WORD
  <2>8. WordsThrown({from, last}) = "INVALID_ADDR" BY <2>7 DEF WordsThrown
  <2> QED BY <2>1, <2>8 DEF Errors
<1> QED BY <1>1, <1>2, <1>3

LEMMA BlockKeepsInv ==
    ASSUME IInv, NEW o \in {"read_memory", "write_memory"}, NEW a \in Addr,
           NEW thrown \in Errors, Block(o, a, thrown)
    PROVE  IInv' /\ res' = thrown
<1>1. /\ op' = o /\ type' = "block" /\ addr' = a /\ val' = NoValue /\ next' = 0
      /\ res' = thrown /\ UNCHANGED << rdram, ready, quiet >>
  BY DEF Block, Errors
<1>2. "block" \notin Types BY Sizes
<1>3. TypeOK' BY <1>1 DEF IInv, TypeOK
<1> QED BY <1>1, <1>2, <1>3 DEF IInv, CallInv, BlocksAlwaysThrow

LEMMA ReturnsKeepsInv == ASSUME IInv, Returns PROVE IInv'
<1>1. /\ op' = "read" /\ type' = "none" /\ addr' = 0 /\ val' = NoValue /\ next' = 0
      /\ res' = "idle" /\ quiet' = FALSE /\ UNCHANGED << rdram, ready >>
  BY DEF Returns
<1>2. "none" \notin Types BY Sizes
<1>3. 0 \in Addr BY LayoutAssumption DEF Addr
<1>4. TypeOK' BY <1>1, <1>3 DEF IInv, TypeOK
<1> QED BY <1>1, <1>2, <1>4 DEF IInv, CallInv, BlocksAlwaysThrow

LEMMA NextKeepsInv == IInv /\ [Next]_vars => IInv'
<1> SUFFICES ASSUME IInv, [Next]_vars PROVE IInv'
  OBVIOUS
<1>1. CASE UNCHANGED vars
  BY <1>1 DEF vars, call, IInv, TypeOK, CallInv, FailedWriteChangesNothing,
              BlocksAlwaysThrow, Granted, ErrorAt
<1>2. CASE MemoryAppears BY <1>2, MemoryAppearsKeepsInv
<1>3. CASE GameWrites BY <1>3, GameWritesKeepsInv
<1>4. CASE \E o \in {"read", "write"}, t \in Types, a \in Addr : Call(o, t, a)
  BY <1>4, CallKeepsInv
<1>5. CASE MovesByte BY <1>5, MovesByteKeepsInv
<1>6. CASE Throws BY <1>6, ThrowsKeepsInv
<1>7. CASE \E a \in Addr : ReadMemory(a)
  BY <1>7, BlockKeepsInv, ReadMemoryFails DEF ReadMemory
<1>8. CASE \E a \in Addr : WriteMemory(a)
  BY <1>8, BlockKeepsInv, WriteMemoryFails DEF WriteMemory
<1>9. CASE Returns BY <1>9, ReturnsKeepsInv
<1> QED BY <1>1, <1>2, <1>3, <1>4, <1>5, <1>6, <1>7, <1>8, <1>9 DEF Next

-----------------------------------------------------------------------------
\* The invariants. CallInv is needed for the bytes moved so far: that they were
\* granted makes them lie apart, and only then does moving one more leave the
\* agreement of the others with memory alone.

LEMMA Inductive == Spec => []IInv
BY InitInv, NextKeepsInv, PTL DEF Spec

\* Every call is one of the client's four, moves no more bytes than its value
\* has, and ends as the code lets it (m64plus.cpp:1353).
THEOREM TypeCorrect == Spec => []TypeOK
<1>1. IInv => TypeOK BY DEF IInv
<1> QED BY <1>1, Inductive, PTL

\* A write that throws, and does not begin before the RAM, changed nothing
\* (m64plus.cpp:1510-1529, whose order of writes this rests on).
THEOREM FailedWrites == Spec => []FailedWriteChangesNothing
<1>1. IInv => FailedWriteChangesNothing
  BY TypesAssumption, Sizes DEF IInv, TypeOK, CallInv, FailedWriteChangesNothing
<1> QED BY <1>1, Inductive, PTL

\* No read_memory() or write_memory() returns, for any address and any block from
\* a word to the size of the RAM, whatever the layout of the address space
\* (m64plus.cpp:1353-1423). The queue's blocks have 14 bytes.
THEOREM NoBlockReturns == Spec => []BlocksAlwaysThrow
<1>1. IInv => BlocksAlwaysThrow BY DEF IInv, CallInv
<1> QED BY <1>1, Inductive, PTL

\* Where the bytes of a value are when the call is over.
LEMMA QuietBytes ==
    ASSUME IInv, res = "ok", quiet, type \in Types, NEW k \in Bytes(type)
    PROVE  val[k] = N64Bytes[addr - LogicalBase + Position(type, k)]
<1>1. /\ op \in {"read", "write"} /\ type \in IntTypes \cup FloatTypes /\ addr \in Addr
      /\ type \in FloatTypes => addr % WORD = 0
      /\ next = SizeOf[type]
  BY TypesAssumption, Sizes DEF IInv, TypeOK, CallInv
<1>2. PICK i \in Bytes(type) : Place(op, type, i) = k BY <1>1, PlaceIsOrder
<1>3. i \in 0 .. next - 1 BY <1>1 DEF Bytes
<1>4. Granted(op, type, addr, i) /\ val[k] = rdram[HostOf(op, type, addr, i)]
  BY <1>2, <1>3 DEF IInv, CallInv
<1>5. /\ addr - LogicalBase + Position(type, k) \in Physical
      /\ HostOf(op, type, addr, i) = HostByte(addr - LogicalBase + Position(type, k))
  BY <1>1, <1>2, <1>4, Geometry
<1> QED BY <1>4, <1>5 DEF N64Bytes

\* An integer access that no store of the game falls into moves the value as the
\* game has it, at any address (m64plus.cpp:1425-1465, 1497-1527).
THEOREM QuietAccesses == Spec => []QuietAccessIsWhole
<1>1. IInv => QuietAccessIsWhole
  <2>1. type \in IntTypes => \A k \in Bytes(type) : Position(type, k) = k
    BY Sizes DEF Position
  <2> QED BY <2>1, QuietBytes DEF QuietAccessIsWhole, AsTheGameHasIt
<1> QED BY <1>1, Inductive, PTL

\* A float, of either size, has its bytes in the opposite order.
FloatsLieReversed ==
    res = "ok" /\ quiet /\ type \in Types \cap FloatTypes =>
        \A k \in Bytes(type) :
            val[k] = N64Bytes[addr - LogicalBase + SizeOf[type] - 1 - k]

\* The surplus swap of m64plus.cpp:1479, 1494, 1539 and 1554 reverses every float
\* there is: only one that reads the same from both ends is the game's.
THEOREM FloatsReversed == Spec => []FloatsLieReversed
<1>1. IInv => FloatsLieReversed
  <2> SUFFICES ASSUME IInv, res = "ok", quiet, type \in Types, type \in FloatTypes,
                      NEW k \in Bytes(type)
               PROVE  val[k] = N64Bytes[addr - LogicalBase + SizeOf[type] - 1 - k]
    BY DEF FloatsLieReversed
  <2>1. /\ addr \in Int /\ LogicalBase \in Int /\ SizeOf[type] \in Int /\ k \in Int
        /\ Position(type, k) = SizeOf[type] - 1 - k
    BY Sizes, LayoutAssumption DEF IInv, TypeOK, Addr, Bytes, Position
  <2>2. addr - LogicalBase + Position(type, k)
            = addr - LogicalBase + SizeOf[type] - 1 - k
    BY <2>1
  <2> QED BY <2>2, QuietBytes
<1> QED BY <1>1, Inductive, PTL

-----------------------------------------------------------------------------
\* The steps as steps of N64Memory.

LEMMA MemoryIsBytes == IInv => N64Bytes \in [Physical -> Byte]
BY SwapIsHostByte DEF IInv, TypeOK, N64Bytes

LEMMA GameWritesRefines == IInv /\ GameWrites => N64!GameWrites
<1> SUFFICES ASSUME IInv, GameWrites PROVE N64!GameWrites
  OBVIOUS
<1>1. UNCHANGED << ready, op, type, addr, val, next, res >>
  BY DEF GameWrites, call
<1>2. PICK w \in 0 .. (RamSize \div WORD) - 1, word \in GameWords :
        rdram' = [p \in Physical |-> IF p \in WORD * w .. WORD * w + WORD - 1
                                     THEN word[p - WORD * w] ELSE rdram[p]]
  BY DEF GameWrites
<1>3. N64Bytes' \in [Physical -> Byte]
  <2>1. IInv' BY GameWritesKeepsInv
  <2>2. rdram' \in [Physical -> Byte] BY <2>1 DEF IInv, TypeOK
  <2> QED BY <2>2, SwapIsHostByte DEF N64Bytes
<1>4. \A a \in Physical \ (4 * w .. 4 * w + 3) : N64Bytes'[a] = N64Bytes[a]
  <2> SUFFICES ASSUME NEW a \in Physical \ (4 * w .. 4 * w + 3)
               PROVE  N64Bytes'[a] = N64Bytes[a]
    OBVIOUS
  <2>1. HostByte(a) \in Physical /\ HostByte(a) \notin WORD * w .. WORD * w + WORD - 1
    <3>1. w \in Nat BY LayoutAssumption DEF WORD
    <3>2. a \notin WORD * w .. WORD * w + WORD - 1 BY <3>1 DEF WORD
    <3> QED BY <3>1, <3>2, SwapIsHostByte
  <2> QED BY <1>2, <2>1 DEF N64Bytes
<1>5. Moved' = Moved BY <1>1 DEF Moved
<1> QED BY <1>1, <1>2, <1>3, <1>4, <1>5 DEF N64!GameWrites, N64!call, Physical, WORD

LEMMA CallRefines ==
    ASSUME IInv, NEW o \in {"read", "write"}, NEW t \in Types, NEW a \in Addr,
           Call(o, t, a)
    PROVE  N64!Calls
<1>1. Moved' = {} BY DEF Call, Moved
<1>2. N64Bytes' = N64Bytes BY DEF Call, N64Bytes
<1> QED BY <1>1, <1>2 DEF Call, N64!Calls, Addr, Bytes

\* The place N64Memory gives to the byte an access moves.
LEMMA PlacesAgree ==
    \A k : N64!Place(k) = addr - LogicalBase + Position(type, k)
BY DEF N64!Place, Position

LEMMA MovesByteRefines == IInv /\ MovesByte => N64!MovesByte
<1> SUFFICES ASSUME IInv, MovesByte PROVE N64!MovesByte
  OBVIOUS
<1> DEFINE k == Place(op, type, next)
           p == HostOf(op, type, addr, next)
           pos == addr - LogicalBase + Position(type, k)
<1>1. /\ res = "pending" /\ Thrown(next) = "none" /\ next' = next + 1
      /\ UNCHANGED << ready, op, type, addr, quiet >>
      /\ res' = IF next' = SizeOf[type] THEN "ok" ELSE "pending"
  BY DEF MovesByte
<1>2. \/ op = "read" /\ val' = [val EXCEPT ![k] = rdram[p]] /\ rdram' = rdram
      \/ op = "write" /\ rdram' = [rdram EXCEPT ![p] = val[k]] /\ val' = val
  BY <1>1, PendingCall DEF MovesByte
<1>3. /\ op \in {"read", "write"} /\ type \in Types /\ addr \in Addr
      /\ type \in IntTypes \cup FloatTypes
      /\ type \in FloatTypes => addr % WORD = 0
      /\ SizeOf[type] \in {1, 2, 4, 8} /\ next \in Bytes(type)
      /\ val \in [Bytes(type) -> Byte \cup IF op = "read" THEN {NoByte} ELSE {}]
      /\ \A i \in 0 .. next - 1 : i \in Bytes(type) /\ Granted(op, type, addr, i)
  BY <1>1, PendingCall
<1>4. Granted(op, type, addr, next) BY <1>1, NextGranted
<1>5. /\ k \in Bytes(type) /\ p \in Physical /\ pos \in Physical /\ p = HostByte(pos)
  BY <1>3, <1>4, PlaceIsOrder, Geometry
<1>6. ready
  <2>1. CASE type \in FloatTypes
    <3>1. SizeOf[type] \in 1 .. 8 /\ ErrorAt(addr, SizeOf[type]) = "none"
      BY <1>3, <1>4, <2>1 DEF Granted
    <3> QED BY <1>3, <3>1, NoErrorInside
  <2>2. CASE type \in IntTypes
    <3>1. ErrorAt(AddrOf(op, type, addr, next), 1) = "none"
      BY <1>4, <2>2, Sizes DEF Granted
    <3>2. AddrOf(op, type, addr, next) \in Addr
      BY <1>3, <1>5, LayoutAssumption DEF AddrOf, Wrap, Addr, Bytes
    <3> QED BY <3>1, <3>2, NoErrorInside
  <2> QED BY <1>3, <2>1, <2>2
<1>7. op = "write" => N64!Inside \/ addr < LogicalBase
  <2> SUFFICES ASSUME op = "write", LogicalBase <= addr PROVE N64!Inside
    BY <1>3, LayoutAssumption DEF Addr
  <2>1. 0 \in Bytes(type) /\ Granted(op, type, addr, 0)
    BY <1>3, <1>4 DEF Bytes
  <2>2. CASE type \in FloatTypes
    BY <1>3, <2>1, <2>2, NoErrorInside DEF Granted, N64!Inside
  <2>3. CASE type \in IntTypes
    <3>1. type \notin FloatTypes /\ op # "read" BY <2>3, Sizes
    <3>2. Position(type, Place(op, type, 0)) = SizeOf[type] - 1
      BY <1>3, <3>1 DEF Place, Position
    <3>3. addr - LogicalBase + Position(type, Place(op, type, 0)) \in Physical
      BY <1>3, <2>1, Geometry
    <3> QED BY <1>3, <3>2, <3>3, LayoutAssumption DEF Physical, N64!Inside, Addr
  <2> QED BY <1>3, <2>2, <2>3
<1>8. k \notin Moved /\ Moved' = Moved \cup {k}
  <2>1. ASSUME NEW i \in 0 .. next - 1 PROVE Place(op, type, i) # k
    <3>1. i \in Bytes(type) /\ i # next BY <1>3 DEF Bytes
    <3> QED BY <1>3, <3>1, PlaceIsOrder
  <2>2. 0 .. next' - 1 = (0 .. next - 1) \cup {next} BY <1>1, <1>3 DEF Bytes
  <2> QED BY <1>1, <2>1, <2>2 DEF Moved
<1>9. res' = IF Moved' = DOMAIN val THEN "ok" ELSE "pending"
  <2>1. DOMAIN val = Bytes(type) BY <1>3
  <2>2. Moved' = {Place(op, type, i) : i \in 0 .. next} BY <1>1, <1>3 DEF Moved, Bytes
  <2>3. CASE next' = SizeOf[type]
    <3>1. 0 .. next = Bytes(type) BY <1>1, <1>3, <2>3 DEF Bytes
    <3>2. Moved' = Bytes(type)
      <4>1. /\ \A i \in Bytes(type) : Place(op, type, i) \in Bytes(type)
            /\ \A n \in Bytes(type) : \E i \in Bytes(type) : Place(op, type, i) = n
        BY <1>3, PlaceIsOrder
      <4> QED BY <2>2, <3>1, <4>1
    <3> QED BY <1>1, <2>1, <2>3, <3>2
  <2>4. CASE next' # SizeOf[type]
    <3>1. next + 1 \in Bytes(type) BY <1>1, <1>3, <2>4 DEF Bytes
    <3>2. Place(op, type, next + 1) \in Bytes(type) BY <1>3, <3>1, PlaceIsOrder
    <3>3. Place(op, type, next + 1) \notin Moved'
      <4>1. \A i \in 0 .. next : i \in Bytes(type) /\ i # next + 1
        BY <1>3 DEF Bytes
      <4> QED BY <1>3, <2>2, <3>1, <4>1, PlaceIsOrder
    <3> QED BY <1>1, <2>1, <2>4, <3>2, <3>3
  <2> QED BY <2>3, <2>4
<1>10. rdram \in [Physical -> Byte] BY DEF IInv, TypeOK
<1>11. N64Bytes[pos] = rdram[p] BY <1>5 DEF N64Bytes
<1>12. \/ op = "read" /\ val' = [val EXCEPT ![k] = N64Bytes[pos]] /\ N64Bytes' = N64Bytes
       \/ op = "write" /\ N64Bytes' = [N64Bytes EXCEPT ![pos] = val[k]] /\ val' = val
  <2>1. CASE op = "read" /\ val' = [val EXCEPT ![k] = rdram[p]] /\ rdram' = rdram
    BY <1>11, <2>1 DEF N64Bytes
  <2>2. CASE op = "write" /\ rdram' = [rdram EXCEPT ![p] = val[k]] /\ val' = val
    <3>1. \A a \in Physical : HostByte(a) \in Physical /\ (HostByte(a) = p <=> a = pos)
      BY <1>5, SwapIsHostByte
    <3>2. N64Bytes' = [a \in Physical |-> rdram'[HostByte(a)]]
          /\ N64Bytes = [a \in Physical |-> rdram[HostByte(a)]]
      BY DEF N64Bytes
    <3>3. \A a \in Physical : rdram'[HostByte(a)] = IF a = pos THEN val[k]
                                                   ELSE rdram[HostByte(a)]
      BY <1>10, <2>2, <3>1
    <3>4. N64Bytes' = [N64Bytes EXCEPT ![pos] = val[k]]
      BY <1>5, <3>2, <3>3
    <3> QED BY <2>2, <3>4
  <2> QED BY <1>2, <2>1, <2>2
<1>13. k \in DOMAIN val \ Moved /\ N64!Place(k) = pos /\ pos \in DOMAIN N64Bytes
  BY <1>3, <1>5, <1>8, PlacesAgree DEF N64Bytes
<1> HIDE DEF k, pos, p
<1> QED BY <1>1, <1>6, <1>7, <1>8, <1>9, <1>12, <1>13 DEF N64!MovesByte

LEMMA ThrowsRefines == IInv /\ Throws => N64!Fails
<1> SUFFICES ASSUME IInv, Throws PROVE N64!Fails
  OBVIOUS
<1>1. /\ res = "pending" /\ Thrown(next) # "none" /\ res' = Thrown(next)
      /\ UNCHANGED << rdram, ready, op, type, addr, val, next, quiet >>
  BY DEF Throws
<1>2. /\ op \in {"read", "write"} /\ addr \in Addr
      /\ type \in IntTypes \cup FloatTypes
      /\ SizeOf[type] \in {1, 2, 4, 8} /\ next \in Bytes(type)
      /\ \A i \in 0 .. next - 1 : i \in Bytes(type) /\ Granted(op, type, addr, i)
  BY <1>1, PendingCall
<1>3. op = "write" => Moved = {} \/ addr < LogicalBase
  <2>1. op = "write" /\ LogicalBase <= addr => next = 0 BY <1>1, WriteFailsFirst
  <2>2. next = 0 => Moved = {} BY DEF Moved
  <2> QED BY <1>2, <2>1, <2>2, LayoutAssumption DEF Addr
<1>4. \/ ~N64!Inside /\ res' = "INVALID_ADDR"
      \/ ~ready /\ res' = "INVALID_STATE"
  <2>1. CASE type \in FloatTypes
    <3>1. next = 0 /\ Thrown(next) = ErrorAt(addr, SizeOf[type]) /\ SizeOf[type] \in 1 .. 8
      BY <1>1, <1>2, <2>1, Sizes DEF Thrown
    <3>2. N64!Inside => Thrown(next) = IF ready THEN "none" ELSE "INVALID_STATE"
      BY <1>2, <3>1, InsideNoError DEF N64!Inside
    <3> QED BY <1>1, <3>1, <3>2 DEF ErrorAt
  <2>2. CASE type \in IntTypes
    <3> DEFINE b == AddrOf(op, type, addr, next)
    <3>1. Thrown(next) = ErrorAt(b, 1) BY <2>2 DEF Thrown
    <3>2. N64!Inside => b \in Addr /\ LogicalBase <= b /\ b + 1 <= LogicalBase + RamSize
      <4> SUFFICES ASSUME N64!Inside
                   PROVE  b \in Addr /\ LogicalBase <= b /\ b + 1 <= LogicalBase + RamSize
        OBVIOUS
      <4>1. LogicalBase <= addr /\ addr + SizeOf[type] <= LogicalBase + RamSize
        BY DEF N64!Inside
      <4>2. Place(op, type, next) \in Bytes(type) BY <1>2, PlaceIsOrder
      <4>3. b = addr + Place(op, type, next)
        BY <1>2, <4>1, <4>2, WrapLow, LayoutAssumption DEF AddrOf, Addr, Bytes
      <4> QED BY <1>2, <4>1, <4>2, <4>3, LayoutAssumption DEF Addr, Bytes
    <3>3. N64!Inside => Thrown(next) = IF ready THEN "none" ELSE "INVALID_STATE"
      BY <3>1, <3>2, InsideNoError
    <3> QED BY <1>1, <3>1, <3>3 DEF ErrorAt
  <2> QED BY <1>2, <2>1, <2>2
<1>5. N64Bytes' = N64Bytes /\ Moved' = Moved BY <1>1 DEF N64Bytes, Moved
<1> QED BY <1>1, <1>3, <1>4, <1>5 DEF N64!Fails

LEMMA BlockRefines ==
    ASSUME NEW o \in {"read_memory", "write_memory"}, NEW a \in Addr,
           NEW thrown \in Errors, Block(o, a, thrown)
    PROVE  N64!BlockFails
<1>1. Moved' = {} BY DEF Block, Moved
<1>2. N64Bytes' = N64Bytes BY DEF Block, N64Bytes
<1>3. res = "idle" /\ res' \in Errors BY DEF Block, Errors
<1> QED BY <1>1, <1>2, <1>3 DEF Block, N64!BlockFails, N64!Errors, Errors, Addr,
                               NoValue, N64!NoValue

LEMMA NextRefines == IInv /\ [Next]_vars => [N64!Next]_(N64!vars)
<1> SUFFICES ASSUME IInv, [Next]_vars PROVE N64!Next \/ UNCHANGED N64!vars
  OBVIOUS
<1>1. CASE UNCHANGED vars
  BY <1>1 DEF vars, call, N64!vars, N64!call, N64Bytes, Moved
<1>2. CASE MemoryAppears
  BY <1>2 DEF MemoryAppears, call, N64!MemoryAppears, N64!Next, N64!call, N64Bytes, Moved
<1>3. CASE GameWrites BY <1>3, GameWritesRefines DEF N64!Next
<1>4. CASE \E o \in {"read", "write"}, t \in Types, a \in Addr : Call(o, t, a)
  BY <1>4, CallRefines DEF N64!Next
<1>5. CASE MovesByte BY <1>5, MovesByteRefines DEF N64!Next
<1>6. CASE Throws BY <1>6, ThrowsRefines DEF N64!Next
<1>7. CASE \E a \in Addr : ReadMemory(a)
  BY <1>7, BlockRefines, ReadMemoryFails DEF ReadMemory, N64!Next
<1>8. CASE \E a \in Addr : WriteMemory(a)
  BY <1>8, BlockRefines, WriteMemoryFails DEF WriteMemory, N64!Next
<1>9. CASE Returns
  <2>1. Moved' = {} /\ N64Bytes' = N64Bytes BY <1>9 DEF Returns, Moved, N64Bytes
  <2> QED BY <1>9, <2>1 DEF Returns, N64!Returns, N64!Next, N64!Errors, Errors,
                            NoValue, N64!NoValue
<1> QED BY <1>1, <1>2, <1>3, <1>4, <1>5, <1>6, <1>7, <1>8, <1>9 DEF Next

\* The client's access to the emulator's memory is access to the N64's memory,
\* byte by byte and under the game's hands, for every layout of the address
\* space (emulator.hpp:84-98 promises it, m64plus.cpp:1425-1557 does it).
THEOREM MemoryRefines == Spec => ImplementsN64Memory
<1>1. Init => N64!Init
  <2> SUFFICES ASSUME Init PROVE N64!Init
    OBVIOUS
  <2>1. N64Bytes \in [Physical -> Byte] BY InitInv, MemoryIsBytes
  <2>2. Moved = {} BY DEF Init, Moved
  <2> QED BY <2>1, <2>2 DEF Init, N64!Init, NoValue, N64!NoValue, Physical
<1> QED BY <1>1, Inductive, NextRefines, PTL DEF Spec, N64!Spec, ImplementsN64Memory
=============================================================================
