------------------------------ MODULE EmuMemory -----------------------------
(***************************************************************************)
(* Access to the N64's memory by the client, src/net64/emulator/m64plus.cpp*)
(* 1261-1557, one step per byte moved: the game runs on another thread and *)
(* its stores fall between any two of them. The core keeps memory as words *)
(* in the host's (little endian) order, so the byte at N64 address a is    *)
(* not the a-th byte of the host's array: read() and write() convert.      *)
(* MemHandle of src/net64/memory passes every call on as it is.            *)
(***************************************************************************)
EXTENDS Integers

CONSTANTS
    Byte,          \* values of a byte
    NoByte,        \* a byte of a buffer that was not read yet
    LogicalBase,   \* LOGICAL_BASE, 2^31 in the code
    RamSize,       \* RAM_SIZE, 2^23 in the code
    AddrSpace,     \* number of values of an addr_t, 2^32 in the code
    GameWords,     \* what the game stores: functions from 0 .. 3 to Byte
    BlockLen,      \* n of read_memory() and write_memory(): MSG_DATA_LEN, 14
    Types          \* the overloads that are called

WORD == 4  \* BSWAP_SIZE
SizeOf == [u8 |-> 1, u16 |-> 2, u32 |-> 4, u64 |-> 8, f32 |-> 4, f64 |-> 8]
IntTypes   == {"u8", "u16", "u32", "u64"}
FloatTypes == {"f32", "f64"}

ASSUME ByteAssumption == NoByte \notin Byte /\ GameWords \subseteq [0 .. WORD - 1 -> Byte]
ASSUME LayoutAssumption ==
    /\ LogicalBase \in Nat /\ RamSize \in Nat \ {0} /\ AddrSpace \in Nat
    /\ LogicalBase % WORD = 0 /\ RamSize % WORD = 0
    /\ RamSize <= LogicalBase   \* no physical address is a logical one
    /\ 8 <= LogicalBase         \* a value at the last address wraps to none
    /\ LogicalBase + RamSize < AddrSpace
ASSUME TypesAssumption == Types # {} /\ Types \subseteq IntTypes \cup FloatTypes
\* Blocks shorter than a word are left out: of most of them read_memory() would
\* wrap the length of the aligned part below zero (m64plus.cpp:1366) and copy
\* that much before anything throws. So are blocks longer than the RAM.
ASSUME BlockAssumption == BlockLen \in WORD .. RamSize

VARIABLES
    rdram,    \* the core's memory, byte by byte as the host sees it
    ready,    \* Core::get_mem_ptr() gives a pointer
    op,       \* the client's call: read, write, read_memory, write_memory
    type,     \* type of the value, "block" in the last two, "none" in between
    addr,     \* address passed in
    val,      \* the value or its temporary, most significant byte first
    next,     \* number of bytes moved
    res,      \* "idle", "pending", "ok" or the error thrown
    quiet     \* history: the game left the call's bytes alone so far

call == << op, type, addr, val, next, res >>
vars == << rdram, ready, call, quiet >>

Addr     == 0 .. AddrSpace - 1
Physical == 0 .. RamSize - 1
Bytes(t) == 0 .. SizeOf[t] - 1
Errors   == {"INVALID_ADDR", "INVALID_STATE"}

\* An addr_t after an addition.
Wrap(a) == a % AddrSpace

\* The start of the word an address is in.
Align(a) == a - (a % WORD)

\* Definitions marked [fault] are wrong versions of the one that follows them;
\* no action uses them, they are there to show which property rules them out.

\* [fault] The bytes of a word taken as they lie.
SwapNothing(a) == a
\* The other end of the word a byte is in: real_addr, and what bswap32() does.
Swap(a) == a - 2 * (a % WORD) + (WORD - 1)

\* The test of check_bounds().
OutOfBounds(a, size) == Wrap(a + size) > RamSize

\* [fault] The pointer is taken for granted.
ErrorAtUnready(a, size) ==
    IF a < LogicalBase \/ OutOfBounds(a - LogicalBase, size) THEN "INVALID_ADDR"
    ELSE "none"
\* [fault] An address below the RAM is taken for one already converted.
ErrorAtPhysicalToo(a, size) ==
    IF OutOfBounds(IF a < LogicalBase THEN a ELSE a - LogicalBase, size)
    THEN "INVALID_ADDR"
    ELSE IF ~ready THEN "INVALID_STATE"
    ELSE "none"
\* logical2physical(), check_bounds() and get_mem_ptr(): what they throw.
ErrorAt(a, size) ==
    IF a < LogicalBase \/ OutOfBounds(a - LogicalBase, size) THEN "INVALID_ADDR"
    ELSE IF ~ready THEN "INVALID_STATE"
    ELSE "none"

\* [fault] A write that starts with the most significant byte, like a read.
PlaceAscending(o, t, i) == IF t \in FloatTypes THEN SizeOf[t] - 1 - Swap(i) ELSE i
\* Which byte of the value the i-th access moves. Integers are read from the
\* first byte on and written from the last one on. Floats are copied as they
\* lie and swapped in the buffer; the buffer's last byte is the highest.
Place(o, t, i) ==
    IF t \in FloatTypes THEN SizeOf[t] - 1 - Swap(i)
    ELSE IF o = "read" THEN i
    ELSE SizeOf[t] - 1 - i

\* The address of the i-th access, and the host's byte it goes to.
AddrOf(o, t, a, i) == Wrap(a + Place(o, t, i))
HostOf(o, t, a, i) ==
    IF t \in FloatTypes THEN a - LogicalBase + i
    ELSE Swap(AddrOf(o, t, a, i) - LogicalBase)

\* What the i-th access throws: integers are checked byte by byte.
Thrown(i) ==
    IF type \in IntTypes THEN ErrorAt(AddrOf(op, type, addr, i), 1)
    ELSE IF i = 0 THEN ErrorAt(addr, SizeOf[type])
    ELSE "none"

-----------------------------------------------------------------------------
NoValue == [k \in {} |-> NoByte]

Init ==
    /\ rdram \in [Physical -> Byte]
    /\ ready = FALSE
    /\ op = "read" /\ type = "none" /\ addr = 0 /\ val = NoValue
    /\ next = 0
    /\ res = "idle"
    /\ quiet = FALSE

\* External: the core allocates the memory when it runs, and keeps it.
MemoryAppears == ready' = TRUE /\ UNCHANGED << rdram, call, quiet >>

\* The host's bytes of the last call's value.
Touched ==
    IF type \in Types THEN {HostOf(op, type, addr, i) : i \in Bytes(type)} ELSE {}

\* External: the core stores what the game stores, a word at a time.
GameWrites ==
    /\ \E w \in 0 .. (RamSize \div WORD) - 1 :
       LET place == WORD * w .. WORD * w + WORD - 1 IN
       /\ \E word \in GameWords :
             rdram' = [p \in Physical |-> IF p \in place THEN word[p - WORD * w]
                                                         ELSE rdram[p]]
       /\ quiet' = (quiet /\ place \cap Touched = {})
    /\ UNCHANGED << ready, call >>

\* read(addr, val) and write(addr, val). Floats assert() that addr is aligned.
Call(o, t, a) ==
    /\ res = "idle"
    /\ t \in FloatTypes => a % WORD = 0
    /\ op' = o /\ type' = t /\ addr' = a
    /\ val' \in [Bytes(t) -> IF o = "read" THEN {NoByte} ELSE Byte]
    /\ next' = 0
    /\ res' = "pending"
    /\ quiet' = TRUE
    /\ UNCHANGED << rdram, ready >>

Throws ==
    /\ res = "pending"
    /\ Thrown(next) # "none"
    /\ res' = Thrown(next)
    /\ UNCHANGED << rdram, ready, op, type, addr, val, next, quiet >>

MovesByte ==
    /\ res = "pending"
    /\ Thrown(next) = "none"
    /\ LET k == Place(op, type, next)
           p == HostOf(op, type, addr, next)
       IN IF op = "read"
          THEN val' = [val EXCEPT ![k] = rdram[p]] /\ rdram' = rdram
          ELSE rdram' = [rdram EXCEPT ![p] = val[k]] /\ val' = val
    /\ next' = next + 1
    /\ res' = IF next' = SizeOf[type] THEN "ok" ELSE "pending"
    /\ UNCHANGED << ready, op, type, addr, quiet >>

\* What the reads of the words at the given addresses throw, with memory ready.
WordsThrown(starts) ==
    IF \A b \in starts, i \in 0 .. WORD - 1 : ErrorAt(Wrap(b + i), 1) = "none"
    THEN "none" ELSE "INVALID_ADDR"

\* read_memory() converts addr, copies the aligned words, then reads the words
\* at the ends with read(), which takes their addresses for logical ones.
ReadMemoryThrown(a) ==
    IF ErrorAt(a, BlockLen) # "none" THEN ErrorAt(a, BlockLen)
    ELSE LET p == a - LogicalBase IN
         WordsThrown({Align(p), Align(p + BlockLen)})

\* write_memory() aligns addr before it converts it, and checks and copies with
\* the logical address; the words at the ends are read with it.
WriteMemoryThrown(a) ==
    LET from == Align(a)
        len  == BlockLen + (a % WORD) + WORD - (Wrap(a + BlockLen) % WORD)
    IN IF ~ready THEN "INVALID_STATE"
       ELSE IF a < LogicalBase \/ OutOfBounds(from, len) THEN "INVALID_ADDR"
       ELSE WordsThrown({from, Wrap(from + len - WORD)})

\* read_memory() has by then filled the middle of the caller's buffer from its
\* aligned words (m64plus.cpp:1370-1371). What a buffer holds after a call that
\* threw is left out, and what a call would do that throws nothing: none is one.
Block(o, a, thrown) ==
    /\ res = "idle"
    /\ op' = o /\ type' = "block" /\ addr' = a
    /\ val' = NoValue
    /\ next' = 0
    /\ res' = IF thrown = "none" THEN "ok" ELSE thrown
    /\ UNCHANGED << rdram, ready, quiet >>

ReadMemory(a)  == Block("read_memory", a, ReadMemoryThrown(a))
WriteMemory(a) == Block("write_memory", a, WriteMemoryThrown(a))

\* The caller is done with the value or the error.
Returns ==
    /\ res \in {"ok"} \cup Errors
    /\ op' = "read" /\ type' = "none" /\ addr' = 0 /\ val' = NoValue
    /\ next' = 0
    /\ res' = "idle"
    /\ quiet' = FALSE
    /\ UNCHANGED << rdram, ready >>

Next ==
    \/ MemoryAppears
    \/ GameWrites
    \/ \E o \in {"read", "write"}, t \in Types, a \in Addr : Call(o, t, a)
    \/ MovesByte
    \/ Throws
    \/ \E a \in Addr : ReadMemory(a)
    \/ \E a \in Addr : WriteMemory(a)
    \/ Returns

Spec == Init /\ [][Next]_vars

-----------------------------------------------------------------------------
\* External: where the core keeps the byte at N64 address a, as a little endian
\* host stores words.
HostByte(a) == WORD * (a \div WORD) + (WORD - 1) - (a % WORD)

\* The N64's memory this implements: bytes in the game's order.
N64Bytes == [a \in Physical |-> rdram[HostByte(a)]]

Moved == {Place(op, type, i) : i \in 0 .. next - 1}

N64 == INSTANCE N64Memory WITH
    mem <- N64Bytes, moved <- Moved, Reversed <- FloatTypes

-----------------------------------------------------------------------------
TypeOK ==
    /\ rdram \in [Physical -> Byte]
    /\ ready \in BOOLEAN /\ quiet \in BOOLEAN
    /\ addr \in Addr
    /\ \/ /\ op \in {"read", "write"} /\ type \in Types
          /\ next \in 0 .. SizeOf[type]
          /\ val \in [Bytes(type) -> Byte \cup IF op = "read" THEN {NoByte} ELSE {}]
          /\ res \in {"pending", "ok"} \cup Errors
       \/ /\ op \in {"read_memory", "write_memory"} /\ type = "block"
          /\ next = 0 /\ val = NoValue /\ res \in {"ok"} \cup Errors
       \/ /\ op = "read" /\ type = "none" /\ addr = 0
          /\ next = 0 /\ val = NoValue /\ res = "idle"

\* A write that throws has changed nothing, even one across the end of the RAM
\* or of the address space: the bytes that may be missing there are tried
\* first. A value that begins before the RAM is the exception.
FailedWriteChangesNothing ==
    op = "write" /\ res \in Errors /\ LogicalBase <= addr => next = 0

\* The value of the last call, from its most significant byte on, is what lies
\* at its address in the order the game has it.
AsTheGameHasIt == \A k \in Bytes(type) : val[k] = N64Bytes[addr - LogicalBase + k]

\* An integer access the game does not get in the way of is one whole: when it
\* has moved its bytes one by one, the value is the one the game has there,
\* wherever in a word it begins.
QuietAccessIsWhole ==
    res = "ok" /\ quiet /\ type \in Types \cap IntTypes => AsTheGameHasIt

\* Claim of emulator.hpp:84 and 92, "Converting read functions", "Converting
\* write functions", of the overloads for floats: the value is the game's.
FloatsAsTheGameHasThem ==
    res = "ok" /\ quiet /\ type \in Types \cap FloatTypes => AsTheGameHasIt

\* Whatever the game does, every byte of a value is one that the memory had, or
\* gets, at its address; calls fail exactly if the value is not all in the RAM.
ImplementsN64Memory == N64!Spec

\* No block access returns, though emulator.hpp:78 and 80 promise to read and
\* write n bytes: the address they converted is converted again by read(), or the
\* one they did not convert is compared with the size of the RAM.
BlocksAlwaysThrow == type = "block" => res \in Errors
=============================================================================
