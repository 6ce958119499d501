------------------------------ MODULE N64Memory -----------------------------
(***************************************************************************)
(* What IEmulator's read() and write() of src/net64/emulator/emulator.hpp  *)
(* give the client, in the N64's own terms: memory is a row of bytes that  *)
(* the running game changes a word at a time, and a client's access moves  *)
(* the bytes of one value, in any order, between its buffer and memory.    *)
(* An integer lies in memory with its most significant byte first, as the  *)
(* game wrote it; a float lies the other way round.                        *)
(***************************************************************************)
EXTENDS Integers

CONSTANTS
    Byte,          \* values of a byte
    NoByte,        \* a byte of a buffer that was not read yet
    LogicalBase,   \* LOGICAL_BASE, the address of the first byte
    RamSize,       \* RAM_SIZE
    AddrSpace,     \* number of values of an addr_t
    Types,         \* types an access can have
    SizeOf,        \* sizeof() of every type
    Reversed       \* the types stored with their least significant byte first

VARIABLES
    mem,      \* the N64's bytes, by physical address
    ready,    \* the emulator has memory
    op,       \* the client's call: "read" or "write"
    type,     \* type of the value
    addr,     \* address passed in
    val,      \* the value, most significant byte first
    moved,    \* which of its bytes have been moved
    res       \* "idle", "pending", and how the call ended

call == << op, type, addr, val, moved, res >>
vars == << mem, ready, call >>

Errors == {"INVALID_ADDR", "INVALID_STATE"}

NoValue == [k \in {} |-> NoByte]

Init ==
    /\ mem \in [0 .. RamSize - 1 -> Byte]
    /\ ready = FALSE
    /\ op = "read" /\ type = "none" /\ addr = 0 /\ val = NoValue
    /\ moved = {}
    /\ res = "idle"

Inside == LogicalBase <= addr /\ addr + SizeOf[type] <= LogicalBase + RamSize

\* Where in memory byte k of the value lies.
Place(k) ==
    addr - LogicalBase + IF type \in Reversed THEN SizeOf[type] - 1 - k ELSE k

MemoryAppears == ready' = TRUE /\ UNCHANGED << mem, call >>

GameWrites ==
    /\ UNCHANGED << ready, call >>
    /\ mem' \in [0 .. RamSize - 1 -> Byte]
    /\ \E w \in 0 .. (RamSize \div 4) - 1 :
          \A a \in 0 .. RamSize - 1 \ 4 * w .. 4 * w + 3 : mem'[a] = mem[a]

Calls ==
    /\ res = "idle"
    /\ op' \in {"read", "write"} /\ type' \in Types /\ addr' \in 0 .. AddrSpace - 1
    /\ val' \in [0 .. SizeOf[type'] - 1 -> IF op' = "read" THEN {NoByte} ELSE Byte]
    /\ moved' = {}
    /\ res' = "pending"
    /\ UNCHANGED << mem, ready >>

\* One byte, in any order. A write moves none unless all have a place, except
\* for the part in the RAM of a value that begins before it; a read may move
\* some that the caller, in the end, does not get to see.
MovesByte ==
    /\ res = "pending" /\ ready
    /\ op = "write" => Inside \/ addr < LogicalBase
    /\ \E k \in DOMAIN val \ moved :
          /\ Place(k) \in DOMAIN mem
          /\ moved' = moved \cup {k}
          /\ IF op = "read"
             THEN val' = [val EXCEPT ![k] = mem[Place(k)]] /\ mem' = mem
             ELSE mem' = [mem EXCEPT ![Place(k)] = val[k]] /\ val' = val
          /\ res' = IF moved' = DOMAIN val THEN "ok" ELSE "pending"
    /\ UNCHANGED << ready, op, type, addr >>

\* A call fails if its bytes do not all have a place.
Fails ==
    /\ res = "pending"
    /\ op = "write" => moved = {} \/ addr < LogicalBase
    /\ \/ ~Inside /\ res' = "INVALID_ADDR"
       \/ ~ready  /\ res' = "INVALID_STATE"
    /\ UNCHANGED << mem, ready, op, type, addr, val, moved >>

\* Access to a block fails, wherever the block is.
BlockFails ==
    /\ res = "idle"
    /\ op' \in {"read_memory", "write_memory"} /\ type' = "block"
    /\ addr' \in 0 .. AddrSpace - 1
    /\ val' = NoValue /\ moved' = {}
    /\ res' \in Errors
    /\ UNCHANGED << mem, ready >>

\* The caller is done with the value or the error.
Returns ==
    /\ res \in {"ok"} \cup Errors
    /\ op' = "read" /\ type' = "none" /\ addr' = 0 /\ val' = NoValue
    /\ moved' = {}
    /\ res' = "idle"
    /\ UNCHANGED << mem, ready >>

Next ==
    \/ MemoryAppears \/ GameWrites
    \/ Calls \/ MovesByte \/ Fails \/ BlockFails \/ Returns

Spec == Init /\ [][Next]_vars
=============================================================================
