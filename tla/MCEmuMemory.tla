----------------------------- MODULE MCEmuMemory ----------------------------
(* EmuMemory with two words of RAM and bytes of one bit. *)
EXTENDS EmuMemory

\* All clear, all set, and two that tell the bytes of a word apart by their ends
\* and by their halves.
Words == {<<0, 0, 0, 0>>, <<1, 1, 1, 1>>, <<0, 1, 1, 0>>, <<0, 0, 1, 1>>}
MCGameWords == {[i \in 0 .. WORD - 1 |-> w[i + 1]] : w \in Words}
=============================================================================
