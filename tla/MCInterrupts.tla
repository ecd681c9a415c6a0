---------------------------- MODULE MCInterrupts ----------------------------
(* Exceptions with a handler, one the CPU treats as a double fault when it  *)
(* cannot be delivered, and two without a handler (7 and 18).  The handlers *)
(* lie in the kernel's window, one every 4 KiB: their addresses differ in   *)
(* bits on both sides of bit 16, where the fields of an entry part.         *)
EXTENDS Interrupts

MCException == {0, 3, 6, 7, 8, 13, 14, 18}
MCAddress(v) == 31 .. 63 \cup {b + 12 : b \in {c \in 0 .. 5 : (v \div 2 ^ c) % 2 = 1}}
==============================================================================
