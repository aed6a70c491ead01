----------------------------- MODULE RegScript -----------------------------
(***************************************************************************)
(* What an initialisation list promises: its entries are applied to the     *)
(* switch registers one at a time, in order, each in one step, and all of   *)
(* them eventually.  An entry is <<address, value>>, a write, or            *)
(* <<address, mask, bits>>, which keeps the bits of the mask and sets bits. *)
(***************************************************************************)
EXTENDS Integers, Sequences, Bits

CONSTANTS Default   \* what an unimplemented register reads as

VARIABLES regs,     \* the registers
          todo      \* the entries still to be applied

vars == <<regs, todo>>

Current(addr) == IF addr \in DOMAIN regs THEN regs[addr] ELSE Default

Value(entry) ==
  IF Len(entry) = 2 THEN entry[2] ELSE BitOr(BitAnd(Current(entry[1]), entry[2]), entry[3])

Apply ==
  /\ todo # <<>>
  /\ regs' = [a \in DOMAIN regs \cup {Head(todo)[1]} |->
                IF a = Head(todo)[1] THEN Value(Head(todo)) ELSE regs[a]]
  /\ todo' = Tail(todo)

Next == Apply

(* What is applied, and that it is. *)
Safety == [][Next]_vars
Liveness == WF_vars(Next)
=============================================================================
