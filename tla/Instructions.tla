---------------------------- MODULE Instructions ----------------------------
(***************************************************************************)
(* The emulator from its listing to a running program: gen.c builds the      *)
(* table, and the instructions of LongArithmetic go through it, every opcode *)
(* to the code its label has.                                               *)
(***************************************************************************)
EXTENDS OpcodeTable, LongArithmetic

CONSTANTS Listings,   \* listings that are only built ...
          Emulator,   \* ... and one whose programs run
          Flags,      \* the flags programs start with
          MaxWeight   \* bound: where the numbers end

(* A listing as its author sees it: blocks                                   *)
VARIABLES blocks, built
instructionVars == <<blocks, built, longVars>>

Line(form, text, idx, bytes) == [form |-> form, text |-> text, idx |-> idx, bytes |-> bytes]
Blank == Line("blank", None, <<>>, 0)
Plain(text) == Line("plain", text, <<>>, 0)
Tab(text) == Line("tab", text, <<>>, 0)
BlockLines(k) ==
  <<Line("plain", k.name, k.idx, k.bytes)>>
    \o (IF k.desc = None THEN <<>> ELSE <<Plain(k.desc)>>)
    \o [i \in DOMAIN k.code |-> Tab(k.code[i])]
Lines == FoldLeft(LAMBDA lines, k : lines \o BlockLines(k) \o [i \in 1..k.gap |-> Blank], <<>>, blocks)

InstructionsInit ==
  /\ Init /\ psw \in Flags
  /\ blocks \in Listings \cup {Emulator}
  /\ blocks # Emulator => kind = "sum" /\ psw = {}
  /\ built = <<>>

Build == built = <<>> /\ built' = Generated(Lines) /\ UNCHANGED <<blocks, longVars>>

(* FETCH: goto *insnmap[op]                                                  *)
Running == built # <<>> /\ blocks = Emulator
Executes(op, code) == \E i \in DOMAIN built.bodies : /\ built.bodies[i].name = built.insnmap[op]
                                                     /\ built.bodies[i].code = <<code>>
MovA == Executes(229, "mov_a")
Insn == \/ MovA /\ w < MaxWeight /\ Load
        \/ Executes(53, "addc") /\ AddLimb
        \/ Executes(149, "subb") /\ SubLimb
        \/ Executes(212, "da") /\ Adjust
        \/ Executes(164, "mul") /\ Multiply
        \/ Executes(37, "add") /\ AddHigh
        \/ Executes(245, "mov_iram") /\ Store
        \/ MovA /\ Executes(52, "addc") /\ CarryHigh
Execute == Running /\ Insn /\ UNCHANGED <<blocks, built>>

Rest == /\ built # <<>> /\ (Running => at = "load" /\ w >= MaxWeight)
        /\ UNCHANGED instructionVars

InstructionsSpec == InstructionsInit /\ [][Build \/ Execute \/ Rest]_instructionVars

-----------------------------------------------------------------------------
Owner(o) == {k \in DOMAIN blocks : o \in Range(blocks[k].idx)
                /\ \A l \in DOMAIN blocks : o \in Range(blocks[l].idx) => l <= k}

(* Every opcode goes to the last block that lists it, to "unimpl" when none   *)
(* does, and exactly the blocks that an opcode goes to have a body, each one  *)
(* with all its lines: no two bodies share a label, which C would refuse, and *)
(* no label is without a body (gen.c:97-112).  The listings need it: subb has *)
(* bodies in ops.txt and in genops.txt.                                      *)
Body(k) == [name |-> k.name, bytes |-> k.bytes, code |-> k.code, desc |-> k.desc]
TableRight ==
  built # <<>> =>
    /\ \A o \in Opcode :
         built.insnmap[o] = IF Owner(o) = {} THEN "unimpl" ELSE blocks[CHOOSE k \in Owner(o) : TRUE].name
    /\ Range(built.bodies) = {Body(blocks[k]) : k \in UNION {Owner(o) : o \in Opcode}}
    /\ Len(built.bodies) = Cardinality(UNION {Owner(o) : o \in Opcode})
=============================================================================
