----------------------------- MODULE OpcodeTable -----------------------------
(***************************************************************************)
(* gen.c: from a listing of instructions (ops.txt and then genops.txt) to    *)
(* the table of labels and the bodies that core.c includes.  A line is blank,*)
(* starts with a tab, or is plain; a plain line has the fields it would have *)
(* as the head of a block, the name standing for the whole of its text.      *)
(***************************************************************************)
EXTENDS Integers, SequencesExt

CONSTANT Opcode   \* the opcodes that count, of the 256
ASSUME OpcodeAssumption == Opcode \subseteq 0..255

NULL == 0
None == ""

(* The variables of main() and the objects addop() allocated, which opmap     *)
(* points to.                                                               *)
Start == [op_name |-> None, op_idx |-> <<>>, op_bytes |-> 0, op_code |-> <<>>, op_desc |-> None,
          heap |-> <<>>, opmap |-> [o \in Opcode |-> NULL]]

addop(s, idx) ==
  [s EXCEPT !.heap = Append(@, [name |-> s.op_name, bytes |-> s.op_bytes,
                                code |-> s.op_code, desc |-> s.op_desc]),
            !.opmap[idx] = Len(s.heap) + 1]

(* A blank line or the end of the file: the first opcode gets a new object,   *)
(* every other one the object of the opcode before it.                       *)
FlushCopies(s) ==
  [FoldLeft(addop, s, s.op_idx) EXCEPT
     !.op_name = None, !.op_idx = <<>>, !.op_bytes = 0, !.op_code = <<>>, !.op_desc = None]

Flush(s) ==
  LET Point(t, i) == IF i = 1 THEN addop(t, s.op_idx[1])
                     ELSE [t EXCEPT !.opmap[s.op_idx[i]] = t.opmap[s.op_idx[i - 1]]]
  IN [FoldLeftDomain(Point, s, s.op_idx) EXCEPT
        !.op_name = None, !.op_idx = <<>>, !.op_bytes = 0, !.op_code = <<>>, !.op_desc = None]

Read(s, line) ==
  CASE line.form = "blank" -> Flush(s)
    [] line.form # "blank" /\ s.op_name = None ->
         [s EXCEPT !.op_name = line.text, !.op_idx = line.idx, !.op_bytes = line.bytes]
    [] line.form = "tab" /\ s.op_name # None -> [s EXCEPT !.op_code = Append(@, line.text)]
    [] line.form = "plain" /\ s.op_name # None -> [s EXCEPT !.op_desc = line.text]

(* The label of every opcode, and the bodies in the order of their first      *)
(* opcode; "emitted" keeps a body from being printed for an alias again.      *)
Label(s, o) == IF s.opmap[o] = NULL THEN "unimpl" ELSE s.heap[s.opmap[o]].name
Emit(s, o, emitted) ==
  IF s.opmap[o] \in Range(emitted) \cup {NULL} THEN emitted ELSE Append(emitted, s.opmap[o])
InOrder == SelectSeq([i \in 1..256 |-> i - 1], LAMBDA o : o \in Opcode)
Emitted(s) == FoldLeft(LAMBDA emitted, o : Emit(s, o, emitted), <<>>, InOrder)

Generated(lines) ==
  LET s == Flush(FoldLeft(Read, Start, lines))
      order == Emitted(s)
  IN  [insnmap |-> [o \in Opcode |-> Label(s, o)],
       bodies  |-> [i \in DOMAIN order |-> s.heap[order[i]]]]
=============================================================================
