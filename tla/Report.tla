------------------------------- MODULE Report -------------------------------
(***************************************************************************)
(* The text the firmware promises on the serial port, as bytes.             *)
(***************************************************************************)
EXTENDS Integers, Sequences, SequencesExt

Digit(n) == IF n < 10 THEN 48 + n ELSE 87 + n       \* 0..9, a..f
Hex(b) == <<Digit(b \div 16), Digit(b % 16)>>
Hex16(w) == Hex(w \div 256) \o Hex(w % 256)
Newline == <<13, 10>>
Blank == <<32>>

Together(texts) == FoldLeft(LAMBDA text, t : text \o t, <<>>, texts)

(* n bytes from an address on, sixteen to a line; byte(a): the byte shown for *)
(* address a.  A line begins with its address and ends after 16 bytes only:  *)
(* a full one has 5 characters for the address, 3 for each byte and 2 more.   *)
DumpLength(n) == 55 * (n \div 16) + (IF n % 16 = 0 THEN 0 ELSE 5 + 3 * (n % 16))
DumpByte(byte(_), from, k) ==
  LET col   == k % 55
      at(i) == (from + 16 * (k \div 55) + i) % 65536
  IN  CASE col < 5  -> (Hex16(at(0)) \o <<58>>)[col + 1]
        [] col > 52 -> Newline[col - 52]
        [] OTHER    -> (Blank \o Hex(byte(at((col - 5) \div 3))))[((col - 5) % 3) + 1]
HexDump(byte(_), from, n) == [k \in 1..DumpLength(n) |-> DumpByte(byte, from, k - 1)]
=============================================================================
