------------------------------- MODULE Words -------------------------------
(* Words of 16 bits and their halves. *)
EXTENDS Integers

Byte == 0..255
Word == 0..65535
Hi(w) == w \div 256
Lo(w) == w % 256
Pair(h, l) == 256 * h + l
Wrap(n) == n % 65536
=============================================================================
