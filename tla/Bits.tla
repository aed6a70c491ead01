-------------------------------- MODULE Bits --------------------------------
(* Bitwise operations on words of 16 bits, without recursion. *)
EXTENDS Integers, FiniteSetsExt

BitAnd(x, y) ==
  LET b(p) == IF (x \div p) % 2 = 1 /\ (y \div p) % 2 = 1 THEN p ELSE 0
  IN  b(1) + b(2) + b(4) + b(8) + b(16) + b(32) + b(64) + b(128) + b(256) + b(512)
        + b(1024) + b(2048) + b(4096) + b(8192) + b(16384) + b(32768)
BitOr(x, y) == x + y - BitAnd(x, y)
=============================================================================
