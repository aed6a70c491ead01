--------------------------- MODULE MCSecondStack ---------------------------
EXTENDS SecondStack

NoPacket == <<>>
(* Bytes around the wrap of SSP and around a carry between its halves; 0xffff *)
(* has no memory behind it, as in the script's map                          *)
SomeMapped == {0, 255, 256}
SomeBytes == {0, 1, 255}
Close == (-258..-254) \cup (-3..3) \cup (253..258) \cup (65278..65282) \cup (65533..65539)
=============================================================================
