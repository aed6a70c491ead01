---------------------------- MODULE MCMemoryMap ----------------------------
EXTENDS MemoryMap

(* Every byte of the image is another one *)
NumberedImage == [i \in Linear |-> i + 1]
SomeByte == (0..Common + (Banks * Window)) \cup {200, 255}
(* A shared address, one in a window and over the RAM, one above the RAM      *)
SomeStored == {0, Common, Window}
SomeValues == {200}
(* The start of the image, the end of its shared area, and the first, the last *)
(* and an unaligned word of each bank; in between, one that crosses an end     *)
SomeAddresses == {0, 1, Common, Common + 1, Common + Window - 2}
                   \cup {Common + (b * Window) : b \in 1..Banks - 1}
                   \cup {Common + (b * Window) - 4 : b \in 1..Banks}
=============================================================================
