---------------------------- MODULE BankedMemory ----------------------------
(***************************************************************************)
(* What the banked memory promises a program: bank registers, a RAM, and    *)
(* the bytes of the linear image.  There are no page tables: what a byte    *)
(* is follows from the registers.                                           *)
(***************************************************************************)
EXTENDS FlashImage

CONSTANTS Byte, Values, \* what a byte may be, what a program writes
          Open,     \* what an address without memory reads (0xff)
          Addresses, Commands  \* what a program puts into the flash registers

VARIABLES code,     \* the code bank, NoBank before one is selected
          data,     \* the data bank, 0 for the RAM
          top,      \* the last data bank other than 0, 0 if there was none
          ram,      \* the bytes below 0xc000
          adr, cmd, word  \* the flash registers

NoBank == -1
Flash(n, a) == Image[Common + (n - 1) * Window + (a - Common)]
Shared(a) == IF a + Header < Common THEN Image[a + Header] ELSE Fill

(* The image starts behind its header; bank 0 has no window                  *)
CodeByte(a) == CASE a < Common -> Shared(a)
                 [] a >= Common /\ code = NoBank -> Open
                 [] a >= Common /\ code = 0 -> Fill
                 [] OTHER -> Flash(code, a)

(* A data bank covers the RAM from Common up.  Bank 0 uncovers it, and leaves *)
(* the addresses above the RAM to the bank selected before.                 *)
InRam(a) == a < Common \/ (data = 0 /\ a < Window)
DataByte(a) == CASE InRam(a) -> ram[a]
                 [] ~InRam(a) /\ a < Window -> Flash(data, a)
                 [] OTHER -> IF top = 0 THEN Open ELSE Flash(top, a)

Init == /\ code = NoBank /\ data = 0 /\ top = 0
        /\ ram \in [0..Window - 1 -> Byte]
        /\ adr = 0 /\ cmd = 0 /\ word \in [0..3 -> Byte]

CodeBank(n) == code' = n /\ UNCHANGED <<data, top, ram, adr, cmd, word>>
DataBank(n) == /\ data' = n
               /\ top' = IF n = 0 THEN top ELSE n
               /\ UNCHANGED <<code, ram, adr, cmd, word>>
Store(a, v) == /\ ram' = IF InRam(a) THEN [ram EXCEPT ![a] = v] ELSE ram
               /\ UNCHANGED <<code, data, top, adr, cmd, word>>

SetAddr(x) == adr' = x /\ UNCHANGED <<code, data, top, ram, cmd, word>>
SetCmd(c) == cmd' = c /\ UNCHANGED <<code, data, top, ram, adr, word>>
SetData(i, v) == word' = [word EXCEPT ![i] = v] /\ UNCHANGED <<code, data, top, ram, adr, cmd>>

(* A read command takes its bytes from the bank its address is in, whichever  *)
(* banks are selected, and never goes on to the next: past the end of a bank  *)
(* it finds nothing, and nothing at Common itself, where the script still     *)
(* counts the shared area, which it reads without its header.                *)
BankEnds == {Common + b * Window : b \in 1..Banks}
FlashByte(x, i) ==
  CASE x <= Common -> IF x + i < Common THEN Shared(x + i) ELSE Fill
    [] x > Common /\ (\E e \in BankEnds : x < e /\ e <= x + i) -> Fill
    [] OTHER -> Image[x + i]
Execute == /\ word' = CASE cmd = 5 -> [word EXCEPT ![0] = Fill]
                        [] cmd = 187 -> [i \in 0..3 |-> FlashByte(adr, i)]
                        [] OTHER -> word
           /\ UNCHANGED <<code, data, top, ram, adr, cmd>>

Next == \/ \E n \in 0..Banks : CodeBank(n) \/ DataBank(n)
        \/ \E a \in 0..Size - 1, v \in Values : Store(a, v)
        \/ \E x \in Addresses : SetAddr(x)
        \/ \E c \in Commands : SetCmd(c)
        \/ \E i \in 0..3, v \in Values : SetData(i, v)
        \/ Execute

Spec == Init /\ [][Next]_<<code, data, top, ram, adr, cmd, word>>
=============================================================================
