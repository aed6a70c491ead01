# A verification of rtl83xx-experiments

The repository holds an emulator for the 8051 cores inside Realtek RTL83xx
switches (`src/8051emu`), firmware experiments for two of those switches
(`src/rtl8367`, `src/rtl8372`), and a processor description for Ghidra
(`src/ghidra`). This directory models the parts that have logic of their own in
TLA+, checks them with TLC and proves theorems about the central ones with
TLAPS.

- [The system](#the-system): parts, state, interactions, what is hard
- [The modules](#the-modules): which models what, and how it corresponds to the code
- [The runs](#the-runs): what each one checks, its bounds, the fairness
- [The proofs](#the-proofs): what is proved, from what, along which argument
- [Findings](#findings)
- [What is not modelled, and the plan](#what-is-not-modelled-and-the-plan)

## The system

### Parts and what makes each one correct

| Part | State it keeps | Operations | It is correct when |
|---|---|---|---|
| Interrupt controller (`core.c` 701-873) | `irqpendl0`, `irqpendl1`, `irqlevel`; IE, IP and source bits in SFRs | `sfr_notify_irq` after a register write, `handle_irq` at a fetch, `irqlevel_reti` | the masks follow the registers; a routine starts only for a justified request, above what is in service; nothing is blocked for ever |
| UART (`main.c` 134-210, 567-634) | SCON, SBUF, `uart_fd`, `uart_mutex` | listener thread, SCON and SBUF accesses of the CPU, PCON handler of `rtl8372.lua` | a receiving firmware gets each byte once and in order; a bit of SCON changes only by its owner; no deadlock |
| Instruction core (`core.c`, `ops.txt`, `genops.py`, `gen.c`) | accumulator, B, PSW, stack, program counter | one per instruction | each instruction computes what the 8051's does |
| RTL8367S script (`rtl8367s.lua`) | `soc_regs`, INDACC and PEDMA registers, `ssp`, banks, SPI registers, timer | one hook per SFR | the register port, the second stack, the packet copy and the flash window act as the chip's |
| RTL8367 assembler firmware (`rtl8367/asm/hello.s`) | registers R0-R7, DPTR, stack | register lists, port initialisation, hex dump, packet loop | lists are applied, PHY registers are reached under their own prefix, packets are acknowledged after use, every routine ends |
| Memory map, banks, flash window (`core.c` 97-205, 296-318; `rtl8367s.lua` 12334-12404; `unpackrtl.py`) | code and XRAM page tables, guard bits, bank and SPI registers | `map_rom`, `map_xram`, bank hooks, CACHE_CTRL | an address reads the byte the bank registers select; no store reaches the image |
| Data space and register window (`core.c` 206-294, `main.c` 212-221) | RAM, trap bits, register pointer | `readd`, `writed`, `readi`, `writei`, default traps | R0-R7 follow PSW; direct and indirect accesses reach their own space |
| Opcode table and generator (`ops.txt`, `genops.py`, `gen.c`) | `op_*`, `opmap` while it runs | a line read, a block flushed, the table printed | each opcode goes to the last block that lists it, and each such block has one body |
| RTL8372 script (`rtl8372.lua`) | `soc_regs` of 32 bits, four data bytes, `ssp`, banks, SPI registers | one hook per SFR | as for the RTL8367S |
| RTL8372 assembler firmware (`rtl8372/hello.asm`) | as for the RTL8367 | pattern in XRAM, three dumps in three banks, dump of the registers | what it prints is what the machine holds |
| RTL8367 C firmware (`rtl8367/sdcc/hello.c`) | none beyond SFRs | `putchar`, initialisation | it waits for TI before it sends |
| Timer 0 (`rtl8367s.lua` 12365-12380) | a counter | TL0 and TH0 reads | the two halves belong together |
| Lua bindings, options, start-up (`main.c`) | named buffers, hook table | `map_*`, `peek_*`, `poke_*` | arguments are checked |
| Trace, breakpoints, register print | options | printing | nothing changes |
| nRF24, nRF24LE, TUSB3200 scripts | | | they stop while they load |
| Ghidra description, register tables, headers | data | | |

### How the parts interact

- **The CPU loop** fetches with `nextop`, which may first enter an interrupt
  routine, then executes. Every access to internal data goes through `readd`
  and `writed`. An address with a trap bit goes to `ramd_get` or `ramd_put` in
  `main.c`, which handle SCON and SBUF themselves and call the chip script's Lua
  hook for the others. Hooks call back through `emu.peek_*` and `emu.poke_*`
  and change the memory map with `emu.map_*`.
- **Notifiers**: after a write, `sfr_notify` calls the functions registered on
  that register. `sfr_notify_irq` is one per interrupt; it is the only code that
  recomputes the pending masks.
- **The listener thread** accepts a TCP connection, receives a byte at a time,
  and stores it into SBUF and sets RI under `uart_mutex`. It runs no notifier.
- **The firmware** meets the device through the indirect access port
  (INDACC_*), the packet copy (PEDMA_*), the second stack (SSPH, SSPL, SSIO), the
  bank registers, and the UART.

### What is hard here

Two threads share SCON and SBUF, and the lock covers less than the operations
that matter: a bit instruction on SCON takes it once to read and once to write,
and a transmit reads SCON without it. The pending masks are a cache of three
registers and a source another thread changes. `irqlevel` is one small integer
for two nested levels. The page tables are what is left of every earlier bank
switch. The firmware addresses PHY registers through a prefix that any other
access may have changed, drives a port whose data registers keep their last
values, and polls without timeouts. The emulator keeps a 16-bit pointer in an
integer that is never reduced. The hazards, each at its line and with the
properties that cover it, are in `PROJECT.json`.

## The modules

`A → B` below means that `B` extends `A`; `implements` that a run checks, or a
theorem proves, the refinement.

```
IrqService   ◁ implements ─ IrqCtl → MCIrqCtl,  IrqCtl → IrqCtl_proofs
ByteChannel  ◁ implements ─ Uart → UartFirmware → UartFirmware_proofs
BankedMemory ◁ implements ─ FlashImage → MemoryMap → MCMemoryMap, MemoryMap_proofs
Words → Soc → Soc72;  Alu, Bits, Soc72 → Core → Hello → Hello72;  Hello, Report → Routine
RegScript    ◁ implements ─ InitList ┐
  PortInit, HexDump, MainLoop, TestDump ┴→ Routines → MCRoutines, Routines_proofs → Firmware_proofs
StackPointer16 ◁ implements ─ Soc → SecondStack → MCSecondStack, SecondStack_proofs
DataSpace → MCDataSpace, DataSpace_proofs
OpcodeTable, LongArithmetic → Instructions → MCInstructions
Alu → LongArithmetic → LongArithmetic_proofs
```

In every module a definition that stands directly before another one and has a
similar name (`BlockedOnlyAbove` before `Blocked`, `FillUnlocks` before `Fill`)
is not part of the model. It is the definition as a plausible bug would have
it; `PROJECT.json` lists, for each checked property, the replacement that
TLC must find to break it.

### IrqService, IrqCtl

`IrqService` promises: a routine starts only for a source that asks for service
at that moment, on the level the firmware gave it, and only above every level in
service; routines end in reverse order.

`IrqCtl` is the controller. Bit masks over interrupt numbers are sets.

| Model | Code |
|---|---|
| `Fetch` | `nextop` and `handle_irq` (`core.c` 797-873): EA, high mask before low mask, highest number first, `irq_vec`'s early return |
| `WriteIE`, `WriteIP`, `WriteSource` | a store through `writed`, followed by `sfr_notify` of the written register's watchers |
| `Notify(i)` | `sfr_notify_irq`, one notifier at a time and in the order of the list |
| `Reti` | RETI and `irqlevel_reti`, with the fall through of its switch |
| `Raise(i)` | another thread asserts a source and runs no notifier |
| `frames` | history: the routines entered and not yet left |

An instruction is the steps between `Fetch` and `EndInsn`, any number of
register writes, each with all of its notifiers before anything else. Firmware
is arbitrary, except that it leaves a routine with RETI and uses RETI nowhere
else; vectors are not modelled, since only the number matters.

### Uart, UartFirmware, ByteChannel

`Uart` has one action for each section between two lock operations of either
thread, and cuts a section where a shared variable is used without the lock:
the load of `uart_fd`, the `write` to the descriptor, the reads of SCON by a transmit and by a
notifier, and the two halves of `|=`. Every order of these steps that the mutex
permits is a behaviour; finer interleavings, of the loads and stores inside one of
them, are not, since nothing in them is shared and unlocked.

| Model | Code |
|---|---|
| `cpu` = `lockRd`/`rd`, `lockWr`/`wr` | `ramd_get(SCON)` and `ramd_put(SCON)`; a bit instruction is both, JBC reads once more |
| `send`, `write`, `lockSb`/`sb`, `peek`, then `lockWr`/`wr` | `ramd_put(SBUF)`: load of `uart_fd`, write to it, SBUF under the mutex, SCON without it, `poke_sfr(SCON)` |
| `lockGet`/`get` | `ramd_get(SBUF)` |
| `notify` | `sfr_notify_irq`'s own read of SCON, without the mutex |
| `Accept` ... `RaiseRI` | `uart_listener_thread`; `*sfr_scon \|= SCON_RI` is a load and a store |
| `RecvError` | `recv` returns -1, which the code does not test for: the loop goes on with a byte it did not receive |
| `LoadFd`, `Write` | `write(uart_fd, ...)` (`main.c` 189). The descriptor that was loaded may be the terminal's although the listener has stored a socket since (`wfd`). A byte goes to the terminal, to the peer, or to nobody when the descriptor is closed; to a connection whose peer has answered with a reset it raises SIGPIPE, which nothing handles, and the process is `dead` |
| `WrittenOpen`, `Sleep`, `Wake` | the socket is a blocking one: a byte may be the one that fills its buffers (`stalled`), and the next `write` sleeps until the peer reads or resets, keeping the connection it sleeps in whatever the listener does with the descriptor |
| `Connect`, `PeerSend`, `Drain`, `Close`, `Reset`, `Refuse` | external: a TCP client, one connection after another, which may stop reading for ever, and whose end answers a byte that comes after its close |
| `late`, `fate`, `spent`, `missed` | history: RI was set after the instruction at hand read SCON; where the byte being transmitted went; the connection was written after its peer left; a byte went elsewhere while an open connection was served |

The network is simpler than TCP in this: a close with bytes unread counts as the
reset that it is; a peer does not close only one direction; and the terminal never blocks.
Of the descriptors, the first client connects after the scripts have been loaded and
nothing else opens one while the emulator runs, so that `accept` returns the number
that was closed last.

`Uart` lets the CPU issue any UART instruction at any time. `UartFirmware`
restricts it to one of three programs: a receiver; a receiver that echoes
through `serial_write` (`hello.s`, `hello.asm`; `putchar` of `hello.c` waits for TI
in the same way); and an idle loop that writes PCON until the UART's interrupt
is taken, which relies on the PCON handler of `rtl8372.lua` to store SCON back.
The firmware of the repository only transmits: of the three loops, `serial_write` and the
instructions are its code, the receiving and idling around them are not. They are
marked external, and stand for the firmware the emulator's receiver is there for.
`ByteChannel` is what the receiver implements: every byte once, in order, at last.
Its `Safety` is the first two, its `Spec` all three. A connection that is reset
delivers a byte that nobody sent (`RecvError`), so that what a firmware reads is
promised only while `resets` is 0.

### Words, Bits, Alu, Soc, Core

`Core` runs decoded programs: functions from labels to blocks of instruction
tuples. It has the instructions of the two assembler firmwares, with the flags as
`Alu` computes them from `core.c` and `ops.txt`. `Soc` is the device as
`rtl8367s.lua` emulates it, a record with one operator per hook; reading and
writing a hooked SFR are `Get`/`AfterGet` and `Put`. Two fields of the record are
history: `log`, the switch register writes, and `ocp`, the PHY address of the
last PHY read. Register 0x1a04 reads to zero, PHY registers read 0xdead, every
poll reads as done, and PEDMA copies the canned packet, 0xff past its end.

Two arithmetic peculiarities are kept as they are in the code: SUBB's half
borrow loses a carry into a nibble of 0xf, and MUL loses every flag but OV.
The program counter is a label and an index: instruction addresses are not
modelled.

`Soc72` is what `rtl8372.lua` has beside that: one 32-bit register behind four
data bytes, registers that clear themselves, code and data banks that start at
0x4000, SCON and PCON. A job with a flash image runs on it (`IsRtl8372`), the
others on `Soc`. Two habits of the script are kept: a data bank is mapped up to
0xffff and bank 0 only up to 0xbfff, so that the pages from 0xc000 on keep the last
bank; and a write of PCON always asserts timer 2, since 0 is true in Lua.

### Hello, Hello72, Routine, Report, and the firmware's routines

`Hello` holds the firmware of `hello.s`, block by block; `Hello72` what
`hello.asm` of the RTL8372 has of its own. `Routine` describes a
call: a `job` names the routine and its arguments, and `want` holds the bytes or
accesses it promises. Each of the five modules below has the call, the meaning
of its job, and its properties; `Routines` puts them together. The job of
`reg_from_initlist` has the list (`list`), the address of each entry (`at`) and the
bytes of code memory (`bytes`), with `Assembled` to relate them: the list may lie
anywhere, as long as it ends three bytes before the end of code memory
(`CodePlace`), and be any list that modifies only registers that read back what
was written (`Changeable`), as every list of the firmware does.

| Module | Routine | What it promises |
|---|---|---|
| `InitList` | `reg_from_initlist` | `AppliesList`: every step applies the next entry of `RegScript` or none (`Script!Safety`), and it stops at the zero word and nowhere else. That every entry is applied (`Script!Liveness`) is part of `Completes` |
| `PortInit` | `port_init1`, `phyocp_reg_addr` | `FollowsPlan`: each write is the next of the plan and reaches the PHY register meant; `ReachesRegister`: so does an address from the dump, and only the prefix is written |
| `HexDump` | `hexdump` | `PrintsDump`: what is sent is always the beginning of the dump, XRAM stays as it is, and DPTR ends behind the last byte |
| `MainLoop` | `system_init` from the register dump on, `rx_loop` | `Transcript`: what is sent, with the PHY register each line names; `AckAfterUse`; and `AckIsOne`, which the code violates |
| `TestDump` | `system_init` of `hello.asm`, to its end | `PrintsMachine`: the dumps are what is in code memory, XRAM and the registers, and the one register written keeps its other 31 bits |

### DataSpace

The array `ramsfr`, the pointers into it, the trap bits, and every way the
instructions reach an operand. Upper RAM lies behind the registers in the same
array: `readi` and `writei` skip them (`At`). The results of arithmetic are any
value where no place depends on them; SCON and SBUF are `Uart`'s.

| Model | Code |
|---|---|
| `Readd`, `Writed` | `core.c` 225-268: a trapped register's hook decides what is read and kept (`Device`, `Answer`: external) |
| `Moved` | the DPS case of `ramd_put`, and the PSW case of `default_ramd_put`, which `main.c` 218 keeps from being reached |
| `IncIndirect`, `DecIndirect`, `XchdIndirect`, `AddIndirect` | `ops.txt`: @Ri taken as a direct address; DEC adds one |
| `Pushed` | `core.c` 50: with PUSH SP the value is the old or the new pointer, since C orders neither first |
| `base`, `frames`, `intact` | history: the stack as pushed, and whether an operand named a byte of it |

`Names` says, by the addressing of an 8052, which places an instruction names:
R0-R7 in the bank that PSW selects, @Ri in RAM. `SpacesApart` says that an
instruction changes no other. The emulator breaks that in two ways, which
`Deviates` describes and `SpacesApart` excepts: it has no bank but the first, and it takes @Ri
for a direct address in INC, DEC, XCHD and arithmetic. `ActsAs8052` states what
should be there, and that DEC @Ri takes one away; the code violates each part of it
(`IncAtRi`, `RegistersFollowPsw` and `DecAtRi`). An instruction that deviates starts a new stack as far as `StackLifo` is
concerned, since it may have hit SP or a byte of it.

### OpcodeTable, LongArithmetic, Instructions

`OpcodeTable` is `gen.c`: lines in, the table of labels and the bodies out; the
objects it allocates are positions of `heap`, and aliases share one. A body is a
name here. `LongArithmetic` are programs of any length that add, subtract, adjust
and multiply numbers of many bytes with the instructions of `Alu`; `x`, `y`, `r`
and `w` are history. `Instructions` puts them together: a listing is built, and
the programs run through the table that came out, each opcode to the code its
label has. Its listing is an excerpt of the emulator's, the instructions that the
arithmetic needs, in the order of `ops.txt` before `genops.txt`, with SUBB
in both.

`gen.c` 74 appends to memory that `malloc` has not cleared, and its line buffer has
80 bytes: no line of the listings is that long, and the memory is zero in
practice, so neither is modelled.

### SecondStack, StackPointer16

`SecondStack` is the script's `ssp`, a Lua integer that pushes, pops and
register writes never reduce to 16 bits, on any XRAM. `StackPointer16` is the
16-bit register of `8051_main.sinc`. The refinement maps `ssp` to `ssp mod 2^16`.

### FlashImage, BankedMemory, MemoryMap

`FlashImage` has the linear image, the file `unpackrtl.py` makes of it, and
the arithmetic of `rtl8367s.lua` that finds a linear address in that file.
`MemoryMap` has the tables. The code maps whole pages of 256 addresses; the
tables of the model have one entry per address, so that sizes are parameters:
`Common` (0x4000 in the code) and `Window` (0xc000).

| Model | Code |
|---|---|
| `Readc`, `Readx` | `core.c` 165-178, 296-304: the tables, 0xff without memory |
| `Writex` | `core.c`: the guard first, then the table |
| `WriteCodeBank`, `WriteDataBank` | the CODE_BANK and DATA_BANK hooks with their `map_rom` and `map_xram` calls, `CodeMap`, `DataMap`, `Guard` |
| `WriteCacheCtrl` | the CACHE_CTRL hook; every value starts the command, since 0 is true in Lua |
| `topbank` | history: the last data bank other than 0 |

`BankedMemory` has no tables: which byte an address has follows from the
registers. Three things in it are worth reading, because they are what the code
does rather than what one would expect. The data pages 0xc0-0xff keep the last
bank after DATA_BANK 0 (`top`). Code bank 0 shows an empty window. And a flash
read (`FlashByte`) brings the linear image's bytes only as far as the bank of its
address goes: past the end of the bank it finds zeros, where the image goes on; at
`Common` itself it finds only zeros, since the script's comparison `adr > 0x4000` leaves
that address to bank 0; and below it the bytes are those two further on, since the
file has no header. `ActsBanked` states all of this, for every address, aligned or
not: `BankedMemory` is what the code makes of the flash window, and where it strays
from the linear image (`FlashByte`'s first two cases) no run calls it a violation;
see the end of the findings. The SPI registers start at 0, as the script sets them
in its lines 8-15.

## The runs

Every run is exhaustive for its bounds. "Violation" runs check one statement the
repository makes of the program and that the code breaks.

| Run | Module, config | States | Question |
|---|---|---|---|
| `irq_flat` | `MCIrqCtl`, `IrqFlat.cfg` | 810 | With IP at zero, does the controller implement `IrqService`, without nesting, and is a request never blocked for ever? |
| `irq_two_levels` | `MCIrqCtl`, `IrqTwoLevel.cfg` | 56,400 | With sources moved between two levels, do the pending masks follow the registers, is every entry justified, and is a high routine always on top? |
| `irq_bitmask` | `MCIrqCtl`, `IrqBitmask.cfg` | violation | Is `irqlevel` the bit mask of the levels in service? |
| `uart_any` | `Uart`, `UartAny.cfg` | 303,441 | Whatever the firmware does: who changes which bit of SCON, when can a received byte be lost, who holds the mutex, whose bytes are delivered, where does a transmitted byte go, what can keep an instruction from ending? |
| `uart_firmware` | `UartFirmware`, `UartFirmware.cfg` | 228,622 | Does a receiver get every byte once and in order, over any number of connections? What can an echoing one lose? Does the wait for TI end? Does an idling one notice every byte? |
| `routines` | `MCRoutines`, `Routines.cfg` | 150,485 | Does every routine do what it promises, from each of its jobs, and end? |
| `packet_ack` | `MCRoutines`, `PacketAck.cfg` | violation | Is the command that acknowledges a packet 1? |
| `second_stack` | `MCSecondStack`, `SecondStack.cfg` | 4,968 | Is the unreduced pointer indistinguishable from the 16-bit register? |
| `memory_map` | `MCMemoryMap`, `MemoryMap.cfg` | 194,560 | Do the tables, under every order of bank switches, stores and flash reads, show the image and the RAM as the registers select them? |
| `data_space` | `MCDataSpace`, `DataSpace.cfg` | 131,154 | Does every instruction, save those that deviate, change only what its operands name, whatever pointers and hooks did before, and does the stack return what was pushed? |
| `as_8052` | `MCDataSpace`, `As8052.cfg` | violation | Do INC and DEC @Ri count in the RAM that Ri names, and are R0-R7 in the bank of PSW? |
| `instructions` | `MCInstructions`, `Instructions.cfg` | 42,505 | Does `gen.c` make the table a listing means, and does the emulator it makes compute long numbers exactly? |

### What the UART runs say

A byte's RI is lost in two ways only: an instruction clears it on purpose, or
it stores a copy of SCON it read before the byte arrived (`RiLossWindow`). A
firmware that only clears RI when it is set is safe, since the listener leaves
SCON alone while RI is set (`NoOverrun`, `InOrderDelivery`). One that also
transmits is not: it may lose a byte to CLR TI and another to MOV SBUF, and no
more than these two for each byte it echoes (`EchoLossBound`). It never sees a
byte twice (`NoDuplicate`). The bound is that of the two store instructions, and
no other path loses one. Both hold while no connection has been reset: after a
reset the thread stores the byte it had before once more (`RecvError`). TI is never lost to the listener
(`TiOnlyByCpu`, `TransmitEnds`). A byte whose write returns while an open
connection is served has reached its peer, although `uart_fd` is read without the
mutex (`ServedIsHeard`), with two exceptions that the unlocked read makes: one byte in the
life of the process may go to the terminal, its descriptor loaded before the listener
stored the first socket; and a byte that slept in a connection which has been closed since is lost.
An instruction ends unless it is a transmit that sleeps for ever, to a peer that
keeps the connection and never reads again: the CPU thread executes nothing more then
(`InstructionEnds`). The first one after the peer has closed is lost without harm,
the second may end the emulator (`FirstWriteForgiven`). What the interrupt controller believes of the
UART is wrong only by a byte that has just arrived (`StaleOnlyAfterArrival`), and
the PCON handler's store repairs that (`ArrivalNoticed`).

### Bounds, and why they are enough

- **Interrupts**: two interrupts, 4 (UART, asserted by the other thread) and 5
  (CPU only): one of each kind, in both orders of priority. `MaxNest` 3 is one
  more than two levels can hold, so that a low routine entered above a high one
  would show; it also admits the third routine that the fall through of RETI
  allows. With one level 2 suffices.
- **UART, any instruction**: `MaxRx` 1 byte and `MaxReset` 1 reset. The second
  byte that an overrun needs is the one a reset delivers; a
  lost RI needs one byte only. The number of connections is not bounded. Order
  and duplication are questions for the other run. The properties proved about
  this module hold for any number of bytes and resets.
- **UART, firmware**: 5 bytes, since `EchoLossBound` allows two losses for each
  echo: a first echo and its two losses, and a violation after them, need four
  or five. No resets: what a reset delivers is in `uart_any`. The theorems have
  neither bound.
- **Routines**: jobs are chosen for coverage, with the reasons in the comments of
  `MCRoutines`: lists of up to two entries with each kind of address, and the
  entries of the firmware's own lists that meet one another; EEE registers all
  clear and all set; every bit of each field of a PHY address; line lengths
  around 16, a page boundary, the wrap of DPTR and the borrow into R0; ring
  positions with and without a carry. The dump of switch registers starts 2
  registers before its end (`FirstReg` 8190 instead of 0), that of PHY registers 4
  before (`FirstPhy` 54264): the loop is the same, its length is not a branch.
  A routine starts with all flags clear, and with C and F0 set.
- **RTL8372 test**: two bytes of each 256 that `hexdump_partial` prints
  (`PartSize`), the end of SRAM for the pattern (`FirstFill` 0xbffc), the last three
  registers (`FirstWord` 0xfff4), texts of two bytes, an image in which every
  bank and part differs. The loops are the same and have no branch on what is
  cut off; the borrow of 256 bytes is a job of `hexdump`.
- **Data space**: programs of `MaxInsns` 3 instructions, after a prologue that
  puts SP at reset, at the end of lower RAM and at the end of upper RAM, and R0 on
  either side of 0x80; 40 instructions, one or more of each kind and with the
  operands that meet: SP, DPS, the pairs of DPTR, PSW, CACHE_CTRL and its namesake.
- **Instructions**: every listing of up to two blocks, and some of three, of seven
  opcode lists, with aliases in any order; numbers of two bytes (decimal ones of three) from
  bytes that set and clear every flag.
- **Second stack**: `Near`, the pointers within a few steps of each place where a
  half or the whole wraps: -256, 0, 256, 65280 and 65536. Three mapped bytes.
- **Memory map**: `Common` 4, `Window` 8, two banks, every byte of the image
  different. Stores to a shared address, to one under a data bank, and to one
  above the RAM. Flash addresses: the first and last word of each bank,
  an unaligned one, one that crosses the end of a bank, the start of the image and
  an address whose word crosses the end of the shared area.

Deadlock is checked in every run. A routine that is over stutters (`Finished`).

### Fairness, and why the code justifies it

- `IrqCtl`: the CPU loop never stops (WF of `Fetch` and `Notify`); an instruction
  makes finitely many writes (SF of `EndInsn`, since `Notify` takes `EndInsn`'s
  guard away between writes); interrupt routines end (SF of `Reti`). The last is an
  assumption on firmware, not on the emulator. `Raise` is not fair.
- `Uart`: both threads run (WF of `CpuStep` and `ListenerStep`). A thread that
  wants the mutex gets it (SF of the two lock actions): the other one sleeps or
  executes other instructions between two of its lock sections, so the mutex is
  free again and again for long. The peer is not fair: it may stay silent, and it
may stop reading (no fairness of `Drain`), which is why a `Write` that sleeps
need not be enabled again.
- `UartFirmware`: in addition the CPU loop issues the next instruction (WF).
- `Routines`: the core executes the next instruction (WF of `NextInsn`).

## The proofs

TLC shows the properties on small instances; these theorems hold for every value
of the constants that satisfies the named assumptions, which TLC evaluates on
each run. No fact is taken without proof.

| Module | Theorem | States |
|---|---|---|
| `IrqCtl_proofs` | `TypeCorrect` | `TypeOK` |
| | `PendingIsSound`, `PendingIsComplete` | the masks follow the registers |
| | `AcceptIsJustified` | a routine starts only for a request that stands at that fetch |
| | `HighIsInnermost`, `HighIsNotPreempted` | a high routine is on top, and nothing interrupts it |
| | `FlatDoesNotNest`, `FlatImplementsService` | with IP at zero: `NoNesting`, and `IrqCtl` implements `IrqService` |
| `UartFirmware_proofs` | `UartTypeCorrect`, `LockIsDisciplined` | types, and who holds the mutex |
| | `StaleIsArrival`, `TiIsTheCpus`, `RiLossIsLate`, `NoOverrunHolds`, `JunkIsAfterReset` | the properties of `uart_any` they are named for |
| | `ServedAreHeard`, `FirstWriteIsForgiven` | where a transmitted byte goes, and what ends the process |
| | `FirmwareIsSequence` | each of the three programs is a behaviour of `Uart`, so that its theorems hold of them |
| | `NoDuplicateHolds`, `EchoLossBounded` | no byte is seen twice; how many an echo may lose |
| | `ReceivesInOrder` | without resets a receiver implements `ByteChannel`'s `Safety` |
| `SecondStack_proofs` | `SecondStackTypeCorrect`, `SecondStackIs16Bits` | the script's pointer implements the 16-bit register |
| `MemoryMap_proofs` | `ImageNeverWritten`, `ReadsAreBanked`, `MemoryIsBanked` | the image is never written; each address reads as the registers say; the tables and the flash window implement `BankedMemory`, at every address |
| `DataSpace_proofs` | `DataSpaceTyped`, `SpacesStayApart` | the cached DPTR is the pair DPS says; no instruction that does not deviate changes a place its operands do not name |
| | `StackIsLifo`, `PointersCount` | the stack over all its bytes; INC DPTR in the pair DPS selects |
| `LongArithmetic_proofs` | `LongIsExact` | long sums, differences, decimal sums and products are exact |
| `Routines_proofs` | `ListInvariant` | what the registers, the port and DPTR hold at each point of `reg_from_initlist` |
| | `ListStopsAtEnd`, `ListApplied` | it stops at the zero word, and implements `RegScript`'s `Safety` |
| | `AddressInvariant` | what the cells, the carry and the port hold at each point of `phyocp_reg_addr` |
| | `AddressReached` | the access after it reaches the PHY register asked for: `ReachesRegister` |
| `Firmware_proofs` | `PortInvariant` | what the log, the cells and the port hold at each point of `port_init1` and of what it calls |
| | `PlanFollowed` | each write is the next of the plan, and none is missing at the end: `FollowsPlan` |
| | `DumpInvariant` | what has been sent, and what the cells hold, at each point of `hexdump` and of what it calls |
| | `DumpPrinted` | what is sent is always the beginning of the dump, and all of it at the end: `PrintsDump` |

**Interrupts.** For any set of interrupts up to 32 and any nesting bound. The
soundness and completeness of the masks are not inductive: between a write and
the last notifier they say nothing of the interrupts still to be recomputed.
`PendInv` adds `Settled`, that notifiers are owed only inside `sfr_notify`. A fetch
therefore sees masks that are sound for all interrupts, from which
`AcceptJustified` follows. `HighInnermost` carries the level that `irqlevel` shows, which is what
`irq_vec` tests, and is inductive with `TypeOK` although RETI forgets too much:
what it forgets is always below a high routine that has just ended.
`FlatImplementsService` assumes `IpValues ⊆ {{}}`. It is false without that
assumption, for the reason the first finding gives: after a nested RETI the low
level can be entered twice.

**UART.** For any number of bytes and resets. `UInv` relates the two private
copies of SCON to SCON itself. `SnapFresh`: while the CPU is about to store, its
copy is SCON unless a byte has arrived since, and then RI is still set.
`LoadFresh`: while the listener is between its load and its store, RI is clear,
its copy is exact, and SBUF holds its byte. `Known`: outside a notifier the
controller knows of TI exactly, and of RI at most too little. Each needs
`LockDiscipline`, as the mutex is what keeps the other thread away.

**UART, firmware.** For any number of bytes and, where the statement does not say
otherwise, of resets. `FSpec` restricts `Uart`, so that `UInv` is inherited; beside
it the proofs need `RiHeld`: from a successful test of RI to its CLR RI the bit
stays set, because only the CPU clears it. On that rest three invariants, each
about the bytes on their way: `wire`, the listener's `d`, SBUF, `got`. `Order`: they
ascend, a byte in SBUF that is still unread is greater than all that were read,
and so is all that follows; hence `NoDuplicate`. For `EchoLossBound` the bytes
delivered are counted against those read, with what the instruction at hand
may still lose added (`Owed`) and what it has just cost taken off (`Paid`); three
per echo are the one read and the two lost. `Gapless`: the numbers of `got`, the
unread byte, `d` and `wire` follow one another without a gap, so that each step of
a receiver is a `Send`, a `Read` or a stutter of `ByteChannel`. It holds only
of programs that store SCON while RI is set and at no other time
(`ReceiverStores`), and a reset breaks it and `Order`, which is why the
statements are about runs without.

**Second stack.** Reduction modulo 2^16 commutes with incrementing, decrementing,
replacing and reading a half (`Steps`, `Replaced`, `Halves`), so the refinement
mapping `Wrap(ssp)` makes each step of the script a step of the register, for
every XRAM and every run.

**Memory map.** For every size, number of banks and image. The inductive
invariant is `IInv`: each entry of a table is a function of the bank registers
(`CodeTable`, `DataTable`), and guarded exactly if it is mapped to the ROM
(`Guarded`). `topbank` is needed because the pages above the RAM remember a bank
that no register holds. `ImageIntact` follows, since an unguarded store goes to
RAM. The layout lemmas (`Block`, `Split`, `WindowByte`, `WindowInBuffer`) show that
the division of `unpackrtl.py`, the arithmetic of the bank hooks and that of the
flash window name the same byte, or a byte of an empty area exactly where
`FlashByte` says so: the proof of `WindowByte` splits on the end of the bank.

**Data space.** For every program and every answer of the hooks. `SpacesApart`
and `PointerCounts` need that `dptr` agrees with DPS and that `reg` is 0 after any
instruction that can reach DPS or PSW by a direct address, a bit or the stack. That
`reg` stays 0 is a fact about this code, not a promise: it is in the invariant, and
what follows from it for the user is the finding about register banks. `Taken` has the places
the emulator goes to, and `TakenIsNamed` that they are the named ones for every instruction
that does not deviate.
`StackLifo` is not inductive by itself: the invariant says that each byte of
`frames` is still at its place behind `base`, also where the stack goes from lower
to upper RAM and round, as long as no operand has named one (`intact`).

**Long arithmetic.** For numbers of any length over any bytes. Each instruction is
a lemma over all its operands: for ADDC and SUBB what is carried, for MUL the whole
product, for DA that two packed digits come out. The invariant has one equation
for each place between two instructions; `LongExact` is the one at "load". It
says nothing of AC after SUBB or of the flags MUL loses, which no instruction of
these programs reads.

**Register lists.** For every list of entries (`Entry`), every place in code memory
and every content of the switch registers, with the interpreter's own blocks as
in `hello.s` (`ProgramAssumption`). `StopsAtEnd` and `AppliesList` speak of the
log and the registers only; `ListInv` adds what the
interpreter knows between two writes. `InList` holds throughout: the log is as
long as the entries that were applied, code memory is the list's, and the port
has the width and the command the routine gave it. Then one conjunct for each
label: at the head DPTR is at the entry that is due (`AtEntry`); at the write its address
is in the port and DPTR at its value (`AtWrite`); at the modification RDATA holds
the register (`AtModify`); in `reg_status_loop` the return point says which of the two
comes next (`AtStatus`); at the end DPTR is behind the zero word (`AtDone`). A
block is one instruction after another, so each instruction form of `Core` has a
lemma, and `Dispatch` says which one an instruction is. That ANL and ORL on two
bytes are `BitAnd` and `BitOr` on the word is `AndHalves` and `OrHalves`, and that an
entry's first word is 0 or has bit 15 exactly if the list says so is `FirstOfEntry`. Only
the write commands change a register (`OnlyWrites`), and each applies the entry
that is due (`WriteApplies`).

**PHY addresses.** For every even PHY address, every port from 0 to 7 and every content
of register 0x1d15 before the call (`AddressCall`), with the blocks of `hello.s`
(`AddressProgramAssumption`) and R5 to R7 and B among the cells
(`AddressCellAssumption`); run `routines` calls it with some of each.
`phyocp_reg_addr` is 54 instructions without a branch of its own, so the invariant
is a table: `Values(c, i)` says what the cells, the carry, the port and the registers
hold before instruction i of the call c. It names only what a later
instruction reads, and of the carry that the rotation for bits 5 to 1 shifts in
nothing: `Sums` holds for both. The
call c is a constant of each lemma, which says nothing of who calls, so that they
serve for another caller too. `InRead`, `InWrite` and `InPoll` are the routines it
calls, each with its return point; `InCaller` is the probe around it. The step from one
row to the next is a lemma about the instruction form and one about the arithmetic:
two rotations and a mask leave bits 15 to 10 (`Rotated`), two shifts of sixteen bits and a
SWAP leave bits 9 to 6 (`Sums`), ORL of bits that do not overlap adds
(`OrDisjoint`), and no sum is above 255. `Reached` puts the three parts of the address
together again as the switch does (`OcpAddr`).

**Port initialisation.** For every content of the switch registers before the call,
the prefix and the version of the chip among them, and every content of the working
cells (`PortCall`), with the blocks of `hello.s` (`PortProgramAssumption`); run
`routines` calls it with some of them. `FollowsPlan` is not inductive:
it says nothing of how far the routine is or of what it will write. `PortInv`
says, for the port p at hand, that the first n writes of the plan are in the log and
nothing else but prefixes (`Matches`), where n follows from p and the instruction
(`Nth`, `Progress`), and that what the rest of the plan is made of is still as it was
before the call: the registers of the later ports, the version and the upper bits of
0x1d15 (`Untouched`). A write to another place would break that: each of the five
kinds keeps it (`EeeWritten`, `MagicWritten`, `PhyWritten`) and is the next entry of the
plan, whose index is split into port and place by a division (`PlanOfPort`).
A write behind the window stands for the register under the last prefix
of the log, so that `Aim` adds, from each call of `phyocp_reg_addr` to the access, that
this prefix is the one in 0x1d15. `Lasting` and `Passing` are the table of the cells
for each of the 59 instructions: the first holds through a call, the second need
not. There are four places to be: the loop (`InLoop`), a point of the two routines
(`AtPoint`), `reg_read` or `reg_write` under one of ten return points (`InAccess`), and
`phyocp_reg_addr` under one of three (`InPhy`), where the step is
`InsideStep`, the one that `AddressInvariant` rests on, with another caller. The two ends
of the branch at the version meet at one point: the plan of a chip without
the version has 3 entries for each port, and not 5.

**Hex dumps.** For every memory, every one of the three sources, every address and
number of bytes from 1 to 65536, and every content of the other cells (`DumpCall`),
with the blocks of `hello.s` (`DumpProgramAssumption`). The text is not built up
line by line: `DumpByte` says which character is at a place of it, so that no
induction over the text is needed. `PrintsDump` is not inductive, as it says nothing of
what will be sent. `DumpInv` says that a dump is at some byte i (`AtPlace`): before it, and then
about to print the address of its line (`AtLine`), printing the byte (`AtByte`),
ending the line (`AtEnd`), or counting (`AtCount`). In each, R2, F0, DPTR and R0:R1 are
functions of i (`Keep`, `Left`), and what has been sent is `Sent(j, m)` with m
a function of i and the instruction; `AtCount` has the borrow between the two halves
of R0:R1 (`CountingDown`). One predicate for each routine called (`Sending`, `Nibbling`,
`Hexing`, `Heading`, `Ending`, `Loading`) says what it has sent since its call, for any
place of the text, any value and any return point; its lemma says that a step stays
in it or returns with all of it sent. `serial_hex` calls
`serial_hex_nibble` for the high digit and falls into it for the low one, so
that one lemma serves for both. That the character sent is the one at its place
is `CharsOfByte`, `CharsOfAddress` and `CharsOfLineEnd`: the division by 55 undone.
`SentPrefix` makes the invariant the property. The lemmas about the text and the
instructions are at the end of `Routines_proofs`.

**Only model-checked**: liveness under fairness (`ClaimServed`, `InstructionEnds`,
`InOrderDelivery`'s second half, `TransmitEnds`, `ArrivalNoticed`, `Completes`), which is
out of the prover's reach; the routines other than `reg_from_initlist`,
`port_init1`, `phyocp_reg_addr` and `hexdump` (`Transcript`, `AckAfterUse`,
`PrintsMachine`), whose promises are sequences built with folds over
lines and texts; and `TableRight`, which says what `gen.c` makes of a listing by a
fold over it. What a fold computes for every input needs an induction over data,
which the installed provers cannot do. `HighIsNotPreempted` is proved and not
checked by a run, and so are `UartTypeCorrect`, `FirmwareIsSequence`,
`ListInvariant`, `AddressInvariant`, `PortInvariant` and `DumpInvariant`.

## Findings

1. **RETI clears both levels.** `irqlevel_reti` (`core.c` 776) has no `break`, and
   every case falls through to `irqlevel = 0`. `core.c` 75 calls
   `irqlevel` the "IRQ priority level bitmask". In run `irq_bitmask` a high
   routine nests in a low one; after its RETI the low one is in service and
   `irqlevel` is 0, so that another low interrupt may enter it.
   `HighInnermost` holds nevertheless, and high routines are not interrupted
   (`HighIsNotPreempted`).
2. **The packet acknowledgement is not 1.** `hello.s` 664 sets the low half of
   INDACC_WDATA only. The high half still has what `phyocp_reg_addr` copied from
   register 0x1d15, so that 0x0a01 is written where `hello.s` 69 says "Write 1
   to ACK packet RX". The run `packet_ack` has a prefix register with a non-zero
   high byte.
3. **@Ri and R0-R7 are not those of an 8052.** `inc_atr0` and `inc_atr1` (`ops.txt`
   115 and 118) read and write through `readd` and `writed`, so that a pointer above
   0x7f is an SFR's address; DEC, XCHD and arithmetic on @Ri do the same, while MOV
   and XCH use `readi` and `writei`, which "skip over SFR regs" (`core.c` 271).
   `8051_main.sinc` 599 has @Ri in INTMEM. In run `as_8052` R0 is 128 and INC @R0
   leaves upper RAM at 128 as it was. The two other parts of the property fail as
   well:
   - `dec_atr0` and `dec_atr1` (`ops.txt` 121 and 124) store what they read plus one, as
     `inc_atr0` does, where `8051_main.sinc` 810 has `Ri = Ri - 1`: with 127 in R1,
     DEC @R1 takes the byte of lower RAM there from 0 to 1.
   - `main.c` 218 takes the trap bit off PSW, and the code that should "move register
     window" (`core.c` 252) is behind it: after MOV PSW, #24 a store to R0 changes the
     byte at 0, not the one at 24.

Beside these, a flash read at 0x4000 finds nothing: `rtl8367s.lua` 12340 compares with
`>`, so that the first word of bank 1 is looked for in the area of bank 0 that
`unpackrtl.py` fills with zeros, and not at 0x14000, where its first byte is. A word that
crosses the end of a bank is cut off there. No comment or test speaks of the
window itself, so `BankedMemory` states it as it is, and `ActsBanked` checks that these are
the only addresses where the window is not the linear image.

## What is not modelled, and the plan

- **Instruction addresses**: `Core` runs decoded programs. AJMP takes its page from
  the wrong address (`ops.txt` 106), which only a program laid out over a page
  boundary can meet.
- **Instructions no firmware here uses** (DIV, CPL, RL and others) are in
  `DataSpace` for the places they change, not for what they compute.
- **Flags nobody reads**: the half borrow of SUBB (`core.c` 907) and the flags MUL
  loses (`ops.txt` 456) are in `Alu` as in the code, and no property is about them.
- **A bank number beyond the image** (`core.c` 139): what is read there is undefined.
- **Timer 0** (`rtl8367s.lua` 12365-12380): the read of TL0 advances the counter that
  TH0 shows the high byte of, so a pair can be torn; nothing here reads it.
- **`hello.c`** beside its `putchar`: a list of stores of constants.
- **Trace, breakpoints, register print**: they change nothing. `init_8051` is never called.
- **nRF24, nRF24LE and TUSB3200 scripts**: they stop while they load, since they
  call `map_rom` and `map_xram` with too few arguments.
- **Lua bindings**: argument checks, without state of their own.
- **Register tables and headers**: data. `rtl8367c_reg.h` alone is 22,819 of the
  repository's 24,802 lines of C, so that the share of all lines that the models stand
  for says little; they stand for a fifth (`main.c`, much of
  which is options and printing) to four fifths (`gen.c`) of the files with logic.

What could follow: instruction addresses with AJMP and the page boundary, then
timer 0 with a program that reads it twice, then the order of the acknowledgement
(`AckAfterUse`) for every packet, with the lemmas of `phyocp_reg_addr` and the
instruction forms of `port_init1`.
