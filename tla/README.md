# EasyBoot in TLA+

EasyBoot is a boot loader for the mini2440 board (S3C2440): it sets the board
up, copies itself and then a Linux kernel from NAND flash to RAM, leaves the
kernel its tag list and jumps to it. Around that it has a small driver layer, a
heap, and a few library data structures. This directory holds TLA+ models of
its parts, the TLC configurations that check them and TLAPS proofs about eight
of them.

Paths below are relative to the repository's root.

## Inventory

The program is single-threaded: `user_main` (boards/mini2440/main.c) calls
everything, and no interrupt is ever enabled. The only concurrency is with the
hardware: the flash chip, the transmitter, the watchdog, resets, and exceptions
if there are any. What is hard to get right is therefore long sequences of legal calls
that leave a table, a list or a memory word in a state nobody thought of,
values at a limit, stale values, and the polling of hardware.

| Part | State | Operations | Used by | What makes it correct |
|---|---|---|---|---|
| NAND driver, drivers/s3c2440_nand.c | the controller's NFCONT, the locals of `nand_read`, the chip behind it | `nand_open`, `nand_read`, the unused write and ioctl | `copy2ram` directly, `device_read` through `d_ops` | the bytes asked for, in order, once each; no bus access while the chip loads; every read returns |
| Driver layer, drivers/driver.c | `board_pool[]`: types, flags, counts, class lists, open tables; the `device_t`s | `board_req`, `register_device`, `device_open`, `device_read/write/ioctl/close`, `cur_board` | `user_main`, `printf` | tables agree; a descriptor means one device for ever; a registered device can be opened |
| Console, lib/printf.c | the static `tty_fd` | `printf` | everybody | it reaches the TTY, from a descriptor it caches; what arrives is the text asked for |
| Heap, lib/mm.c with includes/linux/list.h | headers, two linked lists | `heap_init`, `malloc`, `free` | `user_main` | lists stay sound, payloads apart and untouched, a second free refused |
| Byte queue, lib/FIFO.c | array, two pointers, count of free bytes | `PUSH`, `POP` | nobody yet | a bounded queue of items |
| Tag list, boards/mini2440/boot.c | words from 0x30000100 on | `setup_tag` | `user_main`, then the kernel | the kernel sees three tags, the command line whole, and an end |
| Search tree, lib/stree.c | nodes with lt, eq, gt | search, add, del, node_move | nobody yet | what was added is found, what was deleted is not |
| Path splitting, lib/advstr.c | an uncleared temporary on the stack | `str_split`, `strdel_head`, `strdel_tail` | `device_open` | the three parts of the path |
| UART driver, drivers/s3c2440_uart.c | transmitter status | `uart_open`, `uart_write`, `puthex`, `putdec` | `printf` through `d_ops` | every character sent once, in order |
| LED driver, drivers/s3c2440_led.c | GPIO bits | open, write | nobody yet | register writes only |
| Lists, includes/linux/list.h | next and prev of each node | add, del, move, replace, cut, splice, loops | heap, driver layer | circular both ways; each call changes the sequence as it says |
| Formatting, lib/printf.c | none | `vsprintf`, `number`, `simple_strtoul` | `printf` | format and arguments stay in step; numbers print as their digits |
| Strings, lib/string.c, lib/ctype.c | `___strtok` | Linux's, and `strnchr` | everybody | their C definitions, no byte written outside, tokens whole |
| Division, lib/_udivsi3.S | registers | `__udivsi3` | the compiler | the quotient |
| Start-up, cpu/s3c2440/start.S, boards/mini2440/low_init.c | RAM, where the code runs | reset, `setup_ram`, `copy2ram`, `clear_bss` | the CPU | the whole image is in RAM before `user_main`, whatever was there before |
| Exceptions, start.S, cpu/s3c2440/interrupt.c | banked registers, frames | the handlers, `enable_interrupts`, `disable_interrupts` | the CPU | an interrupt leaves no trace; a program is not resumed after an abort |
| Boot sequence, boards/mini2440/main.c | locals | `user_main` | start.S | registration before printing, tags and kernel before the jump |

designtask.txt describes a shell, buses and modules; none of it exists in the
source. includes/linux and includes/asm are Linux and U-Boot headers.

How the parts meet: `user_main` requests a board, registers the UART as its
TTY and the NAND driver as its NAND, and opens both. `printf` finds the board
(`cur_board`), opens `/<board>/CPU/TTY` on its first call and keeps the
descriptor. `device_read` on the NAND descriptor runs `nand_read`. `setup_tag`
fills the words below the kernel image that `s3c2440_boot` then hands to the
kernel.

The hazards of each part, with their lines and the properties that answer them,
are in PROJECT.json.

## Modules

### Nand, NandProps, SequentialCopy, MCNand

`Nand` models `nand_open` and `nand_read` as the CPU's process and the flash
chip as a second one. `pc` is the place in `nand_read`; `addr`, `col` and `i`
are its locals; each write to the bus is a step, so the chip can move between
any two. The chip (external code) latches address cycles after command 00h, is
told to load a page by 30h, pulls R/nB low some time later (`ChipGoBusy`) and
raises it when the page is in the register (`ChipLoaded`). `NandDelay`, the
delay loop at the end of `nand_cmd`, is assumed to outlast the fall of R/nB;
that is its purpose, and a mutant without it breaks `QuietWhileLoading`. Bytes
of the flash are numbers, junk is -1. Left out: timing values, the progress
text, and device ids.

`SequentialCopy` is what a block read promises: bytes in order, each once, and
a return when all are there. `Nand` implements it with `reading` mapped to
"`pc` is not idle" and `done` to `i`.

### Driver, DriverProps, MCDriver

One action for each of `board_req`, `register_device` (with `add_device`),
`device_open` and `printf`. `board_pool` is split into functions on board
numbers. A class list is a sequence from its head. Names are abstract:
`StartsWith` is the outcome of `strncmp(have, want, strlen(want))`, the only
thing done with them. A path is the triple that splitting makes of it. The
device's own `open` is the driver's business: all three drivers of the build
have one.

The status tells how the program left its data: `outside` (a board behind
the pool), `corrupt` (`open[-1]`), `wild` (a call through an empty slot).

Three constants say what callers do and what undefined reads return:

* `NullMatch`: `device_open` compares the name behind `open[cnt]` before it
  tests the slot for null. What is at address 0 may or may not match.
* `Reregister`: whether callers register a listed driver again (same class
  only; another class would link one node into two lists, which a sequence
  cannot show).
* `ConsoleFirst`: whether callers register the TTY before they print, as
  `user_main` does and main.c:22 demands.

No caller opens a path before a board is requested.

### Heap, HeapProps, HeapProofs, MCHeap

`Heap` works on a memory of words, as the C code does: headers, list nodes and
payloads share it, so a header written over another header is exactly that.
The list operations are operators from memory to memory. `malloc` and `free`
are one action each. `live` and `dead` are the client's bookkeeping: pointers
it holds and pointers it has given back. Clients free what they hold or, once
more, what they have given back. A client's own writes to its payload are not
actions: `PayloadKept` says that the calls leave the payload's words alone, so
whatever the client wrote is kept. The heap's base is word aligned, as the
linker script makes it; a header at an address that is not a multiple of four
ends the model with status `misaligned`. `FitLimit` is the mask 0xffffffc with
which a search reads a flag; flags stay below it.

### ItemQueue, Fifo, FifoProps, Lists, ListsProps, ContainerProofs, MCContainers

`Fifo` is `push` and `pop`, byte by byte: `Cell` is the byte a round of the loop
touches, `After` the pointer behind it. `lens` is what users of the queue know
anyway, the lengths of the items in it, oldest first; they pop into a variable
of that type. Both loops compare with `> fifo_top`, so the byte behind the array
is used too: the model has it and gives it to nobody else. DECLARE_FIFO
names its array inconsistently and does not compile as it is; the model takes
the declaration for what it means.

`ItemQueue` is a queue of items bounded by the bytes they take together.
`Stored` (FifoProps) is the refinement mapping: where pop will look for each
item and what it will find there.

`Lists` is list.h. Every operation is made of `Link(l, a, b)`, the pair of
assignments `a->next = b` and `b->prev = a`, in the order of the code where that
matters (`Replace`, `Cut`). `live` is what callers know: the heads in use and
the entries that are in a list. `walk` is a `list_for_each_safe` in progress;
`Body` is what its body may do to the entry it stands at. The two poison values
are both null. A splice into the neighbour of its own head is excluded (no list
has two heads), as is a head that was left behind. `hlist` is not modelled.

### Atags, AtagsProps

`setup_tag`'s four functions are an action each, on words of memory from
0x30000100 to the kernel image. The memory holds anything before, an earlier
list included, and `setup_tag` may be called again. A word with characters is
`Text`. `KernelTag` and `KernelEnd` are the kernel's walk by `for_each_tag`.
The run of these properties is that of the board, where `user_main` makes the
call.

### Boot, Exceptions, Board, BoardProps, BoardProofs, MCBoard

`Boot` is the way from reset to the kernel. `strap` is what the board boots
from, `source` where the program runs: NOR flash, the internal RAM that holds
the first pages of the NAND flash, or RAM itself, where a debugger has put it.
`ram` is the image's place, a word with what is in it: `"image"` (right),
`"zero"`, `"used"` (by the program) or `"junk"`. Before `setup_ram` a write to RAM
is lost. `is_boot_nor` is two actions because it overwrites the reset vector in
between. The copy and the clearing go word by word; in copying from NAND a
whole `nand_read` is a sequence of words, since `Nand` has the read itself. In
`user_main` the four functions of `setup_tag` are those of `Atags`; opening the
devices, the heap and each piece of the kernel are one action. Of the pieces of
the kernel only the number counts.

`Reset` (a button, or a loss of power) and `WatchdogReset` may come at any time.
The button leaves RAM as it is; after a loss of power it is junk, and the words
of the tags are anything.

`Exceptions` has the banked registers (`sp`, `lr`, `spsr` of each mode), the
common registers as one value (r8-r12 are among them, although an FIQ has its
own: no FIQ is taken before an abort), the frames in memory, and one action for each
macro of the handlers. Code addresses stand for instructions; that a link
register points behind one, and that each handler corrects it, is not
modelled. `Raise` is what the CPU does at an exception. Four things in it come
straight from the code and surprise:

* The stacks. `.word SVC_STACK_START + IRQ_STACK_SIZE` adds to the address of
  the word SVC_STACK_START and not to its contents, so the IRQ, FIQ and BAD
  stacks are four bytes apart, 16 KB behind the vectors, in the image if it is
  that long, and not where the diagram at start.S:20-37 has them. The model has
  these addresses, and a store at one frame damages the other. That a frame
  may lie on instructions is left out: the stored words stand for
  themselves only.
* The calls of the abort handlers return, and each handler goes on into
  the next one: undefined, software interrupt, prefetch abort, data abort, not
  used, and then irq, which restores what it has just saved.
* `get_bad_stack` goes to SVC mode with everything unmasked, and if that is the
  mode it was in (a software interrupt) the stack pointer is lost.
* `bad_save_user_regs` reads the two words at IRQ_STACK_START and not those that
  were saved at BAD_STACK_START.

`Board` puts the two together: the program of `Boot` is the one that is
interrupted, at its stage `"main"`, the stages before it have nothing in memory that a
handler could run from, and exceptions inside a handler come as well. `user_main`
never enables interrupts; `enable_interrupts` and `disable_interrupts` are
actions of the program all the same, so that the handlers are used. A reset
takes the CPU out of everything.

### Stree, StreeProps, StreeProofs, MCStree

The three links of all nodes are a record of functions. `Walk` is a `while` loop
from node to node; one that visits more nodes than there are never ends
(`status` `endless`). `Linked` and `Unlinked` are the pointer writes of
`stree_add` and `stree_del`, the latter with all that it leaves undone: a right
child without left child stays, an heir of a left child overwrites the parent's
right link, and parents are not told. A deep heir whose parent is null is
written through (`wild`). Users initialise a node and add it; `tree` says where
they think it is. `MaxDeletes` bounds the calls of `stree_del` and `node_move`.

### Strings, StringCalls, PathSplit, StringProps, TextProofs, MCText

`Strings` has the functions of string.c as operators on a memory of bytes: a
loop whose pointer goes up until it meets something is `Upwards`, the first such
place; one that does more is `Loop`, the step of its body until its condition fails. Those
that work by words do so here (`Memset`, `Memcpy`), so that a wrong alignment or
overlap is seen. A char is unsigned, as the ARM's compilers have it, but the difference that
`strcmp` keeps is a signed char. strdup is left out.

`StringCalls` makes one call of any other function with any addresses and counts the
callers may pass, or takes two strings apart at the same time: `StrtokCall` works
on `___strtok` (`tok`) and `StrsepCall` on its caller's pointer, in any order.
`StringsRight` states each function over again, as a fact about the texts before and after the
call. It takes the functions at their comments, except `strnchr`: that looks for '/' whatever
`chr` is and answers the place behind the n-th one, which is what `str_split` needs and not what
string.c:407-410 says.

In `PathSplit` each action is one of the three `str_split` calls of `device_open`,
with `Strlen` and `Strnchr` of `Strings`. `tmp` is the
temporary of `str_split`; the three calls find it in the same place of the stack, so
what one leaves is what the next starts from. `HeadDeleted` puts the terminator
where the code does, at the length of the source. `PartsRight` is about
`WellFormed` paths, those that end in a slash or whose device name is as long as
the class name. For others the third call reads on into the second's bytes;
every path of the program is well formed.

### Udiv, Number, Format, Uart, Console, ConsoleProps, ConsoleProofs, MCConsole

From below: `Udiv` is `__udivsi3`, a step for each pass through a loop, on words
of any width. `Number` is `number()`: each digit is a call of `__udivsi3`
(`TakeDigit`, `Divide`, `Divided`) and the text is laid out when nothing is left
(`Write`); `%` is the compiler's own `__umodsi3`, taken as the remainder. `Read`
has a program read the text with the parsers. `Format` is `vsprintf`: `p` is where
the format pointer stands, `taken` the arguments `va_arg` has given, `fields`
what each conversion has written. `Flags`, `FieldWidth`, `Precision` and
`Qualifier` are the parts of a conversion in the order they are read, `Convert`
the switch behind them; an integer is a call of `number()`.

`Uart` is the driver with the transmitter (external): the CPU in a call puts one
character per step; the transmitter sends what it holds in steps of its own. `asked`
and `wire` are histories, of what callers wanted sent and what was. `putc`'s loop
is the guard `tx = Empty`. `uart_open` comes first, as in `device_open`.

`Console` is `printf`: `Format` with all below it, and then `uart_write` of what is
in `printbuffer` (`PrintfWrites`), up to a zero byte that `%c` may have put there.
Beside it the other callers of the UART and of the division. That `printf` reaches
this driver at all is `Driver`'s matter. A character is its digit value or
a name; small and capital letters are one but for the `x` of `0x`, which
`simple_strtoul` tells apart. `meant` says what the caller of `printf` wants, piece by
piece, and the format is written from it; `FormatsRight` compares what
`vsprintf` makes of the format with the pieces. What a piece can be is `IsPiece`
(assumed of the constant `Prints`): a format has no more than two digits in a number,
a width does not begin with a 0, which would be a flag, and a format can end inside its
last piece only. Two deviations from C are in the
code and in the model: a negative precision is 0 and not none (no piece has a
negative one), and `%n` counts, which no other part uses.

## Runs

| Run | Question | Bounds, and why they are enough |
|---|---|---|
| nand | the right bytes in order, bus quiet while loading, `nand_read` is a sequential copy and returns | pages of 4 bytes, 8 pages, binary address cycles, so that all five cycles carry information; reads that are empty, inside a page, over one and over several boundaries, up to the last byte |
| driver | the tables agree, descriptors are stable, a registered device opens, `printf` reaches the TTY | 2 boards, 3 device slots, the 3 drivers of the build; names that are prefixes of each other, one name in two classes, registrations that fail after renaming |
| driver_boards | a second board name is answered from the pool (driver.c:44) - violated | 2 boards |
| heap | lists sound, payloads disjoint and kept, second free refused | 5 blocks of one size and a remainder shorter than a header; all orders of malloc, free and double free |
| heap_fit | malloc finds the memory that is there (mm.c:45) - violated | 3 blocks |
| containers | push and pop implement a bounded queue; every call of list.h:35-345, with its `_init` and `_tail` variants, of heads and of entries, keeps the lists sound and does what its comment says; a safe loop sees each entry once | the queue: capacities 3 to 7 with items of 1, 2 or 3 bytes: the length divides the capacity, the capacity and the byte behind it, or neither; wraps at every phase. The lists: 2 heads and 3 entries: a cut or splice of nothing, of part and of all, and neighbours that are one node |
| board | the program starts whole, interrupts leave no trace, an abort traps, the kernel gets its tags whole and is started at last | two words of .text, one of .data and .bss, a kernel of two pieces; command lines of 0, 3 and 20 characters, which end in the first, the last and behind the last byte of a word; a room of 20 words; one reset or loss of power from outside at any step and watchdog resets besides, two exceptions after each: one interrupt after another, or an abort in the program, in the handler of an IRQ or in that of an abort, and an IRQ or FIQ once an abort has unmasked both |
| board_frame | after an abort the frame holds the address (start.S:160) - violated | as above, no reset |
| stree | additions keep both trees sound; deletions and moves lose nothing where `stree_del` can delete | two trees, four nodes, every order of additions, two calls of `stree_del` or `node_move`: enough for an heir two links down and for a second deletion that meets the first one's stale parents |
| stree_search | a search finds the node that has the key (stree.c:7) - violated | the same nodes, no deletions |
| text | every function of string.c but strdup answers and writes as its comment says, and strnchr as `str_split` needs; tokens are whole; the parts of a path are its names | any memory of 5 bytes with letters of both cases and one that is negative as a signed char, or with slashes and a letter, and one of 8 bytes that has place for two areas of a word and a byte (words of 2 bytes); two strings of 3 characters taken apart at one or two of them; part buffers of 5 bytes and a temporary of 17, names of every length up to 4 in every order, stacks of zeros, slashes and letters |
| console | format and arguments stay in step, fields filled, numbers read back, quotients right, nothing lost, calls return | longs of 8 bits, shorts of 4; integers of every conversion with sixteen sets of flags, three widths and precisions, both sides of the powers of the bases and the most negative number; formats of any two of 22 kinds of pieces, or of one and an end inside a conversion; every divisor under every dividend that ends in two equal bits; up to 12 characters by one call after the other |

Runs with CHECK_DEADLOCK FALSE are those whose system may stop: the kernel has
seen the end of its list, an abort has met an end it does not come back from,
the driver layer, a search tree or a path split has met one of its fatal
statuses, the one call of a behaviour has been made, or the wire has carried all
that was asked. A run of several independent systems (containers, text, console)
chooses one of them in its first state, and its behaviours are those of that one.

The four violations are findings in PROJECT.json:

* `board_req` answers a second board name with the memory behind the pool,
  because the first request bars all other slots.
* malloc, free and malloc of the same size overwrites the header behind the
  block with an empty remainder; the rest of the heap is then never found.
* `stree_search` returns the left child of the first node with a larger key,
  whatever key that child has: its case `lt` has no break.
* `bad_save_user_regs` gives the handler two words of another place than the
  one where `get_bad_stack` has stored the address and the status.

The models show more that comments contradict, without a run of their own:

* A malloc of a size that is no multiple of four makes a block that is none
  either (mm.c:100 adds the remainder instead of what is missing to it), against
  mm.c:47: with a size of 1 in `Sizes`, `Heap` ends with status `misaligned`.
* A byte queue with items of different lengths loses bytes, against FIFO.h:5:
  push skips bytes when it wraps, which `size` still counts as free. With
  lengths 1 and 3 in a queue of 4 bytes, `Fifo` does not implement `ItemQueue`.
* A malloc of 0 bytes makes a block that is all header. Its payload starts where
  the next block's header does, and `mem_free` takes a pointer into a block for
  one to it, its end included (mm.c:136-137): after two such calls a free of the
  first pointer frees the second block.
* `strnchr` is to "find the nth chr int the string and return this chr's address"
  (string.c:407-410). It ignores `chr`, looks for '/' (string.c:412-426) and
  returns the place behind the n-th one, the end of the string if there are
  fewer, and null if there is none or n is 0. Its callers, all in advstr.c,
  look for '/' and need the place behind; `StringsRight` states what they get.
* `node_move` of a right child without left child leaves it in its old tree,
  against stree.c:95: stree.c:68 writes the node where its child belongs.

## Fairness

`nand`: weak fairness of the CPU, which has nothing else to run while it is in
`nand_read`, and of the chip, whose data sheet bounds the load time. Nothing is
assumed of callers: they need never start a read.

`board` (`BoardFairSpec`): strong fairness of the program's steps and weak
fairness of a handler's. The CPU never rests; strong, because a watchdog reset
or an exception disables the next step again and again without being faster
than the program for ever (a watchdog that always fires before the first
instruction is done is not what the code can be asked to survive). Resets from
outside and exceptions are finitely many by their bounds, and nothing is
assumed of them.

`console`: weak fairness of a call in progress, for the same reason as in
`nand`, and of the transmitter, which shifts its character out at the baud
rate; none of callers.

The other runs check safety only.

## Proofs

| Module | Theorems | Inductive invariant |
|---|---|---|
| NandProofs | `TypeCorrect`, `ReadsTheRightBytes`, `OffTheBusWhileLoading`, `CopyImplemented` | `IInv` of NandProps |
| DriverProofs | `NeverInFrontOfTheTable`, `RegistryAgrees`, `DescriptorsKept`, `DriverTypes`, `RegisteredDevicesOpen`, `ConsoleReachesTty` | `IInv` of DriverProps, with `PoolInv`, `ListedInv` and `ConsoleInv` for the last two |
| BoardProofs | `StaysInTheRoom`, `KernelSeesTheTags`, `KernelGetsTheCmdline` of `Atags` by itself; `BoardKernelSeesTheTags`, `BoardKernelGetsTheCmdline`, `WholeProgram`, `InterruptsLeaveNoTrace`, `AbortsNeverReturn` | `IInv` of AtagsProps; with it `StartInv`, `ContextInv` and `TrapInv`, together `BoardIInv` of BoardProps |
| HeapProofs | `SearchesEnd`, `ListsStaySound`, `PayloadsApart`, `CallsKeepPayloads`, `SecondFreeRefused` | `HeapInv` of HeapProps |
| ContainerProofs | `FifoIsQueue`; `RingsStaySound`, `LoopsSeeAll`, `CallsAsSequences` | `PlacesInv` of FifoProps; `RingsInv` of ContainerProofs, with `OneHead` and `LoopInv` of ListsProps |
| ConsoleProofs | `BytesOnly`, `NoCharacterLost`, `NumbersArrive`, `DivisionsRight`, `FieldsFilled`, `NumbersReadBack`; `FormatsFollowed`, `NumbersUnderPrintf` | `UartTypeOK`, `NothingLost`, `IdleInv` and `LastCallInv` for the UART, `DivisionInv` for the division, `DigitsInv` for `number()`, all of ConsoleProps; `FormatInv` of ConsoleProofs for `vsprintf` |
| StreeProofs | `TreesStaySound`, `KeysAddedOnce`; `DeletesKeepTheRest`, `LeavesMoveSoundly` | `TreesInv` of StreeProps; `LinksInv` of StreeProofs |
| TextProofs | `PathsTakenApart`; `TokensWhole`, `CallsFollowTheirComments` | `PathInv` of StringProps; `TokenInv` and `CallInv` of TextProofs |

**Nand**: for every page size, number of pages and flash contents, and requests
inside the chip. Assumptions: `GeometryAssumption` (two column and three page
cycles are enough for the geometry), `FlashAssumption`, `RequestsAssumption`.
`BytesMatch` alone is not inductive: `IInv` adds where the locals stand at each
control point (`CallInv`, `ColumnInv`), which phase the chip is in (`PhaseInv`),
that the latched cycles are those of `addr` (`LatchInv`), and that page and
column of the chip are `addr` from the command on (`OutputInv`). The heart is
that five cycles put together again give the address, from facts about `\div`
and `%` at the head of the module.

**Driver**: for every number of boards and devices and any calls.
Assumptions: `SizeAssumption` (a slot for every driver, a byte for every slot),
`NameAssumption`, `CallAssumption`; each name starts with itself. `IInv` adds to
`TablesAgree` the types, that a board never requested has nothing
(`UnusedInv`) and that a listed device has the class of its list (`ClassInv`).
`NeverCorrupt` follows by counting: when all of the first `devs` slots are full,
every listed device is open, so the name search has found it before the store to
`open[-1]` is reached. The constants `NullMatch` and `Reregister` make the
theorems wider than the run: they hold for either outcome of the comparison
at a null slot and for drivers that are registered again.

`RegisteredDevicesOpen` and `ConsoleReachesTty` need more of the callers, and say
what as their hypotheses. `PathsClear`: no board is opened by a name that a barred
slot has too ("forbid"), and the comparison behind a null slot, at address 0,
fails. `ConsoleCalls`: a TTY is registered once, before the first `printf`, as a CPU device that
can be written to, which is what `user_main` does. MCDriver has TLC evaluate it.
On the way to them: one board is ever in use
(`PoolInv`), a listed device has its name and class from one registration
(`ListedInv`), and the descriptor `printf` keeps is that of a slot with the TTY
(`ConsoleInv`), which no later call can take from it.

**Atags**: for every set of command lines, room for the longest and any old
memory (`RoomAssumption`, `OldAssumption`). `IInv` says what each
function has left behind when the next starts (`ListInv`) and where the
walk stands for each list of tags seen (`WalkInv`).

**Board**: for any sizes of the image's sections and of the kernel
(`ImageAssumption`), any number of resets and exceptions, and a stack of the
program that the frames do not reach (`StackAssumption`). Resets are why the
proofs of Atags do not carry over by themselves: they put the CPU back with the
list half written and, after a loss of power, the memory changed (`ResetTags`).
`JumpsToWhole` needs what each stage of the start has behind it, and that the
reset vector holds its own value except between the two halves of the probe
(`StartInv`). `ReturnsAsLeft` needs where each part of the interrupted context
is at each macro of the handler, and that the program never runs with FIQs
unmasked, since `enable_interrupts` clears the other bit only (`ContextInv`): the
two frames share their words, and an FIQ would write over the IRQ's.

`AbortsNeverReturn` is about what the handlers do after an abort. `TrapInv` says
where the CPU may then be, and from which frames it would go on: in the handlers
of the aborts in SVC mode, which run into one another; in the handler of an IRQ
they have run into, whose frame leads back into them; or in that of a real IRQ or
FIQ, whose frame holds such a place and not the program.

**Heap**: for a heap of any size at any word-aligned place, any calls, and any
requests that need blocks of one size (`SameBlocks`: rounding makes
that several sizes). A request of 0 bytes is excluded, for the reason
given under Runs; MCHeap has TLC evaluate the hypothesis. None of the properties is inductive, nor are
all of them together: they say nothing of the headers that are in no list and of
the flags. `HeapInv` does: the memory is cut into
blocks from its start on, `c` of which were handed out at some time, with a header at the
beginning of each (`Node`) and of the rest behind them; each list is a way through such
nodes that visits none twice and leads back to its head (`Circle`); the flag of a
header is that of a block that was cut off, 0 where the block before it was handed
out again and its empty remainder was written over it, or the rest of the heap
(`FlagOf`); only the last node of the free list can be the rest, and what clients hold
and held are pointers to such blocks (`Held`). The proof has the way of a list as a
function, so that a walk is an index in it and no induction is needed but
one: that `Chain`, the recursive function of the model, follows the way. Then it
finds where each search stops (the first free block that is large enough, the only
allocated block with the pointer, the first free block above it), and what
each operation leaves of the two ways. This covers the overwritten header of the second
finding: its block is lost to every later search, but no list is broken by it.

**Fifo**: for arrays and items of any size, each queue with items of one length
(`SameLengths`; with different lengths it is false, see Runs). The array is then a ring of
places for an item: place 0 is used only before the first wrap, or as the
second part of the last place, whose first part is the byte behind the array (`PlacesInv`). The
theorem is the refinement of `ItemQueue`: what `push` stores is read back by `Stored`, and
no later `push` touches the places of the items that are still in it.

**Lists**: for any sets of heads and entries, the entries finite in number (`NodeAssumption`;
they are in memory), and any calls. A
lemma for each operation says that it keeps the nodes in use pointing at one
another both ways (`AddSound`, `UnlinkSound`, `ReplaceSound`, `CutSound`,
`SpliceSound`); the steps of the specification are instances of them. That a
ring holds one head only cannot be said of its pointers one by one: the invariant
gives every node in use a head as its owner, the same for neighbours (`OneHead`), and each
operation says what becomes of the owners (`AddOwned` and the like; a cut gives
the entries up to the place of the cut to the new head, `CutOwned`). With finitely many entries
the way along `next` must then come back to its head (`Rounds`), so `Contents` is
the ring (`ContentsRing`). A loop's invariant (`LoopInv`) is that the entries after the one it stands at
are still linked as they were when it began; the body only touches the entry
itself and its two neighbours, and the pointer to the next one has been read
before. `CallsRight` has a clause for each call that changes links, its `_init` and `_tail`
variants, heads and entries, and says that one that leaves all links as they were changes no
list. For it a ring is shown to have one sequence only (`RingOnce`), and each
operation on pointers to be one on sequences: an insertion, a removal, a
replacement, a cut, a splice (`InsertLists`, `RemoveLists`, `ReplaceLists`,
`CutLists`, `SpliceLists`). The property tells which call was made from the pointers it
left, so the proof also has to exclude that the same pointers are those of another
call with another outcome; for that the invariant says that what a head out of use
points to never points back (`NoneJoins`).

**Uart** (`UartSpec`): for any strings and numbers, any number of calls and any speed of the
transmitter. Assumption: `CallAssumption` (strings have a terminator, numbers 32 bits). A new call
appends to what was asked, so `NothingLost` needs that nothing is left to put
when none is in progress (`IdleInv`). `NumbersArrive` adds that what was asked for ends
with the number of the last call (`LastCallInv`), and that the digits of `puthex` and
`putdec` give their number back. These theorems are about the driver by itself;
with `printf` above it (Console) the run checks the same properties.

**Division** (`NumberSpec`): for words of any width from five bits on (the largest base must be a
word), any numbers printed and any divisions elsewhere in the program. `DivisionInv` has
what the comments of \_udivsi3.S leave to the reader: while the divisor goes up, it and
`curbit` stand the same number of bits above where they began, and neither leaves
the word (`GoesUp`); from then on the dividend is less than twice the divisor, and the
bits found times the divisor and what is left make the dividend (`GoesDown`). In
the last pass the bits run out, at the subtraction where `curbit` is 1; the quotient is complete
there and the later subtractions, which "may subtract too much", change it no more
(`SubtractFinds`). The powers of two are a function on bit numbers (`Bit`) because the
prover knows nothing of `^`.

**Numbers** (`NumberSpec`, the same assumptions): `FieldsFilled` and `NumbersReadBack` hold for
any number, flags, field width and precision. What `number()` has left after k
digits is the magnitude without its last k digits, and the digits it has taken are
those (`DigitsInv`, which builds on `DivisionInv`: each quotient is what `__udivsi3`
returns). So the loop ends with as many digits as the magnitude has, at most as many as a word has
bits, and the widths of sign, prefix, zeros, digits and blanks add up. For the way
back, the text is taken apart: with nothing in front that the readers do not skip it is
sign, prefix, zeros and digits (`TextShape`). `simple_strtoul` finds the base it was given, or the one the
prefix tells (`RestReads`), stays 0 over the zeros, and then goes through
the values `number()` had left, in the opposite order, none of which leaves a
word. `simple_strtol` negates it; the most negative long, which is its own absolute value, comes
back too (`SignedAgain`). That the numbers of a `printf` are such calls is the next part.

**Formats** (`ConsoleSpec`): for any pieces and any sequence of them that `PrintsAssumption`
allows, with any flags, stars, qualifiers, characters, strings and numbers. Of these hypotheses
"two digits" is one the prover needs: `skip_atoi` goes on for as long as there are digits, and what such a loop
yields for every length is an induction over data. The format is the
texts of the pieces one behind the other and the arguments are theirs likewise, so it is
enough to know how much of both belongs to the pieces already written: where `p` then stands the text of the
next piece stands (`Meets`), and `Flags`, `FieldWidth`, `Precision` and `Qualifier` each
read their part of it, because what stands behind a part is no continuation of it. `FormatInv` is
`FormatsRight` with what makes it inductive: format and arguments are those of the pieces, and
`number()` runs for the piece that `vsprintf` stands at, an integer, and with nothing but
what that piece says. A `%n` stores the length of what was
written, so `number()`'s fields must have theirs: this is `FieldFilled`'s invariant
(`DigitsInv`), and the two are kept together. `NumbersUnderPrintf`
is a refinement: a step of the console is one of `NumberSpec` or leaves its variables alone. By it
`Quotient`, `FieldFilled` and `ReadsBack` hold of the numbers in a format as well.

**Search tree**: for any nodes, keys and trees. `TreesStaySound` and `KeysAddedOnce` are
about calls of `stree_add` and `stree_search` only. `TreesInv` gives each node the set of the nodes below it: its own, those
below its left child, all with smaller keys, and those below its right child, all
with larger ones; links up are the converse of links down, and what users have not
added has none (`Shape`). These sets shrink on the way down, so a walk ends before
it has taken as many steps as there are nodes, and the levels that `Below` counts find them
all (`ForestUnder`). What the walk keeps is that the key, if it is in the tree at all, is below
the node it stands at, and so would be the new node's place (`OnWay`). The new
node is then below exactly those nodes that the walk has passed (`Grows`).

`DeletesKeepTheRest` and `LeavesMoveSoundly` are about one call each, in any state of which
`Sound` is true, however it came about. The invariant is therefore small: links lead
to nodes, roots have no parent (`LinksInv`). What `Sound` says of `Below` first has to be
turned into a shape: `Below` is the least set that no link leaves, whatever the
links (`UnderClosed`, `UnderLeast`), and without the links that deleted nodes
still have (`Tidy`) a sound tree has the shape it had before the first deletion (`SoundTidy`).
After `stree_del` it has none, because parents are stale; there the sets below the
nodes are given one by one and shown to fit the links and the keys (`FitsTrees`). The heir
is the last of the left subtree (`HeirIs`), so in the place of the node it has the rest of that
subtree on its left and the right subtree on its right (`DelRight`). A leaf leaves
no stale parent (`LeafGone`), and stree_add sees nothing of what deleted nodes
have left (`AddsAtTidy`), so a move ends in a shape again (`LeafAdded`).

**Path splitting**: for any names that fit, any sizes of the buffers and whatever the stack held
before (`NameAssumption`). The first part is where the slashes of a path are and
that `strnchr`, which counts them one by one, finds the k-th (`PathSlashes`, `StrnchrIs`, from
`StrnchrFrom` about any string). Then
each call's temporary holds the name it was asked for and behind it either a slash
or what was there before, since `strdel_head` puts the terminator at the length of the
source (`HeadIs`). A path without a last slash works when device and class have
equal lengths because the slash that the second call's copy left at that place of the
temporary is still there when the third looks for one: this is what `PathInv` adds.

**Tokens**: `TokensWhole` says for every memory (a byte each, a terminator at its end),
any two strings in it and any string of delimiters what `TokensRight` says. First, what `strspn`
and `strpbrk` find is the first place that is not, or is, among the delimiters (`StrspnIs`,
`StrpbrkIs`); they see the delimiters as they were, because the three strings lie apart
(`DelimsStand`). Then, what the pieces of a text are up to some character: those before the last
stay (`PiecesKept`), the last grows up to the next delimiter (`PieceGrows`), delimiters in a row
leave empty ones (`EmptyPieces`), and of the pieces that are not empty the same (`FilledKept`).
`TokenInv` says where a call goes on: there a piece begins, from there on the string is as it
was, and the pointers given so far stand in front of it and hold the pieces before (`FieldsAt` for
`strsep`, `ToksAt` for `strtok`); or the string is at its end and all pieces are given (`FieldsAll`,
`ToksAll`). `strtok` is called once more at the end, with `___strtok` null. One call is
`FieldsStep` or `ToksStep`; it writes one terminator, in its own string (`Elsewhere`), so what the
other has given stays (`FieldsKept`, `ToksKept`).

**String calls**: `CallsFollowTheirComments` says for every memory, any length of a word and
any arguments that `StringCalls` allows what `StringsRight` says: the 24 functions of string.c
that it has, all but `strtok`, `strsep` and `strdup`, answer or write what they should, and no
byte outside. The invariant is small
(`CallInv`: until the call is made the memory is one that ends in a terminator); the work is in
the functions, one lemma each, on strings as they lie in a memory (`StringAt`) or on areas
(`AreaAt`). A search is the first place that fits (`StrchrIs`, `StrstrHolds`, `MemscanIs`), and
`strrchr` the last one (`StrrchrHolds`); `strnchr` counts slashes up to the n-th (`StrnchrHolds`). Two strings agree up to some character and there end,
or differ, and `strcmp` keeps the sign of the difference where a signed char holds it
(`ComparesEqual`, `ComparesDiffer`, `SignedIs`). A copy in units of any size, upwards or
downwards, leaves what a copy at once would, as long as it reads no byte it has written
(`CopyUpIs`, `CopyDownIs`); so `memcpy` needs the areas apart, and `memmove` nothing. What is put
behind a string, with a terminator written or copied, makes the string of both (`PutText`), which
serves `strcpy`, `strcat` and `strncat`. The functions that change the memory as they go
(`strncpy`, `strncat`, `strswab`) are followed pass by pass (`StrncpyStep`, `StrncatStep`,
`SwapStep`): each reads what no earlier pass has written, and they stop where the text says
(`SwapStops`).

Every safety property that the passing runs check is stated by a theorem. Only model-checked:
the liveness properties, which are out of the prover's reach, and the four violations.

## Plan

Done, in this order: Nand, Driver, Heap, Fifo, Atags, Stree, PathSplit, Uart,
Udiv with Number, and their first proofs; then start-up, boot and exceptions with
the tag list below them (Board), list.h (Lists), string.c (Strings), `vsprintf`
and the console from a format to the wire (Console). Next:

1. `HeapSpec`, an abstract allocator that Heap with one request size implements;
   then Heap with two sizes, where remainders get lost (mm.c:68). The lemmas
   of ContainerProofs would carry over to the lists in its memory.
2. Driver with lists of shared nodes, for a driver registered in two classes
   (driver.c:139).
3. Proofs: `NothingLost` with `printf` above the driver.

## Not modelled

* Register writes with nothing but fixed values: the clock and memory controller
  set-up, the timing values of the drivers, the LED driver. No property of them
  can be stated without the hardware. `disable_wdg`, `bad_mode` and `show_regs`
  have no caller.
* `hlist` of list.h and `strdup`, which nothing calls, the 64-bit variants of the
  number formatting, which the build leaves out, and the size of
  `printbuffer` (500 bytes): nothing in printf.c:412 stops at its end, and no
  format of the program comes near it.
* What a frame of an exception overwrites if it lies on the image
  (see Exceptions above).
* A driver registered in two classes: a guard of `RegisterDevice` excludes it,
  and PROJECT.json lists it as a hazard.
* The shell, buses and modules of designtask.txt, which do not exist in the
  source. The link script and makefiles enter as the driver section, the
  sections of the image and the heap's bounds.
* The vendored headers. Most of the repository's lines are headers of
  Linux and U-Boot (USB, MTD, ethtool, malloc.h, register layouts): declarations
  without behaviour, or functions that no source of the program calls. The
  program itself is about 3000 lines of C and assembler, and list.h; the models
  cover nearly all of those that change a state, but they are a small part of
  all lines in the tree, and no more of the tree can be modelled without modelling what
  does not run.
