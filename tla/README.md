# Verification of the HixleonOS kernel in TLA+

HixleonOS is a 32-bit x86 kernel of about 3000 lines of C++ with a boot loader in
assembly. It boots one processor, switches paging on, takes over the memory that
the firmware describes, builds a heap, reads the ACPI tables and initialises the
APICs. Then `kernelMain` ends (it stores through a null pointer on purpose).
Nothing runs concurrently: interrupts are never enabled (`CPU::enableInterrupt` has
no caller), there is one processor, and no threads. What makes the code hard to
test is memory: page tables that are edited through translations of themselves, a
processor that caches those translations, bitmaps and sections in unsigned
arithmetic, an allocator whose bookkeeping lives in the memory it hands out, and
failures half-way through operations over several pages.

This directory holds the models (`*.tla`), the configurations of the model checker
(`MC*.tla`, `MC*.cfg`), the proofs (`*Proofs.tla`, `*Lemmas.tla`) and `PROJECT.json`,
which ties definitions to source lines and lists runs, mutants, hazards, findings
and theorems.

## 1. Inventory

Paths are relative to `src/kernel/`, unless they begin with `src/`.

| Component | State it keeps | Operations | Interacts with |
|---|---|---|---|
| Physical page table, `src/memManager/physMem.cpp` | bitmap of 2^20 frames, index of the last answer, direction | `pageIsUsing`, `setPageUsage`, `setSectionPageUsage`, `getUsablePage` | called by VirtMem, heap, kernelMemInit, kernelMain |
| Virtual memory, `src/memManager/virtMem.cpp` | the page tables themselves, direction, the null flag; the processor's TLB | `map`, `unmap`, `pageIsUsing`, `virtPageToPhysPage`, `getUsablePage`, `enableNullptr` | PhysMem for tables; CPU (`invlpg`) |
| Heap, `src/memManager/memManager.cpp` | words inside the heap: two size words, chunks with headers and footers | `allocHeap` (two), `expandHeap`, `freeHeap`, `heapSize`, `coalesce`, `kmalloc`, `kfree` | PhysMem and VirtMem for its pages |
| Kernel memory, `src/memManager/kernelMem.cpp` | the first page of the kernel's heap | `kernelMemInit`, `hlmalloc`, `hlfree`, `new`, `delete` | all of the above |
| Boot page tables, `src/hhkInit.cpp`, `src/boot.S` | the first directory and five tables | `kernelPageInit`; boot.S copies the memory map | initial state of everything else |
| Kernel main, `src/kernel.cpp`, `src/crash.cpp` | the memory map and where it is | `kernelMain`: DRAM, heap, ACPI, null page, two loops over the map, APICs | calls everything |
| ACPI, `src/ACPI.cpp` | what it found of the APICs | `findRSDP`, `init`, `parseAPIC` | maps firmware tables with VirtMem |
| APIC, `src/int/APIC/*` | device registers at pages 1 and 2 | `init`, register access, timer | VirtMem, ACPI |
| Interrupts, `src/IDT.cpp`, `src/int/*` | descriptor table, table of handlers | `initIDT`, the wrapper in assembly | every exception ends in `crash` |
| Terminal, `src/tty.cpp` | screen memory and cursor | put, scroll, clear | VGA memory |
| Map, `class/Map.hpp` | a red-black tree | insert, find, remove | new, delete |
| SharedPtr, `class/SharedPtr/*` | objects, reference counts in a global Map | copy, assign, `unRef` | Map |
| ByteArray, `class/ByteArray/*` | a buffer and its length | copy, assign, joint | new, delete |
| Number tools, `src/tools/numTools.cpp` | none | 64-bit division, conversions | ByteArray |
| Processor access, `src/cpu.cpp`, `src/GDT.cpp` | none | single instructions, constant tables | everything |
| Legacy boot loader, `src/boot/legacy/*` | disk and memory | FAT chain, copy of kernel segments | BIOS |
| Build scripts | | | |

What makes each correct, and what is hard about it:

* **Physical page table.** A frame in somebody's hands is never handed out; a search
  misses no free frame whatever its direction; a section changes exactly its
  frames. Hard: the search turns round in the middle of the table and keeps its
  direction across calls; sections are written in three passes in unsigned
  arithmetic.
* **Virtual memory.** The tables, windows and TLB together behave as a function
  from pages to frames; tables are private; the null page never comes back. Hard:
  tables are edited through cached translations; a table is created and destroyed by
  operations on its pages.
* **Heap.** Blocks never overlap or move; chunks tile the heap; free chunks merge;
  nothing is lost. Hard: the structure is stored between blocks, merges and splits
  depend on each other, growth turns the old last word into a header.
* **Kernel memory, boot tables, main, ACPI.** At the end of boot only whole pages of
  memory that nothing else reaches are free; several-page operations that fail undo
  what they did; the map is read only where it is mapped. Hard: roundings, the
  order of the steps, what a region of the map may look like.
* **Map, SharedPtr, ByteArray, Terminal, number tools.** Agreement with a function, a
  count, an owner, a screen, integer division. Hard: red-black fix-ups, the order in
  which counts and pointers change, self-assignment, off-by-one at the last column.
* **ACPI, APIC.** The walks over firmware's lists find the I/O APIC that is named and leave nothing
  mapped, and the kernel of a sound machine comes up. Hard: tables share pages; the context may
  be full before the item that matters comes; an item of length 0 keeps the walk for ever.
* **Interrupts.** Interrupted code goes on as if nothing had happened, and what `crash` shows is
  what the processor pushed. Hard: the stack is aligned in between, and only some
  vectors push an error code.
* **Loader.** The kernel in memory is the file on the disk, segment by segment, and the map is
  that of firmware. Hard: one buffer serves directory and FAT; the file is parked in
  memory that the segments must not reach; loops that count down before they look.

`PROJECT.json` lists the hazards one by one with the line where each bites.

## 2. Plan

Done in this order, most important behaviour first:

1. `PhysMem`, `PhysMemSpec`, proofs.
2. `VirtMem`, `VirtMemSpec` over `PhysMem`, the abstract `AddressSpace`, proofs.
3. `Heap`, `HeapCalls`, `HeapSpec`, the abstract `Allocator`, proofs; `HeapWords`, the heap in
   memory, which implements `HeapSpec`, with the proof.
4. `KernelMem`, `KernelMemSpec`: boot and several-page operations over `VirtMem` and
   `PhysMem`, with `ACPI::init` on tables of firmware and the pages of the APICs; proofs
   of all its safety properties.
5. `RBTree`, `RBTreeSpec`: `Map.hpp` as nodes and links, against the abstract `Dictionary`.
6. `SharedPtr`: pointers, counts and objects, with proofs.
7. `ByteArray` against the abstract `Strings`; `Tty` against the abstract `Teletype`;
   `NumTools`; `Interrupts`; `Loader`; composed with `SharedPtr` for checking by `MCLibrary`, as
   `PhysMemSpec`, `HeapSpec` and `RBTreeSpec` are by `MCStructures`. `MCPhysMem`, `MCRBTree`,
   `MCNumTools`, `MCLoader` and `MCTty` give small instances to these and to the runs of findings.
8. `LibraryProofs`: pointers, arrays, screen, interrupts and loader, with both refinements.

Left: the conversions of numbers and the links of the tree, which are checked and not
proved (end of section 6).

## 3. Modules and how they correspond to the code

**PhysMem** (`physMem.cpp`) is a record `pm`: the bitmap as the set `used`, the last answer,
the direction, and `wild`, set once a function has written behind the bitmap. One
operator per function takes and returns the record. `SetSectionPageUsage` keeps the
three passes through `SectionEnd`, with the subtraction in `Word` arithmetic.
`GetUsablePage` keeps the groups of 64 frames and the single turn.
**PhysMemSpec** adds the callers: boot code that marks sections, `map`, which asks for a
frame without marking it, and the heap, which marks what it gets at once.

**VirtMem** (`virtMem.cpp`) keeps page tables where they are: `mem[f][i]` is entry `i` of
frame `f`. The last directory entry points at the directory, and every read or write
of a table goes through its window, `Lookup(s, WindowPage(d))`, which takes a cached
translation when the TLB has one. `Map`, `Unmap`, `EnableNullptr` and
`VirtGetUsablePage` follow their functions line by line, including the frame that
`map` marks (virtMem.cpp:135) and the count that survives the turn of the search
(virtMem.cpp:161-172); the search itself is stated by what the walk over pages
answers. **VirtMemSpec** adds the callers (heap, ACPI, APIC, kernelMain, stores
through pages, and somebody who asks for page 0 at any time, `MapZero`) and the processor, which
may fill or evict a TLB entry at any time.
The tables of boot are frames of the kernel's image, as in linker.ld, so that the pages of the
kernel lead to them too: `TablesArePrivate` is about all pages but these (`TablePages`).
**AddressSpace** is the promise: a function from pages to frames, of which a call changes the
page it was made for. `call`, the last call with its arguments and its answer, is a variable of
both, so that the refinement ties each change to the page that was asked for.

**Heap** (`memManager.cpp`, `hlmalloc`) is the list of chunks: lengths by first word, and the
set of the chunks in use. **HeapCalls** has what callers hold; **HeapSpec** adds `new` and
`delete`; **Allocator** is the promise. **HeapWords** is the same code on the words in memory,
with headers, footers, the two size words with their marks and callers that fill their
blocks; `MemKmalloc` does to the words what `Kmalloc` does to the chunks, and so on. The walk of
`coalesce` is a fold: `Visit` is what it does about word `i`, which is nothing unless the
next chunk begins there. `HeapWords` implements `HeapSpec` under the mapping `HeapOf`, which reads
chunks out of the words.

**KernelMem** has `kernelPageInit`, `kernelMemInit`, `allocHeap`, `expandHeap`, `freeHeap`,
`ACPI::init` and the two loops of `kernelMain` as operators on the state of `VirtMem`;
addresses are in bytes so that the roundings of the code appear. **KernelMemSpec** has one
action per step of `kernelMain`, in order (`stage`), then heaps that are made, grown
and freed.

**RBTree** (`Map.hpp`) is a tree as a record of links: root, two children and a parent per
node, the red nodes. A node never changes its key (the code relinks nodes and
does not copy keys), so a node is its key, and its value travels with it. `leftRotate`
and `rightRotate`, and the two symmetric halves of each fix-up, are one
operator with a side as argument. `DeleteFixup` reads the brother and its children as
the code does, without a test for null: where one is missing the tree gets `fault`,
and **RBTreeSpec** ends there, as the kernel does in its page fault handler. `Put` is
`operator[]`, the only caller of `insert`. **Dictionary** is the promise: a set of keys, to which a
call adds, or from which it removes, the key that it was made for (`call`, in both).

**SharedPtr** has the pointers of callers and, in every object, one more, as a list's node has.
`unRef` deletes the object, whose destructor calls `unRef` for its member: each such step is
an action (`Descend`, `Free`), so that the states inside a deletion are states of the model,
and `operator=` reads its argument after the last of them, out of memory given back if
need be. A second deletion stops the model (`Undefined`), as nothing is defined behind it.

**ByteArray** keeps buffers, their owners and lengths; **Strings** is the promise, texts that are
values. The order of the code is kept where it shows: `operator=` deletes its buffer
before it allocates, `joint` changes the length before it reads.

**Tty** is the video memory, the offset, and the offset the controller was told; **Teletype** the
promise, a sheet with a place on it. When the lines of the sheet move up, the place goes up too;
how far is left open, so that a terminal whose cursor goes up with its lines keeps the promise as
well as this one, whose cursor goes up twice. That the second line up is wrong is a property of
its own (`NextPlaceIsFree`), which does not hold (see 5).

**NumTools** has both divisions with their loops over bits, and `toByteArray` for six types, on
words of `IntBits` and `LongBits`, sums and opposites cut to them; fractions are counted in parts.
The properties say what the text should be, not what the code makes of it.

**Interrupts** has the stack word by word: what the processor pushes, what the stub and the
wrapper add, and what `iret` takes. A handler may be interrupted, and may change the table of
handlers: which function an interrupt gets is read once, at its entry.

**Loader** has the disk (directory, FAT, clusters), the one buffer at 0x7E00, LOADER's variables as
the record `am`, and memory from 1 MiB on; segments are copied byte by byte, as in the
code, where they could meet the file they are copied from. `GiveUp` is every way to
stop with a message, `GoWild` every input on which the code divides by 0 or runs one of its loops
2^32 times (a table without headers, a segment without bytes, a map without regions): of such a
machine only that it got there is said. The definitions before the variables are about a machine as it is
switched on: its files, where LOADER puts one, what the code takes for granted. The part of `boot.S` that takes the map, from LOADER or from
GRUB, is here too.

In **KernelMem**, `FindRSDP` reads through pages as `findRSDP` does (a region of the map that
is not mapped faults), `ParseAPIC` stops where the context is full, and a machine is a
memory map with the root pointers and tables that firmware has left. An item of length 0 keeps
`parseAPIC` at its place (`SpinOn`), unless the context was full before (`NeverParsed`).
`FirmwareIsSound` in **KernelMemSpec** names what the code takes for granted.

`SetLemmas`, `PhysMemLemmas`, `PhysMemProofs`, `VirtMemLemmas`, `VirtMemProofs`, `HeapProofs`,
`KernelMemProofs`, `LibraryProofs` hold lemmas and theorems. Operators with a suffix (`Map_WrongEntry`) are mutants: forms of the
definition below them with a plausible bug, by which each property is shown to
notice one.

Calls are single steps where nothing in the kernel can interleave with them and no state
inside them matters: everywhere but in `SharedPtr`, `Interrupts`, `Loader` and the steps of
`kernelMain`. The TLB, which does act on its own, does so between calls. Within a call the
TLB could also be filled, by the call's own accesses: such an entry is
the translation of a window or of the page of a stack or of code, none of which a call changes
before its own flush, except the window of a table that is removed, which is named
below.

## 4. Runs

| Run | Bounds | Shows |
|---|---|---|
| `structures` | 192 frames (three groups), one held at a time, five sections; pages of 8 words, 1 to 3 pages, requests of 0, 6, 10, 28, 40 bytes; 7 keys, all sequences of calls | no frame handed out twice, no free frame missed, sections exact; chunks tile and merge, blocks apart, nothing leaks, refusals are justified, refinement of `Allocator`; links consistent, refinement of `Dictionary`, what spoils the balance |
| `phys_mem_short_section` | the frames of `structures`, sections inside one byte | **finding**: size wraps (physMem.cpp:52) |
| `virt_mem` | tables of 3 entries, 8 frames, 2 free, 2 TLB entries | tables private, TLB coherent, map exact, search complete, null page stays away though it is asked for; refinement of `AddressSpace` |
| `virt_mem_grow` | tables of 4 entries, one without a table | **finding**: the wrong frame is marked (virtMem.cpp:135) |
| `heap_words` | pages of 6 words, 1 to 2 pages, requests of 0, 4, 20 bytes | headers and footers agree, callers' data stay; refinement of `HeapSpec` |
| `kernel_mem` | 48 frames, tables of 32 entries, 7 machines with 4 memory maps, 2 heaps | a sound machine's kernel comes up, without trace or overlap; the APICs' pages stay; failures of several pages undo everything |
| `kernel_mem_capped` | DRAM up to the end of the address space | **finding**: all memory is marked as used (kernelMem.cpp:21) |
| `kernel_mem_split` | low memory in two usable regions | **finding**: the second stays mapped (kernel.cpp:88) |
| `map_balance` | 6 keys | **finding**: removing a black leaf is not repaired (Map.hpp:264) |
| `library` | see below | counts are right inside every call; arrays are texts of their own; the screen is a sheet; printed numbers are the numbers, rounded where they are cut; interrupts are exact; the kernel is loaded byte for byte, and a machine that lacks nothing gets there |
| `tty_scroll` | 2 columns, 3 lines, only printing | **finding**: text is printed over the last line (tty.cpp:54) |
| `num_unsigned` | unsigned longs from 0 to 12 | **finding**: the division loses bit 0 (numTools.cpp:10) |

Why the bounds are enough. Three groups are the fewest for which a search has a group
before, at and behind its start, in both directions; sections begin and end at every
kind of place in a byte. Tables of three entries have a table for low memory, one
for the kernel and the window; two free frames are the fewest for a frame to be
freed while another is held, and two TLB entries for a page and a window to be cached together.
Eight words a page leave room for zero to three blocks and for each kind of rest
(none, one word, two words), and 28 bytes take a word more than a page: the case
in which growing is not enough. In `kernel_mem` a heap of seven pages exceeds what
two heaps leave, so that `allocHeap` fails after zero to six pages; of two machines with an item of
length 0 one has it in reach and one behind a full context; the maps have
DRAM that ends inside a page, a region behind a gap that starts inside a page, and
DRAM too small for the heap (the kernel stops). The kernel's heap is bounded by
`MaxPages` so that it stays in the kernel's table, see `virt_mem_grow`.

`structures` runs the three structures side by side, one to a behaviour (`part`). Seven keys fill
three levels, and the coverage of the run shows every case of both fix-ups, successors
that are and are not the right child, trees that earlier removals have put out of
balance, and removals that fault. Rarest is the brother painted red in
`DeleteFixup`, in five steps.

`library` runs the parts that share no state side by side, one to a behaviour (`part`).
*Pointers*: two objects and two variables, so that an object dies with another inside,
objects point to each other or to themselves, and a pointer is assigned from a member
of what it is about to delete. *Texts*: two arrays, three buffers, texts of up to three
characters, so that a buffer given back is used again by another array and a call may be
refused one. *Terminal*: two columns and three lines, the fewest for which a scroll that
moves the cursor by two lines stays on the screen as it does on 25, with a place
off the screen and one whose column is off it.
*Interrupts*: a vector with an error code and no interrupt flag (14), the one that only some
tables list (17), one of a device (64), every alignment of the stack, one interrupt
inside another. *Numbers*: all ints but the least, all unsigned ints, longs with quotients of less than
2^7, which is to their ints of 8 bits what 2^31 is to those of 32, unsigned longs in the bases that need
no division, and fractions with up to two digits that do not come near a row of nines, except
those of a float for which the carry is due (`Nines`, `CarryIsDue`); widths below, at and above the
digits, both fills. What is left out is printed wrong: `num_unsigned` asks for one kind of it, and
section 5 names the others. Two digits and 128ths are enough for a fraction to round down, up, to a row
of nines, and over it. *Loader*: 29 machines; in four, which lack nothing, the sectors of the FAT that
KERNEL needs alternate and repeat, and memory is as small as the kernel and its file, larger, and
larger than is used; each of 25 differs from these in one thing, and between them they take every way to
stop and to go wild.

Deadlock is checked in all passing runs but `library`, where an undefined interrupt
stops the kernel, a request for a number is the end of its behaviour, and a
loaded, stopped or wild machine is the end of the loader's;
that `kernel_mem` has none means that boot
never gets stuck (a halt, a fault in `map` and a loop that never ends are explicit self-loops).

**Fairness.** Two assumptions, both of the kind that one processor without other threads
justifies: code that is running takes its next step. `BootFairness` says so of the steps of
`kernelMain`, and gives `BootSucceeds`: the kernel of a machine that lacks nothing comes up. What it
may lack is named by `LacksNothing`: a map in order, room for the first heap, a root pointer below
1 MiB, a table of APICs, and no item of length 0 in reach. (`BootFairness` is `WF_vars(Boot)`; the guards
stand in place of `ENABLED`, which would compute every step twice.) That of `LibSpec` is
the weak fairness of `LoaderStep`: the boot sector, LOADER and boot.S are one program, of which
each step enables the next; it gives `KernelIsEntered`. No caller ever has to call, so nothing is promised of the
other specifications, which are libraries.

## 5. Findings

1. `physMem.cpp:52` - `setSectionPageUsage` with a section that ends inside the byte
   it begins in subtracts too much; the size wraps and the bitmap and what lies behind
   it are overwritten. A memory map with a small region at an odd place is enough.
2. `virtMem.cpp:135` - `map` marks the frame it maps, not the frame it takes for a new page
   table. The table's frame stays free and is handed out again. The heap reaches this
   once it grows past the tables of the boot code.
3. `kernelMem.cpp:21` - with DRAM up to 4 GiB, `(_1MiBUpper + 1) >> 12` is 0, and all
   memory is marked as used; the kernel stops for lack of a heap.
4. `kernel.cpp:88` - the loop that unmaps low memory ends at the region's length and not at
   its end; regions that do not begin at 0 stay mapped in part or entirely.
5. `Map.hpp:264` - `deleteFixup` is called with a null node when a black leaf is removed
   and does nothing: the tree loses its balance, and a later removal may follow a null
   pointer. `structures` shows that the content stays right until then, and that no other
   removal and no insertion spoils the balance.
6. `tty.cpp:54` - when the screen scrolls the cursor goes back two lines, one with the lines and
   one more: the next text is written over the line that was the last. With one line up in all
   (`Settled` without the second subtraction) `NextPlaceIsFree` holds.
7. `numTools.cpp:10` - `__udivdi3` stops before bit 0: quotients lose their last bit, remainders and
   decimal digits of `unsigned long long` go up to 19, and 10 is printed as `:`.

Behaviours that the models contain, that have no run of their own, and that callers should
know of:

* `unRef` called for its own sake on a shared object leaves the pointer set, and the destructor
  counts it down again (SharedPtr.h:51): `CountsAreRight` excepts such objects (`torn`).
* `a += a` on a ByteArray reads the new buffer, of which nothing is written (ByteArray.cpp:80).
* An item of length 0 in the table of APICs keeps `parseAPIC` for ever (ACPI.cpp:35), or fills its
  context if it is an override.
* The least number of a type is its own opposite (numTools.cpp:100) and is printed with characters
  below `0`; `1 << i` is an int (32), and quotients of 2^31 and more are wrong. Added to `MCRequests`,
  either violates `TextIsNumber`.
* Decimals between a row of nines and the next power of ten carry early (numTools.cpp:381), although
  the block is titled "round half up" (377): 0.85 with one digit is 1.0, and everything but a whole
  number with no digits is one too large. For `double` the carry takes off one too few (414): 0.5
  with no digits is 1.1. Without `Nines` in `MCRequests` both violate `DecimalIsRounded`.
* Segments are copied without a test whether they reach into the file they are copied from
  (LOADER.ASM:457); what is in the memory of such a machine `KernelIsLoaded` does not say (`FileIsClear`).
* A segment without bytes in the file, but with a place there, is copied 2^32 times (LOADER.ASM:462).
* The comment at LOADER.ASM:390-393 asks that a segment be as long in the file as in memory; the
  code (426-429) accepts less and fills up the rest with zeros, as the model does.
* `isrWrapper` saves no general register: a handler that returns leaves its own in eax, ecx and edx.
* A kernel without program headers, one whose headers have an alignment of 0, and one that does
  not fit above 1 MiB let LOADER go wild; so does a map from GRUB without regions.
* `boot.S` divides the length of GRUB's map without clearing edx (boot.S:80): with 1 to 11 there the
  map is refused, from 12 on the machine goes wild. An error or a wrong signature with a later call
  for the map makes LOADER give up, too (LOADER.ASM:57-59).
* The loader compares only ten of the eleven characters of a name (`jcxz` does not see the last
  comparison) and reads the length of the map together with the low half of the first
  region's base (LOADER.ASM:494): `LoaderAssumption` excludes what follows from these.

## 6. Proofs

All theorems are checked by TLAPS for every value of the constants that satisfies the
assumptions; `PROJECT.json` lists them with what each says.

*Assumptions.* `PhysMemAssumption` (whole bytes of bitmap, no overflow of two indices),
`SectionsAssumption`, `VirtMemAssumption`, `BootAssumption` (what `kernelPageInit` builds),
`HeapAssumption`, `HeapCallsAssumption` (the heap and requests stay below 2^32),
`HeapWordsAssumption` (twenty bits hold the number of pages),
`KernelMemAssumption`, `KernelMemSpecAssumption` (every machine has a region at 1 MiB and passes
`FirmwareIsSound`; the boot loader leaves the map in memory that boot code has mapped) and
`LayoutAssumption` (the linker's layout: five tables behind the directory in the kernel's
image, tables for the kernel with room for its heap, and, a bound, a first table with room
for the other heaps). Every one is evaluated by TLC in the runs.
`SharedPtrAssumption` (finitely many objects and variables, distinct from each other and from null),
`ByteArrayAssumption` (null is no buffer, C strings are texts without a 0), `TtyAssumption` (a
screen with at least three lines, '?' printable and 0 not) and `InterruptAssumption` (the
vectors that push an error code are the seven of the processors that the kernel is for).
`LoaderAssumption` says what the loader takes for granted, in named parts. `DiskIsSound`:
entries, FAT and data have the form the code reads them in. `MapIsSound`: the map begins at
address 0 (or LOADER.ASM:494 takes another length for it), and memory ends at the end of a
sector. `FilesAreSound`: both names are there once at most, and no other name differs from them
in the last character alone (which `jcxz` does not see); LOADER, which the boot sector does not
examine, is whole and within the one sector of the FAT that is read for it; KERNEL has the
clusters that it needs, or one of those is marked: LOADER follows the chain to its end and does
not compare it with the length.
`KernelIsSound`: if there is room for KERNEL, its segments lie in memory, apart from each other, and
take no more from the file than it has; the code tests none of this. `HeadersAreSound` gives headers
their types only. Segments that reach into the file and inputs on which the loader goes wild are
within the assumption: of the former the theorem says nothing of what is in memory (`FileIsClear`),
of the latter that they are no machines that lack nothing. `LacksNothing` defines those. The run's 29 machines satisfy all of it.
The theorems on `VirtMemSpec` assume besides
`ClientsStayInBootTables`: pages are mapped and unmapped only where boot tables exist,
and each table keeps a page. Without it finding 2 refutes them. The run `virt_mem`
evaluates it too (`MCAssumption`).
The theorems on `KernelMemSpec` assume `MachinesAreSound`: `MachineIsSound(m)` for every machine
`m`, which the run `kernel_mem` evaluates on all of its machines. It says that DRAM holds the
kernel and ends below the end of the address space (or finding 3), that regions freed for
their type reach the end of their first byte of bitmap (or finding 1), do not overlap DRAM
and hold every frame freed for them, that usable memory below 1 MiB is one region from
address 0 and comes first in the map (or finding 4), that firmware's tables lie outside the
kernel, and that the APICs' registers lie in no memory.

*Physical page table.* `IInv == TypeOK /\ HeldIsUsed` is inductive: every way a frame gets
into `held` marks it, and sections are freed only where nobody holds a frame. That a
search is complete (`GetUsablePageComplete`) is a lemma on the operator: the union of
the two directions is all groups. `SectionsAreExact` is proved for sections that reach
the end of their first byte and whose sum does not wrap; finding 1 is the rest.

*Virtual memory.* No safety property is inductive alone: that a store leaves tables alone
needs that no page leads to a table, that a new mapping keeps this needs that frames
of tables are marked as used, and that an edit reaches the right table needs that cached
windows are up to date. `IInv` in `VirtMemProofs` joins them: `Good` (types, the
directory is that of boot, tables private and distinct, TLB coherent, pinned pages
in place), `NullOK`, `HeapOK` (frames of the heap marked and distinct) and the boot frames
marked. Two lemmas carry the proof: `MapCorrect` and `UnmapCorrect` state what a
call does to `Space` and that `Good` survives. `ImplementsSpace` is the refinement:
each action is a step of `AddressSpace` or a stutter.

*Heap.* `IInv` in `HeapProofs` has `Tiled` (chunks tile the heap, every length is that of a
chunk with header and footer or of a rest), `NoTwoFree` and `Blocks` (chunks in use are
the callers' blocks, each of exactly the words it needs). Each operation has a lemma
on each conjunct (`CoalesceTiled`, `SplitTiled`, `GrownTiled`, then `KmallocStep`, `ExpandStep`,
`HlmallocStep`). That blocks never overlap (`ImplementsAlloc`) follows from tiling. `RefusalsAreJustified` looks the
other way: a gap in which the request fits (`NoGap`) lies, as no two free chunks touch, inside
one free chunk, and first fit takes a free chunk if any is long enough (`KmallocRefusal`);
merging, splitting and growing keep such a chunk or make one (`MergedKeepsRoom`,
`GrownHasRoom`).

*Heap in memory.* `MemInv` says that the words spell the heap that `HeapOf` reads (`Spells`: both size
words, and at either end of each chunk its header), that this heap is `Whole`, as in `IInv`, and
that what callers have stored is there. That walks over headers meet the chunks and
nothing else (`StartsAreMet`) is induction along the words. For `coalesce` the induction
needs what the walk has achieved when it comes to word `i`: `Stood` says that the chunk it
stands at reaches up to the next chunk's start, that all chunks it has swallowed are those that
`Coalesce` absorbs, that what lies behind it is merged as in `Coalesce(g)` and what lies before it is
untouched; `VisitMerges` and `VisitGoes` carry it on and `VisitFold` lifts it to the fold
(`MemCoalesceSpells`). With splits, frees and growth (`MemSplitSpells`, `MemKfreeSpells`,
`MemGrownSpells`) every operation on words that spell `g` leaves words that spell what the same
operation makes of `g`, and writes no word of a chunk in use (`KeepsBusy`), from which
`PayloadIsAlwaysKept` and `WordsImplementHeap` follow.

*Kernel memory.* The loops of `KernelMem` are folds. A fold is opened once for each loop
(`AllocPageFold`, `ReleasePageFold`, ...): its values on the prefixes of the sequence are
functions on sets of indices, and `FoldReaches` in `SetLemmas` is induction along them for a
set-valued `J[i]` of what is known after `i` turns. From it come what the several-page
operations do, for any number of pages, to translations and bitmap: `Taken`, `Released`,
`Cleared` relate the states before and after, and compose, so that a rollback after `k` pages
is a `Taken` followed by a `Released` of the same pages (`AllocHeapCorrect`).
`VirtMemLemmas` has what single calls do (`MapCorrect`, `UnmapCorrect`), for any layout of
tables that fits `IsLayout`; `KernelLayout` and `BootGood` show that the tables of
`kernelPageInit` are one (`BootWalks` computes every translation of them).
`IInv` in `KernelMemProofs` is `FirstStage` until `kernelMemInit` has run and `LaterStage` from
then on. Its core is `Sound(vm, H, kept, map)`: the tables are in order (`Good`), the pages `H` of
the heaps lead to distinct frames that are marked and not in `kept`, every other page leads into
`kept` or nowhere, and what is marked is reserved or in a heap. During boot `kept` is all that
`kernelMemInit` has reserved; while `kernelMain` frees regions and unmaps low memory, frames are
free that pages still lead to, and the invariant says which pages are lost already
(`LowIsLost`). When the kernel runs, `kept` has shrunk to `Fixed`, the reserved frames that were
never freed: that no page leads to any other frame (`SoundStarts`) is what the two loops over the
map must have achieved between them. `HeapsShaped` says where heaps lie, so that `Spare` pages
are unmapped, `kernelMemInit` finds its pages, and a pigeonhole argument (`SlotFree`) gives
`getUsablePage` a run for the next heap. Each action keeps `IInv` (`MemoryKeeps` to `FreeHeapKeeps`);
`InvNext` joins them.

*SharedPtr.* `CountsAreRight` is not inductive: it does not say which deletions a call has
begun. `PtrInv` in `LibraryProofs` adds `Chain` (the first deletion is that of the call's own
pointer; each later one is that of the member of the object before; all are distinct,
and their objects have count 0), `CallIsSound`, `UnRefIsSound` (an `unRef` for its own sake leaves
null or a torn object), and `SourceIsSound`: the argument of an assignment is there, or in the
chain, or gone; once it is gone no further pointer goes, and either it is null and what
it pointed to is dead, or it still points there and that has another holder (or is null, or
torn). With counts as cardinalities of holders
each step adds or takes one element. `AssignmentsShare` follows from the last part.

*ByteArray.* `ImplementsStrings` alone does not exclude two arrays in one buffer that happen to
hold the same text. `ArraysInv` says that each array has a buffer of its own, as long as the
array is, or none and length 0, and that no other buffers are in use. `MoveMoves` is the one
lemma about memory: an array that moves to an unused buffer, or to its own, takes its
text there and leaves the others alone; with it each operation has a lemma that names the
call of `Strings` it is: `SetSets` and `CopyCopies` where the new text may take the place of the old
one, `JoinJoins` with the exception of an array that is appended to itself.

*Terminal.* `TtyInv` has the offset on the screen and the controller's offset equal to it.
That an offset is a place, and each place one offset (`DivisionIsUnique`, `PlaceIsOn`), for any width,
carries the refinement: `LinesMoveUp` and `ScrollIs` say that cells moved by `Width` are lines moved by
one, `PutSettles` and `SettledGoes` that the offset after a character at the last cell, which goes back by two
lines, is in a line above that one on the sheet and in the same column.

*Interrupts.* `IntInv` says of each interrupt that has not returned where its words lie: below the words
of its handler, whose first is the old top of the stack (`Holds`), for the last one on the stack
now, for each other on the stack that the next one interrupted. `EnteredHolds` shows that stub
and wrapper make it so, for each vector and each of the four alignments, `HeldGivesBack` that
`Return` and `IsrParam` find the words there.

*Loader.* What is in memory at the end is stated over the file, and the file over the recursive
function `Clusters`. That this function exists is induction along its beginnings (`PathExists`);
`ClustersFollow` then gives its values, and the cluster that LOADER comes to is always the
next of them (`LoaderIsRead`, `KernelIsRead`): for KERNEL because the sector of the FAT in the buffer is the
one that `fatSector` names, a conjunct of its own. `LoaderInv` has one part per stage: the map
as far as it is copied (`MapIsTaken`), the directory as far as it is searched
(`DirectoryIsSearched`, from which `FoundIfThere` concludes that a file not found is not there), what is read of either file, and, from the
header on, `KernelIsThere`. `SegmentsAreCopied` says of each address that it holds a byte of a
segment, if the copy has come by, and else what `FileOrOld` says, so that the
file is still whole while it is copied from (`FileStays`, `HeaderStays`), if the segments lie below it; without
that the invariant keeps only the stages, the map and the place of the file. That
they are apart makes one copy leave the others alone (`CopyByteKeeps`). `FileFits` is the
arithmetic of the file's place: rounded down to a sector, all of its clusters end at or before the end of memory.

*Only model-checked.* `RBTreeSpec` (searches and fix-ups are RECURSIVE operators), `NumTools` (its
loops are RECURSIVE operators, and what they compute needs induction), and liveness (`BootSucceeds`,
`KernelIsEntered`), which is out of this prover's reach. That no step of a machine that lacks nothing stops it is
proved for the loader (`KernelIsAlwaysLoaded`); that the steps come to an end is checked.

## 7. Not modelled

* Register writes of the APICs, the PIC and the timer, port I/O, descriptor tables: no state of
  the kernel depends on them. Of the APICs only the pages are modelled.
* General registers across an interrupt; interrupts of devices in the kernel as it is (it enables
  none), so that no other module interleaves with handlers.
* What `kernelMain` prints; only the conversions it prints with are modelled.
* Access rights and other flag bits of page entries: the code reads only the present bit.
* Frames of memory above 4 GiB: the kernel addresses none.
* `virtAddrToPhysAddr`, `addrIsUsing`: address arithmetic over modelled functions.
* Frees of pointers that were not given out, and requests within a page of 2^32 bytes:
  outside the assumptions on callers, listed as hazards.
* In `KernelMemSpec` the TLB stays empty (`VirtMemSpec` is about it), the contents of a heap are
  two opaque words (`Heap` and `HeapWords` are about them), and the small objects that
  `kernelMain` allocates while it prints are assumed to fit into the first heap.
* Firmware beyond `FirmwareIsSound`: a second MADT, an I/O APIC behind more overrides than the
  context has room for, an override of length 0 (which fills the context).
* `size`, the destructor, copy and assignment of `Map`, which its one user never calls; the
  null address in the table of counts.
* Rounding inside the floating point unit.
* In the loader: disk ports, BIOS calls other than the map they return, the switch to protected
  mode, what a machine does once it has gone wild, and the cases that `LoaderAssumption` excludes, as a
  chain of clusters without an end.
* Build scripts.
