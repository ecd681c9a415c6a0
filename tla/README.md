# Flux kernel: TLA+ models, checks and proofs

Flux is a single-processor x86-64 microkernel at the stage of its boot code: it takes over from the Limine bootloader,
builds its physical memory manager, its address space, its descriptor tables and its task table, and is meant to start the
boot modules in user mode. It has no tests. This directory holds models of its components, the configurations that
model-check them with TLC, and proofs of their main properties that TLAPS checks.

The code is read as it is at this commit. Every definition that models code is listed in `PROJECT.json` under `map`, with
its lines.

## The system

Paths are under `src/kernel`. "AS" is an address space.

| Part | State | Operations | Interacts with | What makes it correct |
|---|---|---|---|---|
| physical memory manager, `arch/x64/mem.c` | `first_page_frame`, `n_free_page_frames`, and the list of free frames, kept in word 0 of the free frames themselves | `find_free_frames`, `get_phys_block`, `put_phys_block`, the stub `get_consecutive_phys_blocks` | everybody who needs a frame; whatever a client writes into a frame replaces the marker | the list visits every free frame once and no other frame; ASSERT fires only when RAM is really used up; no frame is miscounted |
| paging, `arch/x64/paging.c` | the paging structures, in frames taken from the memory manager; CR3 | `map_page_specific_pml4`, `map_page`, `paging_init` | takes frames, writes them, and reads whatever they held | structures form a forest of private frames; a call changes the translation of one page |
| kernel AS, `mem.c:58-128`, `paging.c:33-39`, `main.c:42-68` | `kernel_pml4_table`, the loop variables | `mem_init`, `setup_kernel_map`, `paging_init`, `_start` | the memory map of Limine; paging | exactly the kernel, the modules and the direct map are mapped; no structure too many; after CR3 is loaded stored addresses still mean something |
| tasks, `generic/scheduler.c`, `arch/x64/proc.c` | `tasks[]`, `current_task` | `scheduler_init`, `new_task`, `init_task_space_from_mem`; `switch_to_task` and `scheduler_preempt` have empty bodies | frames and paging | a READY task names an AS with its stack; ASs share nothing that can be written; a slot in use is not taken again |
| serial console, `arch/x64/serial.c` | `com_ports`, `primary_com_port`, the registers of the UART | `serial_init`, `com_port_setup`, `com_send`, `com_sends`, `com_read`, `com_reads` | the UART works in its own time; `printk` and so every ASSERT sends through it | a port that works is found and can be used; bytes arrive in order, none twice; a read stops at its delimiter |
| printing, `generic/printk.c` | none | `printk`, `kputs`, `kputhex`, `kputdec` | `com_send` | the digits printed denote the number |
| interrupts, `arch/x64/idt.c`, `exceptions.c`, `syscall.c` | the IDT, the IDTR | `idt_init`, `idt_load`, `idt_attach_handler`, the handlers | the CPU may raise an exception or an NMI at any instruction | an interrupt reaches its handler; user code reaches the system call gate |
| segments, `arch/x64/gdt.c`, `gdt-helpers.asm`, `structures.h` | the GDT, segment registers | `gdt_init`, `load_gdt`, `reload_seg_registers` | gates and `iretq` name selectors | each selector in use names a descriptor of the right kind and privilege |
| assertions, `generic/debug.h` | none | `ASSERT`, `ERROR`, `TRACE`, `WARN` | `printk`, then an endless loop; may break into anything | the message gets out whole, whatever it broke into |
| messages, `generic/ipc.h` | none: types only, no code uses them | | | |

Hard to get right and to test: the free list lives in memory that clients fill; structures are built from frames that hold
leftovers; RAM can run out between two structures of one mapping; addresses wrap; CR3 changes the meaning of every stored
pointer; a pointer of the wrong type is passed in code nobody calls yet; the UART is a concurrent actor; an NMI has no
regard for the order of initialisation. `PROJECT.json` lists these hazards with their lines and the properties that cover
them.

## Modules

| Module | Models | How it corresponds to the code |
|---|---|---|
| `FramePool` | what `mem.h` promises | A set of free frames, a set of held ones, the last block returned; a frame is taken only when free, given back only when held. Abstract: no code. |
| `PhysMem` | `mem.c` without `setup_kernel_map` | `mem` is physical memory, an array of words for each page. The free list is in `mem`, where the code has it: `Marker(f)` is word 0 of frame `f`. `first_page_frame` and `n_free_page_frames` are the globals; `entry`, `b_offset` and `ret` the locals of `find_free_frames`; `phase` says how far `mem_init` is, or at which ASSERT the CPU stopped. One action per loop turn of `find_free_frames` and per call of `get_phys_block` and `put_phys_block`. `Store` is a client that overwrites a block it holds, marker word included. `put_phys_block` takes any address and looks at nothing; that a client gives back what it holds is its side of the contract, and stated where `MemNext` calls `PutPhysBlock`. |
| `PhysMemProofs`, `PagingProofs`, `AddressSpaceProofs`, `BootProofs`, `TasksProofs`, `SerialProofs`, `InterruptsProofs`, `PrintkProofs` | | The theorems about the modules of these names; `AddressSpaceProofs` proves that `Paging` implements `AddressSpace`. Each extends its module, and those that build on `Paging` extend its proofs too. |
| `AddressSpace` | what `map_page_specific_pml4` promises | Spaces as functions from pages to translations. Abstract: no code. |
| `Paging` | `map_page_specific_pml4` | Extends `PhysMem`: paging structures are frames of the same `mem`. `pc`, `level` and `table` are the position of the walk, for `map_page` from the space in CR3; the code's four copies of "test, allocate, zero, link, descend" are the actions `Descend`, `AllocTable`/`AllocFails`, `ZeroTable`, `LinkTable`, `WriteEntry` at the level `level`. `spaces` and `data` say what the callers use their frames for. `Translation` is the MMU. |
| `Boot` | `mem_init`, `setup_kernel_map`, `paging_init`, and `_start` up to its first `get_phys_block` | Extends `Paging`. `map_entry` and `map_offset` are the loop variables; each turn begins a call of `map_page_specific_pml4`, whose steps follow. `cr3` selects what the MMU uses: NULL stands for the bootloader's structures. |
| `Tasks` | `scheduler_init`, `new_task`, `init_task_space_from_mem` | Extends `Paging`. The first parameter of `init_task_space_from_mem` is a pointer to a pointer. `pml4` is where it points: `LOCAL_VARIABLE` for `_start`, which passes the address of a variable, or the frame that `new_task` passes; then the new root is stored in word 0 of that frame. `StartModule` is the call of `_start`, which asks for one page of each module; `OtherCaller` is anybody else who includes `proc.h`, asking for up to `N_BLOCKS` pages (there is no such caller yet). `regs` are the registers of a task that are not plain data. |
| `Serial` | `serial.c`, the UARTs, and `debug.h` | The driver is one `thread` (its place `at` and the arguments of the call it is in); each UART has its queues `tx` and `rx` and moves bytes in actions of its own (`Transmit`, `Arrive`), between any two steps of the driver. A poll loop is an action that is enabled when the status bit is set. `Error` and `NonMaskable` take the thread from wherever it is to the `printk` of TRACE, and after it to the endless loop. |
| `Structures` | the encodings of `structures.h` | A number is the set of its bits, so that masks and shifts are what they are in the code: selectors, segment descriptors, gate attributes, and a handler's address cut into the three fields of a gate. The last four definitions are how the CPU reads them. |
| `Interrupts` | `gdt.c`, `gdt-helpers.asm`, `idt.c`, the handlers, the `iretq` of `main.c` | Extends `Structures`. `gdt`, `idtr` and `idt_table` are the tables the CPU uses, in its own format; `Attached` lists the calls of `idt_attach_handler` in their order, and each stores the fields of its entry one by one, in any order. Exceptions and NMIs may come at every step; `Outcome` is the CPU's delivery, which runs whatever is at the address the gate holds: a handler, or `WILD`. |
| `Printk` | `printk.c` | One action per turn of `printk`'s loop. `fmt` and `ap` are the positions in the format and among the arguments, `out` is what has been sent, a sequence for each item of the format. `kputhex` and `kputdec` give the characters they send: their digits, from the number itself or from the buffer, go through the same loop, `Sent`. The reference, `Renders`, asks which number the digits printed denote (`Value`). |
| `MCPhysMem`, `MCPaging`, `MCBoot`, `MCTasks`, `MCSerial`, `MCInterrupts`, `MCPrintk` | | Values of the constants for TLC. |

`PhysMem` implements `FramePool` with `free` mapped to the frames that are not held (`PoolSpec`). `Paging` implements
`AddressSpace` with `translation` mapped to what the MMU makes of the structures (`MapsAsAsked`).

A definition such as `Push_Swapped` is `Push` with a plausible slip in it. No specification uses it: put in the place of
`Push` it makes a property fail, which shows that the property depends on this part of the code.

Data is abstracted throughout. A physical address is the number of its page, so a pointer to a frame is a page number. A
64-bit word of memory is a page number and a set of low bits, which is how both a marker and a paging entry are read. A
virtual page is its four indices. Characters and messages are values that can be told apart.

## Runs

Runs that must pass:

| Run | Shows | Bounds |
|---|---|---|
| `allocator` | `FreeListIntact`: however blocks are taken, filled and given back, the marker words of the free frames form one list through all of them. `ExhaustedOnlyWhenAllHeld`; `CountCongruent`: the count, an `int` on its way out of `find_free_frames`, is that of the free frames but for a multiple of 2^32, on a machine too large for it as well; and `PoolSpec`, the refinement. | Four frames in two regions of the memory map, an empty region between; frames start, and are left by clients, as zeros, as something that looks like a marker, or as a paging entry. Four frames give every order of the list and every way of emptying it. They are one more than the `int` of this run holds (`INT_MAX` = 3, `ULONG_MAX` = 15), so the scan's result comes back negative and the count runs down from the top of an `unsigned long`. |
| `map_pages` | `FramesAccounted`: each frame handed out is one thing only. `StructuresPrivate`: the structures are a forest. `WalksStructuresOnly`, `FreeListWalk`, `MapsAsAsked` (the refinement). `CachedEntriesHold`: an entry above the page tables, once present, never changes, so that a call can make stale in the TLB only the page it maps anew. | Two entries for each structure instead of 512, with all four levels kept; seven frames, so that RAM runs out at each step of a call; requests that share all structures, all but one, and none but the pml4; one page mapped twice; data blocks filled with leftovers. |
| `boot` | `KernelMapExact`: when CR3 is loaded, exactly the kernel, the modules and the direct map are mapped. `StructuresNeeded`: with no structure too many. `FramesAccounted`, `ExhaustedOnlyWhenAllHeld`, `BootSettles`. | Three entries for each structure, so 81 virtual pages. The bootloader's answer where the kernel is decides which of three regions is the kernel; the map then needs all of RAM, or one or three frames less. One module is so high that `__FLUX_BASE_VIRT` plus its base wraps into the lower half. |
| `task_spaces` | `SpacesIsolated`: a page that one space can write is mapped nowhere else. `KernelFramesUnreachable`, `TasksKeepTheirFrame`, `FramesAccounted`. `ModuleSpaceExact`: a module's space maps its stack and as many pages of the executable as the caller asked for, and nothing else. `TranslationsKept`: making one space changes no page of another, nor one that is mapped already. | Two slots, a module of two pages, of which `_start` asks for one and other callers for none, one or both, and RAM for two to three spaces, zeros or leftovers wherever no pml4 goes; tasks and module spaces are made in any order until the table is full and RAM is used up. |
| `console` | `OutputComplete`: what `com_send` accepted gets out, in order, once. `InputInOrder`, `ConsoleConnected`, `SerialSettles`, `ReadsReturn`. `FailureReported`: the message of an ASSERT, of an exception or of an NMI gets out on the console and stays the last thing there, whatever was being printed or read, another report included. `ReportLast`: at every moment from the failure on, what is on the line, in the UART and still to be sent ends with the whole report. | Two ports, each with a UART or without; queues of two bytes, as long as a message; two bytes arrive, at any moment, the test byte and the delimiter among them; one client call, in the middle of which the kernel may fail, and an NMI in the middle of that. A second client call finds the driver as the first did, but for the bytes left in a queue. |
| `interrupts` | `InterruptsReported`: from the moment a vector's entry is complete its exception or NMI reaches its own handler, and once `isr_GP` has its entry whatever has none ends there, in ring 0 and, if there is a stack for it, in ring 3. `NoForgedExceptions`: a module's INT reaches no exception handler but `isr_GP`. | The eight exceptions chosen include each way of delivery: with a handler, without one, and those whose failure is a double fault. The handlers' addresses have bits in each of the three fields. |
| `printing` | `PrintsExpected`: each directive prints the numeral of its own argument. `BufferInBounds`: the largest number just fits `kputdec`'s buffer. | All numbers of a word of five digits in base 3. The largest needs eight digits in base 2, as many as the buffer has, as 2^64 - 1 needs twenty in base 10; five digits make two groups of `%p`. |

Runs in which TLC finds a statement of the repository violated (`findings` in `PROJECT.json` quote it):

| Run | Shows |
|---|---|
| `first_block` | `paging_init` maps physical memory at the direct map only, and the list of free frames still holds physical addresses. The first `get_phys_block` of `_start` is a page fault, so the kernel never gets to its modules. |
| `dirty_root` | No caller clears the frame it takes for a pml4. If it holds leftovers with bit 0 set, the walk follows them. |
| `task_stack` | `new_task` passes its pml4 frame where the address of a pointer is expected: the stack is mapped in another pml4 than the one the task names. |
| `loopback_test` | `com_port_setup` reads the data register without waiting for the test byte: a working port can be called BROKEN. |
| `syscall_gate` | The gate of vector 0x32 has privilege level 0, so a module's `INT 0x32` is a general protection fault. |

Every `.cfg` says `CHECK_DEADLOCK FALSE` because the system stops: an ASSERT ends in `for (;;)`, `serial_init` in `hlt`
without a port, a handler and `done()` in a loop, and clients may stop calling.

## Assumptions

- **One thread.** Flux runs on one processor with maskable interrupts off and never switches tasks: `scheduler_preempt` is
  empty. So the calls of the memory manager are atomic, and only UARTs and non-maskable interrupts are concurrent with it.
  `map_page_specific_pml4` is split into steps all the same, because RAM can run out between two of them.
- **`RootsClean`.** `map_pages`, `boot` and `task_spaces` assume that a frame taken for a pml4 has no present entry. The
  code does nothing to ensure it; `dirty_root` is the run without the assumption.
- **Identity mapping.** `PhysMem`, `Paging` and `Tasks` read physical memory at physical addresses, as `mem.c`, `paging.c`
  and `proc.c` do. It holds until `paging_init`, under the bootloader's structures. `Boot` models what happens after that.
  So `Tasks` says what its functions do where their assumption holds, not that the boot of today gets to them.
- **Kernel and modules** lie on pages of the machine (`BootAssumption`), a boot module outside usable RAM
  (`TasksAssumption`): Limine gives both regions of a type of their own. `main.c:77` passes the module's address minus
  `__FLUX_BASE_VIRT` as its physical address; the model takes it to be that, as `main.c:76` and `mem.c:85` do. The stack's
  page and those of an executable are different ones.
- **The same for `Interrupts`**, which goes on past `main.c:64`, where `first_block` shows a page fault.
- **The memory map** is what the Limine protocol promises: usable regions are whole pages, do not overlap and never contain
  page 0 (`MemmapAssumption`).
- **Clients** of the memory manager give back and write only frames that they hold, each frame once. `put_phys_block` checks
  nothing, so this is a contract, which no model here breaks: a frame given back twice makes the list a cycle. Nothing in
  the repository calls `put_phys_block` yet.
- **`WidthAssumption`.** An `unsigned long` is as wide as an address and counts the frames of any machine; its range is a
  multiple of that of an `int`.
- **`CountFits`.** The frames of the machine fit an `int`. Only `CountExact` and `FreeListWalk`, which walks as many frames as
  the count says, need it. `find_free_frames` counts in an `unsigned long` and returns an `int`: from 2^31 frames (8 TiB) on
  the count is off by a multiple of 2^32 (`ThroughInt`). The list itself and the ASSERT do not depend on it.
- **The UART** is a 16550: two queues that the write of 0xc7 clears. A byte counts as sent once it is in the shift
  register. Where no UART is, all bits of a register read as set.
- **An entry of the IDT** is stored field by field, in an order that is the compiler's: `IdtAttachHandler` takes any. What
  is at an address that is no handler's is not known; `WILD` may fault.
- **Failures** come after `serial_init`: the kernel's IDT is loaded later still, and nothing asserts before. An exception
  comes once, as nothing in TRACE is supposed to fault; an NMI, which no handler here unmasks, once too.
- **Calls of `printk`** are what C requires: an argument for each directive that takes one, of its kind (`CallAssumption`).
  Without it the code reads what is not there. Some of the repository's own calls pass an `int`, such as `__LINE__` in
  `debug.h:18`, where `va_arg` reads 64 bits; the model takes such an argument to be extended to 64 bits. `PrintkAssumption`
  says that the buffer's digits are enough for a word, as 20 decimal digits are for 64 bits.
- **The task register** after the bootloader may name a usable stack or not (`tss_stack`): the protocol does not say, and
  the kernel never loads it.

Fairness: `WF(BootNext)` in `Boot`, because a single thread that cannot be interrupted goes on. `Serial` has `WF(Driver)`
for the same reason and `WF(Transmit(p))` for each UART, which sends a byte it has whatever the kernel does. There is none
for `Arrive` and for clients: nobody has to type, or to call.

## Proofs

`PhysMemProofs` proves, for every memory map, every content of RAM and everything clients may write (the ASSUMEs of
`PhysMem`):

| Theorem | Statement |
|---|---|
| `Invariance` | `MemSpec` keeps the inductive invariant `MemInv`. |
| `TypeCorrect` | The variables keep their types; only usable frames are handed out. |
| `FreeListCorrect` | The list visits every free frame exactly once, and nothing else. |
| `CountCorrect` | `CountCongruent`: `n_free_page_frames` is the number of free frames up to a multiple of 2^32. |
| `CountExact` | Under `CountFits` it is that number. |
| `NeverDryEarly` | The ASSERT of `get_phys_block` fires only when every usable frame is held. |
| `ImplementsPool` | `MemSpec` implements `FramePool`. |

`MemInv` is `MemTypeOK`, `ScanState`, `FreeListIntact` and `CountState`. `FreeListIntact` is not inductive alone.
`find_free_frames` pushes a page because it is its turn; that the page is not on the list already follows only from the
position of the scan (`ScanState`: nothing is held before the scan is over, and nothing is added before it starts) and from
the regions being disjoint. `FreeListIntact` says that a numbering of the free frames exists that agrees with the markers.
Lemma `Prepend` builds the numbering of the longer list when a frame is pushed, `Unlink` that of the shorter list when the
head is taken, and `Undisturbed` keeps it when the writes are elsewhere. `CountState` follows the count beside the list:
`ret` during the scan, then `n_free_page_frames`, agree with the cardinality of the free frames modulo 2^32 (`Congruent`). A
step moves both by one (`FreeSetMoves`), a wrap at either end of an `unsigned long` included, and the way through an `int`
keeps the remainder (`ThroughIntIs`); a count that is never too large for the `int` is then exact.

`InterruptsProofs` proves, for any set of exceptions, wherever the handlers lie (`Address`: different 64-bit numbers),
whatever the order of the stores and whatever task register the bootloader leaves (`TssStack`):

| Theorem | Statement |
|---|---|
| `Invariance` | `IntSpec` keeps the inductive invariant `IntInv`. |
| `TypeCorrect` | The table holds the gates of `idt_init` in its order, complete up to the call under way; what runs is a handler, or `WILD`, or the reset. |
| `Reported` | `InterruptsReported`: a vector with a complete entry runs its handler, and `isr_GP` reports the others. |
| `NothingForged` | `NoForgedExceptions`: no INT of a module runs an exception's handler but `isr_GP`. |

`IntInv` adds to the types the order of the boot (`BootOrder`: which tables are in use at each point of `_start`) and what a
running handler has to do with the interrupt that came last (`HandlerExplained`). The two properties speak of that
interrupt, so they are not inductive without them. The facts about encodings hold for every address of 64 bits: cut into
three fields and put together again it is the same (`AddressRoundTrip`, from `Piece`), and attributes and selectors are read
as they were written (`AttributesRoundTrip`, `SelectorFits`). So a complete entry leads to its handler (`CompleteGate`,
`CompleteDelivers`) and an empty one nowhere (`ZeroType`, `NoGate`); `ReportedOutcome` puts the two together for an interrupt
that comes now, `SoftOutcome` for an INT, and `AnyOutcome` says what holds of every delivery, those through an entry half
stored included. `AttachInv` is the step that stores a field: `IntTypeOK` describes the table exactly, field by field, so
that it is inductive.

`PagingProofs` proves, for every number of entries in a structure, every machine and every sequence of calls, under
`RootsClean` (`FreeListWalkCorrect` under `CountFits` too):

| Theorem | Statement |
|---|---|
| `PagingInvariance` | `PagingSpec` keeps the inductive invariant `PagingInv`. |
| `PagingTypeCorrect` | The variables of a call keep their types. |
| `FramesCorrect` | `FramesAccounted`: a held frame is a pml4, data, or a structure of one level. |
| `PrivateCorrect` | `StructuresPrivate`: no two entries share a structure. |
| `WalkCorrect` | `WalksStructuresOnly`: a call reads and writes structures only. |
| `CachedCorrect` | `CachedEntriesHold`: a present entry above the page tables never changes. |
| `FreeListWalkCorrect` | `FreeListWalk`: following the markers from `first_page_frame` visits the free frames. |

`RootsClean` is a hypothesis that states of the model satisfy and that the code does not ensure: `dirty_root` shows what
happens without it. Every step of `Paging` is a step of `PhysMem` whose clients may store anything in a frame they hold
(`StoreImage = [Index -> Word]`), so the invariant of the free list carries over. `PagingInv` adds to it the two properties
that are not inductive by themselves, `FramesAccounted` and `StructuresPrivate`, and what connects them with the call under
way (`WalkState`): the walk is where the indices of the page lead from its root (`Reaches`), the entry it is going to write
is not present, and the block that it is going to link has been cleared. Without the last, `LinkTable` would make leftovers
reachable; without the first, the table it writes to could be data. `FramesAccounted` is used as a partition of the held
frames (`Partition`), and the structures as a tree of four levels (`Tree`); `TreeLink` is the one step that adds a node.
Statements about paths through the structures thus speak of one level at a time, which needs no induction. `FreeListWalk`
has a recursive function in it: that its walk agrees with the numbering of the free list follows from there being no least
counterexample.

`AddressSpaceProofs` proves `ImplementsAddressSpace`: `Paging` implements `AddressSpace` (`MapsAsAsked`). A step that
clears a block or links one leaves what the MMU makes of every page as it was (`TranslationSame`, `TranslationLinked`);
the last write changes the translation of one page of one space (`TranslationWritten`), because no other path leads to
that entry (`OneWay`). `EntriesGrant` and `MapStepGrants` say that if all calls ask for a right, all entries grant it: what
`Tasks` and `Boot` need to get all the rights that they ask for.

`BootProofs` proves, for every memory map, every place of the kernel and every content of RAM, under `RootsClean`:

| Theorem | Statement |
|---|---|
| `BootInvariance` | `BootSpec` keeps the inductive invariant `BootInv`. |
| `BootFramesCorrect` | `FramesAccounted`, up to and including the first block taken under the new map. |
| `BootDryCorrect` | The boot stops for want of memory only when all usable RAM is held. |
| `KernelMapCorrect` | `KernelMapExact`: CR3 maps what was asked for with all rights, and nothing else. |
| `StructuresCorrect` | `StructuresNeeded`: the map takes as many frames as its pages need. |

`BootInv` has `PagingInv` only until `paging_init` is over: the first `get_phys_block` after it follows a marker through the
new map, and what becomes of the free list then is what `first_block` shows. `KernelMapInv` says after every step that the
kernel's space maps exactly the pages whose turn has been, the one of the call under way excepted (`MapsExactly`, `Asked`);
`KernelMapExact` follows because the two loops have gone through all of `Wanted` when CR3 is loaded (`AskedWanted`). That no
structure is too many needs the converse of the walk: each structure is where some page asked for leads (`StructuresAsked`).
With `OneWay` that makes a bijection between the structures and the beginnings of the pages' indices
(`StructuresCounted`), so the two sets have the same cardinality.

`TasksProofs` proves, for any number of slots, any modules and any stack and executable pages, under `RootsClean`:

| Theorem | Statement |
|---|---|
| `TasksInvariance` | `TasksSpec` keeps the inductive invariant `TasksInv`. |
| `TaskFramesCorrect` | `FramesAccounted`, although `new_task` has an address stored in a data frame. |
| `TasksKeepCorrect` | `TasksKeepTheirFrame`: a slot that is taken keeps its task. |
| `IsolationCorrect` | `SpacesIsolated`: a page that one space can write is mapped nowhere else. |
| `UnreachableCorrect` | `KernelFramesUnreachable`: no space maps a structure or a free frame. |
| `ModuleSpaceCorrect` | `ModuleSpaceExact`: a module's space maps its stack and the pages asked for, and nothing else. |
| `TranslationsCorrect` | `TranslationsKept`: a step changes at most one page of the space in the making, which was not mapped in it. |

`TasksInv` is `PagingInv` with the place in `init_task_space_from_mem` and what its local variables hold there (`Control`).
Three further invariants rest on it. `TaskTable` tells which slots are taken, and that the one in the making is still empty.
`Isolation` adds to the property that a stack just taken is mapped nowhere until its own call ends: a page becomes writable
only where a fresh block is mapped. `SpaceInv` follows the contents of the space under construction, from a clean pml4 to
the stack and the first `bn` pages; `FirstWalk` is needed because the first call builds the structures with the stack's
rights and the later ones are more modest. `TranslationsKept` follows from `SpaceInv`: the page to be mapped is not among
those the space has been found to map, and every other step leaves all translations as they are (`StaysStep`).

`SerialProofs` proves, for any number of ports, queues of any length and any texts, with no hypothesis but the
assumptions on the constants:

| Theorem | Statement |
|---|---|
| `SerialInvariance` | `SerialSpec` keeps the inductive invariant `SerialInv`. |
| `SerialTypeCorrect` | The driver's variables and the UARTs keep their types. |
| `ConsoleCorrect` | `ConsoleConnected`: the console is a port that passed its test, out of loopback. |
| `OutputCorrect` | `OutputComplete`: what was accepted is on the line or in the queue, in order, once. |
| `InputCorrect` | `InputInOrder`: what was read and what is queued arrived in this order, a test byte apart. |
| `ReportCorrect` | `ReportLast`: whatever was going on, after a failure the console gets the report, whole, and nothing after it. |

`SerialInv` says where the thread can be (`Place`), which ports have been tried (`Tried`), and, for each port, what its
queues hold at each point of the test (`Output`, `Input`): the properties are about READY ports, and a port becomes READY in
the middle of `serial_init` with whatever arrived while it was in loopback. The lemmas about `InOrder` say what is kept when
a byte arrives, is lost, or moves from the queue to the reader.

`ReportInv` adds to `ReportLast` why there is a console at all: wherever the kernel can fail, `serial_init` has found a
port, and after a failure the port being printed to is that one. A byte only moves from the text to the queue of the UART
and from there to the line, which leaves the three together as they were (`SendCharReport`, `TransmitReport`); a new
report starts with its own text at the end (`TraceReport`).

`PrintkProofs` proves, for numbers of any width in any two bases, a buffer of any length that the largest number fits, and
any well-formed calls:

| Theorem | Statement |
|---|---|
| `PrintsCorrect` | `PrintsExpected`: each directive prints the numeral of its own argument. |
| `BufferCorrect` | `BufferInBounds`: `kputdec` fills no byte outside its buffer. |

`PrintkInv` says that each turn of `printk` so far has rendered its item (`Done`), and that `ap` is the number of
directives passed that take an argument (`ArgumentsToIs`). Below it are the loops. The rule of induction that the library
offers takes an operator; `UpTo` states it for a set of numbers instead, and `RecursionExists` derives from the well-founded
order of the naturals that a recursive function has the values its equation gives (`PowerIs`, `ValueHorner`). Then
`Shows` is the invariant of the loop over the digits: what has been sent denotes the same number as the digits seen, and
starts with a zero only if it must (`TurnShows`, `SentIs`). That the digits of `kputhex`, and the buffer of `kputdec`, denote
the number they are made from is an induction with one division per turn (`SplitIs`, `DigitsDenote`, `BufferDigits`).

Only model-checked:

- Liveness: `BootSettles`, `SerialSettles`, `ReadsReturn`, and `FailureReported`, which says what holds in
  the end (its safety part is `ReportLast`). TLAPS does not prove liveness under fairness or reason about ENABLED.
- The runs that show a violation: a counterexample needs no proof.

## What else the models show

- `map_page_specific_pml4` gives an intermediate entry the rights of the call that made it, and later calls do not add to
  them. `AddressSpace` therefore promises some of the rights asked for. With the calls of this repository nothing is lost
  (`KernelMapExact`, `ModuleSpaceExact`): pages that share a structure ask for the same rights.
- A module above 2 GiB is mapped in the lower half of the kernel's space, because `__FLUX_BASE_VIRT` plus its base wraps.
- `_start` maps the first 4 KiB of every module, however long the file is: the last argument at `main.c:77` is the literal 1.
  In the space it builds a longer module has no second page (`ModuleSpaceExact`).
- The space that `_start` builds for a module is never loaded into CR3. The module would run in the kernel's own space,
  where every page may be read and written in ring 3; in its own space, which maps nothing of the kernel
  (`ModuleSpaceExact`), the first interrupt would find neither gate nor handler.
- `new_task` leaves 0 in the `cr3`, `rip` and `rsp` of a task's registers (`default_regs_userspace`), although `proc.h` says
  of `cr3` that it is "used to load correct page structure" and the stack is below the kernel. `default_regs_kernel` names
  the segments of ring 3 with privilege level 0, which the processor accepts neither for CS nor for SS; nothing uses it
  after `scheduler_init` has set its `cr3`.
- The block that `_start` takes at `main.c:64` is neither used nor given back.
- The message about a second working port goes to the first one, and `com_reads` on a port that is not READY stores zeros
  without end (`ReadNothing`; the model stops after `MaxRead`).
- If a stale 0xc4 in the data register lets the loopback test pass, the test byte itself gets on the line later
  (`OutputComplete` allows for it).
- An NMI between `idt_load` and the end of the first `idt_attach_handler` resets the machine, or runs whatever is at half
  an address: `idt_init` loads the table before it fills it. A fault of a module does the same,
  unless the bootloader left a task register with a stack.
- `%x` of 0 prints nothing, and `%d` prints a negative number as unsigned.

## Not modelled

The TLB as a state of its own: no code invalidates it, and nothing calls `map_page`, so that stale translations of the page
it remaps are a matter of its callers to come. `switch_to_task`, `scheduler_preempt` (empty) and `copy_task` (declared
only); `print_regs` (prints); the rest of `_start` under the kernel's own map, which it does not reach (`first_block`);
`tss_table` (never filled or loaded);
`get_consecutive_phys_blocks` (a stub that stops); the types of `ipc.h`; `limine.h`, which is the boot protocol's
own header, and the build files; general registers,
baud rates, line parameters, base and limit of segments, and the wording and colours of messages. A full task table makes
`new_task` return -1 without a change of state, which is a stuttering step of `Tasks`.

## Plan

Done, in this order: memory manager, paging, boot, tasks, serial console, interrupts, printing, failures; the theorems about
`PhysMem`, `Interrupts`, `Paging` with its refinement, `Serial`, `Tasks`, `Boot` and `Printk`, and the safety part of what
is promised of a failure's report. Every invariant that a passing run checks is proved.

To come: what the kernel's own space maps (`Boot`) as an action property like `TranslationsKept`, and whatever the kernel
grows: `switch_to_task` and `scheduler_preempt`, once they have bodies, would end the assumption of one thread.
