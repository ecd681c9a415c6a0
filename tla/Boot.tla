-------------------------------- MODULE Boot --------------------------------
(***************************************************************************)
(* The kernel's own address space: setup_kernel_map (mem.c) builds it,     *)
(* paging_init (paging.c) loads it into CR3, and _start (main.c) goes on   *)
(* to its first get_phys_block under it.                                   *)
(*                                                                         *)
(* A virtual address is the number of its 4 KiB page.  Until paging_init   *)
(* the bootloader's structures are in CR3: they map physical memory at its *)
(* own addresses too, which mem.c and paging.c rely on.  The kernel's own  *)
(* map does not.                                                           *)
(***************************************************************************)
EXTENDS Paging

CONSTANTS
  KernelBases,  \* what kern_addr_resp->physical_base may be, in pages
  BaseVirt,     \* __FLUX_BASE_VIRT, in pages
  HhdmOffset,   \* hhdm_response->offset, in pages
  HhdmPages     \* the first 4 GiB, in pages

WRITEABLE == "W"    \* PSE_WRITEABLE
USER_MODE == "U"    \* PSE_USER_MODE

NIndex == Cardinality(Index)
VirtualPages == NIndex * NIndex * NIndex * NIndex

(* EXTRACT_PML4_INDEX, .. EXTRACT_PT_INDEX, of a sum that wraps at the top *)
(* of the address space.                                                   *)
Extract(page) ==
  LET v == page % VirtualPages
  IN  << v \div (NIndex * NIndex * NIndex),
         (v \div (NIndex * NIndex)) % NIndex,
         (v \div NIndex) % NIndex,
         v % NIndex >>

ASSUME BootAssumption ==
  /\ NIndex \in Nat /\ Index = 0 .. NIndex - 1
  /\ {WRITEABLE, USER_MODE} \subseteq Flag
  /\ KernelBases \subseteq Nat
  /\ {BaseVirt, HhdmOffset, HhdmPages} \subseteq Nat
  /\ 0 .. HhdmPages - 1 \subseteq Page
  /\ \A e \in DOMAIN Memmap : Memmap[e].type = "KERNEL_AND_MODULES" => PagesOf(e) \subseteq Page

VARIABLES
  kernel_base,        \* the bootloader's answer: where the kernel's image is
  at,                 \* where _start is
  map_entry,          \* setup_kernel_map: index into the memory map (i)
  map_offset,         \* setup_kernel_map: b_offset, or p of the second loop
  kernel_pml4_table,  \* the root of the kernel's map
  cr3                 \* the structures the MMU uses; NULL: the bootloader's

setupVars == <<map_entry, map_offset>>
bootVars == <<kernel_base, at, setupVars, kernel_pml4_table, cr3>>
allVars == <<pagingVars, bootVars>>

KernelEntry_OnlyKernel == {e \in DOMAIN Memmap : Memmap[e].base = kernel_base}
KernelEntry == {e \in DOMAIN Memmap : Memmap[e].type = "KERNEL_AND_MODULES"}

(* mapping_module_offset: the kernel goes to __FLUX_BASE_VIRT itself. *)
ModuleOffset_Ignored(e) == 0
ModuleOffset(e) == IF Memmap[e].base = kernel_base THEN 0 ELSE Memmap[e].base

-----------------------------------------------------------------------------
(***************************************************************************)
(* mem_init and setup_kernel_map.                                          *)
(***************************************************************************)

MemInitStep ==
  /\ at = "mem_init"
  /\ Scan
  /\ UNCHANGED <<callerVars, walkVars, bootVars>>

(* kernel_pml4_table = get_phys_block(). *)
StartKernelMap ==
  /\ at = "mem_init"
  /\ NewSpace
  /\ kernel_pml4_table' = first_page_frame
  /\ at' = "map_kernel"
  /\ UNCHANGED <<setupVars, cr3, kernel_base>>

(* One turn of a loop: the call, and the increment of its variable.        *)
MapNow_NoIncrement(paddr, vpage) ==
  /\ MapCall(kernel_pml4_table, paddr, Extract(vpage), {WRITEABLE, USER_MODE})
  /\ UNCHANGED <<memVars, callerVars, bootVars>>

MapNow(paddr, vpage) ==
  /\ MapCall(kernel_pml4_table, paddr, Extract(vpage), {WRITEABLE, USER_MODE})
  /\ map_offset' = map_offset + 1
  /\ UNCHANGED <<memVars, callerVars, kernel_base, at, map_entry, kernel_pml4_table, cr3>>

MapKernelPage ==
  /\ at = "map_kernel"
  /\ map_entry \in KernelEntry
  /\ map_offset < Memmap[map_entry].length
  /\ MapNow(Memmap[map_entry].base + map_offset,
            BaseVirt + map_offset + ModuleOffset(map_entry))

(* The entry is done, or was not the kernel's. *)
NextKernelEntry ==
  /\ at = "map_kernel"
  /\ Idle
  /\ map_entry \in KernelEntry => map_offset >= Memmap[map_entry].length
  /\ map_offset' = 0
  /\ IF map_entry < Len(Memmap)
     THEN map_entry' = map_entry + 1 /\ UNCHANGED at
     ELSE at' = "map_hhdm" /\ UNCHANGED map_entry
  /\ UNCHANGED <<pagingVars, kernel_base, kernel_pml4_table, cr3>>

MapHhdmPage ==
  /\ at = "map_hhdm"
  /\ map_offset < HhdmPages
  /\ MapNow(map_offset, HhdmOffset + map_offset)

(* A step of the call of map_page_specific_pml4 under way. *)
MapStepNow ==
  /\ MapStep
  /\ UNCHANGED bootVars

(* The ASSERT of get_phys_block, called by setup_kernel_map or _start. *)
NoFrame ==
  /\ at \in {"mem_init", "kernel_map"}
  /\ CallerFails
  /\ UNCHANGED bootVars

(* set_cr3, once setup_kernel_map has returned.                            *)
PagingInit ==
  /\ at = "map_hhdm"
  /\ Idle
  /\ map_offset >= HhdmPages
  /\ cr3' = kernel_pml4_table
  /\ at' = "kernel_map"
  /\ UNCHANGED <<pagingVars, kernel_base, setupVars, kernel_pml4_table>>

-----------------------------------------------------------------------------
(***************************************************************************)
(* The first get_phys_block of _start, after paging_init.  gdt_init,       *)
(* idt_init and scheduler_init, in between, touch the kernel's image only. *)
(***************************************************************************)

(* The MMU's answer to the address of the first free frame. *)
HeadAccess == Translation(cr3, Extract(first_page_frame))

StartGetsBlock ==
  /\ at = "kernel_map"
  /\ first_page_frame # NULL
  /\ Present(HeadAccess)
  /\ block' = first_page_frame
  /\ held' = held \cup {first_page_frame}
  /\ first_page_frame' = mem[HeadAccess.addr][0].addr
  /\ n_free_page_frames' = Decremented(n_free_page_frames)
  /\ at' = "start_modules"
  /\ data' = data \cup {first_page_frame}
  /\ UNCHANGED <<mem, phase, scanVars, spaces, walkVars>>
  /\ UNCHANGED <<kernel_base, setupVars, kernel_pml4_table, cr3>>

(* first_page_frame->next_frame is not mapped: isr_PF, which never returns. *)
StartFaults ==
  /\ at = "kernel_map"
  /\ first_page_frame # NULL
  /\ ~ Present(HeadAccess)
  /\ at' = "page_fault"
  /\ UNCHANGED <<pagingVars, kernel_base, setupVars, kernel_pml4_table, cr3>>

-----------------------------------------------------------------------------
BootStart ==
  /\ PagingStart
  /\ kernel_base \in KernelBases
  /\ at = "mem_init"
  /\ map_entry = 1
  /\ map_offset = 0
  /\ kernel_pml4_table = NULL
  /\ cr3 = NULL

BootNext ==
  \/ MemInitStep
  \/ StartKernelMap
  \/ NoFrame
  \/ MapKernelPage
  \/ NextKernelEntry
  \/ MapHhdmPage
  \/ MapStepNow
  \/ PagingInit
  \/ StartGetsBlock
  \/ StartFaults

(* _start is one thread of control with interrupts off. *)
BootSpec == BootStart /\ [][BootNext]_allVars /\ WF_allVars(BootNext)
-----------------------------------------------------------------------------
(***************************************************************************)
(* Properties.                                                             *)
(***************************************************************************)

(* What setup_kernel_map has to map: [page, frame] pairs. *)
Wanted ==
  (UNION {{[page |-> Extract(BaseVirt + f - (IF Memmap[e].base = kernel_base THEN kernel_base ELSE 0)),
            frame |-> f] : f \in PagesOf(e)} :
            e \in {e \in DOMAIN Memmap : Memmap[e].type = "KERNEL_AND_MODULES"}})
  \cup {[page |-> Extract(HhdmOffset + p), frame |-> p] : p \in 0 .. HhdmPages - 1}

(* From the moment CR3 holds the kernel's structures, they translate the   *)
(* kernel's image, the modules and the direct map as the comments of       *)
(* setup_kernel_map say, with every right, and nothing else at all.        *)
KernelMapExact ==
  cr3 # NULL =>
    \A v \in VPage :
      LET frames == {m.frame : m \in {m \in Wanted : m.page = v}}
      IN  IF frames = {}
          THEN Translation(cr3, v) = Unmapped
          ELSE \E f \in frames :
                 Translation(cr3, v) =
                   [addr |-> f, bits |-> {PRESENT, WRITEABLE, USER_MODE}]

(* The kernel's map takes one frame for its pml4 and one for each structure*)
(* its pages need, none twice: a machine needs no more RAM to boot.        *)
StructuresNeeded ==
  cr3 # NULL /\ at = "kernel_map" =>
    Cardinality(held) =
      1 + Cardinality(UNION {{SubSeq(m.page, 1, l) : m \in Wanted} : l \in 1 .. 3})

(* _start always gets out of its loops: the map is built and the first     *)
(* block asked for, unless an ASSERT stops the CPU.                        *)
BootSettles == <>(at \in {"start_modules", "page_fault"} \/ phase \in Halted)

(* mem.h says of get_phys_block: "Take the first available block of        *)
(* physical memory (4KB) from the linked list of blocks".  With a block    *)
(* available, the first call of _start gets it.                            *)
FirstBlockTaken == at # "page_fault"
==============================================================================
