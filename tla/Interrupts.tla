----------------------------- MODULE Interrupts -----------------------------
(***************************************************************************)
(* Descriptor tables and interrupts: gdt_init (gdt.c, gdt-helpers.asm),    *)
(* idt_init (idt.c), the handlers (exceptions.c, syscall.c), and the iretq *)
(* with which _start (main.c) enters a module in ring 3.                   *)
(*                                                                         *)
(* At any instruction the CPU may raise an exception, and a non-maskable   *)
(* interrupt may come; maskable interrupts are off from the bootloader on. *)
(* Every handler ends in an endless loop.                                  *)
(*                                                                         *)
(* A definition whose name has an underscore and a word after it is a      *)
(* plausible mistake in the one it is named after; nothing uses it.        *)
(*                                                                         *)
(* External: how the CPU delivers an interrupt.  A vector without a usable *)
(* gate is a general protection fault, a fault in delivering a fault is a  *)
(* double fault, and one in delivering that resets the machine.  Delivery  *)
(* in ring 3 needs the stack that the task register's segment names; the   *)
(* kernel loads neither, and the boot protocol says nothing of them.       *)
(***************************************************************************)
EXTENDS Structures, Sequences, FiniteSets

CONSTANTS
  Exception,   \* vectors of the exceptions explored
  TssStack,    \* SUBSET BOOLEAN: may the bootloader's task register name a stack?
  Address(_)   \* the address of the handler written for a vector

NMI == 2
DF == 8
GP == 13
SYSCALL == 50    \* 0x32

NONE == 256      \* no handler runs
RESET == 257     \* the machine starts over
WILD == 258      \* the CPU runs what it finds at an address that is no handler's

(* An error in delivering one of these is a double fault. *)
Serious == {0, 10, 11, 12, GP, 14}

(* The bootloader's segment table, and gdt_table.  Entry 0 is index 0. *)
LimineGdt ==
  LET access == SEG_AB_PRESENT \cup SEG_AB_CODE_DATA \cup SEG_AB_RW
      code == access \cup SEG_AB_EXEC
  IN  << INIT_SEG_DESCRIPTOR({}, {}), INIT_SEG_DESCRIPTOR(code, {}),
         INIT_SEG_DESCRIPTOR(access, {}), INIT_SEG_DESCRIPTOR(code, {2, 3}),
         INIT_SEG_DESCRIPTOR(access, {2, 3}), INIT_SEG_DESCRIPTOR(code, SEG_FLAG_LONG),
         INIT_SEG_DESCRIPTOR(access, {}) >>
gdt_table ==
  LET access(dpl) == SEG_AB_PRESENT \cup SEG_AB_DPL(dpl) \cup SEG_AB_CODE_DATA \cup SEG_AB_RW
      code(dpl) == INIT_SEG_DESCRIPTOR(access(dpl) \cup SEG_AB_EXEC,
                                       SEG_FLAG_LONG \cup SEG_FLAG_4K_BLOCKS)
      data(dpl) == INIT_SEG_DESCRIPTOR(access(dpl), SEG_FLAG_4K_BLOCKS)
  IN  <<INIT_SEG_DESCRIPTOR({}, {}), code(Ring0), data(Ring0), code(Ring3), data(Ring3)>>

(* idt_init's calls of idt_attach_handler, in their order: the vectors, and *)
(* the entry that each gets.                                                *)
Attached == << NMI, SYSCALL, 0, 3, 4, 5, 6, DF, 10, 11, 12, GP, 14 >>
Vectors == {Attached[n] : n \in DOMAIN Attached}

isr_seg_Data == INIT_SEGMENT_SELECTOR(Ring0, {}, {1})
isr_seg == INIT_SEGMENT_SELECTOR(Ring0, {}, {0})
GateType(v) ==
  IF v \in {NMI, SYSCALL} THEN IDT_ATTRIBUTES_TYPE_INTERRUPT ELSE IDT_ATTRIBUTES_TYPE_TRAP
GateDpl_User == Ring3
GateDpl == Ring0
Gate(v) == INIT_IDT_ENTRY(isr_seg, INIT_IDT_ATTRIBUTES(GateDpl, GateType(v), {}), Address(v))

ZeroEntry == [f \in IdtField |-> {}]
Vector == Vectors \cup Exception      \* the entries of any others stay zero

(* The selectors that reload_seg_registers loads, and those that _start    *)
(* gives to iretq.                                                         *)
KernelCs == {3}    \* 0x08
KernelSs == {4}    \* 0x10
UserCs == INIT_SEGMENT_SELECTOR(Ring3, {}, {0, 1})
UserSs == INIT_SEGMENT_SELECTOR(Ring3, {}, {2})

ASSUME InterruptsAssumption ==
  /\ Exception \subseteq 0 .. 31 \ {NMI}
  /\ TssStack \subseteq BOOLEAN
  /\ \A v \in Vectors : Address(v) \subseteq 0 .. 63
  /\ \A v, w \in Vectors : Address(v) = Address(w) => v = w

VARIABLES
  at,           \* where _start is
  attached,     \* idt_init: calls of idt_attach_handler that have returned
  stored,       \* idt_attach_handler: fields of its entry stored so far
  gdt,          \* the segment table in use
  idtr,         \* whose interrupt table is in use
  idt_table,    \* the kernel's
  ring,         \* the privilege level
  nmi_masked,   \* an NMI was taken; only an iret would unmask them
  tss_stack,    \* delivery in ring 3 finds a stack
  running,      \* the handler that runs, by its vector, or NONE, RESET, WILD
  raised        \* the last interrupt: its vector, how it came about, and the
                \*   vectors that had their entries then

place == <<at, attached, stored>>
tables == <<gdt, idtr, idt_table>>
cpu == <<ring, nmi_masked, running, raised>>
intVars == <<place, tables, cpu, tss_stack>>

Nothing == [vector |-> 0, ring |-> 0, soft |-> FALSE, complete |-> {}]

(* The vectors whose entries are complete. *)
Complete == {Attached[k] : k \in 1 .. attached}

-----------------------------------------------------------------------------
(***************************************************************************)
(* The CPU.                                                                *)
(***************************************************************************)

(* The descriptor a selector names: Index[n] is n - 1. *)
Index == << {}, {0}, {1}, {0, 1}, {2}, {0, 2}, {1, 2} >>
Descriptor(t, selector) ==
  LET named == {n \in DOMAIN t : Index[n] = SEGMENT_SELECTOR_INDEX(selector)}
  IN  IF named = {} \/ SEGMENT_SELECTOR_TABLE_INDEX(selector) # {} THEN t[1]
      ELSE t[CHOOSE n \in named : TRUE]

(* A code and a stack segment that the CPU accepts together, for the ring  *)
(* that the first one's selector asks for.                                 *)
Loads(t, cs, ss) ==
  LET rpl == SEGMENT_SELECTOR_RPL(cs)
  IN  /\ LongCode(Descriptor(t, cs)) /\ SegmentDpl(Descriptor(t, cs)) = rpl
      /\ WriteableData(Descriptor(t, ss)) /\ SegmentDpl(Descriptor(t, ss)) = rpl
      /\ SEGMENT_SELECTOR_RPL(ss) = rpl

(* Vector v has a gate in use that the CPU can go through. *)
Delivers(v, soft) ==
  LET e == idt_table[v]
  IN  /\ idtr = "flux" /\ v \in Vector
      /\ IDT_ATTRIBUTES_TYPE(e.attributes)
            \in {IDT_ATTRIBUTES_TYPE_INTERRUPT, IDT_ATTRIBUTES_TYPE_TRAP}
      /\ soft /\ ring = 3 => IDT_ATTRIBUTES_DPL(e.attributes) = Ring3
      /\ IDT_ATTRIBUTES_PRESENT(e.attributes)
      /\ LongCode(Descriptor(gdt, e.segment_selector))
      /\ SegmentDpl(Descriptor(gdt, e.segment_selector)) = Ring0
      /\ ring = 0 \/ tss_stack

(* What is at the address that the gate of v holds. *)
Handler(v) ==
  LET there == {w \in Vectors : Address(w) = GateTarget(idt_table[v])}
  IN  IF there = {} THEN WILD ELSE CHOOSE w \in there : TRUE

Outcome(v, soft) ==
  IF Delivers(v, soft) THEN Handler(v)
  ELSE IF (soft \/ v \notin Serious \cup {DF}) /\ Delivers(GP, FALSE) THEN Handler(GP)
  ELSE IF (soft \/ v # DF) /\ Delivers(DF, FALSE) THEN Handler(DF)
  ELSE RESET

Interrupt(v, soft) ==
  /\ running # RESET
  /\ running' = Outcome(v, soft)
  /\ raised' = [vector |-> v, ring |-> ring, soft |-> soft, complete |-> Complete]
  /\ ring' = 0
  /\ nmi_masked' = (nmi_masked \/ v = NMI)
  /\ UNCHANGED <<place, tables, tss_stack>>

NonMaskable ==
  /\ ~ nmi_masked
  /\ Interrupt(NMI, FALSE)

(* An instruction of _start or of a module faults, or of whatever runs.    *)
Fault ==
  /\ running \in {NONE, WILD}
  /\ \E v \in Exception : Interrupt(v, FALSE)

(* A module executes INT v. *)
SoftwareInterrupt ==
  /\ running = NONE
  /\ ring = 3
  /\ \E v \in Exception \cup {NMI, SYSCALL} : Interrupt(v, TRUE)

-----------------------------------------------------------------------------
(***************************************************************************)
(* _start.                                                                 *)
(***************************************************************************)

Running(p) == running = NONE /\ at = p

(* gdt_init: lgdt ... *)
LoadGdt ==
  /\ Running("gdt_init")
  /\ gdt' = gdt_table
  /\ at' = "reload"
  /\ UNCHANGED <<attached, stored, idtr, idt_table, cpu, tss_stack>>

(* ... and the segment registers from the new table, or a fault. *)
ReloadSegRegisters ==
  /\ Running("reload")
  /\ IF Loads(gdt, KernelCs, KernelSs)
     THEN at' = "idt_load" /\ UNCHANGED <<attached, stored, tables, cpu, tss_stack>>
     ELSE Interrupt(GP, FALSE)

IdtLoad ==
  /\ Running("idt_load")
  /\ idtr' = "flux"
  /\ at' = "idt_attach"
  /\ UNCHANGED <<attached, stored, gdt, idt_table, cpu, tss_stack>>

(* idt_attach_handler, the calls one after the other.  Each stores an      *)
(* entry, whose fields the compiler writes in whatever order it likes.     *)
LastField_Early(fields) == fields # {}
LastField(fields) == fields = IdtField

IdtAttachHandler ==
  /\ Running("idt_attach")
  /\ attached < Len(Attached)
  /\ \E f \in IdtField \ stored :
       /\ idt_table' = [idt_table EXCEPT ![Attached[attached + 1]][f] =
                           Gate(Attached[attached + 1])[f]]
       /\ IF LastField(stored \cup {f})
          THEN attached' = attached + 1 /\ stored' = {}
          ELSE stored' = stored \cup {f} /\ UNCHANGED attached
  /\ UNCHANGED <<at, gdt, idtr, cpu, tss_stack>>

IdtInitDone ==
  /\ Running("idt_attach")
  /\ attached = Len(Attached)
  /\ at' = "start_modules"
  /\ UNCHANGED <<attached, stored, tables, cpu, tss_stack>>

(* iretq to a module: ring 3, or a general protection fault. *)
StartModule ==
  /\ Running("start_modules")
  /\ IF Loads(gdt, UserCs, UserSs)
     THEN /\ ring' = 3
          /\ at' = "module"
          /\ UNCHANGED <<attached, stored, tables, nmi_masked, running, raised, tss_stack>>
     ELSE Interrupt(GP, FALSE)

(* No module: done(). *)
Done ==
  /\ Running("start_modules")
  /\ at' = "done"
  /\ UNCHANGED <<attached, stored, tables, cpu, tss_stack>>

IntStart ==
  /\ at = "gdt_init"
  /\ gdt = LimineGdt
  /\ idtr = "limine"
  /\ idt_table = [v \in Vector |-> ZeroEntry]
  /\ attached = 0
  /\ stored = {}
  /\ ring = 0
  /\ nmi_masked = FALSE
  /\ tss_stack \in TssStack
  /\ running = NONE
  /\ raised = Nothing

IntNext ==
  \/ LoadGdt
  \/ ReloadSegRegisters
  \/ IdtLoad
  \/ IdtAttachHandler
  \/ IdtInitDone
  \/ StartModule
  \/ Done
  \/ NonMaskable
  \/ Fault
  \/ SoftwareInterrupt

IntSpec == IntStart /\ [][IntNext]_intVars
-----------------------------------------------------------------------------
(***************************************************************************)
(* Properties.                                                             *)
(***************************************************************************)

(* The entry of a vector, with those fields filled in that have been. *)
Entry(v) ==
  [f \in IdtField |->
     IF v \in Complete \/ (attached < Len(Attached) /\ v = Attached[attached + 1] /\ f \in stored)
     THEN Gate(v)[f] ELSE {}]

IntTypeOK ==
  /\ at \in {"gdt_init", "reload", "idt_load", "idt_attach", "start_modules", "module", "done"}
  /\ attached \in 0 .. Len(Attached)
  /\ stored \in SUBSET IdtField
  /\ gdt \in {LimineGdt, gdt_table}
  /\ idtr \in {"limine", "flux"}
  /\ idt_table = [v \in Vector |-> Entry(v)]
  /\ ring \in {0, 3}
  /\ {nmi_masked, tss_stack} \subseteq BOOLEAN
  /\ running \in Vectors \cup {NONE, RESET, WILD}

(* From the moment idt_attach_handler has returned for a vector, its       *)
(* exception or NMI runs the handler that was written for it, in ring 0    *)
(* and, where the task register names a stack, in ring 3; from the moment  *)
(* isr_GP has its entry it reports anything that has none.  So the only    *)
(* interrupts that can reset the machine, or send the CPU to an address    *)
(* half stored, come before idt_init is done with their vector, or in ring *)
(* 3 without a stack.                                                      *)
InterruptsReported ==
  running # NONE /\ (raised.ring = 0 \/ tss_stack) =>
    /\ ~ raised.soft /\ raised.vector \in raised.complete => running = raised.vector
    /\ (raised.soft \/ raised.vector \notin Vectors) /\ GP \in raised.complete => running = GP

(* A module that starts runs in ring 3, and none of its INT instructions   *)
(* reaches a handler of an exception that has not happened, for which the  *)
(* CPU would not have pushed the error code the handler expects.           *)
NoForgedExceptions ==
  /\ at = "module" /\ running = NONE => ring = 3
  /\ running # NONE /\ raised.soft => running \in {SYSCALL, GP, RESET}

(* docs/syscall.md says that a system call is made "by generating a        *)
(* software interrupt with vector 0x32".  INT 0x32 reaches isr_SYSCALL.    *)
SyscallReached ==
  running # NONE /\ raised.soft /\ raised.vector = SYSCALL => running = SYSCALL
==============================================================================
