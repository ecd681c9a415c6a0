--------------------------- MODULE InterruptsProofs ---------------------------
(***************************************************************************)
(* Proofs about the delivery of interrupts, for any set of exceptions and  *)
(* any task register the bootloader may leave.                             *)
(*                                                                         *)
(* InterruptsReported speaks of the moment an interrupt comes; that its  *)
(* handler still runs later, and that the tables it went through were the  *)
(* kernel's, takes the order of the boot (BootOrder) and the fact that     *)
(* _start does not go on while a handler runs (HandlerExplained).          *)
(***************************************************************************)
EXTENDS Interrupts, TLAPS

(* The tables that are in use at each point of _start, and in ring 3. *)
BootOrder ==
  /\ at \notin {"gdt_init", "reload"} => at = "idt_load" \/ idtr = "flux"
  /\ at # "gdt_init" => gdt = gdt_table
  /\ idtr = "flux" => at \notin {"gdt_init", "reload"}
  /\ at \in {"gdt_init", "reload", "idt_load"} => attached = 0
  /\ at \in {"start_modules", "module", "done"} => attached = 13
  /\ attached = 13 => stored = {}
  /\ running = NONE => ring = IF at = "module" THEN 3 ELSE 0
  /\ running # NONE => ring = 0

(* What the handler that runs has to do with the interrupt that came last. *)
HandlerExplained ==
  running # NONE =>
    /\ raised.complete \subseteq Complete
    /\ raised.soft => running \in {GP, RESET}
    /\ raised.ring = 0 \/ tss_stack =>
         /\ ~ raised.soft /\ raised.vector \in raised.complete => running = raised.vector
         /\ (raised.soft \/ raised.vector \notin Vectors) /\ GP \in raised.complete =>
              running = GP

IntInv == IntTypeOK /\ BootOrder /\ HandlerExplained

-----------------------------------------------------------------------------
(***************************************************************************)
(* Facts about the constant tables and the encodings.                      *)
(***************************************************************************)

LEMMA AttachedFacts ==
  /\ Len(Attached) = 13
  /\ DOMAIN Attached = 1 .. 13
  /\ Vectors = {NMI, SYSCALL, 0, 3, 4, 5, 6, DF, 10, 11, 12, GP, 14}
  /\ \A j, k \in 1 .. 13 : Attached[j] = Attached[k] => j = k
  /\ {NONE, RESET, WILD} \cap Vectors = {}
  /\ NONE # RESET /\ NONE # WILD
<1>1. Len(Attached) = 13 /\ DOMAIN Attached = 1 .. 13
  BY DEF Attached
<1>2. Vectors = {NMI, SYSCALL, 0, 3, 4, 5, 6, DF, 10, 11, 12, GP, 14}
  BY <1>1 DEF Vectors, Attached
<1>3. \A j, k \in 1 .. 13 : Attached[j] = Attached[k] => j = k
  BY DEF Attached, NMI, SYSCALL, DF, GP
<1> QED
  BY <1>1, <1>2, <1>3 DEF NONE, RESET, WILD, NMI, SYSCALL, DF, GP

(* Bits n to n + m - 1 of a number, moved to the front and back again. *)
LEMMA Piece ==
  ASSUME NEW a \in SUBSET Nat, NEW n \in Nat, NEW m \in Nat
  PROVE  Shl(Low(Shr(a, n), m), n) = {b \in a : n <= b /\ b < n + m}
<1>1. ASSUME NEW b \in Shl(Low(Shr(a, n), m), n)
      PROVE  b \in a /\ n <= b /\ b < n + m
  <2>1. PICK c \in Low(Shr(a, n), m) : b = c + n
    BY <1>1 DEF Shl
  <2>2. c \in Shr(a, n) /\ c < m
    BY <2>1 DEF Low
  <2>3. PICK d \in a : d >= n /\ c = d - n
    BY <2>2 DEF Shr
  <2> QED
    BY <2>1, <2>2, <2>3
<1>2. ASSUME NEW b \in a, n <= b, b < n + m
      PROVE  b \in Shl(Low(Shr(a, n), m), n)
  <2>1. b - n \in Shr(a, n)
    BY <1>2 DEF Shr
  <2>2. b - n \in Low(Shr(a, n), m) /\ b = (b - n) + n
    BY <1>2, <2>1 DEF Low
  <2> QED
    BY <2>2 DEF Shl
<1> QED
  BY <1>1, <1>2

(* The three fields into which an entry splits an address give it back. *)
LEMMA AddressRoundTrip ==
  ASSUME NEW a \in SUBSET (0 .. 63), NEW seg, NEW attr
  PROVE  GateTarget(INIT_IDT_ENTRY(seg, attr, a)) = a
<1>1. Shl(Low(Shr(a, 16), 16), 16) = {b \in a : 16 <= b /\ b < 32}
  BY Piece
<1>2. Shl(Low(Shr(a, 32), 32), 32) = {b \in a : 32 <= b /\ b < 64}
  BY Piece
<1>3. Low(a, 16) = {b \in a : b < 16}
  BY DEF Low
<1>4. GateTarget(INIT_IDT_ENTRY(seg, attr, a)) =
        Low(a, 16) \cup Shl(Low(Shr(a, 16), 16), 16) \cup Shl(Low(Shr(a, 32), 32), 32)
  BY DEF GateTarget, INIT_IDT_ENTRY
<1>5. \A b \in a : b < 16 \/ (16 <= b /\ b < 32) \/ (32 <= b /\ b < 64)
  OBVIOUS
<1>6. a = {b \in a : b < 16} \cup {b \in a : 16 <= b /\ b < 32} \cup {b \in a : 32 <= b /\ b < 64}
  BY <1>5, Zenon
<1> QED
  BY <1>1, <1>2, <1>3, <1>4, <1>6, Zenon

(* The attributes of a gate are those it was asked for, and it is present. *)
LEMMA AttributesRoundTrip ==
  ASSUME NEW type \in {IDT_ATTRIBUTES_TYPE_INTERRUPT, IDT_ATTRIBUTES_TYPE_TRAP}
  PROVE  LET attr == INIT_IDT_ATTRIBUTES(Ring0, type, {})
         IN  /\ IDT_ATTRIBUTES_TYPE(attr) = type
             /\ IDT_ATTRIBUTES_DPL(attr) = Ring0
             /\ IDT_ATTRIBUTES_PRESENT(attr)
<1> DEFINE attr == INIT_IDT_ATTRIBUTES(Ring0, type, {})
<1>1. type \subseteq 0 .. 3
  BY DEF IDT_ATTRIBUTES_TYPE_INTERRUPT, IDT_ATTRIBUTES_TYPE_TRAP
<1>2. attr = {15} \cup {b + 8 : b \in type}
  BY <1>1 DEF INIT_IDT_ATTRIBUTES, Ring0, Low, Shl
<1>3. IDT_ATTRIBUTES_TYPE(attr) = type
  <2>1. \A b \in type : b + 8 \in attr /\ (b + 8) - 8 = b /\ b < 4
    BY <1>1, <1>2
  <2>2. \A b \in type : b \in Low(Shr(attr, 8), 4)
    BY <1>1, <2>1 DEF Low, Shr
  <2>3. ASSUME NEW b \in Low(Shr(attr, 8), 4) PROVE b \in type
    <3>1. PICK c \in attr : c >= 8 /\ b = c - 8 /\ b < 4
      BY <2>3 DEF Low, Shr
    <3>2. c # 15
      BY <3>1
    <3> QED
      BY <1>1, <1>2, <3>1, <3>2
  <2> QED
    BY <2>2, <2>3 DEF IDT_ATTRIBUTES_TYPE
<1>4. IDT_ATTRIBUTES_DPL(attr) = {}
  BY <1>1, <1>2 DEF IDT_ATTRIBUTES_DPL, Low, Shr
<1> QED
  BY <1>2, <1>3, <1>4 DEF IDT_ATTRIBUTES_PRESENT, Ring0

(* The kernel's own table holds 64-bit code of ring 0 where isr_seg points.*)
LEMMA SelectorFits ==
  /\ LongCode(Descriptor(gdt_table, isr_seg))
  /\ SegmentDpl(Descriptor(gdt_table, isr_seg)) = Ring0
<1>1. isr_seg = {3}
  BY DEF isr_seg, INIT_SEGMENT_SELECTOR, Ring0, Low, Shl
<1>2. SEGMENT_SELECTOR_INDEX(isr_seg) = {0} /\ SEGMENT_SELECTOR_TABLE_INDEX(isr_seg) = {}
  BY <1>1 DEF SEGMENT_SELECTOR_INDEX, SEGMENT_SELECTOR_TABLE_INDEX, Low, Shr
<1>3. DOMAIN gdt_table = 1 .. 5
  BY DEF gdt_table
<1>4. {n \in DOMAIN gdt_table : Index[n] = {0}} = {2}
  BY <1>3 DEF Index
<1>5. Descriptor(gdt_table, isr_seg) = gdt_table[2]
  BY <1>2, <1>4 DEF Descriptor
<1>6. gdt_table[2].access_byte = {1, 3, 4, 7} /\ gdt_table[2].flags = {5, 7}
  BY DEF gdt_table, INIT_SEG_DESCRIPTOR, SEG_AB_PRESENT, SEG_AB_DPL, SEG_AB_CODE_DATA, SEG_AB_RW,
         SEG_AB_EXEC, SEG_FLAG_LONG, SEG_FLAG_4K_BLOCKS, Ring0, Low, Shl
<1> QED
  BY <1>5, <1>6 DEF LongCode, SegmentDpl, SEG_AB_PRESENT, SEG_AB_CODE_DATA, SEG_AB_EXEC, Ring0,
                    Low, Shr

(* The entry that idt_init gives a vector: where it leads, and for whom. *)
LEMMA GateFacts ==
  ASSUME NEW v \in Vectors
  PROVE  /\ Gate(v).segment_selector = isr_seg
         /\ IDT_ATTRIBUTES_TYPE(Gate(v).attributes)
               \in {IDT_ATTRIBUTES_TYPE_INTERRUPT, IDT_ATTRIBUTES_TYPE_TRAP}
         /\ IDT_ATTRIBUTES_DPL(Gate(v).attributes) = Ring0
         /\ IDT_ATTRIBUTES_PRESENT(Gate(v).attributes)
         /\ GateTarget(Gate(v)) = Address(v)
         /\ Gate(v) = [f \in IdtField |-> Gate(v)[f]]
<1>1. Gate(v) = [f \in IdtField |-> Gate(v)[f]]
  BY DEF Gate, INIT_IDT_ENTRY, IdtField
<1>2. Address(v) \in SUBSET (0 .. 63)
  BY InterruptsAssumption
<1>3. GateTarget(Gate(v)) = Address(v)
  BY <1>2, AddressRoundTrip DEF Gate
<1>4. GateType(v) \in {IDT_ATTRIBUTES_TYPE_INTERRUPT, IDT_ATTRIBUTES_TYPE_TRAP}
  BY DEF GateType
<1>5. /\ Gate(v).segment_selector = isr_seg
      /\ Gate(v).attributes = INIT_IDT_ATTRIBUTES(Ring0, GateType(v), {})
  BY DEF Gate, INIT_IDT_ENTRY, GateDpl
<1> QED
  BY <1>1, <1>3, <1>4, <1>5, AttributesRoundTrip

(* An entry nothing was stored in is no gate. *)
LEMMA ZeroType ==
  IDT_ATTRIBUTES_TYPE({}) \notin {IDT_ATTRIBUTES_TYPE_INTERRUPT, IDT_ATTRIBUTES_TYPE_TRAP}
BY DEF IDT_ATTRIBUTES_TYPE, Low, Shr, IDT_ATTRIBUTES_TYPE_INTERRUPT, IDT_ATTRIBUTES_TYPE_TRAP

-----------------------------------------------------------------------------
(***************************************************************************)
(* The CPU.                                                                *)
(***************************************************************************)

(* A vector whose entry is complete has its gate. *)
LEMMA CompleteGate ==
  ASSUME IntTypeOK, NEW v \in Complete
  PROVE  v \in Vectors /\ v \in Vector /\ idt_table[v] = Gate(v)
<1>1. v \in Vectors /\ v \in Vector
  BY AttachedFacts DEF IntTypeOK, Complete, Vectors, Vector
<1>2. idt_table[v] = Entry(v)
  BY <1>1 DEF IntTypeOK
<1>3. Entry(v) = [f \in IdtField |-> Gate(v)[f]]
  BY DEF Entry
<1> QED
  BY <1>1, <1>2, <1>3, GateFacts

(* It delivers wherever there is a stack, and to its own handler. *)
LEMMA CompleteDelivers ==
  ASSUME IntTypeOK, idtr = "flux", gdt = gdt_table, NEW v \in Complete
  PROVE  /\ ring = 0 \/ tss_stack => Delivers(v, FALSE)
         /\ Handler(v) = v
<1>1. v \in Vectors /\ v \in Vector /\ idt_table[v] = Gate(v)
  BY CompleteGate
<1>2. ring = 0 \/ tss_stack => Delivers(v, FALSE)
  BY <1>1, GateFacts, SelectorFits DEF Delivers
<1>3. {w \in Vectors : Address(w) = GateTarget(idt_table[v])} = {v}
  BY <1>1, GateFacts, InterruptsAssumption
<1> QED
  BY <1>2, <1>3 DEF Handler

(* A vector that idt_init has no entry for has no gate. *)
LEMMA NoGate ==
  ASSUME IntTypeOK, NEW v, v \notin Vectors, NEW soft \in BOOLEAN
  PROVE  ~ Delivers(v, soft)
<1> SUFFICES ASSUME v \in Vector PROVE ~ Delivers(v, soft)
  BY DEF Delivers
<1>1. v \notin Complete
  BY AttachedFacts DEF IntTypeOK, Complete, Vectors
<1>2. attached < Len(Attached) => v # Attached[attached + 1]
  BY AttachedFacts DEF IntTypeOK, Vectors
<1>3. idt_table[v].attributes = {}
  BY <1>1, <1>2 DEF IntTypeOK, Entry, IdtField
<1> QED
  BY <1>3, ZeroType DEF Delivers

(* An interrupt that finds a stack, in terms of the entries that are       *)
(* complete when it comes.                                                 *)
LEMMA ReportedOutcome ==
  ASSUME IntTypeOK, idtr = "flux", gdt = gdt_table, ring = 0 \/ tss_stack, NEW v
  PROVE  /\ v \in Complete => Outcome(v, FALSE) = v
         /\ v \notin Vectors /\ GP \in Complete => Outcome(v, FALSE) = GP
<1>1. v \in Complete => Outcome(v, FALSE) = v
  BY CompleteDelivers DEF Outcome
<1>2. ASSUME v \notin Vectors, GP \in Complete
      PROVE  Outcome(v, FALSE) = GP
  <2>1. ~ Delivers(v, FALSE) /\ v \notin Serious \cup {DF}
    BY <1>2, NoGate, AttachedFacts DEF Serious
  <2> QED
    BY <1>2, <2>1, CompleteDelivers DEF Outcome
<1> QED
  BY <1>1, <1>2

(* An INT of a module, once idt_init is done: its gate is for ring 0 only. *)
LEMMA SoftOutcome ==
  ASSUME IntTypeOK, idtr = "flux", gdt = gdt_table, ring = 3, attached = 13, NEW v
  PROVE  Outcome(v, TRUE) = IF tss_stack THEN GP ELSE RESET
<1>1. Complete = Vectors
  BY AttachedFacts DEF Complete, Vectors
<1>2. ~ Delivers(v, TRUE)
  <2>1. v \in Vectors => IDT_ATTRIBUTES_DPL(idt_table[v].attributes) = Ring0
    BY <1>1, CompleteGate, GateFacts
  <2> QED
    BY <2>1, NoGate DEF Delivers, Ring0, Ring3
<1>3. GP \in Complete /\ DF \in Complete
  BY <1>1, AttachedFacts
<1>4. tss_stack => Delivers(GP, FALSE) /\ Handler(GP) = GP
  BY <1>3, CompleteDelivers
<1>5. ~ tss_stack => ~ Delivers(GP, FALSE) /\ ~ Delivers(DF, FALSE)
  BY DEF Delivers
<1> QED
  BY <1>2, <1>4, <1>5 DEF Outcome

(* Whatever comes, the CPU runs a handler, or something wild, or resets. *)
LEMMA AnyOutcome ==
  ASSUME NEW v, NEW soft \in BOOLEAN
  PROVE  Outcome(v, soft) \in Vectors \cup {RESET, WILD}
<1>1. \A w : Handler(w) \in Vectors \cup {RESET, WILD}
  BY DEF Handler
<1>2. Outcome(v, soft) \in {Handler(v), Handler(GP), Handler(DF), RESET}
  BY Zenon DEF Outcome
<1> QED
  BY <1>1, <1>2

-----------------------------------------------------------------------------
(***************************************************************************)
(* The invariant.                                                          *)
(***************************************************************************)

LEMMA InitInv == IntStart => IntInv
<1> SUFFICES ASSUME IntStart PROVE IntInv
  OBVIOUS
<1>1. Complete = {}
  BY DEF IntStart, Complete
<1>2. idt_table = [v \in Vector |-> Entry(v)]
  BY <1>1 DEF IntStart, Entry, ZeroEntry
<1>3. IntTypeOK
  <2>1. tss_stack \in BOOLEAN /\ nmi_masked = FALSE
    BY InterruptsAssumption, Zenon DEF IntStart
  <2>2. 0 \in 0 .. Len(Attached)
    BY AttachedFacts
  <2> QED
    BY <1>2, <2>1, <2>2 DEF IntTypeOK, IntStart
<1>4. BootOrder /\ HandlerExplained
  BY DEF IntStart, BootOrder, HandlerExplained
<1> QED
  BY <1>3, <1>4 DEF IntInv

(* An interrupt, of whatever kind, in whatever state. *)
LEMMA InterruptInv ==
  ASSUME IntInv, NEW v, NEW soft \in BOOLEAN, Interrupt(v, soft),
         soft => ring = 3 /\ running = NONE
  PROVE  IntInv'
<1>1. Complete' = Complete /\ (\A w : Entry(w)' = Entry(w))
  BY DEF Interrupt, place, Complete, Entry
<1>2. running' \in Vectors \cup {RESET, WILD}
  BY AnyOutcome DEF Interrupt
<1>3. IntTypeOK'
  BY <1>1, <1>2 DEF Interrupt, IntInv, IntTypeOK, place, tables
<1>4. BootOrder'
  BY <1>2, AttachedFacts DEF Interrupt, IntInv, BootOrder, place, tables
<1>5. soft => attached = 13 /\ idtr = "flux" /\ gdt = gdt_table
  BY DEF IntInv, BootOrder
<1>6. GP \in Complete \/ v \in Complete => idtr = "flux" /\ gdt = gdt_table
  BY DEF IntInv, IntTypeOK, BootOrder, Complete
<1>7. HandlerExplained'
  <2>1. CASE soft
    <3>1. /\ soft = TRUE
          /\ tss_stack' = tss_stack
          /\ raised' = [vector |-> v, ring |-> 3, soft |-> TRUE, complete |-> Complete]
      BY <2>1 DEF Interrupt
    <3>2. running' = IF tss_stack THEN GP ELSE RESET
      BY <1>5, <2>1, <3>1, SoftOutcome DEF Interrupt, IntInv
    <3>3. raised'.soft /\ raised'.ring # 0 /\ raised'.complete = Complete'
      BY <1>1, <3>1
    <3>4. running' \in {GP, RESET} /\ (tss_stack' => running' = GP)
      BY <3>1, <3>2
    <3> QED
      BY <3>3, <3>4, Zenon DEF HandlerExplained
  <2>2. CASE ~ soft
    BY <1>1, <1>6, <2>2, ReportedOutcome DEF Interrupt, HandlerExplained, IntInv
  <2> QED
    BY <2>1, <2>2
<1> QED
  BY <1>3, <1>4, <1>7 DEF IntInv

(* idt_attach_handler stores a field of the entry of the list's next       *)
(* vector; with the last one, the entry is complete.                       *)
LEMMA AttachInv ==
  ASSUME IntInv, IdtAttachHandler
  PROVE  IntInv'
<1> DEFINE next == Attached[attached + 1]
<1>1. attached \in 0 .. 12 /\ attached + 1 \in 1 .. 13
  BY AttachedFacts DEF IntInv, IntTypeOK, IdtAttachHandler
<1>2. PICK f \in IdtField \ stored :
        /\ idt_table' = [idt_table EXCEPT ![next][f] = Gate(next)[f]]
        /\ IF LastField(stored \cup {f})
           THEN attached' = attached + 1 /\ stored' = {}
           ELSE stored' = stored \cup {f} /\ UNCHANGED attached
  BY DEF IdtAttachHandler
<1>3. next \in Vectors /\ next \in Vector /\ next \notin Complete
  BY <1>1, AttachedFacts DEF Vectors, Vector, Complete
<1>4. attached' \in 0 .. 13 /\ stored' \in SUBSET IdtField /\ (attached' = 13 => stored' = {})
  <2>1. stored \in SUBSET IdtField
    BY DEF IntInv, IntTypeOK
  <2>2. CASE LastField(stored \cup {f})
    <3>1. attached' = attached + 1 /\ stored' = {}
      BY <1>2, <2>2
    <3> QED
      BY <1>1, <3>1
  <2>3. CASE ~ LastField(stored \cup {f})
    <3>1. attached' = attached /\ stored' = stored \cup {f} /\ f \in IdtField
      BY <1>2, <2>3
    <3> QED
      BY <1>1, <2>1, <3>1
  <2> QED
    BY <2>2, <2>3
<1>5. \A v \in Vector : idt_table'[v] = Entry(v)'
  <2> SUFFICES ASSUME NEW v \in Vector PROVE idt_table'[v] = Entry(v)'
    OBVIOUS
  <2>1. idt_table[v] = [g \in IdtField |->
            IF v \in Complete \/ (v = next /\ g \in stored) THEN Gate(v)[g] ELSE {}]
    BY <1>1, AttachedFacts DEF IntInv, IntTypeOK, Entry
  <2>2. idt_table'[v] = [g \in IdtField |->
            IF v \in Complete \/ (v = next /\ g \in stored \cup {f}) THEN Gate(v)[g] ELSE {}]
    BY <1>2, <1>3, <2>1 DEF IntInv, IntTypeOK
  <2>3. CASE stored \cup {f} = IdtField
    <3>1. attached' = attached + 1 /\ stored' = {}
      BY <1>2, <2>3 DEF LastField
    <3>2. Complete' = Complete \cup {next}
      BY <1>1, <3>1 DEF Complete
    <3> QED
      BY <2>2, <2>3, <3>1, <3>2 DEF Entry
  <2>4. CASE stored \cup {f} # IdtField
    <3>1. attached' = attached /\ stored' = stored \cup {f}
      BY <1>2, <2>4 DEF LastField
    <3>2. Complete' = Complete
      BY <3>1 DEF Complete
    <3> QED
      BY <1>1, <2>2, <3>1, <3>2, AttachedFacts DEF Entry
  <2> QED
    BY <2>3, <2>4
<1>6. idt_table' = [v \in Vector |-> idt_table'[v]]
  BY <1>2 DEF IntInv, IntTypeOK
<1>7. idt_table' = [v \in Vector |-> Entry(v)']
  BY <1>5, <1>6
<1>8. Complete \subseteq Complete'
  BY <1>1, <1>2 DEF Complete
<1>9. IntTypeOK'
  BY <1>4, <1>7, AttachedFacts DEF IntInv, IntTypeOK, IdtAttachHandler, cpu
<1>10. BootOrder' /\ HandlerExplained'
  BY <1>4, <1>8 DEF IntInv, BootOrder, HandlerExplained, IdtAttachHandler, Running, cpu
<1> QED
  BY <1>9, <1>10 DEF IntInv

(* The other steps of _start happen only while no handler runs. *)
LEMMA StartInv ==
  ASSUME IntInv, LoadGdt \/ IdtLoad \/ IdtInitDone \/ Done
  PROVE  IntInv'
<1>1. Complete' = Complete /\ (\A w : Entry(w)' = Entry(w))
  BY DEF LoadGdt, IdtLoad, IdtInitDone, Done, Complete, Entry
<1>2. IntTypeOK'
  BY <1>1 DEF IntInv, IntTypeOK, LoadGdt, IdtLoad, IdtInitDone, Done, Running, cpu, tables
<1>3. BootOrder'
  BY AttachedFacts DEF IntInv, BootOrder, LoadGdt, IdtLoad, IdtInitDone, Done, Running, cpu, tables
<1>4. HandlerExplained'
  BY DEF HandlerExplained, LoadGdt, IdtLoad, IdtInitDone, Done, Running, cpu, tables
<1> QED
  BY <1>2, <1>3, <1>4 DEF IntInv

(* A far return or an iretq that fails is a general protection fault. *)
LEMMA SegmentsInv ==
  ASSUME IntInv, ReloadSegRegisters \/ StartModule
  PROVE  IntInv'
<1>1. CASE Interrupt(GP, FALSE)
  BY <1>1, InterruptInv
<1>2. CASE ~ Interrupt(GP, FALSE)
  <2>1. Complete' = Complete /\ (\A w : Entry(w)' = Entry(w))
    BY <1>2 DEF ReloadSegRegisters, StartModule, Complete, Entry
  <2> QED
    BY <1>2, <2>1 DEF IntInv, IntTypeOK, BootOrder, HandlerExplained, ReloadSegRegisters,
                      StartModule, Running, tables, cpu
<1> QED
  BY <1>1, <1>2

LEMMA StepInv == IntInv /\ [IntNext]_intVars => IntInv'
<1> SUFFICES ASSUME IntInv, [IntNext]_intVars PROVE IntInv'
  OBVIOUS
<1>1. CASE LoadGdt \/ IdtLoad \/ IdtInitDone \/ Done
  BY <1>1, StartInv
<1>2. CASE IdtAttachHandler
  BY <1>2, AttachInv
<1>3. CASE ReloadSegRegisters \/ StartModule
  BY <1>3, SegmentsInv
<1>4. CASE NonMaskable
  BY <1>4, InterruptInv DEF NonMaskable
<1>5. CASE Fault
  BY <1>5, InterruptInv DEF Fault
<1>6. CASE SoftwareInterrupt
  BY <1>6, InterruptInv DEF SoftwareInterrupt
<1>7. CASE UNCHANGED intVars
  BY <1>7 DEF IntInv, IntTypeOK, BootOrder, HandlerExplained, intVars, place, tables, cpu,
              Complete, Entry
<1> QED
  BY <1>1, <1>2, <1>3, <1>4, <1>5, <1>6, <1>7 DEF IntNext

-----------------------------------------------------------------------------
(***************************************************************************)
(* The theorems.                                                           *)
(***************************************************************************)

THEOREM Invariance == IntSpec => []IntInv
<1>1. IntStart => IntInv
  BY InitInv
<1>2. IntInv /\ [IntNext]_intVars => IntInv'
  BY StepInv
<1> QED
  BY <1>1, <1>2, PTL DEF IntSpec

(* idt_init fills the table in the order of its calls: each entry holds    *)
(* what has been stored of it and zeros, and all others are zero.          *)
THEOREM TypeCorrect == IntSpec => []IntTypeOK
<1>1. IntInv => IntTypeOK
  BY DEF IntInv
<1> QED
  BY <1>1, Invariance, PTL

(* From the moment its entry is complete, every exception and every NMI    *)
(* that finds a stack runs the handler written for it, or isr_GP if there  *)
(* is none: wherever the handlers lie, whichever exception it is, wherever *)
(* in _start or in a module it comes, and in whatever order the fields of  *)
(* the entries are stored.                                                 *)
THEOREM Reported == IntSpec => []InterruptsReported
<1>1. IntInv => InterruptsReported
  BY DEF IntInv, HandlerExplained, InterruptsReported
<1> QED
  BY <1>1, Invariance, PTL

(* A module runs in ring 3 and no INT of its own runs the handler of an    *)
(* exception, except isr_GP for the INT itself.                            *)
THEOREM NothingForged == IntSpec => []NoForgedExceptions
<1>1. IntInv => NoForgedExceptions
  BY DEF IntInv, BootOrder, HandlerExplained, NoForgedExceptions
<1> QED
  BY <1>1, Invariance, PTL
==============================================================================
