-------------------------- MODULE AddressSpaceProofs --------------------------
(***************************************************************************)
(* The proof that map_page_specific_pml4 implements address spaces: seen   *)
(* through the MMU, each step of a call changes nothing but its last,      *)
(* which changes the one page the call names, in the one space it names.   *)
(***************************************************************************)
EXTENDS PagingProofs

(* Translation, with memory m. *)
TranslationIn(m, r, v) ==
  IF /\ Present(Entry1(m, r, v))
     /\ Present(Entry2(m, r, v))
     /\ Present(Entry3(m, r, v))
     /\ Present(Entry4(m, r, v))
  THEN [addr |-> Entry4(m, r, v).addr,
        bits |-> Entry1(m, r, v).bits \cap Entry2(m, r, v).bits
                   \cap Entry3(m, r, v).bits \cap Entry4(m, r, v).bits]
  ELSE Unmapped

LEMMA TranslationIs ==
  ASSUME NEW r, NEW v
  PROVE  Translation(r, v) = TranslationIn(mem, r, v)
BY DEF Translation, TranslationIn, Entry1, Entry2, Entry3, Entry4

(* A space whose pml4 has no present entry maps nothing. *)
LEMMA CleanMapsNothing ==
  ASSUME NEW m, NEW r, Clean(m, r), NEW v \in VPage
  PROVE  TranslationIn(m, r, v) = Unmapped
<1>1. v[1] \in Index
  BY DEF VPage, Levels
<1> QED
  BY <1>1 DEF TranslationIn, Clean, Entry1

(* The structures that present entries lead to. *)
LEMMA OnTheWay ==
  ASSUME NEW m, NEW S1, NEW S2, NEW S3, NEW S4, Tree(m, S1, S2, S3, S4),
         NEW r \in S1, NEW v \in VPage
  PROVE  /\ v[1] \in Index /\ v[2] \in Index /\ v[3] \in Index /\ v[4] \in Index
         /\ Present(Entry1(m, r, v)) =>
              /\ Entry1(m, r, v).addr \in S2
              /\ Present(Entry2(m, r, v)) =>
                   /\ Entry2(m, r, v).addr \in S3
                   /\ Present(Entry3(m, r, v)) => Entry3(m, r, v).addr \in S4
<1>1. v[1] \in Index /\ v[2] \in Index /\ v[3] \in Index /\ v[4] \in Index
  BY DEF VPage, Levels
<1>2. ASSUME Present(Entry1(m, r, v))
      PROVE  Entry1(m, r, v).addr \in S2
  BY <1>1, <1>2, Pointed DEF Entry1, Tree
<1>3. ASSUME Present(Entry1(m, r, v)), Present(Entry2(m, r, v))
      PROVE  Entry2(m, r, v).addr \in S3
  <2>1. PICK s \in S2 : s = Entry1(m, r, v).addr
    BY <1>2, <1>3
  <2>2. Entry2(m, r, v) = m[s][v[2]]
    BY <2>1 DEF Entry2
  <2>3. m[s][v[2]].addr \in Targets(m, S2)
    BY <1>1, <1>3, <2>2, Pointed
  <2> QED
    BY <2>2, <2>3 DEF Tree
<1>4. ASSUME Present(Entry1(m, r, v)), Present(Entry2(m, r, v)), Present(Entry3(m, r, v))
      PROVE  Entry3(m, r, v).addr \in S4
  <2>1. PICK s \in S3 : s = Entry2(m, r, v).addr
    BY <1>3, <1>4
  <2>2. Entry3(m, r, v) = m[s][v[3]]
    BY <2>1 DEF Entry3
  <2>3. m[s][v[3]].addr \in Targets(m, S3)
    BY <1>1, <1>4, <2>2, Pointed
  <2> QED
    BY <2>2, <2>3 DEF Tree
<1> QED
  BY <1>1, <1>2, <1>3, <1>4

(* A write outside of the structures changes no translation. *)
LEMMA TranslationSame ==
  ASSUME NEW m, NEW n, NEW S1, NEW S2, NEW S3, NEW S4, Tree(m, S1, S2, S3, S4),
         \A s \in S1 \cup S2 \cup S3 \cup S4 : n[s] = m[s],
         NEW r \in S1, NEW v \in VPage
  PROVE  TranslationIn(n, r, v) = TranslationIn(m, r, v)
<1>1. Entry1(n, r, v) = Entry1(m, r, v)
  BY DEF Entry1
<1>2. Present(Entry1(m, r, v)) => Entry2(n, r, v) = Entry2(m, r, v)
  BY <1>1, OnTheWay DEF Entry2
<1>3. Present(Entry1(m, r, v)) /\ Present(Entry2(m, r, v)) =>
        Entry3(n, r, v) = Entry3(m, r, v)
  BY <1>2, OnTheWay DEF Entry3
<1>4. Present(Entry1(m, r, v)) /\ Present(Entry2(m, r, v)) /\ Present(Entry3(m, r, v)) =>
        Entry4(n, r, v) = Entry4(m, r, v)
  BY <1>3, OnTheWay DEF Entry4
<1> QED
  BY <1>1, <1>2, <1>3, <1>4 DEF TranslationIn

(* Nor does linking a zeroed block: no walk through it got any further     *)
(* before, and none does now.                                              *)
LEMMA TranslationLinked ==
  ASSUME NEW m, NEW n, NEW S1, NEW S2, NEW S3, NEW S4, Tree(m, S1, S2, S3, S4),
         NEW b, b \notin S1 \cup S2 \cup S3, Clean(m, b), b \in Page,
         NEW t \in S1 \cup S2 \cup S3, t \notin S4, NEW i \in Index, ~ Present(m[t][i]),
         NEW w, w.addr = b,
         Differs(m, n, t, i, w),
         NEW r \in S1, NEW v \in VPage
  PROVE  TranslationIn(n, r, v) = TranslationIn(m, r, v)
<1>1. \A j \in Index : ~ Present(n[b][j])
  BY DEF Clean, Differs
<1>2. v[1] \in Index /\ v[2] \in Index /\ v[3] \in Index /\ v[4] \in Index
  BY DEF VPage, Levels
<1>3. \A s \in S1 \cup S2 \cup S3, j \in Index :
        n[s][j] = m[s][j] \/ (~ Present(m[s][j]) /\ n[s][j].addr = b)
  BY DEF Tree, Differs
<1>4. \A s \in S4 : n[s] = m[s]
  BY DEF Tree, Differs
<1>5. ASSUME ~ Present(Entry1(m, r, v))
      PROVE  TranslationIn(n, r, v) = Unmapped
  <2>1. CASE Entry1(n, r, v) = Entry1(m, r, v)
    BY <1>5, <2>1 DEF TranslationIn
  <2>2. CASE Entry1(n, r, v).addr = b
    <3>1. ~ Present(Entry2(n, r, v))
      BY <1>1, <1>2, <2>2 DEF Entry2
    <3> QED
      BY <3>1 DEF TranslationIn
  <2> QED
    BY <1>2, <1>3, <2>1, <2>2 DEF Entry1
<1>6. ASSUME Present(Entry1(m, r, v))
      PROVE  Entry1(n, r, v) = Entry1(m, r, v) /\ Entry1(m, r, v).addr \in S2
  BY <1>2, <1>3, <1>6, OnTheWay DEF Entry1
<1>7. ASSUME Present(Entry1(m, r, v)), ~ Present(Entry2(m, r, v))
      PROVE  TranslationIn(n, r, v) = Unmapped
  <2>1. CASE Entry2(n, r, v) = Entry2(m, r, v)
    BY <1>7, <2>1 DEF TranslationIn
  <2>2. CASE Entry2(n, r, v).addr = b
    <3>1. ~ Present(Entry3(n, r, v))
      BY <1>1, <1>2, <2>2 DEF Entry3
    <3> QED
      BY <3>1 DEF TranslationIn
  <2> QED
    BY <1>2, <1>3, <1>6, <1>7, <2>1, <2>2 DEF Entry2
<1>8. ASSUME Present(Entry1(m, r, v)), Present(Entry2(m, r, v))
      PROVE  Entry2(n, r, v) = Entry2(m, r, v) /\ Entry2(m, r, v).addr \in S3
  <2>1. Entry2(m, r, v).addr \in S3
    BY <1>8, OnTheWay
  <2> QED
    BY <1>2, <1>3, <1>6, <1>8, <2>1 DEF Entry2
<1>9. ASSUME Present(Entry1(m, r, v)), Present(Entry2(m, r, v)), ~ Present(Entry3(m, r, v))
      PROVE  TranslationIn(n, r, v) = Unmapped
  <2>1. CASE Entry3(n, r, v) = Entry3(m, r, v)
    BY <1>9, <2>1 DEF TranslationIn
  <2>2. CASE Entry3(n, r, v).addr = b
    <3>1. ~ Present(Entry4(n, r, v))
      BY <1>1, <1>2, <2>2 DEF Entry4
    <3> QED
      BY <3>1 DEF TranslationIn
  <2> QED
    BY <1>2, <1>3, <1>8, <1>9, <2>1, <2>2 DEF Entry3
<1>10. ASSUME Present(Entry1(m, r, v)), Present(Entry2(m, r, v)), Present(Entry3(m, r, v))
       PROVE  TranslationIn(n, r, v) = TranslationIn(m, r, v)
  <2>1. Entry3(m, r, v).addr \in S4
    BY <1>10, OnTheWay
  <2>2. Entry3(n, r, v) = Entry3(m, r, v)
    BY <1>2, <1>3, <1>8, <1>10 DEF Entry3
  <2>3. Entry4(n, r, v) = Entry4(m, r, v)
    BY <1>4, <2>1, <2>2 DEF Entry4
  <2> QED
    BY <1>6, <1>8, <1>10, <2>2, <2>3 DEF TranslationIn
<1> QED
  BY <1>5, <1>7, <1>9, <1>10 DEF TranslationIn

(* Two walks that get to the same page table started at the same root and  *)
(* took the same indices.                                                  *)
LEMMA OneWay ==
  ASSUME NEW m, NEW S1, NEW S2, NEW S3, NEW S4, Tree(m, S1, S2, S3, S4),
         S1 \cap S2 = {}, S1 \cap S3 = {}, S2 \cap S3 = {},
         NEW q \in S1, NEW u \in VPage, NEW r \in S1, NEW v \in VPage,
         Present(Entry1(m, q, u)), Present(Entry2(m, q, u)), Present(Entry3(m, q, u)),
         Present(Entry1(m, r, v)), Present(Entry2(m, r, v)), Present(Entry3(m, r, v)),
         Entry3(m, q, u).addr = Entry3(m, r, v).addr
  PROVE  q = r /\ u[1] = v[1] /\ u[2] = v[2] /\ u[3] = v[3]
<1> DEFINE inner == S1 \cup S2 \cup S3
<1>1. /\ v[1] \in Index /\ v[2] \in Index /\ v[3] \in Index
      /\ u[1] \in Index /\ u[2] \in Index /\ u[3] \in Index
  BY DEF VPage, Levels
<1>2. /\ Entry1(m, q, u).addr \in S2 /\ Entry2(m, q, u).addr \in S3
      /\ Entry1(m, r, v).addr \in S2 /\ Entry2(m, r, v).addr \in S3
  BY OnTheWay
<1>3. \A s, t \in inner, i, j \in Index :
        Present(m[s][i]) /\ Present(m[t][j]) /\ m[s][i].addr = m[t][j].addr => s = t /\ i = j
  BY DEF Tree, Private
<1>4. Entry2(m, q, u).addr = Entry2(m, r, v).addr /\ u[3] = v[3]
  <2> DEFINE s == Entry2(m, q, u).addr
             t == Entry2(m, r, v).addr
  <2>1. /\ Present(m[s][u[3]]) /\ Present(m[t][v[3]])
        /\ m[s][u[3]].addr = m[t][v[3]].addr
    BY DEF Entry3
  <2>2. s \in inner /\ t \in inner
    BY <1>2
  <2> HIDE DEF s, t, inner
  <2>3. s = t /\ u[3] = v[3]
    BY <1>1, <1>3, <2>1, <2>2
  <2> QED
    BY <2>3 DEF s, t
<1>5. Entry1(m, q, u).addr = Entry1(m, r, v).addr /\ u[2] = v[2]
  <2> DEFINE s == Entry1(m, q, u).addr
             t == Entry1(m, r, v).addr
  <2>1. /\ Present(m[s][u[2]]) /\ Present(m[t][v[2]])
        /\ m[s][u[2]].addr = m[t][v[2]].addr
    BY <1>4 DEF Entry2
  <2>2. s \in inner /\ t \in inner
    BY <1>2
  <2> HIDE DEF s, t, inner
  <2>3. s = t /\ u[2] = v[2]
    BY <1>1, <1>3, <2>1, <2>2
  <2> QED
    BY <2>3 DEF s, t
<1>6. q = r /\ u[1] = v[1]
  BY <1>1, <1>3, <1>5 DEF Entry1
<1> QED
  BY <1>4, <1>5, <1>6

(* No structure is of two levels. *)
Apart(S1, S2, S3, S4) ==
  /\ S1 \cap (S2 \cup S3 \cup S4) = {}
  /\ S2 \cap (S3 \cup S4) = {}
  /\ S3 \cap S4 = {}

(* The rights that the entries above the page table leave to page v of r.  *)
RightsAbove(m, r, v) == Entry1(m, r, v).bits \cap Entry2(m, r, v).bits \cap Entry3(m, r, v).bits

(* In memory n, page v of r has the address and, but for what the entries  *)
(* above take away in memory m, the rights that word w gives it.           *)
Grants(m, n, r, v, w) ==
  /\ PRESENT \in RightsAbove(m, r, v)
  /\ TranslationIn(n, r, v) = [addr |-> w.addr, bits |-> RightsAbove(m, r, v) \cap w.bits]

(* An entry of a page table gives one page of one space its translation.   *)
LEMMA TranslationWritten ==
  ASSUME NEW m, NEW n, NEW S1, NEW S2, NEW S3, NEW S4, Tree(m, S1, S2, S3, S4),
         Apart(S1, S2, S3, S4),
         NEW q \in S1, NEW u \in VPage, NEW t, Reaches(m, q, u, 4, t),
         NEW w, Present(w), Differs(m, n, t, u[4], w),
         NEW r \in S1, NEW v \in VPage
  PROVE  /\ r = q /\ v = u => Grants(m, n, r, v, w)
         /\ ~ (r = q /\ v = u) => TranslationIn(n, r, v) = TranslationIn(m, r, v)
<1>1. /\ v[1] \in Index /\ v[2] \in Index /\ v[3] \in Index /\ v[4] \in Index
      /\ u[4] \in Index
  BY DEF VPage, Levels
<1>2. /\ Present(Entry1(m, q, u)) /\ Present(Entry2(m, q, u)) /\ Present(Entry3(m, q, u))
      /\ t = Entry3(m, q, u).addr
  BY DEF Reaches
<1>3. t \in S4 /\ t \notin S1 \cup S2 \cup S3
  BY <1>2, OnTheWay DEF Apart
<1>4. \A s \in S1 \cup S2 \cup S3 : n[s] = m[s]
  BY <1>3 DEF Differs, Tree
<1>5. Entry1(n, r, v) = Entry1(m, r, v)
  BY <1>4 DEF Entry1
<1>6. Present(Entry1(m, r, v)) => Entry2(n, r, v) = Entry2(m, r, v)
  BY <1>4, <1>5, OnTheWay DEF Entry2
<1>7. Present(Entry1(m, r, v)) /\ Present(Entry2(m, r, v)) =>
        Entry3(n, r, v) = Entry3(m, r, v)
  BY <1>4, <1>6, OnTheWay DEF Entry3
<1>8. CASE r = q /\ v = u
  <2>1. Entry4(n, r, v) = w
    BY <1>2, <1>7, <1>8 DEF Entry4, Differs
  <2>2. TranslationIn(n, r, v) =
          [addr |-> w.addr,
           bits |-> Entry1(m, r, v).bits \cap Entry2(m, r, v).bits
                      \cap Entry3(m, r, v).bits \cap w.bits]
    BY <1>2, <1>5, <1>6, <1>7, <1>8, <2>1 DEF TranslationIn
  <2> QED
    BY <1>2, <1>8, <2>2 DEF Grants, RightsAbove, Present
<1>9. CASE ~ (r = q /\ v = u)
  <2>1. ASSUME Present(Entry1(m, r, v)), Present(Entry2(m, r, v)), Present(Entry3(m, r, v))
        PROVE  Entry4(n, r, v) = Entry4(m, r, v)
    <3>1. PICK s \in S4 : s = Entry3(m, r, v).addr
      BY <2>1, OnTheWay
    <3>2. ASSUME s = t
          PROVE  v[4] # u[4]
      <4>1. q = r /\ u[1] = v[1] /\ u[2] = v[2] /\ u[3] = v[3]
        <5>1. S1 \cap S2 = {} /\ S1 \cap S3 = {} /\ S2 \cap S3 = {}
          BY DEF Apart
        <5>2. Entry3(m, q, u).addr = Entry3(m, r, v).addr
          BY <1>2, <3>1, <3>2
        <5> QED
          BY <1>2, <2>1, <5>1, <5>2, OneWay
      <4>2. v[4] = u[4] => v = u
        BY <4>1 DEF VPage, Levels
      <4> QED
        BY <1>9, <4>1, <4>2
    <3>3. n[s][v[4]] = m[s][v[4]]
      BY <1>1, <3>2 DEF Differs, Tree
    <3> QED
      BY <1>7, <2>1, <3>1, <3>3 DEF Entry4
  <2> QED
    BY <1>5, <1>6, <1>7, <1>9, <2>1 DEF TranslationIn
<1> QED
  BY <1>8, <1>9

-----------------------------------------------------------------------------
(***************************************************************************)
(* What the steps of a call do to the translations.                        *)
(***************************************************************************)

(* A step that writes no structure. *)
LEMMA StructuresUntouched ==
  ASSUME PagingInv, \A s \in spaces \cup Pdpts \cup Pdts \cup PageTables : mem'[s] = mem[s]
  PROVE  \A r \in spaces, v \in VPage : TranslationIn(mem', r, v) = TranslationIn(mem, r, v)
BY InvTree, TranslationSame

LEMMA ZeroTableTranslates ==
  ASSUME PagingInv, ZeroTable
  PROVE  \A r \in spaces, v \in VPage : TranslationIn(mem', r, v) = TranslationIn(mem, r, v)
<1>1. pc = "zero" /\ mem' = [mem EXCEPT ![block] = Zeroed]
  BY DEF ZeroTable
<1>2. block \notin spaces \cup Pdpts \cup Pdts \cup PageTables
  BY <1>1, InvTree DEF Partition, InFlight
<1>3. \A s \in spaces \cup Pdpts \cup Pdts \cup PageTables : mem'[s] = mem[s]
  BY <1>1, <1>2, InvTree DEF Memory, Tree
<1> QED
  BY <1>3, StructuresUntouched

LEMMA LinkTableTranslates ==
  ASSUME PagingInv, LinkTable
  PROVE  \A r \in spaces, v \in VPage : TranslationIn(mem', r, v) = TranslationIn(mem, r, v)
<1>1. /\ pc = "link" /\ SetEntry(block)
      /\ UNCHANGED <<first_page_frame, n_free_page_frames, phase, scanVars, held, block>>
  BY DEF LinkTable
<1>2. /\ level < 4 /\ ~ Present(mem[table][Slot]) /\ Clean(mem, block) /\ block \in Page
  BY <1>1 DEF PagingInv, WalkState, Entry, MemInv, MemTypeOK
<1>3. block \notin spaces \cup Pdpts \cup Pdts
  BY <1>1, InvTree DEF Partition, InFlight
<1>4. table \in spaces \cup Pdpts \cup Pdts /\ Slot \in Index
  BY <1>1, <1>2, TableLevel
<1>5. table \notin PageTables
  BY <1>4, InvTree DEF Partition
<1>6. PICK w : w = Pointing(block)
  OBVIOUS
<1>7. Differs(mem, mem', table, Slot, w) /\ w.addr = block
  BY <1>1, <1>2, <1>6, EntrySet
<1>8. Tree(mem, spaces, Pdpts, Pdts, PageTables)
  BY InvTree
<1> QED
  BY <1>2, <1>3, <1>4, <1>5, <1>7, <1>8, TranslationLinked

LEMMA WriteEntryTranslates ==
  ASSUME PagingInv, WriteEntry
  PROVE  /\ PRESENT \in RightsAbove(mem, call.root, call.vaddr)
         /\ TranslationIn(mem', call.root, call.vaddr) =
              [addr |-> call.paddr,
               bits |-> (RightsAbove(mem, call.root, call.vaddr) \cap call.flags) \cup {PRESENT}]
         /\ \A r \in spaces, v \in VPage :
              ~ (r = call.root /\ v = call.vaddr) =>
                TranslationIn(mem', r, v) = TranslationIn(mem, r, v)
<1> DEFINE q == call.root
           u == call.vaddr
           w == Pointing(call.paddr)
<1>1. /\ pc = "test" /\ level = 4 /\ SetEntry(call.paddr)
      /\ UNCHANGED <<first_page_frame, n_free_page_frames, phase, scanVars, held, block>>
  BY DEF WriteEntry
<1>2. /\ call \in AnyCall /\ q \in spaces /\ u \in VPage /\ call.paddr \in Page
      /\ Reaches(mem, q, u, 4, table)
  BY <1>1, CallFacts DEF PagingInv, WalkState
<1>3. Differs(mem, mem', table, u[4], w) /\ Present(w)
  BY <1>1, <1>2, EntrySet DEF Slot
<1>4. w.addr = call.paddr /\ w.bits = {PRESENT} \cup call.flags
  BY DEF Pointing
<1> HIDE DEF q, u, w
<1>5. /\ Tree(mem, spaces, Pdpts, Pdts, PageTables)
      /\ Apart(spaces, Pdpts, Pdts, PageTables)
  BY InvTree DEF Partition, Apart
<1>6. ASSUME NEW r \in spaces, NEW v \in VPage
      PROVE  /\ r = q /\ v = u => Grants(mem, mem', r, v, w)
             /\ ~ (r = q /\ v = u) => TranslationIn(mem', r, v) = TranslationIn(mem, r, v)
  BY <1>2, <1>3, <1>5, TranslationWritten
<1>7. Grants(mem, mem', q, u, w)
  BY <1>2, <1>6
<1>8. RightsAbove(mem, q, u) \cap w.bits = (RightsAbove(mem, q, u) \cap call.flags) \cup {PRESENT}
  BY <1>4, <1>7 DEF Grants
<1> QED
  BY <1>4, <1>6, <1>7, <1>8 DEF Grants, q, u

-----------------------------------------------------------------------------
(***************************************************************************)
(* The rights that the entries above the page tables give, when all calls  *)
(* ask for certain rights R at least.                                      *)
(***************************************************************************)

EntriesGrant(R) ==
  \A s \in spaces \cup Pdpts \cup Pdts, j \in Index : Present(mem[s][j]) => R \subseteq mem[s][j].bits

LEMMA NoSpaceGrants ==
  ASSUME NEW CONSTANT R
  PROVE  /\ spaces = {} => EntriesGrant(R)
         /\ spaces' = {} => EntriesGrant(R)'
<1>1. Targets(mem, {}) = {} /\ Targets(mem', {}) = {}
  BY PointedOnly
<1>2. ASSUME spaces = {}
      PROVE  EntriesGrant(R)
  BY <1>1, <1>2, ShapeHolds DEF Shape, EntriesGrant
<1>3. ASSUME spaces' = {}
      PROVE  EntriesGrant(R)'
  <2>1. Pdpts' = {} /\ Pdts' = {}
    BY <1>1, <1>3, ShapeHoldsNext DEF Shape
  <2> QED
    BY <1>3, <2>1 DEF EntriesGrant
<1> QED
  BY <1>2, <1>3

(* A step that writes no entry above the page tables. *)
LEMMA GrantSame ==
  ASSUME NEW CONSTANT R, PagingInv, EntriesGrant(R), spaces' = spaces,
         \A s \in spaces \cup Pdpts \cup Pdts : mem'[s] = mem[s]
  PROVE  EntriesGrant(R)'
<1>1. Tree(mem', spaces', Pdpts, Pdts, PageTables)
  BY InvTree, TreeSame
<1>2. Pdpts' = Pdpts /\ Pdts' = Pdts
  BY <1>1, ShapeHoldsNext DEF Shape, Tree
<1> QED
  BY <1>2 DEF EntriesGrant

(* A new pml4. *)
LEMMA GrantRoot ==
  ASSUME NEW CONSTANT R, PagingInv, EntriesGrant(R),
         NEW b \in Page, Clean(mem, b), mem' = mem, spaces' = spaces \cup {b}
  PROVE  EntriesGrant(R)'
<1>1. Tree(mem', spaces', Pdpts, Pdts, PageTables)
  BY InvTree, TreeRoot
<1>2. Pdpts' = Pdpts /\ Pdts' = Pdts
  BY <1>1, ShapeHoldsNext DEF Shape, Tree
<1> QED
  BY <1>2 DEF EntriesGrant, Clean

LEMMA LinkTableGrants ==
  ASSUME NEW CONSTANT R, PagingInv, EntriesGrant(R), LinkTable, R \subseteq call.flags
  PROVE  EntriesGrant(R)'
<1>1. /\ pc = "link" /\ pc' = "test" /\ SetEntry(block) /\ spaces' = spaces /\ data' = data
      /\ held' = held
      /\ UNCHANGED <<first_page_frame, n_free_page_frames, phase, scanVars, held, block>>
  BY DEF LinkTable, callerVars
<1>2. /\ Clean(mem, block) /\ block \in Page /\ level < 4
  BY <1>1 DEF PagingInv, WalkState, MemInv, MemTypeOK
<1>3. PICK w : w = Pointing(block)
  OBVIOUS
<1>4. R \subseteq w.bits
  BY <1>3 DEF Pointing
<1>5. Differs(mem, mem', table, Slot, w)
  BY <1>1, <1>2, <1>3, EntrySet
<1>6. table \in Page /\ Slot \in Index /\ table \in spaces \cup Pdpts \cup Pdts
  BY <1>1, <1>2, TableLevel
<1>7. spaces' \cup Pdpts' \cup Pdts' \subseteq spaces \cup Pdpts \cup Pdts \cup {block}
  <2>1. PagingInv' /\ PageTables \subseteq PageTables'
    BY LinkTableStep
  <2>2. Partition(held, spaces, Pdpts, Pdts, PageTables, {block}, data)
    BY <1>1, InvTree DEF InFlight
  <2>3. Partition(held', spaces', Pdpts', Pdts', PageTables', {}, data')
    BY <1>1, <2>1, PartsOfFramesNext DEF PagingInv, InFlight
  <2> QED
    BY <1>1, <2>1, <2>2, <2>3 DEF Partition
<1>8. \A s \in spaces \cup Pdpts \cup Pdts \cup {block} : s \in Page
  BY <1>2, InvTree DEF Tree
<1>9. ASSUME NEW s \in spaces' \cup Pdpts' \cup Pdts', NEW j \in Index, Present(mem'[s][j])
      PROVE  R \subseteq mem'[s][j].bits
  <2>1. CASE s = table /\ j = Slot
    BY <1>4, <1>5, <2>1 DEF Differs
  <2>2. CASE s # table \/ j # Slot
    <3>1. mem'[s][j] = mem[s][j]
      BY <1>5, <1>7, <1>8, <2>2 DEF Differs
    <3>2. s \in spaces \cup Pdpts \cup Pdts
      BY <1>2, <1>7, <1>9, <3>1 DEF Clean
    <3> QED
      BY <1>9, <3>1, <3>2 DEF EntriesGrant
  <2> QED
    BY <2>1, <2>2
<1> QED
  BY <1>9 DEF EntriesGrant

(* No step of a call but LinkTable writes an entry above the page tables.  *)
LEMMA MapStepSpares ==
  ASSUME PagingInv, MapStep, ~ LinkTable
  PROVE  \A s \in spaces \cup Pdpts \cup Pdts : mem'[s] = mem[s]
<1>1. CASE Descend \/ AllocTable \/ AllocFails
  BY <1>1 DEF Descend, AllocTable, AllocFails, GetPhysBlock, GetPhysBlockFails, memVars
<1>2. CASE ZeroTable
  <2>1. pc = "zero" /\ mem' = [mem EXCEPT ![block] = Zeroed]
    BY <1>2 DEF ZeroTable
  <2>2. block \notin spaces \cup Pdpts \cup Pdts
    BY <2>1, InvTree DEF Partition, InFlight
  <2> QED
    BY <2>1, <2>2, InvTree DEF Tree, Memory
<1>3. CASE WriteEntry
  <2>1. pc # "idle" /\ level = 4 /\ SetEntry(call.paddr)
    BY <1>3 DEF WriteEntry
  <2>2. table \in PageTables
    BY <2>1, TableLevel
  <2> QED
    BY <2>1, <2>2, InvTree DEF Partition, Tree, Memory, SetEntry
<1> QED
  BY <1>1, <1>2, <1>3 DEF MapStep

LEMMA MapStepGrants ==
  ASSUME NEW CONSTANT R, PagingInv, EntriesGrant(R), MapStep, R \subseteq call.flags
  PROVE  EntriesGrant(R)'
<1>1. CASE LinkTable
  BY <1>1, LinkTableGrants
<1>2. CASE ~ LinkTable
  <2>1. spaces' = spaces
    BY <1>2 DEF MapStep, Descend, AllocTable, AllocFails, ZeroTable, WriteEntry, callerVars
  <2> QED
    BY <1>2, <2>1, MapStepSpares, GrantSame
<1> QED
  BY <1>1, <1>2

(* What is left of them at the last write of a call. *)
LEMMA GrantsLeft ==
  ASSUME NEW CONSTANT R, PagingInv, EntriesGrant(R), pc # "idle", level = 4
  PROVE  R \subseteq RightsAbove(mem, call.root, call.vaddr)
<1>1. /\ call.root \in spaces /\ call.vaddr \in VPage
      /\ Reaches(mem, call.root, call.vaddr, 4, table)
      /\ Tree(mem, spaces, Pdpts, Pdts, PageTables)
  BY CallFacts, InvTree DEF PagingInv, WalkState
<1>2. /\ Present(Entry1(mem, call.root, call.vaddr))
      /\ Present(Entry2(mem, call.root, call.vaddr))
      /\ Present(Entry3(mem, call.root, call.vaddr))
  BY <1>1 DEF Reaches
<1>3. /\ call.vaddr[1] \in Index /\ call.vaddr[2] \in Index /\ call.vaddr[3] \in Index
      /\ Entry1(mem, call.root, call.vaddr).addr \in Pdpts
      /\ Entry2(mem, call.root, call.vaddr).addr \in Pdts
  BY <1>1, <1>2, OnTheWay
<1>4. R \subseteq Entry1(mem, call.root, call.vaddr).bits
  BY <1>1, <1>2, <1>3 DEF EntriesGrant, Entry1
<1>5. R \subseteq Entry2(mem, call.root, call.vaddr).bits
  BY <1>2, <1>3 DEF EntriesGrant, Entry2
<1>6. R \subseteq Entry3(mem, call.root, call.vaddr).bits
  BY <1>2, <1>3 DEF EntriesGrant, Entry3
<1> QED
  BY <1>4, <1>5, <1>6 DEF RightsAbove

-----------------------------------------------------------------------------
(***************************************************************************)
(* The refinement, action by action.                                       *)
(***************************************************************************)

(* What AddressSpace's variable translation stands for. *)
Mapping == [r \in spaces |-> [v \in VPage |-> TranslationIn(mem, r, v)]]

LEMMA MappingIs == Mapping = [r \in spaces |-> [v \in VPage |-> Translation(r, v)]]
BY DEF Mapping, Translation, TranslationIn, Entry1, Entry2, Entry3, Entry4

LEMMA MappingIsNext == Mapping' = [r \in spaces |-> [v \in VPage |-> Translation(r, v)]]'
BY DEF Mapping, Translation, TranslationIn, Entry1, Entry2, Entry3, Entry4

(* A step that MMU and caller do not see. *)
LEMMA Unseen ==
  ASSUME spaces' = spaces, call' = call,
         \A r \in spaces, v \in VPage : TranslationIn(mem', r, v) = TranslationIn(mem, r, v)
  PROVE  UNCHANGED Spaces!vars
<1>1. Mapping' = Mapping
  BY DEF Mapping
<1> QED
  BY <1>1, MappingIs, MappingIsNext DEF Spaces!vars

LEMMA NewSpaceCreates ==
  ASSUME RootsClean, PagingInv, NewSpace
  PROVE  Spaces!Next
<1>1. PICK b : b = first_page_frame
  OBVIOUS
<1>2. /\ b \in Page /\ b \notin spaces /\ mem' = mem /\ Clean(mem, b)
      /\ spaces' = spaces \cup {b} /\ call' = call
  BY <1>1, Handed, InvTree DEF NewSpace, Clean, walkVars, Partition
<1>3. Mapping' = [r \in spaces \cup {b} |->
                    IF r = b THEN [v \in VPage |-> Unmapped] ELSE Mapping[r]]
  BY <1>2, CleanMapsNothing DEF Mapping
<1>4. DOMAIN Mapping = spaces
  BY DEF Mapping
<1>5. Spaces!Create(b)
  <2>1. /\ b \notin DOMAIN Mapping
        /\ Mapping' = [r \in DOMAIN Mapping \cup {b} |->
                        IF r = b THEN [v \in VPage |-> Unmapped] ELSE Mapping[r]]
        /\ UNCHANGED call
    BY <1>2, <1>3, <1>4
  <2> QED
    BY <2>1, MappingIs, MappingIsNext, Zenon DEF Spaces!Create
<1> QED
  BY <1>2, <1>5 DEF Spaces!Next

LEMMA MapPageBegins ==
  ASSUME PagingInv, MapPage
  PROVE  Spaces!Next
<1>1. PICK r \in spaces, q \in Request : MapCall(r, q.paddr, q.vaddr, q.flags)
  BY DEF MapPage
<1>2. PICK c : c = [root |-> r, vaddr |-> q.vaddr, paddr |-> q.paddr, flags |-> q.flags]
  OBVIOUS
<1>3. /\ call' = c /\ c \in Call /\ c.root = r /\ mem' = mem /\ spaces' = spaces
      /\ call = NoCall
  BY <1>1, <1>2, InvTree
     DEF MapPage, MapCall, Call, memVars, callerVars, Idle, PagingInv, WalkState, Tree
<1>4. Mapping' = Mapping /\ DOMAIN Mapping = spaces
  BY <1>3 DEF Mapping
<1>5. Spaces!Begin(c)
  BY <1>3, <1>4, MappingIs, MappingIsNext DEF Spaces!Begin
<1> QED
  BY <1>3, <1>5 DEF Spaces!Next

LEMMA ZeroTableUnseen ==
  ASSUME PagingInv, ZeroTable
  PROVE  UNCHANGED Spaces!vars
<1>1. spaces' = spaces /\ call' = call
  BY DEF ZeroTable, callerVars
<1> QED
  BY <1>1, ZeroTableTranslates, Unseen

LEMMA StoreDataUnseen ==
  ASSUME PagingInv, StoreData
  PROVE  UNCHANGED Spaces!vars
<1>1. PICK b \in data, contents \in StoreImage : mem' = [mem EXCEPT ![b] = contents]
  BY DEF StoreData, Store
<1>2. spaces' = spaces /\ call' = call
  BY DEF StoreData, callerVars, walkVars
<1>3. \A s \in spaces \cup Pdpts \cup Pdts \cup PageTables : mem'[s] = mem[s]
  BY <1>1, InvTree DEF Memory, Tree, Partition
<1>4. \A r \in spaces, v \in VPage : TranslationIn(mem', r, v) = TranslationIn(mem, r, v)
  BY <1>3, InvTree, TranslationSame
<1> QED
  BY <1>2, <1>4, Unseen

LEMMA LinkTableUnseen ==
  ASSUME PagingInv, LinkTable
  PROVE  UNCHANGED Spaces!vars
<1>1. spaces' = spaces /\ call' = call
  BY DEF LinkTable, callerVars
<1> QED
  BY <1>1, LinkTableTranslates, Unseen

(* The last write of a call, to an entry of a page table.                  *)
LEMMA WriteEntryCompletes ==
  ASSUME PagingInv, WriteEntry
  PROVE  Spaces!Next
<1> DEFINE q == call.root
           u == call.vaddr
           rights == RightsAbove(mem, q, u) \cap call.flags
<1>1. /\ q \in spaces /\ u \in VPage /\ call \in AnyCall /\ call # NoCall /\ call' = NoCall
      /\ spaces' = spaces
  BY CallFacts DEF PagingInv, WalkState, WriteEntry, callerVars
<1>2. rights \in SUBSET Flag /\ rights \subseteq call.flags
  BY <1>1, CallFacts
<1>3. /\ TranslationIn(mem', q, u) = [addr |-> call.paddr, bits |-> rights \cup {PRESENT}]
      /\ \A r \in spaces, v \in VPage :
           ~ (r = q /\ v = u) => TranslationIn(mem', r, v) = TranslationIn(mem, r, v)
  BY WriteEntryTranslates
<1> HIDE DEF q, u, rights
<1>4. Mapping' = [Mapping EXCEPT ![q][u] = [addr |-> call.paddr, bits |-> rights \cup {PRESENT}]]
  <2>1. PICK m, n : m = mem /\ n = mem'
    OBVIOUS
  <2>2. Mapping' = [r \in spaces |-> [v \in VPage |-> TranslationIn(n, r, v)]]
    BY <1>1, <2>1 DEF Mapping
  <2>3. Mapping = [r \in spaces |-> [v \in VPage |-> TranslationIn(m, r, v)]]
    BY <2>1 DEF Mapping
  <2>4. ASSUME NEW r \in spaces, NEW v \in VPage
        PROVE  TranslationIn(n, r, v) =
                 IF r = q /\ v = u
                 THEN [addr |-> call.paddr, bits |-> rights \cup {PRESENT}]
                 ELSE TranslationIn(m, r, v)
    BY <1>3, <2>1
  <2> QED
    BY <1>1, <2>2, <2>3, <2>4
<1>5. Spaces!Complete(rights)
  <2>1. Mapping' = [Mapping EXCEPT ![call.root][call.vaddr] =
                      [addr |-> call.paddr, bits |-> rights \cup {"P"}]]
    BY <1>4 DEF PRESENT, q, u
  <2> QED
    BY <1>1, <1>2, <2>1, MappingIs, MappingIsNext, Zenon DEF Spaces!Complete
<1> QED
  BY <1>2, <1>5 DEF Spaces!Next

(* The others leave every structure, and what it is for, alone.            *)
LEMMA OthersUnseen ==
  ASSUME mem' = mem, spaces' = spaces, call' = call
  PROVE  UNCHANGED Spaces!vars
BY Unseen

(* mem_init comes before the first address space.                          *)
LEMMA ScanUnseen ==
  ASSUME PagingInv, Scan, UNCHANGED <<callerVars, walkVars>>
  PROVE  UNCHANGED Spaces!vars
<1>1. spaces = {} /\ spaces' = spaces /\ call' = call
  <2>1. held = {}
    BY DEF Scan, MemInit, PushFrame, Scanning, NextEntry, ScanDone, PagingInv, MemInv, ScanState
  <2> QED
    BY <2>1, InvTree DEF Partition, callerVars, walkVars
<1> QED
  BY <1>1, Unseen

LEMMA SpacesStep ==
  ASSUME RootsClean, PagingInv, [PagingNext]_pagingVars
  PROVE  [Spaces!Next]_(Spaces!vars)
<1>1. CASE Scan /\ UNCHANGED <<callerVars, walkVars>>
  BY <1>1, ScanUnseen
<1>2. CASE NewSpace
  BY <1>2, NewSpaceCreates
<1>3. CASE GetDataBlock \/ CallerFails \/ AllocFails \/ Descend \/ AllocTable
  <2>1. mem' = mem /\ spaces' = spaces /\ call' = call
    BY <1>3 DEF GetDataBlock, CallerFails, AllocFails, Descend, AllocTable, GetPhysBlock,
                GetPhysBlockFails, memVars, callerVars, walkVars
  <2> QED
    BY <2>1, OthersUnseen
<1>4. CASE StoreData
  BY <1>4, StoreDataUnseen
<1>5. CASE MapPage
  BY <1>5, MapPageBegins
<1>6. CASE ZeroTable
  BY <1>6, ZeroTableUnseen
<1>7. CASE LinkTable
  BY <1>7, LinkTableUnseen
<1>8. CASE WriteEntry
  BY <1>8, WriteEntryCompletes
<1>9. CASE UNCHANGED pagingVars
  <2>1. mem' = mem /\ spaces' = spaces /\ call' = call
    BY <1>9 DEF pagingVars, memVars, callerVars, walkVars
  <2> QED
    BY <2>1, OthersUnseen
<1> QED
  BY <1>1, <1>2, <1>3, <1>4, <1>5, <1>6, <1>7, <1>8, <1>9 DEF PagingNext, MapStep

(* Whatever the frames that become structures held, and in whatever order  *)
(* the spaces, the pages and the rights asked for come, each call of       *)
(* map_page_specific_pml4 gives one page of one space the translation its  *)
(* arguments name, with rights they name, all at once; what it builds on   *)
(* the way shows in no space.                                              *)
THEOREM ImplementsAddressSpace == RootsClean => (PagingSpec => MapsAsAsked)
<1> SUFFICES ASSUME RootsClean PROVE PagingSpec => MapsAsAsked
  OBVIOUS
<1>1. PagingStart => Spaces!Init
  <2>1. ASSUME PagingStart
        PROVE  spaces = {} /\ call = NoCall
    BY <2>1 DEF PagingStart
  <2>2. ASSUME spaces = {}
        PROVE  [r \in spaces |-> [v \in VPage |-> Translation(r, v)]] = [s \in {} |-> Unmapped]
    BY <2>2
  <2> QED
    BY <2>1, <2>2 DEF Spaces!Init
<1>2. PagingInv /\ [PagingNext]_pagingVars => [Spaces!Next]_(Spaces!vars)
  BY SpacesStep
<1> QED
  BY <1>1, <1>2, PagingInvariance, PTL DEF PagingSpec, MapsAsAsked, Spaces!Spec

==============================================================================
