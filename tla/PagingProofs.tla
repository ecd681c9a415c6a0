----------------------------- MODULE PagingProofs -----------------------------
(***************************************************************************)
(* Proofs about map_page_specific_pml4, for every machine, every series of *)
(* calls and whatever the frames held before.                              *)
(***************************************************************************)
EXTENDS Paging, PhysMemProofs, WellFoundedInduction

(* The structures that those of S point to when memory is m. *)
Targets(m, S) ==
  {m[e[1]][e[2]].addr : e \in {e \in S \X Index : Present(m[e[1]][e[2]])}}

(* No two entries of S point to the same structure. *)
Private(m, S) ==
  \A s, t \in S, i, j \in Index :
    /\ Present(m[s][i])
    /\ Present(m[t][j])
    /\ m[s][i].addr = m[t][j].addr
    => s = t /\ i = j

Memory == [Page -> [Index -> Word]]

Clean(m, f) == \A j \in Index : ~ Present(m[f][j])

-----------------------------------------------------------------------------
(***************************************************************************)
(* What a write does to the structures of one level.                       *)
(***************************************************************************)

LEMMA Pointed ==
  ASSUME NEW m, NEW S, NEW s \in S, NEW j \in Index, Present(m[s][j])
  PROVE  m[s][j].addr \in Targets(m, S)
<1> DEFINE e == <<s, j>>
<1>1. e \in S \X Index /\ e[1] = s /\ e[2] = j
  OBVIOUS
<1> HIDE DEF e
<1>2. e \in {d \in S \X Index : Present(m[d[1]][d[2]])} /\ m[s][j].addr = m[e[1]][e[2]].addr
  BY <1>1
<1> QED
  BY <1>2 DEF Targets

LEMMA PointedOnly ==
  ASSUME NEW m, NEW S, NEW x \in Targets(m, S)
  PROVE  \E s \in S, j \in Index : Present(m[s][j]) /\ m[s][j].addr = x
<1>1. PICK e \in S \X Index : Present(m[e[1]][e[2]]) /\ x = m[e[1]][e[2]].addr
  BY DEF Targets
<1>2. e[1] \in S /\ e[2] \in Index
  OBVIOUS
<1> QED
  BY <1>1, <1>2

LEMMA TargetsType ==
  ASSUME NEW m \in Memory, NEW S \in SUBSET Page
  PROVE  Targets(m, S) \in SUBSET Page
BY PointedOnly DEF Memory, Word

(* A write elsewhere. *)
LEMMA TargetsSame ==
  ASSUME NEW m, NEW n, NEW S, \A s \in S : n[s] = m[s]
  PROVE  Targets(n, S) = Targets(m, S)
BY DEF Targets

(* A structure without a present entry joins. *)
LEMMA TargetsClean ==
  ASSUME NEW m, NEW S, NEW b, Clean(m, b)
  PROVE  Targets(m, S \cup {b}) = Targets(m, S)
<1> DEFINE T == S \cup {b}
<1>1. \A s \in T, j \in Index : Present(m[s][j]) => s \in S
  BY DEF Clean
<1>2. S \subseteq T
  OBVIOUS
<1> HIDE DEF T
<1>3. ASSUME NEW x \in Targets(m, T)
      PROVE  x \in Targets(m, S)
  <2>1. PICK s \in T, j \in Index : Present(m[s][j]) /\ m[s][j].addr = x
    BY PointedOnly
  <2> QED
    BY <1>1, <2>1, Pointed
<1>4. ASSUME NEW x \in Targets(m, S)
      PROVE  x \in Targets(m, T)
  <2>1. PICK s \in S, j \in Index : Present(m[s][j]) /\ m[s][j].addr = x
    BY PointedOnly
  <2> QED
    BY <1>2, <2>1, Pointed
<1> QED
  BY <1>3, <1>4 DEF T

(* Memory n is memory m but for entry i of t, which holds w. *)
Differs(m, n, t, i, w) ==
  /\ \A s \in Page, j \in Index : s # t \/ j # i => n[s][j] = m[s][j]
  /\ \A s \in Page : s # t => n[s] = m[s]
  /\ n[t][i] = w

LEMMA EntryWritten ==
  ASSUME NEW m \in Memory, NEW t \in Page, NEW i \in Index, NEW w
  PROVE  Differs(m, [m EXCEPT ![t][i] = w], t, i, w)
BY DEF Memory, Differs

LEMMA PrivateSame ==
  ASSUME NEW m, NEW n, NEW S, Private(m, S), \A s \in S : n[s] = m[s]
  PROVE  Private(n, S)
BY DEF Private

LEMMA PrivateClean ==
  ASSUME NEW m, NEW S, Private(m, S), NEW b, Clean(m, b)
  PROVE  Private(m, S \cup {b})
BY DEF Private, Clean

LEMMA PrivateLink ==
  ASSUME NEW m, NEW S \in SUBSET Page, Private(m, S),
         NEW t \in S, NEW i \in Index, ~ Present(m[t][i]),
         NEW w, w.addr \notin Targets(m, S),
         NEW n, Differs(m, n, t, i, w)
  PROVE  Private(n, S)
<1>1. \A s \in S, j \in Index : Present(m[s][j]) => m[s][j].addr # w.addr
  BY Pointed
<1> QED
  BY <1>1 DEF Private, Differs

-----------------------------------------------------------------------------
(***************************************************************************)
(* The structures of all levels.                                           *)
(***************************************************************************)

(* FramesAccounted, for parts that are given. *)
Partition(H, S1, S2, S3, S4, F, D) ==
  /\ H = S1 \cup S2 \cup S3 \cup S4 \cup F \cup D
  /\ S1 \cap (S2 \cup S3 \cup S4 \cup F \cup D) = {}
  /\ S2 \cap (S3 \cup S4 \cup F \cup D) = {}
  /\ S3 \cap (S4 \cup F \cup D) = {}
  /\ S4 \cap (F \cup D) = {}
  /\ F \cap D = {}

(* The structures of the four levels under the roots S1, in memory m. *)
Tree(m, S1, S2, S3, S4) ==
  /\ S1 \in SUBSET Page /\ S2 \in SUBSET Page /\ S3 \in SUBSET Page /\ S4 \in SUBSET Page
  /\ S2 = Targets(m, S1)
  /\ S3 = Targets(m, S2)
  /\ S4 = Targets(m, S3)
  /\ Private(m, S1 \cup S2 \cup S3)

(* A write that leaves the structures with pointers in them alone. *)
LEMMA TreeSame ==
  ASSUME NEW m, NEW n, NEW S1, NEW S2, NEW S3, NEW S4, Tree(m, S1, S2, S3, S4),
         \A s \in S1 \cup S2 \cup S3 : n[s] = m[s]
  PROVE  Tree(n, S1, S2, S3, S4)
BY TargetsSame, PrivateSame DEF Tree

(* A root without a present entry joins. *)
LEMMA TreeRoot ==
  ASSUME NEW m, NEW S1, NEW S2, NEW S3, NEW S4, Tree(m, S1, S2, S3, S4),
         NEW b \in Page, Clean(m, b)
  PROVE  Tree(m, S1 \cup {b}, S2, S3, S4)
<1>1. Targets(m, S1 \cup {b}) = S2
  BY TargetsClean DEF Tree
<1>2. Private(m, (S1 \cup S2 \cup S3) \cup {b})
  BY PrivateClean DEF Tree
<1>3. (S1 \cup {b}) \cup S2 \cup S3 = (S1 \cup S2 \cup S3) \cup {b}
  OBVIOUS
<1> QED
  BY <1>1, <1>2, <1>3 DEF Tree

(* An entry that was not present, in a structure of any of the first three *)
(* levels, is made to point to a frame that is none of the structures and  *)
(* has no present entry: that frame joins the next level, and nothing else *)
(* changes.                                                                *)
LEMMA TreeLink ==
  ASSUME NEW m, NEW S1, NEW S2, NEW S3, NEW S4, Tree(m, S1, S2, S3, S4),
         NEW H, NEW D, NEW b \in Page, Partition(H, S1, S2, S3, S4, {b}, D),
         Clean(m, b),
         NEW t \in S1 \cup S2 \cup S3, NEW i \in Index, ~ Present(m[t][i]),
         NEW w, Present(w), w.addr = b,
         NEW n, Differs(m, n, t, i, w)
  PROVE  \E T2, T3, T4 :
           /\ Tree(n, S1, T2, T3, T4)
           /\ Partition(H, S1, T2, T3, T4, {}, D)
           /\ S2 \subseteq T2 /\ S3 \subseteq T3 /\ S4 \subseteq T4
<1> DEFINE inner == S1 \cup S2 \cup S3
<1>1. /\ b \notin inner /\ b \notin S4 /\ inner \in SUBSET Page /\ b # t
      /\ t \in inner
  BY DEF Partition, Tree
<1>2. Clean(n, b)
  BY <1>1 DEF Clean, Differs
<1>3. \A s \in Page : s # t => n[s] = m[s]
  BY DEF Differs
<1>4. Private(n, inner \cup {b})
  <2>1. ASSUME NEW s \in inner, NEW j \in Index, Present(m[s][j])
        PROVE  m[s][j].addr # b
    <3>1. m[s][j].addr \in S2 \cup S3 \cup S4
      BY <2>1, Pointed DEF Tree
    <3> QED
      BY <3>1, <1>1
  <2>2. b \notin Targets(m, inner)
    BY <2>1, PointedOnly
  <2>3. Private(m, inner)
    BY DEF Tree
  <2> HIDE DEF inner
  <2>4. Private(n, inner)
    BY <2>2, <2>3, <1>1, PrivateLink
  <2> QED
    BY <2>4, <1>2, PrivateClean
<1>5. \A S \in SUBSET (inner \cup {b}) : Private(n, S)
  BY <1>4 DEF Private
<1> HIDE DEF inner
<1>6. ASSUME NEW S \in SUBSET Page, t \in S
      PROVE  Targets(n, S) = Targets(m, S) \cup {b}
  <2>1. ASSUME NEW x \in Targets(n, S)
        PROVE  x \in Targets(m, S) \cup {b}
    <3>1. PICK s \in S, j \in Index : Present(n[s][j]) /\ n[s][j].addr = x
      BY PointedOnly
    <3>2. CASE s = t /\ j = i
      BY <3>1, <3>2 DEF Differs
    <3>3. CASE s # t \/ j # i
      <4>1. Present(m[s][j]) /\ m[s][j].addr = x
        BY <3>1, <3>3 DEF Differs
      <4> QED
        BY <4>1, Pointed
    <3> QED
      BY <3>2, <3>3
  <2>2. ASSUME NEW x \in Targets(m, S)
        PROVE  x \in Targets(n, S)
    <3>1. PICK s \in S, j \in Index : Present(m[s][j]) /\ m[s][j].addr = x
      BY PointedOnly
    <3>2. s # t \/ j # i
      BY <3>1
    <3> QED
      BY <3>1, <3>2, Pointed DEF Differs
  <2>3. b \in Targets(n, S)
    <3>1. Present(n[t][i]) /\ n[t][i].addr = b
      BY DEF Differs
    <3> QED
      BY <1>6, <3>1, Pointed
  <2> QED
    BY <2>1, <2>2, <2>3
<1>7. ASSUME NEW S \in SUBSET Page, t \notin S
      PROVE  Targets(n, S) = Targets(m, S)
  <2>1. \A s \in S : n[s] = m[s]
    BY <1>3, <1>7
  <2> QED
    BY <2>1, TargetsSame
<1>8. \A S : Targets(n, S \cup {b}) = Targets(n, S)
  BY <1>2, TargetsClean
<1>9. CASE t \in S1
  <2>1. t \notin S2 /\ t \notin S3
    BY <1>9 DEF Partition
  <2>2. Tree(n, S1, S2 \cup {b}, S3, S4)
    BY <1>5, <1>6, <1>7, <1>8, <1>9, <2>1 DEF Tree, inner
  <2>3. Partition(H, S1, S2 \cup {b}, S3, S4, {}, D)
    BY DEF Partition
  <2> QED
    BY <2>2, <2>3
<1>10. CASE t \in S2
  <2>1. t \notin S1 /\ t \notin S3
    BY <1>10 DEF Partition
  <2>2. Tree(n, S1, S2, S3 \cup {b}, S4)
    BY <1>5, <1>6, <1>7, <1>8, <1>10, <2>1 DEF Tree, inner
  <2>3. Partition(H, S1, S2, S3 \cup {b}, S4, {}, D)
    BY DEF Partition
  <2> QED
    BY <2>2, <2>3
<1>11. CASE t \in S3
  <2>1. t \notin S1 /\ t \notin S2
    BY <1>11 DEF Partition
  <2>2. Tree(n, S1, S2, S3, S4 \cup {b})
    BY <1>5, <1>6, <1>7, <1>11, <2>1 DEF Tree, inner
  <2>3. Partition(H, S1, S2, S3, S4 \cup {b}, {}, D)
    BY DEF Partition
  <2> QED
    BY <2>2, <2>3
<1> QED
  BY <1>9, <1>10, <1>11

-----------------------------------------------------------------------------
(***************************************************************************)
(* The inductive invariant.                                                *)
(***************************************************************************)

(* The entries that a page's indices lead through from a root. *)
Entry1(m, r, v) == m[r][v[1]]
Entry2(m, r, v) == m[Entry1(m, r, v).addr][v[2]]
Entry3(m, r, v) == m[Entry2(m, r, v).addr][v[3]]
Entry4(m, r, v) == m[Entry3(m, r, v).addr][v[4]]

(* In memory m, structure t is where a walk from r for page v is at level l*)
Reaches(m, r, v, l, t) ==
  /\ l = 1 => t = r
  /\ l > 1 => Present(Entry1(m, r, v))
  /\ l = 2 => t = Entry1(m, r, v).addr
  /\ l > 2 => Present(Entry2(m, r, v))
  /\ l = 3 => t = Entry2(m, r, v).addr
  /\ l > 3 => Present(Entry3(m, r, v))
  /\ l = 4 => t = Entry3(m, r, v).addr

(* A call of map_page_specific_pml4, with any arguments. *)
AnyCall == [root : Page, vaddr : VPage, paddr : Page, flags : SUBSET Flag]

(* What the local variables of a call under way have to do with memory: it *)
(* is where its own arguments lead; a block it has taken is for an entry   *)
(* that is not present, and holds no present entry once it is zeroed.      *)
WalkState ==
  /\ pc = "idle" => call = NoCall
  /\ pc # "idle" =>
       /\ call \in AnyCall
       /\ call.root \in spaces
       /\ Reaches(mem, call.root, call.vaddr, level, table)
  /\ pc \in {"zero", "link"} =>
       /\ phase = "up"
       /\ level < 4
       /\ ~ Present(Entry)
  /\ pc = "link" => Clean(mem, block)

(* The types, for whatever calls callers make. *)
WalkTypes ==
  /\ spaces \subseteq Frame
  /\ data \subseteq Frame
  /\ call \in AnyCall \cup {NoCall}
  /\ pc \in {"idle", "test", "zero", "link"}
  /\ level \in Levels
  /\ table \in Page

PagingInv ==
  /\ MemInv
  /\ WalkTypes
  /\ FramesAccounted
  /\ StructuresPrivate
  /\ WalkState

(* FramesAccounted and StructuresPrivate, in terms of Partition and Tree.  *)
LEMMA PartsOfFrames ==
  FramesAccounted <=> Partition(held, spaces, Pdpts, Pdts, PageTables, InFlight, data)
<1> DEFINE parts == <<spaces, Pdpts, Pdts, PageTables, InFlight, data>>
<1>1. DOMAIN parts = 1 .. 6
  OBVIOUS
<1>2. /\ parts[1] = spaces /\ parts[2] = Pdpts /\ parts[3] = Pdts
      /\ parts[4] = PageTables /\ parts[5] = InFlight /\ parts[6] = data
  OBVIOUS
<1>3. FramesAccounted <=> /\ held = UNION {parts[k] : k \in DOMAIN parts}
                          /\ \A j, k \in DOMAIN parts : j # k => parts[j] \cap parts[k] = {}
  BY DEF FramesAccounted
<1> HIDE DEF parts
<1>4. UNION {parts[k] : k \in 1 .. 6} =
        parts[1] \cup parts[2] \cup parts[3] \cup parts[4] \cup parts[5] \cup parts[6]
  OBVIOUS
<1>5. (\A j, k \in 1 .. 6 : j # k => parts[j] \cap parts[k] = {}) <=>
        /\ parts[1] \cap (parts[2] \cup parts[3] \cup parts[4] \cup parts[5] \cup parts[6]) = {}
        /\ parts[2] \cap (parts[3] \cup parts[4] \cup parts[5] \cup parts[6]) = {}
        /\ parts[3] \cap (parts[4] \cup parts[5] \cup parts[6]) = {}
        /\ parts[4] \cap (parts[5] \cup parts[6]) = {}
        /\ parts[5] \cap parts[6] = {}
  OBVIOUS
<1> QED
  BY <1>1, <1>2, <1>3, <1>4, <1>5 DEF Partition

LEMMA LevelsAre ==
  Pdpts = Targets(mem, spaces) /\ Pdts = Targets(mem, Pdpts) /\ PageTables = Targets(mem, Pdts)
BY DEF Pdpts, Pdts, PageTables, PointedAt, Pointers, Targets

LEMMA PrivateAre ==
  StructuresPrivate <=> Private(mem, spaces \cup Pdpts \cup Pdts)
<1> DEFINE inner == spaces \cup Pdpts \cup Pdts
<1>1. StructuresPrivate <=>
        \A d, e \in Pointers(inner) : mem[d[1]][d[2]].addr = mem[e[1]][e[2]].addr => d = e
  BY DEF StructuresPrivate
<1> HIDE DEF inner
<1>2. ASSUME StructuresPrivate,
             NEW s \in inner, NEW t \in inner, NEW i \in Index, NEW j \in Index,
             Present(mem[s][i]), Present(mem[t][j]), mem[s][i].addr = mem[t][j].addr
      PROVE  s = t /\ i = j
  <2> DEFINE d == <<s, i>>
             e == <<t, j>>
  <2>1. d[1] = s /\ d[2] = i /\ e[1] = t /\ e[2] = j /\ d \in inner \X Index /\ e \in inner \X Index
    OBVIOUS
  <2> HIDE DEF d, e
  <2>2. d \in Pointers(inner) /\ e \in Pointers(inner)
    BY <1>2, <2>1 DEF Pointers
  <2> QED
    BY <1>1, <1>2, <2>1, <2>2
<1>3. ASSUME Private(mem, inner), NEW d \in Pointers(inner), NEW e \in Pointers(inner),
             mem[d[1]][d[2]].addr = mem[e[1]][e[2]].addr
      PROVE  d = e
  <2>1. /\ d = <<d[1], d[2]>> /\ d[1] \in inner /\ d[2] \in Index /\ Present(mem[d[1]][d[2]])
        /\ e = <<e[1], e[2]>> /\ e[1] \in inner /\ e[2] \in Index /\ Present(mem[e[1]][e[2]])
    BY DEF Pointers
  <2>2. d[1] = e[1] /\ d[2] = e[2]
    BY <1>3, <2>1 DEF Private
  <2> QED
    BY <2>1, <2>2
<1>4. Private(mem, inner) <=> StructuresPrivate
  BY <1>1, <1>2, <1>3 DEF Private
<1> QED
  BY <1>4 DEF inner

Shape == /\ FramesAccounted <=> Partition(held, spaces, Pdpts, Pdts, PageTables, InFlight, data)
         /\ Pdpts = Targets(mem, spaces)
         /\ Pdts = Targets(mem, Pdpts)
         /\ PageTables = Targets(mem, Pdts)
         /\ StructuresPrivate <=> Private(mem, spaces \cup Pdpts \cup Pdts)

LEMMA ShapeHolds == Shape
BY PartsOfFrames, LevelsAre, PrivateAre DEF Shape

LEMMA ShapeHoldsNext == Shape'
BY ShapeHolds, PTL

LEMMA PartsOfFramesNext ==
  FramesAccounted' <=> Partition(held', spaces', Pdpts', Pdts', PageTables', InFlight', data')
BY ShapeHoldsNext DEF Shape


LEMMA InvTree ==
  ASSUME PagingInv
  PROVE  /\ Tree(mem, spaces, Pdpts, Pdts, PageTables)
         /\ Partition(held, spaces, Pdpts, Pdts, PageTables, InFlight, data)
         /\ mem \in Memory /\ held \subseteq Frame /\ held \subseteq Page
<1>1. Partition(held, spaces, Pdpts, Pdts, PageTables, InFlight, data)
  BY PartsOfFrames DEF PagingInv
<1>2. mem \in Memory /\ held \subseteq Frame /\ held \subseteq Page
  BY FrameFacts DEF PagingInv, MemInv, MemTypeOK, Memory
<1>3. /\ spaces \in SUBSET Page /\ Pdpts \in SUBSET Page /\ Pdts \in SUBSET Page
      /\ PageTables \in SUBSET Page
  BY <1>1, <1>2 DEF Partition
<1>4. Private(mem, spaces \cup Pdpts \cup Pdts)
  BY PrivateAre DEF PagingInv
<1> QED
  BY <1>1, <1>2, <1>3, <1>4, LevelsAre DEF Tree

LEMMA TreeInv ==
  ASSUME NEW S2, NEW S3, NEW S4,
         Tree(mem', spaces', S2, S3, S4),
         Partition(held', spaces', S2, S3, S4, InFlight', data')
  PROVE  /\ Pdpts' = S2 /\ Pdts' = S3 /\ PageTables' = S4
         /\ FramesAccounted' /\ StructuresPrivate'
<1>1. Pdpts' = S2 /\ Pdts' = S3 /\ PageTables' = S4
  BY ShapeHoldsNext DEF Shape, Tree
<1>2. Private(mem', spaces' \cup Pdpts' \cup Pdts')
  BY <1>1 DEF Tree
<1> QED
  BY <1>1, <1>2, ShapeHoldsNext DEF Shape

-----------------------------------------------------------------------------
(***************************************************************************)
(* The walk.                                                               *)
(***************************************************************************)

(* No entry of a pml4, a pdpt or a pdt that is present changes.            *)
Kept ==
  \A s \in spaces \cup Pdpts \cup Pdts, j \in Index :
    Present(mem[s][j]) => mem'[s][j] = mem[s][j]

LEMMA CallFacts == /\ \A c \in AnyCall : /\ c.root \in Page
                                       /\ c.vaddr \in VPage
                                       /\ c.paddr \in Page
                                       /\ c.flags \in SUBSET Flag
                   /\ NoCall \notin AnyCall
                   /\ Call \subseteq AnyCall
<1>1. NoCall \notin AnyCall
  <2>1. \A c \in AnyCall : "vaddr" \in DOMAIN c
    BY DEF AnyCall
  <2>2. "vaddr" \notin DOMAIN NoCall
    BY DEF NoCall
  <2> QED
    BY <2>1, <2>2
<1>2. \A q \in Request : q.vaddr \in VPage /\ q.paddr \in Page /\ q.flags \in SUBSET Flag
  BY PagingAssumption
<1>3. ASSUME NEW c \in Call
      PROVE  c \in AnyCall
  <2>1. PICK r \in Page, q \in Request :
          c = [root |-> r, vaddr |-> q.vaddr, paddr |-> q.paddr, flags |-> q.flags]
    BY DEF Call
  <2> QED
    BY <1>2, <2>1 DEF AnyCall
<1> QED
  BY <1>1, <1>3 DEF AnyCall

(* Where the walk along a page's indices gets to, level by level.          *)
LEMMA ReachesLevel ==
  ASSUME NEW m, NEW S1, NEW S2, NEW S3, NEW S4, Tree(m, S1, S2, S3, S4),
         NEW r \in S1, NEW v \in VPage,
         NEW l \in Levels, NEW t, Reaches(m, r, v, l, t)
  PROVE  /\ l = 1 => t \in S1
         /\ l = 2 => t \in S2
         /\ l = 3 => t \in S3
         /\ l = 4 => t \in S4
         /\ l > 1 => Entry1(m, r, v).addr \in S2
         /\ l > 2 => Entry2(m, r, v).addr \in S3
         /\ l > 3 => Entry3(m, r, v).addr \in S4
<1>1. v[1] \in Index /\ v[2] \in Index /\ v[3] \in Index
  BY DEF VPage, Levels
<1>2. l > 1 => Entry1(m, r, v).addr \in S2
  BY <1>1, Pointed DEF Reaches, Entry1, Tree
<1>3. ASSUME l > 2
      PROVE  Entry2(m, r, v).addr \in S3
  <2>1. PICK s \in S2 : s = Entry1(m, r, v).addr
    BY <1>2, <1>3 DEF Levels
  <2>2. Present(m[s][v[2]]) /\ Entry2(m, r, v) = m[s][v[2]]
    BY <2>1, <1>3 DEF Reaches, Entry2
  <2>3. m[s][v[2]].addr \in Targets(m, S2)
    BY <1>1, <2>2, Pointed
  <2> QED
    BY <2>2, <2>3 DEF Tree
<1>4. ASSUME l > 3
      PROVE  Entry3(m, r, v).addr \in S4
  <2>1. PICK s \in S3 : s = Entry2(m, r, v).addr
    BY <1>3, <1>4 DEF Levels
  <2>2. Present(m[s][v[3]]) /\ Entry3(m, r, v) = m[s][v[3]]
    BY <2>1, <1>4 DEF Reaches, Entry3
  <2>3. m[s][v[3]].addr \in Targets(m, S3)
    BY <1>1, <2>2, Pointed
  <2> QED
    BY <2>2, <2>3 DEF Tree
<1> QED
  BY <1>2, <1>3, <1>4 DEF Reaches, Levels

LEMMA TableLevel ==
  ASSUME PagingInv, pc # "idle"
  PROVE  /\ level = 1 => table \in spaces
         /\ level = 2 => table \in Pdpts
         /\ level = 3 => table \in Pdts
         /\ level = 4 => table \in PageTables
         /\ level < 4 => table \in spaces \cup Pdpts \cup Pdts
         /\ table \in held /\ table \notin data /\ table \notin InFlight /\ table \in Page
         /\ Slot \in Index /\ Entry \in Word /\ level \in Levels
<1>1. /\ call.root \in spaces /\ call.vaddr \in VPage /\ level \in Levels
      /\ Reaches(mem, call.root, call.vaddr, level, table)
  BY CallFacts DEF PagingInv, WalkTypes, WalkState
<1>2. /\ level = 1 => table \in spaces
      /\ level = 2 => table \in Pdpts
      /\ level = 3 => table \in Pdts
      /\ level = 4 => table \in PageTables
  <2>1. Tree(mem, spaces, Pdpts, Pdts, PageTables)
    BY InvTree
  <2> QED
    BY <1>1, <2>1, ReachesLevel
<1>3. table \in held /\ table \notin data /\ table \notin InFlight /\ table \in Page
  <2>1. Partition(held, spaces, Pdpts, Pdts, PageTables, InFlight, data) /\ held \subseteq Page
    BY InvTree
  <2>2. table \in spaces \cup Pdpts \cup Pdts \cup PageTables
    BY <1>1, <1>2 DEF Levels
  <2> QED
    BY <2>1, <2>2 DEF Partition
<1>4. Slot \in Index /\ Entry \in Word
  BY <1>1, <1>3, InvTree DEF Slot, Entry, VPage, Memory
<1> QED
  BY <1>1, <1>2, <1>3, <1>4 DEF Levels

(* A walk is where it was when no present entry above the page tables has  *)
(* changed.                                                                *)
LEMMA ReachesKept ==
  ASSUME NEW m, NEW n, NEW S1, NEW S2, NEW S3, NEW S4, Tree(m, S1, S2, S3, S4),
         \A s \in S1 \cup S2 \cup S3, j \in Index : Present(m[s][j]) => n[s][j] = m[s][j],
         NEW r \in S1, NEW v \in VPage,
         NEW l \in Levels, NEW t, Reaches(m, r, v, l, t)
  PROVE  /\ Reaches(n, r, v, l, t)
         /\ l > 1 => Entry1(n, r, v) = Entry1(m, r, v)
         /\ l > 2 => Entry2(n, r, v) = Entry2(m, r, v)
         /\ l > 3 => Entry3(n, r, v) = Entry3(m, r, v)
<1>1. v[1] \in Index /\ v[2] \in Index /\ v[3] \in Index
  BY DEF VPage, Levels
<1>2. /\ l > 1 => Entry1(m, r, v).addr \in S2
      /\ l > 2 => Entry2(m, r, v).addr \in S3
  BY ReachesLevel
<1>3. l > 1 => Entry1(n, r, v) = Entry1(m, r, v)
  BY <1>1 DEF Reaches, Entry1
<1>4. l > 2 => Entry2(n, r, v) = Entry2(m, r, v)
  BY <1>1, <1>2, <1>3 DEF Reaches, Entry2, Levels
<1>5. l > 3 => Entry3(n, r, v) = Entry3(m, r, v)
  BY <1>1, <1>2, <1>4 DEF Reaches, Entry3, Levels
<1> QED
  BY <1>3, <1>4, <1>5 DEF Reaches, Levels

-----------------------------------------------------------------------------
(***************************************************************************)
(* One lemma per action.                                                   *)
(***************************************************************************)

(* The parts of the invariant in the next state. *)
LEMMA Assembled ==
  ASSUME MemInv',
         NEW S2, NEW S3, NEW S4,
         Tree(mem', spaces', S2, S3, S4),
         Partition(held', spaces', S2, S3, S4, InFlight', data'),
         call' \in AnyCall \cup {NoCall}, pc' \in {"idle", "test", "zero", "link"},
         level' \in Levels, table' \in Page, WalkState'
  PROVE  PagingInv'
<1>1. FramesAccounted' /\ StructuresPrivate'
  BY TreeInv
<1>2. spaces' \subseteq Frame /\ data' \subseteq Frame
  BY DEF MemInv, MemTypeOK, Partition
<1> QED
  BY <1>1, <1>2 DEF PagingInv, WalkTypes, MemInv

LEMMA ScanStep ==
  ASSUME PagingInv, Scan, UNCHANGED <<callerVars, walkVars>>
  PROVE  PagingInv' /\ Kept
<1>1. MemInv'
  BY StepInv DEF PagingInv, MemNext
<1>2. held = {} /\ held' = {}
  BY DEF PagingInv, MemInv, ScanState, Scan, MemInit, PushFrame, NextEntry, ScanDone,
         Scanning, scanVars
<1>3. /\ spaces = {} /\ data = {} /\ Pdpts = {} /\ Pdts = {} /\ InFlight = {}
  BY <1>2, InvTree DEF Partition
<1>4. pc = "idle" /\ call = NoCall
  BY <1>3 DEF PagingInv, WalkState
<1>5. Targets(mem', {}) = {}
  BY PointedOnly
<1>6. Tree(mem', spaces', {}, {}, {})
  BY <1>3, <1>5 DEF Tree, Private, callerVars
<1>7. Partition(held', spaces', {}, {}, {}, InFlight', data')
  BY <1>2, <1>3, <1>4 DEF Partition, InFlight, callerVars, walkVars
<1>8. WalkState'
  BY <1>4 DEF WalkState, walkVars
<1>9. PagingInv'
  BY <1>1, <1>6, <1>7, <1>8, Assembled DEF PagingInv, WalkTypes, walkVars
<1> QED
  BY <1>3, <1>9 DEF Kept

(* The frame that get_phys_block returns is nobody's. *)
LEMMA Handed ==
  ASSUME PagingInv, GetPhysBlock
  PROVE  /\ MemInv'
         /\ first_page_frame \in Page /\ first_page_frame \notin held
         /\ mem' = mem /\ block' = first_page_frame
         /\ held' = held \cup {first_page_frame}
<1>1. MemInv' /\ first_page_frame \in FreeSet
  BY GetPhysBlockInv DEF PagingInv
<1> QED
  BY <1>1, FrameFacts, FreeSetFacts DEF PagingInv, FreeSet, GetPhysBlock

LEMMA NewSpaceStep ==
  ASSUME RootsClean, PagingInv, NewSpace
  PROVE  PagingInv' /\ Kept
<1> DEFINE b == first_page_frame
<1>1. /\ MemInv' /\ b \in Page /\ b \notin held /\ mem' = mem /\ held' = held \cup {b}
      /\ Clean(mem, b) /\ spaces' = spaces \cup {b} /\ data' = data /\ pc = "idle"
      /\ UNCHANGED walkVars
  BY Handed DEF NewSpace, Idle, Clean
<1> HIDE DEF b
<1>2. Tree(mem', spaces', Pdpts, Pdts, PageTables)
  BY <1>1, InvTree, TreeRoot
<1>3. InFlight = {} /\ InFlight' = {}
  BY <1>1 DEF InFlight, walkVars
<1>4. Partition(held', spaces', Pdpts, Pdts, PageTables, InFlight', data')
  BY <1>1, <1>3, InvTree DEF Partition
<1>5. WalkState'
  BY <1>1 DEF PagingInv, WalkState, walkVars
<1>6. PagingInv'
  BY <1>1, <1>2, <1>4, <1>5, Assembled DEF PagingInv, WalkTypes, walkVars
<1> QED
  BY <1>1, <1>6 DEF Kept

LEMMA GetDataBlockStep ==
  ASSUME PagingInv, GetDataBlock
  PROVE  PagingInv' /\ Kept
<1> DEFINE b == first_page_frame
<1>1. /\ MemInv' /\ b \in Page /\ b \notin held /\ mem' = mem /\ held' = held \cup {b}
      /\ spaces' = spaces /\ data' = data \cup {b} /\ pc = "idle"
      /\ UNCHANGED walkVars
  BY Handed DEF GetDataBlock, Idle
<1> HIDE DEF b
<1>2. Tree(mem', spaces', Pdpts, Pdts, PageTables)
  BY <1>1, InvTree
<1>3. InFlight = {} /\ InFlight' = {}
  BY <1>1 DEF InFlight, walkVars
<1>4. Partition(held', spaces', Pdpts, Pdts, PageTables, InFlight', data')
  BY <1>1, <1>3, InvTree DEF Partition
<1>5. WalkState'
  BY <1>1 DEF PagingInv, WalkState, walkVars
<1>6. PagingInv'
  BY <1>1, <1>2, <1>4, <1>5, Assembled DEF PagingInv, WalkTypes, walkVars
<1> QED
  BY <1>1, <1>6 DEF Kept

(* The ASSERT of get_phys_block, called by a caller or by the call itself. *)
LEMMA FailsStep ==
  ASSUME PagingInv, CallerFails \/ AllocFails
  PROVE  PagingInv' /\ Kept
<1>1. /\ MemInv' /\ mem' = mem /\ held' = held /\ spaces' = spaces /\ data' = data
      /\ block' = block /\ UNCHANGED walkVars /\ pc \in {"idle", "test"}
  BY GetPhysBlockFailsInv
     DEF PagingInv, CallerFails, AllocFails, GetPhysBlockFails, Idle, callerVars
<1>2. Tree(mem', spaces', Pdpts, Pdts, PageTables)
  BY <1>1, InvTree
<1>3. Partition(held', spaces', Pdpts, Pdts, PageTables, InFlight', data')
  BY <1>1, InvTree DEF InFlight, walkVars
<1>4. WalkState'
  BY <1>1 DEF PagingInv, WalkState, walkVars
<1>5. PagingInv'
  BY <1>1, <1>2, <1>3, <1>4, Assembled DEF PagingInv, WalkTypes, walkVars
<1> QED
  BY <1>1, <1>5 DEF Kept

LEMMA StoreDataStep ==
  ASSUME PagingInv, StoreData
  PROVE  PagingInv' /\ Kept
<1>1. PICK b \in data, contents \in StoreImage : Store(b, contents)
  BY DEF StoreData
<1>2. /\ mem' = [mem EXCEPT ![b] = contents] /\ held' = held /\ spaces' = spaces
      /\ data' = data /\ block' = block /\ UNCHANGED walkVars /\ pc = "idle"
  BY <1>1 DEF Store, StoreData, Idle, callerVars
<1>3. b \in held /\ b \notin spaces \cup Pdpts \cup Pdts
  BY InvTree DEF Partition
<1>4. MemInv'
  BY <1>1, <1>3, StoreInv DEF PagingInv
<1>5. \A s \in spaces \cup Pdpts \cup Pdts : mem'[s] = mem[s]
  BY <1>2, <1>3, InvTree DEF Tree, Memory
<1>6. Tree(mem', spaces', Pdpts, Pdts, PageTables)
  BY <1>2, <1>5, InvTree, TreeSame
<1>7. Partition(held', spaces', Pdpts, Pdts, PageTables, InFlight', data')
  BY <1>2, InvTree DEF InFlight, walkVars
<1>8. WalkState'
  BY <1>2 DEF PagingInv, WalkState, walkVars
<1>9. PagingInv'
  BY <1>2, <1>4, <1>6, <1>7, <1>8, Assembled DEF PagingInv, WalkTypes, walkVars
<1> QED
  BY <1>5, <1>9 DEF Kept

LEMMA MapCallStep ==
  ASSUME PagingInv, NEW r \in spaces, NEW p \in Page, NEW v \in VPage, NEW f \in SUBSET Flag,
         MapCall(r, p, v, f), UNCHANGED <<memVars, callerVars>>
  PROVE  PagingInv' /\ Kept
<1>1. /\ UNCHANGED memVars /\ mem' = mem /\ held' = held /\ spaces' = spaces /\ data' = data
      /\ pc = "idle" /\ pc' = "test" /\ level' = 1 /\ table' = r /\ r \in Page
  BY InvTree DEF MapCall, Idle, FirstLevel, callerVars, memVars, Tree
<1>2. call' \in AnyCall /\ call'.root = r
  BY <1>1 DEF MapCall, AnyCall
<1>3. MemInv'
  BY <1>1, StutterInv DEF PagingInv
<1>4. Tree(mem', spaces', Pdpts, Pdts, PageTables)
  BY <1>1, InvTree
<1>5. Partition(held', spaces', Pdpts, Pdts, PageTables, InFlight', data')
  BY <1>1, InvTree DEF InFlight
<1>6. WalkState'
  BY <1>1, <1>2 DEF WalkState, Reaches
<1>7. PagingInv'
  BY <1>1, <1>2, <1>3, <1>4, <1>5, <1>6, Assembled DEF Levels
<1> QED
  BY <1>1, <1>7 DEF Kept

LEMMA MapPageStep ==
  ASSUME PagingInv, MapPage
  PROVE  PagingInv' /\ Kept
<1>1. PICK r \in spaces, q \in Request : MapCall(r, q.paddr, q.vaddr, q.flags)
  BY DEF MapPage
<1>2. q.paddr \in Page /\ q.vaddr \in VPage /\ q.flags \in SUBSET Flag
  BY PagingAssumption
<1> QED
  BY <1>1, <1>2, MapCallStep DEF MapPage

(* A present entry leads the walk one level down. *)
LEMMA ReachesNext ==
  ASSUME NEW m, NEW r, NEW v, NEW l \in Levels, l < 4, NEW t, Reaches(m, r, v, l, t),
         Present(m[t][v[l]])
  PROVE  Reaches(m, r, v, l + 1, m[t][v[l]].addr)
<1>1. CASE l = 1
  BY <1>1 DEF Reaches, Entry1
<1>2. CASE l = 2
  BY <1>2 DEF Reaches, Entry2
<1>3. CASE l = 3
  BY <1>3 DEF Reaches, Entry3
<1> QED
  BY <1>1, <1>2, <1>3 DEF Levels

LEMMA DescendStep ==
  ASSUME PagingInv, Descend
  PROVE  PagingInv' /\ Kept
<1>1. /\ UNCHANGED memVars /\ mem' = mem /\ held' = held /\ spaces' = spaces /\ data' = data
      /\ pc = "test" /\ pc' = pc /\ call' = call /\ level' = level + 1 /\ level < 4
      /\ table' = mem[table][call.vaddr[level]].addr /\ Present(mem[table][call.vaddr[level]])
  BY DEF Descend, EntryPresent, callerVars, memVars, Entry, Slot
<1>2. /\ call \in AnyCall /\ call.root \in spaces /\ level \in Levels
      /\ Reaches(mem, call.root, call.vaddr, level, table)
  BY <1>1 DEF PagingInv, WalkTypes, WalkState
<1>3. Reaches(mem', call'.root, call'.vaddr, level', table')
  BY <1>1, <1>2, ReachesNext
<1>4. MemInv'
  BY <1>1, StutterInv DEF PagingInv
<1>5. Tree(mem', spaces', Pdpts, Pdts, PageTables)
  BY <1>1, InvTree
<1>6. Partition(held', spaces', Pdpts, Pdts, PageTables, InFlight', data')
  BY <1>1, InvTree DEF InFlight
<1>7. WalkState'
  BY <1>1, <1>2, <1>3 DEF WalkState
<1>8. level' \in Levels /\ table' \in Page
  BY <1>1, <1>2, TableLevel DEF Levels, Word, Entry, Slot
<1>9. PagingInv'
  BY <1>1, <1>2, <1>4, <1>5, <1>6, <1>7, <1>8, Assembled
<1> QED
  BY <1>1, <1>9 DEF Kept

LEMMA AllocTableStep ==
  ASSUME PagingInv, AllocTable
  PROVE  PagingInv' /\ Kept
<1> DEFINE b == first_page_frame
<1>1. /\ MemInv' /\ b \in Page /\ b \notin held /\ mem' = mem /\ held' = held \cup {b}
      /\ block' = b
  BY Handed DEF AllocTable
<1> HIDE DEF b
<1>2. /\ spaces' = spaces /\ data' = data /\ pc = "test" /\ pc' = "zero" /\ level < 4
      /\ call' = call /\ level' = level /\ table' = table /\ ~ Present(Entry)
      /\ phase' = "up"
  BY DEF AllocTable, EntryPresent, callerVars, GetPhysBlock
<1>3. Tree(mem', spaces', Pdpts, Pdts, PageTables)
  BY <1>1, <1>2, InvTree
<1>4. InFlight = {} /\ InFlight' = {b}
  BY <1>1, <1>2 DEF InFlight
<1>5. Partition(held', spaces', Pdpts, Pdts, PageTables, InFlight', data')
  BY <1>1, <1>2, <1>4, InvTree DEF Partition
<1>6. WalkState'
  BY <1>1, <1>2 DEF PagingInv, WalkState, Entry, Slot
<1>7. PagingInv'
  BY <1>1, <1>2, <1>3, <1>5, <1>6, Assembled DEF PagingInv, WalkTypes
<1> QED
  BY <1>1, <1>7 DEF Kept

LEMMA ZeroTableStep ==
  ASSUME PagingInv, ZeroTable
  PROVE  PagingInv' /\ Kept
<1>1. /\ pc = "zero" /\ pc' = "link" /\ mem' = [mem EXCEPT ![block] = Zeroed]
      /\ spaces' = spaces /\ data' = data /\ held' = held /\ block' = block
      /\ call' = call /\ level' = level /\ table' = table /\ phase' = phase
      /\ UNCHANGED <<first_page_frame, n_free_page_frames, phase, scanVars, held, block>>
  BY DEF ZeroTable, callerVars
<1>2. InFlight = {block} /\ InFlight' = {block}
  BY <1>1 DEF InFlight
<1>3. block \in held /\ block \notin spaces \cup Pdpts \cup Pdts /\ block \in Page
  BY <1>2, InvTree DEF Partition
<1>4. Zeroed \in [Index -> Word] /\ \A j \in Index : ~ Present(Zeroed[j])
  BY PageAssumption, PointerFacts DEF Zeroed, Present, Pointer
<1>5. MemInv'
  BY <1>1, <1>3, <1>4, HeldWrite DEF PagingInv
<1>6. /\ \A s \in Page : s # block => mem'[s] = mem[s]
      /\ Clean(mem', block)
  BY <1>1, <1>3, <1>4, InvTree DEF Memory, Clean
<1>7. \A s \in spaces \cup Pdpts \cup Pdts : mem'[s] = mem[s]
  BY <1>3, <1>6, InvTree DEF Tree
<1>8. Tree(mem', spaces', Pdpts, Pdts, PageTables)
  BY <1>1, <1>7, InvTree, TreeSame
<1>9. Partition(held', spaces', Pdpts, Pdts, PageTables, InFlight', data')
  BY <1>1, <1>2, InvTree
<1>10. Kept
  BY <1>7 DEF Kept
<1>11. WalkState'
  <2>1. /\ call \in AnyCall /\ call.root \in spaces /\ call.vaddr \in VPage /\ level \in Levels
        /\ Reaches(mem, call.root, call.vaddr, level, table) /\ phase = "up" /\ level < 4
        /\ ~ Present(Entry)
    BY <1>1, CallFacts DEF PagingInv, WalkTypes, WalkState
  <2>2. Reaches(mem', call.root, call.vaddr, level, table)
    BY <2>1, <1>10, InvTree, ReachesKept DEF Kept
  <2>3. mem'[table] = mem[table]
    BY <1>1, <1>7, <2>1, TableLevel
  <2> QED
    BY <1>1, <1>6, <2>1, <2>2, <2>3 DEF WalkState, Entry, Slot
<1>12. PagingInv'
  BY <1>1, <1>5, <1>8, <1>9, <1>11, Assembled DEF PagingInv, WalkTypes
<1> QED
  BY <1>10, <1>12

(* What SetEntry does, in the list of frames and in memory. *)
LEMMA EntrySet ==
  ASSUME PagingInv, pc # "idle", NEW p \in Page, SetEntry(p),
         UNCHANGED <<first_page_frame, n_free_page_frames, phase, scanVars, held, block>>
  PROVE  /\ MemInv'
         /\ Differs(mem, mem', table, Slot, Pointing(p))
         /\ Present(Pointing(p)) /\ Pointing(p).addr = p /\ Pointing(p) \in Word
<1>1. table \in held /\ table \in Page /\ Slot \in Index
  BY TableLevel
<1>2. call.flags \in SUBSET Flag
  BY CallFacts DEF PagingInv, WalkState
<1>3. Present(Pointing(p)) /\ Pointing(p).addr = p /\ Pointing(p) \in Word
  BY <1>2, PagingAssumption DEF Pointing, Present, Word
<1>4. mem' = [mem EXCEPT ![table][Slot] = Pointing(p)]
  BY DEF SetEntry
<1>5. Differs(mem, mem', table, Slot, Pointing(p))
  BY <1>1, <1>4, InvTree, EntryWritten
<1>6. MemInv'
  <2> DEFINE contents == [mem[table] EXCEPT ![Slot] = Pointing(p)]
  <2>1. contents \in [Index -> Word]
    BY <1>1, <1>3, InvTree DEF Memory
  <2>2. mem' = [mem EXCEPT ![table] = contents]
    BY <1>4
  <2> HIDE DEF contents
  <2> QED
    BY <1>1, <2>1, <2>2, HeldWrite DEF PagingInv
<1> QED
  BY <1>3, <1>5, <1>6

LEMMA LinkTableStep ==
  ASSUME PagingInv, LinkTable
  PROVE  PagingInv' /\ Kept /\ PageTables \subseteq PageTables'
<1>1. /\ pc = "link" /\ pc' = "test" /\ SetEntry(block)
      /\ spaces' = spaces /\ data' = data /\ held' = held
      /\ call' = call /\ level' = level /\ table' = table
      /\ UNCHANGED <<first_page_frame, n_free_page_frames, phase, scanVars, held, block>>
  BY DEF LinkTable, callerVars
<1>2. /\ call \in AnyCall /\ call.root \in spaces /\ call.vaddr \in VPage /\ level \in Levels
      /\ Reaches(mem, call.root, call.vaddr, level, table) /\ level < 4
      /\ ~ Present(mem[table][Slot]) /\ Clean(mem, block)
  BY <1>1, CallFacts DEF PagingInv, WalkTypes, WalkState, Entry
<1>3. InFlight = {block} /\ InFlight' = {}
  BY <1>1 DEF InFlight
<1>4. block \in Page /\ table \in spaces \cup Pdpts \cup Pdts /\ Slot \in Index
  BY <1>1, <1>2, TableLevel DEF PagingInv, MemInv, MemTypeOK
<1>5. PICK w : w = Pointing(block)
  OBVIOUS
<1>6. MemInv' /\ Differs(mem, mem', table, Slot, w) /\ Present(w) /\ w.addr = block
  BY <1>1, <1>4, <1>5, EntrySet
<1>7. /\ Tree(mem, spaces, Pdpts, Pdts, PageTables)
      /\ Partition(held, spaces, Pdpts, Pdts, PageTables, {block}, data)
  BY <1>3, InvTree
<1>8. \E T2, T3, T4 :
        /\ Tree(mem', spaces, T2, T3, T4)
        /\ Partition(held, spaces, T2, T3, T4, {}, data)
        /\ PageTables \subseteq T4
  BY <1>2, <1>4, <1>6, <1>7, TreeLink
<1>9. PICK T2, T3, T4 :
        /\ Tree(mem', spaces', T2, T3, T4)
        /\ Partition(held', spaces', T2, T3, T4, InFlight', data')
        /\ PageTables \subseteq T4
  BY <1>1, <1>3, <1>8
<1>10. Kept
  BY <1>2, <1>6, <1>7 DEF Kept, Differs, Tree
<1>11. WalkState'
  <2>1. Reaches(mem', call.root, call.vaddr, level, table)
    BY <1>2, <1>7, <1>10, ReachesKept DEF Kept
  <2> QED
    BY <1>1, <1>2, <2>1 DEF WalkState
<1>12. PagingInv'
  BY <1>1, <1>6, <1>9, <1>11, Assembled DEF PagingInv, WalkTypes
<1>13. PageTables' = T4
  BY <1>9, TreeInv
<1> QED
  BY <1>9, <1>10, <1>12, <1>13

LEMMA WriteEntryStep ==
  ASSUME PagingInv, WriteEntry
  PROVE  PagingInv' /\ Kept
<1>1. /\ pc = "test" /\ pc' = "idle" /\ SetEntry(call.paddr) /\ call' = NoCall
      /\ spaces' = spaces /\ data' = data /\ held' = held
      /\ level = 4 /\ level' = level /\ table' = table
      /\ UNCHANGED <<first_page_frame, n_free_page_frames, phase, scanVars, held, block>>
  BY DEF WriteEntry, callerVars
<1>2. call.paddr \in Page
  BY <1>1, CallFacts DEF PagingInv, WalkState
<1>3. MemInv' /\ Differs(mem, mem', table, Slot, Pointing(call.paddr))
  BY <1>1, <1>2, EntrySet
<1>4. table \in PageTables
  BY <1>1, TableLevel
<1>5. \A s \in spaces \cup Pdpts \cup Pdts : mem'[s] = mem[s]
  BY <1>3, <1>4, InvTree DEF Partition, Tree, Differs
<1>6. Tree(mem', spaces', Pdpts, Pdts, PageTables)
  BY <1>1, <1>5, InvTree, TreeSame
<1>7. Partition(held', spaces', Pdpts, Pdts, PageTables, InFlight', data')
  BY <1>1, InvTree DEF InFlight
<1>8. WalkState'
  BY <1>1 DEF WalkState
<1>9. PagingInv'
  BY <1>1, <1>3, <1>6, <1>7, <1>8, Assembled DEF PagingInv, WalkTypes
<1> QED
  BY <1>5, <1>9 DEF Kept

LEMMA PagingStutter ==
  ASSUME PagingInv, UNCHANGED pagingVars
  PROVE  PagingInv' /\ Kept
<1>1. /\ UNCHANGED memVars /\ mem' = mem /\ held' = held /\ block' = block /\ phase' = phase
      /\ spaces' = spaces /\ data' = data /\ UNCHANGED walkVars
  BY DEF pagingVars, callerVars, memVars
<1>2. MemInv'
  BY <1>1, StutterInv DEF PagingInv
<1>3. Tree(mem', spaces', Pdpts, Pdts, PageTables)
  BY <1>1, InvTree
<1>4. Partition(held', spaces', Pdpts, Pdts, PageTables, InFlight', data')
  BY <1>1, InvTree DEF InFlight, walkVars
<1>5. WalkState'
  BY <1>1 DEF PagingInv, WalkState, Entry, Slot, walkVars
<1>6. PagingInv'
  BY <1>1, <1>2, <1>3, <1>4, <1>5, Assembled DEF PagingInv, WalkTypes, walkVars
<1> QED
  BY <1>1, <1>6 DEF Kept

LEMMA PagingStartInv == PagingStart => PagingInv
<1> SUFFICES ASSUME PagingStart PROVE PagingInv
  OBVIOUS
<1>1. /\ MemInv /\ held = {} /\ spaces = {} /\ data = {} /\ call = NoCall /\ pc = "idle"
      /\ level = 1 /\ table = NULL
  BY InitInv DEF PagingStart, MemStart
<1>2. Targets(mem, {}) = {}
  BY PointedOnly
<1>3. Pdpts = {} /\ Pdts = {} /\ PageTables = {}
  BY <1>1, <1>2, LevelsAre
<1>4. FramesAccounted
  BY <1>1, <1>3, PartsOfFrames DEF Partition, InFlight
<1>5. StructuresPrivate
  BY <1>1, <1>3, PrivateAre DEF Private
<1>6. WalkState /\ WalkTypes
  BY <1>1, PageAssumption DEF WalkState, WalkTypes, MemInv, Levels
<1> QED
  BY <1>1, <1>4, <1>5, <1>6 DEF PagingInv

LEMMA PagingStepInv ==
  ASSUME RootsClean, PagingInv, [PagingNext]_pagingVars
  PROVE  PagingInv' /\ Kept
<1>1. CASE Scan /\ UNCHANGED <<callerVars, walkVars>>
  BY <1>1, ScanStep
<1>2. CASE NewSpace
  BY <1>2, NewSpaceStep
<1>3. CASE GetDataBlock
  BY <1>3, GetDataBlockStep
<1>4. CASE StoreData
  BY <1>4, StoreDataStep
<1>5. CASE CallerFails \/ AllocFails
  BY <1>5, FailsStep
<1>6. CASE MapPage
  BY <1>6, MapPageStep
<1>7. CASE Descend
  BY <1>7, DescendStep
<1>8. CASE AllocTable
  BY <1>8, AllocTableStep
<1>9. CASE ZeroTable
  BY <1>9, ZeroTableStep
<1>10. CASE LinkTable
  BY <1>10, LinkTableStep
<1>11. CASE WriteEntry
  BY <1>11, WriteEntryStep
<1>12. CASE UNCHANGED pagingVars
  BY <1>12, PagingStutter
<1> QED
  BY <1>1, <1>2, <1>3, <1>4, <1>5, <1>6, <1>7, <1>8, <1>9, <1>10, <1>11, <1>12
     DEF PagingNext, MapStep

-----------------------------------------------------------------------------
(***************************************************************************)
(* The theorems.  RootsClean says that no frame that becomes a pml4        *)
(* happens to hold a present entry.  The code does not see to that:        *)
(* without it a call walks into whatever the leftovers of the frame point  *)
(* to.                                                                     *)
(***************************************************************************)

(* Every step of mem_init, of the callers and of map_page_specific_pml4    *)
(* keeps the inductive invariant.                                          *)
THEOREM PagingInvariance == RootsClean => (PagingSpec => []PagingInv)
<1> SUFFICES ASSUME RootsClean PROVE PagingSpec => []PagingInv
  OBVIOUS
<1>1. PagingStart => PagingInv
  BY PagingStartInv
<1>2. PagingInv /\ [PagingNext]_pagingVars => PagingInv'
  BY PagingStepInv
<1> QED
  BY <1>1, <1>2, PTL DEF PagingSpec

(* The local variables of a call keep their types: it never looks at a     *)
(* level below the page tables, nor at a structure outside of memory.      *)
THEOREM PagingTypeCorrect == RootsClean => (PagingSpec => []PagingTypeOK)
<1> SUFFICES ASSUME RootsClean PROVE PagingSpec => []PagingTypeOK
  OBVIOUS
<1> DEFINE Asked == call \in Call \cup {NoCall}
<1>1. PagingStart => Asked
  BY DEF PagingStart
<1>2. ASSUME PagingInv, Asked, [PagingNext]_pagingVars
      PROVE  Asked'
  <2>1. CASE MapPage
    <3>1. PICK r \in spaces, q \in Request : MapCall(r, q.paddr, q.vaddr, q.flags)
      BY <2>1 DEF MapPage
    <3>2. r \in Page
      BY <1>2, InvTree DEF Tree
    <3> QED
      BY <3>1, <3>2 DEF MapCall, Call
  <2>2. CASE WriteEntry
    BY <2>2 DEF WriteEntry
  <2>3. CASE ~ MapPage /\ ~ WriteEntry
    <3>1. call' = call
      BY <1>2, <2>3 DEF PagingNext, MapStep, NewSpace, GetDataBlock, StoreData, CallerFails,
           Descend, AllocTable, AllocFails, ZeroTable, LinkTable, walkVars, pagingVars
    <3> QED
      BY <1>2, <3>1
  <2> QED
    BY <2>1, <2>2, <2>3
<1>3. PagingInv /\ Asked => PagingTypeOK
  BY DEF PagingInv, WalkTypes, PagingTypeOK, MemInv
<1> HIDE DEF Asked
<1>4. PagingSpec => []Asked
  BY <1>1, <1>2, PagingInvariance, PTL DEF PagingSpec
<1> QED
  BY <1>3, <1>4, PagingInvariance, PTL

(* No frame is ever two things at once, or none: what callers took as a    *)
(* pml4 or as data stays that, and each block that map_page_specific_pml4  *)
(* takes becomes one structure of one level.                               *)
THEOREM FramesCorrect == RootsClean => (PagingSpec => []FramesAccounted)
<1>1. PagingInv => FramesAccounted
  BY DEF PagingInv
<1> QED
  BY <1>1, PagingInvariance, PTL

(* No two entries ever share a structure, in whatever order the calls for  *)
(* the pages of whichever spaces come.                                     *)
THEOREM PrivateCorrect == RootsClean => (PagingSpec => []StructuresPrivate)
<1>1. PagingInv => StructuresPrivate
  BY DEF PagingInv
<1> QED
  BY <1>1, PagingInvariance, PTL

(* A call reads and writes entries of paging structures only.              *)
THEOREM WalkCorrect == RootsClean => (PagingSpec => []WalksStructuresOnly)
<1>1. PagingInv => WalksStructuresOnly
  BY TableLevel DEF WalksStructuresOnly
<1> QED
  BY <1>1, PagingInvariance, PTL

(* What the MMU has cached of the structures above the page tables is      *)
(* never out of date, although map_page_specific_pml4 invalidates nothing. *)
THEOREM CachedCorrect == RootsClean => (PagingSpec => CachedEntriesHold)
<1> SUFFICES ASSUME RootsClean PROVE PagingSpec => CachedEntriesHold
  OBVIOUS
<1>1. PagingInv /\ [PagingNext]_pagingVars => [Kept]_pagingVars
  BY PagingStepInv
<1>2. PagingSpec => [][Kept]_pagingVars
  BY <1>1, PagingInvariance, PTL DEF PagingSpec
<1> QED
  BY <1>2 DEF CachedEntriesHold, Kept

-----------------------------------------------------------------------------
(***************************************************************************)
(* The walk of the free list, as get_phys_block would do it.               *)
(***************************************************************************)

NatLess == {p \in Nat \X Nat : p[1] < p[2]}

(* A set of natural numbers has a least one. *)
LEMMA LeastNatural ==
  ASSUME NEW T \in SUBSET Nat, T # {}
  PROVE  \E x \in T : \A y \in T : x <= y
<1>1. IsWellFoundedOn(NatLess, Nat)
  BY NatLessThanWellFounded DEF OpToRel, NatLess
<1>2. PICK x \in T : \A y \in T : <<y, x>> \notin NatLess
  BY <1>1, WFMin
<1>3. ASSUME NEW y \in T
      PROVE  x <= y
  <2>1. x \in Nat /\ y \in Nat
    OBVIOUS
  <2>2. y < x => <<y, x>> \in NatLess
    BY <2>1 DEF NatLess
  <2> QED
    BY <1>2, <2>1, <2>2
<1> QED
  BY <1>3

IsWalk(visit, n) ==
  \A k \in 0 .. n : visit[k] = IF k = 0 THEN first_page_frame ELSE mem[visit[k - 1]][0].addr

(* Each visit of the walk is to the next frame of the list, and the one    *)
(* after the last is to NULL.                                              *)
LEMMA WalkAlongList ==
  ASSUME NEW n \in Nat, NEW s, ListInMemory(s, n), NEW visit, IsWalk(visit, n),
         NEW k \in 0 .. n
  PROVE  visit[k] = IF k = n THEN NULL ELSE s[k + 1]
<1> DEFINE at(j) == IF j = n THEN NULL ELSE s[j + 1]
           Astray == {j \in 0 .. n : visit[j] # at(j)}
<1>1. visit[0] = at(0)
  BY DEF ListInMemory, IsWalk
<1>2. ASSUME NEW j \in 1 .. n, visit[j - 1] = at(j - 1)
      PROVE  visit[j] = at(j)
  <2>1. visit[j] = mem[visit[j - 1]][0].addr
    BY DEF IsWalk
  <2>2. at(j - 1) = s[j]
    OBVIOUS
  <2>3. mem[s[j]][0] = Pointer(at(j))
    BY DEF ListInMemory
  <2> QED
    BY <1>2, <2>1, <2>2, <2>3 DEF Pointer
<1>3. ASSUME Astray # {}
      PROVE  FALSE
  <2>1. PICK j \in Astray : \A i \in Astray : j <= i
    <3>1. Astray \in SUBSET Nat
      OBVIOUS
    <3> HIDE DEF Astray
    <3> QED
      BY <1>3, <3>1, LeastNatural
  <2>2. j # 0 /\ j \in 0 .. n
    BY <1>1
  <2>3. j \in 1 .. n /\ j - 1 \in 0 .. n
    BY <2>2
  <2>4. j - 1 \notin Astray
    <3> HIDE DEF Astray
    <3>1. j - 1 \in Astray => j <= j - 1
      BY <2>1
    <3> QED
      BY <2>3, <3>1
  <2>5. visit[j - 1] = at(j - 1)
    BY <2>3, <2>4
  <2> QED
    BY <1>2, <2>1, <2>3, <2>5
<1> QED
  BY <1>3

LEMMA WalkVisits ==
  ASSUME CountFits, MemInv, phase \in {"up", "exhausted"}
  PROVE  FreeListWalk
<1> DEFINE n == n_free_page_frames
           next(visit, k) == IF k = 0 THEN first_page_frame ELSE mem[visit[k - 1]][0].addr
<1>1. n \in Nat /\ n = Cardinality(FreeSet)
  BY FreeSetFacts DEF MemInv, CountState
<1>2. PICK s \in [1 .. n -> FreeSet] : ListInMemory(s, n) /\ Enumerates(s, n, FreeSet)
  BY <1>1 DEF MemInv, FreeListIntact
<1> HIDE DEF n
<1> DEFINE at == [k \in 0 .. n |-> IF k = n THEN NULL ELSE s[k + 1]]
<1>3. at = [k \in 0 .. n |-> next(at, k)]
  <2>1. ASSUME NEW k \in 0 .. n
        PROVE  at[k] = next(at, k)
    <3>1. CASE k = 0
      BY <1>1, <1>2, <3>1 DEF ListInMemory
    <3>2. CASE k # 0
      <4>1. k \in 1 .. n /\ k - 1 \in 0 .. n /\ k - 1 # n
        BY <1>1, <3>2
      <4>2. at[k - 1] = s[k]
        BY <1>1, <4>1
      <4>3. mem[s[k]][0] = Pointer(at[k])
        BY <1>2, <4>1 DEF ListInMemory
      <4> QED
        BY <3>2, <4>2, <4>3 DEF Pointer
    <3> QED
      BY <3>1, <3>2
  <2> QED
    BY <2>1
<1> DEFINE visit == CHOOSE f : f = [k \in 0 .. n |-> next(f, k)]
<1>4. visit = [k \in 0 .. n |-> next(visit, k)]
  BY <1>3
<1> HIDE DEF visit, at
<1>5. \A k \in 0 .. n : visit[k] = IF k = n THEN NULL ELSE s[k + 1]
  <2>1. IsWalk(visit, n)
    BY <1>4 DEF IsWalk
  <2> QED
    BY <1>1, <1>2, <2>1, WalkAlongList
<1>6. {visit[k] : k \in 0 .. n} = FreeSet \cup {NULL}
  <2>1. ASSUME NEW k \in 0 .. n
        PROVE  visit[k] \in FreeSet \cup {NULL}
    BY <1>1, <1>5
  <2>2. ASSUME NEW f \in FreeSet
        PROVE  \E k \in 0 .. n : visit[k] = f
    <3>1. PICK k \in 1 .. n : s[k] = f
      BY <1>2 DEF Enumerates
    <3>2. k - 1 \in 0 .. n /\ k - 1 # n /\ (k - 1) + 1 = k
      BY <1>1
    <3> QED
      BY <1>5, <3>1, <3>2
  <2>3. visit[n] = NULL /\ n \in 0 .. n
    BY <1>1, <1>5
  <2> QED
    BY <2>1, <2>2, <2>3
<1> QED
  BY <1>1, <1>6 DEF FreeListWalk, visit, n

(* However much of the free memory has become paging structures, and       *)
(* whatever was written in them, a caller of get_phys_block would still    *)
(* be given every free frame, and nothing but free frames; with CountFits, *)
(* as many of them as the count says.                                      *)
THEOREM FreeListWalkCorrect == CountFits /\ RootsClean => (PagingSpec => []FreeListWalk)
<1> SUFFICES ASSUME CountFits, RootsClean PROVE PagingSpec => []FreeListWalk
  OBVIOUS
<1>1. PagingInv => FreeListWalk
  BY WalkVisits DEF PagingInv, FreeListWalk
<1> QED
  BY <1>1, PagingInvariance, PTL

==============================================================================
