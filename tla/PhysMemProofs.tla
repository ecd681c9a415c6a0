---------------------------- MODULE PhysMemProofs ----------------------------
(***************************************************************************)
(* Proofs about the physical memory manager, for every memory map, every   *)
(* initial content of RAM and every word the clients store.                *)
(*                                                                         *)
(* FreeListIntact is inductive only together with the types and with what  *)
(* the scan of the memory map has done so far (ScanState): pushing a frame *)
(* is sound because the entries already scanned, and the pages of this one *)
(* below b_offset, are exactly the frames on the list.  Nothing the list   *)
(* does depends on the count; CountState follows it beside the list.       *)
(***************************************************************************)
EXTENDS PhysMem, FiniteSetTheorems, TLAPS

(* What is known of the scan's variables in each phase. *)
ScanState ==
  /\ phase \in {"boot", "no_memmap", "scan"} => held = {}
  /\ phase \in {"boot", "no_memmap"} =>
       entry = 1 /\ b_offset = 0 /\ ret = 0 /\ first_page_frame = NULL
  /\ phase \in {"up", "exhausted"} => entry = Len(Memmap) + 1
  /\ phase = "exhausted" => first_page_frame = NULL
  /\ entry \in UsableEntry => b_offset <= Memmap[entry].length

Congruent(a, b) == \E k \in Int : a = b + k * IntRange

(* What is known of the count: find_free_frames counts its frames exactly, *)
(* and what becomes of its count is right up to the range of an int.       *)
CountState ==
  /\ phase \in {"boot", "scan", "no_memmap"} => ret = Cardinality(FreeSet)
  /\ phase \in {"up", "exhausted"} =>
       /\ Congruent(n_free_page_frames, Cardinality(FreeSet))
       /\ CountFits => n_free_page_frames = Cardinality(FreeSet)

MemInv == MemTypeOK /\ ScanState /\ FreeListIntact /\ CountState

-----------------------------------------------------------------------------
(* Facts about the constants.                                              *)

LEMMA FrameFacts ==
  /\ Frame \subseteq Page
  /\ NULL \notin Frame
  /\ IsFiniteSet(Frame)
  /\ Cardinality(Frame) \in Nat
<1>1. Frame \subseteq Page /\ NULL \notin Frame
  BY MemmapAssumption
<1>2. IsFiniteSet(Frame)
  BY <1>1, PageAssumption, FS_Subset
<1> QED
  BY <1>1, <1>2, FS_CardinalityType

LEMMA MemmapFacts ==
  /\ Len(Memmap) \in Nat /\ DOMAIN Memmap = 1 .. Len(Memmap)
  /\ UsableEntry \subseteq 1 .. Len(Memmap)
  /\ \A e \in DOMAIN Memmap : Memmap[e].base \in Nat /\ Memmap[e].length \in Nat
<1> DEFINE Entry == [base : Nat, length : Nat, type : STRING]
<1>1. Memmap \in Seq(Entry)
  BY MemmapAssumption
<1> HIDE DEF Entry
<1>2. Len(Memmap) \in Nat /\ DOMAIN Memmap = 1 .. Len(Memmap)
  BY <1>1
<1>3. \A e \in DOMAIN Memmap : Memmap[e] \in Entry
  BY <1>1
<1>4. \A r \in Entry : r.base \in Nat /\ r.length \in Nat
  BY DEF Entry
<1> QED
  BY <1>2, <1>3, <1>4 DEF UsableEntry

LEMMA PointerFacts ==
  /\ \A p \in Page : Pointer(p) \in Word
  /\ \A p : Pointer(p).addr = p
BY DEF Pointer, Word

(* Writing a marker word keeps memory a function to words.                 *)
LEMMA SetMarkerType ==
  ASSUME mem \in [Page -> [Index -> Word]], first_page_frame \in Page,
         NEW b \in Page, SetMarker(b, first_page_frame)
  PROVE  mem' \in [Page -> [Index -> Word]]
BY PageAssumption, PointerFacts DEF SetMarker

(* Once every entry has been scanned, every usable frame has been pushed.  *)
LEMMA AddedAll == entry = Len(Memmap) + 1 => Added = Frame
<1> SUFFICES ASSUME entry = Len(Memmap) + 1, NEW f \in Frame
             PROVE  \E e \in UsableEntry : e < entry /\ f \in PagesOf(e)
  BY DEF Added
<1>1. PICK e \in UsableEntry : f \in PagesOf(e)
  BY DEF Frame
<1> QED
  BY <1>1, MemmapFacts

-----------------------------------------------------------------------------
(* The two list operations.                                                *)

(* Writing the address of the head into a frame that is not on the list,   *)
(* and making it the head, puts it on the list (find_free_frames and       *)
(* put_phys_block).                                                        *)
LEMMA Prepend ==
  ASSUME MemTypeOK,
         NEW CONSTANT n \in Nat, NEW CONSTANT S \in SUBSET Frame,
         NEW CONSTANT s \in [1 .. n -> S],
         ListInMemory(s, n), Enumerates(s, n, S),
         NEW CONSTANT b \in Frame, b \notin S,
         SetMarker(b, first_page_frame), first_page_frame' = b
  PROVE  \E t \in [1 .. n + 1 -> S \cup {b}] :
            ListInMemory(t, n + 1)' /\ Enumerates(t, n + 1, S \cup {b})
<1> DEFINE t == [k \in 1 .. n + 1 |-> IF k = 1 THEN b ELSE s[k - 1]]
<1>1. /\ mem[b] \in [Index -> Word] /\ b \in Page
      /\ mem' = [mem EXCEPT ![b][0] = Pointer(first_page_frame)]
  BY FrameFacts DEF MemTypeOK, SetMarker
<1>2. mem'[b][0] = Pointer(first_page_frame)
  BY <1>1, PageAssumption DEF MemTypeOK
<1>3. \A f \in S : mem'[f] = mem[f]
  BY <1>1, FrameFacts DEF MemTypeOK
<1>4. t \in [1 .. n + 1 -> S \cup {b}]
  OBVIOUS
<1>5. t[1] = b /\ \A k \in 2 .. n + 1 : t[k] = s[k - 1] /\ k - 1 \in 1 .. n
  OBVIOUS
<1>6. \A k \in 1 .. n : t[k + 1] = s[k] /\ k + 1 \in 2 .. n + 1
  OBVIOUS
<1> HIDE DEF t
<1>7. \A k \in 1 .. n + 1 :
         mem'[t[k]][0] = Pointer(IF k = n + 1 THEN NULL ELSE t[k + 1])
  <2> SUFFICES ASSUME NEW k \in 1 .. n + 1
               PROVE  mem'[t[k]][0] = Pointer(IF k = n + 1 THEN NULL ELSE t[k + 1])
    OBVIOUS
  <2>1. CASE k = 1
    <3>1. first_page_frame = IF k = n + 1 THEN NULL ELSE t[k + 1]
      BY <2>1, <1>6 DEF ListInMemory
    <3> QED
      BY <2>1, <3>1, <1>2, <1>5
  <2>2. CASE k \in 2 .. n + 1
    <3>1. t[k] = s[k - 1] /\ k - 1 \in 1 .. n /\ s[k - 1] \in S
      BY <2>2, <1>5
    <3>2. mem'[t[k]][0] = Pointer(IF k - 1 = n THEN NULL ELSE s[k])
      BY <3>1, <1>3 DEF ListInMemory
    <3>3. k # n + 1 => s[k] = t[k + 1]
      BY <2>2, <1>6
    <3> QED
      BY <3>2, <3>3, <2>2
  <2> QED
    BY <2>1, <2>2
<1>8. ListInMemory(t, n + 1)'
  BY <1>5, <1>7 DEF ListInMemory
<1>9. Enumerates(t, n + 1, S \cup {b})
  <2>1. \A f \in S \cup {b} : \E k \in 1 .. n + 1 : t[k] = f
    BY <1>5, <1>6 DEF Enumerates
  <2>2. ASSUME NEW j \in 1 .. n + 1, NEW k \in 1 .. n + 1, t[j] = t[k]
        PROVE  j = k
    <3>1. \A i \in 2 .. n + 1 : t[i] = s[i - 1] /\ i - 1 \in 1 .. n /\ t[i] \in S
      BY <1>5
    <3>2. j = 1 <=> k = 1
      BY <1>5, <2>2, <3>1
    <3>3. ASSUME j # 1, k # 1 PROVE j - 1 = k - 1
      <4>1. j \in 2 .. n + 1 /\ k \in 2 .. n + 1
        BY <3>3
      <4>2. s[j - 1] = s[k - 1] /\ j - 1 \in 1 .. n /\ k - 1 \in 1 .. n
        BY <4>1, <3>1, <2>2
      <4> QED
        BY <4>2 DEF Enumerates
    <3> QED
      BY <3>2, <3>3
  <2> QED
    BY <2>1, <2>2 DEF Enumerates
<1> QED
  BY <1>4, <1>8, <1>9

(* Making the second frame the head takes the first one off the list, and  *)
(* no other (get_phys_block).                                              *)
LEMMA Unlink ==
  ASSUME NEW CONSTANT n \in Nat, NEW CONSTANT S \in SUBSET Frame,
         NEW CONSTANT s \in [1 .. n -> S],
         ListInMemory(s, n), Enumerates(s, n, S),
         first_page_frame # NULL,
         mem' = mem, first_page_frame' = Marker(first_page_frame)
  PROVE  /\ n > 0
         /\ first_page_frame \in S
         /\ \E t \in [1 .. n - 1 -> S \ {first_page_frame}] :
              /\ ListInMemory(t, n - 1)'
              /\ Enumerates(t, n - 1, S \ {first_page_frame})
<1> DEFINE t == [k \in 1 .. n - 1 |-> s[k + 1]]
<1>1. n > 0 /\ s[1] = first_page_frame /\ s[1] \in S
  BY DEF ListInMemory
<1>2. \A k \in 1 .. n - 1 : t[k] = s[k + 1] /\ k + 1 \in 2 .. n
  BY <1>1
<1>3. t \in [1 .. n - 1 -> S \ {s[1]}]
  BY <1>1 DEF Enumerates
<1> HIDE DEF t
<1>4. ListInMemory(t, n - 1)'
  <2>1. first_page_frame' = IF n - 1 = 0 THEN NULL ELSE t[1]
    BY <1>1, <1>2, PointerFacts DEF ListInMemory, Marker
  <2>2. ASSUME NEW k \in 1 .. n - 1
        PROVE  mem'[t[k]][0] = Pointer(IF k = n - 1 THEN NULL ELSE t[k + 1])
    <3>1. mem'[t[k]][0] = Pointer(IF k + 1 = n THEN NULL ELSE s[k + 2])
      BY <1>1, <1>2 DEF ListInMemory
    <3>2. k # n - 1 => s[k + 2] = t[k + 1]
      BY <1>1, <1>2
    <3> QED
      BY <3>1, <3>2, <1>1
  <2> QED
    BY <2>1, <2>2 DEF ListInMemory
<1>5. Enumerates(t, n - 1, S \ {s[1]})
  <2>1. ASSUME NEW f \in S \ {s[1]}
        PROVE  \E k \in 1 .. n - 1 : t[k] = f
    <3>1. PICK j \in 1 .. n : s[j] = f
      BY DEF Enumerates
    <3>2. j \in 2 .. n
      BY <3>1, <1>1
    <3>3. j - 1 \in 1 .. n - 1 /\ (j - 1) + 1 = j
      BY <3>2
    <3>4. t[j - 1] = f
      BY <3>1, <3>3, <1>2
    <3> QED
      BY <3>3, <3>4
  <2>2. ASSUME NEW j \in 1 .. n - 1, NEW k \in 1 .. n - 1, t[j] = t[k]
        PROVE  j = k
    BY <1>1, <1>2, <2>2 DEF Enumerates
  <2> QED
    BY <2>1, <2>2 DEF Enumerates
<1> QED
  BY <1>1, <1>3, <1>4, <1>5

(* A step that keeps the head and the marker words of the free frames      *)
(* keeps the list.                                                         *)
LEMMA Undisturbed ==
  ASSUME FreeListIntact, FreeSet' = FreeSet,
         first_page_frame' = first_page_frame,
         \A f \in FreeSet : mem'[f][0] = mem[f][0]
  PROVE  FreeListIntact'
<1>1. PICK n : n = Cardinality(FreeSet)
  OBVIOUS
<1>2. PICK s \in [1 .. n -> FreeSet] : ListInMemory(s, n) /\ Enumerates(s, n, FreeSet)
  BY <1>1 DEF FreeListIntact
<1>3. ListInMemory(s, n)'
  BY <1>2 DEF ListInMemory
<1>4. Enumerates(s, n, FreeSet')
  BY <1>2
<1>5. n = Cardinality(FreeSet')
  BY <1>1
<1> QED
  BY <1>2, <1>3, <1>4, <1>5 DEF FreeListIntact

-----------------------------------------------------------------------------
(* The arithmetic of the count.                                            *)

LEMMA RangeFacts ==
  /\ IntRange \in Nat \ {0}
  /\ \E m \in Nat : ULONG_MAX + 1 = m * IntRange
<1>1. IntRange \in Nat \ {0} /\ INT_MAX \in Nat /\ ULONG_MAX + 1 \in Nat
  BY WidthAssumption DEF IntRange
<1>2. \A a, c \in Nat : c # 0 /\ a % c = 0 => a \div c \in Nat /\ a = (a \div c) * c
  OBVIOUS
<1> QED
  BY <1>1, <1>2, WidthAssumption

LEMMA CongruentRefl == ASSUME NEW a \in Int PROVE Congruent(a, a)
<1>1. a = a + 0 * IntRange
  BY RangeFacts
<1> QED
  BY <1>1 DEF Congruent

(* Division with remainder has one remainder.                              *)
LEMMA OneRemainder ==
  ASSUME NEW c \in Nat \ {0}, NEW p \in Int, NEW q \in Int,
         NEW r \in 0 .. c - 1, NEW s \in 0 .. c - 1, p * c + r = q * c + s
  PROVE  r = s
<1>1. PICK d \in Int : d = p - q
  OBVIOUS
<1>2. d * c = s - r
  <2>1. d * c = p * c - q * c
    BY <1>1
  <2>2. p * c \in Int /\ q * c \in Int
    OBVIOUS
  <2> QED
    BY <2>1, <2>2
<1>3. d >= 1 => d * c >= c
  OBVIOUS
<1>4. d <= -1 => d * c <= -c
  OBVIOUS
<1>5. d = 0
  BY <1>2, <1>3, <1>4
<1> QED
  BY <1>2, <1>5

(* Numbers that agree up to the range of an int agree modulo it.           *)
LEMMA CongruentMod ==
  ASSUME NEW a \in Int, NEW b \in Int, Congruent(a, b)
  PROVE  a % IntRange = b % IntRange
<1>1. PICK k \in Int : a = b + k * IntRange
  BY DEF Congruent
<1>2. PICK c \in Nat \ {0} : c = IntRange
  BY RangeFacts
<1>3. \A x \in Int : x = (x \div c) * c + (x % c) /\ x \div c \in Int /\ x % c \in 0 .. c - 1
  OBVIOUS
<1>4. PICK p \in Int, r \in 0 .. c - 1 : a = p * c + r /\ r = a % c
  BY <1>3
<1>5. PICK q \in Int, s \in 0 .. c - 1 : b = q * c + s /\ s = b % c
  BY <1>3
<1>6. p * c + r = (q + k) * c + s
  <2>1. (q + k) * c = q * c + k * c
    OBVIOUS
  <2>2. q * c \in Int /\ k * c \in Int /\ p * c \in Int
    OBVIOUS
  <2> QED
    BY <1>1, <1>2, <1>4, <1>5, <2>1, <2>2
<1>7. r = s
  <2>1. q + k \in Int
    OBVIOUS
  <2> QED
    BY <1>6, <2>1, OneRemainder
<1> QED
  BY <1>2, <1>4, <1>5, <1>7

(* An unsigned long that wraps keeps its value up to the range of an int.  *)
LEMMA CongruentWraps ==
  ASSUME NEW a \in Int, NEW b \in Int, Congruent(a, b)
  PROVE  /\ Congruent(a + 1, b + 1) /\ Congruent(a - 1, b - 1)
         /\ Congruent(a + (ULONG_MAX + 1), b) /\ Congruent(a - (ULONG_MAX + 1), b)
<1>1. PICK k \in Int : a = b + k * IntRange
  BY DEF Congruent
<1>2. PICK m \in Nat : ULONG_MAX + 1 = m * IntRange
  BY RangeFacts
<1>3. PICK c \in Nat : c = IntRange
  BY RangeFacts
<1>4. /\ a + 1 = (b + 1) + k * c /\ a - 1 = (b - 1) + k * c
  BY <1>1, <1>3
<1>5. /\ a + m * c = b + (k + m) * c /\ a - m * c = b + (k - m) * c
  BY <1>1, <1>3
<1>6. k + m \in Int /\ k - m \in Int
  OBVIOUS
<1> QED
  BY <1>2, <1>3, <1>4, <1>5, <1>6 DEF Congruent

(* One more and one less, of an unsigned long. *)
LEMMA CountMoves ==
  ASSUME NEW a \in 0 .. ULONG_MAX, NEW b \in Int, Congruent(a, b)
  PROVE  /\ Incremented(a) \in 0 .. ULONG_MAX /\ Congruent(Incremented(a), b + 1)
         /\ Decremented(a) \in 0 .. ULONG_MAX /\ Congruent(Decremented(a), b - 1)
<1>1. ULONG_MAX \in Nat /\ a \in Int
  BY WidthAssumption
<1>2. Congruent(a + 1, b + 1) /\ Congruent(a - 1, b - 1)
  BY <1>1, CongruentWraps
<1>3. Congruent((a + 1) - (ULONG_MAX + 1), b + 1)
  BY <1>1, <1>2, CongruentWraps
<1>4. Congruent((a - 1) + (ULONG_MAX + 1), b - 1)
  BY <1>1, <1>2, CongruentWraps
<1>5. CASE a = ULONG_MAX
  <2>1. Incremented(a) = (a + 1) - (ULONG_MAX + 1)
    BY <1>1, <1>5 DEF Incremented
  <2> QED
    BY <1>1, <1>2, <1>3, <1>4, <2>1 DEF Incremented, Decremented
<1>6. CASE a # ULONG_MAX
  BY <1>1, <1>2, <1>4, <1>6 DEF Incremented, Decremented
<1> QED
  BY <1>5, <1>6

(* The int that carries the count out of find_free_frames loses nothing    *)
(* that fits it, and a multiple of its range of what does not.             *)
LEMMA ThroughIntIs ==
  ASSUME NEW n \in Nat
  PROVE  /\ ThroughInt(n) \in 0 .. ULONG_MAX
         /\ Congruent(ThroughInt(n), n)
         /\ n <= INT_MAX => ThroughInt(n) = n
<1> DEFINE half == INT_MAX + 1
           int == ((n + INT_MAX + 1) % IntRange) - half
           U == ULONG_MAX + 1
<1>1. half \in Nat \ {0} /\ IntRange = 2 * half /\ U \in Nat \ {0}
  BY WidthAssumption DEF IntRange
<1>2. INT_MAX \in Nat /\ n + INT_MAX + 1 = n + half
  BY WidthAssumption
<1>3. ThroughInt(n) = int % U
  BY <1>2 DEF ThroughInt
<1>4. PICK q \in Int : n + half = q * IntRange + ((n + half) % IntRange)
  <2>1. \A x \in Nat, c \in Nat \ {0} : x = (x \div c) * c + (x % c) /\ x \div c \in Int
    OBVIOUS
  <2>2. n + half \in Nat /\ IntRange \in Nat \ {0}
    BY <1>1
  <2> HIDE DEF half
  <2> QED
    BY <2>1, <2>2
<1>5. int \in Int /\ int = n - q * IntRange
  <2>1. (n + half) % IntRange \in Int
    BY <1>1
  <2>2. q * IntRange \in Int
    BY <1>1
  <2> HIDE DEF half
  <2> QED
    BY <1>1, <1>2, <1>4, <2>1, <2>2
<1>6. Congruent(int, n)
  <2>1. int = n + (0 - q) * IntRange /\ 0 - q \in Int
    <3> HIDE DEF int
    <3> QED
      BY <1>1, <1>5
  <2> QED
    BY <2>1 DEF Congruent
<1> HIDE DEF int, half, U
<1>7. int % U \in 0 .. U - 1
  BY <1>1, <1>5
<1>8. PICK p \in Int : int = p * U + (int % U)
  <2>1. \A x \in Int, c \in Nat \ {0} : x = (x \div c) * c + (x % c) /\ x \div c \in Int
    OBVIOUS
  <2> QED
    BY <2>1, <1>1, <1>5
<1>9. Congruent(int % U, n)
  <2>1. PICK m \in Nat : U = m * IntRange
    BY RangeFacts DEF U
  <2>2. PICK k \in Int : int = n + k * IntRange
    BY <1>6 DEF Congruent
  <2>3. PICK r \in Int : r = int % U
    BY <1>1, <1>7
  <2>4. PICK c \in Nat : c = IntRange
    BY RangeFacts
  <2>5. p * U = (p * m) * c /\ p * m \in Int
    BY <2>1, <2>4
  <2>6. r = n + (k - p * m) * c
    <3>1. r = n + k * c - (p * m) * c
      BY <1>8, <2>2, <2>3, <2>4, <2>5
    <3>2. \A i, j \in Int : i * c - j * c = (i - j) * c
      BY <2>4
    <3>3. k * c \in Int /\ (p * m) * c \in Int
      BY <2>4, <2>5
    <3>4. k * c - (p * m) * c = (k - p * m) * c
      BY <2>5, <3>2
    <3> QED
      BY <3>1, <3>3, <3>4
  <2> QED
    BY <2>3, <2>4, <2>5, <2>6 DEF Congruent
<1>10. ASSUME n <= INT_MAX
       PROVE  int % U = n
  <2>1. n + half \in 0 .. IntRange - 1
    BY <1>1, <1>2, <1>10 DEF half
  <2>2. \A x \in Nat, c \in Nat \ {0} : x < c => x % c = x
    OBVIOUS
  <2>3. (n + half) % IntRange = n + half
    BY <1>1, <2>1, <2>2
  <2>4. int = n
    BY <1>1, <1>2, <2>3 DEF int
  <2>5. n < U
    <3>1. PICK m \in Nat : U = m * IntRange
      BY RangeFacts DEF U
    <3>2. m # 0
      BY <1>1, <3>1
    <3>3. \A i \in Nat \ {0}, c \in Nat : i * c >= c
      OBVIOUS
    <3>4. U >= IntRange
      BY <1>1, <3>1, <3>2, <3>3
    <3> QED
      BY <1>1, <2>1, <3>4
  <2> QED
    BY <1>1, <2>2, <2>4, <2>5
<1> QED
  BY <1>3, <1>7, <1>9, <1>10, WidthAssumption DEF U

-----------------------------------------------------------------------------
(* The initial states, and one lemma per action.                           *)

LEMMA FreeSetFacts ==
  /\ FreeSet \in SUBSET Frame
  /\ Cardinality(FreeSet) \in Nat
  /\ Cardinality(FreeSet) <= Cardinality(Frame)
<1>1. FreeSet \in SUBSET Frame
  BY DEF FreeSet, Added
<1> QED
  BY <1>1, FrameFacts, FS_Subset, FS_CardinalityType

(* One frame more, or one less, on the list. *)
LEMMA FreeSetMoves ==
  ASSUME NEW f \in Frame
  PROVE  /\ f \notin FreeSet =>
              /\ Cardinality(FreeSet \cup {f}) = Cardinality(FreeSet) + 1
              /\ Cardinality(FreeSet) < Cardinality(Frame)
         /\ f \in FreeSet => Cardinality(FreeSet \ {f}) = Cardinality(FreeSet) - 1
<1>1. IsFiniteSet(FreeSet)
  BY FreeSetFacts, FrameFacts, FS_Subset
<1>2. f \notin FreeSet => Cardinality(FreeSet \cup {f}) = Cardinality(FreeSet) + 1
  BY <1>1, FS_AddElement
<1>3. Cardinality(FreeSet \cup {f}) <= Cardinality(Frame)
  <2>1. FreeSet \cup {f} \in SUBSET Frame
    BY FreeSetFacts
  <2> QED
    BY <2>1, FrameFacts, FS_Subset
<1>4. f \in FreeSet => Cardinality(FreeSet \ {f}) = Cardinality(FreeSet) - 1
  BY <1>1, FS_RemoveElement
<1> QED
  BY <1>2, <1>3, <1>4, FreeSetFacts, FrameFacts

LEMMA InitInv == MemStart => MemInv
<1> SUFFICES ASSUME MemStart PROVE MemInv
  OBVIOUS
<1>1. MemTypeOK
  BY PageAssumption, MemmapFacts, WidthAssumption DEF MemStart, MemTypeOK, Halted
<1>2. ScanState
  BY MemmapFacts DEF MemStart, ScanState
<1>3. FreeSet = {}
  <2>1. ASSUME NEW f \in Added PROVE FALSE
    <3>1. \A e \in UsableEntry : ~ e < entry
      BY MemmapFacts DEF MemStart
    <3>2. entry \in UsableEntry /\ f \in Memmap[entry].base .. Memmap[entry].base + b_offset - 1
      BY <2>1, <3>1 DEF Added
    <3>3. Memmap[entry].base \in Nat /\ b_offset = 0
      BY <3>2, MemmapFacts DEF MemStart
    <3> QED
      BY <3>2, <3>3
  <2> QED
    BY <2>1 DEF FreeSet
<1>4. Cardinality(FreeSet) = 0
  BY <1>3, FS_EmptySet
<1>5. FreeListIntact
  <2> DEFINE s == [k \in 1 .. 0 |-> NULL]
  <2>1. s \in [1 .. 0 -> {}]
    OBVIOUS
  <2>2. ListInMemory(s, 0) /\ Enumerates(s, 0, {})
    BY DEF MemStart, ListInMemory, Enumerates
  <2> QED
    BY <2>1, <2>2, <1>3, <1>4 DEF FreeListIntact
<1>6. CountState
  BY <1>4 DEF MemStart, CountState
<1> QED
  BY <1>1, <1>2, <1>5, <1>6 DEF MemInv

(* Prepend, in terms of the invariant. *)
LEMMA ListGrows ==
  ASSUME MemInv, NEW CONSTANT b \in Frame, b \notin FreeSet,
         SetMarker(b, first_page_frame), first_page_frame' = b,
         FreeSet' = FreeSet \cup {b}
  PROVE  FreeListIntact'
<1>1. PICK n \in Nat : n = Cardinality(FreeSet)
  BY FreeSetFacts
<1>2. PICK S \in SUBSET Frame : S = FreeSet
  BY FreeSetFacts
<1>3. PICK s \in [1 .. n -> S] : ListInMemory(s, n) /\ Enumerates(s, n, S)
  BY <1>1, <1>2 DEF MemInv, FreeListIntact
<1>4. \E t \in [1 .. n + 1 -> S \cup {b}] :
         ListInMemory(t, n + 1)' /\ Enumerates(t, n + 1, S \cup {b})
  BY <1>2, <1>3, Prepend DEF MemInv
<1>5. FreeSet' = S \cup {b} /\ Cardinality(FreeSet') = n + 1
  BY <1>1, <1>2, FreeSetMoves
<1> QED
  BY <1>4, <1>5 DEF FreeListIntact

LEMMA MemInitInv ==
  ASSUME MemInv, NEW answered \in BOOLEAN, MemInit(answered)
  PROVE  MemInv'
<1>1. MemTypeOK'
  BY PageAssumption DEF MemInv, MemTypeOK, MemInit, scanVars, Halted
<1>2. ScanState'
  BY DEF MemInv, ScanState, MemInit, scanVars
<1>3. FreeListIntact'
  <2>1. FreeSet' = FreeSet
    BY DEF MemInit, FreeSet, Added, scanVars
  <2>2. first_page_frame' = first_page_frame
    BY DEF MemInit, MemInv, ScanState
  <2> QED
    BY <2>1, <2>2, Undisturbed DEF MemInit, MemInv
<1>4. CountState'
  <2>1. FreeSet' = FreeSet
    BY DEF MemInit, FreeSet, Added, scanVars
  <2> QED
    BY <2>1 DEF MemInit, scanVars, MemInv, CountState
<1> QED
  BY <1>1, <1>2, <1>3, <1>4 DEF MemInv

LEMMA PushFrameInv ==
  ASSUME MemInv, PushFrame
  PROVE  /\ MemInv'
         /\ \E f \in Frame \ FreeSet : FreeSet' = FreeSet \cup {f}
<1> DEFINE f == Memmap[entry].base + b_offset
<1>1. /\ phase = "scan" /\ entry \in UsableEntry /\ held = {}
      /\ Memmap[entry].base \in Nat /\ Memmap[entry].length \in Nat
      /\ b_offset \in Nat /\ b_offset < Memmap[entry].length
      /\ ret = Cardinality(FreeSet) /\ ret \in Nat
  BY MemmapFacts, WidthAssumption
     DEF MemInv, MemTypeOK, ScanState, CountState, PushFrame, Scanning
<1>2. f \in PagesOf(entry) /\ f \in Frame
  BY <1>1 DEF PagesOf, Frame
<1>3. f \notin Added
  <2>1. f \notin Memmap[entry].base .. Memmap[entry].base + b_offset - 1
    BY <1>1
  <2>2. \A e \in UsableEntry : e < entry => f \notin PagesOf(e)
    <3> SUFFICES ASSUME NEW e \in UsableEntry, e < entry PROVE f \notin PagesOf(e)
      OBVIOUS
    <3>1. e # entry
      BY MemmapFacts, <1>1
    <3> QED
      BY <3>1, <1>1, <1>2, MemmapAssumption
  <2> QED
    BY <2>1, <2>2 DEF Added
<1>4. FreeSet' = FreeSet \cup {f}
  <2>1. Added' = Added \cup {f}
    <3>1. /\ entry' = entry /\ b_offset' = b_offset + 1
          /\ Memmap[entry].base .. Memmap[entry].base + (b_offset + 1) - 1
               = (Memmap[entry].base .. Memmap[entry].base + b_offset - 1) \cup {f}
      BY <1>1 DEF PushFrame
    <3> QED
      BY <3>1, <1>1, <1>2 DEF Added
  <2> QED
    BY <2>1, <1>1 DEF FreeSet, PushFrame
<1>5. f \notin FreeSet
  BY <1>3 DEF FreeSet
<1>6. ret < Cardinality(Frame)
  BY <1>1, <1>2, <1>5, FreeSetMoves
<1>7. ret' = ret + 1
  BY <1>1, <1>6, FrameFacts, WidthAssumption DEF PushFrame, Incremented
<1>8. FreeListIntact'
  <2>1. PICK b \in Frame : b = f
    BY <1>2
  <2> QED
    BY <2>1, <1>4, <1>5, ListGrows DEF PushFrame, Push
<1>9. MemTypeOK'
  <2>1. mem' \in [Page -> [Index -> Word]]
    BY <1>2, FrameFacts, SetMarkerType DEF MemInv, MemTypeOK, PushFrame, Push
  <2>2. ret' \in 0 .. ULONG_MAX
    BY <1>1, <1>6, <1>7, FrameFacts, WidthAssumption
  <2>3. first_page_frame' \in Page /\ b_offset' \in Nat
    BY <1>1, <1>2, FrameFacts DEF PushFrame, Push
  <2> QED
    BY <2>1, <2>2, <2>3 DEF MemInv, MemTypeOK, PushFrame
<1>10. ScanState'
  BY <1>1 DEF MemInv, ScanState, PushFrame
<1>11. CountState'
  <2>1. ret' = Cardinality(FreeSet')
    BY <1>1, <1>2, <1>4, <1>5, <1>7, FreeSetMoves
  <2> QED
    BY <2>1, <1>1 DEF CountState, PushFrame
<1> QED
  BY <1>2, <1>4, <1>5, <1>8, <1>9, <1>10, <1>11 DEF MemInv

LEMMA NextEntryInv ==
  ASSUME MemInv, NextEntry
  PROVE  MemInv' /\ FreeSet' = FreeSet
<1>1. /\ phase = "scan" /\ phase' = phase /\ entry' = entry + 1 /\ b_offset' = 0
      /\ entry \in 1 .. Len(Memmap) /\ b_offset \in Nat
      /\ held' = held /\ ret' = ret /\ mem' = mem
      /\ first_page_frame' = first_page_frame
  BY MemmapFacts DEF MemInv, MemTypeOK, NextEntry, Scanning
<1>2. entry \in UsableEntry => b_offset = Memmap[entry].length
  BY <1>1, MemmapFacts DEF MemInv, ScanState, NextEntry
<1>3. Added' = Added
  <2>1. entry \in UsableEntry =>
          Memmap[entry].base .. Memmap[entry].base + b_offset - 1 = PagesOf(entry)
    BY <1>2 DEF PagesOf
  <2>2. \A e \in UsableEntry : e < entry + 1 <=> e < entry \/ e = entry
    BY <1>1, MemmapFacts
  <2>3. entry + 1 \in UsableEntry =>
          Memmap[entry + 1].base .. Memmap[entry + 1].base + 0 - 1 = {}
    BY MemmapFacts DEF UsableEntry
  <2> QED
    BY <2>1, <2>2, <2>3, <1>1 DEF Added
<1>4. FreeSet' = FreeSet
  BY <1>1, <1>3 DEF FreeSet
<1>5. FreeListIntact'
  BY <1>1, <1>4, Undisturbed DEF MemInv
<1>6. MemTypeOK'
  BY <1>1, MemmapFacts DEF MemInv, MemTypeOK, NextEntry
<1>7. ScanState'
  BY <1>1, MemmapFacts DEF MemInv, ScanState
<1>8. CountState'
  BY <1>1, <1>4 DEF MemInv, CountState
<1> QED
  BY <1>4, <1>5, <1>6, <1>7, <1>8 DEF MemInv

LEMMA ScanDoneInv ==
  ASSUME MemInv, ScanDone
  PROVE  MemInv'
<1>1. ret = Cardinality(FreeSet) /\ ret \in Nat /\ ret <= Cardinality(Frame)
  BY FreeSetFacts DEF ScanDone, MemInv, CountState
<1>2. /\ n_free_page_frames' \in 0 .. ULONG_MAX
      /\ Congruent(n_free_page_frames', ret)
      /\ ret <= INT_MAX => n_free_page_frames' = ret
  BY <1>1, ThroughIntIs DEF ScanDone
<1>3. FreeSet' = FreeSet
  BY DEF ScanDone, scanVars, FreeSet, Added
<1>4. FreeListIntact'
  BY <1>3, Undisturbed DEF MemInv, ScanDone
<1>5. MemTypeOK'
  BY <1>2 DEF MemInv, MemTypeOK, ScanDone, scanVars
<1>6. ScanState'
  BY DEF MemInv, ScanState, ScanDone, scanVars
<1>7. CountState'
  <2>1. CountFits => ret <= INT_MAX
    BY <1>1, FrameFacts, WidthAssumption DEF CountFits
  <2> QED
    BY <1>1, <1>2, <1>3, <2>1 DEF ScanDone, CountState
<1> QED
  BY <1>4, <1>5, <1>6, <1>7 DEF MemInv

LEMMA GetPhysBlockInv ==
  ASSUME MemInv, GetPhysBlock
  PROVE  /\ MemInv'
         /\ first_page_frame \in FreeSet
         /\ FreeSet' = FreeSet \ {first_page_frame}
<1>1. PICK n \in Nat : n = Cardinality(FreeSet)
  BY FreeSetFacts
<1>2. PICK S \in SUBSET Frame : S = FreeSet
  BY FreeSetFacts
<1>3. PICK s \in [1 .. n -> S] : ListInMemory(s, n) /\ Enumerates(s, n, S)
  BY <1>1, <1>2 DEF MemInv, FreeListIntact
<1>4. PICK b : b = first_page_frame
  OBVIOUS
<1>5. /\ n > 0 /\ b \in S
      /\ \E t \in [1 .. n - 1 -> S \ {b}] :
           ListInMemory(t, n - 1)' /\ Enumerates(t, n - 1, S \ {b})
  BY <1>3, <1>4, Unlink DEF GetPhysBlock, BlockLeft, SecondFrame
<1>6. FreeSet' = S \ {b}
  BY <1>2, <1>4 DEF GetPhysBlock, scanVars, FreeSet, Added
<1>7. Cardinality(FreeSet') = n - 1
  BY <1>1, <1>2, <1>5, <1>6, FreeSetMoves
<1>8. FreeListIntact'
  BY <1>5, <1>6, <1>7 DEF FreeListIntact
<1>9. b \in Frame /\ b \in Page
  BY <1>5, FrameFacts
<1>10. MemTypeOK'
  <2>1. Marker(first_page_frame) \in Page
    BY <1>4, <1>9, PageAssumption DEF MemInv, MemTypeOK, Marker, Word
  <2>2. n_free_page_frames' \in 0 .. ULONG_MAX
    BY WidthAssumption DEF GetPhysBlock, Decremented, MemInv, MemTypeOK
  <2> QED
    BY <2>1, <2>2, <1>4, <1>9 DEF MemInv, MemTypeOK, GetPhysBlock, SecondFrame, scanVars
<1>11. ScanState'
  BY DEF MemInv, ScanState, GetPhysBlock, scanVars
<1>12. CountState'
  <2>1. /\ n_free_page_frames \in 0 .. ULONG_MAX
        /\ Congruent(n_free_page_frames, n)
        /\ CountFits => n_free_page_frames = n
    BY <1>1 DEF GetPhysBlock, MemInv, MemTypeOK, CountState
  <2>2. Congruent(Decremented(n_free_page_frames), n - 1)
    BY <2>1, CountMoves
  <2>3. CountFits => Decremented(n_free_page_frames) = n - 1
    BY <1>5, <2>1 DEF Decremented
  <2> QED
    BY <1>7, <2>2, <2>3 DEF GetPhysBlock, CountState
<1> QED
  BY <1>2, <1>4, <1>5, <1>6, <1>8, <1>10, <1>11, <1>12 DEF MemInv

LEMMA GetPhysBlockFailsInv ==
  ASSUME MemInv, GetPhysBlockFails
  PROVE  MemInv'
<1>1. FreeSet' = FreeSet
  BY DEF GetPhysBlockFails, scanVars, FreeSet, Added
<1>2. FreeListIntact'
  BY <1>1, Undisturbed DEF MemInv, GetPhysBlockFails
<1>3. MemTypeOK'
  BY DEF MemInv, MemTypeOK, GetPhysBlockFails, scanVars, Halted
<1>4. ScanState'
  BY DEF MemInv, ScanState, GetPhysBlockFails, BlockLeft, scanVars
<1>5. CountState'
  BY <1>1 DEF MemInv, CountState, GetPhysBlockFails
<1> QED
  BY <1>2, <1>3, <1>4, <1>5 DEF MemInv

LEMMA PutPhysBlockInv ==
  ASSUME MemInv, NEW b \in held, PutPhysBlock(b)
  PROVE  MemInv' /\ FreeSet' = FreeSet \cup {b}
<1>1. PICK c \in Frame : c = b
  BY DEF MemInv, MemTypeOK
<1>2. phase = "up" /\ Added = Frame /\ c \notin FreeSet
  BY <1>1, AddedAll DEF MemInv, ScanState, PutPhysBlock, FreeSet
<1>3. FreeSet' = FreeSet \cup {c}
  BY <1>1, <1>2 DEF PutPhysBlock, scanVars, FreeSet, Added
<1>4. PICK n \in Nat : n = Cardinality(FreeSet)
  BY FreeSetFacts
<1>5. Cardinality(FreeSet') = n + 1 /\ n < Cardinality(Frame)
  BY <1>2, <1>3, <1>4, FreeSetMoves
<1>6. FreeListIntact'
  BY <1>1, <1>2, <1>3, ListGrows DEF PutPhysBlock, Push
<1>7. MemTypeOK'
  <2>1. mem' \in [Page -> [Index -> Word]]
    BY <1>1, FrameFacts, SetMarkerType DEF MemInv, MemTypeOK, PutPhysBlock, Push
  <2>2. n_free_page_frames' \in 0 .. ULONG_MAX
    BY WidthAssumption DEF PutPhysBlock, Incremented, MemInv, MemTypeOK
  <2>3. first_page_frame' \in Page
    BY <1>1, FrameFacts DEF PutPhysBlock, Push
  <2> QED
    BY <2>1, <2>2, <2>3 DEF MemInv, MemTypeOK, PutPhysBlock, scanVars
<1>8. ScanState'
  BY DEF MemInv, ScanState, PutPhysBlock, scanVars
<1>9. CountState'
  <2>1. /\ n_free_page_frames \in 0 .. ULONG_MAX
        /\ Congruent(n_free_page_frames, n)
        /\ CountFits => n_free_page_frames = n
    BY <1>2, <1>4 DEF MemInv, MemTypeOK, CountState
  <2>2. Congruent(Incremented(n_free_page_frames), n + 1)
    BY <2>1, CountMoves
  <2>3. CountFits => Incremented(n_free_page_frames) = n + 1
    BY <1>5, <2>1, FrameFacts, WidthAssumption DEF Incremented
  <2> QED
    BY <1>5, <2>2, <2>3 DEF PutPhysBlock, CountState
<1> QED
  BY <1>1, <1>3, <1>6, <1>7, <1>8, <1>9 DEF MemInv

(* A write to a frame that is held disturbs no marker word of a free frame,*)
(* whoever makes it.                                                       *)
LEMMA HeldWrite ==
  ASSUME MemInv, NEW b \in held, NEW contents \in [Index -> Word],
         mem' = [mem EXCEPT ![b] = contents],
         UNCHANGED <<first_page_frame, n_free_page_frames, phase, scanVars, held, block>>
  PROVE  MemInv' /\ FreeSet' = FreeSet
<1>1. b \in Frame /\ b \in Page /\ b \notin FreeSet
  BY FrameFacts DEF MemInv, MemTypeOK, FreeSet
<1>2. FreeSet' = FreeSet
  BY DEF scanVars, FreeSet, Added
<1>3. \A f \in FreeSet : mem'[f] = mem[f]
  BY <1>1, FreeSetFacts, FrameFacts DEF MemInv, MemTypeOK
<1>4. FreeListIntact'
  BY <1>2, <1>3, Undisturbed DEF MemInv
<1>5. MemTypeOK'
  <2>1. mem' \in [Page -> [Index -> Word]]
    BY <1>1 DEF MemInv, MemTypeOK
  <2> QED
    BY <2>1 DEF MemInv, MemTypeOK, scanVars
<1>6. ScanState'
  BY DEF MemInv, ScanState, scanVars
<1>7. CountState'
  BY <1>2 DEF MemInv, CountState, scanVars
<1> QED
  BY <1>2, <1>4, <1>5, <1>6, <1>7 DEF MemInv

LEMMA StoreInv ==
  ASSUME MemInv, NEW b \in held, NEW contents \in StoreImage, Store(b, contents)
  PROVE  MemInv' /\ FreeSet' = FreeSet
<1>1. contents \in [Index -> Word]
  BY PageAssumption
<1> QED
  BY <1>1, HeldWrite DEF Store

LEMMA StutterInv == MemInv /\ UNCHANGED memVars => MemInv' /\ FreeSet' = FreeSet
<1> SUFFICES ASSUME MemInv, UNCHANGED memVars
             PROVE  MemInv' /\ FreeSet' = FreeSet
  OBVIOUS
<1>1. FreeSet' = FreeSet
  BY DEF memVars, scanVars, FreeSet, Added
<1>2. FreeListIntact'
  BY <1>1, Undisturbed DEF MemInv, memVars
<1>3. MemTypeOK' /\ ScanState'
  BY DEF MemInv, MemTypeOK, ScanState, memVars, scanVars
<1>4. CountState'
  BY <1>1 DEF MemInv, CountState, memVars, scanVars
<1> QED
  BY <1>1, <1>2, <1>3, <1>4 DEF MemInv

LEMMA StepInv == MemInv /\ [MemNext]_memVars => MemInv'
<1> SUFFICES ASSUME MemInv, [MemNext]_memVars PROVE MemInv'
  OBVIOUS
<1>1. CASE \E answered \in BOOLEAN : MemInit(answered)
  BY <1>1, MemInitInv
<1>2. CASE PushFrame
  BY <1>2, PushFrameInv
<1>3. CASE NextEntry
  BY <1>3, NextEntryInv
<1>4. CASE ScanDone
  BY <1>4, ScanDoneInv
<1>5. CASE GetPhysBlock
  BY <1>5, GetPhysBlockInv
<1>6. CASE GetPhysBlockFails
  BY <1>6, GetPhysBlockFailsInv
<1>7. CASE \E b \in held : PutPhysBlock(b)
  BY <1>7, PutPhysBlockInv
<1>8. CASE \E b \in held, contents \in StoreImage : Store(b, contents)
  BY <1>8, StoreInv
<1>9. CASE UNCHANGED memVars
  BY <1>9, StutterInv
<1> QED
  BY <1>1, <1>2, <1>3, <1>4, <1>5, <1>6, <1>7, <1>8, <1>9 DEF MemNext, Scan

-----------------------------------------------------------------------------
(***************************************************************************)
(* The theorems.  They hold of every machine whose RAM 64-bit addresses    *)
(* reach; only the exact count asks for frames that an int can count.      *)
(***************************************************************************)

(* MemInv holds from the moment the bootloader jumps to the kernel. *)
THEOREM Invariance == MemSpec => []MemInv
<1>1. MemStart => MemInv
  BY InitInv
<1>2. MemInv /\ [MemNext]_memVars => MemInv'
  BY StepInv
<1> QED
  BY <1>1, <1>2, PTL DEF MemSpec

(* Every variable of mem.c keeps its type: the head is NULL or the number  *)
(* of a page, and nothing but a usable frame is ever handed out.           *)
THEOREM TypeCorrect == MemSpec => []MemTypeOK
<1>1. MemInv => MemTypeOK
  BY DEF MemInv
<1> QED
  BY <1>1, Invariance, PTL

(* The free list visits each free frame once and no other frame, whatever  *)
(* the clients store in the frames they hold, in whatever order they take  *)
(* and give back, and whatever has become of n_free_page_frames.           *)
THEOREM FreeListCorrect == MemSpec => []FreeListIntact
<1>1. MemInv => FreeListIntact
  BY DEF MemInv
<1> QED
  BY <1>1, Invariance, PTL

(* A list without a head is a list without a frame ...                     *)
LEMMA AllHeld == MemInv => ExhaustedOnlyWhenAllHeld
<1> SUFFICES ASSUME MemInv, phase = "exhausted"
             PROVE  held = Frame
  BY DEF ExhaustedOnlyWhenAllHeld
<1>1. first_page_frame = NULL /\ Added = Frame /\ held \subseteq Frame
  BY AddedAll DEF MemInv, ScanState, MemTypeOK
<1>0. PICK n \in Nat : n = Cardinality(FreeSet)
  BY FreeSetFacts
<1>2. PICK s \in [1 .. n -> FreeSet] :
         ListInMemory(s, n) /\ Enumerates(s, n, FreeSet)
  BY <1>0 DEF MemInv, FreeListIntact
<1>3. n = 0
  BY <1>1, <1>2, FreeSetFacts, FrameFacts DEF ListInMemory
<1>4. FreeSet = {}
  BY <1>2, <1>3 DEF Enumerates
<1> QED
  BY <1>1, <1>4 DEF FreeSet

(* ... and its head is a free frame. *)
LEMMA HeadIsFree == MemInv /\ first_page_frame # NULL => first_page_frame \in FreeSet
<1> SUFFICES ASSUME MemInv, first_page_frame # NULL
             PROVE  first_page_frame \in FreeSet
  OBVIOUS
<1>0. PICK n \in Nat : n = Cardinality(FreeSet)
  BY FreeSetFacts
<1>1. PICK s \in [1 .. n -> FreeSet] : ListInMemory(s, n)
  BY <1>0 DEF MemInv, FreeListIntact
<1>2. n # 0 /\ first_page_frame = s[1]
  BY <1>1 DEF ListInMemory
<1> QED
  BY <1>1, <1>2

(* get_phys_block's ASSERT(ret != NULL) can only fire when every usable    *)
(* frame of the machine is in a client's hands.                            *)
THEOREM NeverDryEarly == MemSpec => []ExhaustedOnlyWhenAllHeld
BY AllHeld, Invariance, PTL

(* The count that mem.h calls "the number of blocks found that are usable  *)
(* right now" is right up to a multiple of 2^32 on every machine, after    *)
(* any history of calls ...                                                *)
THEOREM CountCorrect == MemSpec => []CountCongruent
<1>1. MemInv => CountCongruent
  <2> SUFFICES ASSUME MemInv, phase \in {"up", "exhausted"}
               PROVE  n_free_page_frames % IntRange = Cardinality(FreeSet) % IntRange
    BY DEF CountCongruent
  <2>1. /\ Congruent(n_free_page_frames, Cardinality(FreeSet))
        /\ n_free_page_frames \in Int /\ Cardinality(FreeSet) \in Int
    BY FreeSetFacts, WidthAssumption DEF MemInv, MemTypeOK, CountState
  <2> QED
    BY <2>1, CongruentMod
<1> QED
  BY <1>1, Invariance, PTL

(* ... and exact, never below zero and never past its end, where an int    *)
(* can count the frames of the machine.                                    *)
THEOREM CountExact ==
  CountFits => (MemSpec => [](phase = "up" => n_free_page_frames = Cardinality(FreeSet)))
<1> SUFFICES ASSUME CountFits
             PROVE  MemSpec => [](phase = "up" => n_free_page_frames = Cardinality(FreeSet))
  OBVIOUS
<1>1. MemInv => (phase = "up" => n_free_page_frames = Cardinality(FreeSet))
  BY DEF MemInv, CountState
<1> QED
  BY <1>1, Invariance, PTL

(* mem.c implements the frame pool: each step of the linked list is a step *)
(* of the pool or invisible to its clients, so a frame that get_phys_block *)
(* returns was free, and nobody holds it.                                  *)
THEOREM ImplementsPool == MemSpec => PoolSpec
<1> SUFFICES MemSpec => Pool!Spec
  BY DEF PoolSpec
<1>1. MemStart => Pool!Init
  <2>1. MemStart => FreeSet = {}
    BY MemmapFacts DEF MemStart, FreeSet, Added
  <2> QED
    BY <2>1 DEF MemStart, Pool!Init
<1>2. MemInv /\ [MemNext]_memVars => [Pool!Next]_Pool!vars
  <2> SUFFICES ASSUME MemInv, [MemNext]_memVars
               PROVE  Pool!Next \/ UNCHANGED Pool!vars
    OBVIOUS
  <2>1. CASE GetPhysBlock
    <3>1. /\ first_page_frame \in FreeSet
          /\ FreeSet' = FreeSet \ {first_page_frame}
      BY <2>1, GetPhysBlockInv
    <3>2. Pool!Get(first_page_frame)
      BY <2>1, <3>1 DEF Pool!Get, GetPhysBlock
    <3> QED
      BY <3>1, <3>2, FreeSetFacts DEF Pool!Next
  <2>2. ASSUME NEW b \in held, PutPhysBlock(b)
        PROVE  Pool!Next
    <3>1. FreeSet' = FreeSet \cup {b} /\ b \in Frame
      BY <2>2, PutPhysBlockInv DEF MemInv, MemTypeOK
    <3>2. Pool!Put(b)
      BY <2>2, <3>1 DEF Pool!Put, PutPhysBlock
    <3> QED
      BY <3>1, <3>2 DEF Pool!Next
  <2>3. CASE PushFrame
    <3>1. PICK f \in Frame \ FreeSet : FreeSet' = FreeSet \cup {f}
      BY <2>3, PushFrameInv
    <3>2. Pool!Add(f)
      BY <2>3, <3>1 DEF Pool!Add, PushFrame, Scanning, MemInv, ScanState
    <3> QED
      BY <3>1, <3>2 DEF Pool!Next
  <2>4. CASE NextEntry
    BY <2>4, NextEntryInv DEF Pool!vars, NextEntry
  <2>5. CASE ScanDone \/ GetPhysBlockFails \/ \E a \in BOOLEAN : MemInit(a)
    BY <2>5 DEF ScanDone, GetPhysBlockFails, MemInit, scanVars, FreeSet, Added, Pool!vars
  <2>6. CASE \E b \in held, contents \in StoreImage : Store(b, contents)
    BY <2>6, StoreInv DEF Pool!vars, Store
  <2>7. CASE UNCHANGED memVars
    BY <2>7, StutterInv DEF Pool!vars, memVars
  <2> QED
    BY <2>1, <2>2, <2>3, <2>4, <2>5, <2>6, <2>7 DEF MemNext, Scan
<1>3. MemSpec => []MemInv
  BY Invariance
<1> QED
  BY <1>1, <1>2, <1>3, PTL DEF MemSpec, Pool!Spec
==============================================================================
