----------------------------- MODULE PMMProofs -----------------------------
(***************************************************************************)
(* For every number of pages: allocation and release keep the counter of   *)
(* free pages exact and hand no page out twice, from any boot state in     *)
(* which the counter is exact and page 0 is reserved.                      *)
(***************************************************************************)
EXTENDS PMM, FiniteSetTheorems, NatFacts

USE PMMAssumption

IInv == TypeOK /\ FreePagesExact /\ OwnedDisjoint

LEMMA BelowTotal ==
  ASSUME TypeOK
  PROVE  /\ total_pages \in Nat /\ total_pages <= PMM_MAX_PAGES
         /\ \A q \in 0 .. total_pages - 1 : q \in Pages
         /\ 1 .. total_pages - 1 \subseteq 0 .. total_pages - 1
  BY DEF TypeOK, Pages

LEMMA ModSmall == ASSUME NEW x \in Nat, NEW m \in Nat, x < m PROVE x % m = x
  OBVIOUS

(* The pages below total_pages are finite in number.                        *)
LEMMA FreeSetFinite ==
  ASSUME TypeOK
  PROVE  /\ IsFiniteSet(FreeSet) /\ Cardinality(FreeSet) \in Nat
         /\ Cardinality(FreeSet) <= PMM_MAX_PAGES
         /\ FreeSet \subseteq Pages
<1>1. IsFiniteSet(0 .. total_pages - 1) /\ Cardinality(0 .. total_pages - 1) <= PMM_MAX_PAGES
  <2>1. total_pages \in Nat /\ total_pages <= PMM_MAX_PAGES /\ total_pages - 1 \in Int
    BY DEF TypeOK
  <2>2. /\ IsFiniteSet(0 .. total_pages - 1)
        /\ Cardinality(0 .. total_pages - 1) = IF 0 > total_pages - 1 THEN 0 ELSE total_pages - 1 - 0 + 1
    BY <2>1, FS_Interval
  <2>. QED  BY <2>1, <2>2
<1>2. FreeSet \subseteq 0 .. total_pages - 1
  BY DEF FreeSet
<1>3. IsFiniteSet(FreeSet) /\ Cardinality(FreeSet) <= Cardinality(0 .. total_pages - 1)
  BY <1>1, <1>2, FS_Subset
<1>4. Cardinality(FreeSet) \in Nat /\ Cardinality(0 .. total_pages - 1) \in Nat
  BY <1>1, <1>3, FS_CardinalityType
<1>5. FreeSet \subseteq Pages
  BY <1>2 DEF TypeOK, Pages
<1>. QED  BY <1>1, <1>3, <1>4, <1>5

(* The pages bm_find_first_free and bm_find_free return are free.           *)
LEMMA FirstFree ==
  ASSUME TypeOK, bm_find_first_free # NotFound
  PROVE  bm_find_first_free \in FreeSet
<1>1. FreeSet # {}
  BY DEF bm_find_first_free
<1>2. FreeSet \subseteq Nat
  BY DEF FreeSet, TypeOK
<1>3. \E p \in FreeSet : \A q \in FreeSet : p <= q
  BY <1>1, <1>2, LeastExists
<1>. QED  BY <1>1, <1>3 DEF bm_find_first_free

LEMMA FindFree ==
  ASSUME TypeOK, NEW n \in Nat, n > 1, bm_find_free(n) # NotFound
  PROVE  /\ bm_find_free(n) \in Nat
         /\ Block(bm_find_free(n), n) \subseteq FreeSet
<1>. DEFINE S == RunStarts(n)
            s == bm_find_free(n)
<1>1. S # {}
  BY DEF bm_find_free
<1>2. S \subseteq Nat
  BY DEF RunStarts, TypeOK
<1>3. \E p \in S : \A q \in S : p <= q
  <2>. HIDE DEF S
  <2>. QED  BY <1>1, <1>2, LeastExists
<1>4. s \in S
  BY <1>1, <1>3 DEF bm_find_free
<1>. HIDE DEF s
<1>5. s \in Nat /\ \A i \in 0 .. n - 1 : s + i \in FreeSet
  BY <1>2, <1>4 DEF RunStarts
<1>6. ASSUME NEW p \in Block(s, n) PROVE p \in FreeSet
  <2>1. p - s \in 0 .. n - 1 /\ s + (p - s) = p
    BY <1>5 DEF Block
  <2>. QED  BY <1>5, <2>1
<1>. QED  BY <1>5, <1>6 DEF s

(* Handing out a run of free pages.                                         *)
LEMMA TakeLemma ==
  ASSUME IInv, NEW p \in Nat, NEW n \in Nat \ {0}, Block(p, n) \subseteq FreeSet,
         bitmap' = [q \in Pages |-> bitmap[q] \/ q \in Block(p, n)],
         free_pages' = (free_pages - n) % U64,
         owned' = owned \cup {<<p, n>>},
         total_pages' = total_pages
  PROVE  IInv'
<1>. DEFINE B == Block(p, n)
<1>1. /\ IsFiniteSet(FreeSet) /\ Cardinality(FreeSet) \in Nat
      /\ Cardinality(FreeSet) <= PMM_MAX_PAGES /\ FreeSet \subseteq Pages
  BY FreeSetFinite DEF IInv
<1>2. IsFiniteSet(B) /\ Cardinality(B) = n
  <2>1. p + n - 1 \in Int /\ ~(p > p + n - 1) /\ (p + n - 1) - p + 1 = n
    OBVIOUS
  <2>. QED  BY <2>1, FS_Interval DEF Block
<1>3. FreeSet' = FreeSet \ B
  <2>. HIDE DEF B
  <2>1. \A q \in 0 .. total_pages - 1 : bitmap'[q] <=> bitmap[q] \/ q \in B
    BY BelowTotal DEF IInv, B
  <2>. QED  BY <2>1 DEF FreeSet
<1>4. Cardinality(FreeSet \ B) = Cardinality(FreeSet) - n /\ n <= Cardinality(FreeSet)
  <2>1. FreeSet \cap B = B
    OBVIOUS
  <2>2. Cardinality(FreeSet \ B) = Cardinality(FreeSet) - Cardinality(FreeSet \cap B)
    BY <1>1, FS_Difference
  <2>3. Cardinality(B) <= Cardinality(FreeSet)
    BY <1>1, FS_Subset
  <2>. QED  BY <1>2, <2>1, <2>2, <2>3
<1>5. free_pages' = free_pages - n /\ free_pages' \in 0 .. U64 - 1
  BY <1>1, <1>4 DEF IInv, FreePagesExact
<1>6. p \in B /\ p + n - 1 \in B
  BY DEF Block
<1>7. TypeOK'
  <2>1. p \in Pages /\ n \in 1 .. PMM_MAX_PAGES
    BY <1>1, <1>6 DEF Pages
  <2>. QED  BY <1>5, <2>1 DEF IInv, TypeOK
<1>8. FreePagesExact'
  BY <1>3, <1>4, <1>5 DEF IInv, FreePagesExact
<1>9. OwnedDisjoint'
  <2>1. B \subseteq 1 .. total_pages - 1
    BY <1>1 DEF IInv, OwnedDisjoint, FreeSet, Pages
  <2>2. \A b \in owned : Block(b[1], b[2]) \cap B = {}
    BY DEF IInv, OwnedDisjoint, FreeSet
  <2>3. \A q \in Pages : bitmap'[q] <=> bitmap[q] \/ q \in B
    OBVIOUS
  <2>4. B \subseteq Pages /\ \A q \in 1 .. total_pages - 1 : q \in Pages
    BY <1>1, BelowTotal DEF IInv
  <2>5. <<p, n>>[1] = p /\ <<p, n>>[2] = n
    OBVIOUS
  <2>6. \A b \in owned' : /\ Block(b[1], b[2]) \subseteq 1 .. total_pages - 1
                          /\ \A q \in Block(b[1], b[2]) : bitmap'[q]
    BY <2>1, <2>3, <2>4, <2>5 DEF IInv, OwnedDisjoint
  <2>7. \A b, c \in owned' : b # c => Block(b[1], b[2]) \cap Block(c[1], c[2]) = {}
    BY <2>2, <2>5 DEF IInv, OwnedDisjoint
  <2>. QED  BY <1>3, <2>6, <2>7 DEF IInv, OwnedDisjoint
<1>. QED  BY <1>7, <1>8, <1>9 DEF IInv

(* Giving back a run that the caller holds.                                 *)
LEMMA ReleaseLemma ==
  ASSUME IInv, NEW b \in owned, Release(b[1], b[2]), owned' = owned \ {b}
  PROVE  IInv'
<1>. DEFINE B == Block(b[1], b[2])
<1>1. /\ IsFiniteSet(FreeSet) /\ Cardinality(FreeSet) \in Nat
      /\ FreeSet \subseteq Pages
  BY FreeSetFinite DEF IInv
<1>2. /\ B \subseteq 1 .. total_pages - 1 /\ B \cap FreeSet = {}
      /\ \A q \in B : bitmap[q] /\ q < total_pages
  BY DEF IInv, OwnedDisjoint, FreeSet, TypeOK
<1>3. /\ bitmap' = [q \in Pages |-> bitmap[q] /\ q \notin B]
      /\ free_pages' = (free_pages + Cardinality(B)) % U64
      /\ total_pages' = total_pages
  <2>1. {q \in B : q < total_pages /\ bitmap[q]} = B
    BY <1>2
  <2>. QED  BY <2>1 DEF Release
<1>. HIDE DEF B
<1>4. FreeSet' = FreeSet \cup B
  <2>1. \A q \in 0 .. total_pages - 1 : bitmap'[q] <=> bitmap[q] /\ q \notin B
    BY <1>3, BelowTotal DEF IInv
  <2>2. \A q \in B : q \in 0 .. total_pages - 1
    BY <1>2, BelowTotal DEF IInv
  <2>. QED  BY <1>2, <1>3, <2>1, <2>2 DEF FreeSet
<1>5. /\ IsFiniteSet(B) /\ Cardinality(B) \in Nat
      /\ Cardinality(FreeSet \cup B) = Cardinality(FreeSet) + Cardinality(B)
  <2>1. IsFiniteSet(1 .. total_pages - 1)
    BY FS_Interval DEF IInv, TypeOK
  <2>2. IsFiniteSet(B) /\ Cardinality(B) \in Nat
    BY <1>2, <2>1, FS_Subset, FS_CardinalityType
  <2>3. FreeSet \cap B = {} /\ Cardinality({}) = 0
    BY <1>2, FS_EmptySet
  <2>4. Cardinality(FreeSet \cup B)
          = Cardinality(FreeSet) + Cardinality(B) - Cardinality(FreeSet \cap B)
    BY <1>1, <2>2, FS_Union
  <2>5. Cardinality(FreeSet \cap B) = 0
    BY <2>3
  <2>. QED  BY <1>1, <2>2, <2>4, <2>5
<1>6. bitmap' \in [Pages -> BOOLEAN] /\ total_pages' \in 0 .. PMM_MAX_PAGES
      /\ owned' \subseteq Pages \X (1 .. PMM_MAX_PAGES)
  BY <1>3 DEF IInv, TypeOK
<1>7. Cardinality(FreeSet \cup B) <= PMM_MAX_PAGES
  <2>1. FreeSet \cup B \subseteq 0 .. total_pages - 1
    BY <1>2, BelowTotal DEF FreeSet, IInv
  <2>2. /\ IsFiniteSet(0 .. total_pages - 1)
        /\ Cardinality(0 .. total_pages - 1) = IF 0 > total_pages - 1 THEN 0 ELSE total_pages - 1 - 0 + 1
    <3>1. 0 \in Int /\ total_pages - 1 \in Int
      BY BelowTotal DEF IInv
    <3>. QED  BY <3>1, FS_Interval
  <2>3. Cardinality(FreeSet \cup B) <= Cardinality(0 .. total_pages - 1)
    BY <2>1, <2>2, FS_Subset
  <2>4. Cardinality(0 .. total_pages - 1) <= PMM_MAX_PAGES /\ Cardinality(0 .. total_pages - 1) \in Nat
    BY <2>2 DEF IInv, TypeOK
  <2>. QED  BY <1>1, <1>5, <2>3, <2>4
<1>8. free_pages' = free_pages + Cardinality(B) /\ free_pages' \in 0 .. U64 - 1
  <2>1. free_pages + Cardinality(B) \in Nat /\ free_pages + Cardinality(B) < U64
    BY <1>1, <1>5, <1>7 DEF IInv, FreePagesExact
  <2>2. (free_pages + Cardinality(B)) % U64 = free_pages + Cardinality(B)
    BY <2>1, ModSmall
  <2>. QED  BY <1>3, <2>1, <2>2
<1>9. TypeOK' /\ FreePagesExact'
  BY <1>4, <1>5, <1>6, <1>8 DEF IInv, TypeOK, FreePagesExact
<1>10. OwnedDisjoint'
  <2>1. \A c \in owned' : c \in owned /\ Block(c[1], c[2]) \cap B = {}
    BY DEF IInv, OwnedDisjoint, B
  <2>2. \A q \in 1 .. total_pages - 1 : q \in Pages
    BY DEF IInv, TypeOK, Pages
  <2>3. \A c \in owned' : /\ Block(c[1], c[2]) \subseteq 1 .. total_pages - 1
                          /\ \A q \in Block(c[1], c[2]) : bitmap'[q]
    BY <1>3, <2>1, <2>2 DEF IInv, OwnedDisjoint
  <2>4. 0 \notin FreeSet'
    BY <1>2, <1>4 DEF IInv, OwnedDisjoint
  <2>. QED  BY <1>3, <2>1, <2>3, <2>4 DEF IInv, OwnedDisjoint
<1>. QED  BY <1>9, <1>10 DEF IInv

LEMMA NextIInv == IInv /\ [Next]_vars => IInv'
<1>. SUFFICES ASSUME IInv, [Next]_vars PROVE IInv'
  OBVIOUS
<1>1. CASE pmm_alloc_page
  <2>. DEFINE p == bm_find_first_free
  <2>1. p \in FreeSet /\ p \in Nat
    BY <1>1, FirstFree DEF pmm_alloc_page, FreeSet, IInv, TypeOK
  <2>2. /\ bitmap' = [bitmap EXCEPT ![p] = TRUE] /\ total_pages' = total_pages
        /\ free_pages' = (free_pages - 1) % U64 /\ owned' = owned \cup {<<p, 1>>}
    BY <1>1 DEF pmm_alloc_page
  <2>. HIDE DEF p
  <2>3. Block(p, 1) = {p}
    BY <2>1 DEF Block
  <2>4. bitmap' = [q \in Pages |-> bitmap[q] \/ q \in Block(p, 1)]
    BY <2>2, <2>3 DEF IInv, TypeOK
  <2>5. Block(p, 1) \subseteq FreeSet /\ 1 \in Nat \ {0}
    BY <2>1, <2>3
  <2>. QED  BY <2>1, <2>2, <2>4, <2>5, TakeLemma
<1>2. ASSUME NEW n \in 2 .. PMM_MAX_PAGES, pmm_alloc_pages(n) PROVE IInv'
  <2>. DEFINE p == bm_find_free(n)
  <2>1. p \in Nat /\ Block(p, n) \subseteq FreeSet
    BY <1>2, FindFree DEF pmm_alloc_pages, IInv
  <2>2. /\ bitmap' = [q \in Pages |-> bitmap[q] \/ q \in Block(p, n)]
        /\ free_pages' = (free_pages - n) % U64 /\ owned' = owned \cup {<<p, n>>}
        /\ total_pages' = total_pages
    BY <1>2 DEF pmm_alloc_pages
  <2>. HIDE DEF p
  <2>. QED  BY <2>1, <2>2, TakeLemma
<1>3. ASSUME NEW b \in owned, pmm_free_page(b) \/ pmm_free_pages(b) PROVE IInv'
  <2>1. Release(b[1], b[2]) /\ owned' = owned \ {b}
    BY <1>3 DEF pmm_free_page, pmm_free_pages
  <2>. QED  BY <2>1, ReleaseLemma
<1>4. ASSUME NEW p \in Pages, NEW n \in 1 .. PMM_MAX_PAGES, FreeAgain(p, n) PROVE IInv'
  <2>1. {q \in Block(p, n) : q < total_pages /\ bitmap[q]} = {}
    BY <1>4 DEF FreeAgain
  <2>2. UNCHANGED <<bitmap, total_pages, owned>>
    BY <1>4, <2>1 DEF FreeAgain, Release, IInv, TypeOK
  <2>3. free_pages' = free_pages
    <3>1. free_pages' = (free_pages + Cardinality({})) % U64 /\ Cardinality({}) = 0
      BY <1>4, <2>1, FS_EmptySet DEF FreeAgain, Release
    <3>2. free_pages \in Nat /\ free_pages < U64 /\ free_pages + 0 = free_pages
      BY DEF IInv, TypeOK
    <3>. QED  BY <3>1, <3>2, ModSmall
  <2>. QED  BY <2>2, <2>3 DEF IInv, TypeOK, FreePagesExact, OwnedDisjoint, FreeSet
<1>5. CASE UNCHANGED vars
  BY <1>5 DEF IInv, TypeOK, FreePagesExact, OwnedDisjoint, FreeSet, vars
<1>. QED  BY <1>1, <1>2, <1>3, <1>4, <1>5 DEF Next

(* From a boot state with an exact counter, a reserved page 0 and nothing   *)
(* handed out, pmm_alloc_page(s) and pmm_free_page(s) keep the counter      *)
(* equal to the number of clear bits.                                       *)
THEOREM CounterExact ==
  Spec /\ TypeOK /\ FreePagesExact /\ OwnedDisjoint => []FreePagesExact
<1>1. IInv => FreePagesExact
  BY DEF IInv
<1>2. TypeOK /\ FreePagesExact /\ OwnedDisjoint => IInv
  BY DEF IInv
<1>. QED  BY <1>1, <1>2, NextIInv, PTL DEF Spec

(* From the same boot states, no page is ever handed out twice.             *)
THEOREM NoPageTwice ==
  Spec /\ TypeOK /\ FreePagesExact /\ OwnedDisjoint => []OwnedDisjoint
<1>1. IInv => OwnedDisjoint
  BY DEF IInv
<1>2. TypeOK /\ FreePagesExact /\ OwnedDisjoint => IInv
  BY DEF IInv
<1>. QED  BY <1>1, <1>2, NextIInv, PTL DEF Spec
=============================================================================
