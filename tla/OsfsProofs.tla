----------------------------- MODULE OsfsProofs -----------------------------
(***************************************************************************)
(* Facts about extent tables of any length: lookups stay in the runs of    *)
(* the table, every logical block below the total has a block of its own,  *)
(* and osfs_extent_append_block adds one block and nothing else.           *)
(* And the types of osfs, for any number of processes, names, inodes,      *)
(* blocks and extents.                                                     *)
(***************************************************************************)
EXTENDS OsfsProps, FunctionTheorems, FiniteSetTheorems, SequenceTheorems,
        NaturalsInduction, WellFoundedInduction, TLAPS

(* A table has finitely many places, so its total is a natural number.     *)
(* (osfs_extent_total_blocks, the loop of osfs_extent_lookup_block)        *)
LEMMA SlotsFinite ==
  ASSUME NEW exts \in Seq(Extent)
  PROVE  IsFiniteSet(Slots(exts))
<1> DEFINE row == [i \in DOMAIN exts |-> {i} \X (0 .. (exts[i].len - 1))]
           rows == {row[i] : i \in DOMAIN exts}
<1>1. DOMAIN exts = 1 .. Len(exts) /\ Len(exts) \in Nat
  BY LenProperties
<1>2. IsFiniteSet(DOMAIN exts)
  BY <1>1, FS_Interval
<1>3. row \in Surjection(DOMAIN exts, rows)
  BY DEF Surjection
<1>4. IsFiniteSet(rows)
  BY <1>2, <1>3, FS_Surjection
<1>5. ASSUME NEW i \in DOMAIN exts PROVE IsFiniteSet(row[i])
  <2>1. exts[i] \in Extent
    BY <1>1, ElementOfSeq
  <2>2. exts[i].len - 1 \in Int /\ 0 \in Int
    BY <2>1 DEF Extent
  <2>3. IsFiniteSet(0 .. (exts[i].len - 1))
    BY <2>2, FS_Interval
  <2>4. IsFiniteSet({i})
    BY FS_Singleton
  <2> QED
    BY <2>3, <2>4, FS_Product
<1>6. Slots(exts) = UNION rows
  BY DEF Slots
<1>7. \A r \in rows : IsFiniteSet(r)
  BY <1>5
<1> HIDE DEF rows
<1> QED
  BY <1>4, <1>6, <1>7, FS_UNION

LEMMA TotalIsNat ==
  ASSUME NEW exts \in Seq(Extent)
  PROVE  /\ osfs_extent_total_blocks(exts) \in Nat
         /\ \A i : BlocksBefore(exts, i) \in Nat
<1>1. osfs_extent_total_blocks(exts) \in Nat
  BY SlotsFinite, FS_CardinalityType DEF osfs_extent_total_blocks
<1>2. ASSUME NEW i PROVE BlocksBefore(exts, i) \in Nat
  <2>1. IsFiniteSet({s \in Slots(exts) : s[1] < i})
    BY SlotsFinite, FS_Subset
  <2> QED
    BY <2>1, FS_CardinalityType DEF BlocksBefore
<1> QED
  BY <1>1, <1>2

(* A block that a lookup finds lies in a run of the table.                 *)
LEMMA LookupInRuns ==
  ASSUME NEW exts \in Seq(Extent), NEW idx \in Nat,
         NEW b \in osfs_extent_lookup_block(exts, idx)
  PROVE  b \in ExtentBlocks(exts) /\ b \in Nat
<1>1. PICK i \in DOMAIN exts :
        /\ BlocksBefore(exts, i) <= idx
        /\ idx < BlocksBefore(exts, i) + exts[i].len
        /\ b = exts[i].start + (idx - BlocksBefore(exts, i))
  BY DEF osfs_extent_lookup_block
<1>2. BlocksBefore(exts, i) \in Nat
  BY TotalIsNat
<1>3. exts[i] \in Extent
  BY LenProperties
<1>4. b \in Run(exts[i]) /\ b \in Nat
  BY <1>1, <1>2, <1>3 DEF Run, Extent
<1> QED
  BY <1>4 DEF ExtentBlocks

(* An empty table maps nothing.                                            *)
LEMMA NoExtents == ExtentBlocks(<< >>) = {} /\ Slots(<< >>) = {}
BY DEF ExtentBlocks, Slots

(* osfs_extent_append_block keeps a table a table and adds just its block. *)
LEMMA AppendTable ==
  ASSUME NEW exts \in Seq(Extent), NEW block \in Nat
  PROVE  /\ osfs_extent_append(exts, block) \in Seq(Extent)
         /\ ExtentBlocks(osfs_extent_append(exts, block)) = ExtentBlocks(exts) \cup {block}
         /\ Len(osfs_extent_append(exts, block)) =
              IF CanMerge(exts, block) THEN Len(exts) ELSE Len(exts) + 1
<1> DEFINE new == osfs_extent_append(exts, block)
           n == Len(exts)
<1>1. n \in Nat /\ DOMAIN exts = 1 .. n /\ \A i \in 1 .. n : exts[i] \in Extent
  BY LenProperties
<1>2. CASE CanMerge(exts, block)
  <2> DEFINE e == [exts[n] EXCEPT !.len = @ + 1]
  <2>1. n \in 1 .. n /\ exts[n].start + exts[n].len = block
    BY <1>1, <1>2 DEF CanMerge
  <2>2. e \in Extent /\ e.start = exts[n].start /\ e.len = exts[n].len + 1
    BY <1>1, <2>1 DEF Extent
  <2>3. new = [exts EXCEPT ![n] = e]
    BY <1>2 DEF osfs_extent_append
  <2>4. /\ new \in Seq(Extent) /\ Len(new) = n
        /\ \A j \in 1 .. n : new[j] = IF j = n THEN e ELSE exts[j]
    BY <2>1, <2>2, <2>3, ExceptSeq
  <2>5. Run(e) = Run(exts[n]) \cup {block}
    BY <1>1, <2>1, <2>2 DEF Run, Extent
  <2>6. DOMAIN new = 1 .. n
    BY <2>4, LenProperties
  <2>7. ExtentBlocks(new) = ExtentBlocks(exts) \cup {block}
    BY <1>1, <2>1, <2>4, <2>5, <2>6 DEF ExtentBlocks
  <2> QED
    BY <1>2, <2>4, <2>7
<1>3. CASE ~CanMerge(exts, block)
  <2> DEFINE e == [start |-> block, len |-> 1]
  <2>1. e \in Extent /\ Run(e) = {block}
    BY DEF Extent, Run
  <2>2. new = Append(exts, e)
    BY <1>3 DEF osfs_extent_append
  <2>3. /\ new \in Seq(Extent) /\ Len(new) = n + 1
        /\ \A j \in 1 .. n : new[j] = exts[j]
        /\ new[n + 1] = e
    BY <2>1, <2>2, AppendProperties
  <2>4. DOMAIN new = (1 .. n) \cup {n + 1}
    BY <1>1, <2>3, LenProperties
  <2>5. ExtentBlocks(new) = ExtentBlocks(exts) \cup {block}
    BY <1>1, <2>1, <2>3, <2>4 DEF ExtentBlocks
  <2> QED
    BY <1>3, <2>3, <2>5
<1> QED
  BY <1>2, <1>3

-----------------------------------------------------------------------------
(* The places of extent i come after those of the extents before it; all   *)
(* of them together are the table.                                         *)
LEMMA BeforeNext ==
  ASSUME NEW exts \in Seq(Extent), NEW i \in DOMAIN exts
  PROVE  BlocksBefore(exts, i + 1) = BlocksBefore(exts, i) + exts[i].len
<1> DEFINE Before(j) == {s \in Slots(exts) : s[1] < j}
           row == {i} \X (0 .. (exts[i].len - 1))
<1>1. DOMAIN exts = 1 .. Len(exts) /\ Len(exts) \in Nat /\ exts[i] \in Extent
  BY LenProperties
<1>2. \A s \in Slots(exts) : s[1] \in DOMAIN exts /\ s \in {s[1]} \X (0 .. (exts[s[1]].len - 1))
  BY DEF Slots
<1>3. Before(i + 1) = Before(i) \cup row
  <2>1. row \subseteq Slots(exts)
    BY DEF Slots
  <2>2. \A s \in row : s[1] = i
    OBVIOUS
  <2>3. \A s \in Slots(exts) : s[1] = i => s \in row
    BY <1>2
  <2>4. \A s \in Slots(exts) : s[1] < i + 1 <=> s[1] < i \/ s[1] = i
    BY <1>1, <1>2
  <2>5. i < i + 1
    BY <1>1
  <2> QED
    BY <2>1, <2>2, <2>3, <2>4, <2>5
<1>4. Before(i) \cap row = {}
  BY <1>1
<1>5. IsFiniteSet(Before(i)) /\ IsFiniteSet(row)
  <2>1. IsFiniteSet(Before(i))
    BY SlotsFinite, FS_Subset
  <2>2. row \subseteq Slots(exts)
    BY DEF Slots
  <2> QED
    BY <2>1, <2>2, SlotsFinite, FS_Subset
<1>6. Cardinality(row) = exts[i].len
  <2>1. exts[i].len \in Nat
    BY <1>1 DEF Extent
  <2> DEFINE k == exts[i].len
             offs == 0 .. (k - 1)
  <2>2. k - 1 \in Int /\ (IF 0 > k - 1 THEN 0 ELSE (k - 1) - 0 + 1) = k
    BY <2>1
  <2>3. IsFiniteSet(offs) /\ Cardinality(offs) = k
    <3> HIDE DEF k
    <3> QED
      BY <2>2, FS_Interval
  <2>4. IsFiniteSet({i}) /\ Cardinality({i}) = 1
    BY FS_Singleton
  <2> HIDE DEF offs
  <2>5. Cardinality({i} \X offs) = 1 * Cardinality(offs)
    BY <2>3, <2>4, FS_Product
  <2> QED
    BY <2>1, <2>3, <2>5 DEF offs
<1>7. Cardinality(Before(i) \cup row) = Cardinality(Before(i)) + Cardinality(row)
  <2> HIDE DEF Before, row
  <2>1. Cardinality(Before(i) \cap row) = 0
    BY <1>4, FS_EmptySet
  <2>2. Cardinality(Before(i)) \in Nat /\ Cardinality(row) \in Nat
    BY <1>5, FS_CardinalityType
  <2>3. Cardinality(Before(i) \cup row) =
          Cardinality(Before(i)) + Cardinality(row) - Cardinality(Before(i) \cap row)
    BY <1>5, FS_Union
  <2> QED
    BY <2>1, <2>2, <2>3
<1> QED
  BY <1>3, <1>6, <1>7 DEF BlocksBefore

LEMMA BeforeEnds ==
  ASSUME NEW exts \in Seq(Extent)
  PROVE  /\ BlocksBefore(exts, 1) = 0
         /\ BlocksBefore(exts, Len(exts) + 1) = osfs_extent_total_blocks(exts)
         /\ \A i, j \in 1 .. (Len(exts) + 1) :
              i <= j => BlocksBefore(exts, i) <= BlocksBefore(exts, j)
<1> DEFINE Before(j) == {s \in Slots(exts) : s[1] < j}
<1>1. DOMAIN exts = 1 .. Len(exts) /\ Len(exts) \in Nat
  BY LenProperties
<1>2. \A s \in Slots(exts) : s[1] \in 1 .. Len(exts)
  BY <1>1 DEF Slots
<1>3. Before(1) = {}
  BY <1>1, <1>2
<1>4. Before(Len(exts) + 1) = Slots(exts)
  BY <1>1, <1>2
<1>5. ASSUME NEW i \in 1 .. (Len(exts) + 1), NEW j \in 1 .. (Len(exts) + 1), i <= j
      PROVE  Cardinality(Before(i)) <= Cardinality(Before(j))
  <2>1. Before(i) \subseteq Before(j)
    BY <1>1, <1>2, <1>5
  <2>2. IsFiniteSet(Before(j))
    BY SlotsFinite, FS_Subset
  <2> QED
    BY <2>1, <2>2, FS_Subset
<1>6. Cardinality(Before(1)) = 0
  BY <1>3, FS_EmptySet
<1> QED
  BY <1>4, <1>5, <1>6 DEF BlocksBefore, osfs_extent_total_blocks

(* osfs_extent_lookup_block finds a block below the total, exactly one.    *)
LEMMA LookupMapped ==
  ASSUME NEW exts \in Seq(Extent), NEW idx \in Nat
  PROVE  /\ osfs_extent_lookup_block(exts, idx) # {} <=> idx < osfs_extent_total_blocks(exts)
         /\ \A b \in osfs_extent_lookup_block(exts, idx) :
              osfs_extent_lookup_block(exts, idx) = {b}
<1> DEFINE n == Len(exts)
           B(i) == BlocksBefore(exts, i)
           hit == {j \in DOMAIN exts : B(j) <= idx /\ idx < B(j) + exts[j].len}
<1>1. DOMAIN exts = 1 .. n /\ n \in Nat
  BY LenProperties
<1>2. \A i : B(i) \in Nat
  BY TotalIsNat
<1>3. \A i \in 1 .. n : B(i + 1) = B(i) + exts[i].len
  BY <1>1, BeforeNext
<1>4. /\ B(1) = 0 /\ B(n + 1) = osfs_extent_total_blocks(exts)
      /\ \A i, j \in 1 .. (n + 1) : i <= j => B(i) <= B(j)
  BY BeforeEnds
<1>5. hit = {j \in 1 .. n : B(j) <= idx /\ idx < B(j + 1)}
  BY <1>1, <1>3
<1>6. osfs_extent_lookup_block(exts, idx) = {exts[i].start + (idx - B(i)) : i \in hit}
  BY DEF osfs_extent_lookup_block
<1> HIDE DEF B, hit
<1>7. ASSUME NEW i \in hit PROVE idx < B(n + 1)
  <2>1. i \in 1 .. n /\ idx < B(i + 1)
    BY <1>5
  <2>2. i + 1 \in 1 .. (n + 1) /\ n + 1 \in 1 .. (n + 1) /\ i + 1 <= n + 1
    BY <1>1, <2>1
  <2>3. B(i + 1) <= B(n + 1)
    BY <1>4, <2>2
  <2> QED
    BY <1>2, <2>1, <2>3
<1>8. ASSUME idx < B(n + 1) PROVE hit # {}
  <2> DEFINE S == {i \in 1 .. (n + 1) : idx < B(i)}
  <2>1. n + 1 \in S /\ S \subseteq Nat
    BY <1>1, <1>8
  <2>2. PICK m \in S : \A i \in S : ~ (<<i, m>> \in OpToRel(<, Nat))
    BY <2>1, NatLessThanWellFounded, WFMin
  <2>3. \A i \in S : ~ (i < m)
    BY <2>1, <2>2, Zenon DEF OpToRel
  <2>4. m \in 1 .. (n + 1) /\ idx < B(m)
    OBVIOUS
  <2>5. m # 1
    BY <1>4, <2>4
  <2>6. m - 1 \in 1 .. n /\ m - 1 \in 1 .. (n + 1) /\ m - 1 < m /\ (m - 1) + 1 = m
    BY <1>1, <2>4, <2>5
  <2>7. ~ (idx < B(m - 1))
    BY <2>3, <2>6
  <2>8. B(m - 1) <= idx
    BY <1>2, <2>7
  <2>9. m - 1 \in hit
    BY <1>5, <2>4, <2>6, <2>8
  <2> QED
    BY <2>9
<1>9. ASSUME NEW i \in hit, NEW j \in hit PROVE ~ (i < j)
  <2>1. SUFFICES ASSUME i < j PROVE FALSE
    OBVIOUS
  <2>2. i \in 1 .. n /\ j \in 1 .. n /\ idx < B(i + 1) /\ B(j) <= idx
    BY <1>5
  <2>3. i + 1 \in 1 .. (n + 1) /\ j \in 1 .. (n + 1) /\ i + 1 <= j
    BY <1>1, <2>1, <2>2
  <2>4. B(i + 1) <= B(j)
    BY <1>4, <2>3
  <2> QED
    BY <1>2, <2>2, <2>4
<1>10. \A i, j \in hit : i = j
  BY <1>1, <1>5, <1>9
<1>11. hit # {} <=> idx < B(n + 1)
  BY <1>7, <1>8
<1> QED
  BY <1>4, <1>6, <1>10, <1>11

(* Extents of the same lengths have the same places before them.           *)
LEMMA SameBefore ==
  ASSUME NEW exts \in Seq(Extent), NEW new \in Seq(Extent), NEW i \in Nat,
         \A j \in Nat : j < i => /\ j \in DOMAIN exts <=> j \in DOMAIN new
                                 /\ j \in DOMAIN exts => new[j].len = exts[j].len
  PROVE  BlocksBefore(new, i) = BlocksBefore(exts, i)
<1>1. DOMAIN exts \subseteq Nat /\ DOMAIN new \subseteq Nat
  BY LenProperties
<1>2. ASSUME NEW t, NEW s
      PROVE  s \in Slots(t) <=> /\ s[1] \in DOMAIN t
                                /\ s \in {s[1]} \X (0 .. (t[s[1]].len - 1))
  BY DEF Slots
<1>3. ASSUME NEW s, s[1] < i
      PROVE  s \in Slots(new) <=> s \in Slots(exts)
  <2>1. CASE s[1] \in Nat
    <3>1. /\ s[1] \in DOMAIN exts <=> s[1] \in DOMAIN new
          /\ s[1] \in DOMAIN exts => new[s[1]].len = exts[s[1]].len
      BY <1>3, <2>1
    <3>2. s[1] \in DOMAIN exts =>
            {s[1]} \X (0 .. (new[s[1]].len - 1)) = {s[1]} \X (0 .. (exts[s[1]].len - 1))
      BY <3>1
    <3> QED
      BY <1>2, <3>1, <3>2
  <2>2. CASE s[1] \notin Nat
    BY <1>1, <1>2, <2>2
  <2> QED
    BY <2>1, <2>2
<1>4. {s \in Slots(new) : s[1] < i} = {s \in Slots(exts) : s[1] < i}
  BY <1>3
<1> QED
  BY <1>4 DEF BlocksBefore

(* osfs_extent_append_block maps one logical block more, at the end: what  *)
(* was mapped stays where it is.                                           *)
LEMMA AppendMaps ==
  ASSUME NEW exts \in Seq(Extent), NEW block \in Nat
  PROVE  LET new == osfs_extent_append(exts, block) IN
         /\ osfs_extent_total_blocks(new) = osfs_extent_total_blocks(exts) + 1
         /\ \A idx \in Nat : idx < osfs_extent_total_blocks(exts) =>
              osfs_extent_lookup_block(new, idx) = osfs_extent_lookup_block(exts, idx)
<1> DEFINE new == osfs_extent_append(exts, block)
           n == Len(exts)
           total == osfs_extent_total_blocks(exts)
           B(i) == BlocksBefore(exts, i)
           N(i) == BlocksBefore(new, i)
<1>1. n \in Nat /\ DOMAIN exts = 1 .. n /\ \A i \in 1 .. n : exts[i] \in Extent
  BY LenProperties
<1>2. new \in Seq(Extent)
  BY AppendTable
<1>3. total \in Nat /\ (\A i : B(i) \in Nat) /\ (\A i : N(i) \in Nat)
  BY <1>2, TotalIsNat
<1>4. B(n + 1) = total /\ N(Len(new) + 1) = osfs_extent_total_blocks(new)
  BY <1>2, BeforeEnds
<1>5. /\ \A i \in DOMAIN exts : B(i + 1) = B(i) + exts[i].len
      /\ \A i \in DOMAIN new : N(i + 1) = N(i) + new[i].len
  BY <1>2, BeforeNext
<1>6. \A idx, x : x \in osfs_extent_lookup_block(exts, idx) <=>
        \E i \in DOMAIN exts : /\ B(i) <= idx /\ idx < B(i) + exts[i].len
                               /\ x = exts[i].start + (idx - B(i))
  BY DEF osfs_extent_lookup_block
<1>7. \A idx, x : x \in osfs_extent_lookup_block(new, idx) <=>
        \E i \in DOMAIN new : /\ N(i) <= idx /\ idx < N(i) + new[i].len
                              /\ x = new[i].start + (idx - N(i))
  BY DEF osfs_extent_lookup_block
<1>9. CASE CanMerge(exts, block)
  <2> DEFINE e == [exts[n] EXCEPT !.len = @ + 1]
  <2>1. n \in 1 .. n
    BY <1>1, <1>9 DEF CanMerge
  <2>2. e \in Extent /\ e.start = exts[n].start /\ e.len = exts[n].len + 1
    BY <1>1, <2>1 DEF Extent
  <2>3. new = [exts EXCEPT ![n] = e]
    BY <1>9 DEF osfs_extent_append
  <2>4. Len(new) = n /\ \A j \in 1 .. n : new[j] = IF j = n THEN e ELSE exts[j]
    BY <2>1, <2>2, <2>3, ExceptSeq
  <2>5. DOMAIN new = 1 .. n
    BY <1>2, <2>4, LenProperties
  <2> HIDE DEF new
  <2>6. \A i \in 1 .. n : N(i) = B(i)
    <3> SUFFICES ASSUME NEW i \in 1 .. n PROVE N(i) = B(i)
      OBVIOUS
    <3>1. i \in Nat
      OBVIOUS
    <3>2. \A j \in Nat : j < i => /\ j \in DOMAIN exts <=> j \in DOMAIN new
                                  /\ j \in DOMAIN exts => new[j].len = exts[j].len
      BY <1>1, <2>4, <2>5
    <3> QED
      BY <1>2, <3>1, <3>2, SameBefore
  <2> HIDE DEF B, N, e
  <2>7. N(n + 1) = total + 1
    <3>1. N(n + 1) = N(n) + e.len
      BY <1>5, <2>1, <2>4, <2>5
    <3>2. total = B(n) + exts[n].len /\ exts[n].len \in Nat
      BY <1>1, <1>4, <1>5, <2>1 DEF Extent
    <3> QED
      BY <1>3, <2>1, <2>2, <2>6, <3>1, <3>2
  <2>8. ASSUME NEW idx \in Nat, idx < total
        PROVE  osfs_extent_lookup_block(new, idx) = osfs_extent_lookup_block(exts, idx)
    <3>1. total = B(n) + exts[n].len /\ exts[n].len \in Nat
      BY <1>1, <1>4, <1>5, <2>1 DEF Extent
    <3>2. ASSUME NEW j \in 1 .. n
          PROVE  idx < N(j) + new[j].len <=> idx < B(j) + exts[j].len
      <4>1. CASE j = n
        <5>1. N(j) + new[j].len = total + 1 /\ B(j) + exts[j].len = total
          BY <1>3, <2>2, <2>4, <2>6, <3>1, <4>1
        <5> QED
          BY <1>3, <2>8, <5>1
      <4>2. CASE j # n
        BY <2>4, <2>6, <4>2
      <4> QED
        BY <4>1, <4>2
    <3>3. \A i \in 1 .. n : new[i].start = exts[i].start
      BY <2>2, <2>4
    <3>4. \A x : x \in osfs_extent_lookup_block(new, idx)
                  <=> x \in osfs_extent_lookup_block(exts, idx)
      BY <1>1, <1>6, <1>7, <2>5, <2>6, <3>2, <3>3
    <3> QED
      BY <3>4, SetExtensionality
  <2> QED
    BY <1>4, <2>4, <2>7, <2>8 DEF new
<1>10. CASE ~CanMerge(exts, block)
  <2> DEFINE e == [start |-> block, len |-> 1]
  <2>1. e \in Extent /\ e.len = 1
    BY DEF Extent
  <2>2. new = Append(exts, e)
    BY <1>10 DEF osfs_extent_append
  <2>3. Len(new) = n + 1 /\ (\A j \in 1 .. n : new[j] = exts[j]) /\ new[n + 1] = e
    BY <2>1, <2>2, AppendProperties
  <2>4. DOMAIN new = 1 .. (n + 1)
    BY <1>2, <2>3, LenProperties
  <2> HIDE DEF new
  <2>5. \A i \in 1 .. (n + 1) : N(i) = B(i)
    <3> SUFFICES ASSUME NEW i \in 1 .. (n + 1) PROVE N(i) = B(i)
      OBVIOUS
    <3>1. i \in Nat
      OBVIOUS
    <3>2. \A j \in Nat : j < i => /\ j \in DOMAIN exts <=> j \in DOMAIN new
                                  /\ j \in DOMAIN exts => new[j].len = exts[j].len
      BY <1>1, <2>3, <2>4
    <3> QED
      BY <1>2, <3>1, <3>2, SameBefore
  <2> HIDE DEF B, N, e
  <2>6. n + 1 \in 1 .. (n + 1)
    BY <1>1
  <2>7. N(n + 1) = total
    BY <1>4, <2>5, <2>6
  <2>8. N((n + 1) + 1) = total + 1
    BY <1>5, <2>1, <2>3, <2>4, <2>6, <2>7
  <2>9. ASSUME NEW idx \in Nat, idx < total
        PROVE  osfs_extent_lookup_block(new, idx) = osfs_extent_lookup_block(exts, idx)
    <3>1. ~ (N(n + 1) <= idx)
      BY <1>3, <2>7, <2>9
    <3>2. \A j : j \in DOMAIN new <=> j \in DOMAIN exts \/ j = n + 1
      BY <1>1, <2>4
    <3>3. \A i \in DOMAIN exts : N(i) = B(i) /\ new[i] = exts[i]
      BY <1>1, <2>3, <2>5
    <3>4. \A x : x \in osfs_extent_lookup_block(new, idx)
                  <=> x \in osfs_extent_lookup_block(exts, idx)
      BY <1>6, <1>7, <3>1, <3>2, <3>3
    <3> QED
      BY <3>4, SetExtensionality
  <2> QED
    BY <1>4, <2>3, <2>8, <2>9 DEF new
<1> QED
  BY <1>9, <1>10

(* The runs of a table do not overlap.                                     *)
RunsApart(exts) ==
  \A i, j \in DOMAIN exts : i # j => ExtentBlocks(<<exts[i]>>) \cap ExtentBlocks(<<exts[j]>>) = {}

LEMMA OneExtent ==
  ASSUME NEW e
  PROVE  ExtentBlocks(<<e>>) = Run(e)
BY DEF ExtentBlocks

(* osfs_extent_append_block keeps the runs apart when it adds a new block. *)
LEMMA AppendApart ==
  ASSUME NEW exts \in Seq(Extent), NEW block \in Nat \ ExtentBlocks(exts), RunsApart(exts)
  PROVE  RunsApart(osfs_extent_append(exts, block))
<1> DEFINE new == osfs_extent_append(exts, block)
           n == Len(exts)
<1>1. n \in Nat /\ DOMAIN exts = 1 .. n /\ \A i \in 1 .. n : exts[i] \in Extent
  BY LenProperties
<1>2. \A i, j \in 1 .. n : i # j => Run(exts[i]) \cap Run(exts[j]) = {}
  BY <1>1, OneExtent DEF RunsApart
<1>3. \A i \in 1 .. n : block \notin Run(exts[i])
  BY <1>1 DEF ExtentBlocks
<1>4. SUFFICES ASSUME NEW i \in DOMAIN new, NEW j \in DOMAIN new, i # j
               PROVE  Run(new[i]) \cap Run(new[j]) = {}
  BY OneExtent DEF RunsApart
<1>5. CASE CanMerge(exts, block)
  <2> DEFINE e == [exts[n] EXCEPT !.len = @ + 1]
  <2>1. n \in 1 .. n /\ exts[n].start + exts[n].len = block
    BY <1>1, <1>5 DEF CanMerge
  <2>2. e \in Extent /\ e.start = exts[n].start /\ e.len = exts[n].len + 1
    BY <1>1, <2>1 DEF Extent
  <2>3. new = [exts EXCEPT ![n] = e]
    BY <1>5 DEF osfs_extent_append
  <2>4. new \in Seq(Extent) /\ Len(new) = n /\ \A k \in 1 .. n : new[k] = IF k = n THEN e ELSE exts[k]
    BY <2>1, <2>2, <2>3, ExceptSeq
  <2>5. DOMAIN new = 1 .. n
    BY <2>4, LenProperties
  <2>6. Run(e) = Run(exts[n]) \cup {block}
    BY <1>1, <2>1, <2>2 DEF Run, Extent
  <2>7. i \in 1 .. n /\ j \in 1 .. n
    BY <2>5
  <2> HIDE DEF new, e
  <2>8. /\ i # n => new[i] = exts[i]
        /\ j # n => new[j] = exts[j]
        /\ i = n => Run(new[i]) = Run(exts[i]) \cup {block}
        /\ j = n => Run(new[j]) = Run(exts[j]) \cup {block}
    BY <2>4, <2>6, <2>7
  <2>9. /\ Run(exts[i]) \cap Run(exts[j]) = {}
        /\ block \notin Run(exts[i]) /\ block \notin Run(exts[j])
    BY <1>2, <1>3, <1>4, <2>7
  <2>10. CASE i = n
    BY <1>4, <2>8, <2>9, <2>10
  <2>11. CASE j = n
    BY <1>4, <2>8, <2>9, <2>11
  <2>12. CASE i # n /\ j # n
    BY <2>8, <2>9, <2>12
  <2> QED
    BY <2>10, <2>11, <2>12
<1>6. CASE ~CanMerge(exts, block)
  <2> DEFINE e == [start |-> block, len |-> 1]
  <2>1. e \in Extent /\ Run(e) = {block}
    BY DEF Extent, Run
  <2>2. new = Append(exts, e)
    BY <1>6 DEF osfs_extent_append
  <2>3. /\ new \in Seq(Extent) /\ Len(new) = n + 1
        /\ \A k \in 1 .. n : new[k] = exts[k]
        /\ new[n + 1] = e
    BY <2>1, <2>2, AppendProperties
  <2>4. DOMAIN new = (1 .. n) \cup {n + 1}
    BY <1>1, <2>3, LenProperties
  <2>5. /\ i \in 1 .. n \/ i = n + 1
        /\ j \in 1 .. n \/ j = n + 1
    BY <2>4
  <2> HIDE DEF new, e
  <2>6. CASE i \in 1 .. n /\ j \in 1 .. n
    <3>1. new[i] = exts[i] /\ new[j] = exts[j]
      BY <2>3, <2>6
    <3>2. Run(exts[i]) \cap Run(exts[j]) = {}
      BY <1>2, <1>4, <2>6
    <3> QED
      BY <3>1, <3>2
  <2>7. CASE i \in 1 .. n /\ j = n + 1
    <3>1. new[i] = exts[i] /\ Run(new[j]) = {block}
      BY <2>1, <2>3, <2>7
    <3> QED
      BY <1>3, <2>7, <3>1
  <2>8. CASE i = n + 1 /\ j \in 1 .. n
    <3>1. new[j] = exts[j] /\ Run(new[i]) = {block}
      BY <2>1, <2>3, <2>8
    <3> QED
      BY <1>3, <2>8, <3>1
  <2> QED
    BY <1>4, <2>5, <2>6, <2>7, <2>8
<1> QED
  BY <1>5, <1>6

(* Two logical blocks of a table do not share a block.                     *)
LEMMA LookupInjective ==
  ASSUME NEW exts \in Seq(Extent), RunsApart(exts), NEW i1 \in Nat, NEW i2 \in Nat, NEW b,
         b \in osfs_extent_lookup_block(exts, i1),
         b \in osfs_extent_lookup_block(exts, i2)
  PROVE  i1 = i2
<1>1. PICK j1 \in DOMAIN exts :
        /\ BlocksBefore(exts, j1) <= i1
        /\ i1 < BlocksBefore(exts, j1) + exts[j1].len
        /\ b = exts[j1].start + (i1 - BlocksBefore(exts, j1))
  BY DEF osfs_extent_lookup_block
<1>2. PICK j2 \in DOMAIN exts :
        /\ BlocksBefore(exts, j2) <= i2
        /\ i2 < BlocksBefore(exts, j2) + exts[j2].len
        /\ b = exts[j2].start + (i2 - BlocksBefore(exts, j2))
  BY DEF osfs_extent_lookup_block
<1>3. BlocksBefore(exts, j1) \in Nat /\ BlocksBefore(exts, j2) \in Nat
  BY TotalIsNat
<1>4. exts[j1] \in Extent /\ exts[j2] \in Extent
  BY LenProperties
<1>5. b \in Run(exts[j1]) /\ b \in Run(exts[j2])
  <2>1. ASSUME NEW e \in Extent, NEW n \in Nat, NEW i \in Nat, n <= i, i < n + e.len
        PROVE  e.start + (i - n) \in Run(e)
    <3>1. PICK s \in Nat, l \in Nat : s = e.start /\ l = e.len
      BY DEF Extent
    <3>2. n <= i /\ i < n + l
      BY <2>1, <3>1
    <3>3. s + (i - n) \in s .. (s + l - 1)
      BY <3>2
    <3> QED
      BY <3>1, <3>3 DEF Run
  <2> QED
    BY <1>1, <1>2, <1>3, <1>4, <2>1
<1>6. j1 = j2
  BY <1>5, OneExtent DEF RunsApart
<1> QED
  BY <1>1, <1>2, <1>3, <1>4, <1>6 DEF Extent

(* A table whose runs are apart maps no more blocks than the disk has.     *)
LEMMA TotalBelow ==
  ASSUME NEW exts \in Seq(Extent), RunsApart(exts), NEW S, IsFiniteSet(S),
         ExtentBlocks(exts) \subseteq S
  PROVE  osfs_extent_total_blocks(exts) <= Cardinality(S)
<1> DEFINE total == osfs_extent_total_blocks(exts)
           f == [k \in 0 .. (total - 1) |-> CHOOSE b : b \in osfs_extent_lookup_block(exts, k)]
<1>1. total \in Nat
  BY TotalIsNat
<1>2. ASSUME NEW k \in 0 .. (total - 1) PROVE f[k] \in osfs_extent_lookup_block(exts, k)
  <2>1. k \in Nat /\ k < total
    BY <1>1
  <2>2. osfs_extent_lookup_block(exts, k) # {}
    BY <2>1, LookupMapped
  <2> QED
    BY <2>2
<1>3. f \in [0 .. (total - 1) -> S]
  <2>1. ASSUME NEW k \in 0 .. (total - 1) PROVE f[k] \in S
    <3>1. k \in Nat
      OBVIOUS
    <3>2. f[k] \in ExtentBlocks(exts)
      BY <1>2, <3>1, LookupInRuns
    <3> QED
      BY <3>2
  <2> QED
    BY <2>1
<1>4. \A k, l \in 0 .. (total - 1) : f[k] = f[l] => k = l
  BY <1>2, LookupInjective
<1> HIDE DEF f
<1>5. f \in Injection(0 .. (total - 1), S)
  BY <1>3, <1>4 DEF Injection, IsInjective
<1>6. IsFiniteSet(0 .. (total - 1)) /\ Cardinality(0 .. (total - 1)) = total
  <2>1. total - 1 \in Int /\ 0 \in Int /\ (IF 0 > total - 1 THEN 0 ELSE (total - 1) - 0 + 1) = total
    BY <1>1
  <2> QED
    BY <2>1, FS_Interval
<1>7. Cardinality(0 .. (total - 1)) <= Cardinality(S)
  BY <1>5, FS_Injection
<1> QED
  BY <1>6, <1>7

(* The block that osfs_extent_append_block adds is the next logical block. *)
LEMMA AppendLast ==
  ASSUME NEW exts \in Seq(Extent), NEW block \in Nat
  PROVE  osfs_extent_lookup_block(osfs_extent_append(exts, block),
                                  osfs_extent_total_blocks(exts)) = {block}
<1> DEFINE new == osfs_extent_append(exts, block)
           n == Len(exts)
           m == Len(new)
           total == osfs_extent_total_blocks(exts)
<1>1. n \in Nat /\ DOMAIN exts = 1 .. n /\ \A i \in 1 .. n : exts[i] \in Extent
  BY LenProperties
<1>2. new \in Seq(Extent)
  BY AppendTable
<1>3. m \in Nat /\ DOMAIN new = 1 .. m
  BY <1>2, LenProperties
<1>4. total \in Nat /\ BlocksBefore(new, m) \in Nat
  BY <1>2, TotalIsNat
<1>5. osfs_extent_total_blocks(new) = total + 1
  BY AppendMaps
<1>6. /\ m \in 1 .. m /\ new[m].len \in Nat \ {0}
      /\ new[m].start \in Nat /\ new[m].start + new[m].len = block + 1
  <2>1. CASE CanMerge(exts, block)
    <3> DEFINE e == [exts[n] EXCEPT !.len = @ + 1]
    <3>1. n \in 1 .. n /\ exts[n].start + exts[n].len = block
      BY <1>1, <2>1 DEF CanMerge
    <3>2. e \in Extent /\ e.start = exts[n].start /\ e.len = exts[n].len + 1
      BY <1>1, <3>1 DEF Extent
    <3>3. new = [exts EXCEPT ![n] = e]
      BY <2>1 DEF osfs_extent_append
    <3>4. m = n /\ new[n] = e
      BY <3>1, <3>2, <3>3, ExceptSeq
    <3> HIDE DEF new, e
    <3>5. exts[n].len \in Nat /\ exts[n].start \in Nat
      BY <1>1, <3>1 DEF Extent
    <3> QED
      BY <3>1, <3>2, <3>4, <3>5
  <2>2. CASE ~CanMerge(exts, block)
    <3> DEFINE e == [start |-> block, len |-> 1]
    <3>1. new = Append(exts, e)
      BY <2>2 DEF osfs_extent_append
    <3>2. e \in Extent /\ e.start = block /\ e.len = 1
      BY DEF Extent
    <3>3. m = n + 1 /\ new[n + 1] = e
      BY <3>1, <3>2, AppendProperties
    <3> HIDE DEF new, e
    <3> QED
      BY <1>1, <3>2, <3>3
  <2> QED
    BY <2>1, <2>2
<1> HIDE DEF new, total, m
<1>7. BlocksBefore(new, m) + new[m].len = total + 1
  <2>1. BlocksBefore(new, m + 1) = osfs_extent_total_blocks(new)
    BY <1>2, BeforeEnds DEF m
  <2>2. BlocksBefore(new, m + 1) = BlocksBefore(new, m) + new[m].len
    BY <1>2, <1>3, <1>6, BeforeNext
  <2> QED
    BY <1>5, <2>1, <2>2
<1>8. BlocksBefore(new, m) <= total /\ total < BlocksBefore(new, m) + new[m].len
  BY <1>4, <1>6, <1>7
<1>9. new[m].start + (total - BlocksBefore(new, m)) = block
  <2>1. PICK s \in Nat, l \in Nat, t \in Nat, u \in Nat :
          s = new[m].start /\ l = new[m].len /\ t = total /\ u = BlocksBefore(new, m)
    BY <1>4, <1>6
  <2>2. s + l = block + 1 /\ u + l = t + 1
    BY <1>6, <1>7, <2>1
  <2>3. s + (t - u) = block
    BY <2>2
  <2> QED
    BY <2>1, <2>3
<1>10. block \in osfs_extent_lookup_block(new, total)
  BY <1>3, <1>6, <1>8, <1>9 DEF osfs_extent_lookup_block
<1>11. osfs_extent_lookup_block(new, total) = {block}
  BY <1>2, <1>4, <1>10, LookupMapped
<1> QED
  BY <1>11 DEF new, total

-----------------------------------------------------------------------------
(* Min is the bit that the allocators of inode.c find first.               *)
LEMMA MinProperties ==
  ASSUME NEW S \in SUBSET Nat, S # {}
  PROVE  Min(S) \in S /\ \A y \in S : Min(S) <= y
<1>1. PICK x \in S : \A y \in S : ~ (<<y, x>> \in OpToRel(<, Nat))
  BY NatLessThanWellFounded, WFMin
<1>2. x \in Nat /\ \A y \in S : y \in Nat
  OBVIOUS
<1>3. \A y \in S : ~ (y < x)
  BY <1>1, <1>2, Zenon DEF OpToRel
<1>4. \A y \in S : x <= y
  BY <1>2, <1>3
<1> QED
  BY <1>4 DEF Min

(* A uint32_t stays one when it is decremented or incremented.             *)
LEMMA CounterTypes ==
  ASSUME NEW n \in 0 .. (U32 - 1)
  PROVE  Dec(n) \in 0 .. (U32 - 1) /\ Inc(n) \in 0 .. (U32 - 1)
BY SizesAssumption DEF Dec, Inc

LEMMA WordType ==
  ASSUME NEW n \in Nat
  PROVE  n % U32 \in Nat
<1>1. U32 \in Nat /\ U32 > 0
  BY SizesAssumption
<1> QED
  BY <1>1

(* The chunk of a call is at most what remains of the call.                *)
LEMMA ChunkType ==
  ASSUME NEW c \in CallType
  PROVE  Chunk(c) \in Nat /\ Chunk(c) <= c.rem
<1>1. c.rem \in Nat /\ c.pos \in Nat /\ BLOCK_SIZE \in Nat \ {0}
  BY SizesAssumption DEF CallType
<1>2. c.pos % BLOCK_SIZE \in 0 .. (BLOCK_SIZE - 1)
  BY <1>1
<1>3. {c.rem, BLOCK_SIZE - (c.pos % BLOCK_SIZE)} \in SUBSET Nat
  BY <1>1, <1>2
<1> QED
  BY <1>3, MinProperties DEF Chunk

(* What the constructors of blocks, inodes and calls build has its type.   *)
LEMMA BlockTypes ==
  /\ \A bytes \in [Offsets -> Bytes] : RawBlock(bytes) \in BlockType
  /\ \A exts \in Seq(Extent) : ExtentTable(exts) \in BlockType
  /\ \A entries \in Seq(DirEntry) : DirBlock(entries) \in BlockType
  /\ ZeroBytes \in [Offsets -> Bytes]
<1>1. ZeroBytes \in [Offsets -> Bytes]
  BY DEF ZeroBytes, Bytes
<1>2. << >> \in Seq(Extent) /\ << >> \in Seq(DirEntry)
  BY EmptySeq
<1> QED
  BY <1>1, <1>2 DEF RawBlock, ExtentTable, DirBlock, Block, BlockType

LEMMA IdleType == Idle \in CallType
BY SizesAssumption, InputsAssumption DEF Idle, CallType, PCs, Blocks, Bytes

(* The VFS inodes of an inode, the root's among them. *)
LEMMA VfsInodeTypes ==
  /\ \A ino \in Inodes, via \in DentryKinds : <<ino, via>> \in VfsInodes
  /\ RootVfsInode \in VfsInodes
<1>1. ROOT_INODE \in Inodes
  BY SizesAssumption DEF ROOT_INODE, Inodes
<1> QED
  BY <1>1, InputsAssumption DEF VfsInodes, RootVfsInode

-----------------------------------------------------------------------------
(* A file system as osfs_fill_super leaves it, with no call in progress:    *)
(* Init, and what a later mount of module OsfsMount starts from.           *)
Empty ==
  /\ inode_bitmap = {ROOT_INODE} /\ block_bitmap = {}
  /\ nr_free_inodes = INODE_COUNT - 1 /\ nr_free_blocks = DATA_BLOCK_COUNT
  /\ inode_table = [i \in Inodes |-> IF i = ROOT_INODE THEN OsfsInode("dir", 0, 0, 0)
                                                     ELSE OsfsInode("none", 0, 0, 0)]
  /\ data_blocks = [b \in Blocks |-> RawBlock(ZeroBytes)]
  /\ vinode = [v \in VfsInodes |-> VfsInode(0, 0)]
  /\ dcache = [n \in Names |-> 0]
  /\ call \in [Procs -> CallType] /\ \A p \in Procs : call[p].pc = "idle"
  /\ ret = "none"

LEMMA InitIsEmpty == Init => Empty
<1>1. Idle.pc = "idle"
  BY DEF Idle
<1> QED
  BY <1>1, IdleType DEF Init, Empty

LEMMA TypeInvEmpty == Empty => TypeInv
<1> SUFFICES ASSUME Empty PROVE TypeInv
  OBVIOUS
<1> USE SizesAssumption DEF Empty
<1>1. ROOT_INODE \in Inodes
  BY DEF ROOT_INODE, Inodes
<1>2. inode_table \in [Inodes -> InodeType]
  BY <1>1 DEF OsfsInode, InodeType, Blocks
<1>3. data_blocks \in [Blocks -> BlockType]
  BY BlockTypes
<1>4. call \in [Procs -> CallType]
  OBVIOUS
<1>5. /\ nr_free_inodes \in 0 .. (U32 - 1) /\ nr_free_blocks \in 0 .. (U32 - 1)
      /\ inode_bitmap \in SUBSET Inodes /\ ret \in Codes
  BY <1>1 DEF Codes, ROOT_INODE
<1>51. vinode \in [VfsInodes -> [i_size : Nat, i_blocks : Nat]]
  BY DEF VfsInode
<1>52. TypeOK
  BY <1>1, <1>2, <1>3, <1>4, <1>5, <1>51 DEF TypeOK
<1>6. CallsTyped
  BY DEF CallsTyped
<1>7. RunsOnDisk
  BY DEF RunsOnDisk, RawBlock, Block, ExtentBlocks
<1> QED
  BY <1>52, <1>6, <1>7 DEF TypeInv

LEMMA TypeInvInit == Init => TypeInv
BY InitIsEmpty, TypeInvEmpty

-----------------------------------------------------------------------------
(* A handler that returns leaves its process idle.                         *)
LEMMA TypeReturn ==
  ASSUME TypeInv, NEW p \in Procs, NEW code \in Codes, Return(p, code)
  PROVE  /\ call' \in [Procs -> CallType]
         /\ CallsTyped'
         /\ ret' \in Codes
<1>1. call \in [Procs -> CallType] /\ CallsTyped
  BY DEF TypeInv, TypeOK
<1>2. call' = [call EXCEPT ![p] = Idle] /\ ret' = code
  BY DEF Return
<1>3. Idle.pc = "idle"
  BY DEF Idle
<1>4. CallsTyped'
  BY <1>1, <1>2, <1>3 DEF CallsTyped
<1> QED
  BY <1>1, <1>2, <1>4, IdleType

(* A handler that goes on with its call on a valid inode.                  *)
LEMMA TypeGoOn ==
  ASSUME TypeInv, NEW p \in Procs, NEW c \in CallType, c.ino \in Inodes,
         c.pc = "new_inode" => c.name \in Names,
         call' = [call EXCEPT ![p] = c], NoReturn
  PROVE  /\ call' \in [Procs -> CallType]
         /\ CallsTyped'
         /\ ret' \in Codes
<1>1. call \in [Procs -> CallType] /\ CallsTyped
  BY DEF TypeInv, TypeOK
<1>2. CallsTyped'
  BY <1>1 DEF CallsTyped
<1> QED
  BY <1>1, <1>2 DEF NoReturn, Codes

(* The first clear bit of a bitmap.                                        *)
LEMMA FirstFree ==
  /\ FreeBlocks # {} => Min(FreeBlocks) \in Blocks /\ Min(FreeBlocks) \notin block_bitmap
  /\ FreeInodes # {} => Min(FreeInodes) \in Inodes /\ Min(FreeInodes) \notin inode_bitmap
<1>1. Blocks \subseteq Nat /\ Inodes \subseteq Nat
  BY SizesAssumption DEF Blocks, Inodes
<1>2. ASSUME FreeBlocks # {} PROVE Min(FreeBlocks) \in FreeBlocks
  <2>1. FreeBlocks \in SUBSET Nat
    BY <1>1 DEF FreeBlocks
  <2> QED
    BY <1>2, <2>1, MinProperties
<1>3. ASSUME FreeInodes # {} PROVE Min(FreeInodes) \in FreeInodes
  <2>1. FreeInodes \in SUBSET Nat
    BY <1>1 DEF FreeInodes
  <2> QED
    BY <1>3, <2>1, MinProperties
<1> QED
  BY <1>2, <1>3 DEF FreeBlocks, FreeInodes

(* The root directory's first block. *)
LEMMA TypeGiveRootBlock ==
  ASSUME TypeInv, GiveRootBlock, ~(RootNeedsBlock /\ FreeBlocks = {})
  PROVE  /\ block_bitmap' \in SUBSET Blocks
         /\ nr_free_blocks' \in 0 .. (U32 - 1)
         /\ inode_table' \in [Inodes -> InodeType]
         /\ vinode' \in [VfsInodes -> [i_size : Nat, i_blocks : Nat]]
<1> USE DEF TypeInv, TypeOK
<1>1. CASE RootNeedsBlock
  <2>1. Min(FreeBlocks) \in Blocks
    BY <1>1, FirstFree
  <2> QED
    BY <1>1, <2>1, CounterTypes DEF GiveRootBlock, InodeType
<1>2. CASE ~RootNeedsBlock
  BY <1>2 DEF GiveRootBlock, blockVars
<1> QED
  BY <1>1, <1>2

(* Blocks that keep their contents keep their runs.                        *)
LEMMA RunsKept ==
  ASSUME TypeInv, NEW b \in Blocks, NEW new \in BlockType,
         ExtentBlocks(new.exts) \subseteq Blocks,
         data_blocks' = [data_blocks EXCEPT ![b] = new]
  PROVE  data_blocks' \in [Blocks -> BlockType] /\ RunsOnDisk'
<1> USE DEF TypeInv, TypeOK
<1>1. data_blocks' \in [Blocks -> BlockType]
  OBVIOUS
<1>2. ASSUME NEW d \in Blocks PROVE ExtentBlocks(data_blocks'[d].exts) \subseteq Blocks
  BY DEF RunsOnDisk
<1> QED
  BY <1>1, <1>2 DEF RunsOnDisk, Blocks

LEMMA RunsUnchanged ==
  ASSUME TypeInv, UNCHANGED data_blocks
  PROVE  data_blocks' \in [Blocks -> BlockType] /\ RunsOnDisk'
BY DEF TypeInv, TypeOK, RunsOnDisk

-----------------------------------------------------------------------------
(* Each action of osfs_create keeps the types.                             *)
LEMMA TypeCreateNameTooLong ==
  ASSUME TypeInv, NEW p \in Procs, NEW n \in Names, CreateNameTooLong(p, n)
  PROVE  TypeInv'
BY TypeReturn, RunsUnchanged
   DEF CreateNameTooLong, fsVars, inodeVars, blockVars, TypeInv, TypeOK, Codes

LEMMA TypeCreateNoSpace ==
  ASSUME TypeInv, NEW p \in Procs, NEW n \in Names, CreateNoSpace(p, n)
  PROVE  TypeInv'
<1>1. /\ block_bitmap' \in SUBSET Blocks
      /\ nr_free_blocks' \in 0 .. (U32 - 1)
      /\ inode_table' \in [Inodes -> InodeType]
      /\ vinode' \in [VfsInodes -> [i_size : Nat, i_blocks : Nat]]
  BY TypeGiveRootBlock DEF CreateNoSpace, TypeInv, TypeOK, blockVars
<1>2. Return(p, "ENOSPC") /\ UNCHANGED <<inodeVars, data_blocks, dcache>>
  BY DEF CreateNoSpace
<1> QED
  BY <1>1, <1>2, TypeReturn, RunsUnchanged DEF inodeVars, TypeInv, TypeOK, Codes

LEMMA TypeCreateStart ==
  ASSUME TypeInv, NEW p \in Procs, NEW n \in Names, CreateStart(p, n)
  PROVE  TypeInv'
<1> DEFINE ino == Min(FreeInodes)
           c == [Idle EXCEPT !.pc = "new_inode", !.name = n, !.ino = ino]
<1>1. ino \in Inodes
  BY FirstFree DEF CreateStart
<1>2. c \in CallType /\ c.ino \in Inodes /\ c.name \in Names
  BY <1>1, IdleType DEF CallType, PCs
<1>3. call' = [call EXCEPT ![p] = c] /\ NoReturn
  BY DEF CreateStart
<1>4. call' \in [Procs -> CallType] /\ CallsTyped' /\ ret' \in Codes
  BY <1>2, <1>3, TypeGoOn
<1>5. /\ block_bitmap' \in SUBSET Blocks
      /\ nr_free_blocks' \in 0 .. (U32 - 1)
      /\ inode_table' \in [Inodes -> InodeType]
      /\ vinode' \in [VfsInodes -> [i_size : Nat, i_blocks : Nat]]
  BY TypeGiveRootBlock DEF CreateStart
<1>6. inode_bitmap' \in SUBSET Inodes /\ nr_free_inodes' \in 0 .. (U32 - 1)
  BY <1>1, CounterTypes DEF CreateStart, TypeInv, TypeOK
<1>7. UNCHANGED <<data_blocks, dcache>>
  BY DEF CreateStart
<1> QED
  BY <1>4, <1>5, <1>6, <1>7, RunsUnchanged DEF TypeInv, TypeOK

LEMMA TypeCreateNoMemory ==
  ASSUME TypeInv, NEW p \in Procs, CreateNoMemory(p)
  PROVE  TypeInv'
BY TypeReturn, RunsUnchanged
   DEF CreateNoMemory, fsVars, inodeVars, blockVars, TypeInv, TypeOK, Codes

LEMMA TypeCreateNoBlock ==
  ASSUME TypeInv, NEW p \in Procs, CreateNoBlock(p)
  PROVE  TypeInv'
<1>1. OsfsInode("reg", 0, 1, 0) \in InodeType
  BY SizesAssumption DEF OsfsInode, InodeType, Blocks
<1>2. inode_table' \in [Inodes -> InodeType]
  BY <1>1 DEF CreateNoBlock, TypeInv, TypeOK
<1>3. /\ Return(p, "ENOSPC")
      /\ UNCHANGED <<inodeVars, blockVars, data_blocks, vinode, dcache>>
  BY DEF CreateNoBlock
<1> QED
  BY <1>2, <1>3, TypeReturn, RunsUnchanged DEF inodeVars, blockVars, TypeInv, TypeOK, Codes

LEMMA TypeCreateRollback ==
  ASSUME TypeInv, NEW p \in Procs, CreateRollback(p)
  PROVE  TypeInv'
<1> DEFINE c == call[p]
           b == Min(FreeBlocks)
<1>1. b \in Blocks
  BY FirstFree DEF CreateRollback
<1>2. OsfsInode("reg", 0, 1, b) \in InodeType
  BY <1>1 DEF OsfsInode, InodeType
<1>3. inode_table' \in [Inodes -> InodeType]
  BY <1>2 DEF CreateRollback, TypeInv, TypeOK
<1>4. nr_free_blocks' \in 0 .. (U32 - 1) /\ nr_free_inodes' \in 0 .. (U32 - 1)
  BY CounterTypes DEF CreateRollback, TypeInv, TypeOK
<1>5. inode_bitmap' \in SUBSET Inodes
  BY DEF CreateRollback, TypeInv, TypeOK
<1>6. osfs_add_dir_entry(c.name) \in Codes
  BY DEF osfs_add_dir_entry, Codes
<1>7. /\ Return(p, osfs_add_dir_entry(c.name))
      /\ UNCHANGED <<block_bitmap, data_blocks, vinode, dcache>>
  BY DEF CreateRollback
<1>8. call' \in [Procs -> CallType] /\ CallsTyped' /\ ret' \in Codes
  BY <1>6, <1>7, TypeReturn
<1> QED
  BY <1>3, <1>4, <1>5, <1>7, <1>8, RunsUnchanged DEF TypeInv, TypeOK

LEMMA RootType ==
  ASSUME TypeInv
  PROVE  ROOT_INODE \in Inodes /\ root \in InodeType /\ Dir \in Seq(DirEntry)
<1>1. ROOT_INODE \in Inodes
  BY SizesAssumption DEF ROOT_INODE, Inodes
<1>2. root \in InodeType
  BY <1>1 DEF root, TypeInv, TypeOK
<1>3. data_blocks[root.i_block].entries \in Seq(DirEntry)
  BY <1>2 DEF TypeInv, TypeOK, InodeType, BlockType
<1>4. << >> \in Seq(DirEntry)
  BY EmptySeq
<1> QED
  BY <1>1, <1>2, <1>3, <1>4 DEF Dir

LEMMA TypeCreateDone ==
  ASSUME TypeInv, NEW p \in Procs, CreateDone(p)
  PROVE  TypeInv'
<1> DEFINE c == call[p]
           b == Min(FreeBlocks)
           e == [filename |-> c.name, inode_no |-> c.ino]
           d == DirBlock(Append(Dir, e))
<1>1. b \in Blocks
  BY FirstFree DEF CreateDone
<1>2. c \in CallType /\ c.ino \in Inodes /\ c.name \in Names
  BY DEF CreateDone, TypeInv, TypeOK, CallsTyped
<1>3. OsfsInode("reg", 0, 1, b) \in InodeType
  BY <1>1 DEF OsfsInode, InodeType
<1>4. inode_table' \in [Inodes -> InodeType]
  <2> DEFINE t == [inode_table EXCEPT ![c.ino] = OsfsInode("reg", 0, 1, b)]
  <2>1. t \in [Inodes -> InodeType]
    BY <1>3 DEF TypeInv, TypeOK
  <2>2. inode_table' = [t EXCEPT ![ROOT_INODE].i_size = root.i_size + 1]
    BY DEF CreateDone
  <2>3. root.i_size + 1 \in Nat /\ ROOT_INODE \in Inodes
    BY RootType DEF InodeType
  <2> HIDE DEF t
  <2> QED
    BY <2>1, <2>2, <2>3 DEF InodeType
<1>5. nr_free_blocks' \in 0 .. (U32 - 1) /\ nr_free_inodes' \in 0 .. (U32 - 1)
  BY CounterTypes DEF CreateDone, TypeInv, TypeOK
<1>6. block_bitmap' \in SUBSET Blocks /\ UNCHANGED inode_bitmap
  BY <1>1 DEF CreateDone, TypeInv, TypeOK
<1>7. d \in BlockType /\ ExtentBlocks(d.exts) \subseteq Blocks
  <2>1. e \in DirEntry
    BY <1>2 DEF DirEntry
  <2>2. Append(Dir, e) \in Seq(DirEntry)
    BY <2>1, RootType, AppendProperties
  <2>3. ExtentBlocks(d.exts) = {}
    BY NoExtents DEF DirBlock, Block
  <2> QED
    BY <2>2, <2>3, BlockTypes
<1>8. data_blocks' = [data_blocks EXCEPT ![root.i_block] = d] /\ root.i_block \in Blocks
  BY RootType DEF CreateDone, InodeType
<1>9. data_blocks' \in [Blocks -> BlockType] /\ RunsOnDisk'
  BY <1>7, <1>8, RunsKept
<1>10. vinode' \in [VfsInodes -> [i_size : Nat, i_blocks : Nat]]
  <2> DEFINE t == [vinode EXCEPT ![<<c.ino, "create">>] = VfsInode(0, 1)]
  <2>1. t \in [VfsInodes -> [i_size : Nat, i_blocks : Nat]]
    BY DEF VfsInode, TypeInv, TypeOK
  <2>2. vinode' = [t EXCEPT ![RootVfsInode].i_size = root.i_size + 1]
    BY DEF CreateDone
  <2>3. root.i_size + 1 \in Nat
    BY RootType DEF InodeType
  <2> HIDE DEF t
  <2> QED
    BY <2>1, <2>2, <2>3, VfsInodeTypes
<1>11. dcache' \in [Names -> Inodes \cup {0}]
  BY <1>2 DEF CreateDone, TypeInv, TypeOK
<1>12. call' \in [Procs -> CallType] /\ CallsTyped' /\ ret' \in Codes
  BY TypeReturn DEF CreateDone, Codes
<1> QED
  BY <1>4, <1>5, <1>6, <1>9, <1>10, <1>11, <1>12 DEF TypeInv, TypeOK

-----------------------------------------------------------------------------
(* Each action of osfs_extent_do_write keeps the types.                    *)
LEMMA TableType ==
  ASSUME TypeInv, NEW ino \in Inodes
  PROVE  /\ inode_table[ino] \in InodeType
         /\ Table(ino) \in Seq(Extent)
         /\ ExtentBlocks(Table(ino)) \subseteq Blocks
         /\ \A idx \in Nat : osfs_extent_lookup_block(Table(ino), idx) \subseteq Blocks
<1>1. inode_table[ino] \in InodeType
  BY DEF TypeInv, TypeOK
<1>2. data_blocks[inode_table[ino].i_block] \in BlockType
  BY <1>1 DEF TypeInv, TypeOK, InodeType
<1>3. Table(ino) \in Seq(Extent) /\ ExtentBlocks(Table(ino)) \subseteq Blocks
  BY <1>1, <1>2 DEF Table, BlockType, InodeType, TypeInv, RunsOnDisk
<1> QED
  BY <1>1, <1>3, LookupInRuns

(* What a call in progress holds.                                          *)
LEMMA CallTypeNow ==
  ASSUME TypeInv, NEW p \in Procs, call[p].pc # "idle"
  PROVE  /\ call[p] \in CallType /\ call[p].ino \in Inodes
         /\ LogicalBlock(call[p]) \in Nat
         /\ Chunk(call[p]) \in Nat /\ Chunk(call[p]) <= call[p].rem
<1>1. call[p] \in CallType /\ call[p].ino \in Inodes
  BY DEF TypeInv, TypeOK, CallsTyped
<1>2. call[p].pos \in Nat
  BY <1>1 DEF CallType
<1>3. LogicalBlock(call[p]) \in Nat
  BY <1>2, SizesAssumption DEF LogicalBlock
<1> QED
  BY <1>1, <1>3, ChunkType

(* The call record as the steps of a write update it.                      *)
LEMMA CallUpdates ==
  ASSUME NEW c \in CallType, NEW phys \in Blocks, NEW k \in Nat, k <= c.rem
  PROVE  /\ [c EXCEPT !.pc = "copy", !.phys = phys] \in CallType
         /\ [c EXCEPT !.pc = "copy", !.phys = phys, !.total = @ + 1] \in CallType
         /\ [c EXCEPT !.pc = "map", !.pos = @ + k, !.rem = @ - k, !.done = @ + k,
                      !.phys = 0] \in CallType
         /\ [c EXCEPT !.pos = @ + k, !.rem = @ - k] \in CallType
<1>4. c.pos \in Nat /\ c.rem \in Nat /\ c.done \in Nat /\ c.total \in Nat
  BY DEF CallType
<1>1. c.pos + k \in Nat /\ c.rem - k \in Nat /\ c.done + k \in Nat /\ c.total + 1 \in Nat
  BY <1>4
<1>2. 0 \in Blocks
  BY SizesAssumption DEF Blocks
<1>3. "copy" \in PCs /\ "map" \in PCs
  BY DEF PCs
<1> QED
  BY <1>1, <1>2, <1>3 DEF CallType

LEMMA TypeWriteMapped ==
  ASSUME TypeInv, NEW p \in Procs, WriteMapped(p)
  PROVE  TypeInv'
<1>1. call[p].pc # "idle" /\ NoReturn /\ UNCHANGED fsVars
  BY DEF WriteMapped
<1>2. PICK phys \in osfs_extent_lookup_block(Table(call[p].ino), LogicalBlock(call[p])) :
        call' = [call EXCEPT ![p].pc = "copy", ![p].phys = phys]
  BY DEF WriteMapped
<1> DEFINE c == [call[p] EXCEPT !.pc = "copy", !.phys = phys]
<1>3. phys \in Blocks
  BY <1>1, <1>2, CallTypeNow, TableType
<1>4. c \in CallType /\ c.ino \in Inodes /\ c.pc = "copy"
  BY <1>1, <1>3, CallTypeNow DEF CallType, PCs
<1>5. call' = [call EXCEPT ![p] = c]
  BY <1>1, <1>2 DEF TypeInv, TypeOK
<1>6. call' \in [Procs -> CallType] /\ CallsTyped' /\ ret' \in Codes
  BY <1>1, <1>4, <1>5, TypeGoOn
<1> QED
  BY <1>1, <1>6, RunsUnchanged DEF fsVars, inodeVars, blockVars, TypeInv, TypeOK

LEMMA TypeWriteRefused ==
  ASSUME TypeInv, NEW p \in Procs, WriteHole(p) \/ WriteNoSpace(p)
  PROVE  TypeInv'
BY TypeReturn, RunsUnchanged
   DEF WriteHole, WriteNoSpace, fsVars, inodeVars, blockVars, TypeInv, TypeOK, Codes

LEMMA OpenFileTypes ==
  ASSUME TypeInv, NEW ino \in OpenFiles
  PROVE  ino \in Inodes
BY DEF TypeInv, TypeOK, OpenFiles

LEMMA TypeWriteStart ==
  ASSUME TypeInv, NEW p \in Procs, NEW ino \in OpenFiles, NEW via \in DentryKinds,
         NEW pos \in Positions, NEW len \in Lens, NEW v \in Vals,
         WriteStart(p, ino, via, pos, len, v)
  PROVE  TypeInv'
<1> DEFINE f == WithTable(ino)
           exts == FormattedTable(f.i_block)
           grows == len = 0 /\ pos > f.i_size
           new == IF grows THEN [f EXCEPT !.i_size = pos % U32] ELSE f
<1>1. ino \in Inodes /\ pos \in Nat /\ len \in Nat /\ pos % U32 \in Nat
  BY OpenFileTypes, InputsAssumption, WordType
<1>2. CASE NeedsTable(ino) /\ FreeBlocks = {}
  <2>1. /\ Return(p, "ENOSPC")
        /\ UNCHANGED <<blockVars, inode_table, data_blocks, vinode, inodeVars, dcache>>
    BY <1>2 DEF WriteStart
  <2> QED
    BY <2>1, TypeReturn, RunsUnchanged DEF blockVars, inodeVars, TypeInv, TypeOK, Codes
<1>3. CASE ~(NeedsTable(ino) /\ FreeBlocks = {})
  <2>1. f \in InodeType
    <3>1. inode_table[ino] \in InodeType
      BY <1>1, TableType
    <3>2. NeedsTable(ino) => Min(FreeBlocks) \in Blocks
      BY <1>3, FirstFree
    <3> QED
      BY <3>1, <3>2 DEF WithTable, InodeType
  <2>2. f.i_block \in Blocks
    BY <2>1 DEF InodeType
  <2>3. exts \in Seq(Extent) /\ ExtentBlocks(exts) \subseteq Blocks
    <3>1. << >> \in Seq(Extent) /\ ExtentBlocks(<< >>) = {}
      BY EmptySeq, NoExtents
    <3>2. data_blocks[f.i_block].exts \in Seq(Extent)
      BY <2>2 DEF TypeInv, TypeOK, BlockType
    <3>3. ExtentBlocks(data_blocks[f.i_block].exts) \subseteq Blocks
      BY <2>2 DEF TypeInv, RunsOnDisk
    <3> QED
      BY <3>1, <3>2, <3>3 DEF FormattedTable
  <2>4. data_blocks' \in [Blocks -> BlockType] /\ RunsOnDisk'
    <3>1. data_blocks' = [data_blocks EXCEPT ![f.i_block] = ExtentTable(exts)]
      BY <1>3 DEF WriteStart
    <3>2. ExtentTable(exts) \in BlockType /\ ExtentTable(exts).exts = exts
      BY <2>3, BlockTypes DEF ExtentTable, Block
    <3> QED
      BY <2>2, <2>3, <3>1, <3>2, RunsKept
  <2>5. block_bitmap' \in SUBSET Blocks /\ nr_free_blocks' \in 0 .. (U32 - 1)
    BY <1>3, <2>2, CounterTypes DEF WriteStart, TypeInv, TypeOK
  <2>6. inode_table' \in [Inodes -> InodeType]
    <3>1. new \in InodeType
      BY <1>1, <2>1 DEF InodeType
    <3>2. inode_table' = [inode_table EXCEPT ![ino] = new]
      BY <1>3 DEF WriteStart
    <3> QED
      BY <3>1, <3>2 DEF TypeInv, TypeOK
  <2>7. vinode' \in [VfsInodes -> [i_size : Nat, i_blocks : Nat]]
    <3> DEFINE w == [vinode[<<ino, via>>] EXCEPT !.i_size = IF grows THEN pos % U32 ELSE @,
                                !.i_blocks = IF NeedsTable(ino) THEN 1 ELSE @]
    <3>1. vinode \in [VfsInodes -> [i_size : Nat, i_blocks : Nat]]
      BY DEF TypeInv, TypeOK
    <3>4. <<ino, via>> \in VfsInodes
      BY <1>1, VfsInodeTypes
    <3>2. w \in [i_size : Nat, i_blocks : Nat]
      BY <1>1, <3>1, <3>4
    <3>3. vinode' = [vinode EXCEPT ![<<ino, via>>] = w]
      BY <1>1, <1>3, <3>1, <3>4 DEF WriteStart
    <3> HIDE DEF w
    <3> QED
      BY <3>1, <3>2, <3>3
  <2>8. call' \in [Procs -> CallType] /\ CallsTyped' /\ ret' \in Codes
    <3>1. CASE len = 0
      BY <1>3, <3>1, TypeReturn DEF WriteStart, Codes
    <3>2. CASE len # 0
      <4> DEFINE total == osfs_extent_total_blocks(exts)
                 c == [Idle EXCEPT !.pc = "map", !.ino = ino, !.via = via, !.pos = pos,
                                   !.rem = len, !.val = v, !.total = total]
      <4>1. total \in Nat
        BY <2>3, TotalIsNat
      <4>2. c \in CallType /\ c.ino \in Inodes /\ c.pc = "map"
        BY <1>1, <4>1, IdleType DEF CallType, PCs, Bytes
      <4>3. call' = [call EXCEPT ![p] = c] /\ NoReturn
        BY <1>3, <3>2 DEF WriteStart
      <4> HIDE DEF c
      <4> QED
        BY <4>2, <4>3, TypeGoOn
    <3> QED
      BY <3>1, <3>2
  <2>9. UNCHANGED <<inodeVars, dcache>>
    BY DEF WriteStart
  <2> QED
    BY <2>4, <2>5, <2>6, <2>7, <2>8, <2>9 DEF inodeVars, TypeInv, TypeOK
<1> QED
  BY <1>2, <1>3

(* Setting i_size, or i_blocks, of a file. *)
LEMMA SizeTypes ==
  ASSUME TypeInv, NEW ino \in Inodes, NEW n \in Nat
  PROVE  /\ \A u \in VfsInodes :
              /\ [vinode EXCEPT ![u].i_size = n] \in [VfsInodes -> [i_size : Nat, i_blocks : Nat]]
              /\ [vinode EXCEPT ![u].i_blocks = n] \in [VfsInodes -> [i_size : Nat, i_blocks : Nat]]
         /\ [inode_table EXCEPT ![ino].i_size = n] \in [Inodes -> InodeType]
         /\ [inode_table EXCEPT ![ino].i_blocks = n] \in [Inodes -> InodeType]
<1>1. inode_table \in [Inodes -> InodeType]
  BY DEF TypeInv, TypeOK
<1>2. vinode \in [VfsInodes -> [i_size : Nat, i_blocks : Nat]]
  BY DEF TypeInv, TypeOK
<1>3. [inode_table EXCEPT ![ino].i_size = n] \in [Inodes -> InodeType]
  BY <1>1 DEF InodeType
<1>4. [inode_table EXCEPT ![ino].i_blocks = n] \in [Inodes -> InodeType]
  BY <1>1 DEF InodeType
<1>5. ASSUME NEW u \in VfsInodes
      PROVE  [vinode EXCEPT ![u].i_size = n] \in [VfsInodes -> [i_size : Nat, i_blocks : Nat]]
  BY <1>2
<1>6. ASSUME NEW u \in VfsInodes
      PROVE  [vinode EXCEPT ![u].i_blocks = n] \in [VfsInodes -> [i_size : Nat, i_blocks : Nat]]
  BY <1>2
<1> QED
  BY <1>3, <1>4, <1>5, <1>6

LEMMA TypeWriteAppend ==
  ASSUME TypeInv, NEW p \in Procs, WriteAppend(p)
  PROVE  TypeInv'
<1> DEFINE c == call[p]
           b == Min(FreeBlocks)
           exts == osfs_extent_append(Table(c.ino), b)
           hits == osfs_extent_lookup_block(exts, LogicalBlock(c))
<1>1. /\ c \in CallType /\ c.ino \in Inodes /\ LogicalBlock(c) \in Nat
  BY CallTypeNow DEF WriteAppend, Unmapped
<1>2. b \in Blocks /\ b \in Nat
  <2>1. ~NoRoom(Table(c.ino))
    BY DEF WriteAppend
  <2>2. FreeBlocks # {}
    BY <2>1 DEF NoRoom
  <2>3. b \in Blocks
    BY <2>2, FirstFree
  <2> QED
    BY <2>3, SizesAssumption DEF Blocks
<1>3. exts \in Seq(Extent) /\ ExtentBlocks(exts) \subseteq Blocks
  <2>1. Table(c.ino) \in Seq(Extent) /\ ExtentBlocks(Table(c.ino)) \subseteq Blocks
    BY <1>1, TableType
  <2>2. exts \in Seq(Extent) /\ ExtentBlocks(exts) = ExtentBlocks(Table(c.ino)) \cup {b}
    BY <1>2, <2>1, AppendTable
  <2> QED
    BY <1>2, <2>1, <2>2
<1>4. hits \subseteq Blocks
  BY <1>1, <1>3, LookupInRuns
<1>5. inode_table[c.ino] \in InodeType
  BY <1>1, TableType
<1>6. block_bitmap' \in SUBSET Blocks /\ nr_free_blocks' \in 0 .. (U32 - 1)
  BY <1>2, CounterTypes DEF WriteAppend, TypeInv, TypeOK
<1>7. data_blocks' \in [Blocks -> BlockType] /\ RunsOnDisk'
  <2>1. ExtentTable(exts) \in BlockType /\ ExtentTable(exts).exts = exts
    BY <1>3, BlockTypes DEF ExtentTable, Block
  <2>2. inode_table[c.ino].i_block \in Blocks
    BY <1>5 DEF InodeType
  <2>3. data_blocks' = [data_blocks EXCEPT ![inode_table[c.ino].i_block] = ExtentTable(exts)]
    BY DEF WriteAppend
  <2> QED
    BY <1>3, <2>1, <2>2, <2>3, RunsKept
<1>8. inode_table[c.ino].i_blocks + 1 \in Nat
  BY <1>5 DEF InodeType
<1>9. /\ inode_table' \in [Inodes -> InodeType]
      /\ vinode' \in [VfsInodes -> [i_size : Nat, i_blocks : Nat]]
  <2>1. <<c.ino, c.via>> \in VfsInodes
    BY <1>1, VfsInodeTypes DEF CallType
  <2> QED
    BY <1>1, <1>8, <2>1, SizeTypes DEF WriteAppend
<1>10. call' \in [Procs -> CallType] /\ CallsTyped' /\ ret' \in Codes
  <2>1. CASE hits = {}
    BY <2>1, TypeReturn DEF WriteAppend, Codes
  <2>2. CASE hits # {}
    <3>1. PICK phys \in hits :
            call' = [call EXCEPT ![p].pc = "copy", ![p].phys = phys, ![p].total = @ + 1]
      BY <2>2 DEF WriteAppend
    <3> DEFINE d == [c EXCEPT !.pc = "copy", !.phys = phys, !.total = @ + 1]
    <3>2. d \in CallType /\ d.ino \in Inodes /\ d.pc = "copy"
      <4>1. phys \in Blocks
        BY <1>4
      <4>5. c.rem \in Nat
        BY <1>1 DEF CallType
      <4>2. 0 \in Nat /\ 0 <= c.rem
        BY <4>5
      <4>4. d \in CallType
        BY <1>1, <4>1, <4>2, CallUpdates
      <4>3. d.ino = c.ino /\ d.pc = "copy"
        BY <1>1 DEF CallType
      <4> QED
        BY <1>1, <4>3, <4>4
    <3>3. call' = [call EXCEPT ![p] = d]
      BY <3>1 DEF TypeInv, TypeOK
    <3>4. NoReturn
      BY <2>2 DEF WriteAppend
    <3> HIDE DEF d
    <3> QED
      BY <3>2, <3>3, <3>4, TypeGoOn
  <2> QED
    BY <2>1, <2>2
<1>11. UNCHANGED <<inodeVars, dcache>>
  BY DEF WriteAppend
<1> QED
  BY <1>6, <1>7, <1>9, <1>10, <1>11 DEF inodeVars, TypeInv, TypeOK

(* Storing bytes in a block. *)
LEMMA TypeStore ==
  ASSUME TypeInv, NEW c \in CallType, NEW k, Store(c, k)
  PROVE  data_blocks' \in [Blocks -> BlockType] /\ RunsOnDisk'
<1> DEFINE off == c.pos % BLOCK_SIZE
           bytes == [o \in Offsets |->
                       IF o < off \/ o >= off + Chunk(c) THEN data_blocks[c.phys].bytes[o]
                       ELSE IF o < off + k THEN c.val ELSE 0]
<1>1. c.phys \in Blocks /\ c.val \in Bytes
  BY DEF CallType
<1>2. data_blocks[c.phys].bytes \in [Offsets -> Bytes]
  BY <1>1 DEF TypeInv, TypeOK, BlockType
<1>3. bytes \in [Offsets -> Bytes]
  BY <1>1, <1>2 DEF Bytes
<1>4. data_blocks' = [data_blocks EXCEPT ![c.phys] = RawBlock(bytes)]
  BY DEF Store
<1> HIDE DEF bytes
<1>5. RawBlock(bytes) \in BlockType /\ ExtentBlocks(RawBlock(bytes).exts) = {}
  BY <1>3, BlockTypes, NoExtents DEF RawBlock, Block
<1> QED
  BY <1>1, <1>4, <1>5, RunsKept

LEMMA TypeGrowTo ==
  ASSUME TypeInv, NEW ino \in Inodes, NEW via \in DentryKinds, NEW end \in Nat,
         GrowTo(ino, via, end)
  PROVE  /\ inode_table' \in [Inodes -> InodeType]
         /\ vinode' \in [VfsInodes -> [i_size : Nat, i_blocks : Nat]]
<1>1. CASE end > inode_table[ino].i_size
  <2>1. /\ inode_table' = [inode_table EXCEPT ![ino].i_size = end % U32]
        /\ vinode' = [vinode EXCEPT ![<<ino, via>>].i_size = end % U32]
    BY <1>1 DEF GrowTo
  <2>2. end % U32 \in Nat /\ <<ino, via>> \in VfsInodes
    BY WordType, VfsInodeTypes
  <2> QED
    BY <2>1, <2>2, SizeTypes
<1>2. CASE ~(end > inode_table[ino].i_size)
  BY <1>2 DEF GrowTo, TypeInv, TypeOK
<1> QED
  BY <1>1, <1>2

LEMMA TypeWriteCopy ==
  ASSUME TypeInv, NEW p \in Procs, WriteCopy(p)
  PROVE  TypeInv'
<1> DEFINE c == call[p]
           k == Chunk(c)
<1>1. c \in CallType /\ c.ino \in Inodes /\ k \in Nat /\ k <= c.rem /\ c.pc = "copy"
  BY CallTypeNow DEF WriteCopy
<1>2. c.pos \in Nat /\ c.rem \in Nat /\ c.done \in Nat
  BY <1>1 DEF CallType
<1>3. data_blocks' \in [Blocks -> BlockType] /\ RunsOnDisk'
  BY <1>1, TypeStore DEF WriteCopy
<1>4. UNCHANGED <<inodeVars, blockVars, dcache>>
  BY DEF WriteCopy
<1>5. CASE c.rem = k
  <2>1. GrowTo(c.ino, c.via, c.pos + k) /\ Return(p, "ok")
    BY <1>5 DEF WriteCopy
  <2>0. c.via \in DentryKinds
    BY <1>1 DEF CallType
  <2> HIDE DEF c, k
  <2>2. c.pos + k \in Nat /\ c.via \in DentryKinds
    BY <1>1, <1>2, <2>0
  <2>3. /\ inode_table' \in [Inodes -> InodeType]
        /\ vinode' \in [VfsInodes -> [i_size : Nat, i_blocks : Nat]]
    BY <1>1, <2>1, <2>2, TypeGrowTo
  <2> QED
    BY <1>3, <1>4, <2>1, <2>3, TypeReturn DEF inodeVars, blockVars, TypeInv, TypeOK, Codes
<1>6. CASE c.rem # k
  <2> DEFINE d == [c EXCEPT !.pc = "map", !.pos = @ + k, !.rem = @ - k,
                            !.done = @ + k, !.phys = 0]
  <2>1. d \in CallType /\ d.ino \in Inodes /\ d.pc = "map"
    <3>1. 0 \in Blocks
      BY SizesAssumption DEF Blocks
    <3>2. d \in CallType
      BY <1>1, <3>1, CallUpdates
    <3>3. d.ino = c.ino /\ d.pc = "map"
      BY <1>1 DEF CallType
    <3> QED
      BY <1>1, <3>2, <3>3
  <2>2. call' = [call EXCEPT ![p] = d] /\ NoReturn /\ UNCHANGED <<inode_table, vinode>>
    BY <1>6 DEF WriteCopy, TypeInv, TypeOK
  <2> HIDE DEF d
  <2>3. call' \in [Procs -> CallType] /\ CallsTyped' /\ ret' \in Codes
    BY <2>1, <2>2, TypeGoOn
  <2> QED
    BY <1>3, <1>4, <2>2, <2>3 DEF inodeVars, blockVars, TypeInv, TypeOK
<1> QED
  BY <1>5, <1>6

LEMMA TypeWriteFault ==
  ASSUME TypeInv, NEW p \in Procs, WriteFault(p)
  PROVE  TypeInv'
<1>1. call[p] \in CallType
  BY CallTypeNow DEF WriteFault
<1>2. data_blocks' \in [Blocks -> BlockType] /\ RunsOnDisk'
  BY <1>1, TypeStore DEF WriteFault
<1>3. /\ Return(p, "EFAULT")
      /\ UNCHANGED <<inodeVars, blockVars, inode_table, vinode, dcache>>
  BY DEF WriteFault
<1> QED
  BY <1>2, <1>3, TypeReturn DEF inodeVars, blockVars, TypeInv, TypeOK, Codes

-----------------------------------------------------------------------------
(* Each action of osfs_read keeps the types. *)
LEMMA TypeReadShort ==
  ASSUME TypeInv, NEW p \in Procs, NEW ino \in OpenFiles, NEW pos, NEW len,
         ReadShort(p, ino, pos, len)
  PROVE  TypeInv'
<1> DEFINE f == inode_table[ino]
<1>1. f \in InodeType
  BY OpenFileTypes, TableType
<1>2. UNCHANGED <<inodeVars, blockVars, inode_table, vinode, dcache>>
  BY DEF ReadShort
<1>3. /\ \E code \in Codes : Return(p, code)
      /\ \/ UNCHANGED data_blocks
         \/ data_blocks' = [data_blocks EXCEPT ![f.i_block] = ExtentTable(<< >>)]
  BY DEF ReadShort, Codes
<1>4. data_blocks' \in [Blocks -> BlockType] /\ RunsOnDisk'
  <2>1. CASE UNCHANGED data_blocks
    BY <2>1, RunsUnchanged
  <2>2. CASE data_blocks' = [data_blocks EXCEPT ![f.i_block] = ExtentTable(<< >>)]
    <3>1. f.i_block \in Blocks
      BY <1>1 DEF InodeType
    <3>2. << >> \in Seq(Extent) /\ ExtentBlocks(<< >>) \subseteq Blocks
      BY EmptySeq, NoExtents
    <3>3. ExtentTable(<< >>) \in BlockType /\ ExtentTable(<< >>).exts = << >>
      BY <3>2, BlockTypes DEF ExtentTable, Block
    <3> QED
      BY <2>2, <3>1, <3>2, <3>3, RunsKept
  <2> QED
    BY <1>3, <2>1, <2>2
<1>5. call' \in [Procs -> CallType] /\ CallsTyped' /\ ret' \in Codes
  BY <1>3, TypeReturn
<1> QED
  BY <1>2, <1>4, <1>5 DEF inodeVars, blockVars, TypeInv, TypeOK

LEMMA TypeReadStart ==
  ASSUME TypeInv, NEW p \in Procs, NEW ino \in OpenFiles, NEW via \in DentryKinds,
         NEW pos \in Positions, NEW len \in Lens, ReadStart(p, ino, via, pos, len)
  PROVE  TypeInv'
<1> DEFINE f == inode_table[ino]
           rem == Min({len, f.i_size - pos})
           c == [Idle EXCEPT !.pc = "read", !.ino = ino, !.via = via,
                             !.pos = pos, !.rem = rem]
<1>1. ino \in Inodes /\ pos \in Nat /\ len \in Nat
  BY OpenFileTypes, InputsAssumption
<1>2. f.i_size \in Nat /\ pos < f.i_size
  BY <1>1, TableType DEF InodeType, ReadStart
<1>3. rem \in Nat
  <2>1. {len, f.i_size - pos} \in SUBSET Nat
    BY <1>1, <1>2
  <2>2. rem \in {len, f.i_size - pos}
    BY <2>1, MinProperties
  <2> QED
    BY <2>1, <2>2
<1> HIDE DEF rem
<1>4. c \in CallType /\ c.ino \in Inodes /\ c.pc = "read"
  BY <1>1, <1>3, IdleType DEF CallType, PCs
<1>5. call' = [call EXCEPT ![p] = c] /\ NoReturn /\ UNCHANGED fsVars
  BY DEF ReadStart, rem
<1> HIDE DEF c
<1>6. call' \in [Procs -> CallType] /\ CallsTyped' /\ ret' \in Codes
  BY <1>4, <1>5, TypeGoOn
<1> QED
  BY <1>5, <1>6, RunsUnchanged DEF fsVars, inodeVars, blockVars, TypeInv, TypeOK

LEMMA TypeReadBlock ==
  ASSUME TypeInv, NEW p \in Procs, ReadBlock(p)
  PROVE  TypeInv'
<1> DEFINE c == call[p]
           k == Chunk(c)
           d == [c EXCEPT !.pos = @ + k, !.rem = @ - k]
<1>1. c \in CallType /\ c.ino \in Inodes /\ k \in Nat /\ k <= c.rem /\ c.pc = "read"
  BY CallTypeNow DEF ReadBlock
<1>2. UNCHANGED fsVars
  BY DEF ReadBlock
<1>3. \/ \E code \in Codes : Return(p, code)
      \/ call' = [call EXCEPT ![p].pos = @ + k, ![p].rem = @ - k] /\ NoReturn
  BY DEF ReadBlock, Codes
<1>4. CASE \E code \in Codes : Return(p, code)
  BY <1>2, <1>4, TypeReturn, RunsUnchanged DEF fsVars, inodeVars, blockVars, TypeInv, TypeOK
<1>5. CASE call' = [call EXCEPT ![p].pos = @ + k, ![p].rem = @ - k] /\ NoReturn
  <2>1. 0 \in Blocks
    BY SizesAssumption DEF Blocks
  <2>2. d \in CallType
    BY <1>1, <2>1, CallUpdates
  <2>3. d.ino = c.ino /\ d.pc = "read"
    BY <1>1 DEF CallType
  <2>4. call' = [call EXCEPT ![p] = d]
    BY <1>5 DEF TypeInv, TypeOK
  <2> HIDE DEF d
  <2>5. call' \in [Procs -> CallType] /\ CallsTyped' /\ ret' \in Codes
    BY <1>1, <1>5, <2>2, <2>3, <2>4, TypeGoOn
  <2> QED
    BY <1>2, <2>5, RunsUnchanged DEF fsVars, inodeVars, blockVars, TypeInv, TypeOK
<1> QED
  BY <1>3, <1>4, <1>5

(* Truncation, a second lookup and an eviction change one VFS inode. *)
LEMMA TypeVfsInode ==
  ASSUME TypeInv, vinode' \in [VfsInodes -> [i_size : Nat, i_blocks : Nat]], NoReturn,
         UNCHANGED <<inodeVars, blockVars, inode_table, data_blocks, dcache, call>>
  PROVE  TypeInv'
<1>1. CallsTyped' /\ ret' \in Codes
  BY DEF CallsTyped, TypeInv, NoReturn, Codes
<1> QED
  BY <1>1, RunsUnchanged DEF inodeVars, blockVars, TypeInv, TypeOK

LEMMA TypeTruncate ==
  ASSUME TypeInv, NEW n \in Truncating, NEW via \in DentryKinds, Truncate(n, via)
  PROVE  TypeInv'
<1>1. PICK ino \in Inodes : TRUE
  BY RootType
<1>2. vinode' \in [VfsInodes -> [i_size : Nat, i_blocks : Nat]]
  BY <1>1, SizeTypes DEF Truncate
<1> QED
  BY <1>2, TypeVfsInode DEF Truncate

LEMMA TypeLookup ==
  ASSUME TypeInv, NEW i \in DOMAIN Dir, Lookup(i)
  PROVE  TypeInv'
<1> DEFINE ino == Dir[i].inode_no
<1>0. Dir \in Seq(DirEntry) /\ Dir[i] \in DirEntry
  BY RootType
<1>1. ino \in Inodes
  BY <1>0 DEF DirEntry
<1>2. osfs_iget(ino) \in [i_size : Nat, i_blocks : Nat]
  BY <1>1, TableType DEF osfs_iget, VfsInode, InodeType
<1>3. vinode' \in [VfsInodes -> [i_size : Nat, i_blocks : Nat]]
  BY <1>2 DEF Lookup, TypeInv, TypeOK
<1> QED
  BY <1>3, TypeVfsInode DEF Lookup

LEMMA TypeEvict ==
  ASSUME TypeInv, NEW ino \in OpenFiles, Evict(ino)
  PROVE  TypeInv'
<1>1. vinode' \in [VfsInodes -> [i_size : Nat, i_blocks : Nat]]
  BY DEF Evict, VfsInode, TypeInv, TypeOK
<1> QED
  BY <1>1, TypeVfsInode DEF Evict

-----------------------------------------------------------------------------
LEMMA TypeInvNext == TypeInv /\ [Next]_vars => TypeInv'
<1> SUFFICES ASSUME TypeInv, [Next]_vars PROVE TypeInv'
  OBVIOUS
<1>1. ASSUME NEW p \in Procs, Call(p) PROVE TypeInv'
  <2>1. ASSUME NEW n \in Names,
               CreateNameTooLong(p, n) \/ CreateNoSpace(p, n) \/ CreateStart(p, n)
        PROVE  TypeInv'
    BY <2>1, TypeCreateNameTooLong, TypeCreateNoSpace, TypeCreateStart
  <2>2. ASSUME NEW ino \in OpenFiles, NEW pos \in Positions, NEW len \in Lens,
               \/ \E via \in OpenVia(ino) :
                    \/ \E v \in Vals : WriteStart(p, ino, via, pos, len, v)
                    \/ ReadStart(p, ino, via, pos, len)
               \/ ReadShort(p, ino, pos, len)
        PROVE  TypeInv'
    <3>1. OpenVia(ino) \subseteq DentryKinds
      BY DEF OpenVia
    <3> QED
      BY <2>2, <3>1, TypeWriteStart, TypeReadShort, TypeReadStart
  <2> QED
    BY <1>1, <2>1, <2>2 DEF Call
<1>2. ASSUME NEW p \in Procs, Continue(p) PROVE TypeInv'
  <2>1. CASE CreateNoMemory(p) \/ CreateNoBlock(p) \/ CreateRollback(p) \/ CreateDone(p)
    BY <2>1, TypeCreateNoMemory, TypeCreateNoBlock, TypeCreateRollback, TypeCreateDone
  <2>2. CASE WriteMapped(p) \/ WriteHole(p) \/ WriteNoSpace(p) \/ WriteAppend(p)
    BY <2>2, TypeWriteMapped, TypeWriteRefused, TypeWriteAppend
  <2>3. CASE WriteCopy(p) \/ WriteFault(p) \/ ReadBlock(p)
    BY <2>3, TypeWriteCopy, TypeWriteFault, TypeReadBlock
  <2> QED
    BY <1>2, <2>1, <2>2, <2>3 DEF Continue
<1>3. ASSUME NEW n \in Truncating, NEW via \in DentryKinds, Truncate(n, via) PROVE TypeInv'
  BY <1>3, TypeTruncate
<1>5. ASSUME NEW i \in DOMAIN Dir, Lookup(i) PROVE TypeInv'
  BY <1>5, TypeLookup
<1>6. ASSUME NEW ino \in OpenFiles, Evict(ino) PROVE TypeInv'
  BY <1>6, TypeEvict
<1>4. CASE UNCHANGED vars
  BY <1>4, RunsUnchanged DEF vars, TypeInv, TypeOK, CallsTyped
<1> QED
  BY <1>1, <1>2, <1>3, <1>4, <1>5, <1>6 DEF Next

(* TypeInv holds of every reachable state: no schedule of creates, writes  *)
(* and reads makes an inode number, a counter or an extent leave its range. *)
THEOREM TypeCorrect == Spec => []TypeInv
BY TypeInvInit, TypeInvNext, PTL DEF Spec
=============================================================================
