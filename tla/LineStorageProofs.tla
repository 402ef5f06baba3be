------------------------- MODULE LineStorageProofs -------------------------
(***************************************************************************)
(* LineStorage for blocks of any size from two lines on, any widths of the *)
(* entries' classes and any bounds: the blocks are owned and never         *)
(* overrun, what pop_back() goes by is right, and the storage implements   *)
(* LinePosition's vector.                                                  *)
(*                                                                         *)
(* Two functions say what the bytes mean: e, where the entry of each line  *)
(* of each table ends, and v, the position it codes.  The invariant is     *)
(* that some e and v fit the storage (Good), the last line can be taken    *)
(* back when it is fake (Poppable), and the caches point to lines that     *)
(* stay (Cached), which the read in pop_back() needs.                      *)
(*                                                                         *)
(* This holds where no line is ever taken back, or where nothing disturbs *)
(* the caches that pop_back() reads through (Undisturbed): a read of the   *)
(* line taken back, or a block moved, leaves a stale one.                  *)
(***************************************************************************)
EXTENDS LineStorage, TLAPS, SequenceTheorems, WellFoundedInduction

(* What is assumed of the constants, in two parts: most lemmas need the    *)
(* first only.                                                             *)
Sizes ==
  /\ BLOCK_SIZE \in Nat /\ BLOCK_SIZE >= 2
  /\ OneByte \in Nat /\ TwoBytes \in Nat /\ UINT32_MAX \in Nat
  /\ MaxPos \in Nat /\ MaxBatch \in Nat
  /\ MaxLines \in Nat /\ MaxLines < Unset
Switches == FakeLines \in BOOLEAN /\ ReallocMoves \in BOOLEAN /\ Reloads \in BOOLEAN

(* The constants are what they are assumed to be.                          *)
LEMMA Constants == Sizes /\ Switches
BY ConstantsAssumption DEF Sizes, Switches

Row(k) == k \div BLOCK_SIZE
Col(k) == k % BLOCK_SIZE

(* A number has one quotient and one remainder. *)
LEMMA Division ==
  ASSUME Sizes, NEW k \in Nat
  PROVE  /\ Row(k) \in Nat /\ Col(k) \in 0 .. BLOCK_SIZE - 1
         /\ k = BLOCK_SIZE * Row(k) + Col(k)
BY SMT DEF Sizes, Row, Col

(* They are the only ones.                                                 *)
LEMMA QuotientIsUnique ==
  ASSUME Sizes, NEW k \in Nat, NEW q \in Nat, NEW r \in 0 .. BLOCK_SIZE - 1,
         k = BLOCK_SIZE * q + r
  PROVE  Row(k) = q /\ Col(k) = r
<1> DEFINE p == Row(k)
           c == Col(k)
<1>1. p \in Nat /\ c \in 0 .. BLOCK_SIZE - 1 /\ k = BLOCK_SIZE * p + c
  BY Division
<1>2. BLOCK_SIZE \in Nat /\ BLOCK_SIZE >= 2
  BY DEF Sizes
<1> HIDE DEF p, c
<1>3. CASE p < q
  <2>1. BLOCK_SIZE * (p + 1) <= BLOCK_SIZE * q
    BY <1>1, <1>2, <1>3
  <2>2. BLOCK_SIZE * (p + 1) = BLOCK_SIZE * p + BLOCK_SIZE
    BY <1>1, <1>2
  <2>3. BLOCK_SIZE * p \in Int /\ BLOCK_SIZE * q \in Int
    BY <1>1, <1>2
  <2> HIDE <1>3
  <2> QED
    BY <1>1, <1>2, <2>1, <2>2, <2>3
<1>4. CASE q < p
  <2>1. BLOCK_SIZE * (q + 1) <= BLOCK_SIZE * p
    BY <1>1, <1>2, <1>4
  <2>2. BLOCK_SIZE * (q + 1) = BLOCK_SIZE * q + BLOCK_SIZE
    BY <1>1, <1>2
  <2>3. BLOCK_SIZE * p \in Int /\ BLOCK_SIZE * q \in Int
    BY <1>1, <1>2
  <2> QED
    BY <1>1, <1>2, <2>1, <2>2, <2>3
<1>5. CASE p = q
  BY <1>1, <1>2, <1>5 DEF p, c
<1> QED
  BY <1>1, <1>3, <1>4, <1>5

(* The first line is in the first column of the first row.                 *)
LEMMA FirstRow ==
  ASSUME Sizes
  PROVE  Row(0) = 0 /\ Col(0) = 0
<1>1. 0 = BLOCK_SIZE * 0 + 0 /\ 0 \in 0 .. BLOCK_SIZE - 1 /\ 0 \in Nat
  BY DEF Sizes
<1> QED
  BY <1>1, QuotientIsUnique

(* The next line is in the next column, or begins the next row. *)
LEMMA NextRow ==
  ASSUME Sizes, NEW k \in Nat
  PROVE  /\ Col(k) = BLOCK_SIZE - 1 => Row(k + 1) = Row(k) + 1 /\ Col(k + 1) = 0
         /\ Col(k) # BLOCK_SIZE - 1 => Row(k + 1) = Row(k) /\ Col(k + 1) = Col(k) + 1
         /\ Col(k + 1) # 0 => Row(k + 1) = Row(k) /\ Col(k + 1) = Col(k) + 1
<1>1. /\ Row(k) \in Nat /\ Col(k) \in 0 .. BLOCK_SIZE - 1
      /\ k = BLOCK_SIZE * Row(k) + Col(k)
  BY Division
<1>2. BLOCK_SIZE \in Nat /\ BLOCK_SIZE >= 2
  BY DEF Sizes
<1>3. BLOCK_SIZE * (Row(k) + 1) = BLOCK_SIZE * Row(k) + BLOCK_SIZE
      /\ BLOCK_SIZE * Row(k) \in Nat
  BY <1>1, <1>2
<1>4. ASSUME Col(k) = BLOCK_SIZE - 1
      PROVE  Row(k + 1) = Row(k) + 1 /\ Col(k + 1) = 0
  <2>1. k + 1 = BLOCK_SIZE * (Row(k) + 1) + 0
    BY <1>1, <1>2, <1>3, <1>4
  <2> QED
    BY <1>1, <1>2, <2>1, QuotientIsUnique
<1>5. ASSUME Col(k) # BLOCK_SIZE - 1
      PROVE  Row(k + 1) = Row(k) /\ Col(k + 1) = Col(k) + 1
  <2>1. k + 1 = BLOCK_SIZE * Row(k) + (Col(k) + 1) /\ Col(k) + 1 \in 0 .. BLOCK_SIZE - 1
    BY <1>1, <1>2, <1>3, <1>5
  <2> QED
    BY <1>1, <2>1, QuotientIsUnique
<1> QED
  BY <1>4, <1>5

(* Rows follow the order of the lines. *)
LEMMA RowsInOrder ==
  ASSUME Sizes, NEW k \in Nat, NEW n \in Nat, k < n
  PROVE  Row(k) < Row(n) \/ (Row(k) = Row(n) /\ Col(k) < Col(n))
<1> DEFINE p == Row(k)
           q == Row(n)
           c == Col(k)
           d == Col(n)
<1>1. /\ p \in Nat /\ c \in 0 .. BLOCK_SIZE - 1 /\ k = BLOCK_SIZE * p + c
      /\ q \in Nat /\ d \in 0 .. BLOCK_SIZE - 1 /\ n = BLOCK_SIZE * q + d
  BY Division
<1>2. BLOCK_SIZE \in Nat /\ BLOCK_SIZE >= 2
  BY DEF Sizes
<1> SUFFICES p < q \/ (p = q /\ c < d)
  OBVIOUS
<1> HIDE DEF p, q, c, d
<1>3. CASE q < p
  <2>1. BLOCK_SIZE * (q + 1) <= BLOCK_SIZE * p
    BY <1>1, <1>2, <1>3
  <2>2. BLOCK_SIZE * (q + 1) = BLOCK_SIZE * q + BLOCK_SIZE
    BY <1>1, <1>2
  <2>3. BLOCK_SIZE * p \in Int /\ BLOCK_SIZE * q \in Int
    BY <1>1, <1>2
  <2> QED
    BY <1>1, <1>2, <2>1, <2>2, <2>3
<1>4. CASE p = q
  <2>1. BLOCK_SIZE * p \in Int
    BY <1>1, <1>2
  <2> QED
    BY <1>1, <1>4, <2>1
<1> QED
  BY <1>1, <1>3, <1>4

(* Induction up to n, over the set of the numbers that a fact holds of.    *)
LEMMA UpTo ==
  ASSUME NEW n \in Nat, NEW S, 0 \in S, \A i \in 0 .. n - 1 : i \in S => i + 1 \in S
  PROVE  0 .. n \subseteq S
<1> DEFINE R == OpToRel(<, Nat)
           T == {i \in 0 .. n : i \notin S}
<1> SUFFICES ASSUME T # {} PROVE FALSE
  OBVIOUS
<1>1. \A x, y \in Nat : <<y, x>> \in R <=> y < x
  BY DEF OpToRel
<1>2. IsWellFoundedOn(R, Nat)
  BY NatLessThanWellFounded
<1>3. T \subseteq Nat
  OBVIOUS
<1> HIDE DEF R
<1>4. PICK x \in T : \A y \in T : ~(<<y, x>> \in R)
  <2> HIDE DEF T
  <2> QED
    BY <1>2, <1>3, WFMin, Zenon
<1>5. x \in Nat /\ x # 0 /\ x - 1 \in 0 .. n - 1
  OBVIOUS
<1>6. x - 1 \notin S
  BY <1>5
<1>7. x - 1 \in T
  BY <1>5, <1>6
<1>8. <<x - 1, x>> \in R
  BY <1>1, <1>5
<1> QED
  BY <1>4, <1>7, <1>8, Zenon

-----------------------------------------------------------------------------
Tables == {32, 64}

Pointer == [block : Nat, offset : Nat]
Cache == [index : Nat, position : Int, ptr : Pointer]
Entry == [relative : BOOLEAN, value : Int, width : Nat, inside : BOOLEAN]
Entries == UNION {[D -> Entry] : D \in SUBSET Nat}
Block == [size : Nat, initial : Int, entries : Entries]
Storage ==
  [index32 : Seq(Nat), index64 : Seq(Nat), blocks : Seq(Block),
   nb_lines_ : Nat, current_pos_ : Int, first_long_line_ : Nat,
   block_pointer_ : Pointer, previous_block_pointer_ : Pointer,
   thread_ids_ : Seq(Readers \cup {Worker}), last_read_ : [{1, 2} -> Cache],
   dead : BOOLEAN]

(* The lines of a table, the table that grows.                             *)
Lines(s, T) ==
  IF s.first_long_line_ = Unset THEN IF T = 32 THEN s.nb_lines_ ELSE 0
  ELSE IF T = 32 THEN s.first_long_line_ ELSE s.nb_lines_ - s.first_long_line_
Growing(s) == IF s.first_long_line_ = Unset THEN 32 ELSE 64

(* The block of a line, and where its entry ends.                          *)
BlockOf(s, T, k) == IndexOf(s, T)[Row(k) + 1]
PointerTo(s, e, T, k) == [block |-> BlockOf(s, T, k), offset |-> e[T][k]]
EntryOf(s, e, T, k) == s.blocks[BlockOf(s, T, k)].entries[e[T][k - 1]]

(* e says where the entry of each line ends: entries follow one another    *)
(* from the start of the block.                                            *)
Chained(s, e) ==
  \A T \in Tables : \A k \in 0 .. Lines(s, T) - 1 :
    /\ e[T][k] \in Nat
    /\ e[T][k] <= header(T) + Col(k) * absolute(T)
    /\ Col(k) = 0 => e[T][k] = header(T)
    /\ Col(k) # 0 =>
         /\ e[T][k - 1] \in DOMAIN s.blocks[BlockOf(s, T, k)].entries
         /\ EntryOf(s, e, T, k).width \in 1 .. absolute(T)
         /\ e[T][k] = e[T][k - 1] + EntryOf(s, e, T, k).width

(* v says where each line ends: it is what its entry codes.                *)
Coded(s, e, v) ==
  \A T \in Tables : \A k \in 0 .. Lines(s, T) - 1 :
    /\ v[T][k] \in Nat
    /\ Col(k) = 0 => s.blocks[BlockOf(s, T, k)].initial = v[T][k]
    /\ Col(k) # 0 =>
         v[T][k] = IF EntryOf(s, e, T, k).relative
                     THEN v[T][k - 1] + EntryOf(s, e, T, k).value
                     ELSE EntryOf(s, e, T, k).value

(* As many blocks as the lines need.                                       *)
Indexed(s) ==
  \A T \in Tables :
    /\ Len(IndexOf(s, T)) =
         IF Col(Lines(s, T)) = 0 THEN Row(Lines(s, T)) ELSE Row(Lines(s, T)) + 1
    /\ \A j \in DOMAIN IndexOf(s, T) : IndexOf(s, T)[j] \in DOMAIN s.blocks

Counted(s) ==
  /\ s.nb_lines_ < Unset
  /\ s.first_long_line_ = Unset \/ s.first_long_line_ < s.nb_lines_

(* A table holds a number of lines, the one that grows some as soon as     *)
(* there is a line.                                                        *)
LEMMA LineCounts ==
  ASSUME NEW s \in Storage, Counted(s), NEW T \in Tables
  PROVE  /\ Lines(s, T) \in Nat /\ Growing(s) \in Tables
         /\ s.nb_lines_ # 0 => Lines(s, Growing(s)) # 0
BY DEF Storage, Counted, Lines, Tables, Growing

(* The index of a table is a sequence of blocks.                           *)
LEMMA IndexSeq ==
  ASSUME NEW s \in Storage, NEW T \in Tables
  PROVE  IndexOf(s, T) \in Seq(Nat) /\ DOMAIN IndexOf(s, T) = 1 .. Len(IndexOf(s, T))
         /\ Len(IndexOf(s, T)) \in Nat
BY DEF Storage, Tables, IndexOf

(* The row of a line has a block.                                          *)
LEMMA BlockOfLine ==
  ASSUME Sizes, NEW s \in Storage, Counted(s), Indexed(s), NEW T \in Tables,
         NEW k \in 0 .. Lines(s, T) - 1
  PROVE  /\ k \in Nat /\ Row(k) \in Nat
         /\ Row(k) + 1 \in DOMAIN IndexOf(s, T)
         /\ BlockOf(s, T, k) \in DOMAIN s.blocks
         /\ BlockOf(s, T, k) \in Nat \ {0}
         /\ s.blocks[BlockOf(s, T, k)] \in Block
<1> DEFINE n == Lines(s, T)
<1>1. n \in Nat /\ k \in Nat /\ k < n
  BY LineCounts
<1>2. Row(k) < Row(n) \/ (Row(k) = Row(n) /\ Col(k) < Col(n))
  BY <1>1, RowsInOrder
<1>3. Row(k) \in Nat /\ Row(n) \in Nat /\ Col(k) \in Nat
  BY <1>1, Division
<1>4. Len(IndexOf(s, T)) = IF Col(n) = 0 THEN Row(n) ELSE Row(n) + 1
  BY DEF Indexed
<1>5. Row(k) + 1 \in 1 .. Len(IndexOf(s, T))
  <2> HIDE DEF n
  <2> QED
    BY <1>2, <1>3, <1>4
<1>6. Row(k) + 1 \in DOMAIN IndexOf(s, T)
  BY <1>5, IndexSeq
<1>7. BlockOf(s, T, k) \in DOMAIN s.blocks
  BY <1>6 DEF Indexed, BlockOf
<1>8. s.blocks \in Seq(Block)
  BY DEF Storage
<1> QED
  BY <1>1, <1>3, <1>6, <1>7, <1>8

(* The next entry is read where it is.                                     *)
LEMMA NextEntry ==
  ASSUME NEW s \in Storage, NEW b \in DOMAIN s.blocks, NEW p \in Nat, NEW f \in Nat,
         f \in DOMAIN s.blocks[b].entries
  PROVE  next_pos(s, [position |-> p, ptr |-> [block |-> b, offset |-> f]]) =
           LET entry == s.blocks[b].entries[f]
           IN  [position |-> IF entry.relative THEN p + entry.value ELSE entry.value,
                ptr |-> [block |-> b, offset |-> f + entry.width]]
BY DEF next_pos, Garbage

(* A walk along the entries of a block comes to each line's.               *)
LEMMA WalkIsRight ==
  ASSUME Sizes, NEW s \in Storage, Counted(s), Indexed(s), NEW e, NEW v,
         Chained(s, e), Coded(s, e, v),
         NEW T \in Tables, NEW k \in 0 .. Lines(s, T) - 1
  PROVE  Walk(s, T, k) = [position |-> v[T][k], ptr |-> PointerTo(s, e, T, k)]
<1> DEFINE b == IndexOf(s, T)[k \div BLOCK_SIZE + 1]
           n == k % BLOCK_SIZE
           Step(w, i) == IF i = 0
             THEN [position |-> s.blocks[b].initial,
                   ptr |-> [block |-> b, offset |-> header(T)]]
             ELSE next_pos(s, w[i - 1])
           walk == CHOOSE w : w = [i \in 0 .. n |-> Step(w, i)]
           right == [i \in 0 .. n |-> [position |-> v[T][k - n + i],
                                       ptr |-> [block |-> b, offset |-> e[T][k - n + i]]]]
<1>1. Walk(s, T, k) = walk[n]
  BY DEF Walk
<1>2. /\ k \in Nat /\ b \in DOMAIN s.blocks /\ b \in Nat \ {0} /\ b = BlockOf(s, T, k)
      /\ n \in 0 .. BLOCK_SIZE - 1 /\ n = Col(k) /\ n \in Nat /\ Row(k) \in Nat
      /\ k = BLOCK_SIZE * Row(k) + n
  BY BlockOfLine, Division DEF BlockOf, Row, Col
<1>3. ASSUME NEW i \in 0 .. n
      PROVE  /\ k - n + i \in 0 .. Lines(s, T) - 1 /\ k - n + i \in Nat
             /\ Row(k - n + i) = Row(k) /\ Col(k - n + i) = i
             /\ BlockOf(s, T, k - n + i) = b
  <2>1. BLOCK_SIZE \in Nat /\ BLOCK_SIZE * Row(k) \in Nat
    BY <1>2 DEF Sizes
  <2>2. k - n + i = BLOCK_SIZE * Row(k) + i /\ k - n + i \in Nat /\ k - n + i <= k
    BY <1>2, <2>1
  <2>3. Row(k - n + i) = Row(k) /\ Col(k - n + i) = i
    BY <1>2, <2>1, <2>2, QuotientIsUnique
  <2>4. k - n + i \in 0 .. Lines(s, T) - 1
    BY <2>2, LineCounts
  <2> QED
    BY <1>2, <2>2, <2>3, <2>4 DEF BlockOf
<1>4. ASSUME NEW i \in 0 .. n
      PROVE  right[i] = Step(right, i)
  <2> DEFINE l == k - n + i
  <2>1. CASE i = 0
    <3>1. e[T][l] = header(T) /\ v[T][l] = s.blocks[b].initial
      BY <1>3, <2>1 DEF Chained, Coded
    <3> QED
      BY <2>1, <3>1
  <2>2. CASE i # 0
    <3>1. /\ i - 1 \in 0 .. n /\ l - 1 = k - n + (i - 1)
          /\ l - 1 \in 0 .. Lines(s, T) - 1 /\ Col(l) # 0
      <4>1. i - 1 \in 0 .. n /\ l - 1 = k - n + (i - 1)
        BY <1>2, <2>2
      <4> QED
        BY <1>3, <2>2, <4>1
    <3> DEFINE entry == s.blocks[b].entries[e[T][l - 1]]
    <3>2. /\ e[T][l - 1] \in DOMAIN s.blocks[b].entries
          /\ e[T][l] = e[T][l - 1] + entry.width
          /\ v[T][l] = IF entry.relative THEN v[T][l - 1] + entry.value ELSE entry.value
          /\ e[T][l - 1] \in Nat /\ v[T][l - 1] \in Nat
      <4>1. /\ l \in 0 .. Lines(s, T) - 1 /\ BlockOf(s, T, l) = b
            /\ l - 1 \in 0 .. Lines(s, T) - 1 /\ Col(l) # 0
        BY <1>3, <3>1
      <4> HIDE DEF l, b
      <4> QED
        BY <4>1 DEF Chained, Coded, EntryOf
    <3>3. right[i - 1] = [position |-> v[T][l - 1],
                          ptr |-> [block |-> b, offset |-> e[T][l - 1]]]
      BY <3>1, SMTT(30)
    <3>4. next_pos(s, right[i - 1]) = [position |-> v[T][l],
                          ptr |-> [block |-> b, offset |-> e[T][l]]]
      <4> DEFINE f == e[T][l - 1]
                 p == v[T][l - 1]
      <4> HIDE DEF b, l, n, right
      <4>1. b \in DOMAIN s.blocks /\ p \in Nat /\ f \in Nat
            /\ f \in DOMAIN s.blocks[b].entries
        BY <1>2, <3>2
      <4> HIDE DEF f, p
      <4>2. next_pos(s, [position |-> p, ptr |-> [block |-> b, offset |-> f]]) =
              [position |-> IF s.blocks[b].entries[f].relative
                              THEN p + s.blocks[b].entries[f].value
                              ELSE s.blocks[b].entries[f].value,
               ptr |-> [block |-> b, offset |-> f + s.blocks[b].entries[f].width]]
        BY <4>1, NextEntry
      <4> QED
        BY <3>2, <3>3, <4>2 DEF f, p
    <3> QED
      BY <2>2, <3>4
  <2> QED
    BY <2>1, <2>2
<1>5. right = [i \in 0 .. n |-> Step(right, i)]
  <2> HIDE DEF Step
  <2> QED
    BY <1>4
<1>6. walk = [i \in 0 .. n |-> Step(walk, i)]
  <2> HIDE DEF Step, right
  <2> QED
    BY <1>5
<1>7. \A i \in 0 .. n : walk[i] = right[i]
  <2> DEFINE S == {i \in Nat : i <= n => walk[i] = right[i]}
  <2> HIDE DEF walk, right
  <2>1. \A i \in 0 .. n : walk[i] = Step(walk, i) /\ right[i] = Step(right, i)
    <3> HIDE DEF Step
    <3> QED
      BY <1>5, <1>6
  <2>2. 0 \in S
    BY <2>1, <1>2
  <2>3. ASSUME NEW i \in 0 .. n - 1, i \in S PROVE i + 1 \in S
    <3> HIDE DEF b, n
    <3>1. i + 1 \in 0 .. n /\ i + 1 # 0 /\ i + 1 - 1 = i /\ walk[i] = right[i]
      BY <2>3, <1>2
    <3> QED
      BY <2>1, <3>1
  <2>4. 0 .. n \subseteq S
    <3> HIDE DEF S, n
    <3> QED
      BY <1>2, <2>2, <2>3, UpTo
  <2> QED
    BY <2>4
<1>8. right[n] = [position |-> v[T][k], ptr |-> PointerTo(s, e, T, k)]
  <2>1. n \in 0 .. n /\ k - n + n = k
    BY <1>2
  <2> HIDE DEF b, n
  <2> QED
    BY <1>2, <2>1 DEF PointerTo
<1>9. n \in 0 .. n
  BY <1>2
<1> HIDE DEF walk, right, n
<1> QED
  BY <1>1, <1>7, <1>8, <1>9
-----------------------------------------------------------------------------
(* The room in a block, whole or finished: what pop_back() leaves open can *)
(* take one more entry.                                                    *)
Full(T) == header(T) + BLOCK_SIZE * absolute(T)
SizeOf(s, T, k) == s.blocks[BlockOf(s, T, k)].size
Roomy(s, e) ==
  \A T \in Tables : \A k \in 0 .. Lines(s, T) - 1 :
    /\ SizeOf(s, T, k) # 0
    /\ Row(k) = Row(Lines(s, T)) =>
         \/ SizeOf(s, T, k) = Full(T)
         \/ /\ Col(Lines(s, T)) = BLOCK_SIZE - 1
            /\ SizeOf(s, T, k) >= e[T][Lines(s, T) - 1] + absolute(T)
    /\ Col(k) = BLOCK_SIZE - 1 => SizeOf(s, T, k) >= e[T][k - 1] + absolute(T)

(* A block is in one place of one table, or it is freed.                   *)
Owned(s) ==
  /\ \A b \in DOMAIN s.blocks :
       s.blocks[b].size # 0 <=>
         \E T \in Tables : \E j \in DOMAIN IndexOf(s, T) : IndexOf(s, T)[j] = b
  /\ \A T, U \in Tables : \A i \in DOMAIN IndexOf(s, T), j \in DOMAIN IndexOf(s, U) :
       IndexOf(s, T)[i] = IndexOf(s, U)[j] => T = U /\ i = j

Fitting(s) ==
  \A b \in DOMAIN s.blocks : \A o \in DOMAIN s.blocks[b].entries :
    s.blocks[b].entries[o].inside

Shape(s, e) ==
  /\ s \in Storage /\ Counted(s) /\ Indexed(s) /\ Chained(s, e) /\ Roomy(s, e)
  /\ Owned(s) /\ Fitting(s)

(* Where the next entry goes.                                              *)
Pointing(s, e) ==
  LET T == Growing(s)
      n == Lines(s, T)
  IN  s.block_pointer_ = IF Col(n) = 0 THEN nullptr ELSE PointerTo(s, e, T, n - 1)

(* Where the last one went.                                                *)
Poppable(s, e) ==
  LET T == Growing(s)
      n == Lines(s, T)
  IN  /\ n # 0
      /\ T = 64 => n # 1
      /\ s.previous_block_pointer_ =
           IF Col(n - 1) = 0 THEN nullptr
           ELSE [block |-> BlockOf(s, T, n - 1), offset |-> e[T][n - 2]]
      /\ Col(n) # 0 => SizeOf(s, T, n - 1) = Full(T)

Current(s, v) ==
  s.nb_lines_ # 0 => s.current_pos_ = v[Growing(s)][Lines(s, Growing(s)) - 1]

(* Entries follow one another in a block.                                  *)
LEMMA EndsIncrease ==
  ASSUME Sizes, NEW s \in Storage, Counted(s), NEW e, Chained(s, e),
         NEW T \in Tables, NEW k \in 0 .. Lines(s, T) - 1, NEW j \in 0 .. k - 1,
         Row(j) = Row(k)
  PROVE  e[T][j] < e[T][k]
<1> DEFINE S == {i \in Nat : j + 1 + i <= k => e[T][j] < e[T][j + 1 + i]}
           n == k - (j + 1)
<1>1. /\ Lines(s, T) \in Nat /\ k \in Nat /\ j \in Nat /\ n \in Nat /\ j < k
      /\ BLOCK_SIZE \in Nat /\ BLOCK_SIZE >= 2 /\ k < Lines(s, T)
  BY LineCounts DEF Sizes
<1>2. ASSUME NEW i \in j + 1 .. k
      PROVE  i \in 0 .. Lines(s, T) - 1 /\ i \in Nat /\ Col(i) # 0 /\ e[T][i - 1] < e[T][i]
  <2>1. i \in 0 .. Lines(s, T) - 1 /\ i \in Nat /\ i - 1 \in Nat /\ j < i /\ i <= k
        /\ i - 1 \in 0 .. Lines(s, T) - 1
    BY <1>1
  <2>2. Row(j) \in Nat /\ Row(i) \in Nat /\ Row(k) \in Nat /\ Row(i - 1) \in Nat
        /\ Col(i) \in Nat /\ Col(j) \in Nat /\ Col(k) \in Nat /\ Col(i - 1) \in Nat
    BY <1>1, <2>1, Division
  <2>3. Row(j) < Row(i) \/ (Row(j) = Row(i) /\ Col(j) < Col(i))
    BY <1>1, <2>1, RowsInOrder
  <2>4. i = k \/ Row(i) < Row(k) \/ (Row(i) = Row(k) /\ Col(i) < Col(k))
    BY <1>1, <2>1, RowsInOrder
  <2>5. Col(i) # 0
    BY <2>2, <2>3, <2>4
  <2>6. /\ e[T][i] = e[T][i - 1] + EntryOf(s, e, T, i).width
        /\ EntryOf(s, e, T, i).width \in 1 .. absolute(T) /\ e[T][i - 1] \in Nat
    BY <2>1, <2>5 DEF Chained
  <2>7. absolute(T) \in Nat
    BY DEF absolute
  <2> QED
    BY <2>1, <2>5, <2>6, <2>7
<1>3. ASSUME NEW i \in j .. k PROVE e[T][i] \in Nat
  BY <1>1 DEF Chained
<1>4. 0 \in S
  <2>1. j + 1 \in j + 1 .. k /\ j + 1 - 1 = j /\ j + 1 + 0 = j + 1
    BY <1>1
  <2> QED
    BY <1>2, <2>1
<1>5. ASSUME NEW i \in 0 .. n - 1, i \in S PROVE i + 1 \in S
  <2>1. /\ i \in Nat /\ i + 1 \in Nat /\ j + 1 + i <= k
        /\ j + 1 + (i + 1) \in j + 1 .. k /\ j + 1 + (i + 1) - 1 = j + 1 + i
    BY <1>1
  <2>2. e[T][j] < e[T][j + 1 + i]
    BY <1>5, <2>1
  <2>3. e[T][j + 1 + i] < e[T][j + 1 + (i + 1)]
    BY <1>2, <2>1
  <2>4. /\ e[T][j] \in Nat /\ e[T][j + 1 + i] \in Nat /\ e[T][j + 1 + (i + 1)] \in Nat
    BY <1>1, <1>3, <2>1
  <2>5. e[T][j] < e[T][j + 1 + (i + 1)]
    BY <2>2, <2>3, <2>4
  <2> QED
    BY <2>1, <2>5
<1>6. n \in S
  <2> HIDE DEF S, n
  <2>1. 0 .. n \subseteq S
    BY <1>1, <1>4, <1>5, UpTo
  <2> QED
    BY <1>1, <2>1
<1>7. j + 1 + n = k
  BY <1>1
<1> QED
  BY <1>6, <1>7, <1>1

(* A line is added: what is coded for the others is where it was.          *)
Added(f, T, n, x) ==
  [U \in Tables |-> IF U = T THEN [k \in 0 .. n |-> IF k = n THEN x ELSE f[T][k]] ELSE f[U]]

(* Added() puts one thing more in a table and nothing else.                *)
LEMMA AddedIs ==
  ASSUME NEW T \in Tables, NEW n \in Nat, NEW f, NEW x
  PROVE  /\ Added(f, T, n, x)[T][n] = x
         /\ \A k \in 0 .. n - 1 : Added(f, T, n, x)[T][k] = f[T][k]
         /\ \A U \in Tables : U # T => Added(f, T, n, x)[U] = f[U]
BY DEF Added

(* What is coded for a line stays, in the same block or in its copy.       *)
SameLine(s, r, e, T, k) ==
  /\ r.blocks[BlockOf(r, T, k)].initial = s.blocks[BlockOf(s, T, k)].initial
  /\ Col(k) # 0 =>
       /\ e[T][k - 1] \in DOMAIN r.blocks[BlockOf(r, T, k)].entries
       /\ EntryOf(r, e, T, k) = EntryOf(s, e, T, k)

(* A line more at the end of a table, in the place that its column calls   *)
(* for: all the lines are coded still.                                     *)
LEMMA Extends ==
  ASSUME Sizes, NEW s \in Storage, NEW r \in Storage, Counted(s), Counted(r),
         NEW e, NEW v, Chained(s, e), Coded(s, e, v),
         NEW T \in Tables, NEW x \in Nat, NEW y \in Nat,
         \A U \in Tables : Lines(r, U) = IF U = T THEN Lines(s, U) + 1 ELSE Lines(s, U),
         \A U \in Tables : \A k \in 0 .. Lines(s, U) - 1 : SameLine(s, r, e, U, k),
         NEW n, n = Lines(s, T),
         x <= header(T) + Col(n) * absolute(T),
         Col(n) = 0 => x = header(T) /\ r.blocks[BlockOf(r, T, n)].initial = y,
         Col(n) # 0 =>
           /\ n # 0
           /\ e[T][n - 1] \in DOMAIN r.blocks[BlockOf(r, T, n)].entries
           /\ EntryOf(r, e, T, n).width \in 1 .. absolute(T)
           /\ x = e[T][n - 1] + EntryOf(r, e, T, n).width
           /\ y = IF EntryOf(r, e, T, n).relative
                    THEN v[T][n - 1] + EntryOf(r, e, T, n).value
                    ELSE EntryOf(r, e, T, n).value
  PROVE  /\ Chained(r, Added(e, T, n, x))
         /\ Coded(r, Added(e, T, n, x), Added(v, T, n, y))
<1> DEFINE e2 == Added(e, T, n, x)
           v2 == Added(v, T, n, y)
<1>1. n \in Nat
  BY LineCounts
<1>2. ASSUME NEW U \in Tables, NEW k \in 0 .. Lines(s, U) - 1
      PROVE  /\ e2[U][k] = e[U][k] /\ v2[U][k] = v[U][k]
             /\ Col(k) # 0 => /\ k # 0
                              /\ e2[U][k - 1] = e[U][k - 1] /\ v2[U][k - 1] = v[U][k - 1]
  <2>1. Lines(s, U) \in Nat /\ k \in Nat /\ (k # 0 => k - 1 \in 0 .. Lines(s, U) - 1)
    BY LineCounts
  <2>2. Col(k) # 0 => k # 0
    BY FirstRow
  <2>3. CASE U # T
    BY <1>1, <2>2, <2>3, AddedIs
  <2>4. CASE U = T
    <3>1. \A i \in 0 .. n - 1 : e2[T][i] = e[T][i] /\ v2[T][i] = v[T][i]
      BY <1>1, AddedIs
    <3> HIDE DEF e2, v2
    <3> QED
      BY <2>1, <2>2, <2>4, <3>1
  <2> QED
    BY <2>3, <2>4
<1>3. /\ e2[T][n] = x /\ v2[T][n] = y
      /\ n # 0 => e2[T][n - 1] = e[T][n - 1] /\ v2[T][n - 1] = v[T][n - 1]
  BY <1>1, AddedIs
<1> HIDE DEF e2, v2
<1>4. ASSUME NEW U \in Tables, NEW k \in 0 .. Lines(r, U) - 1
      PROVE  (U = T /\ k = n) \/ k \in 0 .. Lines(s, U) - 1
  BY <1>1, LineCounts
<1>5. Chained(r, e2)
  <2> SUFFICES ASSUME NEW U \in Tables, NEW k \in 0 .. Lines(r, U) - 1
      PROVE
        /\ e2[U][k] \in Nat
        /\ e2[U][k] <= header(U) + Col(k) * absolute(U)
        /\ Col(k) = 0 => e2[U][k] = header(U)
        /\ Col(k) # 0 =>
             /\ e2[U][k - 1] \in DOMAIN r.blocks[BlockOf(r, U, k)].entries
             /\ EntryOf(r, e2, U, k).width \in 1 .. absolute(U)
             /\ e2[U][k] = e2[U][k - 1] + EntryOf(r, e2, U, k).width
    BY DEF Chained
  <2>1. CASE U = T /\ k = n
    BY <1>3, <2>1 DEF EntryOf
  <2>2. CASE k \in 0 .. Lines(s, U) - 1
    <3>1. SameLine(s, r, e, U, k)
      BY <2>2
    <3>2. /\ e2[U][k] = e[U][k]
          /\ Col(k) # 0 => e2[U][k - 1] = e[U][k - 1]
      BY <1>2, <2>2
    <3>3. Col(k) # 0 => EntryOf(r, e2, U, k) = EntryOf(s, e, U, k)
      BY <3>1, <3>2 DEF SameLine, EntryOf
    <3> QED
      BY <2>2, <3>1, <3>2, <3>3 DEF Chained, SameLine
  <2> QED
    BY <1>4, <2>1, <2>2
<1>6. Coded(r, e2, v2)
  <2> SUFFICES ASSUME NEW U \in Tables, NEW k \in 0 .. Lines(r, U) - 1
      PROVE
        /\ v2[U][k] \in Nat
        /\ Col(k) = 0 => r.blocks[BlockOf(r, U, k)].initial = v2[U][k]
        /\ Col(k) # 0 =>
             v2[U][k] = IF EntryOf(r, e2, U, k).relative
                          THEN v2[U][k - 1] + EntryOf(r, e2, U, k).value
                          ELSE EntryOf(r, e2, U, k).value
    BY DEF Coded
  <2>1. CASE U = T /\ k = n
    BY <1>3, <2>1 DEF EntryOf
  <2>2. CASE k \in 0 .. Lines(s, U) - 1
    <3>1. SameLine(s, r, e, U, k)
      BY <2>2
    <3>2. /\ v2[U][k] = v[U][k]
          /\ Col(k) # 0 => e2[U][k - 1] = e[U][k - 1] /\ v2[U][k - 1] = v[U][k - 1]
      BY <1>2, <2>2, SMTT(30)
    <3>3. Col(k) # 0 => EntryOf(r, e2, U, k) = EntryOf(s, e, U, k)
      BY <3>1, <3>2 DEF SameLine, EntryOf
    <3> QED
      BY <2>2, <3>1, <3>2, <3>3 DEF Coded, SameLine
  <2> QED
    BY <1>4, <2>1, <2>2
<1> QED
  BY <1>5, <1>6 DEF e2, v2
-----------------------------------------------------------------------------
(* append(): the line as it is added, before its block is finished.        *)
TableFor(pos) == IF pos > UINT32_MAX THEN 64 ELSE 32
FirstBig(s, pos) == pos > UINT32_MAX /\ s.first_long_line_ = Unset
Opens(s, pos) == FirstBig(s, pos) \/ s.block_pointer_ = nullptr
OpenedFor(s, pos) ==
  IF FirstBig(s, pos) THEN [SavePointer(s) EXCEPT !.first_long_line_ = s.nb_lines_,
                                                  !.block_pointer_ = nullptr]
  ELSE SavePointer(s)
WrittenIn(s, pos) ==
  LET opened == OpenedFor(s, pos)
      delta == pos - s.current_pos_
  IN  IF opened.block_pointer_ = nullptr THEN NewBlock(opened, TableFor(pos), pos)
      ELSE IF delta < OneByte THEN Write(opened, TRUE, delta, 1)
      ELSE IF delta < TwoBytes THEN Write(opened, TRUE, delta, 2)
      ELSE Write(opened, FALSE, pos, absolute(TableFor(pos)))
Grown(s, pos) ==
  [WrittenIn(s, pos) EXCEPT !.current_pos_ = pos, !.nb_lines_ = @ + 1]

(* append() makes the line, then finishes the block that is whole.         *)
LEMMA AppendIs ==
  ASSUME NEW s, NEW pos, ~s.dead
  PROVE  append(s, pos) =
    LET result == Grown(s, pos)
        nb == IF pos > UINT32_MAX THEN result.nb_lines_ - result.first_long_line_
                                  ELSE result.nb_lines_
    IN  IF nb % BLOCK_SIZE = 0 THEN FinishBlock(result, TableFor(pos), nb) ELSE result
BY DEF append, Grown, WrittenIn, OpenedFor, FirstBig, TableFor

(* The entries of a block are a function from offsets.                     *)
LEMMA EntriesAre ==
  ASSUME NEW f \in Entries
  PROVE  DOMAIN f \in SUBSET Nat /\ f \in [DOMAIN f -> Entry]
BY DEF Entries

(* A function from offsets is the entries of a block.                      *)
LEMMA AreEntries ==
  ASSUME NEW D \in SUBSET Nat, NEW f \in [D -> Entry]
  PROVE  f \in Entries
BY DEF Entries

(* A block just made has none.                                             *)
LEMMA NoEntries == <<>> \in Entries
<1>1. <<>> \in [{} -> Entry]
  OBVIOUS
<1> QED
  BY <1>1, AreEntries

(* w is s but for the index of a table.                                    *)
Reindexed(s, w, T, index) ==
  /\ w \in Storage
  /\ w.index32 = IF T = 32 THEN index ELSE s.index32
  /\ w.index64 = IF T = 64 THEN index ELSE s.index64
  /\ w.blocks = s.blocks
  /\ w.nb_lines_ = s.nb_lines_ /\ w.current_pos_ = s.current_pos_
  /\ w.first_long_line_ = s.first_long_line_
  /\ w.block_pointer_ = s.block_pointer_
  /\ w.previous_block_pointer_ = s.previous_block_pointer_
  /\ w.last_read_ = s.last_read_ /\ w.dead = s.dead /\ w.thread_ids_ = s.thread_ids_

(* WithIndex() changes the index of one table.                             *)
LEMMA WithIndexIs ==
  ASSUME NEW s \in Storage, NEW T \in Tables, NEW index \in Seq(Nat)
  PROVE  Reindexed(s, WithIndex(s, T, index), T, index)
<1>1. T = 32 \/ T = 64
  BY DEF Tables
<1>2. CASE T = 32
  <2>1. WithIndex(s, T, index) = [s EXCEPT !.index32 = index]
    BY <1>2 DEF WithIndex
  <2> QED
    BY <1>2, <2>1 DEF Reindexed, Storage
<1>3. CASE T = 64
  <2>1. WithIndex(s, T, index) = [s EXCEPT !.index64 = index]
    BY <1>3 DEF WithIndex
  <2> QED
    BY <1>3, <2>1 DEF Reindexed, Storage
<1> QED
  BY <1>1, <1>2, <1>3

(* A block is made for the line.                                           *)
MadeBlock(s, r, pos) ==
  LET T == TableFor(pos)
      b == Len(s.blocks) + 1
  IN  /\ r \in Storage
      /\ r.blocks = Append(s.blocks, [size |-> Full(T), initial |-> pos, entries |-> <<>>])
      /\ r.index32 = IF T = 32 THEN Append(s.index32, b) ELSE s.index32
      /\ r.index64 = IF T = 64 THEN Append(s.index64, b) ELSE s.index64
      /\ r.nb_lines_ = s.nb_lines_ + 1 /\ r.current_pos_ = pos
      /\ r.first_long_line_ = IF FirstBig(s, pos) THEN s.nb_lines_ ELSE s.first_long_line_
      /\ r.block_pointer_ = [block |-> b, offset |-> header(T)]
      /\ r.previous_block_pointer_ = s.block_pointer_
      /\ r.last_read_ = s.last_read_ /\ r.dead = s.dead /\ r.thread_ids_ = s.thread_ids_

(* A line for which a block is made: NewBlock(), field by field.           *)
LEMMA GrownOpens ==
  ASSUME Sizes, NEW s \in Storage, NEW pos \in Nat, Opens(s, pos)
  PROVE  MadeBlock(s, Grown(s, pos), pos)
<1> DEFINE T == TableFor(pos)
           b == Len(s.blocks) + 1
           o == OpenedFor(s, pos)
           block == [size |-> Full(T), initial |-> pos, entries |-> <<>>]
           r == Grown(s, pos)
<1>1. /\ o \in Storage
      /\ o.blocks = s.blocks /\ o.index32 = s.index32 /\ o.index64 = s.index64
      /\ o.nb_lines_ = s.nb_lines_ /\ o.current_pos_ = s.current_pos_
      /\ o.first_long_line_ = IF FirstBig(s, pos) THEN s.nb_lines_ ELSE s.first_long_line_
      /\ o.block_pointer_ = nullptr
      /\ o.previous_block_pointer_ = s.block_pointer_
      /\ o.last_read_ = s.last_read_ /\ o.dead = s.dead /\ o.thread_ids_ = s.thread_ids_
  BY DEF Storage, OpenedFor, SavePointer, Opens, nullptr, Pointer
<1>2. T \in {32, 64}
  BY DEF TableFor
<1>3. WrittenIn(s, pos) = NewBlock(o, T, pos)
  BY <1>1 DEF WrittenIn
<1>4. block = [size |-> header(T) + BLOCK_SIZE * absolute(T), initial |-> pos,
               entries |-> <<>>]
  BY DEF Full
<1> HIDE DEF o, T, block
<1>5. r = [[WithIndex(o, T, Append(IndexOf(o, T), b)) EXCEPT
              !.blocks = Append(@, block),
              !.block_pointer_ = [block |-> b, offset |-> header(T)]] EXCEPT
              !.current_pos_ = pos, !.nb_lines_ = @ + 1]
  BY <1>1, <1>3, <1>4 DEF Grown, NewBlock
<1>6. block \in Block
  <2>1. Full(T) \in Nat
    BY <1>2 DEF Sizes, Full, header, absolute
  <2> QED
    BY <2>1, NoEntries DEF Block, block
<1>7. /\ b \in Nat /\ s.blocks \in Seq(Block) /\ Append(s.blocks, block) \in Seq(Block)
      /\ header(T) \in Nat
      /\ Append(s.index32, b) \in Seq(Nat) /\ Append(s.index64, b) \in Seq(Nat)
  BY <1>6 DEF Storage, b, header
<1> HIDE DEF b
<1> DEFINE w == WithIndex(o, T, Append(IndexOf(o, T), b))
           x == [w EXCEPT !.blocks = Append(@, block),
                          !.block_pointer_ = [block |-> b, offset |-> header(T)]]
<1>8. /\ Append(IndexOf(o, T), b) \in Seq(Nat)
      /\ IndexOf(o, T) = IF T = 32 THEN s.index32 ELSE s.index64
  BY <1>1, <1>2, <1>7 DEF IndexOf
<1> DEFINE ix == Append(IndexOf(o, T), b)
<1>13. /\ w = WithIndex(o, T, ix) /\ T \in Tables /\ o \in Storage /\ ix \in Seq(Nat)
       /\ ix = IF T = 32 THEN Append(s.index32, b) ELSE Append(s.index64, b)
  BY <1>1, <1>2, <1>8 DEF Tables
<1> HIDE DEF w, ix
<1>9. /\ w \in Storage
      /\ w.blocks = s.blocks
      /\ w.index32 = IF T = 32 THEN Append(s.index32, b) ELSE s.index32
      /\ w.index64 = IF T = 64 THEN Append(s.index64, b) ELSE s.index64
      /\ w.nb_lines_ = o.nb_lines_ /\ w.current_pos_ = o.current_pos_
      /\ w.first_long_line_ = o.first_long_line_
      /\ w.previous_block_pointer_ = o.previous_block_pointer_
      /\ w.last_read_ = o.last_read_ /\ w.dead = o.dead /\ w.thread_ids_ = o.thread_ids_
  <2>1. Reindexed(o, w, T, ix)
    <3> HIDE DEF T, o
    <3> QED
      BY <1>13, WithIndexIs
  <2>2. T = 32 => T # 64
    OBVIOUS
  <2> HIDE DEF T, o
  <2> QED
    BY <1>1, <1>2, <1>13, <2>1, <2>2 DEF Reindexed
<1>10. /\ x \in Storage
       /\ x.blocks = Append(s.blocks, block)
       /\ x.block_pointer_ = [block |-> b, offset |-> header(T)]
       /\ x.index32 = w.index32 /\ x.index64 = w.index64
       /\ x.nb_lines_ = w.nb_lines_ /\ x.current_pos_ = w.current_pos_
       /\ x.first_long_line_ = w.first_long_line_
       /\ x.previous_block_pointer_ = w.previous_block_pointer_
       /\ x.last_read_ = w.last_read_ /\ x.dead = w.dead /\ x.thread_ids_ = w.thread_ids_
  BY <1>7, <1>9 DEF Storage, Pointer
<1> HIDE DEF x
<1>11. r = [x EXCEPT !.current_pos_ = pos, !.nb_lines_ = x.nb_lines_ + 1]
       /\ x.nb_lines_ + 1 \in Nat /\ pos \in Int
  <2>1. x.nb_lines_ \in Nat
    BY <1>10 DEF Storage
  <2> QED
    BY <1>5, <2>1 DEF w, x
<1> HIDE DEF r
<1>12. /\ r \in Storage
       /\ r.current_pos_ = pos /\ r.nb_lines_ = x.nb_lines_ + 1
       /\ r.blocks = x.blocks /\ r.block_pointer_ = x.block_pointer_
       /\ r.index32 = x.index32 /\ r.index64 = x.index64
       /\ r.first_long_line_ = x.first_long_line_
       /\ r.previous_block_pointer_ = x.previous_block_pointer_
       /\ r.last_read_ = x.last_read_ /\ r.dead = x.dead /\ r.thread_ids_ = x.thread_ids_
  BY <1>10, <1>11 DEF Storage
<1> QED
  BY <1>1, <1>9, <1>10, <1>12 DEF MadeBlock, T, b, block, r

(* An entry is written for it.                                             *)
EntryFor(s, pos) ==
  LET delta == pos - s.current_pos_
      relative == delta < OneByte \/ delta < TwoBytes
      width == IF delta < OneByte THEN 1 ELSE IF delta < TwoBytes THEN 2
               ELSE absolute(TableFor(pos))
  IN  [relative |-> relative, value |-> IF relative THEN delta ELSE pos,
       width |-> width,
       inside |-> s.block_pointer_.offset + width <= s.blocks[s.block_pointer_.block].size]
WroteEntry(s, r, pos) ==
  LET p == s.block_pointer_
      entry == EntryFor(s, pos)
  IN  /\ r \in Storage
      /\ DOMAIN r.blocks = DOMAIN s.blocks
      /\ \A b \in DOMAIN s.blocks \ {p.block} : r.blocks[b] = s.blocks[b]
      /\ r.blocks[p.block].size = s.blocks[p.block].size
      /\ r.blocks[p.block].initial = s.blocks[p.block].initial
      /\ \A o \in DOMAIN s.blocks[p.block].entries : o < p.offset =>
           /\ o \in DOMAIN r.blocks[p.block].entries
           /\ r.blocks[p.block].entries[o] = s.blocks[p.block].entries[o]
      /\ p.offset \in DOMAIN r.blocks[p.block].entries
      /\ r.blocks[p.block].entries[p.offset] = entry
      /\ \A o \in DOMAIN r.blocks[p.block].entries : o # p.offset =>
           /\ o \in DOMAIN s.blocks[p.block].entries
           /\ r.blocks[p.block].entries[o] = s.blocks[p.block].entries[o]
      /\ r.index32 = s.index32 /\ r.index64 = s.index64
      /\ r.nb_lines_ = s.nb_lines_ + 1 /\ r.current_pos_ = pos
      /\ r.first_long_line_ = s.first_long_line_
      /\ r.block_pointer_ = [block |-> p.block, offset |-> p.offset + entry.width]
      /\ r.previous_block_pointer_ = p
      /\ r.last_read_ = s.last_read_ /\ r.dead = s.dead /\ r.thread_ids_ = s.thread_ids_

(* The entry chosen for a position codes it, in one, two or all of the     *)
(* bytes.                                                                  *)
LEMMA EntryForIs ==
  ASSUME Sizes, NEW s \in Storage, NEW pos \in Nat, s.block_pointer_.block \in DOMAIN s.blocks
  PROVE  /\ EntryFor(s, pos) \in Entry
         /\ EntryFor(s, pos).width \in 1 .. absolute(TableFor(pos))
         /\ EntryFor(s, pos).inside =
              (s.block_pointer_.offset + EntryFor(s, pos).width
                 <= s.blocks[s.block_pointer_.block].size)
         /\ pos = IF EntryFor(s, pos).relative THEN s.current_pos_ + EntryFor(s, pos).value
                   ELSE EntryFor(s, pos).value
<1>1. s.current_pos_ \in Int /\ s.block_pointer_.offset \in Nat
  BY DEF Storage, Pointer
<1>2. absolute(TableFor(pos)) \in {6, 10}
  BY DEF absolute
<1> DEFINE delta == pos - s.current_pos_
           relative == delta < OneByte \/ delta < TwoBytes
           width == IF delta < OneByte THEN 1 ELSE IF delta < TwoBytes THEN 2
                    ELSE absolute(TableFor(pos))
           inside == s.block_pointer_.offset + width
                       <= s.blocks[s.block_pointer_.block].size
           value == IF relative THEN delta ELSE pos
<1>3. EntryFor(s, pos) = [relative |-> relative, value |-> value, width |-> width,
                          inside |-> inside]
  BY DEF EntryFor
<1>4. /\ relative \in BOOLEAN /\ inside \in BOOLEAN
      /\ width \in 1 .. absolute(TableFor(pos)) /\ width \in Nat
      /\ value \in Int /\ pos = IF relative THEN s.current_pos_ + value ELSE value
  BY <1>1, <1>2 DEF Sizes
<1>5. EntryFor(s, pos).width = width
  BY <1>3
<1>6. EntryFor(s, pos).inside = inside
  BY <1>3
<1> HIDE DEF relative, width, inside, value
<1>7. EntryFor(s, pos) \in Entry
  BY <1>3, <1>4 DEF Entry
<1>8. pos = IF EntryFor(s, pos).relative THEN s.current_pos_ + EntryFor(s, pos).value
            ELSE EntryFor(s, pos).value
  BY <1>3, <1>4
<1>9. EntryFor(s, pos).width \in 1 .. absolute(TableFor(pos))
  BY <1>4, <1>5, SMTT(30)
<1> QED
  BY <1>5, <1>6, <1>7, <1>8, <1>9 DEF inside

(* Write(): r is s with an entry more.                                     *)
HasEntry(s, r, entry) ==
  LET p == s.block_pointer_
      old == s.blocks[p.block].entries
      new == r.blocks[p.block].entries
  IN  /\ r \in Storage
      /\ DOMAIN r.blocks = DOMAIN s.blocks
      /\ \A b \in DOMAIN s.blocks \ {p.block} : r.blocks[b] = s.blocks[b]
      /\ r.blocks[p.block].size = s.blocks[p.block].size
      /\ r.blocks[p.block].initial = s.blocks[p.block].initial
      /\ \A o \in DOMAIN old : o < p.offset => o \in DOMAIN new /\ new[o] = old[o]
      /\ p.offset \in DOMAIN new
      /\ new[p.offset] = entry
      /\ \A o \in DOMAIN new : o # p.offset => o \in DOMAIN old /\ new[o] = old[o]
      /\ r.index32 = s.index32 /\ r.index64 = s.index64
      /\ r.nb_lines_ = s.nb_lines_ /\ r.current_pos_ = s.current_pos_
      /\ r.first_long_line_ = s.first_long_line_
      /\ r.block_pointer_ = [block |-> p.block, offset |-> p.offset + entry.width]
      /\ r.previous_block_pointer_ = s.previous_block_pointer_
      /\ r.last_read_ = s.last_read_ /\ r.dead = s.dead /\ r.thread_ids_ = s.thread_ids_

(* Write() puts the entry where the pointer is, before it nothing changes, *)
(* and moves the pointer past it.                                          *)
LEMMA WriteIs ==
  ASSUME NEW s \in Storage, s.block_pointer_.block \in DOMAIN s.blocks,
         NEW relative, NEW value, NEW width \in Nat, NEW entry \in Entry,
         entry = [relative |-> relative, value |-> value, width |-> width,
                  inside |-> s.block_pointer_.offset + width
                               <= s.blocks[s.block_pointer_.block].size]
  PROVE  HasEntry(s, Write(s, relative, value, width), entry)
<1> DEFINE p == s.block_pointer_
           old == s.blocks[p.block].entries
           kept == {o \in DOMAIN old : o < p.offset \/ o >= p.offset + width}
           new == [o \in kept \cup {p.offset} |-> IF o = p.offset THEN entry ELSE old[o]]
           block == [s.blocks[p.block] EXCEPT !.entries = new]
           pointer == [s.block_pointer_ EXCEPT !.offset = @ + width]
           r == [s EXCEPT !.blocks = [s.blocks EXCEPT ![p.block] = block],
                          !.block_pointer_ = pointer]
<1>1. Write(s, relative, value, width) = r
  BY DEF Write
<1>2. /\ s.blocks \in Seq(Block) /\ p.block \in DOMAIN s.blocks
      /\ s.blocks[p.block] \in Block /\ old \in Entries
      /\ p \in Pointer /\ p.offset \in Nat /\ p.block \in Nat
  <2>1. s.blocks \in Seq(Block) /\ p \in Pointer
    BY DEF Storage
  <2>2. s.blocks[p.block] \in Block
    BY <2>1
  <2> QED
    BY <2>1, <2>2 DEF Block, Pointer
<1>3. old \in [DOMAIN old -> Entry] /\ DOMAIN old \in SUBSET Nat
  BY <1>2, EntriesAre
<1>4. new \in Entries
  <2>1. kept \cup {p.offset} \in SUBSET Nat
    BY <1>2, <1>3
  <2>2. new \in [kept \cup {p.offset} -> Entry]
    <3> HIDE DEF old
    <3> QED
      BY <1>3
  <2> HIDE DEF new, kept
  <2> QED
    BY <2>1, <2>2, AreEntries
<1>5. /\ block \in Block /\ block.entries = new
      /\ block.size = s.blocks[p.block].size /\ block.initial = s.blocks[p.block].initial
  <2> HIDE DEF new
  <2> QED
    BY <1>2, <1>4 DEF Block
<1>6. pointer \in Pointer /\ pointer = [block |-> p.block, offset |-> p.offset + width]
  BY <1>2 DEF Pointer
<1>7. /\ DOMAIN new = kept \cup {p.offset}
      /\ new[p.offset] = entry
      /\ \A o \in kept : o # p.offset => new[o] = old[o]
  <2> HIDE DEF kept, old
  <2> QED
    OBVIOUS
<1>8. entry.width = width
  OBVIOUS
<1>9. \A o \in DOMAIN old : o < p.offset => o \in kept /\ o # p.offset
  BY <1>2, <1>3
<1>10. \A o \in kept : o \in DOMAIN old
  OBVIOUS
<1> DEFINE blocks == [s.blocks EXCEPT ![p.block] = block]
<1>11. /\ blocks \in Seq(Block) /\ DOMAIN blocks = DOMAIN s.blocks
       /\ blocks[p.block] = block
       /\ \A b \in DOMAIN s.blocks \ {p.block} : blocks[b] = s.blocks[b]
  <2> HIDE DEF block
  <2> QED
    BY <1>2, <1>5
<1> HIDE DEF new, kept, block, pointer, blocks
<1>12. r = [s EXCEPT !.blocks = blocks, !.block_pointer_ = pointer]
  BY DEF blocks
<1> HIDE DEF r
<1>13. /\ r \in Storage /\ r.blocks = blocks /\ r.block_pointer_ = pointer
       /\ r.index32 = s.index32 /\ r.index64 = s.index64
       /\ r.nb_lines_ = s.nb_lines_ /\ r.current_pos_ = s.current_pos_
       /\ r.first_long_line_ = s.first_long_line_
       /\ r.previous_block_pointer_ = s.previous_block_pointer_
       /\ r.last_read_ = s.last_read_ /\ r.dead = s.dead /\ r.thread_ids_ = s.thread_ids_
  BY <1>6, <1>11, <1>12 DEF Storage
<1>14. r.blocks[p.block].entries = new
  BY <1>5, <1>11, <1>13
<1>15. /\ \A o \in DOMAIN old : o < p.offset => o \in DOMAIN new /\ new[o] = old[o]
       /\ \A o \in DOMAIN new : o # p.offset => o \in DOMAIN old /\ new[o] = old[o]
  BY <1>7, <1>9, <1>10, SMTT(30)
<1> QED
  BY <1>1, <1>5, <1>6, <1>7, <1>8, <1>11, <1>13, <1>14, <1>15 DEF HasEntry

(* A line for which there is a block open: an entry is written in it.      *)
LEMMA GrownWrites ==
  ASSUME Sizes, NEW s \in Storage, NEW pos \in Nat, ~Opens(s, pos),
         s.block_pointer_.block \in DOMAIN s.blocks
  PROVE  WroteEntry(s, Grown(s, pos), pos)
<1> DEFINE p == s.block_pointer_
           entry == EntryFor(s, pos)
           saved == SavePointer(s)
           x == Write(saved, entry.relative, entry.value, entry.width)
           r == Grown(s, pos)
<1>1. /\ saved \in Storage
      /\ saved.blocks = s.blocks /\ saved.index32 = s.index32 /\ saved.index64 = s.index64
      /\ saved.nb_lines_ = s.nb_lines_ /\ saved.current_pos_ = s.current_pos_
      /\ saved.first_long_line_ = s.first_long_line_
      /\ saved.block_pointer_ = p /\ saved.previous_block_pointer_ = p
      /\ saved.last_read_ = s.last_read_ /\ saved.dead = s.dead
      /\ saved.thread_ids_ = s.thread_ids_
  BY DEF Storage, SavePointer
<1>2. ~FirstBig(s, pos) /\ p # nullptr /\ OpenedFor(s, pos) = saved
  BY DEF Opens, OpenedFor
<1> HIDE DEF saved
<1>3. WrittenIn(s, pos) = x
  BY <1>1, <1>2 DEF WrittenIn, EntryFor
<1>4. r = [x EXCEPT !.current_pos_ = pos, !.nb_lines_ = x.nb_lines_ + 1]
  <2> HIDE DEF x
  <2> QED
    BY <1>3 DEF Grown
<1>5. HasEntry(saved, x, entry)
  <2>1. entry = [relative |-> entry.relative, value |-> entry.value, width |-> entry.width,
                 inside |-> p.offset + entry.width <= s.blocks[p.block].size]
    BY DEF EntryFor
  <2>2. entry \in Entry /\ entry.width \in Nat
    BY EntryForIs DEF Entry
  <2> HIDE DEF entry
  <2>3. entry = [relative |-> entry.relative, value |-> entry.value, width |-> entry.width,
                 inside |-> saved.block_pointer_.offset + entry.width
                              <= saved.blocks[saved.block_pointer_.block].size]
    BY <1>1, <2>1, Zenon
  <2>4. saved \in Storage /\ saved.block_pointer_.block \in DOMAIN saved.blocks
    BY <1>1
  <2> QED
    BY <2>2, <2>3, <2>4, WriteIs
<1> HIDE DEF x, entry, r
<1>6. x \in Storage /\ x.nb_lines_ + 1 \in Nat /\ pos \in Int
  <2>1. x \in Storage
    BY <1>5 DEF HasEntry
  <2>2. x.nb_lines_ \in Nat
    BY <2>1 DEF Storage
  <2> QED
    BY <2>1, <2>2
<1>7. /\ r \in Storage
      /\ r.current_pos_ = pos /\ r.nb_lines_ = x.nb_lines_ + 1
      /\ r.blocks = x.blocks /\ r.block_pointer_ = x.block_pointer_
      /\ r.index32 = x.index32 /\ r.index64 = x.index64
      /\ r.first_long_line_ = x.first_long_line_
      /\ r.previous_block_pointer_ = x.previous_block_pointer_
      /\ r.last_read_ = x.last_read_ /\ r.dead = x.dead /\ r.thread_ids_ = x.thread_ids_
  BY <1>4, <1>6 DEF Storage
<1> QED
  BY <1>1, <1>5, <1>7 DEF HasEntry, WroteEntry, entry, r

(* FinishBlock(): the block b, in the place j of its table, is shrunk, and *)
(* may move.                                                               *)
NewPlace(s, b) == IF ReallocMoves THEN Len(s.blocks) + 1 ELSE b
HasFinished(s, r, T, j) ==
  LET b == IndexOf(s, T)[j]
      new == NewPlace(s, b)
  IN  /\ r \in Storage
      /\ DOMAIN r.blocks = DOMAIN s.blocks \cup {new}
      /\ r.blocks[new].size = s.previous_block_pointer_.offset + absolute(T)
      /\ r.blocks[new].initial = s.blocks[b].initial
      /\ r.blocks[new].entries = s.blocks[b].entries
      /\ new # b => r.blocks[b] = Freed
      /\ \A c \in DOMAIN s.blocks \ {b} : c # new /\ r.blocks[c] = s.blocks[c]
      /\ IndexOf(r, T) = [IndexOf(s, T) EXCEPT ![j] = new]
      /\ \A U \in Tables : U # T => IndexOf(r, U) = IndexOf(s, U)
      /\ r.nb_lines_ = s.nb_lines_ /\ r.current_pos_ = s.current_pos_
      /\ r.first_long_line_ = s.first_long_line_
      /\ r.block_pointer_ = nullptr
      /\ r.previous_block_pointer_ = [block |-> new, offset |-> s.previous_block_pointer_.offset]
      /\ r.last_read_ = s.last_read_ /\ r.dead = s.dead /\ r.thread_ids_ = s.thread_ids_

(* FinishBlock() shrinks the last block of a table, whether realloc()      *)
(* moves it or not.                                                        *)
LEMMA FinishBlockIs ==
  ASSUME NEW s \in Storage, NEW T \in Tables, NEW nb \in Nat,
         Row(nb) \in DOMAIN IndexOf(s, T), IndexOf(s, T)[Row(nb)] \in DOMAIN s.blocks
  PROVE  HasFinished(s, FinishBlock(s, T, nb), T, Row(nb))
<1> DEFINE j == Row(nb)
           index == IndexOf(s, T)
           b == index[j]
           size == s.previous_block_pointer_.offset + absolute(T)
           new == NewPlace(s, b)
           shrunk == [s.blocks[b] EXCEPT !.size = size]
           blocks == IF ReallocMoves THEN Append([s.blocks EXCEPT ![b] = Freed], shrunk)
                     ELSE [s.blocks EXCEPT ![b] = shrunk]
           index2 == [index EXCEPT ![j] = new]
           w == WithIndex(s, T, index2)
           x == [w EXCEPT !.blocks = blocks, !.block_pointer_ = nullptr]
           r == [w EXCEPT !.blocks = blocks, !.block_pointer_ = nullptr,
                          !.previous_block_pointer_.block = new]
<1>1. FinishBlock(s, T, nb) = r
  BY DEF FinishBlock, NewPlace, Row
<1>2. /\ s.blocks \in Seq(Block) /\ b \in DOMAIN s.blocks /\ b \in Nat
      /\ s.previous_block_pointer_ \in Pointer /\ Len(s.blocks) \in Nat
      /\ DOMAIN s.blocks = 1 .. Len(s.blocks)
  <2>1. s.blocks \in Seq(Block) /\ s.previous_block_pointer_ \in Pointer
    BY DEF Storage
  <2> QED
    BY <2>1
<1>3. /\ s.blocks[b] \in Block
      /\ size \in Nat
  BY <1>2 DEF Pointer, absolute
<1> HIDE DEF b, size
<1>4. shrunk \in Block /\ shrunk.size = size
      /\ shrunk.initial = s.blocks[b].initial /\ shrunk.entries = s.blocks[b].entries
  BY <1>3 DEF Block
<1>5. Freed \in Block
  BY NoEntries DEF Block, Freed, Garbage
<1> HIDE DEF shrunk
<1>6. /\ blocks \in Seq(Block)
      /\ DOMAIN blocks = DOMAIN s.blocks \cup {new}
      /\ blocks[new] = shrunk
      /\ new # b => blocks[b] = Freed
      /\ \A c \in DOMAIN s.blocks \ {b} : c # new /\ blocks[c] = s.blocks[c]
      /\ new \in Nat
  <2>1. CASE ReallocMoves
    <3> DEFINE freed == [s.blocks EXCEPT ![b] = Freed]
    <3>1. /\ freed \in Seq(Block) /\ Len(freed) = Len(s.blocks)
          /\ freed[b] = Freed /\ \A c \in DOMAIN s.blocks \ {b} : freed[c] = s.blocks[c]
      BY <1>2, <1>5
    <3> HIDE DEF freed
    <3>2. blocks = Append(freed, shrunk) /\ new = Len(s.blocks) + 1
      BY <2>1 DEF freed, NewPlace
    <3>3. /\ Append(freed, shrunk) \in Seq(Block)
          /\ DOMAIN Append(freed, shrunk) = 1 .. Len(s.blocks) + 1
          /\ Append(freed, shrunk)[Len(s.blocks) + 1] = shrunk
          /\ \A c \in 1 .. Len(s.blocks) : Append(freed, shrunk)[c] = freed[c]
      BY <1>2, <1>4, <3>1
    <3> HIDE DEF blocks, new
    <3> QED
      BY <1>2, <3>1, <3>2, <3>3
  <2>2. CASE ~ReallocMoves
    <3>1. blocks = [s.blocks EXCEPT ![b] = shrunk] /\ new = b
      BY <2>2 DEF NewPlace
    <3> HIDE DEF blocks, new
    <3> QED
      BY <1>2, <1>4, <3>1
  <2> QED
    BY <2>1, <2>2
<1>7. index \in Seq(Nat) /\ j \in DOMAIN index
  BY IndexSeq
<1> HIDE DEF new, blocks, index, j
<1>8. index2 \in Seq(Nat)
  BY <1>6, <1>7
<1> HIDE DEF index2
<1>9. Reindexed(s, w, T, index2)
  BY <1>8, WithIndexIs
<1> HIDE DEF w
<1>10. r = [w EXCEPT !.blocks = blocks, !.block_pointer_ = nullptr,
             !.previous_block_pointer_ = [block |-> new,
                                          offset |-> s.previous_block_pointer_.offset]]
  <2>1. w \in Storage /\ w.previous_block_pointer_ = s.previous_block_pointer_
    BY <1>9 DEF Reindexed
  <2>2. [w.previous_block_pointer_ EXCEPT !.block = new] =
          [block |-> new, offset |-> s.previous_block_pointer_.offset]
    BY <1>2, <2>1 DEF Pointer
  <2> QED
    BY <2>1, <2>2, Zenon
<1> DEFINE previous == [block |-> new, offset |-> s.previous_block_pointer_.offset]
<1>11. previous \in Pointer /\ nullptr \in Pointer
  BY <1>2, <1>6 DEF Pointer, nullptr
<1>14. w \in Storage
  BY <1>9 DEF Reindexed
<1> HIDE DEF previous, r
<1>15. r = [w EXCEPT !.blocks = blocks, !.block_pointer_ = nullptr,
                     !.previous_block_pointer_ = previous]
  BY <1>10 DEF previous
<1>12. /\ r \in Storage /\ r.blocks = blocks /\ r.block_pointer_ = nullptr
       /\ r.previous_block_pointer_ = previous
       /\ r.index32 = w.index32 /\ r.index64 = w.index64
       /\ r.nb_lines_ = w.nb_lines_ /\ r.current_pos_ = w.current_pos_
       /\ r.first_long_line_ = w.first_long_line_
       /\ r.last_read_ = w.last_read_ /\ r.dead = w.dead /\ r.thread_ids_ = w.thread_ids_
  BY <1>6, <1>11, <1>14, <1>15 DEF Storage
<1>13. /\ IndexOf(r, T) = index2
       /\ \A U \in Tables : U # T => IndexOf(r, U) = IndexOf(s, U)
  BY <1>9, <1>12 DEF Reindexed, IndexOf, Tables
<1> QED
  BY <1>1, <1>4, <1>6, <1>9, <1>12, <1>13
     DEF Reindexed, HasFinished, previous, index, index2, j, new, b, size

(* Lines come to one table, then to the other.                             *)
InTurn(s, pos) == s.first_long_line_ # Unset => pos > UINT32_MAX

(* The state that a line is added to, and the one it leaves.               *)
EndFor(s, e, pos) ==
  LET T == TableFor(pos)
      n == Lines(s, T)
  IN  IF Col(n) = 0 THEN header(T) ELSE e[T][n - 1] + EntryFor(s, pos).width
EndsWith(s, e, pos) ==
  Added(e, TableFor(pos), Lines(s, TableFor(pos)), EndFor(s, e, pos))
ValuesWith(s, v, pos) == Added(v, TableFor(pos), Lines(s, TableFor(pos)), pos)

(* The table that the line goes to has one more.                           *)
LEMMA CountsGrow ==
  ASSUME Sizes, NEW s \in Storage, Counted(s), s.nb_lines_ + 1 < Unset,
         NEW pos \in Nat, InTurn(s, pos),
         NEW r \in Storage, r.nb_lines_ = s.nb_lines_ + 1,
         r.first_long_line_ = IF FirstBig(s, pos) THEN s.nb_lines_ ELSE s.first_long_line_
  PROVE  /\ TableFor(pos) \in Tables /\ Growing(r) = TableFor(pos)
         /\ Counted(r)
         /\ \A U \in Tables :
              Lines(r, U) = IF U = TableFor(pos) THEN Lines(s, U) + 1 ELSE Lines(s, U)
         /\ ~FirstBig(s, pos) => Growing(s) = TableFor(pos)
         /\ FirstBig(s, pos) => TableFor(pos) = 64 /\ Lines(s, 64) = 0
<1>1. s.nb_lines_ \in Nat /\ s.first_long_line_ \in Nat /\ Unset = 1000000
  BY DEF Storage, Unset
<1>2. CASE FirstBig(s, pos)
  BY <1>1, <1>2 DEF FirstBig, Counted, Lines, Growing, TableFor, Tables, InTurn
<1>3. CASE ~FirstBig(s, pos)
  BY <1>1, <1>3 DEF FirstBig, Counted, Lines, Growing, TableFor, Tables, InTurn
<1> QED
  BY <1>2, <1>3

(* The next line of a table.                                               *)
LEMMA NextLine ==
  ASSUME Sizes, NEW s \in Storage, Counted(s), NEW T \in Tables
  PROVE  LET n == Lines(s, T)
         IN  /\ n \in Nat /\ Row(n) \in Nat /\ Col(n) \in 0 .. BLOCK_SIZE - 1
             /\ Col(n) # 0 => /\ n # 0 /\ n - 1 \in 0 .. n - 1
                              /\ Row(n - 1) = Row(n) /\ Col(n - 1) = Col(n) - 1
             /\ \A k \in 0 .. n - 1 : /\ k \in Nat /\ Row(k) \in Nat /\ Col(k) \in Nat
                                      /\ Row(k) = Row(n) => Col(k) < Col(n)
                                      /\ Row(k) <= Row(n)
                                      /\ Col(k) # 0 => k # 0
<1> DEFINE n == Lines(s, T)
<1>1. n \in Nat
  BY LineCounts
<1>2. Row(n) \in Nat /\ Col(n) \in 0 .. BLOCK_SIZE - 1 /\ BLOCK_SIZE \in Nat
  BY <1>1, Division DEF Sizes
<1> HIDE DEF n
<1>3. ASSUME Col(n) # 0
      PROVE  /\ n # 0 /\ n - 1 \in 0 .. n - 1
             /\ Row(n - 1) = Row(n) /\ Col(n - 1) = Col(n) - 1
  <2>1. n # 0
    BY <1>3, FirstRow
  <2>2. n - 1 \in Nat /\ n - 1 + 1 = n /\ n - 1 \in 0 .. n - 1
    BY <1>1, <2>1
  <2>3. Row(n) = Row(n - 1) /\ Col(n) = Col(n - 1) + 1
    BY <1>3, <2>2, NextRow
  <2>4. Col(n - 1) \in Nat
    BY <2>2, Division
  <2> QED
    BY <2>1, <2>2, <2>3, <2>4
<1>4. ASSUME NEW k \in 0 .. n - 1
      PROVE  /\ k \in Nat /\ Row(k) \in Nat /\ Col(k) \in Nat
             /\ Row(k) = Row(n) => Col(k) < Col(n)
             /\ Row(k) <= Row(n)
             /\ Col(k) # 0 => k # 0
  <2>1. k \in Nat /\ k < n
    BY <1>1
  <2>2. Row(k) \in Nat /\ Col(k) \in Nat
    BY <2>1, Division DEF Sizes
  <2>3. Row(k) < Row(n) \/ (Row(k) = Row(n) /\ Col(k) < Col(n))
    BY <1>1, <2>1, RowsInOrder
  <2> QED
    BY <1>2, <2>1, <2>2, <2>3, FirstRow
<1> QED
  BY <1>1, <1>2, <1>3, <1>4 DEF n

(* A block is made when the last one is whole, and for the first line past *)
(* UINT32_MAX.                                                             *)
LEMMA OpensWhenWhole ==
  ASSUME Sizes, NEW s, NEW e, Shape(s, e), Pointing(s, e), s.nb_lines_ + 1 < Unset,
         NEW pos \in Nat, InTurn(s, pos)
  PROVE  LET T == TableFor(pos)
             n == Lines(s, T)
         IN  /\ Opens(s, pos) <=> Col(n) = 0
             /\ Col(n) = 0 /\ ~FirstBig(s, pos) => s.block_pointer_ = nullptr
             /\ Col(n) # 0 => s.block_pointer_ = PointerTo(s, e, T, n - 1)
<1> DEFINE T == TableFor(pos)
           n == Lines(s, T)
<1>1. /\ s \in Storage /\ Counted(s) /\ Indexed(s) /\ Chained(s, e)
  BY DEF Shape
<1>2. CASE FirstBig(s, pos)
  <2>1. n = 0
    BY <1>1, <1>2 DEF FirstBig, Lines, TableFor
  <2> HIDE DEF n
  <2>2. Col(n) = 0
    BY <2>1, FirstRow
  <2> QED
    BY <1>2, <2>2 DEF Opens, n, T
<1>3. CASE ~FirstBig(s, pos)
  <2>1. T = Growing(s) /\ T \in Tables
    BY <1>1, <1>3 DEF FirstBig, Growing, TableFor, InTurn, Tables
  <2>2. s.block_pointer_ = IF Col(n) = 0 THEN nullptr ELSE PointerTo(s, e, T, n - 1)
    BY <2>1 DEF Pointing
  <2>3. ASSUME Col(n) # 0 PROVE PointerTo(s, e, T, n - 1) # nullptr
    <3>1. n - 1 \in 0 .. n - 1
      BY <1>1, <2>1, <2>3, NextLine
    <3>2. BlockOf(s, T, n - 1) \in Nat \ {0}
      BY <1>1, <2>1, <3>1, BlockOfLine
    <3> QED
      BY <3>2 DEF PointerTo, nullptr
  <2> HIDE DEF n, T
  <2>4. /\ Opens(s, pos) <=> Col(n) = 0
        /\ Col(n) = 0 /\ ~FirstBig(s, pos) => s.block_pointer_ = nullptr
        /\ Col(n) # 0 => s.block_pointer_ = PointerTo(s, e, T, n - 1)
    BY <1>3, <2>2, <2>3 DEF Opens
  <2> QED
    BY <2>4 DEF n, T
<1> QED
  BY <1>2, <1>3

(* The state that the line leaves, before its block is finished.           *)
Grew(s, r, e, v, pos) ==
  LET T == TableFor(pos)
      n == Lines(s, T)
      e2 == EndsWith(s, e, pos)
  IN  /\ Shape(r, e2) /\ Coded(r, e2, ValuesWith(s, v, pos))
      /\ r.nb_lines_ = s.nb_lines_ + 1 /\ r.current_pos_ = pos
      /\ r.first_long_line_ = IF FirstBig(s, pos) THEN s.nb_lines_ ELSE s.first_long_line_
      /\ r.block_pointer_ = PointerTo(r, e2, T, n)
      /\ r.previous_block_pointer_ = s.block_pointer_
      /\ \A U \in Tables : \A k \in 0 .. Lines(s, U) - 1 :
           BlockOf(r, U, k) = BlockOf(s, U, k)
      /\ Col(n) # 0 => BlockOf(r, T, n) = BlockOf(s, T, n - 1)
      /\ Col(n) # BLOCK_SIZE - 1 => SizeOf(r, T, n) = Full(T)
      /\ r.last_read_ = s.last_read_ /\ r.dead = s.dead /\ r.thread_ids_ = s.thread_ids_

(* A line that opens a block is coded, and the others as they were.        *)
LEMMA MadeIsRight ==
  ASSUME Sizes, NEW s, NEW e, NEW v, Shape(s, e), Coded(s, e, v), Pointing(s, e),
         Current(s, v), s.nb_lines_ + 1 < Unset, NEW pos \in Nat, InTurn(s, pos),
         NEW r, MadeBlock(s, r, pos), Col(Lines(s, TableFor(pos))) = 0
  PROVE  Grew(s, r, e, v, pos)
<1> DEFINE T == TableFor(pos)
           n == Lines(s, T)
           b == Len(s.blocks) + 1
           block == [size |-> Full(T), initial |-> pos, entries |-> <<>>]
           x == header(T)
           e2 == Added(e, T, n, x)
           v2 == Added(v, T, n, pos)
<1>1. /\ s \in Storage /\ Counted(s) /\ Indexed(s) /\ Chained(s, e) /\ Roomy(s, e)
      /\ Owned(s) /\ Fitting(s)
  BY DEF Shape
<1>2. /\ r \in Storage /\ r.blocks = Append(s.blocks, block)
      /\ r.nb_lines_ = s.nb_lines_ + 1
      /\ r.first_long_line_ = IF FirstBig(s, pos) THEN s.nb_lines_ ELSE s.first_long_line_
      /\ r.block_pointer_ = [block |-> b, offset |-> header(T)]
      /\ r.previous_block_pointer_ = s.block_pointer_ /\ r.current_pos_ = pos
      /\ r.last_read_ = s.last_read_ /\ r.dead = s.dead /\ r.thread_ids_ = s.thread_ids_
  BY DEF MadeBlock
<1>3. /\ T \in Tables /\ Growing(r) = T /\ Counted(r)
      /\ \A U \in Tables : Lines(r, U) = IF U = T THEN Lines(s, U) + 1 ELSE Lines(s, U)
  BY <1>1, <1>2, CountsGrow
<1>4. /\ \A U \in Tables : IndexOf(r, U) = IF U = T THEN Append(IndexOf(s, U), b)
                                           ELSE IndexOf(s, U)
  <2>1. /\ r.index32 = IF T = 32 THEN Append(s.index32, b) ELSE s.index32
        /\ r.index64 = IF T = 64 THEN Append(s.index64, b) ELSE s.index64
    BY DEF MadeBlock
  <2> HIDE DEF T, b
  <2> QED
    BY <1>3, <2>1 DEF IndexOf, Tables
<1>5. /\ n \in Nat /\ Row(n) \in Nat /\ Col(n) = 0
      /\ \A k \in 0 .. n - 1 : k \in Nat /\ Row(k) \in Nat /\ Row(k) # Row(n)
                               /\ (Col(k) # 0 => k # 0)
  <2> HIDE DEF T
  <2> QED
    BY <1>1, <1>3, NextLine DEF T
<1>6. /\ s.blocks \in Seq(Block) /\ Len(s.blocks) \in Nat
      /\ DOMAIN s.blocks = 1 .. Len(s.blocks)
      /\ DOMAIN r.blocks = 1 .. b /\ r.blocks[b] = block /\ b \notin DOMAIN s.blocks
      /\ \A c \in DOMAIN s.blocks : c \in DOMAIN r.blocks /\ r.blocks[c] = s.blocks[c]
  <2>1. s.blocks \in Seq(Block)
    BY <1>1 DEF Storage
  <2> HIDE DEF block
  <2> QED
    BY <1>2, <2>1
<1>7. \A U \in Tables : /\ IndexOf(s, U) \in Seq(Nat) /\ Len(IndexOf(s, U)) \in Nat
                        /\ DOMAIN IndexOf(s, U) = 1 .. Len(IndexOf(s, U))
  BY <1>1, IndexSeq
<1>8. Len(IndexOf(s, T)) = Row(n)
  BY <1>1, <1>3, <1>5 DEF Indexed
<1> HIDE DEF T, n, b, block, x, e2, v2
<1>9. /\ DOMAIN IndexOf(r, T) = 1 .. Row(n) + 1
      /\ IndexOf(r, T)[Row(n) + 1] = b
      /\ \A U \in Tables : \A i \in DOMAIN IndexOf(s, U) :
           i \in DOMAIN IndexOf(r, U) /\ IndexOf(r, U)[i] = IndexOf(s, U)[i]
      /\ \A U \in Tables : \A i \in DOMAIN IndexOf(r, U) :
           (U = T /\ i = Row(n) + 1) \/ i \in DOMAIN IndexOf(s, U)
      /\ Len(IndexOf(r, T)) = Row(n) + 1
      /\ \A U \in Tables : U # T => Len(IndexOf(r, U)) = Len(IndexOf(s, U))
  <2>1. b \in Nat
    BY <1>6 DEF b
  <2>2. \A U \in Tables : U # T => IndexOf(r, U) = IndexOf(s, U)
    BY <1>4
  <2>3. IndexOf(r, T) = Append(IndexOf(s, T), b)
    BY <1>3, <1>4
  <2>4. /\ IndexOf(s, T) \in Seq(Nat) /\ Len(IndexOf(s, T)) = Row(n)
        /\ DOMAIN IndexOf(s, T) = 1 .. Row(n)
    BY <1>3, <1>7, <1>8
  <2>5. /\ DOMAIN IndexOf(r, T) = 1 .. Row(n) + 1 /\ Len(IndexOf(r, T)) = Row(n) + 1
        /\ IndexOf(r, T)[Row(n) + 1] = b
        /\ \A i \in 1 .. Row(n) : IndexOf(r, T)[i] = IndexOf(s, T)[i]
    <3> DEFINE f == IndexOf(s, T)
               g == IndexOf(r, T)
    <3> HIDE DEF f, g
    <3>1. f \in Seq(Nat) /\ Len(f) = Row(n) /\ g = Append(f, b)
      BY <2>3, <2>4 DEF f, g
    <3>2. /\ DOMAIN g = 1 .. Row(n) + 1 /\ Len(g) = Row(n) + 1
          /\ g[Row(n) + 1] = b /\ \A i \in 1 .. Row(n) : g[i] = f[i]
      BY <3>1, <2>1, <1>5
    <3> QED
      BY <3>2 DEF f, g
  <2>6. ASSUME NEW U \in Tables, NEW i \in DOMAIN IndexOf(s, U)
        PROVE  i \in DOMAIN IndexOf(r, U) /\ IndexOf(r, U)[i] = IndexOf(s, U)[i]
    <3>1. CASE U = T
      <4>1. i \in 1 .. Row(n)
        BY <2>4, <3>1
      <4>2. i \in 1 .. Row(n) + 1
        BY <1>5, <4>1
      <4> QED
        BY <2>5, <3>1, <4>1, <4>2
    <3> QED
      BY <2>2, <3>1
  <2>7. ASSUME NEW U \in Tables, NEW i \in DOMAIN IndexOf(r, U)
        PROVE  (U = T /\ i = Row(n) + 1) \/ i \in DOMAIN IndexOf(s, U)
    <3>1. CASE U = T
      BY <1>5, <2>4, <2>5, <3>1
    <3> QED
      BY <2>2, <3>1
  <2> QED
    BY <2>2, <2>5, <2>6, <2>7
<1>10. ASSUME NEW U \in Tables, NEW k \in 0 .. Lines(s, U) - 1
       PROVE  /\ BlockOf(r, U, k) = BlockOf(s, U, k)
              /\ BlockOf(s, U, k) \in DOMAIN s.blocks
              /\ r.blocks[BlockOf(r, U, k)] = s.blocks[BlockOf(s, U, k)]
  <2>1. Row(k) + 1 \in DOMAIN IndexOf(s, U) /\ BlockOf(s, U, k) \in DOMAIN s.blocks
    BY <1>1, BlockOfLine
  <2> QED
    BY <1>6, <1>9, <2>1 DEF BlockOf
<1>11. BlockOf(r, T, n) = b
  BY <1>9 DEF BlockOf
<1>12. Chained(r, e2) /\ Coded(r, e2, v2)
  <2>1. \A U \in Tables : \A k \in 0 .. Lines(s, U) - 1 : SameLine(s, r, e, U, k)
    <3> SUFFICES ASSUME NEW U \in Tables, NEW k \in 0 .. Lines(s, U) - 1
                 PROVE  SameLine(s, r, e, U, k)
      OBVIOUS
    <3> QED
      BY <1>1, <1>10 DEF SameLine, EntryOf, Chained
  <2>2. x \in Nat /\ x <= header(T) + Col(n) * absolute(T)
    BY <1>5 DEF x, header, absolute
  <2>3. r.blocks[BlockOf(r, T, n)].initial = pos
    BY <1>6, <1>11 DEF block
  <2> QED
    BY <1>1, <1>2, <1>3, <1>5, <2>1, <2>2, <2>3, Extends DEF e2, v2, x, n
<1>13. Indexed(r)
  <2>1. ASSUME NEW U \in Tables
        PROVE  Len(IndexOf(r, U)) =
                 IF Col(Lines(r, U)) = 0 THEN Row(Lines(r, U)) ELSE Row(Lines(r, U)) + 1
    <3>1. CASE U = T
      <4>1. Lines(r, U) = n + 1 /\ Col(n) # BLOCK_SIZE - 1
        BY <1>3, <1>5, <3>1 DEF Sizes, n
      <4>2. Row(n + 1) = Row(n) /\ Col(n + 1) = 0 + 1
        BY <1>5, <4>1, NextRow
      <4> QED
        BY <1>9, <3>1, <4>1, <4>2
    <3>2. CASE U # T
      BY <1>1, <1>3, <1>9, <3>2 DEF Indexed
    <3> QED
      BY <3>1, <3>2
  <2>2. ASSUME NEW U \in Tables, NEW i \in DOMAIN IndexOf(r, U)
        PROVE  IndexOf(r, U)[i] \in DOMAIN r.blocks
    <3>1. CASE U = T /\ i = Row(n) + 1
      BY <1>6, <1>9, <3>1 DEF b
    <3>2. CASE i \in DOMAIN IndexOf(s, U)
      BY <1>1, <1>6, <1>9, <3>2 DEF Indexed
    <3> QED
      BY <1>9, <3>1, <3>2
  <2> QED
    BY <2>1, <2>2 DEF Indexed
<1>14. Full(T) \in Nat \ {0}
  BY <1>3 DEF Full, header, absolute, Sizes, Tables
<1>15. Owned(r)
  <2>1. ASSUME NEW c \in DOMAIN r.blocks
        PROVE  r.blocks[c].size # 0 <=>
                 \E U \in Tables : \E j \in DOMAIN IndexOf(r, U) : IndexOf(r, U)[j] = c
    <3>1. CASE c = b
      BY <1>3, <1>6, <1>9, <1>14, <1>5, <3>1 DEF block
    <3>2. CASE c # b
      <4>1. c \in DOMAIN s.blocks /\ r.blocks[c] = s.blocks[c]
        BY <1>6, <3>2 DEF b
      <4>2. s.blocks[c].size # 0 <=>
               \E U \in Tables : \E j \in DOMAIN IndexOf(s, U) : IndexOf(s, U)[j] = c
        BY <1>1, <4>1 DEF Owned
      <4> QED
        BY <1>9, <3>2, <4>1, <4>2
    <3> QED
      BY <3>1, <3>2
  <2>2. ASSUME NEW U \in Tables, NEW V \in Tables,
               NEW i \in DOMAIN IndexOf(r, U), NEW j \in DOMAIN IndexOf(r, V),
               IndexOf(r, U)[i] = IndexOf(r, V)[j]
        PROVE  U = V /\ i = j
    <3>1. \A W \in Tables : \A l \in DOMAIN IndexOf(s, W) :
             IndexOf(r, W)[l] = IndexOf(s, W)[l] /\ IndexOf(r, W)[l] # b
      BY <1>1, <1>6, <1>9 DEF Indexed
    <3>2. CASE i \in DOMAIN IndexOf(s, U) /\ j \in DOMAIN IndexOf(s, V)
      BY <1>1, <2>2, <3>1, <3>2 DEF Owned
    <3> QED
      BY <1>9, <2>2, <3>1, <3>2
  <2> QED
    BY <2>1, <2>2 DEF Owned
<1>16. Fitting(r)
  <2>1. ASSUME NEW c \in DOMAIN r.blocks, NEW o \in DOMAIN r.blocks[c].entries
        PROVE  r.blocks[c].entries[o].inside
    <3>1. CASE c = b
      <4>1. DOMAIN r.blocks[c].entries = {}
        BY <1>6, <3>1 DEF block
      <4> QED
        BY <4>1
    <3>2. CASE c # b
      BY <1>1, <1>6, <3>2 DEF b, Fitting
    <3> QED
      BY <3>1, <3>2
  <2> QED
    BY <2>1 DEF Fitting
<1>17. Roomy(r, e2)
  <2> SUFFICES ASSUME NEW U \in Tables, NEW k \in 0 .. Lines(r, U) - 1
               PROVE
        /\ SizeOf(r, U, k) # 0
        /\ Row(k) = Row(Lines(r, U)) =>
             \/ SizeOf(r, U, k) = Full(U)
             \/ /\ Col(Lines(r, U)) = BLOCK_SIZE - 1
                /\ SizeOf(r, U, k) >= e2[U][Lines(r, U) - 1] + absolute(U)
        /\ Col(k) = BLOCK_SIZE - 1 => SizeOf(r, U, k) >= e2[U][k - 1] + absolute(U)
    BY DEF Roomy
  <2>1. BLOCK_SIZE - 1 # 0
    BY DEF Sizes
  <2>2. CASE U = T /\ k = n
    <3>1. SizeOf(r, U, k) = Full(T)
      BY <1>6, <1>11, <2>2 DEF SizeOf, block
    <3> QED
      BY <1>5, <1>14, <2>1, <2>2, <3>1
  <2>3. ASSUME k \in 0 .. Lines(s, U) - 1, U # T \/ k # n
        PROVE  /\ SizeOf(r, U, k) = SizeOf(s, U, k)
               /\ e2[U][k] = e[U][k]
               /\ Col(k) # 0 => e2[U][k - 1] = e[U][k - 1]
    <3>1. SizeOf(r, U, k) = SizeOf(s, U, k)
      BY <1>10, <2>3 DEF SizeOf
    <3>2. k \in Nat /\ (k # 0 => k - 1 \in 0 .. Lines(s, U) - 1) /\ (Col(k) # 0 => k # 0)
      BY <1>1, <2>3, LineCounts, FirstRow
    <3>3. CASE U # T
      BY <1>3, <1>5, <3>1, <3>3, AddedIs DEF e2
    <3>4. CASE U = T
      <4>1. Lines(s, U) = n
        BY <3>4 DEF n
      <4> QED
        BY <1>3, <1>5, <2>3, <3>1, <3>2, <3>4, <4>1, AddedIs DEF e2
    <3> QED
      BY <3>3, <3>4
  <2>4. CASE U # T
    <3>1. Lines(r, U) = Lines(s, U) /\ e2[U] = e[U]
      BY <1>3, <1>5, <2>4, AddedIs DEF e2
    <3>2. k \in 0 .. Lines(s, U) - 1
      BY <3>1
    <3>3. SizeOf(r, U, k) = SizeOf(s, U, k)
      BY <2>3, <2>4, <3>2
    <3> QED
      BY <1>1, <3>1, <3>2, <3>3 DEF Roomy
  <2>5. CASE U = T /\ k # n
    <3>1. Lines(r, U) = n + 1 /\ Lines(s, U) = n
      BY <1>3, <2>5 DEF n
    <3>2. k \in 0 .. n - 1
      BY <1>5, <2>5, <3>1
    <3>3. Row(n + 1) = Row(n)
      <4>1. Col(n) # BLOCK_SIZE - 1
        BY <1>5, <2>1
      <4> QED
        BY <1>5, <4>1, NextRow
    <3>4. Row(k) # Row(Lines(r, U))
      BY <1>5, <3>1, <3>2, <3>3
    <3> QED
      BY <1>1, <2>1, <2>3, <2>5, <3>1, <3>2, <3>4 DEF Roomy
  <2> QED
    BY <2>2, <2>4, <2>5
<1>18. EndsWith(s, e, pos) = e2 /\ ValuesWith(s, v, pos) = v2
  <2>1. EndFor(s, e, pos) = x
    BY <1>5 DEF EndFor, x, T, n
  <2> QED
    BY <2>1 DEF EndsWith, ValuesWith, e2, v2, T, n
<1>19. r.block_pointer_ = PointerTo(r, e2, T, n)
  <2>1. e2[T][n] = x
    BY <1>3, <1>5, AddedIs DEF e2
  <2> QED
    BY <1>2, <1>11, <2>1 DEF PointerTo, T, b, x
<1>20. Shape(r, e2)
  BY <1>2, <1>3, <1>12, <1>13, <1>15, <1>16, <1>17 DEF Shape
<1>21. \A U \in Tables : \A k \in 0 .. Lines(s, U) - 1 : BlockOf(r, U, k) = BlockOf(s, U, k)
  BY <1>10
<1>22. SizeOf(r, T, n) = Full(T)
  BY <1>6, <1>11 DEF SizeOf, block
<1> QED
  BY <1>2, <1>5, <1>12, <1>18, <1>19, <1>20, <1>21, <1>22 DEF Grew, T, n

(* A block that the table has room in.                                     *)
LEMMA RoomLeft ==
  ASSUME Sizes, NEW s, NEW e, Shape(s, e), NEW T \in Tables,
         Col(Lines(s, T)) # 0
  PROVE  LET n == Lines(s, T)
         IN  /\ n - 1 \in 0 .. n - 1 /\ e[T][n - 1] \in Nat
             /\ e[T][n - 1] + absolute(T) <= header(T) + Col(n) * absolute(T)
             /\ SizeOf(s, T, n - 1) \in Nat
             /\ SizeOf(s, T, n - 1) >= e[T][n - 1] + absolute(T)
             /\ Col(n) # BLOCK_SIZE - 1 => SizeOf(s, T, n - 1) = Full(T)
<1> DEFINE n == Lines(s, T)
           c == Col(n)
           a == absolute(T)
           h == header(T)
<1>1. /\ s \in Storage /\ Counted(s) /\ Indexed(s) /\ Chained(s, e) /\ Roomy(s, e)
  BY DEF Shape
<1>2. /\ n \in Nat /\ c \in 0 .. BLOCK_SIZE - 1 /\ n - 1 \in 0 .. n - 1
      /\ Row(n - 1) = Row(n) /\ Col(n - 1) = c - 1
  BY <1>1, NextLine
<1>3. BLOCK_SIZE \in Nat /\ a \in {6, 10} /\ h \in {4, 8} /\ c # 0
  BY DEF Sizes, absolute, header
<1>4. /\ e[T][n - 1] \in Nat /\ e[T][n - 1] <= h + (c - 1) * a
  BY <1>1, <1>2 DEF Chained
<1>5. SizeOf(s, T, n - 1) \in Nat
  BY <1>1, <1>2, BlockOfLine DEF SizeOf, Block
<1>6. \/ SizeOf(s, T, n - 1) = h + BLOCK_SIZE * a
      \/ c = BLOCK_SIZE - 1 /\ SizeOf(s, T, n - 1) >= e[T][n - 1] + a
  BY <1>1, <1>2 DEF Roomy, Full
<1> HIDE DEF n, c, a, h
<1>7. e[T][n - 1] + a <= h + c * a /\ h + c * a <= h + BLOCK_SIZE * a
  <2>1. CASE a = 6
    BY <1>2, <1>3, <1>4, <2>1
  <2>2. CASE a = 10
    BY <1>2, <1>3, <1>4, <2>2
  <2> QED
    BY <1>3, <2>1, <2>2
<1>8. c * a \in Nat /\ BLOCK_SIZE * a \in Nat
  BY <1>2, <1>3
<1>9. SizeOf(s, T, n - 1) >= e[T][n - 1] + a
  BY <1>3, <1>4, <1>5, <1>6, <1>7, <1>8
<1>10. c # BLOCK_SIZE - 1 => SizeOf(s, T, n - 1) = Full(T)
  BY <1>6 DEF Full, a, h
<1> QED
  BY <1>2, <1>4, <1>5, <1>7, <1>9, <1>10 DEF n, c, a, h

(* An entry for the line goes where the last one of its block ends.        *)
LEMMA WroteIsRight ==
  ASSUME Sizes, NEW s, NEW e, NEW v, Shape(s, e), Coded(s, e, v), Pointing(s, e),
         Current(s, v), s.nb_lines_ + 1 < Unset, NEW pos \in Nat, InTurn(s, pos),
         NEW r, WroteEntry(s, r, pos), Col(Lines(s, TableFor(pos))) # 0
  PROVE  Grew(s, r, e, v, pos)
<1> DEFINE T == TableFor(pos)
           n == Lines(s, T)
           B == BlockOf(s, T, n - 1)
           entry == EntryFor(s, pos)
           x == e[T][n - 1] + entry.width
           e2 == Added(e, T, n, x)
           v2 == Added(v, T, n, pos)
<1>1. /\ s \in Storage /\ Counted(s) /\ Indexed(s) /\ Chained(s, e) /\ Roomy(s, e)
      /\ Owned(s) /\ Fitting(s)
  BY DEF Shape
<1>2. /\ s.block_pointer_ = PointerTo(s, e, T, n - 1) /\ ~FirstBig(s, pos)
  <2>1. ~Opens(s, pos) /\ s.block_pointer_ = PointerTo(s, e, T, n - 1)
    BY OpensWhenWhole
  <2> QED
    BY <2>1 DEF Opens
<1>3. /\ s.block_pointer_.block = B /\ s.block_pointer_.offset = e[T][n - 1]
  BY <1>2 DEF PointerTo
<1>4. /\ r \in Storage /\ r.nb_lines_ = s.nb_lines_ + 1
      /\ r.first_long_line_ = IF FirstBig(s, pos) THEN s.nb_lines_ ELSE s.first_long_line_
      /\ r.block_pointer_ = [block |-> B, offset |-> x]
      /\ r.previous_block_pointer_ = s.block_pointer_ /\ r.current_pos_ = pos
      /\ r.last_read_ = s.last_read_ /\ r.dead = s.dead /\ r.thread_ids_ = s.thread_ids_
  BY <1>2, <1>3 DEF WroteEntry
<1>5. /\ T \in Tables /\ Growing(r) = T /\ Counted(r) /\ Growing(s) = T
      /\ \A U \in Tables : Lines(r, U) = IF U = T THEN Lines(s, U) + 1 ELSE Lines(s, U)
  BY <1>1, <1>2, <1>4, CountsGrow
<1>6. \A U \in Tables : IndexOf(r, U) = IndexOf(s, U)
  BY DEF WroteEntry, IndexOf
<1> HIDE DEF T
<1>7. /\ n \in Nat /\ Row(n) \in Nat /\ Col(n) \in 0 .. BLOCK_SIZE - 1 /\ Col(n) # 0
      /\ n # 0 /\ n - 1 \in 0 .. n - 1 /\ Row(n - 1) = Row(n) /\ Col(n - 1) = Col(n) - 1
      /\ \A k \in 0 .. n - 1 : k \in Nat /\ Row(k) \in Nat /\ Row(k) <= Row(n)
                               /\ (Col(k) # 0 => k # 0)
  BY <1>1, <1>5, NextLine DEF T
<1>8. /\ e[T][n - 1] \in Nat
      /\ e[T][n - 1] + absolute(T) <= header(T) + Col(n) * absolute(T)
      /\ SizeOf(s, T, n - 1) \in Nat
      /\ SizeOf(s, T, n - 1) >= e[T][n - 1] + absolute(T)
      /\ Col(n) # BLOCK_SIZE - 1 => SizeOf(s, T, n - 1) = Full(T)
  BY <1>5, RoomLeft DEF T
<1>9. /\ B \in DOMAIN s.blocks /\ Row(n - 1) + 1 \in DOMAIN IndexOf(s, T)
      /\ IndexOf(s, T)[Row(n - 1) + 1] = B
  BY <1>1, <1>5, <1>7, BlockOfLine DEF BlockOf
<1>10. /\ entry.width \in 1 .. absolute(T)
       /\ entry.inside = (e[T][n - 1] + entry.width <= SizeOf(s, T, n - 1))
       /\ pos = IF entry.relative THEN s.current_pos_ + entry.value ELSE entry.value
  BY <1>1, <1>3, <1>9, EntryForIs DEF SizeOf, T
<1> HIDE DEF n, B, entry, x, e2, v2
<1>11. s.current_pos_ = v[T][n - 1]
  <2>1. s.nb_lines_ # 0
    BY <1>1, <1>7 DEF Lines, Counted, Storage, n
  <2> QED
    BY <1>5, <2>1 DEF Current, n
<1>12. absolute(T) \in Nat /\ header(T) \in Nat
  BY DEF absolute, header
<1>13. entry.inside
  <2>1. e[T][n - 1] + entry.width <= SizeOf(s, T, n - 1)
    BY <1>8, <1>10, <1>12
  <2> QED
    BY <1>10, <2>1, Zenon
<1>14. /\ DOMAIN r.blocks = DOMAIN s.blocks
       /\ \A b \in DOMAIN s.blocks : /\ r.blocks[b].size = s.blocks[b].size
                                     /\ r.blocks[b].initial = s.blocks[b].initial
                                     /\ b # B => r.blocks[b] = s.blocks[b]
       /\ \A o \in DOMAIN s.blocks[B].entries : o < e[T][n - 1] =>
           /\ o \in DOMAIN r.blocks[B].entries
           /\ r.blocks[B].entries[o] = s.blocks[B].entries[o]
       /\ e[T][n - 1] \in DOMAIN r.blocks[B].entries
       /\ r.blocks[B].entries[e[T][n - 1]] = entry
       /\ \A o \in DOMAIN r.blocks[B].entries : o # e[T][n - 1] =>
           /\ o \in DOMAIN s.blocks[B].entries
           /\ r.blocks[B].entries[o] = s.blocks[B].entries[o]
  BY <1>3, <1>9 DEF WroteEntry, entry
<1>15. ASSUME NEW U \in Tables, NEW k \in 0 .. Lines(s, U) - 1
       PROVE  /\ BlockOf(r, U, k) = BlockOf(s, U, k)
              /\ BlockOf(s, U, k) \in DOMAIN s.blocks
              /\ SizeOf(r, U, k) = SizeOf(s, U, k)
              /\ BlockOf(s, U, k) = B => U = T /\ Row(k) = Row(n)
  <2>1. Row(k) + 1 \in DOMAIN IndexOf(s, U) /\ BlockOf(s, U, k) \in DOMAIN s.blocks
        /\ Row(k) \in Nat
    BY <1>1, BlockOfLine
  <2>2. BlockOf(r, U, k) = BlockOf(s, U, k)
    BY <1>6 DEF BlockOf
  <2>3. BlockOf(s, U, k) = B => U = T /\ Row(k) + 1 = Row(n - 1) + 1
    BY <1>1, <1>5, <1>9, <2>1 DEF Owned, BlockOf
  <2> QED
    BY <1>7, <1>14, <2>1, <2>2, <2>3 DEF SizeOf
<1>16. BlockOf(r, T, n) = B
  BY <1>5, <1>6, <1>7, <1>9 DEF BlockOf
<1>17. ASSUME NEW U \in Tables, NEW k \in 0 .. Lines(s, U) - 1
       PROVE  SameLine(s, r, e, U, k)
  <2>1. ASSUME Col(k) # 0
        PROVE  e[U][k - 1] \in DOMAIN s.blocks[BlockOf(s, U, k)].entries
    BY <1>1, <2>1 DEF Chained
  <2>2. CASE BlockOf(s, U, k) # B
    BY <1>14, <1>15, <2>1, <2>2 DEF SameLine, EntryOf
  <2>3. CASE BlockOf(s, U, k) = B
    <3>1. U = T /\ Row(k) = Row(n) /\ k \in 0 .. n - 1
      BY <1>15, <2>3 DEF n
    <3>2. ASSUME Col(k) # 0 PROVE e[T][k - 1] < e[T][n - 1]
      <4>1. k \in Nat /\ k - 1 \in Nat /\ k - 1 + 1 = k /\ k # 0
        BY <1>7, <3>1, <3>2
      <4>2. Row(k - 1) = Row(k)
        BY <3>2, <4>1, NextRow
      <4>3. k - 1 \in 0 .. (n - 1) - 1 /\ Row(k - 1) = Row(n - 1)
        BY <1>7, <3>1, <4>1, <4>2
      <4>4. n - 1 \in 0 .. Lines(s, T) - 1
        BY <1>7 DEF n
      <4> QED
        BY <1>1, <1>5, <4>3, <4>4, EndsIncrease
    <3> QED
      BY <1>14, <1>15, <2>1, <2>3, <3>1, <3>2 DEF SameLine, EntryOf
  <2> QED
    BY <2>2, <2>3
<1>18. x \in Nat /\ x <= header(T) + Col(n) * absolute(T)
  <2>1. Col(n) * absolute(T) \in Nat
    BY <1>7, <1>12
  <2> QED
    BY <1>8, <1>10, <1>12, <2>1 DEF x
<1>19. Chained(r, e2) /\ Coded(r, e2, v2)
  <2>1. EntryOf(r, e, T, n) = entry
    BY <1>14, <1>16 DEF EntryOf
  <2>2. /\ e[T][n - 1] \in DOMAIN r.blocks[BlockOf(r, T, n)].entries
        /\ EntryOf(r, e, T, n).width \in 1 .. absolute(T)
        /\ x = e[T][n - 1] + EntryOf(r, e, T, n).width
        /\ pos = IF EntryOf(r, e, T, n).relative
                   THEN v[T][n - 1] + EntryOf(r, e, T, n).value
                   ELSE EntryOf(r, e, T, n).value
    BY <1>10, <1>11, <1>14, <1>16, <2>1 DEF x
  <2>3. n = Lines(s, T)
    BY DEF n
  <2> QED
    BY <1>1, <1>4, <1>5, <1>7, <1>17, <1>18, <2>2, <2>3, Extends DEF e2, v2
<1>20. Indexed(r)
  <2>1. ASSUME NEW U \in Tables
        PROVE  Len(IndexOf(r, U)) =
                 IF Col(Lines(r, U)) = 0 THEN Row(Lines(r, U)) ELSE Row(Lines(r, U)) + 1
    <3>1. CASE U = T
      <4>1. Lines(r, U) = n + 1 /\ Len(IndexOf(r, U)) = Row(n) + 1
        BY <1>1, <1>5, <1>6, <1>7, <3>1 DEF Indexed, n
      <4>2. CASE Col(n) = BLOCK_SIZE - 1
        <5>1. Row(n + 1) = Row(n) + 1 /\ Col(n + 1) = 0
          BY <1>7, <4>2, NextRow
        <5> QED
          BY <4>1, <5>1
      <4>3. CASE Col(n) # BLOCK_SIZE - 1
        <5>1. Row(n + 1) = Row(n) /\ Col(n + 1) = Col(n) + 1
          BY <1>7, <4>3, NextRow
        <5>2. Col(n + 1) # 0
          BY <1>7, <5>1
        <5> QED
          BY <4>1, <5>1, <5>2
      <4> QED
        BY <4>2, <4>3
    <3>2. CASE U # T
      BY <1>1, <1>5, <1>6, <3>2 DEF Indexed
    <3> QED
      BY <3>1, <3>2
  <2> QED
    BY <1>1, <1>6, <1>14, <2>1 DEF Indexed
<1>21. Owned(r)
  BY <1>1, <1>6, <1>14 DEF Owned
<1>22. Fitting(r)
  <2>1. ASSUME NEW c \in DOMAIN r.blocks, NEW o \in DOMAIN r.blocks[c].entries
        PROVE  r.blocks[c].entries[o].inside
    <3>1. CASE c = B /\ o = e[T][n - 1]
      BY <1>13, <1>14, <3>1
    <3>2. CASE c # B
      BY <1>1, <1>14, <3>2 DEF Fitting
    <3>3. CASE c = B /\ o # e[T][n - 1]
      BY <1>1, <1>9, <1>14, <3>3 DEF Fitting
    <3> QED
      BY <3>1, <3>2, <3>3
  <2> QED
    BY <2>1 DEF Fitting
<1>23. Roomy(r, e2)
  <2> SUFFICES ASSUME NEW U \in Tables, NEW k \in 0 .. Lines(r, U) - 1
               PROVE
        /\ SizeOf(r, U, k) # 0
        /\ Row(k) = Row(Lines(r, U)) =>
             \/ SizeOf(r, U, k) = Full(U)
             \/ /\ Col(Lines(r, U)) = BLOCK_SIZE - 1
                /\ SizeOf(r, U, k) >= e2[U][Lines(r, U) - 1] + absolute(U)
        /\ Col(k) = BLOCK_SIZE - 1 => SizeOf(r, U, k) >= e2[U][k - 1] + absolute(U)
    BY DEF Roomy
  <2>1. CASE U # T
    <3>1. Lines(r, U) = Lines(s, U) /\ e2[U] = e[U]
      BY <1>5, <1>7, <2>1, AddedIs DEF e2
    <3>2. k \in 0 .. Lines(s, U) - 1
      BY <3>1
    <3> QED
      BY <1>1, <1>15, <3>1, <3>2 DEF Roomy
  <2>2. CASE U = T
    <3>1. Lines(r, U) = n + 1 /\ Lines(s, U) = n /\ k \in 0 .. n
      BY <1>5, <1>7, <2>2 DEF n
    <3> DEFINE l == IF k = n THEN n - 1 ELSE k
    <3>2. /\ l \in 0 .. n - 1 /\ SizeOf(r, U, k) = SizeOf(s, U, l)
          /\ (k = n => Row(l) = Row(k)) /\ l \in 0 .. Lines(s, U) - 1
      <4>1. CASE k = n
        BY <1>7, <1>9, <1>14, <1>16, <2>2, <3>1, <4>1 DEF SizeOf, B
      <4>2. CASE k # n
        <5>1. k \in 0 .. n - 1
          BY <1>7, <3>1, <4>2
        <5> QED
          BY <1>15, <3>1, <4>2, <5>1
      <4> QED
        BY <4>1, <4>2
    <3>3. SizeOf(r, U, k) # 0
      BY <1>1, <3>2 DEF Roomy
    <3>4. ASSUME Row(k) = Row(n + 1) PROVE SizeOf(r, U, k) = Full(U)
      <4>1. Col(n) # BLOCK_SIZE - 1
        <5>1. Col(n) = BLOCK_SIZE - 1 => Row(n + 1) = Row(n) + 1
          BY <1>7, NextRow
        <5>2. Row(k) <= Row(n)
          BY <1>7, <3>1
        <5> QED
          BY <1>7, <3>4, <5>1, <5>2
      <4>2. Row(k) = Row(n)
        BY <1>7, <3>4, <4>1, NextRow
      <4>3. Row(l) = Row(n)
        BY <1>7, <3>2, <4>2
      <4> QED
        BY <1>1, <2>2, <3>1, <3>2, <4>1, <4>3 DEF Roomy
    <3>5. ASSUME Col(k) = BLOCK_SIZE - 1
          PROVE  SizeOf(r, U, k) >= e2[U][k - 1] + absolute(U)
      <4>1. \A j \in 0 .. n - 1 : e2[T][j] = e[T][j]
        BY <1>5, <1>7, AddedIs DEF e2
      <4>2. CASE k = n
        BY <1>7, <1>8, <2>2, <3>2, <4>1, <4>2
      <4>3. CASE k # n
        <5>1. k \in 0 .. n - 1 /\ k # 0
          <6>1. k \in 0 .. n - 1
            BY <1>7, <3>1, <4>3
          <6>2. Col(k) # 0
            BY <3>5 DEF Sizes
          <6> QED
            BY <1>7, <6>1, <6>2
        <5>2. e2[U][k - 1] = e[U][k - 1]
          BY <1>7, <2>2, <4>1, <5>1
        <5> QED
          BY <1>1, <2>2, <3>1, <3>2, <3>5, <4>3, <5>1, <5>2 DEF Roomy
      <4> QED
        BY <4>2, <4>3
    <3> QED
      BY <3>1, <3>3, <3>4, <3>5
  <2> QED
    BY <2>1, <2>2
<1>24. EndsWith(s, e, pos) = e2 /\ ValuesWith(s, v, pos) = v2
  <2>1. EndFor(s, e, pos) = x
    BY <1>7 DEF EndFor, x, T, n, entry
  <2> QED
    BY <2>1 DEF EndsWith, ValuesWith, e2, v2, T, n
<1>25. r.block_pointer_ = PointerTo(r, e2, T, n)
  <2>1. e2[T][n] = x
    BY <1>5, <1>7, AddedIs DEF e2
  <2> QED
    BY <1>4, <1>16, <2>1 DEF PointerTo
<1>26. Shape(r, e2)
  BY <1>4, <1>5, <1>19, <1>20, <1>21, <1>22, <1>23 DEF Shape
<1>27. \A U \in Tables : \A k \in 0 .. Lines(s, U) - 1 : BlockOf(r, U, k) = BlockOf(s, U, k)
  BY <1>15
<1>28. BlockOf(r, T, n) = BlockOf(s, T, n - 1)
  BY <1>16 DEF B
<1>29. Col(n) # BLOCK_SIZE - 1 => SizeOf(r, T, n) = Full(T)
  BY <1>8, <1>9, <1>14, <1>16 DEF SizeOf, B
<1> QED
  BY <1>4, <1>19, <1>24, <1>25, <1>26, <1>27, <1>28, <1>29 DEF Grew, T, n

-----------------------------------------------------------------------------
(* Lines are where they were, but for the last ones, which may be gone.    *)
LEMMA SameLines ==
  ASSUME NEW s, NEW r, NEW e, NEW v, Chained(s, e), Coded(s, e, v),
         \A U \in Tables : Lines(r, U) \in Nat /\ Lines(s, U) \in Nat
                           /\ Lines(r, U) <= Lines(s, U),
         \A U \in Tables : \A k \in 0 .. Lines(r, U) - 1 : SameLine(s, r, e, U, k)
  PROVE  Chained(r, e) /\ Coded(r, e, v)
<1>1. ASSUME NEW U \in Tables, NEW k \in 0 .. Lines(r, U) - 1
      PROVE  k \in 0 .. Lines(s, U) - 1 /\ SameLine(s, r, e, U, k)
  <2>1. Lines(r, U) \in Nat /\ Lines(s, U) \in Nat /\ Lines(r, U) <= Lines(s, U)
    OBVIOUS
  <2>2. k \in 0 .. Lines(s, U) - 1
    BY <2>1
  <2> QED
    BY <2>2
<1>2. Chained(r, e)
  <2> SUFFICES ASSUME NEW U \in Tables, NEW k \in 0 .. Lines(r, U) - 1
      PROVE
        /\ e[U][k] \in Nat
        /\ e[U][k] <= header(U) + Col(k) * absolute(U)
        /\ Col(k) = 0 => e[U][k] = header(U)
        /\ Col(k) # 0 =>
             /\ e[U][k - 1] \in DOMAIN r.blocks[BlockOf(r, U, k)].entries
             /\ EntryOf(r, e, U, k).width \in 1 .. absolute(U)
             /\ e[U][k] = e[U][k - 1] + EntryOf(r, e, U, k).width
    BY DEF Chained
  <2> QED
    BY <1>1 DEF Chained, SameLine
<1>3. Coded(r, e, v)
  <2> SUFFICES ASSUME NEW U \in Tables, NEW k \in 0 .. Lines(r, U) - 1
      PROVE
        /\ v[U][k] \in Nat
        /\ Col(k) = 0 => r.blocks[BlockOf(r, U, k)].initial = v[U][k]
        /\ Col(k) # 0 =>
             v[U][k] = IF EntryOf(r, e, U, k).relative
                         THEN v[U][k - 1] + EntryOf(r, e, U, k).value
                         ELSE EntryOf(r, e, U, k).value
    BY DEF Coded
  <2> QED
    BY <1>1 DEF Coded, SameLine
<1> QED
  BY <1>2, <1>3

(* What finishing the block of the last line of T leaves as it was.        *)
Finished(s, r, e, v, T) ==
  LET m == Lines(s, T)
  IN  /\ Shape(r, e) /\ Coded(r, e, v)
      /\ \A U \in Tables : Lines(r, U) = Lines(s, U)
      /\ r.nb_lines_ = s.nb_lines_ /\ r.current_pos_ = s.current_pos_
      /\ r.first_long_line_ = s.first_long_line_
      /\ r.block_pointer_ = nullptr
      /\ r.previous_block_pointer_ =
           [block |-> BlockOf(r, T, m - 1), offset |-> s.previous_block_pointer_.offset]
      /\ ~ReallocMoves => \A U \in Tables : \A k \in 0 .. Lines(s, U) - 1 :
                            BlockOf(r, U, k) = BlockOf(s, U, k)
      /\ r.last_read_ = s.last_read_ /\ r.dead = s.dead /\ r.thread_ids_ = s.thread_ids_

(* A finished block codes the lines that it did, with room for one         *)
(* absolute entry.                                                         *)
LEMMA FinishIsRight ==
  ASSUME Sizes, NEW s, NEW e, NEW v, NEW T \in Tables, Shape(s, e), Coded(s, e, v),
         Lines(s, T) # 0, Col(Lines(s, T)) = 0,
         s.previous_block_pointer_.offset = e[T][Lines(s, T) - 2],
         NEW r, HasFinished(s, r, T, Row(Lines(s, T)))
  PROVE  Finished(s, r, e, v, T)
<1> DEFINE m == Lines(s, T)
           b == BlockOf(s, T, m - 1)
           new == NewPlace(s, b)
<1>1. /\ s \in Storage /\ Counted(s) /\ Indexed(s) /\ Chained(s, e) /\ Roomy(s, e)
      /\ Owned(s) /\ Fitting(s)
  BY DEF Shape
<1>2. m \in Nat /\ m # 0 /\ m - 1 \in 0 .. m - 1 /\ m - 1 \in Nat /\ m - 1 + 1 = m
  BY <1>1, LineCounts
<1>3. /\ Row(m) \in Nat /\ Row(m - 1) \in Nat /\ Row(m) = Row(m - 1) + 1
      /\ Col(m - 1) = BLOCK_SIZE - 1 /\ Col(m) = 0
      /\ m - 1 = BLOCK_SIZE * Row(m - 1) + (BLOCK_SIZE - 1)
  <2> HIDE DEF m
  <2>1. Row(m - 1) \in Nat /\ Col(m - 1) \in 0 .. BLOCK_SIZE - 1 /\ Row(m) \in Nat
        /\ m - 1 = BLOCK_SIZE * Row(m - 1) + Col(m - 1)
    BY <1>2, Division
  <2>2. Col(m) = 0
    BY DEF m
  <2>3. Col(m - 1) = BLOCK_SIZE - 1
    <3>1. Col(m - 1) # BLOCK_SIZE - 1 => Col(m) = Col(m - 1) + 1
      BY <1>2, NextRow
    <3> QED
      BY <2>1, <2>2, <3>1
  <2>4. Row(m) = Row(m - 1) + 1
    BY <1>2, <2>3, NextRow
  <2> QED
    BY <2>1, <2>2, <2>3, <2>4
<1>4. /\ b = IndexOf(s, T)[Row(m)] /\ Row(m) \in DOMAIN IndexOf(s, T)
      /\ b \in DOMAIN s.blocks
  BY <1>1, <1>2, <1>3, BlockOfLine DEF BlockOf
<1> HIDE DEF m, b, new
<1>5. /\ r \in Storage
      /\ DOMAIN r.blocks = DOMAIN s.blocks \cup {new}
      /\ r.blocks[new].size = e[T][m - 2] + absolute(T)
      /\ r.blocks[new].initial = s.blocks[b].initial
      /\ r.blocks[new].entries = s.blocks[b].entries
      /\ new # b => r.blocks[b] = Freed
      /\ \A c \in DOMAIN s.blocks \ {b} : c # new /\ r.blocks[c] = s.blocks[c]
      /\ IndexOf(r, T) = [IndexOf(s, T) EXCEPT ![Row(m)] = new]
      /\ \A U \in Tables : U # T => IndexOf(r, U) = IndexOf(s, U)
      /\ r.nb_lines_ = s.nb_lines_ /\ r.current_pos_ = s.current_pos_
      /\ r.first_long_line_ = s.first_long_line_
      /\ r.block_pointer_ = nullptr
      /\ r.previous_block_pointer_ = [block |-> new, offset |-> s.previous_block_pointer_.offset]
      /\ r.last_read_ = s.last_read_ /\ r.dead = s.dead /\ r.thread_ids_ = s.thread_ids_
  BY <1>4 DEF HasFinished, new, m
<1>6. /\ \A U \in Tables : Lines(r, U) = Lines(s, U)
      /\ Counted(r)
  BY <1>1, <1>5 DEF Lines, Counted
<1>7. \A U \in Tables : /\ IndexOf(s, U) \in Seq(Nat) /\ Len(IndexOf(s, U)) \in Nat
                        /\ DOMAIN IndexOf(s, U) = 1 .. Len(IndexOf(s, U))
  BY <1>1, IndexSeq
<1>8. ASSUME NEW U \in Tables
      PROVE  /\ DOMAIN IndexOf(r, U) = DOMAIN IndexOf(s, U)
             /\ Len(IndexOf(r, U)) = Len(IndexOf(s, U))
             /\ \A i \in DOMAIN IndexOf(s, U) :
                  IndexOf(r, U)[i] = IF U = T /\ i = Row(m) THEN new ELSE IndexOf(s, U)[i]
  <2>1. CASE U = T
    <3>1. DOMAIN IndexOf(r, U) = DOMAIN IndexOf(s, U)
      BY <1>5, <2>1
    <3>2. Len(IndexOf(r, U)) = Len(IndexOf(s, U))
      <4>1. IndexOf(r, T) = [IndexOf(s, T) EXCEPT ![Row(m)] = new]
            /\ IndexOf(s, T) \in Seq(Nat)
        BY <1>5, <1>7
      <4>2. \A f \in Seq(Nat) : \A j, c : Len([f EXCEPT ![j] = c]) = Len(f)
        OBVIOUS
      <4> QED
        BY <2>1, <4>1, <4>2
    <3> QED
      BY <1>5, <2>1, <3>1, <3>2
  <2>2. CASE U # T
    BY <1>5, <2>2
  <2> QED
    BY <2>1, <2>2
<1>9. ASSUME NEW U \in Tables, NEW i \in DOMAIN IndexOf(s, U), ~(U = T /\ i = Row(m))
      PROVE  IndexOf(s, U)[i] \in DOMAIN s.blocks \ {b}
  BY <1>1, <1>4, <1>9 DEF Indexed, Owned
<1>10. ASSUME NEW U \in Tables, NEW k \in 0 .. Lines(s, U) - 1
       PROVE  \/ /\ U = T /\ Row(k) = Row(m - 1) /\ BlockOf(r, U, k) = new
                 /\ BlockOf(s, U, k) = b
              \/ /\ U # T \/ Row(k) # Row(m - 1)
                 /\ BlockOf(r, U, k) = BlockOf(s, U, k)
                 /\ BlockOf(s, U, k) \in DOMAIN s.blocks \ {b}
                 /\ r.blocks[BlockOf(r, U, k)] = s.blocks[BlockOf(s, U, k)]
  <2>1. Row(k) + 1 \in DOMAIN IndexOf(s, U) /\ Row(k) \in Nat
    BY <1>1, BlockOfLine
  <2>2. CASE U = T /\ Row(k) = Row(m - 1)
    BY <1>3, <1>4, <1>8, <2>1, <2>2 DEF BlockOf
  <2>3. CASE ~(U = T /\ Row(k) = Row(m - 1))
    <3>1. ~(U = T /\ Row(k) + 1 = Row(m))
      BY <1>3, <2>1, <2>3
    <3>2. BlockOf(r, U, k) = BlockOf(s, U, k)
      BY <1>8, <2>1, <3>1 DEF BlockOf
    <3>3. BlockOf(s, U, k) \in DOMAIN s.blocks \ {b}
      BY <1>9, <2>1, <3>1 DEF BlockOf
    <3> QED
      BY <1>5, <2>3, <3>2, <3>3
  <2> QED
    BY <2>2, <2>3
<1>11. Chained(r, e) /\ Coded(r, e, v)
  <2>1. ASSUME NEW U \in Tables, NEW k \in 0 .. Lines(r, U) - 1
        PROVE  SameLine(s, r, e, U, k)
    <3>1. k \in 0 .. Lines(s, U) - 1
      BY <1>6
    <3>2. /\ r.blocks[BlockOf(r, U, k)].initial = s.blocks[BlockOf(s, U, k)].initial
          /\ r.blocks[BlockOf(r, U, k)].entries = s.blocks[BlockOf(s, U, k)].entries
      BY <1>5, <1>10, <3>1
    <3>3. Col(k) # 0 => e[U][k - 1] \in DOMAIN s.blocks[BlockOf(s, U, k)].entries
      BY <1>1, <3>1 DEF Chained
    <3> QED
      BY <3>2, <3>3 DEF SameLine, EntryOf
  <2>2. \A U \in Tables : /\ Lines(r, U) \in Nat /\ Lines(s, U) \in Nat
                          /\ Lines(r, U) <= Lines(s, U)
    <3> SUFFICES ASSUME NEW U \in Tables
                 PROVE  Lines(r, U) \in Nat /\ Lines(s, U) \in Nat
                        /\ Lines(r, U) <= Lines(s, U)
      OBVIOUS
    <3>1. Lines(s, U) \in Nat /\ Lines(r, U) = Lines(s, U)
      BY <1>1, <1>6, LineCounts
    <3> QED
      BY <3>1
  <2> QED
    BY <1>1, <2>1, <2>2, SameLines
<1>12. Indexed(r)
  <2>1. ASSUME NEW U \in Tables, NEW i \in DOMAIN IndexOf(r, U)
        PROVE  IndexOf(r, U)[i] \in DOMAIN r.blocks
    BY <1>5, <1>8, <1>9
  <2>2. ASSUME NEW U \in Tables
        PROVE  Len(IndexOf(r, U)) =
                 IF Col(Lines(r, U)) = 0 THEN Row(Lines(r, U)) ELSE Row(Lines(r, U)) + 1
    BY <1>1, <1>6, <1>8 DEF Indexed
  <2> QED
    BY <2>1, <2>2 DEF Indexed
<1>13. absolute(T) \in Nat \ {0} /\ e[T][m - 2] \in Nat
  <2>1. m - 2 \in 0 .. Lines(s, T) - 1
    <3>1. Col(m - 1) # 0
      BY <1>3 DEF Sizes
    <3>2. m - 1 # 0
      BY <3>1, FirstRow
    <3> QED
      BY <1>2, <3>2 DEF m
  <2> QED
    BY <1>1, <2>1 DEF absolute, Chained
<1>14. new # b => new \notin DOMAIN s.blocks
  <2>1. s.blocks \in Seq(Block)
    BY <1>1 DEF Storage
  <2> QED
    BY <2>1 DEF new, NewPlace
<1>15. Owned(r)
  <2>1. ASSUME NEW c \in DOMAIN r.blocks
        PROVE  r.blocks[c].size # 0 <=>
                 \E U \in Tables : \E j \in DOMAIN IndexOf(r, U) : IndexOf(r, U)[j] = c
    <3>1. CASE c = new
      <4>1. r.blocks[c].size # 0
        BY <1>5, <1>13, <3>1
      <4>2. IndexOf(r, T)[Row(m)] = c /\ Row(m) \in DOMAIN IndexOf(r, T)
        BY <1>4, <1>8, <3>1
      <4> QED
        BY <4>1, <4>2
    <3>2. CASE c = b /\ c # new
      <4>1. r.blocks[c].size = 0
        BY <1>5, <3>2 DEF Freed
      <4>2. \A U \in Tables : \A j \in DOMAIN IndexOf(r, U) : IndexOf(r, U)[j] # c
        BY <1>8, <1>9, <3>2
      <4> QED
        BY <4>1, <4>2
    <3>3. CASE c # b /\ c # new
      <4>1. c \in DOMAIN s.blocks /\ r.blocks[c] = s.blocks[c]
        BY <1>5, <3>3
      <4>2. s.blocks[c].size # 0 <=>
               \E U \in Tables : \E j \in DOMAIN IndexOf(s, U) : IndexOf(s, U)[j] = c
        BY <1>1, <4>1 DEF Owned
      <4>3. ASSUME NEW U \in Tables, NEW j \in DOMAIN IndexOf(s, U)
            PROVE  j \in DOMAIN IndexOf(r, U)
                   /\ (IndexOf(r, U)[j] = c <=> IndexOf(s, U)[j] = c)
        BY <1>4, <1>8, <3>3
      <4> QED
        BY <1>8, <4>1, <4>2, <4>3
    <3> QED
      BY <3>1, <3>2, <3>3
  <2>2. ASSUME NEW U \in Tables, NEW V \in Tables,
               NEW i \in DOMAIN IndexOf(r, U), NEW j \in DOMAIN IndexOf(r, V),
               IndexOf(r, U)[i] = IndexOf(r, V)[j]
        PROVE  U = V /\ i = j
    <3>1. i \in DOMAIN IndexOf(s, U) /\ j \in DOMAIN IndexOf(s, V)
      BY <1>8
    <3>2. CASE ~(U = T /\ i = Row(m)) /\ ~(V = T /\ j = Row(m))
      BY <1>1, <1>8, <2>2, <3>1, <3>2 DEF Owned
    <3>3. \A W \in Tables : \A l \in DOMAIN IndexOf(s, W) :
             ~(W = T /\ l = Row(m)) => IndexOf(r, W)[l] # new
      BY <1>8, <1>9, <1>14
    <3>4. CASE U = T /\ i = Row(m)
      BY <1>8, <2>2, <3>1, <3>3, <3>4
    <3>5. CASE V = T /\ j = Row(m)
      BY <1>8, <2>2, <3>1, <3>3, <3>5
    <3> QED
      BY <3>2, <3>4, <3>5
  <2> QED
    BY <2>1, <2>2 DEF Owned
<1>16. Fitting(r)
  <2>1. ASSUME NEW c \in DOMAIN r.blocks, NEW o \in DOMAIN r.blocks[c].entries
        PROVE  r.blocks[c].entries[o].inside
    <3>1. CASE c = new
      BY <1>1, <1>4, <1>5, <3>1 DEF Fitting
    <3>2. CASE c = b /\ c # new
      <4>1. DOMAIN r.blocks[c].entries = {}
        BY <1>5, <3>2 DEF Freed
      <4> QED
        BY <4>1
    <3>3. CASE c # b /\ c # new
      BY <1>1, <1>5, <3>3 DEF Fitting
    <3> QED
      BY <3>1, <3>2, <3>3
  <2> QED
    BY <2>1 DEF Fitting
<1>17. Roomy(r, e)
  <2> SUFFICES ASSUME NEW U \in Tables, NEW k \in 0 .. Lines(r, U) - 1
               PROVE
        /\ SizeOf(r, U, k) # 0
        /\ Row(k) = Row(Lines(r, U)) =>
             \/ SizeOf(r, U, k) = Full(U)
             \/ /\ Col(Lines(r, U)) = BLOCK_SIZE - 1
                /\ SizeOf(r, U, k) >= e[U][Lines(r, U) - 1] + absolute(U)
        /\ Col(k) = BLOCK_SIZE - 1 => SizeOf(r, U, k) >= e[U][k - 1] + absolute(U)
    BY DEF Roomy
  <2>1. k \in 0 .. Lines(s, U) - 1 /\ Lines(r, U) = Lines(s, U)
    BY <1>6
  <2>2. CASE U = T /\ Row(k) = Row(m - 1)
    <3>1. SizeOf(r, U, k) = e[T][m - 2] + absolute(T)
      <4>1. BlockOf(r, U, k) = new
        BY <1>10, <2>1, <2>2
      <4> QED
        BY <1>5, <4>1 DEF SizeOf
    <3>2. Row(k) # Row(Lines(r, U))
      BY <1>3, <2>1, <2>2 DEF m
    <3>3. ASSUME Col(k) = BLOCK_SIZE - 1 PROVE k - 1 = m - 2
      <4>1. k \in Nat /\ k = BLOCK_SIZE * Row(k) + Col(k)
        <5>1. k \in Nat
          BY <1>1, <2>1, BlockOfLine
        <5> QED
          BY <5>1, Division
      <4>2. k = m - 1
        BY <1>3, <2>2, <3>3, <4>1
      <4> QED
        BY <1>2, <4>2
    <3> QED
      BY <1>13, <2>2, <3>1, <3>2, <3>3
  <2>3. CASE ~(U = T /\ Row(k) = Row(m - 1))
    <3>1. SizeOf(r, U, k) = SizeOf(s, U, k)
      BY <1>10, <2>1, <2>3 DEF SizeOf
    <3> QED
      BY <1>1, <2>1, <3>1 DEF Roomy
  <2> QED
    BY <2>2, <2>3
<1>18. Shape(r, e)
  BY <1>5, <1>6, <1>11, <1>12, <1>15, <1>16, <1>17 DEF Shape
<1>19. BlockOf(r, T, m - 1) = new
  <2>1. m - 1 \in 0 .. Lines(s, T) - 1
    BY <1>2 DEF m
  <2> QED
    BY <1>10, <2>1
<1>20. ~ReallocMoves => \A U \in Tables : \A k \in 0 .. Lines(s, U) - 1 :
                          BlockOf(r, U, k) = BlockOf(s, U, k)
  <2>1. ~ReallocMoves => new = b
    BY DEF new, NewPlace
  <2> QED
    BY <1>10, <2>1
<1> QED
  BY <1>5, <1>6, <1>11, <1>18, <1>19, <1>20 DEF Finished, m

(* append(): one line more, the others as they were.                       *)
Appended(s, r, e, v, pos) ==
  LET e2 == EndsWith(s, e, pos)
      v2 == ValuesWith(s, v, pos)
  IN  /\ Shape(r, e2) /\ Coded(r, e2, v2) /\ Pointing(r, e2) /\ Current(r, v2)
      /\ ~FirstBig(s, pos) => Poppable(r, e2)
      /\ r.nb_lines_ = s.nb_lines_ + 1
      /\ r.first_long_line_ = IF FirstBig(s, pos) THEN s.nb_lines_ ELSE s.first_long_line_
      /\ ~ReallocMoves => \A U \in Tables : \A k \in 0 .. Lines(s, U) - 1 :
                            BlockOf(r, U, k) = BlockOf(s, U, k)
      /\ r.last_read_ = s.last_read_ /\ r.dead = s.dead /\ r.thread_ids_ = s.thread_ids_

(* The line made, in one way or the other, is coded as the others are.     *)
LEMMA GrownIsRight ==
  ASSUME Sizes, NEW s, NEW e, NEW v, Shape(s, e), Coded(s, e, v), Pointing(s, e),
         Current(s, v), s.nb_lines_ + 1 < Unset, NEW pos \in Nat, InTurn(s, pos)
  PROVE  Grew(s, Grown(s, pos), e, v, pos)
<1> DEFINE T == TableFor(pos)
           n == Lines(s, T)
<1>1. /\ Opens(s, pos) <=> Col(n) = 0
      /\ Col(n) # 0 => s.block_pointer_ = PointerTo(s, e, T, n - 1)
  BY OpensWhenWhole
<1>2. s \in Storage /\ Counted(s) /\ Indexed(s) /\ T \in Tables
  BY DEF Shape, TableFor, Tables
<1>3. CASE Col(n) = 0
  <2>1. MadeBlock(s, Grown(s, pos), pos)
    BY <1>1, <1>2, <1>3, GrownOpens
  <2> QED
    BY <1>3, <2>1, MadeIsRight
<1>4. CASE Col(n) # 0
  <2>1. n - 1 \in 0 .. n - 1
    BY <1>2, <1>4, NextLine
  <2>2. BlockOf(s, T, n - 1) \in DOMAIN s.blocks
    BY <1>2, <2>1, BlockOfLine
  <2>3. s.block_pointer_.block \in DOMAIN s.blocks
    BY <1>1, <1>4, <2>2 DEF PointerTo
  <2>4. WroteEntry(s, Grown(s, pos), pos)
    BY <1>1, <1>2, <1>4, <2>3, GrownWrites
  <2> QED
    BY <1>4, <2>4, WroteIsRight
<1> QED
  BY <1>3, <1>4

(* append() codes one line more, in a block made, open or finished by it.  *)
LEMMA AppendIsRight ==
  ASSUME Sizes, NEW s, NEW e, NEW v, Shape(s, e), Coded(s, e, v), Pointing(s, e),
         Current(s, v), s.nb_lines_ + 1 < Unset, ~s.dead, NEW pos \in Nat, InTurn(s, pos)
  PROVE  Appended(s, append(s, pos), e, v, pos)
<1> DEFINE T == TableFor(pos)
           n == Lines(s, T)
           g == Grown(s, pos)
           r == append(s, pos)
           e2 == EndsWith(s, e, pos)
           v2 == ValuesWith(s, v, pos)
           nb == IF pos > UINT32_MAX THEN g.nb_lines_ - g.first_long_line_ ELSE g.nb_lines_
<1>1. Grew(s, g, e, v, pos)
  BY GrownIsRight
<1>2. r = IF nb % BLOCK_SIZE = 0 THEN FinishBlock(g, T, nb) ELSE g
  <2> HIDE DEF g, T
  <2> QED
    BY AppendIs DEF g, T
<1>3. s \in Storage /\ Counted(s) /\ Chained(s, e)
  BY DEF Shape
<1> HIDE DEF g, r
<1>4. /\ Shape(g, e2) /\ Coded(g, e2, v2)
      /\ g.nb_lines_ = s.nb_lines_ + 1 /\ g.current_pos_ = pos
      /\ g.first_long_line_ = IF FirstBig(s, pos) THEN s.nb_lines_ ELSE s.first_long_line_
      /\ g.block_pointer_ = PointerTo(g, e2, T, n)
      /\ g.previous_block_pointer_ = s.block_pointer_
      /\ \A U \in Tables : \A k \in 0 .. Lines(s, U) - 1 :
           BlockOf(g, U, k) = BlockOf(s, U, k)
      /\ Col(n) # 0 => BlockOf(g, T, n) = BlockOf(s, T, n - 1)
      /\ Col(n) # BLOCK_SIZE - 1 => SizeOf(g, T, n) = Full(T)
      /\ g.last_read_ = s.last_read_ /\ g.dead = s.dead /\ g.thread_ids_ = s.thread_ids_
  BY <1>1 DEF Grew
<1>5. g \in Storage /\ Counted(g) /\ Indexed(g)
  BY <1>4 DEF Shape
<1>6. /\ T \in Tables /\ Growing(g) = T
      /\ \A U \in Tables : Lines(g, U) = IF U = T THEN Lines(s, U) + 1 ELSE Lines(s, U)
      /\ ~FirstBig(s, pos) => Growing(s) = T
      /\ FirstBig(s, pos) => T = 64 /\ Lines(s, 64) = 0
  BY <1>3, <1>4, <1>5, CountsGrow
<1>7. /\ Opens(s, pos) <=> Col(n) = 0
      /\ Col(n) = 0 /\ ~FirstBig(s, pos) => s.block_pointer_ = nullptr
      /\ Col(n) # 0 => s.block_pointer_ = PointerTo(s, e, T, n - 1)
  BY OpensWhenWhole
<1>8. nb = Lines(g, T)
  BY <1>4, <1>6 DEF Lines, Growing, T, TableFor, InTurn, Tables
<1>9. /\ n \in Nat /\ Row(n) \in Nat /\ Col(n) \in 0 .. BLOCK_SIZE - 1
      /\ Col(n) # 0 => n # 0 /\ n - 1 \in 0 .. n - 1
  BY <1>3, <1>6, NextLine
<1>10. e2 = Added(e, T, n, EndFor(s, e, pos)) /\ v2 = Added(v, T, n, pos)
  BY DEF EndsWith, ValuesWith
<1>11. /\ v2[T][n] = pos
       /\ n # 0 => e2[T][n - 1] = e[T][n - 1]
  BY <1>6, <1>9, <1>10, AddedIs
<1>12. Lines(g, T) = n + 1 /\ n + 1 - 1 = n /\ n + 1 - 2 = n - 1 /\ n + 1 # 0
  BY <1>6, <1>9
<1>13. ~FirstBig(s, pos) => (T = 64 => n + 1 # 1)
  BY <1>3, <1>9 DEF FirstBig, T, TableFor, Lines, Counted, Storage
<1> HIDE DEF T, n, nb, e2, v2
<1>14. CASE Col(n) = BLOCK_SIZE - 1
  <2>1. Col(n) # 0
    BY <1>14 DEF Sizes
  <2>2. Col(n + 1) = 0 /\ Row(n + 1) = Row(n) + 1
    BY <1>9, <1>14, NextRow
  <2>3. nb = n + 1 /\ nb % BLOCK_SIZE = 0
    BY <1>8, <1>12, <2>2 DEF Col
  <2>4. r = FinishBlock(g, T, nb)
    BY <1>2, <2>3
  <2>5. n \in 0 .. Lines(g, T) - 1 /\ n + 1 \in Nat
    BY <1>9, <1>12
  <2>6. Row(n) + 1 \in DOMAIN IndexOf(g, T) /\ BlockOf(g, T, n) \in DOMAIN g.blocks
    BY <1>5, <1>6, <2>5, BlockOfLine
  <2>7. Row(nb) \in DOMAIN IndexOf(g, T) /\ IndexOf(g, T)[Row(nb)] \in DOMAIN g.blocks
        /\ nb \in Nat
    BY <2>2, <2>3, <2>5, <2>6 DEF BlockOf
  <2>8. HasFinished(g, r, T, Row(Lines(g, T)))
    BY <1>5, <1>6, <1>8, <2>4, <2>7, FinishBlockIs
  <2>9. g.previous_block_pointer_.offset = e2[T][Lines(g, T) - 2]
    BY <1>4, <1>7, <1>9, <1>11, <1>12, <2>1 DEF PointerTo, T
  <2>10. Finished(g, r, e2, v2, T)
    BY <1>4, <1>6, <1>12, <2>2, <2>8, <2>9, FinishIsRight DEF e2, v2
  <2>11. /\ Shape(r, e2) /\ Coded(r, e2, v2)
         /\ \A U \in Tables : Lines(r, U) = Lines(g, U)
         /\ r.nb_lines_ = g.nb_lines_ /\ r.current_pos_ = g.current_pos_
         /\ r.first_long_line_ = g.first_long_line_
         /\ r.block_pointer_ = nullptr
         /\ r.previous_block_pointer_ =
              [block |-> BlockOf(r, T, n), offset |-> e2[T][n - 1]]
         /\ ~ReallocMoves => \A U \in Tables : \A k \in 0 .. Lines(g, U) - 1 :
                               BlockOf(r, U, k) = BlockOf(g, U, k)
         /\ r.last_read_ = g.last_read_ /\ r.dead = g.dead /\ r.thread_ids_ = g.thread_ids_
    BY <1>9, <1>12, <2>9, <2>10 DEF Finished
  <2>12. Growing(r) = T /\ Lines(r, T) = n + 1
    BY <1>6, <1>12, <2>11 DEF Growing
  <2>13. Pointing(r, e2)
    BY <2>2, <2>11, <2>12 DEF Pointing
  <2>14. Current(r, v2)
    BY <1>4, <1>9, <1>11, <1>12, <2>11, <2>12 DEF Current
  <2>15. ~FirstBig(s, pos) => Poppable(r, e2)
    BY <1>9, <1>12, <1>13, <2>1, <2>2, <2>11, <2>12 DEF Poppable
  <2>16. ~ReallocMoves => \A U \in Tables : \A k \in 0 .. Lines(s, U) - 1 :
                            BlockOf(r, U, k) = BlockOf(s, U, k)
    <3> SUFFICES ASSUME ~ReallocMoves, NEW U \in Tables, NEW k \in 0 .. Lines(s, U) - 1
                 PROVE  BlockOf(r, U, k) = BlockOf(s, U, k)
      OBVIOUS
    <3>1. Lines(s, U) \in Nat
      BY <1>3, LineCounts
    <3>2. k \in 0 .. Lines(g, U) - 1
      BY <1>6, <3>1
    <3> QED
      BY <1>4, <2>11, <3>2
  <2> QED
    BY <1>4, <2>11, <2>13, <2>14, <2>15, <2>16 DEF Appended, e2, v2, r, T, n
<1>15. CASE Col(n) # BLOCK_SIZE - 1
  <2>1. Col(n + 1) = Col(n) + 1 /\ Col(n + 1) # 0
    <3>1. Col(n + 1) = Col(n) + 1
      BY <1>9, <1>15, NextRow
    <3> QED
      BY <1>9, <3>1
  <2>2. r = g
    BY <1>2, <1>8, <1>12, <2>1 DEF Col
  <2>3. Pointing(r, e2)
    BY <1>4, <1>6, <1>9, <1>12, <2>1, <2>2 DEF Pointing
  <2>4. Current(r, v2)
    BY <1>4, <1>6, <1>9, <1>11, <1>12, <2>2 DEF Current
  <2>5. ~FirstBig(s, pos) => Poppable(r, e2)
    <3> SUFFICES ASSUME ~FirstBig(s, pos)
                 PROVE  r.previous_block_pointer_ =
                          IF Col(n) = 0 THEN nullptr
                          ELSE [block |-> BlockOf(r, T, n), offset |-> e2[T][n - 1]]
      BY <1>4, <1>6, <1>9, <1>12, <1>13, <1>15, <2>2 DEF Poppable
    <3> QED
      BY <1>4, <1>7, <1>9, <1>11, <2>2 DEF PointerTo, T
  <2> QED
    BY <1>4, <2>2, <2>3, <2>4, <2>5 DEF Appended, e2, v2, r, T, n
<1> QED
  BY <1>14, <1>15

-----------------------------------------------------------------------------
(* pop_back(), before the line that is then the last one is read.          *)
Shorter(s) ==
  LET table == Growing(s)
      b == Last(IndexOf(s, table))
      reverted == IF s.previous_block_pointer_ # nullptr
                    THEN [s EXCEPT !.block_pointer_ = s.previous_block_pointer_]
                    ELSE [WithIndex(s, table, Front(IndexOf(s, table))) EXCEPT
                            !.blocks[b] = Freed, !.block_pointer_ = nullptr]
  IN  [reverted EXCEPT !.previous_block_pointer_ = nullptr, !.nb_lines_ = @ - 1]

(* pop_back() takes the line back, then reads the one before it.           *)
LEMMA PopBackIs ==
  ASSUME NEW s
  PROVE  LET shorter == Shorter(s)
             read == at(shorter, Worker, shorter.nb_lines_ - 1)
         IN  pop_back(s) = IF shorter.nb_lines_ = 0 THEN [s EXCEPT !.dead = TRUE]
                           ELSE [read EXCEPT !.current_pos_ = LastReadBy(read, Worker)]
BY DEF pop_back, Shorter, Growing

(* A sequence but for its last element.                                    *)
LEMMA FrontIs ==
  ASSUME NEW f \in Seq(Nat), Len(f) # 0
  PROVE  /\ Front(f) \in Seq(Nat) /\ Len(Front(f)) = Len(f) - 1
         /\ DOMAIN Front(f) = 1 .. Len(f) - 1
         /\ \A i \in 1 .. Len(f) - 1 : Front(f)[i] = f[i]
<1> DEFINE n == Len(f) - 1
<1>1. n \in Nat /\ Len(f) \in Nat
  OBVIOUS
<1>2. \A i \in 1 .. n : f[i] \in Nat
  <2>1. \A i \in 1 .. Len(f) : f[i] \in Nat
    OBVIOUS
  <2> QED
    BY <1>1, <2>1
<1>3. Front(f) = SubSeq(f, 1, n)
  BY DEF Front
<1> HIDE DEF n
<1>4. /\ SubSeq(f, 1, n) \in Seq(Nat)
      /\ Len(SubSeq(f, 1, n)) = IF 1 <= n THEN n - 1 + 1 ELSE 0
      /\ \A i \in 1 .. n - 1 + 1 : SubSeq(f, 1, n)[i] = f[1 + i - 1]
  BY <1>1, <1>2, SubSeqProperties
<1>5. /\ Len(SubSeq(f, 1, n)) = n
      /\ \A i \in 1 .. n : SubSeq(f, 1, n)[i] = f[i]
  BY <1>1, <1>4
<1>6. DOMAIN SubSeq(f, 1, n) = 1 .. n
  BY <1>4, <1>5
<1> QED
  BY <1>3, <1>4, <1>5, <1>6 DEF n

(* The entry is taken back, or its block with it.                          *)
TookEntry(s, r) ==
  /\ r.blocks = s.blocks
  /\ \A U \in Tables : IndexOf(r, U) = IndexOf(s, U)
  /\ r.block_pointer_ = s.previous_block_pointer_
TookBlock(s, r) ==
  LET T == Growing(s)
      index == IndexOf(s, T)
      b == index[Len(index)]
  IN  /\ r.blocks = [s.blocks EXCEPT ![b] = Freed]
      /\ IndexOf(r, T) = Front(index)
      /\ \A U \in Tables : U # T => IndexOf(r, U) = IndexOf(s, U)
      /\ r.block_pointer_ = nullptr
TookBack(s, r) ==
  /\ r \in Storage
  /\ s.previous_block_pointer_ # nullptr => TookEntry(s, r)
  /\ s.previous_block_pointer_ = nullptr => TookBlock(s, r)
  /\ r.nb_lines_ = s.nb_lines_ - 1
  /\ r.first_long_line_ = s.first_long_line_
  /\ r.last_read_ = s.last_read_ /\ r.dead = s.dead /\ r.thread_ids_ = s.thread_ids_

(* pop_back() before its read, field by field.                             *)
LEMMA ShorterIs ==
  ASSUME NEW s \in Storage, s.nb_lines_ # 0, IndexOf(s, Growing(s)) # <<>>,
         \A j \in DOMAIN IndexOf(s, Growing(s)) :
            IndexOf(s, Growing(s))[j] \in DOMAIN s.blocks
  PROVE  TookBack(s, Shorter(s))
<1> DEFINE T == Growing(s)
           index == IndexOf(s, T)
           b == Last(index)
           r == Shorter(s)
           w == WithIndex(s, T, Front(index))
<1>1. T \in Tables /\ index \in Seq(Nat) /\ index # <<>> /\ Len(index) \in Nat
  <2>1. T \in Tables
    BY DEF Growing, Tables
  <2> HIDE DEF T
  <2> QED
    BY <2>1, IndexSeq DEF T
<1>2. s.nb_lines_ - 1 \in Nat /\ nullptr \in Pointer /\ s.previous_block_pointer_ \in Pointer
  BY DEF Storage, nullptr, Pointer
<1> HIDE DEF T, index
<1>3. /\ Len(index) # 0 /\ b = index[Len(index)] /\ b \in DOMAIN s.blocks
      /\ Front(index) \in Seq(Nat)
  <2>1. Len(index) # 0
    BY <1>1
  <2>2. Front(index) \in Seq(Nat)
    BY <1>1, <2>1, FrontIs
  <2>3. b = index[Len(index)]
    BY DEF Last
  <2>4. Len(index) \in DOMAIN index
    BY <1>1, <2>1
  <2> QED
    BY <2>1, <2>2, <2>3, <2>4 DEF index, T
<1>4. CASE s.previous_block_pointer_ # nullptr
  <2>1. r = [s EXCEPT !.block_pointer_ = s.previous_block_pointer_,
                      !.previous_block_pointer_ = nullptr,
                      !.nb_lines_ = s.nb_lines_ - 1]
    BY <1>4 DEF Shorter, Storage
  <2> HIDE DEF r
  <2>2. /\ r \in Storage /\ r.blocks = s.blocks
        /\ r.index32 = s.index32 /\ r.index64 = s.index64
        /\ r.block_pointer_ = s.previous_block_pointer_
        /\ r.previous_block_pointer_ = nullptr
        /\ r.nb_lines_ = s.nb_lines_ - 1
        /\ r.first_long_line_ = s.first_long_line_
        /\ r.last_read_ = s.last_read_ /\ r.dead = s.dead /\ r.thread_ids_ = s.thread_ids_
    BY <1>2, <2>1 DEF Storage
  <2> QED
    BY <1>4, <2>2 DEF TookBack, TookEntry, IndexOf, r
<1>5. CASE s.previous_block_pointer_ = nullptr
  <2> DEFINE blocks == [s.blocks EXCEPT ![b] = Freed]
             x == [w EXCEPT !.blocks[b] = Freed, !.block_pointer_ = nullptr]
  <2>1. r = [x EXCEPT !.previous_block_pointer_ = nullptr, !.nb_lines_ = @ - 1]
    BY <1>5 DEF Shorter, index, T
  <2> HIDE DEF w, r
  <2>2. Reindexed(s, w, T, Front(index))
    BY <1>1, <1>3, WithIndexIs DEF w
  <2>3. w \in Storage /\ w.blocks = s.blocks /\ w.nb_lines_ = s.nb_lines_
    BY <2>2 DEF Reindexed
  <2> HIDE DEF b
  <2>4. blocks \in Seq(Block)
    <3>1. Freed \in Block
      BY NoEntries DEF Block, Freed, Garbage
    <3>2. s.blocks \in Seq(Block)
      BY DEF Storage
    <3> QED
      BY <1>3, <3>1, <3>2
  <2>5. x = [w EXCEPT !.blocks = blocks, !.block_pointer_ = nullptr]
    BY <2>3
  <2> HIDE DEF x, blocks
  <2>6. /\ x \in Storage /\ x.blocks = blocks /\ x.block_pointer_ = nullptr
        /\ x.index32 = w.index32 /\ x.index64 = w.index64 /\ x.nb_lines_ = w.nb_lines_
        /\ x.first_long_line_ = w.first_long_line_
        /\ x.last_read_ = w.last_read_ /\ x.dead = w.dead /\ x.thread_ids_ = w.thread_ids_
    BY <1>2, <2>3, <2>4, <2>5 DEF Storage
  <2>7. r = [x EXCEPT !.previous_block_pointer_ = nullptr, !.nb_lines_ = s.nb_lines_ - 1]
    BY <2>1, <2>3, <2>6
  <2>8. /\ r \in Storage /\ r.blocks = blocks /\ r.block_pointer_ = nullptr
        /\ r.index32 = w.index32 /\ r.index64 = w.index64
        /\ r.nb_lines_ = s.nb_lines_ - 1
        /\ r.first_long_line_ = w.first_long_line_
        /\ r.last_read_ = w.last_read_ /\ r.dead = w.dead /\ r.thread_ids_ = w.thread_ids_
    BY <1>2, <2>6, <2>7 DEF Storage
  <2>9. /\ IndexOf(r, T) = Front(index)
        /\ \A U \in Tables : U # T => IndexOf(r, U) = IndexOf(s, U)
    BY <1>1, <2>2, <2>8 DEF Reindexed, IndexOf, Tables
  <2>10. TookBlock(s, r)
    BY <1>3, <2>8, <2>9 DEF TookBlock, blocks, T, index
  <2> QED
    BY <1>5, <2>2, <2>8, <2>10 DEF TookBack, Reindexed, r
<1> QED
  BY <1>4, <1>5

(* One line less, the others as they were.                                 *)
Shortened(s, r, e, v) ==
  /\ Shape(r, e) /\ Coded(r, e, v) /\ Pointing(r, e)
  /\ r.nb_lines_ = s.nb_lines_ - 1 /\ r.first_long_line_ = s.first_long_line_
  /\ Growing(r) = Growing(s)
  /\ \A U \in Tables :
       Lines(r, U) = IF U = Growing(s) THEN Lines(s, U) - 1 ELSE Lines(s, U)
  /\ \A U \in Tables : \A k \in 0 .. Lines(r, U) - 1 : BlockOf(r, U, k) = BlockOf(s, U, k)
  /\ r.last_read_ = s.last_read_ /\ r.dead = s.dead /\ r.thread_ids_ = s.thread_ids_

(* pop_back() before its read leaves the lines but the last as they were,  *)
(* and a block that another entry fits in.                                 *)
LEMMA ShorterIsRight ==
  ASSUME Sizes, NEW s, NEW e, NEW v, Shape(s, e), Coded(s, e, v), Poppable(s, e)
  PROVE  Shortened(s, Shorter(s), e, v)
<1> DEFINE T == Growing(s)
           n == Lines(s, T)
           m == n - 1
           B == BlockOf(s, T, m)
           r == Shorter(s)
<1>1. /\ s \in Storage /\ Counted(s) /\ Indexed(s) /\ Chained(s, e) /\ Roomy(s, e)
      /\ Owned(s) /\ Fitting(s)
  BY DEF Shape
<1>2. /\ n # 0 /\ (T = 64 => n # 1)
      /\ s.previous_block_pointer_ =
           IF Col(m) = 0 THEN nullptr ELSE [block |-> B, offset |-> e[T][n - 2]]
      /\ Col(n) # 0 => SizeOf(s, T, m) = Full(T)
  BY DEF Poppable
<1>3. T \in Tables /\ n \in Nat
  <2>1. T \in Tables
    BY DEF Growing, Tables
  <2> HIDE DEF T
  <2> QED
    BY <1>1, <2>1, LineCounts
<1> HIDE DEF T, r
<1>4. m \in Nat /\ m + 1 = n /\ m \in 0 .. n - 1
  BY <1>2, <1>3
<1>5. B \in DOMAIN s.blocks /\ Row(m) + 1 \in DOMAIN IndexOf(s, T) /\ B \in Nat \ {0}
      /\ Row(m) \in Nat
  BY <1>1, <1>3, <1>4, BlockOfLine
<1>6. s.previous_block_pointer_ = nullptr <=> Col(m) = 0
  BY <1>2, <1>5 DEF nullptr
<1>7. Col(m) \in 0 .. BLOCK_SIZE - 1 /\ BLOCK_SIZE \in Nat /\ BLOCK_SIZE >= 2
  BY <1>4, Division DEF Sizes
<1>8. /\ IndexOf(s, T) \in Seq(Nat) /\ DOMAIN IndexOf(s, T) = 1 .. Len(IndexOf(s, T))
      /\ Len(IndexOf(s, T)) = Row(m) + 1
  <2>1. Len(IndexOf(s, T)) = IF Col(n) = 0 THEN Row(n) ELSE Row(n) + 1
    BY <1>1, <1>3 DEF Indexed
  <2>2. /\ Col(m) = BLOCK_SIZE - 1 => Row(n) = Row(m) + 1 /\ Col(n) = 0
        /\ Col(m) # BLOCK_SIZE - 1 => Row(n) = Row(m) /\ Col(n) = Col(m) + 1
    <3> HIDE DEF m, n
    <3>1. /\ Col(m) = BLOCK_SIZE - 1 => Row(m + 1) = Row(m) + 1 /\ Col(m + 1) = 0
          /\ Col(m) # BLOCK_SIZE - 1 => Row(m + 1) = Row(m) /\ Col(m + 1) = Col(m) + 1
      BY <1>4, NextRow
    <3> QED
      BY <1>4, <3>1
  <2> HIDE DEF m, n
  <2>3. Len(IndexOf(s, T)) = Row(m) + 1
    BY <1>7, <2>1, <2>2
  <2> QED
    BY <1>1, <1>3, <2>3, IndexSeq
<1>9. s.nb_lines_ # 0 /\ s.nb_lines_ \in Nat
  BY <1>1, <1>2 DEF Lines, Counted, Storage, T
<1>10. TookBack(s, r)
  <2>1. IndexOf(s, T) # <<>>
    BY <1>5, <1>8
  <2>2. \A j \in DOMAIN IndexOf(s, T) : IndexOf(s, T)[j] \in DOMAIN s.blocks
    BY <1>1, <1>3 DEF Indexed
  <2> QED
    BY <1>1, <1>9, <2>1, <2>2, ShorterIs DEF T, r
<1>11. /\ r \in Storage /\ r.nb_lines_ = s.nb_lines_ - 1
       /\ r.first_long_line_ = s.first_long_line_
       /\ r.last_read_ = s.last_read_ /\ r.dead = s.dead /\ r.thread_ids_ = s.thread_ids_
  BY <1>10 DEF TookBack
<1>12. /\ Growing(r) = T /\ Counted(r)
       /\ \A U \in Tables : Lines(r, U) = IF U = T THEN Lines(s, U) - 1 ELSE Lines(s, U)
  <2>1. /\ s.nb_lines_ \in Nat /\ s.first_long_line_ \in Nat /\ s.nb_lines_ < Unset
        /\ s.first_long_line_ = Unset \/ s.first_long_line_ < s.nb_lines_
    BY <1>1 DEF Storage, Counted
  <2>2. s.first_long_line_ # Unset => s.nb_lines_ - s.first_long_line_ # 1
    BY <1>2 DEF Lines, T, Growing
  <2>3. r.nb_lines_ = s.nb_lines_ - 1 /\ r.first_long_line_ = s.first_long_line_
    BY <1>11
  <2>4. Unset \in Nat
    BY DEF Unset
  <2>5. Growing(r) = T
    BY <2>3 DEF T, Growing
  <2>6. Counted(r)
    BY <2>1, <2>2, <2>3, <2>4, <1>9 DEF Counted
  <2> QED
    BY <2>1, <2>3, <2>5, <2>6 DEF Lines, T, Growing, Tables
<1>13. Lines(r, T) = m
  BY <1>3, <1>12
<1>14. \A U \in Tables : /\ Lines(r, U) \in Nat /\ Lines(s, U) \in Nat
                         /\ Lines(r, U) <= Lines(s, U)
  <2> SUFFICES ASSUME NEW U \in Tables
               PROVE  Lines(r, U) \in Nat /\ Lines(s, U) \in Nat
                      /\ Lines(r, U) <= Lines(s, U)
    OBVIOUS
  <2>1. Lines(r, U) \in Nat /\ Lines(s, U) \in Nat
    BY <1>1, <1>11, <1>12, LineCounts
  <2> QED
    BY <1>12, <2>1
<1>15. \A k \in 0 .. m - 1 : /\ k \in Nat /\ Row(k) \in Nat
                             /\ Row(k) = Row(m) => Col(k) < Col(m)
                             /\ Row(k) <= Row(m) /\ Col(k) \in Nat
  <2>1. \A k \in 0 .. Lines(r, T) - 1 :
           /\ k \in Nat /\ Row(k) \in Nat /\ Col(k) \in Nat
           /\ Row(k) = Row(Lines(r, T)) => Col(k) < Col(Lines(r, T))
           /\ Row(k) <= Row(Lines(r, T))
    BY <1>3, <1>11, <1>12, NextLine
  <2> QED
    BY <1>13, <2>1
<1> DEFINE Same(U, k) ==
             /\ BlockOf(r, U, k) = BlockOf(s, U, k)
             /\ BlockOf(s, U, k) \in DOMAIN s.blocks
             /\ r.blocks[BlockOf(r, U, k)] = s.blocks[BlockOf(s, U, k)]
           Indexing == Indexed(r) /\ Owned(r) /\ Fitting(r)
<1> HIDE DEF n, m, B
<1>16. ASSUME Col(m) = 0
       PROVE  /\ Indexing /\ r.block_pointer_ = nullptr
              /\ \A U \in Tables : \A k \in 0 .. Lines(r, U) - 1 : Same(U, k)
  <2>1. /\ r.blocks = [s.blocks EXCEPT ![B] = Freed]
        /\ IndexOf(r, T) = Front(IndexOf(s, T))
        /\ \A U \in Tables : U # T => IndexOf(r, U) = IndexOf(s, U)
        /\ r.block_pointer_ = nullptr
    <3>1. B = IndexOf(s, T)[Len(IndexOf(s, T))]
      BY <1>8 DEF BlockOf, B
    <3>2. TookBlock(s, r)
      BY <1>6, <1>10, <1>16 DEF TookBack
    <3> QED
      BY <3>1, <3>2 DEF TookBlock, T
  <2>2. /\ DOMAIN IndexOf(r, T) = 1 .. Row(m) /\ Len(IndexOf(r, T)) = Row(m)
        /\ \A i \in 1 .. Row(m) : IndexOf(r, T)[i] = IndexOf(s, T)[i]
    <3>1. Len(IndexOf(s, T)) # 0 /\ Len(IndexOf(s, T)) - 1 = Row(m)
      BY <1>5, <1>8
    <3>2. /\ Len(Front(IndexOf(s, T))) = Row(m)
          /\ DOMAIN Front(IndexOf(s, T)) = 1 .. Row(m)
          /\ \A i \in 1 .. Row(m) : Front(IndexOf(s, T))[i] = IndexOf(s, T)[i]
      BY <1>8, <3>1, FrontIs
    <3> QED
      BY <2>1, <3>2
  <2>3. ASSUME NEW U \in Tables, NEW i \in DOMAIN IndexOf(r, U)
        PROVE  /\ i \in DOMAIN IndexOf(s, U) /\ ~(U = T /\ i = Row(m) + 1)
               /\ IndexOf(r, U)[i] = IndexOf(s, U)[i]
               /\ IndexOf(s, U)[i] \in DOMAIN s.blocks \ {B}
    <3>1. i \in DOMAIN IndexOf(s, U) /\ ~(U = T /\ i = Row(m) + 1)
          /\ IndexOf(r, U)[i] = IndexOf(s, U)[i]
      <4>1. CASE U = T
        BY <1>5, <1>8, <2>2, <4>1
      <4> QED
        BY <2>1, <4>1
    <3>2. IndexOf(s, U)[i] # B
      BY <1>1, <1>3, <1>5, <3>1 DEF Owned, BlockOf, B
    <3> QED
      BY <1>1, <3>1, <3>2 DEF Indexed
  <2>4. ASSUME NEW U \in Tables, NEW i \in DOMAIN IndexOf(s, U), ~(U = T /\ i = Row(m) + 1)
        PROVE  i \in DOMAIN IndexOf(r, U)
    <3>1. CASE U = T
      BY <1>5, <1>8, <2>2, <2>4, <3>1
    <3> QED
      BY <2>1, <3>1
  <2>5. /\ DOMAIN r.blocks = DOMAIN s.blocks /\ r.blocks[B] = Freed
        /\ \A c \in DOMAIN s.blocks \ {B} : r.blocks[c] = s.blocks[c]
    BY <1>5, <2>1
  <2>6. ASSUME NEW U \in Tables, NEW k \in 0 .. Lines(r, U) - 1
        PROVE  Same(U, k)
    <3>1. k \in 0 .. Lines(s, U) - 1
      BY <1>14
    <3>2. Row(k) + 1 \in DOMAIN IndexOf(s, U)
      BY <1>1, <3>1, BlockOfLine
    <3>3. ~(U = T /\ Row(k) + 1 = Row(m) + 1)
      <4>1. ASSUME U = T PROVE Row(k) + 1 # Row(m) + 1
        <5>1. k \in 0 .. m - 1
          BY <1>13, <4>1
        <5>2. Row(k) # Row(m) /\ Row(k) \in Nat
          BY <1>15, <1>16, <5>1
        <5> QED
          BY <1>5, <5>2
      <4> QED
        BY <4>1
    <3>4. Row(k) + 1 \in DOMAIN IndexOf(r, U)
      BY <2>4, <3>2, <3>3
    <3>5. BlockOf(r, U, k) = BlockOf(s, U, k) /\ BlockOf(s, U, k) \in DOMAIN s.blocks \ {B}
      BY <2>3, <3>4 DEF BlockOf
    <3> QED
      BY <2>5, <3>5
  <2>7. Indexed(r)
    <3>1. ASSUME NEW U \in Tables
          PROVE  Len(IndexOf(r, U)) =
                   IF Col(Lines(r, U)) = 0 THEN Row(Lines(r, U)) ELSE Row(Lines(r, U)) + 1
      <4>1. CASE U = T
        BY <1>13, <1>16, <2>2, <4>1
      <4> QED
        BY <1>1, <1>12, <2>1, <4>1 DEF Indexed
    <3> QED
      BY <2>3, <2>5, <3>1 DEF Indexed
  <2>8. Owned(r)
    <3>1. ASSUME NEW c \in DOMAIN r.blocks
          PROVE  r.blocks[c].size # 0 <=>
                   \E U \in Tables : \E j \in DOMAIN IndexOf(r, U) : IndexOf(r, U)[j] = c
      <4>1. CASE c = B
        <5>1. r.blocks[c].size = 0
          BY <2>5, <4>1 DEF Freed
        <5> QED
          BY <2>3, <4>1, <5>1
      <4>2. CASE c # B
        <5>1. c \in DOMAIN s.blocks /\ r.blocks[c] = s.blocks[c]
          BY <2>5, <4>2
        <5>2. s.blocks[c].size # 0 <=>
                \E U \in Tables : \E j \in DOMAIN IndexOf(s, U) : IndexOf(s, U)[j] = c
          BY <1>1, <5>1 DEF Owned
        <5>3. IndexOf(s, T)[Row(m) + 1] = B
          BY DEF BlockOf, B
        <5>4. ASSUME NEW U \in Tables, NEW j \in DOMAIN IndexOf(s, U), IndexOf(s, U)[j] = c
              PROVE  j \in DOMAIN IndexOf(r, U) /\ IndexOf(r, U)[j] = c
          BY <2>3, <2>4, <4>2, <5>3, <5>4
        <5>5. ASSUME NEW U \in Tables, NEW j \in DOMAIN IndexOf(r, U), IndexOf(r, U)[j] = c
              PROVE  j \in DOMAIN IndexOf(s, U) /\ IndexOf(s, U)[j] = c
          BY <2>3, <5>5
        <5> QED
          BY <5>1, <5>2, <5>4, <5>5
      <4> QED
        BY <4>1, <4>2
    <3>2. ASSUME NEW U \in Tables, NEW V \in Tables,
                 NEW i \in DOMAIN IndexOf(r, U), NEW j \in DOMAIN IndexOf(r, V),
                 IndexOf(r, U)[i] = IndexOf(r, V)[j]
          PROVE  U = V /\ i = j
      BY <1>1, <2>3, <3>2 DEF Owned
    <3> QED
      BY <3>1, <3>2 DEF Owned
  <2>9. Fitting(r)
    <3>1. ASSUME NEW c \in DOMAIN r.blocks, NEW o \in DOMAIN r.blocks[c].entries
          PROVE  r.blocks[c].entries[o].inside
      <4>1. CASE c = B
        <5>1. DOMAIN r.blocks[c].entries = {}
          BY <2>5, <4>1 DEF Freed
        <5> QED
          BY <5>1
      <4>2. CASE c # B
        BY <1>1, <2>5, <4>2 DEF Fitting
      <4> QED
        BY <4>1, <4>2
    <3> QED
      BY <3>1 DEF Fitting
  <2>10. r.block_pointer_ = nullptr
    BY <2>1
  <2> QED
    BY <2>6, <2>7, <2>8, <2>9, <2>10
<1>17. ASSUME Col(m) # 0
       PROVE  /\ Indexing /\ r.block_pointer_ = [block |-> B, offset |-> e[T][n - 2]]
              /\ \A U \in Tables : \A k \in 0 .. Lines(r, U) - 1 : Same(U, k)
  <2>1. /\ r.blocks = s.blocks
        /\ \A U \in Tables : IndexOf(r, U) = IndexOf(s, U)
        /\ r.block_pointer_ = s.previous_block_pointer_
    BY <1>6, <1>10, <1>17 DEF TookBack, TookEntry
  <2>2. ASSUME NEW U \in Tables, NEW k \in 0 .. Lines(r, U) - 1
        PROVE  Same(U, k)
    <3>1. k \in 0 .. Lines(s, U) - 1
      BY <1>14
    <3>2. BlockOf(s, U, k) \in DOMAIN s.blocks
      BY <1>1, <3>1, BlockOfLine
    <3> QED
      BY <2>1, <3>2 DEF BlockOf
  <2>3. Indexed(r)
    <3>1. ASSUME NEW U \in Tables
          PROVE  Len(IndexOf(r, U)) =
                   IF Col(Lines(r, U)) = 0 THEN Row(Lines(r, U)) ELSE Row(Lines(r, U)) + 1
      <4>1. CASE U = T
        BY <1>8, <1>13, <1>17, <2>1, <4>1
      <4> QED
        BY <1>1, <1>12, <2>1, <4>1 DEF Indexed
    <3> QED
      BY <1>1, <2>1, <3>1 DEF Indexed
  <2>4. Owned(r) /\ Fitting(r)
    BY <1>1, <2>1 DEF Owned, Fitting
  <2> QED
    BY <1>2, <1>17, <2>1, <2>2, <2>3, <2>4
<1>18. Indexed(r) /\ Owned(r) /\ Fitting(r)
  BY <1>16, <1>17
<1>19. ASSUME NEW U \in Tables, NEW k \in 0 .. Lines(r, U) - 1
       PROVE  /\ k \in 0 .. Lines(s, U) - 1
              /\ BlockOf(r, U, k) = BlockOf(s, U, k)
              /\ r.blocks[BlockOf(r, U, k)] = s.blocks[BlockOf(s, U, k)]
              /\ SizeOf(r, U, k) = SizeOf(s, U, k)
  BY <1>14, <1>16, <1>17 DEF SizeOf
<1>20. Chained(r, e) /\ Coded(r, e, v)
  <2>1. ASSUME NEW U \in Tables, NEW k \in 0 .. Lines(r, U) - 1
        PROVE  SameLine(s, r, e, U, k)
    <3>1. Col(k) # 0 => e[U][k - 1] \in DOMAIN s.blocks[BlockOf(s, U, k)].entries
      BY <1>1, <1>19 DEF Chained
    <3> QED
      BY <1>19, <3>1 DEF SameLine, EntryOf
  <2> QED
    BY <1>1, <1>14, <2>1, SameLines
<1>21. Roomy(r, e)
  <2> SUFFICES ASSUME NEW U \in Tables, NEW k \in 0 .. Lines(r, U) - 1
               PROVE
        /\ SizeOf(r, U, k) # 0
        /\ Row(k) = Row(Lines(r, U)) =>
             \/ SizeOf(r, U, k) = Full(U)
             \/ /\ Col(Lines(r, U)) = BLOCK_SIZE - 1
                /\ SizeOf(r, U, k) >= e[U][Lines(r, U) - 1] + absolute(U)
        /\ Col(k) = BLOCK_SIZE - 1 => SizeOf(r, U, k) >= e[U][k - 1] + absolute(U)
    BY DEF Roomy
  <2>1. k \in 0 .. Lines(s, U) - 1 /\ SizeOf(r, U, k) = SizeOf(s, U, k)
    BY <1>19
  <2>2. CASE U # T
    BY <1>1, <1>12, <2>1, <2>2 DEF Roomy
  <2>3. CASE U = T
    <3>1. /\ SizeOf(r, U, k) # 0
          /\ Col(k) = BLOCK_SIZE - 1 => SizeOf(r, U, k) >= e[U][k - 1] + absolute(U)
      BY <1>1, <2>1 DEF Roomy
    <3>2. ASSUME Row(k) = Row(m)
          PROVE  \/ SizeOf(r, U, k) = Full(U)
                 \/ /\ Col(m) = BLOCK_SIZE - 1
                    /\ SizeOf(r, U, k) >= e[U][m - 1] + absolute(U)
      <4>1. SizeOf(s, T, k) = SizeOf(s, T, m)
        BY <3>2 DEF SizeOf, BlockOf
      <4>2. m \in 0 .. Lines(s, T) - 1
        BY <1>4 DEF n
      <4>3. CASE Col(m) = BLOCK_SIZE - 1
        <5>1. SizeOf(s, T, m) >= e[T][m - 1] + absolute(T)
          BY <1>1, <1>3, <4>2, <4>3 DEF Roomy
        <5> QED
          BY <2>1, <2>3, <4>1, <4>3, <5>1
      <4>4. CASE Col(m) # BLOCK_SIZE - 1
        <5>1. Col(m + 1) = Col(m) + 1
          BY <1>4, <4>4, NextRow
        <5>2. Col(n) # 0
          BY <1>4, <1>7, <5>1
        <5> QED
          BY <1>2, <2>1, <2>3, <4>1, <5>2
      <4> QED
        BY <4>3, <4>4
    <3> QED
      BY <1>13, <2>3, <3>1, <3>2
  <2> QED
    BY <2>2, <2>3
<1>22. Pointing(r, e)
  <2>1. ASSUME Col(m) # 0
        PROVE  [block |-> B, offset |-> e[T][n - 2]] = PointerTo(r, e, T, m - 1)
    <3>1. /\ m - 1 \in 0 .. m - 1 /\ Row(m - 1) = Row(m)
      BY <1>3, <1>11, <1>12, <1>13, <2>1, NextLine
    <3>2. BlockOf(r, T, m - 1) = B
      BY <1>3, <1>13, <1>19, <3>1 DEF BlockOf, B
    <3>3. m - 1 = n - 2
      BY <1>3 DEF m
    <3> QED
      BY <3>2, <3>3 DEF PointerTo
  <2> QED
    BY <1>12, <1>13, <1>16, <1>17, <2>1 DEF Pointing
<1>23. Shape(r, e)
  BY <1>11, <1>12, <1>18, <1>20, <1>21 DEF Shape
<1> QED
  BY <1>11, <1>12, <1>19, <1>20, <1>22, <1>23 DEF Shortened, T, r

-----------------------------------------------------------------------------
(* What the lines are, in their order.                                     *)
ValueOf(s, v, i) == v[TableOf(s, i)][LineInTable(s, i)]

(* A line is in one table, the one before it just before unless it is in   *)
(* the other.                                                              *)
LEMMA LineIsIn ==
  ASSUME NEW s \in Storage, Counted(s), NEW i \in 0 .. s.nb_lines_ - 1
  PROVE  LET T == TableOf(s, i)
             k == LineInTable(s, i)
         IN  /\ T \in Tables /\ k \in 0 .. Lines(s, T) - 1 /\ k \in Nat
             /\ k # 0 => /\ i - 1 \in 0 .. s.nb_lines_ - 1 /\ TableOf(s, i - 1) = T
                         /\ LineInTable(s, i - 1) = k - 1
<1>1. /\ s.nb_lines_ \in Nat /\ s.first_long_line_ \in Nat /\ s.nb_lines_ < Unset
      /\ s.first_long_line_ = Unset \/ s.first_long_line_ < s.nb_lines_
      /\ Unset \in Nat /\ i \in Nat /\ i < s.nb_lines_
  BY DEF Storage, Counted, Unset
<1>2. CASE i < s.first_long_line_
  BY <1>1, <1>2 DEF TableOf, LineInTable, Lines, Tables
<1>3. CASE ~(i < s.first_long_line_)
  BY <1>1, <1>3 DEF TableOf, LineInTable, Lines, Tables
<1> QED
  BY <1>2, <1>3

(* What is stored for a line is what its entry codes.                      *)
LEMMA StoredIs ==
  ASSUME Sizes, NEW s, NEW e, NEW v, Shape(s, e), Coded(s, e, v),
         NEW i \in 0 .. s.nb_lines_ - 1
  PROVE  Stored(s, i) = ValueOf(s, v, i) /\ ValueOf(s, v, i) \in Nat
<1>1. s \in Storage /\ Counted(s) /\ Indexed(s) /\ Chained(s, e)
  BY DEF Shape
<1> DEFINE T == TableOf(s, i)
           k == LineInTable(s, i)
<1>2. T \in Tables /\ k \in 0 .. Lines(s, T) - 1
  BY <1>1, LineIsIn
<1> HIDE DEF T, k
<1>3. Walk(s, T, k) = [position |-> v[T][k], ptr |-> PointerTo(s, e, T, k)]
  BY <1>1, <1>2, WalkIsRight
<1>4. v[T][k] \in Nat
  BY <1>2 DEF Coded
<1> QED
  BY <1>3, <1>4 DEF Stored, ValueOf, T, k

(* The slots of the caches that are used hold lines as they are.           *)
Cached(s, e, v, n) ==
  \A j \in {1, 2} :
    LET c == s.last_read_[j]
    IN  c.index # Unset =>
          /\ c.index \in 0 .. n - 1
          /\ c.position = ValueOf(s, v, c.index)
          /\ c.ptr = PointerTo(s, e, TableOf(s, c.index), LineInTable(s, c.index))
Threads(s) == Len(s.thread_ids_) <= 2

(* r is s but for its caches.                                              *)
SameBlocks(s, r) ==
  /\ r \in Storage
  /\ r.blocks = s.blocks /\ r.index32 = s.index32 /\ r.index64 = s.index64
  /\ r.nb_lines_ = s.nb_lines_ /\ r.first_long_line_ = s.first_long_line_
  /\ r.block_pointer_ = s.block_pointer_
  /\ r.previous_block_pointer_ = s.previous_block_pointer_
SameButReads(s, r) ==
  /\ SameBlocks(s, r) /\ Threads(r)
  /\ r.current_pos_ = s.current_pos_ /\ r.dead = s.dead

(* A thread is given a slot, its own or the first one, and no cache        *)
(* changes.                                                                *)
LEMMA RegisteredIs ==
  ASSUME NEW s \in Storage, Threads(s), NEW t \in Readers \cup {Worker}
  PROVE  /\ SameButReads(s, Registered(s, t))
         /\ Registered(s, t).last_read_ = s.last_read_
         /\ threadIndex(Registered(s, t), t) \in {1, 2}
<1> DEFINE r == Registered(s, t)
<1>1. s.thread_ids_ \in Seq(Readers \cup {Worker}) /\ Len(s.thread_ids_) \in Nat
  BY DEF Storage
<1>2. SameButReads(s, r) /\ r.last_read_ = s.last_read_
  <2>1. CASE t \in ToSet(s.thread_ids_) \/ Len(s.thread_ids_) = 2
    BY <2>1 DEF Registered, SameButReads, SameBlocks
  <2>2. CASE ~(t \in ToSet(s.thread_ids_) \/ Len(s.thread_ids_) = 2)
    <3> DEFINE ids == Append(s.thread_ids_, t)
    <3>1. ids \in Seq(Readers \cup {Worker}) /\ Len(ids) <= 2
      <4> DEFINE A == Readers \cup {Worker}
                 f == s.thread_ids_
      <4>1. t \in A /\ f \in Seq(A) /\ Len(f) \in Nat /\ Len(f) < 2
        <5>1. t \in A
          OBVIOUS
        <5>2. f \in Seq(A) /\ Len(f) \in Nat
          BY <1>1
        <5>3. Len(f) <= 2 /\ Len(f) # 2
          BY <2>2 DEF Threads
        <5> DEFINE l == Len(f)
        <5>4. l \in Nat /\ l <= 2 /\ l # 2
          BY <5>2, <5>3
        <5>5. l < 2
          <6> HIDE DEF l
          <6> QED
            BY <5>4
        <5> HIDE DEF A, f
        <5> QED
          BY <5>1, <5>2, <5>5
      <4> HIDE DEF A, f
      <4>2. Append(f, t) \in Seq(A) /\ Len(Append(f, t)) = Len(f) + 1
        BY <4>1
      <4> QED
        BY <4>1, <4>2 DEF A, f
    <3>2. r = [s EXCEPT !.thread_ids_ = ids]
      BY <2>2 DEF Registered
    <3> HIDE DEF ids, r
    <3> QED
      BY <3>1, <3>2 DEF SameButReads, SameBlocks, Storage, Threads
  <2> QED
    BY <2>1, <2>2
<1>3. threadIndex(r, t) \in {1, 2}
  <2> HIDE DEF r
  <2>1. r.thread_ids_ \in Seq(Readers \cup {Worker}) /\ Len(r.thread_ids_) <= 2
    BY <1>2 DEF SameButReads, SameBlocks, Storage, Threads
  <2>2. DOMAIN r.thread_ids_ \subseteq {1, 2}
    BY <2>1
  <2> QED
    BY <2>2 DEF threadIndex
<1> QED
  BY <1>2, <1>3

(* at(): what is read of a line, its cache c being what it is.             *)
ReadAfter(s, c, index) ==
  IF index = c.index + 1 /\ LineInTable(s, index) % BLOCK_SIZE # 0
    THEN next_pos(s, c)
    ELSE Walk(s, TableOf(s, index), LineInTable(s, index))

(* An entry is read or garbage is.                                         *)
LEMMA NextPosIs ==
  ASSUME NEW s \in Storage, NEW c \in Cache
  PROVE  next_pos(s, c) \in [position : Int, ptr : Pointer]
<1>1. c.position \in Int /\ c.ptr \in Pointer
  BY DEF Cache
<1> DEFINE p == c.ptr
<1> HIDE DEF p
<1>2. CASE /\ c.position # Garbage
           /\ p.block \in DOMAIN s.blocks
           /\ p.offset \in DOMAIN s.blocks[p.block].entries
  <2> DEFINE entry == s.blocks[p.block].entries[p.offset]
  <2>1. entry \in Entry
    <3>1. s.blocks \in Seq(Block)
      BY DEF Storage
    <3>2. s.blocks[p.block] \in Block
      BY <1>2, <3>1
    <3>3. s.blocks[p.block].entries \in Entries
      BY <3>2, SMTT(30) DEF Block
    <3> QED
      BY <1>2, <3>3, EntriesAre
  <2>2. next_pos(s, c) =
          [position |-> IF entry.relative THEN c.position + entry.value ELSE entry.value,
           ptr |-> [p EXCEPT !.offset = @ + entry.width]]
    BY <1>2 DEF next_pos, p
  <2> HIDE DEF entry
  <2>3. entry.value \in Int /\ entry.width \in Nat
    BY <2>1 DEF Entry
  <2>4. [p EXCEPT !.offset = @ + entry.width] \in Pointer
    BY <1>1, <2>3 DEF Pointer, p
  <2> QED
    BY <1>1, <2>2, <2>3, <2>4
<1>3. CASE ~(/\ c.position # Garbage
             /\ p.block \in DOMAIN s.blocks
             /\ p.offset \in DOMAIN s.blocks[p.block].entries)
  <2>1. next_pos(s, c) = [position |-> Garbage, ptr |-> nullptr]
    BY <1>3 DEF next_pos, p
  <2> QED
    BY <2>1 DEF Garbage, nullptr, Pointer
<1> QED
  BY <1>2, <1>3

(* A line is read, from a cache or from the start of its block, or garbage *)
(* is.                                                                     *)
LEMMA ReadAfterIs ==
  ASSUME Sizes, NEW s, NEW e, NEW v, Shape(s, e), Coded(s, e, v), NEW c \in Cache,
         NEW i \in 0 .. s.nb_lines_ - 1
  PROVE  ReadAfter(s, c, i) \in [position : Int, ptr : Pointer]
<1>1. s \in Storage /\ Counted(s) /\ Indexed(s) /\ Chained(s, e)
  BY DEF Shape
<1> DEFINE T == TableOf(s, i)
           k == LineInTable(s, i)
<1>2. T \in Tables /\ k \in 0 .. Lines(s, T) - 1
  BY <1>1, LineIsIn
<1> HIDE DEF T, k
<1>3. Walk(s, T, k) = [position |-> v[T][k], ptr |-> PointerTo(s, e, T, k)]
  BY <1>1, <1>2, WalkIsRight
<1>4. v[T][k] \in Nat /\ e[T][k] \in Nat /\ BlockOf(s, T, k) \in Nat
  BY <1>1, <1>2, BlockOfLine DEF Coded, Chained
<1>5. Walk(s, T, k) \in [position : Int, ptr : Pointer]
  BY <1>3, <1>4 DEF PointerTo, Pointer
<1>6. next_pos(s, c) \in [position : Int, ptr : Pointer]
  BY <1>1, NextPosIs
<1> QED
  BY <1>5, <1>6 DEF ReadAfter, T, k

(* A read from its cache, where it is right, comes to the line as well.    *)
LEMMA ReadAfterIsRight ==
  ASSUME Sizes, NEW s, NEW e, NEW v, Shape(s, e), Coded(s, e, v), NEW c \in Cache,
         NEW i \in 0 .. s.nb_lines_ - 1,
         c.index # Unset =>
           /\ c.index \in 0 .. s.nb_lines_ - 1
           /\ c.position = ValueOf(s, v, c.index)
           /\ c.ptr = PointerTo(s, e, TableOf(s, c.index), LineInTable(s, c.index))
  PROVE  ReadAfter(s, c, i) =
           [position |-> ValueOf(s, v, i),
            ptr |-> PointerTo(s, e, TableOf(s, i), LineInTable(s, i))]
<1>1. s \in Storage /\ Counted(s) /\ Indexed(s) /\ Chained(s, e)
  BY DEF Shape
<1> DEFINE T == TableOf(s, i)
           k == LineInTable(s, i)
<1>2. /\ T \in Tables /\ k \in 0 .. Lines(s, T) - 1 /\ k \in Nat
      /\ k # 0 => /\ i - 1 \in 0 .. s.nb_lines_ - 1 /\ TableOf(s, i - 1) = T
                  /\ LineInTable(s, i - 1) = k - 1
  BY <1>1, LineIsIn
<1> HIDE DEF T, k
<1>3. Walk(s, T, k) = [position |-> v[T][k], ptr |-> PointerTo(s, e, T, k)]
  BY <1>1, <1>2, WalkIsRight
<1>4. ASSUME i = c.index + 1, Col(k) # 0
      PROVE  next_pos(s, c) = [position |-> v[T][k], ptr |-> PointerTo(s, e, T, k)]
  <2>1. k # 0
    BY <1>4, FirstRow
  <2>2. c.index # Unset
    BY <1>1, <1>4 DEF Counted, Unset, Storage
  <2>3. c.index = i - 1
    BY <1>4, <2>2
  <2>4. c.position = v[T][k - 1] /\ c.ptr = PointerTo(s, e, T, k - 1)
    BY <1>2, <2>1, <2>2, <2>3 DEF ValueOf
  <2>5. k - 1 \in Nat /\ k - 1 \in 0 .. Lines(s, T) - 1 /\ k - 1 + 1 = k
    BY <1>1, <1>2, <2>1, LineCounts
  <2>6. Row(k - 1) = Row(k)
    BY <1>4, <2>5, NextRow
  <2> DEFINE b == BlockOf(s, T, k)
             f == e[T][k - 1]
             p == v[T][k - 1]
  <2>7. BlockOf(s, T, k - 1) = b /\ b \in DOMAIN s.blocks
    BY <1>1, <1>2, <2>6, BlockOfLine DEF BlockOf
  <2>8. /\ p \in Nat /\ f \in Nat /\ f \in DOMAIN s.blocks[b].entries
        /\ e[T][k] = f + s.blocks[b].entries[f].width
        /\ v[T][k] = IF s.blocks[b].entries[f].relative
                       THEN p + s.blocks[b].entries[f].value
                       ELSE s.blocks[b].entries[f].value
    BY <1>1, <1>2, <1>4, <2>5 DEF Chained, Coded, EntryOf
  <2>9. c = [index |-> c.index, position |-> p, ptr |-> [block |-> b, offset |-> f]]
    BY <2>4, <2>7 DEF Cache, PointerTo
  <2>10. PointerTo(s, e, T, k) = [block |-> b, offset |-> e[T][k]]
    BY DEF PointerTo
  <2>11. c.position = p /\ c.ptr = [block |-> b, offset |-> f]
    BY <2>4, <2>7 DEF PointerTo
  <2> HIDE DEF b, f, p
  <2>12. next_pos(s, c) =
           [position |-> IF s.blocks[b].entries[f].relative
                           THEN p + s.blocks[b].entries[f].value
                           ELSE s.blocks[b].entries[f].value,
            ptr |-> [block |-> b, offset |-> f + s.blocks[b].entries[f].width]]
    BY <2>7, <2>8, <2>11 DEF next_pos, Garbage
  <2> QED
    BY <2>8, <2>10, <2>12
<1> QED
  BY <1>3, <1>4 DEF ReadAfter, ValueOf, T, k, Col

(* What depends on the blocks only.                                        *)
LooksLike(s, r, e, v) ==
         /\ Shape(r, e) /\ Coded(r, e, v)
         /\ Pointing(s, e) => Pointing(r, e)
         /\ Poppable(s, e) => Poppable(r, e)
         /\ Current(s, v) /\ r.current_pos_ = s.current_pos_ => Current(r, v)
         /\ Growing(r) = Growing(s)
         /\ \A U \in Tables : Lines(r, U) = Lines(s, U) /\ IndexOf(r, U) = IndexOf(s, U)
         /\ \A i : /\ ValueOf(r, v, i) = ValueOf(s, v, i)
                   /\ TableOf(r, i) = TableOf(s, i) /\ LineInTable(r, i) = LineInTable(s, i)
         /\ \A U \in Tables : \A k : BlockOf(r, U, k) = BlockOf(s, U, k)
         /\ \A i : PointerTo(r, e, TableOf(r, i), LineInTable(r, i)) =
                     PointerTo(s, e, TableOf(s, i), LineInTable(s, i))

(* Storages that differ in their caches code the same lines.               *)
LEMMA SameBlocksIs ==
  ASSUME Sizes, NEW s, NEW r, NEW e, NEW v, Shape(s, e), Coded(s, e, v), SameBlocks(s, r)
  PROVE  LooksLike(s, r, e, v)
<1>1. /\ s \in Storage /\ Counted(s) /\ Indexed(s) /\ Chained(s, e) /\ Roomy(s, e)
      /\ Owned(s) /\ Fitting(s)
  BY DEF Shape
<1>2. /\ r \in Storage
      /\ r.blocks = s.blocks /\ r.index32 = s.index32 /\ r.index64 = s.index64
      /\ r.nb_lines_ = s.nb_lines_
      /\ r.first_long_line_ = s.first_long_line_ /\ r.block_pointer_ = s.block_pointer_
      /\ r.previous_block_pointer_ = s.previous_block_pointer_
  BY DEF SameBlocks
<1>3. /\ \A U : IndexOf(r, U) = IndexOf(s, U)
      /\ \A U : Lines(r, U) = Lines(s, U)
      /\ Growing(r) = Growing(s)
  BY <1>2 DEF IndexOf, Lines, Growing
<1>4. \A U, k : BlockOf(r, U, k) = BlockOf(s, U, k)
  BY <1>3 DEF BlockOf
<1>5. \A U, k : SizeOf(r, U, k) = SizeOf(s, U, k)
  BY <1>2, <1>4 DEF SizeOf
<1>6. \A U, k : EntryOf(r, e, U, k) = EntryOf(s, e, U, k)
  BY <1>2, <1>4 DEF EntryOf
<1>7. \A U, k : PointerTo(r, e, U, k) = PointerTo(s, e, U, k)
  BY <1>4 DEF PointerTo
<1>8. Chained(r, e) /\ Coded(r, e, v)
  BY <1>1, <1>2, <1>3, <1>4, <1>6 DEF Chained, Coded
<1>9. Indexed(r) /\ Owned(r) /\ Fitting(r)
  BY <1>1, <1>2, <1>3 DEF Indexed, Owned, Fitting
<1>10. Roomy(r, e) /\ Counted(r)
  BY <1>1, <1>2, <1>3, <1>5 DEF Roomy, Counted
<1>11. Shape(r, e)
  BY <1>2, <1>8, <1>9, <1>10 DEF Shape
<1>12. Pointing(s, e) => Pointing(r, e)
  BY <1>2, <1>3, <1>7 DEF Pointing
<1>13. Poppable(s, e) => Poppable(r, e)
  BY <1>2, <1>3, <1>4, <1>5 DEF Poppable
<1>14. Current(s, v) /\ r.current_pos_ = s.current_pos_ => Current(r, v)
  BY <1>2, <1>3 DEF Current
<1>15. \A i : TableOf(r, i) = TableOf(s, i) /\ LineInTable(r, i) = LineInTable(s, i)
  BY <1>2 DEF TableOf, LineInTable
<1>16. \A i : ValueOf(r, v, i) = ValueOf(s, v, i)
  BY <1>15 DEF ValueOf
<1> QED
  BY <1>3, <1>4, <1>7, <1>8, <1>11, <1>12, <1>13, <1>14, <1>15, <1>16 DEF LooksLike

(* What at() returns is the line, where the caches are right, and they     *)
(* stay right.                                                             *)
LEMMA AtIsRight ==
  ASSUME Sizes, NEW s, NEW e, NEW v, Shape(s, e), Coded(s, e, v), Threads(s),
         NEW t \in Readers \cup {Worker}, NEW index \in 0 .. s.nb_lines_ - 1
  PROVE  LET r == at(s, t, index)
         IN  /\ SameButReads(s, r)
             /\ \A n \in Nat : n <= s.nb_lines_ /\ index < n /\ Cached(s, e, v, n) =>
                  /\ Cached(r, e, v, n)
                  /\ LastReadBy(r, t) = ValueOf(s, v, index)
<1> DEFINE x == Registered(s, t)
           i == threadIndex(x, t)
           c == x.last_read_[i]
           read == ReadAfter(x, c, index)
           new == [index |-> index, position |-> read.position, ptr |-> read.ptr]
           reads == [x.last_read_ EXCEPT ![i] = new]
           r == at(s, t, index)
<1>1. s \in Storage /\ Counted(s) /\ s.nb_lines_ \in Nat /\ s.nb_lines_ < Unset
  BY DEF Shape, Storage, Counted
<1>2. SameButReads(s, x) /\ x.last_read_ = s.last_read_ /\ i \in {1, 2}
  BY <1>1, RegisteredIs
<1>3. r = [x EXCEPT !.last_read_ = reads]
  BY DEF at, ReadAfter
<1> HIDE DEF x, i, read, r
<1>4. /\ Shape(x, e) /\ Coded(x, e, v)
      /\ \A l : /\ ValueOf(x, v, l) = ValueOf(s, v, l)
                /\ PointerTo(x, e, TableOf(x, l), LineInTable(x, l)) =
                     PointerTo(s, e, TableOf(s, l), LineInTable(s, l))
  <2>1. LooksLike(s, x, e, v)
    BY <1>2, SameBlocksIs DEF SameButReads
  <2> QED
    BY <2>1 DEF LooksLike
<1>5. x \in Storage /\ x.nb_lines_ = s.nb_lines_ /\ Threads(x)
  BY <1>2 DEF SameButReads, SameBlocks
<1>6. x.last_read_ \in [{1, 2} -> Cache] /\ c \in Cache
  BY <1>2, <1>5 DEF Storage
<1>7. read \in [position : Int, ptr : Pointer]
  <2> HIDE DEF c
  <2> QED
    BY <1>4, <1>5, <1>6, ReadAfterIs DEF read
<1>8. new \in Cache /\ new.index = index /\ new.position = read.position
      /\ new.ptr = read.ptr
  BY <1>1, <1>7 DEF Cache
<1> HIDE DEF new
<1>9. reads \in [{1, 2} -> Cache] /\ reads[i] = new
      /\ \A j \in {1, 2} : j # i => reads[j] = s.last_read_[j]
  BY <1>2, <1>6, <1>8
<1> HIDE DEF reads
<1>10. /\ r \in Storage /\ r.last_read_ = reads
       /\ r.blocks = x.blocks /\ r.index32 = x.index32 /\ r.index64 = x.index64
       /\ r.nb_lines_ = x.nb_lines_ /\ r.current_pos_ = x.current_pos_
       /\ r.first_long_line_ = x.first_long_line_ /\ r.block_pointer_ = x.block_pointer_
       /\ r.previous_block_pointer_ = x.previous_block_pointer_ /\ r.dead = x.dead
       /\ r.thread_ids_ = x.thread_ids_
  BY <1>3, <1>5, <1>9 DEF Storage
<1>11. SameButReads(s, r)
  BY <1>2, <1>10 DEF SameButReads, SameBlocks, Threads
<1>12. /\ \A l : /\ ValueOf(r, v, l) = ValueOf(s, v, l)
                 /\ PointerTo(r, e, TableOf(r, l), LineInTable(r, l)) =
                      PointerTo(s, e, TableOf(s, l), LineInTable(s, l))
  <2>1. LooksLike(s, r, e, v)
    BY <1>11, SameBlocksIs DEF SameButReads
  <2> QED
    BY <2>1 DEF LooksLike
<1>13. threadIndex(r, t) = i
  BY <1>10 DEF threadIndex, i
<1>14. ASSUME NEW n \in Nat, n <= s.nb_lines_, index < n, Cached(s, e, v, n)
       PROVE  Cached(r, e, v, n) /\ LastReadBy(r, t) = ValueOf(s, v, index)
  <2>1. c.index # Unset =>
          /\ c.index \in 0 .. x.nb_lines_ - 1
          /\ c.position = ValueOf(x, v, c.index)
          /\ c.ptr = PointerTo(x, e, TableOf(x, c.index), LineInTable(x, c.index))
    <3>1. c = s.last_read_[i]
      BY <1>2
    <3>2. c.index # Unset =>
            /\ c.index \in 0 .. n - 1
            /\ c.position = ValueOf(s, v, c.index)
            /\ c.ptr = PointerTo(s, e, TableOf(s, c.index), LineInTable(s, c.index))
      BY <1>2, <1>14, <3>1 DEF Cached
    <3>3. c.index # Unset => c.index \in 0 .. x.nb_lines_ - 1
      BY <1>1, <1>5, <1>14, <3>2
    <3> QED
      BY <1>4, <3>2, <3>3
  <2>2. read = [position |-> ValueOf(s, v, index),
                ptr |-> PointerTo(s, e, TableOf(s, index), LineInTable(s, index))]
    <3>1. ReadAfter(x, c, index) =
            [position |-> ValueOf(x, v, index),
             ptr |-> PointerTo(x, e, TableOf(x, index), LineInTable(x, index))]
      <4> HIDE DEF c
      <4> QED
        BY <1>4, <1>5, <1>6, <2>1, ReadAfterIsRight
    <3> QED
      BY <1>4, <3>1 DEF read
  <2>3. r.last_read_[i] = new /\ new.position = ValueOf(s, v, index)
        /\ new.ptr = PointerTo(s, e, TableOf(s, index), LineInTable(s, index))
    BY <1>8, <1>9, <1>10, <2>2
  <2>4. LastReadBy(r, t) = ValueOf(s, v, index)
    BY <1>13, <2>3 DEF LastReadBy
  <2>5. ASSUME NEW j \in {1, 2}, r.last_read_[j].index # Unset
        PROVE  /\ r.last_read_[j].index \in 0 .. n - 1
               /\ r.last_read_[j].position = ValueOf(r, v, r.last_read_[j].index)
               /\ r.last_read_[j].ptr =
                    PointerTo(r, e, TableOf(r, r.last_read_[j].index),
                              LineInTable(r, r.last_read_[j].index))
    <3>1. CASE j = i
      <4>1. r.last_read_[j] = new /\ index \in 0 .. n - 1
        BY <1>1, <1>14, <2>3, <3>1
      <4> QED
        BY <1>8, <1>12, <2>3, <4>1
    <3>2. CASE j # i
      <4>1. r.last_read_[j] = s.last_read_[j]
        BY <1>9, <1>10, <3>2
      <4> QED
        BY <1>12, <1>14, <2>5, <4>1 DEF Cached
    <3> QED
      BY <3>1, <3>2
  <2>6. Cached(r, e, v, n)
    BY <2>5 DEF Cached
  <2> QED
    BY <2>4, <2>6
<1> QED
  BY <1>11, <1>14 DEF r

-----------------------------------------------------------------------------
(* Lines past UINT32_MAX are all that the second table holds.              *)
Long(s, v) == \A k \in 0 .. Lines(s, 64) - 1 : v[64][k] > UINT32_MAX

Good(s, e, v) ==
  /\ Shape(s, e) /\ Coded(s, e, v) /\ Pointing(s, e) /\ Current(s, v)
  /\ Long(s, v) /\ Threads(s)

(* The first n lines are the same in both.                                 *)
SameValues(s, v, r, w, n) == \A i \in 0 .. n - 1 : ValueOf(r, w, i) = ValueOf(s, v, i)

(* The last line is the last of the table that grows.                      *)
LEMMA LastLine ==
  ASSUME NEW s \in Storage, Counted(s), s.nb_lines_ # 0
  PROVE  LET i == s.nb_lines_ - 1
         IN  /\ i \in 0 .. s.nb_lines_ - 1
             /\ TableOf(s, i) = Growing(s)
             /\ LineInTable(s, i) = Lines(s, Growing(s)) - 1
<1>1. /\ s.nb_lines_ \in Nat /\ s.first_long_line_ \in Nat /\ s.nb_lines_ < Unset
      /\ s.first_long_line_ = Unset \/ s.first_long_line_ < s.nb_lines_
      /\ Unset \in Nat
  BY DEF Storage, Counted, Unset
<1>2. CASE s.first_long_line_ = Unset
  BY <1>1, <1>2 DEF TableOf, LineInTable, Lines, Growing
<1>3. CASE s.first_long_line_ # Unset
  BY <1>1, <1>3 DEF TableOf, LineInTable, Lines, Growing
<1> QED
  BY <1>2, <1>3

(* The position of the last line is that of the vector's last element.     *)
LEMMA CurrentIsLast ==
  ASSUME NEW s, NEW e, NEW v, Good(s, e, v), s.nb_lines_ # 0
  PROVE  s.current_pos_ = ValueOf(s, v, s.nb_lines_ - 1)
<1>1. s \in Storage /\ Counted(s) /\ Current(s, v)
  BY DEF Good, Shape
<1> QED
  BY <1>1, LastLine DEF Current, ValueOf

(* Positions that follow the last line's go to the table that grows.       *)
LEMMA InTurnAfterLast ==
  ASSUME Sizes, NEW s, NEW e, NEW v, Good(s, e, v), NEW pos \in Nat,
         s.nb_lines_ # 0 => pos > ValueOf(s, v, s.nb_lines_ - 1)
  PROVE  InTurn(s, pos)
<1> SUFFICES ASSUME s.first_long_line_ # Unset PROVE pos > UINT32_MAX
  BY DEF InTurn
<1>1. s \in Storage /\ Counted(s) /\ Long(s, v) /\ Shape(s, e) /\ Coded(s, e, v)
  BY DEF Good, Shape
<1>2. /\ s.nb_lines_ # 0 /\ s.nb_lines_ - s.first_long_line_ \in Nat \ {0}
      /\ s.nb_lines_ - 1 \in 0 .. s.nb_lines_ - 1
  BY <1>1 DEF Storage, Counted
<1>3. Growing(s) = 64 /\ Lines(s, 64) = s.nb_lines_ - s.first_long_line_
  BY DEF Growing, Lines
<1>4. ValueOf(s, v, s.nb_lines_ - 1) = v[64][Lines(s, 64) - 1]
  BY <1>1, <1>2, <1>3, LastLine DEF ValueOf
<1>5. v[64][Lines(s, 64) - 1] > UINT32_MAX
  BY <1>1, <1>2, <1>3 DEF Long
<1>6. ValueOf(s, v, s.nb_lines_ - 1) \in Nat
  BY <1>1, <1>2, StoredIs
<1> QED
  BY <1>2, <1>4, <1>5, <1>6 DEF Sizes

(* append() keeps it, and adds the line.                                   *)
LEMMA AppendKeeps ==
  ASSUME Sizes, NEW s, NEW e, NEW v, Good(s, e, v), s.nb_lines_ + 1 < Unset, ~s.dead,
         NEW pos \in Nat, s.nb_lines_ # 0 => pos > ValueOf(s, v, s.nb_lines_ - 1)
  PROVE  LET r == append(s, pos)
             e2 == EndsWith(s, e, pos)
             v2 == ValuesWith(s, v, pos)
         IN  /\ Good(r, e2, v2) /\ r.nb_lines_ = s.nb_lines_ + 1 /\ ~r.dead
             /\ SameValues(s, v, r, v2, s.nb_lines_)
             /\ ValueOf(r, v2, s.nb_lines_) = pos
             /\ ~FirstBig(s, pos) => Poppable(r, e2)
             /\ \A n \in Nat : n <= s.nb_lines_ /\ ~ReallocMoves /\ Cached(s, e, v, n) =>
                  Cached(r, e2, v2, n)
<1> DEFINE T == TableFor(pos)
           m == Lines(s, T)
           r == append(s, pos)
           e2 == EndsWith(s, e, pos)
           v2 == ValuesWith(s, v, pos)
<1>1. /\ Shape(s, e) /\ Coded(s, e, v) /\ Pointing(s, e) /\ Current(s, v)
      /\ Long(s, v) /\ Threads(s) /\ s \in Storage /\ Counted(s)
  BY DEF Good, Shape
<1>2. InTurn(s, pos)
  BY InTurnAfterLast
<1>3. Appended(s, r, e, v, pos)
  BY <1>1, <1>2, AppendIsRight
<1> HIDE DEF r
<1>4. /\ Shape(r, e2) /\ Coded(r, e2, v2) /\ Pointing(r, e2) /\ Current(r, v2)
      /\ ~FirstBig(s, pos) => Poppable(r, e2)
      /\ r.nb_lines_ = s.nb_lines_ + 1
      /\ r.first_long_line_ = IF FirstBig(s, pos) THEN s.nb_lines_ ELSE s.first_long_line_
      /\ ~ReallocMoves => \A U \in Tables : \A k \in 0 .. Lines(s, U) - 1 :
                            BlockOf(r, U, k) = BlockOf(s, U, k)
      /\ r.last_read_ = s.last_read_ /\ r.dead = s.dead /\ r.thread_ids_ = s.thread_ids_
  BY <1>3 DEF Appended
<1>5. r \in Storage /\ Counted(r)
  BY <1>4 DEF Shape
<1>6. /\ T \in Tables /\ Growing(r) = T
      /\ \A U \in Tables : Lines(r, U) = IF U = T THEN Lines(s, U) + 1 ELSE Lines(s, U)
      /\ FirstBig(s, pos) => T = 64 /\ Lines(s, 64) = 0
  BY <1>1, <1>2, <1>4, <1>5, CountsGrow
<1> HIDE DEF T
<1>7. m \in Nat
  BY <1>1, <1>6, LineCounts
<1>8. e2 = Added(e, T, m, EndFor(s, e, pos)) /\ v2 = Added(v, T, m, pos)
  BY DEF EndsWith, ValuesWith, T
<1>9. /\ v2[T][m] = pos
      /\ \A U \in Tables : \A k \in 0 .. Lines(s, U) - 1 :
            e2[U][k] = e[U][k] /\ v2[U][k] = v[U][k]
  BY <1>6, <1>7, <1>8, AddedIs
<1> HIDE DEF e2, v2
<1>10. /\ s.nb_lines_ \in Nat /\ s.first_long_line_ \in Nat /\ s.nb_lines_ < Unset
       /\ s.first_long_line_ = Unset \/ s.first_long_line_ < s.nb_lines_
       /\ Unset \in Nat
  BY <1>1 DEF Storage, Counted, Unset
<1>11. ASSUME NEW i \in 0 .. s.nb_lines_ - 1
       PROVE  /\ TableOf(r, i) = TableOf(s, i) /\ LineInTable(r, i) = LineInTable(s, i)
              /\ TableOf(s, i) \in Tables
              /\ LineInTable(s, i) \in 0 .. Lines(s, TableOf(s, i)) - 1
              /\ ValueOf(r, v2, i) = ValueOf(s, v, i)
  <2>1. TableOf(r, i) = TableOf(s, i)
    BY <1>4, <1>10 DEF TableOf, FirstBig
  <2>2. LineInTable(r, i) = LineInTable(s, i)
    <3>1. FirstBig(s, pos) => TableOf(s, i) = 32
      BY <1>10 DEF TableOf, FirstBig
    <3> QED
      BY <1>4, <2>1, <3>1 DEF LineInTable
  <2>3. TableOf(s, i) \in Tables /\ LineInTable(s, i) \in 0 .. Lines(s, TableOf(s, i)) - 1
    BY <1>1, LineIsIn
  <2> QED
    BY <1>9, <2>1, <2>2, <2>3 DEF ValueOf
<1>12. ValueOf(r, v2, s.nb_lines_) = pos
  <2>1. r.nb_lines_ # 0 /\ r.nb_lines_ - 1 = s.nb_lines_
    BY <1>4, <1>10
  <2>2. TableOf(r, s.nb_lines_) = T /\ LineInTable(r, s.nb_lines_) = Lines(r, T) - 1
    BY <1>5, <1>6, <2>1, LastLine
  <2>3. Lines(r, T) - 1 = m
    BY <1>6, <1>7
  <2> QED
    BY <1>9, <2>2, <2>3 DEF ValueOf
<1>13. Long(r, v2)
  <2> SUFFICES ASSUME NEW k \in 0 .. Lines(r, 64) - 1 PROVE v2[64][k] > UINT32_MAX
    BY DEF Long
  <2>1. 64 \in Tables /\ Lines(s, 64) \in Nat
    BY <1>1, LineCounts DEF Tables
  <2>2. CASE T = 64 /\ k = m
    BY <1>9, <2>2 DEF T, TableFor
  <2>3. CASE ~(T = 64 /\ k = m)
    <3>1. k \in 0 .. Lines(s, 64) - 1
      BY <1>6, <1>7, <2>1, <2>3
    <3> QED
      BY <1>1, <1>9, <2>1, <3>1 DEF Long
  <2> QED
    BY <2>2, <2>3
<1>14. Threads(r)
  BY <1>1, <1>4 DEF Threads
<1>15. ASSUME NEW n \in Nat, n <= s.nb_lines_, ~ReallocMoves, Cached(s, e, v, n)
       PROVE  Cached(r, e2, v2, n)
  <2> SUFFICES ASSUME NEW j \in {1, 2}, r.last_read_[j].index # Unset
               PROVE  LET c == r.last_read_[j]
                      IN  /\ c.index \in 0 .. n - 1
                          /\ c.position = ValueOf(r, v2, c.index)
                          /\ c.ptr = PointerTo(r, e2, TableOf(r, c.index),
                                               LineInTable(r, c.index))
    BY DEF Cached
  <2> DEFINE c == s.last_read_[j]
  <2>1. r.last_read_[j] = c
    BY <1>4
  <2>2. /\ c.index \in 0 .. n - 1
        /\ c.position = ValueOf(s, v, c.index)
        /\ c.ptr = PointerTo(s, e, TableOf(s, c.index), LineInTable(s, c.index))
    BY <1>15, <2>1 DEF Cached
  <2> HIDE DEF c
  <2>3. c.index \in 0 .. s.nb_lines_ - 1
    BY <1>10, <1>15, <2>2
  <2>4. PointerTo(r, e2, TableOf(r, c.index), LineInTable(r, c.index)) =
          PointerTo(s, e, TableOf(s, c.index), LineInTable(s, c.index))
    BY <1>4, <1>9, <1>11, <1>15, <2>3 DEF PointerTo
  <2> QED
    BY <1>11, <2>1, <2>2, <2>3, <2>4
<1>16. Good(r, e2, v2)
  BY <1>4, <1>13, <1>14 DEF Good
<1>17. SameValues(s, v, r, v2, s.nb_lines_)
  BY <1>11 DEF SameValues
<1> QED
  BY <1>4, <1>12, <1>15, <1>16, <1>17 DEF r, e2, v2

(* Only current_pos_ and dead differ.                                      *)
LEMMA SetPosition ==
  ASSUME NEW s \in Storage, NEW pos \in Int, NEW r, r = [s EXCEPT !.current_pos_ = pos]
  PROVE  /\ SameBlocks(s, r) /\ r.current_pos_ = pos /\ r.dead = s.dead
         /\ r.last_read_ = s.last_read_ /\ r.thread_ids_ = s.thread_ids_
BY DEF Storage, SameBlocks

(* Cached() depends on the blocks and on the caches.                       *)
LEMMA SameCaches ==
  ASSUME Sizes, NEW s, NEW r, NEW e, NEW v, Shape(s, e), Coded(s, e, v), SameBlocks(s, r),
         r.last_read_ = s.last_read_, NEW n, Cached(s, e, v, n)
  PROVE  Cached(r, e, v, n)
<1>1. LooksLike(s, r, e, v)
  BY SameBlocksIs
<1>2. /\ \A i : /\ ValueOf(r, v, i) = ValueOf(s, v, i)
                /\ PointerTo(r, e, TableOf(r, i), LineInTable(r, i)) =
                     PointerTo(s, e, TableOf(s, i), LineInTable(s, i))
  BY <1>1 DEF LooksLike
<1> QED
  BY <1>2 DEF Cached

(* pop_back() keeps it, and takes the last line back, when there is        *)
(* another one and the lines before it are read right.                     *)
LEMMA PopKeeps ==
  ASSUME Sizes, NEW s, NEW e, NEW v, Good(s, e, v), Poppable(s, e),
         s.nb_lines_ - 1 # 0, Cached(s, e, v, s.nb_lines_ - 1)
  PROVE  LET r == pop_back(s)
         IN  /\ Good(r, e, v) /\ r.nb_lines_ = s.nb_lines_ - 1 /\ r.dead = s.dead
             /\ r.nb_lines_ # 0
             /\ SameValues(s, v, r, v, r.nb_lines_)
             /\ Cached(r, e, v, r.nb_lines_)
<1> DEFINE y == Shorter(s)
           x == at(y, Worker, y.nb_lines_ - 1)
           r == pop_back(s)
<1>1. /\ Shape(s, e) /\ Coded(s, e, v) /\ Long(s, v) /\ Threads(s)
      /\ s \in Storage /\ Counted(s)
  BY DEF Good, Shape
<1>2. Shortened(s, y, e, v)
  BY <1>1, ShorterIsRight
<1> HIDE DEF y
<1>3. /\ Shape(y, e) /\ Coded(y, e, v) /\ Pointing(y, e)
      /\ y.nb_lines_ = s.nb_lines_ - 1 /\ y.first_long_line_ = s.first_long_line_
      /\ Growing(y) = Growing(s)
      /\ \A U \in Tables :
           Lines(y, U) = IF U = Growing(s) THEN Lines(s, U) - 1 ELSE Lines(s, U)
      /\ \A U \in Tables : \A k \in 0 .. Lines(y, U) - 1 : BlockOf(y, U, k) = BlockOf(s, U, k)
      /\ y.last_read_ = s.last_read_ /\ y.dead = s.dead /\ y.thread_ids_ = s.thread_ids_
  BY <1>2 DEF Shortened
<1>4. /\ y \in Storage /\ Counted(y) /\ y.nb_lines_ \in Nat /\ y.nb_lines_ # 0
      /\ y.nb_lines_ - 1 \in 0 .. y.nb_lines_ - 1
  <2>1. y \in Storage /\ Counted(y)
    BY <1>3 DEF Shape
  <2>2. y.nb_lines_ \in Nat
    BY <2>1 DEF Storage
  <2>3. y.nb_lines_ # 0
    BY <1>3
  <2> QED
    BY <2>1, <2>2, <2>3
<1>5. /\ \A i : TableOf(y, i) = TableOf(s, i) /\ LineInTable(y, i) = LineInTable(s, i)
      /\ \A i : ValueOf(y, v, i) = ValueOf(s, v, i)
  BY <1>3 DEF TableOf, LineInTable, ValueOf
<1>6. \A i \in 0 .. y.nb_lines_ - 1 :
         PointerTo(y, e, TableOf(y, i), LineInTable(y, i)) =
           PointerTo(s, e, TableOf(s, i), LineInTable(s, i))
  <2> SUFFICES ASSUME NEW i \in 0 .. y.nb_lines_ - 1
               PROVE  PointerTo(y, e, TableOf(y, i), LineInTable(y, i)) =
                        PointerTo(s, e, TableOf(s, i), LineInTable(s, i))
    OBVIOUS
  <2>1. TableOf(y, i) \in Tables /\ LineInTable(y, i) \in 0 .. Lines(y, TableOf(y, i)) - 1
    BY <1>4, LineIsIn
  <2>2. BlockOf(y, TableOf(y, i), LineInTable(y, i)) =
          BlockOf(s, TableOf(y, i), LineInTable(y, i))
    BY <1>3, <2>1
  <2> QED
    BY <1>5, <2>2 DEF PointerTo
<1>7. Cached(y, e, v, y.nb_lines_)
  <2>1. Cached(s, e, v, y.nb_lines_)
    BY <1>3
  <2> QED
    BY <1>3, <1>5, <1>6, <2>1 DEF Cached
<1>8. Threads(y)
  BY <1>1, <1>3 DEF Threads
<1>9. /\ SameButReads(y, x) /\ Cached(x, e, v, y.nb_lines_)
      /\ LastReadBy(x, Worker) = ValueOf(y, v, y.nb_lines_ - 1)
  <2>1. Worker \in Readers \cup {Worker}
    OBVIOUS
  <2>2. y.nb_lines_ <= y.nb_lines_ /\ y.nb_lines_ - 1 < y.nb_lines_
    BY <1>4
  <2> QED
    BY <1>3, <1>4, <1>7, <1>8, <2>1, <2>2, AtIsRight
<1> HIDE DEF x
<1>10. r = [x EXCEPT !.current_pos_ = LastReadBy(x, Worker)]
  BY <1>4, PopBackIs DEF x, y
<1> HIDE DEF r
<1>11. ValueOf(y, v, y.nb_lines_ - 1) \in Nat
  BY <1>3, <1>4, StoredIs
<1>12. x \in Storage /\ SameBlocks(y, x) /\ Threads(x) /\ x.dead = y.dead
       /\ x.nb_lines_ = y.nb_lines_
  BY <1>9 DEF SameButReads, SameBlocks
<1>13. /\ SameBlocks(x, r) /\ r.current_pos_ = ValueOf(y, v, y.nb_lines_ - 1)
       /\ r.dead = x.dead /\ r.last_read_ = x.last_read_ /\ r.thread_ids_ = x.thread_ids_
  <2> DEFINE pos == LastReadBy(x, Worker)
  <2>1. pos = ValueOf(y, v, y.nb_lines_ - 1) /\ pos \in Int
    BY <1>9, <1>11
  <2> HIDE DEF pos
  <2>2. r = [x EXCEPT !.current_pos_ = pos]
    BY <1>10 DEF pos
  <2> QED
    BY <1>12, <2>1, <2>2, SetPosition
<1>14. SameBlocks(y, r)
  BY <1>12, <1>13 DEF SameBlocks
<1>15. LooksLike(y, r, e, v)
  BY <1>3, <1>14, SameBlocksIs
<1>16. /\ Shape(r, e) /\ Coded(r, e, v) /\ Pointing(r, e)
       /\ \A i : ValueOf(r, v, i) = ValueOf(y, v, i)
       /\ \A U \in Tables : Lines(r, U) = Lines(y, U)
       /\ Growing(r) = Growing(y) /\ r.nb_lines_ = y.nb_lines_
  BY <1>3, <1>14, <1>15 DEF LooksLike, SameBlocks
<1>17. Current(r, v)
  <2>1. ValueOf(y, v, y.nb_lines_ - 1) = v[Growing(y)][Lines(y, Growing(y)) - 1]
    BY <1>4, LastLine DEF ValueOf
  <2>2. Growing(y) \in Tables
    BY DEF Growing, Tables
  <2> QED
    BY <1>13, <1>16, <2>1, <2>2 DEF Current
<1>18. Long(r, v)
  <2>1. 64 \in Tables /\ Lines(y, 64) \in Nat /\ Lines(s, 64) \in Nat
    <3>1. 64 \in Tables
      BY DEF Tables
    <3> QED
      BY <1>1, <1>4, <3>1, LineCounts
  <2>2. \A k \in 0 .. Lines(y, 64) - 1 : k \in 0 .. Lines(s, 64) - 1
    BY <1>3, <2>1
  <2> QED
    BY <1>1, <1>16, <2>1, <2>2 DEF Long
<1>19. Threads(r)
  BY <1>12, <1>13 DEF Threads
<1>20. Cached(r, e, v, r.nb_lines_)
  <2>1. Shape(x, e) /\ Coded(x, e, v)
    <3>1. LooksLike(y, x, e, v)
      BY <1>3, <1>12, SameBlocksIs
    <3> QED
      BY <3>1 DEF LooksLike
  <2> QED
    BY <1>9, <1>13, <1>16, <2>1, SameCaches
<1>21. Good(r, e, v)
  BY <1>16, <1>17, <1>18, <1>19 DEF Good
<1>22. SameValues(s, v, r, v, r.nb_lines_)
  BY <1>5, <1>16 DEF SameValues
<1> QED
  BY <1>3, <1>4, <1>12, <1>13, <1>16, <1>20, <1>21, <1>22 DEF r

-----------------------------------------------------------------------------
(* append_all() is what append() comes to, one position after the other.   *)
StepOf(s, list, f, n) == IF n = 0 THEN s ELSE append(f[n - 1], list[n])

(* The recursive function within append_all() is what it defines itself to *)
(* be: by induction on how far it goes.                                    *)
LEMMA AppendAllIs ==
  ASSUME NEW s, NEW list, Len(list) \in Nat
  PROVE  \E f : /\ append_all(s, list) = f[Len(list)]
                /\ \A n \in 0 .. Len(list) : f[n] = StepOf(s, list, f, n)
<1> DEFINE l == Len(list)
           after == CHOOSE f : f = [n \in 0 .. l |-> StepOf(s, list, f, n)]
           S == {m \in 0 .. l : \E f : f = [n \in 0 .. m |-> StepOf(s, list, f, n)]}
<1>1. append_all(s, list) = after[l]
  BY DEF append_all, StepOf
<1> HIDE DEF l
<1>2. l \in Nat
  BY DEF l
<1>3. 0 \in S
  <2> DEFINE g == [n \in 0 .. 0 |-> s]
  <2>1. g = [n \in 0 .. 0 |-> StepOf(s, list, g, n)]
    <3> HIDE DEF g
    <3>1. \A n \in 0 .. 0 : StepOf(s, list, g, n) = s
      BY DEF StepOf
    <3> QED
      BY <3>1 DEF g
  <2> HIDE DEF g
  <2>2. \E f : f = [n \in 0 .. 0 |-> StepOf(s, list, f, n)]
    BY <2>1
  <2>3. 0 \in 0 .. l
    BY <1>2
  <2> QED
    BY <2>2, <2>3
<1>4. ASSUME NEW m \in 0 .. l - 1, m \in S
      PROVE  m + 1 \in S
  <2>1. PICK f : f = [n \in 0 .. m |-> StepOf(s, list, f, n)]
    BY <1>4
  <2>2. m \in Nat /\ m + 1 \in 0 .. l /\ m \in 0 .. m
    BY <1>2
  <2> DEFINE g == [n \in 0 .. m + 1 |-> IF n = m + 1 THEN append(f[m], list[m + 1]) ELSE f[n]]
  <2>3. \A n \in 0 .. m : f[n] = StepOf(s, list, f, n)
    BY <2>1
  <2>4. \A n \in 0 .. m : g[n] = f[n]
    BY <2>2
  <2>5. g[m + 1] = append(f[m], list[m + 1])
    BY <2>2
  <2>6. DOMAIN g = 0 .. m + 1 /\ g = [n \in 0 .. m + 1 |-> g[n]]
    OBVIOUS
  <2> HIDE DEF g
  <2>7. ASSUME NEW n \in 0 .. m + 1
        PROVE  g[n] = StepOf(s, list, g, n)
    <3>1. CASE n = m + 1
      <4>1. n # 0 /\ n - 1 = m
        BY <2>2, <3>1
      <4>2. g[n - 1] = f[m]
        BY <2>2, <2>4, <4>1
      <4> QED
        BY <2>5, <3>1, <4>1, <4>2 DEF StepOf
    <3>2. CASE n \in 0 .. m
      <4>1. n # 0 => g[n - 1] = f[n - 1]
        <5>1. n # 0 => n - 1 \in 0 .. m
          BY <2>2, <3>2
        <5> QED
          BY <2>4, <5>1
      <4> QED
        BY <2>3, <2>4, <3>2, <4>1 DEF StepOf
    <3> QED
      BY <2>2, <3>1, <3>2
  <2>8. g = [n \in 0 .. m + 1 |-> StepOf(s, list, g, n)]
    BY <2>6, <2>7
  <2> QED
    BY <2>2, <2>8
<1>5. l \in S
  <2> HIDE DEF S
  <2>1. 0 .. l \subseteq S
    BY <1>2, <1>3, <1>4, UpTo
  <2> QED
    BY <1>2, <2>1
<1>6. after = [n \in 0 .. l |-> StepOf(s, list, after, n)]
  BY <1>5
<1> HIDE DEF after
<1>7. \A n \in 0 .. l : after[n] = StepOf(s, list, after, n)
  BY <1>6
<1> QED
  BY <1>1, <1>7 DEF l

(* r is s, with the first n positions of the list added.                   *)
AddedAll(s, e, v, r, e2, v2, list, n) ==
  /\ Good(r, e2, v2) /\ ~r.dead /\ r.nb_lines_ = s.nb_lines_ + n
  /\ n = 0 => r = s
  /\ SameValues(s, v, r, v2, s.nb_lines_)
  /\ \A i \in 1 .. n : ValueOf(r, v2, s.nb_lines_ + i - 1) = list[i]
  /\ n = 1 /\ ~FirstBig(s, list[1]) => Poppable(r, e2)
  /\ \A m \in Nat : m <= s.nb_lines_ /\ ~ReallocMoves /\ Cached(s, e, v, m) =>
                      Cached(r, e2, v2, m)

(* One position more of the list.                                          *)
LEMMA AddsOne ==
  ASSUME Sizes, NEW s, NEW e, NEW v, Good(s, e, v), NEW list \in Seq(Nat),
         \A i, j \in 1 .. Len(list) : i < j => list[i] < list[j],
         s.nb_lines_ # 0 /\ Len(list) # 0 => list[1] > ValueOf(s, v, s.nb_lines_ - 1),
         s.nb_lines_ + Len(list) < Unset,
         NEW n \in 0 .. Len(list) - 1, NEW r, NEW e2, NEW v2,
         AddedAll(s, e, v, r, e2, v2, list, n)
  PROVE  AddedAll(s, e, v, append(r, list[n + 1]), EndsWith(r, e2, list[n + 1]),
                  ValuesWith(r, v2, list[n + 1]), list, n + 1)
<1> DEFINE pos == list[n + 1]
           q == append(r, pos)
           e3 == EndsWith(r, e2, pos)
           v3 == ValuesWith(r, v2, pos)
           nb == s.nb_lines_
           l == Len(list)
<1>1. /\ Good(r, e2, v2) /\ ~r.dead /\ r.nb_lines_ = nb + n
      /\ n = 0 => r = s
      /\ SameValues(s, v, r, v2, nb)
      /\ \A i \in 1 .. n : ValueOf(r, v2, nb + i - 1) = list[i]
      /\ \A m \in Nat : m <= nb /\ ~ReallocMoves /\ Cached(s, e, v, m) => Cached(r, e2, v2, m)
  BY DEF AddedAll
<1>2. nb \in Nat /\ s \in Storage /\ Counted(s)
  BY DEF Good, Shape, Storage
<1>3. l \in Nat /\ nb + l < Unset /\ n \in 0 .. l - 1 /\ Unset \in Nat
  BY DEF Unset
<1>4. \A i \in 1 .. l : list[i] \in Nat
  OBVIOUS
<1>5. \A i, j \in 1 .. l : i < j => list[i] < list[j]
  OBVIOUS
<1>6. nb # 0 /\ l # 0 => list[1] > ValueOf(s, v, nb - 1)
  OBVIOUS
<1> HIDE DEF nb, l
<1>7. n \in Nat /\ n + 1 \in 1 .. l /\ pos \in Nat
  BY <1>3, <1>4
<1> HIDE DEF pos
<1>8. r.nb_lines_ + 1 < Unset
  BY <1>1, <1>2, <1>3, <1>7
<1>9. r.nb_lines_ # 0 => pos > ValueOf(r, v2, r.nb_lines_ - 1)
  <2>1. CASE n = 0
    <3>1. nb # 0 => nb - 1 \in 0 .. nb - 1
      BY <1>2
    <3>2. nb # 0 => ValueOf(r, v2, nb - 1) = ValueOf(s, v, nb - 1)
      BY <1>1, <3>1 DEF SameValues
    <3>3. r.nb_lines_ = nb /\ pos = list[1] /\ l # 0
      BY <1>1, <1>2, <1>3, <2>1 DEF pos
    <3> QED
      BY <1>6, <3>2, <3>3
  <2>2. CASE n # 0
    <3>1. n \in 1 .. n /\ n \in 1 .. l /\ n < n + 1
      BY <1>3, <1>7, <2>2
    <3>2. ValueOf(r, v2, nb + n - 1) = list[n]
      BY <1>1, <3>1
    <3>3. list[n] < list[n + 1] /\ list[n] \in Nat
      BY <1>4, <1>5, <1>7, <3>1
    <3>4. r.nb_lines_ - 1 = nb + n - 1
      BY <1>1, <1>2, <1>7
    <3>5. ValueOf(r, v2, r.nb_lines_ - 1) = list[n]
      BY <3>2, <3>4
    <3>6. pos = list[n + 1]
      BY DEF pos
    <3> QED
      BY <1>7, <3>3, <3>5, <3>6
  <2> QED
    BY <2>1, <2>2
<1>10. /\ Good(q, e3, v3) /\ q.nb_lines_ = r.nb_lines_ + 1 /\ ~q.dead
       /\ SameValues(r, v2, q, v3, r.nb_lines_)
       /\ ValueOf(q, v3, r.nb_lines_) = pos
       /\ ~FirstBig(r, pos) => Poppable(q, e3)
       /\ \A m \in Nat : m <= r.nb_lines_ /\ ~ReallocMoves /\ Cached(r, e2, v2, m) =>
            Cached(q, e3, v3, m)
  BY <1>1, <1>7, <1>8, <1>9, AppendKeeps
<1> HIDE DEF q, e3, v3
<1>11. q.nb_lines_ = nb + (n + 1) /\ n + 1 # 0
  BY <1>1, <1>2, <1>7, <1>10
<1>12. SameValues(s, v, q, v3, nb)
  <2> SUFFICES ASSUME NEW i \in 0 .. nb - 1 PROVE ValueOf(q, v3, i) = ValueOf(s, v, i)
    BY DEF SameValues
  <2>1. i \in 0 .. r.nb_lines_ - 1
    BY <1>1, <1>2, <1>7
  <2> QED
    BY <1>1, <1>10, <2>1 DEF SameValues
<1>13. ASSUME NEW i \in 1 .. n + 1 PROVE ValueOf(q, v3, nb + i - 1) = list[i]
  <2>1. CASE i = n + 1
    <3>1. nb + i - 1 = r.nb_lines_
      BY <1>1, <1>2, <1>7, <2>1
    <3> QED
      BY <1>10, <2>1, <3>1 DEF pos
  <2>2. CASE i # n + 1
    <3>1. i \in 1 .. n /\ nb + i - 1 \in 0 .. r.nb_lines_ - 1
      BY <1>1, <1>2, <1>7, <2>2
    <3>2. ValueOf(q, v3, nb + i - 1) = ValueOf(r, v2, nb + i - 1)
      BY <1>10, <3>1 DEF SameValues
    <3> QED
      BY <1>1, <3>1, <3>2
  <2> QED
    BY <2>1, <2>2
<1>14. n + 1 = 1 /\ ~FirstBig(s, list[1]) => Poppable(q, e3)
  <2> SUFFICES ASSUME n + 1 = 1, ~FirstBig(s, list[1]) PROVE Poppable(q, e3)
    OBVIOUS
  <2>1. r = s /\ pos = list[1]
    BY <1>1, <1>7 DEF pos
  <2> QED
    BY <1>10, <2>1
<1>15. \A m \in Nat : m <= nb /\ ~ReallocMoves /\ Cached(s, e, v, m) => Cached(q, e3, v3, m)
  BY <1>1, <1>2, <1>7, <1>10
<1> QED
  BY <1>10, <1>11, <1>12, <1>13, <1>14, <1>15 DEF AddedAll, nb, q, e3, v3, pos

(* append_all() adds the positions of the list, in order, and no other: by *)
(* induction on how many.                                                  *)
LEMMA AppendAllKeeps ==
  ASSUME Sizes, NEW s, NEW e, NEW v, Good(s, e, v), ~s.dead, NEW list \in Seq(Nat),
         \A i, j \in 1 .. Len(list) : i < j => list[i] < list[j],
         s.nb_lines_ # 0 /\ Len(list) # 0 => list[1] > ValueOf(s, v, s.nb_lines_ - 1),
         s.nb_lines_ + Len(list) < Unset
  PROVE  \E e2, v2 : AddedAll(s, e, v, append_all(s, list), e2, v2, list, Len(list))
<1> DEFINE l == Len(list)
<1>1. l \in Nat
  OBVIOUS
<1>2. PICK f : /\ append_all(s, list) = f[l]
               /\ \A n \in 0 .. l : f[n] = StepOf(s, list, f, n)
  BY <1>1, AppendAllIs
<1> DEFINE S == {n \in 0 .. l : \E e2, v2 : AddedAll(s, e, v, f[n], e2, v2, list, n)}
<1>3. 0 \in S
  <2>1. 0 \in 0 .. l /\ f[0] = s
    BY <1>1, <1>2 DEF StepOf
  <2>2. AddedAll(s, e, v, s, e, v, list, 0)
    <3>1. s.nb_lines_ \in Nat
      BY DEF Good, Shape, Storage
    <3> QED
      BY <3>1 DEF AddedAll, SameValues
  <2> QED
    BY <2>1, <2>2
<1>4. ASSUME NEW n \in 0 .. l - 1, n \in S
      PROVE  n + 1 \in S
  <2>1. PICK e2, v2 : AddedAll(s, e, v, f[n], e2, v2, list, n)
    BY <1>4
  <2>2. n + 1 \in 0 .. l /\ n + 1 # 0 /\ n + 1 - 1 = n
    BY <1>1
  <2>3. f[n + 1] = append(f[n], list[n + 1])
    BY <1>2, <2>2 DEF StepOf
  <2>4. AddedAll(s, e, v, append(f[n], list[n + 1]), EndsWith(f[n], e2, list[n + 1]),
                 ValuesWith(f[n], v2, list[n + 1]), list, n + 1)
    BY <2>1, AddsOne
  <2>5. \E e3, v3 : AddedAll(s, e, v, f[n + 1], e3, v3, list, n + 1)
    BY <2>3, <2>4
  <2> QED
    BY <2>2, <2>5
<1>5. l \in S
  <2> HIDE DEF S, l
  <2>1. 0 .. l \subseteq S
    BY <1>1, <1>3, <1>4, UpTo
  <2> QED
    BY <1>1, <2>1
<1> QED
  BY <1>2, <1>5

(* A program that is dead adds nothing.                                    *)
LEMMA DeadAppends ==
  ASSUME NEW s, s.dead, NEW list, Len(list) \in Nat
  PROVE  append_all(s, list) = s
<1> DEFINE l == Len(list)
<1>1. l \in Nat
  OBVIOUS
<1>2. PICK f : /\ append_all(s, list) = f[l]
               /\ \A n \in 0 .. l : f[n] = StepOf(s, list, f, n)
  BY <1>1, AppendAllIs
<1> DEFINE S == {n \in 0 .. l : f[n] = s}
<1>3. 0 \in S
  BY <1>1, <1>2 DEF StepOf
<1>4. ASSUME NEW n \in 0 .. l - 1, n \in S
      PROVE  n + 1 \in S
  <2>1. n + 1 \in 0 .. l /\ n + 1 # 0 /\ n + 1 - 1 = n /\ f[n] = s
    BY <1>1, <1>4
  <2>2. f[n + 1] = append(s, list[n + 1])
    BY <1>2, <2>1 DEF StepOf
  <2>3. append(s, list[n + 1]) = s
    BY DEF append
  <2> QED
    BY <2>1, <2>2, <2>3
<1>5. l \in S
  <2> HIDE DEF S, l
  <2>1. 0 .. l \subseteq S
    BY <1>1, <1>3, <1>4, UpTo
  <2> QED
    BY <1>1, <2>1
<1> QED
  BY <1>2, <1>5

-----------------------------------------------------------------------------
(* The lines taken back are read right: logs whose last line has no line   *)
(* feed are neither indexed anew nor read as they grow, nor are their      *)
(* blocks moved.                                                           *)
Undisturbed ==
  /\ FakeLines => ~ReallocMoves /\ ~Reloads /\ Readers = {}
  /\ ~LongFakes

(* Nothing makes a cache stale.                                            *)
Quiet == ~ReallocMoves /\ ~Reloads /\ (FakeLines => Readers = {})

(* The lines that an append leaves: all but a fake end of line.            *)
KeptLines(s, fake) == IF fake THEN s.nb_lines_ - 1 ELSE s.nb_lines_
Bounded(s, v) == \A i \in 0 .. s.nb_lines_ - 1 : ValueOf(s, v, i) \in 1 .. MaxPos

Holds(s, fake, e, v) ==
  /\ Good(s, e, v) /\ Bounded(s, v)
  /\ fake => s.nb_lines_ # 0 /\ Poppable(s, e)
  /\ Quiet => Cached(s, e, v, KeptLines(s, fake))

(* The inductive invariant.                                                *)
IInv ==
  /\ fakeFinalLF_ \in {FakeLines, FALSE}
  /\ storage.nb_lines_ <= MaxLines
  /\ \E e, v : Holds(storage, fakeFinalLF_, e, v)

(* A storage of no line.                                                   *)
LEMMA EmptyHolds ==
  ASSUME Sizes, NEW r \in Storage, r.nb_lines_ = 0, r.first_long_line_ = Unset,
         r.index32 = <<>>, r.index64 = <<>>, r.block_pointer_ = nullptr,
         \A b \in DOMAIN r.blocks : r.blocks[b] = Freed, Threads(r),
         Quiet => \A j \in {1, 2} : r.last_read_[j].index = Unset,
         NEW e, NEW v
  PROVE  Holds(r, FALSE, e, v)
<1>1. \A T \in Tables : Lines(r, T) = 0 /\ IndexOf(r, T) = <<>>
  BY DEF Lines, Tables, IndexOf
<1>2. Row(0) = 0 /\ Col(0) = 0
  BY FirstRow
<1>3. Growing(r) \in Tables
  BY DEF Growing, Tables
<1>4. 0 < Unset /\ 64 \in Tables
  BY DEF Unset, Tables
<1>5. Shape(r, e)
  <2>1. Counted(r)
    BY <1>4 DEF Counted
  <2>2. Indexed(r)
    BY <1>1, <1>2 DEF Indexed
  <2>3. Chained(r, e)
    BY <1>1 DEF Chained
  <2>4. Roomy(r, e)
    BY <1>1 DEF Roomy
  <2>5. Owned(r)
    <3>1. \A T \in Tables : DOMAIN IndexOf(r, T) = {}
      BY <1>1
    <3>2. Freed.size = 0
      BY DEF Freed
    <3> QED
      BY <3>1, <3>2 DEF Owned
  <2>6. Fitting(r)
    <3>1. DOMAIN Freed.entries = {}
      BY DEF Freed
    <3> QED
      BY <3>1 DEF Fitting
  <2> QED
    BY <2>1, <2>2, <2>3, <2>4, <2>5, <2>6 DEF Shape
<1>6. Coded(r, e, v)
  BY <1>1 DEF Coded
<1>7. Pointing(r, e)
  BY <1>1, <1>2, <1>3 DEF Pointing
<1>8. Current(r, v)
  BY DEF Current
<1>9. Long(r, v)
  BY <1>1, <1>4 DEF Long
<1>10. Bounded(r, v)
  BY DEF Bounded
<1>11. Quiet => Cached(r, e, v, KeptLines(r, FALSE))
  BY DEF Cached
<1> QED
  BY <1>5, <1>6, <1>7, <1>8, <1>9, <1>10, <1>11 DEF Holds, Good

(* A freed block is a block.                                               *)
LEMMA FreedIs == Freed \in Block
<1>1. <<>> \in Entries
  BY NoEntries
<1>2. Freed = [size |-> 0, initial |-> -1, entries |-> <<>>]
  BY DEF Freed, Garbage
<1> QED
  BY <1>1, <1>2 DEF Block

(* A slot that is not used is a cache.                                     *)
LEMMA NoCacheIs == NoCache \in Cache /\ nullptr \in Pointer
<1>1. nullptr \in Pointer
  BY DEF nullptr, Pointer
<1> QED
  BY <1>1 DEF NoCache, Cache, Unset

(* The invariant holds at first.                                           *)
LEMMA InitHolds ==
  ASSUME Sizes, Init
  PROVE  IInv
<1> DEFINE r == Empty
<1>1. /\ r.index32 = <<>> /\ r.index64 = <<>> /\ r.blocks = <<>> /\ r.nb_lines_ = 0
      /\ r.first_long_line_ = Unset /\ r.block_pointer_ = nullptr
      /\ r.thread_ids_ = <<>> /\ r.last_read_ = <<NoCache, NoCache>>
  BY DEF Empty
<1>2. <<NoCache, NoCache>> \in [{1, 2} -> Cache]
  <2>1. NoCache \in Cache
    BY NoCacheIs
  <2> QED
    BY <2>1
<1>3. r \in Storage
  <2>1. nullptr \in Pointer
    BY NoCacheIs
  <2>2. \A S : <<>> \in Seq(S)
    OBVIOUS
  <2>3. Unset \in Nat
    BY DEF Unset
  <2> QED
    BY <1>2, <2>1, <2>2, <2>3 DEF Empty, Storage
<1> HIDE DEF r
<1>4. \A j \in {1, 2} : r.last_read_[j].index = Unset
  <2>1. NoCache.index = Unset
    BY DEF NoCache
  <2> QED
    BY <1>1, <2>1
<1>5. Threads(r)
  BY <1>1 DEF Threads
<1>6. \A b \in DOMAIN r.blocks : r.blocks[b] = Freed
  BY <1>1
<1>7. \A e, v : Holds(r, FALSE, e, v)
  BY <1>1, <1>3, <1>4, <1>5, <1>6, EmptyHolds
<1>8. storage = r /\ fakeFinalLF_ = FALSE
  BY DEF Init, r
<1>9. \E e, v : Holds(storage, fakeFinalLF_, e, v)
  BY <1>7, <1>8
<1>10. storage.nb_lines_ <= MaxLines
  BY <1>1, <1>8 DEF Sizes
<1> QED
  BY <1>8, <1>9, <1>10 DEF IInv

(* clear() leaves a storage of no line, its blocks freed.                  *)
LEMMA ClearHolds ==
  ASSUME Sizes, IInv, clear
  PROVE  IInv'
<1> DEFINE r == storage'
<1>1. PICK e, v : Holds(storage, fakeFinalLF_, e, v)
  BY DEF IInv
<1>2. storage \in Storage /\ Threads(storage)
  BY <1>1 DEF Holds, Good, Shape
<1>3. r = [Empty EXCEPT
                   !.blocks = [b \in DOMAIN storage.blocks |-> Freed],
                   !.thread_ids_ = storage.thread_ids_,
                   !.last_read_ = storage.last_read_]
  BY DEF clear
<1>4. [b \in DOMAIN storage.blocks |-> Freed] \in Seq(Block)
  <2>1. storage.blocks \in Seq(Block)
    BY <1>2 DEF Storage
  <2>2. PICK l \in Nat : DOMAIN storage.blocks = 1 .. l
    BY <2>1
  <2>3. Freed \in Block
    BY FreedIs
  <2> QED
    BY <2>2, <2>3
<1>5. /\ r.index32 = <<>> /\ r.index64 = <<>>
      /\ r.blocks = [b \in DOMAIN storage.blocks |-> Freed] /\ r.nb_lines_ = 0
      /\ r.first_long_line_ = Unset /\ r.block_pointer_ = nullptr
      /\ r.thread_ids_ = storage.thread_ids_
  BY <1>3 DEF Empty
<1>6. r \in Storage
  <2>1. nullptr \in Pointer
    BY NoCacheIs
  <2>2. \A S : <<>> \in Seq(S)
    OBVIOUS
  <2>3. Unset \in Nat
    BY DEF Unset
  <2>4. storage.thread_ids_ \in Seq(Readers \cup {Worker})
        /\ storage.last_read_ \in [{1, 2} -> Cache]
    BY <1>2 DEF Storage
  <2> DEFINE freed == [b \in DOMAIN storage.blocks |-> Freed]
  <2>5. freed \in Seq(Block)
    BY <1>4
  <2>6. r = [Empty EXCEPT !.blocks = freed, !.thread_ids_ = storage.thread_ids_,
                          !.last_read_ = storage.last_read_]
    BY <1>3
  <2> HIDE DEF freed, r
  <2>7. Empty = [index32 |-> <<>>, index64 |-> <<>>, blocks |-> <<>>,
                 nb_lines_ |-> 0, current_pos_ |-> 0, first_long_line_ |-> Unset,
                 block_pointer_ |-> nullptr, previous_block_pointer_ |-> nullptr,
                 thread_ids_ |-> <<>>, last_read_ |-> <<NoCache, NoCache>>,
                 dead |-> FALSE]
    BY DEF Empty
  <2>8. r = [index32 |-> <<>>, index64 |-> <<>>, blocks |-> freed,
             nb_lines_ |-> 0, current_pos_ |-> 0, first_long_line_ |-> Unset,
             block_pointer_ |-> nullptr, previous_block_pointer_ |-> nullptr,
             thread_ids_ |-> storage.thread_ids_, last_read_ |-> storage.last_read_,
             dead |-> FALSE]
    BY <2>6, <2>7
  <2>9. <<>> \in Seq(Nat) /\ 0 \in Nat /\ 0 \in Int /\ FALSE \in BOOLEAN
    OBVIOUS
  <2> QED
    BY <2>1, <2>3, <2>4, <2>5, <2>8, <2>9, Zenon DEF Storage
<1>7. Threads(r)
  BY <1>2, <1>5 DEF Threads
<1>8. ~Quiet
  BY DEF clear, Quiet
<1>9. \A b \in DOMAIN r.blocks : r.blocks[b] = Freed
  BY <1>5
<1> HIDE DEF r
<1>10. \A e2, v2 : Holds(r, FALSE, e2, v2)
  BY <1>5, <1>6, <1>7, <1>8, <1>9, EmptyHolds
<1>11. fakeFinalLF_' = FALSE
  BY DEF clear
<1>12. \E e2, v2 : Holds(storage', fakeFinalLF_', e2, v2)
  BY <1>10, <1>11 DEF r
<1>13. storage'.nb_lines_ <= MaxLines
  BY <1>5 DEF Sizes, r
<1> QED
  BY <1>11, <1>12, <1>13 DEF IInv

(* A read changes nothing but caches, and comes to the line.               *)
LEMMA ReadHolds ==
  ASSUME Sizes, Switches, Undisturbed, NEW s, NEW fake \in {FakeLines, FALSE},
         NEW e, NEW v, Holds(s, fake, e, v), NEW t \in Readers,
         NEW index \in 0 .. s.nb_lines_ - 1
  PROVE  LET r == at(s, t, index)
         IN  /\ Holds(r, fake, e, v) /\ SameBlocks(s, r)
             /\ Quiet => LastReadBy(r, t) = ValueOf(s, v, index)
<1> DEFINE r == at(s, t, index)
<1>1. fake = FALSE
  BY DEF Undisturbed, Switches
<1>2. /\ Good(s, e, v) /\ Bounded(s, v)
      /\ Quiet => Cached(s, e, v, s.nb_lines_)
  BY <1>1 DEF Holds, KeptLines
<1>3. Shape(s, e) /\ Coded(s, e, v) /\ Threads(s) /\ Pointing(s, e) /\ Current(s, v)
      /\ Long(s, v)
  BY <1>2 DEF Good
<1>4. t \in Readers \cup {Worker} /\ s.nb_lines_ \in Nat /\ index < s.nb_lines_
  BY <1>3 DEF Shape, Storage
<1>5. /\ SameButReads(s, r)
      /\ \A n \in Nat : n <= s.nb_lines_ /\ index < n /\ Cached(s, e, v, n) =>
           Cached(r, e, v, n) /\ LastReadBy(r, t) = ValueOf(s, v, index)
  BY <1>3, <1>4, AtIsRight
<1> HIDE DEF r
<1>6. SameBlocks(s, r) /\ Threads(r) /\ r.current_pos_ = s.current_pos_
  BY <1>5 DEF SameButReads
<1>7. LooksLike(s, r, e, v)
  BY <1>3, <1>6, SameBlocksIs
<1>8. r.nb_lines_ = s.nb_lines_
  BY <1>6 DEF SameBlocks
<1>9. Good(r, e, v)
  <2>1. Long(r, v)
    <3>1. 64 \in Tables
      BY DEF Tables
    <3> QED
      BY <1>3, <1>7, <3>1 DEF Long, LooksLike
  <2> QED
    BY <1>3, <1>6, <1>7, <2>1 DEF Good, LooksLike
<1>10. Bounded(r, v)
  BY <1>2, <1>7, <1>8 DEF Bounded, LooksLike
<1>11. Quiet => Cached(r, e, v, r.nb_lines_) /\ LastReadBy(r, t) = ValueOf(s, v, index)
  BY <1>2, <1>4, <1>5, <1>8
<1>12. Holds(r, fake, e, v)
  BY <1>1, <1>9, <1>10, <1>11 DEF Holds, KeptLines
<1> QED
  BY <1>6, <1>11, <1>12 DEF r

(* What append_list() appends to.                                          *)
KeptStorage(s, fake) == IF fake THEN pop_back(s) ELSE s
KeptAsIs(s, v, r, fake, e) ==
  /\ Good(r, e, v) /\ r.dead = s.dead /\ r.nb_lines_ = KeptLines(s, fake)
  /\ SameValues(s, v, r, v, r.nb_lines_)
  /\ Quiet => Cached(r, e, v, r.nb_lines_)

(* An append takes back the fake end of line, if there is one, and dies    *)
(* when it is the only line.                                               *)
LEMMA KeptIs ==
  ASSUME Sizes, Switches, Undisturbed, NEW s, NEW fake \in {FakeLines, FALSE},
         NEW e, NEW v, Holds(s, fake, e, v)
  PROVE  \/ fake /\ KeptLines(s, fake) = 0 /\ KeptStorage(s, fake) = [s EXCEPT !.dead = TRUE]
         \/ KeptAsIs(s, v, KeptStorage(s, fake), fake, e)
<1>1. Good(s, e, v) /\ (Quiet => Cached(s, e, v, KeptLines(s, fake)))
  BY DEF Holds
<1>2. fake \in BOOLEAN
  BY DEF Switches
<1>3. CASE ~fake
  <2>1. KeptStorage(s, fake) = s /\ KeptLines(s, fake) = s.nb_lines_
    BY <1>3 DEF KeptStorage, KeptLines
  <2>2. SameValues(s, v, s, v, s.nb_lines_)
    BY DEF SameValues
  <2> QED
    BY <1>1, <2>1, <2>2 DEF KeptAsIs
<1>4. CASE fake
  <2>1. Poppable(s, e) /\ s.nb_lines_ # 0
    BY <1>4 DEF Holds
  <2>2. Quiet
    BY <1>2, <1>4 DEF Undisturbed, Quiet
  <2>3. KeptStorage(s, fake) = pop_back(s) /\ KeptLines(s, fake) = s.nb_lines_ - 1
    BY <1>4 DEF KeptStorage, KeptLines
  <2>4. CASE s.nb_lines_ - 1 = 0
    <3>1. Shortened(s, Shorter(s), e, v)
      BY <1>1, <2>1, ShorterIsRight DEF Good
    <3>2. Shorter(s).nb_lines_ = 0
      BY <2>4, <3>1 DEF Shortened
    <3>3. pop_back(s) = [s EXCEPT !.dead = TRUE]
      BY <3>2, PopBackIs
    <3> QED
      BY <1>4, <2>3, <2>4, <3>3
  <2>5. CASE s.nb_lines_ - 1 # 0
    <3> DEFINE r == pop_back(s)
    <3>1. /\ Good(r, e, v) /\ r.nb_lines_ = s.nb_lines_ - 1 /\ r.dead = s.dead
          /\ SameValues(s, v, r, v, r.nb_lines_)
          /\ Cached(r, e, v, r.nb_lines_)
      BY <1>1, <2>1, <2>2, <2>3, <2>5, PopKeeps
    <3> HIDE DEF r
    <3>2. KeptAsIs(s, v, r, fake, e)
      BY <2>3, <3>1 DEF KeptAsIs
    <3> QED
      BY <2>3, <3>2 DEF r
  <2> QED
    BY <2>4, <2>5
<1> QED
  BY <1>2, <1>3, <1>4

(* append_list(): the lines kept, then those of the list.                  *)
ListAdded(s, v, r, e2, v2, kept, list, fake) ==
  /\ Holds(r, fake, e2, v2) /\ ~r.dead /\ r.nb_lines_ = kept + Len(list)
  /\ SameValues(s, v, r, v2, kept)
  /\ \A i \in 1 .. Len(list) : ValueOf(r, v2, kept + i - 1) = list[i]

(* append_list() comes to the lines kept and those of the list, unless it  *)
(* dies.                                                                   *)
LEMMA AppendListHolds ==
  ASSUME Sizes, Switches, Undisturbed, NEW s, NEW fake0 \in {FakeLines, FALSE},
         NEW e, NEW v, Holds(s, fake0, e, v), ~s.dead,
         NEW fake \in {FakeLines, FALSE}, NEW list \in Seq(Nat),
         \A i \in 1 .. Len(list) : list[i] \in 1 .. MaxPos,
         \A i, j \in 1 .. Len(list) : i < j => list[i] < list[j],
         fake => Len(list) = 1,
         Len(list) # 0 /\ KeptLines(s, fake0) # 0 =>
           list[1] > ValueOf(s, v, KeptLines(s, fake0) - 1),
         s.nb_lines_ + Len(list) <= MaxLines,
         fake => ~FirstBig(KeptStorage(s, fake0), list[1])
  PROVE  LET r == append_all(KeptStorage(s, fake0), list)
         IN  \/ fake0 /\ KeptLines(s, fake0) = 0 /\ r = [s EXCEPT !.dead = TRUE]
             \/ \E e2, v2 :
                  ListAdded(s, v, r, e2, v2, KeptLines(s, fake0), list, fake)
<1> DEFINE kept == KeptStorage(s, fake0)
           k == KeptLines(s, fake0)
           l == Len(list)
           r == append_all(kept, list)
<1>1. l \in Nat
  OBVIOUS
<1>2. s \in Storage /\ Bounded(s, v) /\ s.nb_lines_ \in Nat
  BY DEF Holds, Good, Shape, Storage
<1>3. CASE fake0 /\ k = 0 /\ kept = [s EXCEPT !.dead = TRUE]
  <2>1. kept.dead
    BY <1>2, <1>3 DEF Storage
  <2>2. r = kept
    BY <1>1, <2>1, DeadAppends
  <2> QED
    BY <1>3, <2>2
<1>4. CASE KeptAsIs(s, v, kept, fake0, e)
  <2> HIDE DEF kept, k, l
  <2>1. /\ Good(kept, e, v) /\ ~kept.dead /\ kept.nb_lines_ = k
        /\ SameValues(s, v, kept, v, k)
        /\ Quiet => Cached(kept, e, v, k)
    BY <1>4 DEF KeptAsIs, k
  <2>2. k \in Nat /\ k <= s.nb_lines_
    <3>1. k \in Nat
      BY <2>1 DEF Good, Shape, Storage
    <3>2. k = s.nb_lines_ \/ k = s.nb_lines_ - 1
      BY DEF k, KeptLines
    <3> QED
      BY <1>2, <3>1, <3>2
  <2>3. k + l < Unset
    <3>1. s.nb_lines_ + l <= MaxLines
      BY DEF l
    <3> QED
      BY <1>1, <1>2, <2>2, <3>1 DEF Sizes, Unset
  <2>4. k # 0 /\ l # 0 => list[1] > ValueOf(kept, v, k - 1)
    <3>1. k # 0 => k - 1 \in 0 .. k - 1
      BY <2>2
    <3>2. k # 0 => ValueOf(kept, v, k - 1) = ValueOf(s, v, k - 1)
      BY <2>1, <3>1 DEF SameValues
    <3>3. k # 0 /\ l # 0 => list[1] > ValueOf(s, v, k - 1)
      BY DEF k, l
    <3> QED
      BY <3>2, <3>3
  <2>5. PICK e2, v2 : AddedAll(kept, e, v, r, e2, v2, list, l)
    <3>1. /\ kept.nb_lines_ # 0 /\ l # 0 => list[1] > ValueOf(kept, v, kept.nb_lines_ - 1)
          /\ kept.nb_lines_ + l < Unset
      BY <2>1, <2>3, <2>4
    <3>2. \A i, j \in 1 .. l : i < j => list[i] < list[j]
      BY DEF l
    <3> QED
      BY <2>1, <3>1, <3>2, AppendAllKeeps DEF l
  <2> HIDE DEF r
  <2>6. /\ Good(r, e2, v2) /\ ~r.dead /\ r.nb_lines_ = k + l
        /\ SameValues(kept, v, r, v2, k)
        /\ \A i \in 1 .. l : ValueOf(r, v2, k + i - 1) = list[i]
        /\ l = 1 /\ ~FirstBig(kept, list[1]) => Poppable(r, e2)
        /\ ~ReallocMoves /\ Cached(kept, e, v, k) => Cached(r, e2, v2, k)
    BY <2>1, <2>2, <2>5 DEF AddedAll
  <2>7. SameValues(s, v, r, v2, k)
    BY <2>1, <2>6 DEF SameValues
  <2>8. Bounded(r, v2)
    <3> SUFFICES ASSUME NEW i \in 0 .. r.nb_lines_ - 1
                 PROVE  ValueOf(r, v2, i) \in 1 .. MaxPos
      BY DEF Bounded
    <3>1. CASE i < k
      <4>1. i \in 0 .. k - 1 /\ i \in 0 .. s.nb_lines_ - 1
        BY <1>1, <1>2, <2>2, <2>6, <3>1
      <4> QED
        BY <1>2, <2>7, <4>1 DEF Bounded, SameValues
    <3>2. CASE ~(i < k)
      <4>1. i - k + 1 \in 1 .. l /\ k + (i - k + 1) - 1 = i
        BY <1>1, <2>2, <2>6, <3>2
      <4>2. ValueOf(r, v2, i) = list[i - k + 1]
        BY <2>6, <4>1
      <4>3. list[i - k + 1] \in 1 .. MaxPos
        BY <4>1 DEF l
      <4> QED
        BY <4>2, <4>3
    <3> QED
      BY <3>1, <3>2
  <2>9. fake => r.nb_lines_ # 0 /\ Poppable(r, e2)
    <3>1. fake => l = 1
      BY DEF l
    <3>2. fake => ~FirstBig(kept, list[1])
      BY DEF kept
    <3> QED
      BY <1>1, <2>2, <2>6, <3>1, <3>2
  <2>10. Quiet => Cached(r, e2, v2, KeptLines(r, fake))
    <3> SUFFICES ASSUME Quiet PROVE Cached(r, e2, v2, KeptLines(r, fake))
      OBVIOUS
    <3>1. Cached(r, e2, v2, k)
      BY <2>1, <2>6 DEF Quiet
    <3>2. fake => l = 1
      BY DEF l
    <3>3. KeptLines(r, fake) \in Nat /\ k <= KeptLines(r, fake)
      <4>1. CASE fake
        <5>1. KeptLines(r, fake) = r.nb_lines_ - 1
          BY <4>1 DEF KeptLines
        <5>2. l = 1
          BY <3>2, <4>1
        <5>3. r.nb_lines_ - 1 = k
          BY <2>2, <2>6, <5>2
        <5> QED
          BY <2>2, <5>1, <5>3
      <4>2. CASE ~fake
        <5>1. KeptLines(r, fake) = k + l
          BY <2>6, <4>2 DEF KeptLines
        <5> QED
          BY <1>1, <2>2, <5>1
      <4> QED
        BY <4>1, <4>2
    <3>4. \A i \in 0 .. k - 1 : i \in 0 .. KeptLines(r, fake) - 1
      BY <2>2, <3>3
    <3> QED
      BY <3>1, <3>4 DEF Cached
  <2>11. ListAdded(s, v, r, e2, v2, k, list, fake)
    BY <2>6, <2>7, <2>8, <2>9, <2>10 DEF ListAdded, Holds, l
  <2> QED
    BY <2>11 DEF r, k, kept
<1> QED
  BY <1>3, <1>4, KeptIs

-----------------------------------------------------------------------------
(* The vector that a storage stands for.                                   *)
VectorOf(s) == [i \in 1 .. s.nb_lines_ |-> Stored(s, i - 1)]

(* It has the values of the lines, one for each.                           *)
LEMMA VectorIs ==
  ASSUME Sizes, NEW s, NEW e, NEW v, Good(s, e, v)
  PROVE  /\ s.nb_lines_ \in Nat
         /\ VectorOf(s) \in Seq(Nat) /\ Len(VectorOf(s)) = s.nb_lines_
         /\ DOMAIN VectorOf(s) = 1 .. s.nb_lines_
         /\ \A i \in 1 .. s.nb_lines_ :
              VectorOf(s)[i] = ValueOf(s, v, i - 1) /\ VectorOf(s)[i] \in Nat
<1> DEFINE n == s.nb_lines_
<1>1. Shape(s, e) /\ Coded(s, e, v) /\ n \in Nat
  BY DEF Good, Shape, Storage
<1>2. \A i \in 1 .. n : Stored(s, i - 1) = ValueOf(s, v, i - 1) /\ ValueOf(s, v, i - 1) \in Nat
  <2> SUFFICES ASSUME NEW i \in 1 .. n
               PROVE  Stored(s, i - 1) = ValueOf(s, v, i - 1) /\ ValueOf(s, v, i - 1) \in Nat
    OBVIOUS
  <2>1. i - 1 \in 0 .. s.nb_lines_ - 1
    BY <1>1
  <2> QED
    BY <1>1, <2>1, StoredIs
<1>3. VectorOf(s) = [i \in 1 .. n |-> Stored(s, i - 1)]
  BY DEF VectorOf
<1> HIDE DEF n
<1>4. /\ DOMAIN VectorOf(s) = 1 .. n
      /\ \A i \in 1 .. n : VectorOf(s)[i] = ValueOf(s, v, i - 1) /\ VectorOf(s)[i] \in Nat
  BY <1>2, <1>3
<1>5. VectorOf(s) \in Seq(Nat) /\ Len(VectorOf(s)) = n
  BY <1>1, <1>3, <1>4
<1> QED
  BY <1>1, <1>4, <1>5 DEF n

(* What LinePosition keeps is the lines that the storage keeps.            *)
LEMMA KeptLineIs ==
  ASSUME Sizes, NEW e, NEW v, Holds(storage, fakeFinalLF_, e, v),
         fakeFinalLF_ \in BOOLEAN
  PROVE  LET k == KeptLines(storage, fakeFinalLF_)
         IN  /\ k \in Nat /\ Vector!Kept \in Seq(Nat) /\ Len(Vector!Kept) = k
             /\ \A i \in 1 .. k : Vector!Kept[i] = Decoded[i]
             /\ k # 0 => Last(Vector!Kept) = ValueOf(storage, v, k - 1)
<1> DEFINE k == KeptLines(storage, fakeFinalLF_)
<1>1. /\ storage.nb_lines_ \in Nat
      /\ Decoded \in Seq(Nat) /\ Len(Decoded) = storage.nb_lines_
      /\ \A i \in 1 .. storage.nb_lines_ :
           Decoded[i] = ValueOf(storage, v, i - 1) /\ Decoded[i] \in Nat
  <2>1. Good(storage, e, v) /\ Decoded = VectorOf(storage)
    BY DEF Holds, Decoded, VectorOf
  <2> QED
    BY <2>1, VectorIs
<1>2. fakeFinalLF_ => storage.nb_lines_ # 0
  BY DEF Holds
<1> HIDE DEF k
<1>3. /\ k \in Nat /\ k <= storage.nb_lines_
      /\ Vector!Kept \in Seq(Nat) /\ Len(Vector!Kept) = k
      /\ \A i \in 1 .. k : Vector!Kept[i] = Decoded[i]
  <2>1. CASE fakeFinalLF_
    <3>1. Vector!Kept = Front(Decoded)
      BY <2>1 DEF Vector!Kept, Vector!Front, Front
    <3>2. k = storage.nb_lines_ - 1
      BY <2>1 DEF k, KeptLines
    <3>3. Len(Decoded) # 0
      BY <1>1, <1>2, <2>1
    <3>4. /\ Front(Decoded) \in Seq(Nat) /\ Len(Front(Decoded)) = Len(Decoded) - 1
          /\ \A i \in 1 .. Len(Decoded) - 1 : Front(Decoded)[i] = Decoded[i]
      BY <1>1, <3>3, FrontIs
    <3>5. k \in Nat /\ k <= storage.nb_lines_
      BY <1>1, <1>2, <2>1, <3>2
    <3> QED
      BY <1>1, <3>1, <3>2, <3>4, <3>5
  <2>2. CASE ~fakeFinalLF_
    <3>1. Vector!Kept = Decoded
      BY <2>2 DEF Vector!Kept
    <3>2. k = storage.nb_lines_
      BY <2>2 DEF k, KeptLines
    <3> QED
      BY <1>1, <3>1, <3>2
  <2> QED
    BY <2>1, <2>2
<1>4. k # 0 => Last(Vector!Kept) = ValueOf(storage, v, k - 1)
  <2> SUFFICES ASSUME k # 0 PROVE Last(Vector!Kept) = ValueOf(storage, v, k - 1)
    OBVIOUS
  <2>1. k \in 1 .. k /\ k \in 1 .. storage.nb_lines_
    BY <1>1, <1>3
  <2>2. Last(Vector!Kept) = Vector!Kept[k]
    BY <1>3 DEF Last
  <2> QED
    BY <1>1, <1>3, <2>1, <2>2
<1> QED
  BY <1>3, <1>4 DEF k

(* The lists that LinePosition allows are in order and follow the lines    *)
(* kept.                                                                   *)
LEMMA BatchIs ==
  ASSUME Sizes, NEW e, NEW v, Holds(storage, fakeFinalLF_, e, v),
         fakeFinalLF_ \in BOOLEAN, NEW fake, NEW list \in Vector!Batches(fake)
  PROVE  LET k == KeptLines(storage, fakeFinalLF_)
         IN  /\ list \in Seq(Nat)
             /\ \A i \in 1 .. Len(list) : list[i] \in 1 .. MaxPos
             /\ \A i, j \in 1 .. Len(list) : i < j => list[i] < list[j]
             /\ fake => Len(list) = 1
             /\ Len(list) # 0 /\ k # 0 => list[1] > ValueOf(storage, v, k - 1)
<1>1. PICK n \in 0 .. MaxBatch : list \in [1 .. n -> 1 .. MaxPos]
  BY DEF Vector!Batches
<1>2. n \in Nat
  BY <1>1 DEF Sizes
<1>3. list \in Seq(Nat) /\ Len(list) = n /\ DOMAIN list = 1 .. n
      /\ \A i \in 1 .. n : list[i] \in 1 .. MaxPos
  BY <1>1, <1>2
<1>4. /\ Vector!Increasing(list)
      /\ fake => Len(list) = 1
      /\ list # <<>> /\ Vector!Kept # <<>> => list[1] > Last(Vector!Kept)
  BY DEF Vector!Batches, Vector!Last, Last
<1>5. \A i, j \in 1 .. n : i < j => list[i] < list[j]
  BY <1>3, <1>4 DEF Vector!Increasing
<1> DEFINE k == KeptLines(storage, fakeFinalLF_)
<1>6. /\ k \in Nat /\ Vector!Kept \in Seq(Nat) /\ Len(Vector!Kept) = k
      /\ k # 0 => Last(Vector!Kept) = ValueOf(storage, v, k - 1)
  BY KeptLineIs
<1> HIDE DEF k
<1>7. Len(list) # 0 /\ k # 0 => list[1] > ValueOf(storage, v, k - 1)
  <2>1. Len(list) # 0 => list # <<>>
    OBVIOUS
  <2>2. k # 0 => Vector!Kept # <<>>
    BY <1>6
  <2> QED
    BY <1>4, <1>6, <2>1, <2>2
<1> QED
  BY <1>3, <1>4, <1>5, <1>7 DEF k

(* A program that dies leaves the storage as it was.                       *)
LEMMA DeadHolds ==
  ASSUME Sizes, NEW s, NEW fake, NEW e, NEW v, Holds(s, fake, e, v),
         NEW r, r = [s EXCEPT !.dead = TRUE]
  PROVE  /\ Holds(r, fake, e, v) /\ r.dead /\ r.nb_lines_ = s.nb_lines_
         /\ SameValues(s, v, r, v, s.nb_lines_)
<1>1. /\ Good(s, e, v) /\ Bounded(s, v) /\ (fake => s.nb_lines_ # 0 /\ Poppable(s, e))
      /\ Quiet => Cached(s, e, v, KeptLines(s, fake))
  BY DEF Holds
<1>2. Shape(s, e) /\ Coded(s, e, v) /\ Threads(s) /\ Pointing(s, e) /\ Current(s, v)
      /\ Long(s, v) /\ s \in Storage
  BY <1>1 DEF Good, Shape
<1>3. r \in Storage /\ r.dead /\ SameBlocks(s, r) /\ r.current_pos_ = s.current_pos_
      /\ r.last_read_ = s.last_read_ /\ r.thread_ids_ = s.thread_ids_
  BY <1>2 DEF Storage, SameBlocks
<1>4. LooksLike(s, r, e, v) /\ r.nb_lines_ = s.nb_lines_
  BY <1>2, <1>3, SameBlocksIs DEF SameBlocks
<1>5. Good(r, e, v)
  <2>1. Long(r, v)
    <3>1. 64 \in Tables
      BY DEF Tables
    <3> QED
      BY <1>2, <1>4, <3>1 DEF Long, LooksLike
  <2>2. Threads(r)
    BY <1>2, <1>3 DEF Threads
  <2> QED
    BY <1>2, <1>3, <1>4, <2>1, <2>2 DEF Good, LooksLike
<1>6. Bounded(r, v)
  BY <1>1, <1>4 DEF Bounded, LooksLike
<1>7. Quiet => Cached(r, e, v, KeptLines(r, fake))
  <2>1. KeptLines(r, fake) = KeptLines(s, fake)
    BY <1>4 DEF KeptLines
  <2> QED
    BY <1>1, <1>2, <1>3, <2>1, SameCaches
<1>8. fake => r.nb_lines_ # 0 /\ Poppable(r, e)
  BY <1>1, <1>4 DEF LooksLike
<1>9. Holds(r, fake, e, v)
  BY <1>5, <1>6, <1>7, <1>8 DEF Holds
<1>10. SameValues(s, v, r, v, s.nb_lines_)
  BY <1>4 DEF SameValues, LooksLike
<1> QED
  BY <1>3, <1>4, <1>9, <1>10

(* The vector is the lines.                                                *)
LEMMA SameVectors ==
  ASSUME Sizes, NEW s, NEW e, NEW v, Good(s, e, v), NEW r, NEW e2, NEW v2, Good(r, e2, v2),
         r.nb_lines_ = s.nb_lines_, SameValues(s, v, r, v2, s.nb_lines_)
  PROVE  VectorOf(r) = VectorOf(s)
<1>1. s.nb_lines_ \in Nat
  BY VectorIs
<1>2. ASSUME NEW i \in 1 .. s.nb_lines_
      PROVE  Stored(r, i - 1) = Stored(s, i - 1)
  <2>1. i - 1 \in 0 .. s.nb_lines_ - 1
    BY <1>1
  <2>2. Stored(s, i - 1) = ValueOf(s, v, i - 1)
    BY <2>1, StoredIs DEF Good
  <2>3. Stored(r, i - 1) = ValueOf(r, v2, i - 1)
    BY <2>1, StoredIs DEF Good
  <2> QED
    BY <2>1, <2>2, <2>3 DEF SameValues
<1> QED
  BY <1>2 DEF VectorOf

Stutters == UNCHANGED Vector!vars

(* append_list() keeps the invariant and is append_list() of the vector,   *)
(* or kills the program and leaves the vector as it is.                    *)
LEMMA AppendStep ==
  ASSUME Sizes, Switches, Undisturbed, IInv, append_list
  PROVE  IInv' /\ (Vector!Next \/ Stutters)
<1>1. PICK e, v : Holds(storage, fakeFinalLF_, e, v)
  BY DEF IInv
<1>2. fakeFinalLF_ \in {FakeLines, FALSE} /\ fakeFinalLF_ \in BOOLEAN
      /\ storage.nb_lines_ <= MaxLines /\ Good(storage, e, v)
  BY <1>1 DEF IInv, Switches, Holds
<1> DEFINE kept == KeptStorage(storage, fakeFinalLF_)
           k == KeptLines(storage, fakeFinalLF_)
<1> DEFINE Body(fake, list) ==
             /\ ~storage.dead
             /\ storage.nb_lines_ + Len(list) <= MaxLines
             /\ fake /\ StartsTable64(kept, list[1]) => LongFakes
             /\ storage' = append_all(kept, list)
             /\ fakeFinalLF_' = IF storage'.dead THEN fakeFinalLF_ ELSE fake
             /\ lastRead' = lastRead
<1>10. PICK fake \in {FakeLines, FALSE} : \E list \in Vector!Batches(fake) : Body(fake, list)
  BY DEF append_list, KeptStorage
<1>11. PICK list \in Vector!Batches(fake) : Body(fake, list)
  BY <1>10
<1>3. /\ ~storage.dead
      /\ storage.nb_lines_ + Len(list) <= MaxLines
      /\ fake /\ StartsTable64(kept, list[1]) => LongFakes
      /\ storage' = append_all(kept, list)
      /\ fakeFinalLF_' = IF storage'.dead THEN fakeFinalLF_ ELSE fake
      /\ lastRead' = lastRead
  BY <1>11
<1> HIDE DEF Body
<1>4. /\ list \in Seq(Nat)
      /\ \A i \in 1 .. Len(list) : list[i] \in 1 .. MaxPos
      /\ \A i, j \in 1 .. Len(list) : i < j => list[i] < list[j]
      /\ fake => Len(list) = 1
      /\ Len(list) # 0 /\ k # 0 => list[1] > ValueOf(storage, v, k - 1)
  BY <1>1, <1>2, BatchIs
<1>5. fake => ~FirstBig(kept, list[1])
  BY <1>3 DEF FirstBig, StartsTable64, Undisturbed
<1>6. Decoded = VectorOf(storage) /\ Decoded' = VectorOf(storage')
  BY DEF Decoded, VectorOf
<1>7. CASE storage' = [storage EXCEPT !.dead = TRUE]
  <2>1. /\ Holds(storage', fakeFinalLF_, e, v) /\ storage'.dead
        /\ storage'.nb_lines_ = storage.nb_lines_
        /\ SameValues(storage, v, storage', v, storage.nb_lines_)
    BY <1>1, <1>7, DeadHolds
  <2>2. fakeFinalLF_' = fakeFinalLF_
    BY <1>3, <2>1
  <2>3. \E e2, v2 : Holds(storage', fakeFinalLF_', e2, v2)
    BY <2>1, <2>2
  <2>4. IInv'
    BY <1>2, <2>1, <2>2, <2>3 DEF IInv
  <2>5. Decoded' = Decoded
    <3>1. Good(storage', e, v)
      BY <2>1 DEF Holds
    <3> QED
      BY <1>2, <1>6, <2>1, <3>1, SameVectors
  <2>6. Stutters
    BY <1>3, <2>2, <2>5 DEF Stutters, Vector!vars
  <2> QED
    BY <2>4, <2>6
<1>8. ASSUME NEW e2, NEW v2, ListAdded(storage, v, storage', e2, v2, k, list, fake)
      PROVE  IInv' /\ Vector!Next
  <2>1. /\ Holds(storage', fake, e2, v2) /\ ~storage'.dead
        /\ storage'.nb_lines_ = k + Len(list)
        /\ SameValues(storage, v, storage', v2, k)
        /\ \A i \in 1 .. Len(list) : ValueOf(storage', v2, k + i - 1) = list[i]
    BY <1>8 DEF ListAdded
  <2>2. fakeFinalLF_' = fake
    BY <1>3, <2>1
  <2>3. k \in Nat /\ k <= storage.nb_lines_ /\ storage.nb_lines_ \in Nat /\ MaxLines \in Nat
    <3>1. storage.nb_lines_ \in Nat
      BY <1>2 DEF Good, Shape, Storage
    <3>2. k \in Nat
      BY <1>1, <1>2, KeptLineIs
    <3>3. k = storage.nb_lines_ \/ k = storage.nb_lines_ - 1
      BY DEF KeptLines
    <3> HIDE DEF k
    <3> QED
      BY <3>1, <3>2, <3>3 DEF Sizes
  <2>4. IInv'
    <3>1. \E e3, v3 : Holds(storage', fakeFinalLF_', e3, v3)
      BY <2>1, <2>2
    <3>2. storage'.nb_lines_ <= MaxLines
      <4> HIDE DEF k
      <4>1. Len(list) \in Nat
        BY <1>4
      <4> QED
        BY <1>3, <2>1, <2>3, <4>1
    <3> QED
      BY <2>2, <3>1, <3>2 DEF IInv
  <2>5. Decoded' = Vector!Kept \o list
    <3> DEFINE l == Len(list)
               w == Vector!Kept \o list
    <3>1. l \in Nat
      BY <1>4
    <3>2. /\ Vector!Kept \in Seq(Nat) /\ Len(Vector!Kept) = k
          /\ \A i \in 1 .. k : Vector!Kept[i] = Decoded[i]
      BY <1>1, <1>2, KeptLineIs
    <3> HIDE DEF k, l
    <3>3. /\ w \in Seq(Nat) /\ Len(w) = k + l
          /\ \A i \in 1 .. k : w[i] = Decoded[i]
          /\ \A i \in 1 .. l : w[k + i] = list[i]
      <4>1. Len(w) = k + l /\ w \in Seq(Nat)
        <5>1. list \in Seq(Nat) /\ Vector!Kept \in Seq(Nat)
          BY <1>4, <3>2
        <5>2. w \in Seq(Nat) /\ Len(w) = Len(Vector!Kept) + Len(list)
          BY <5>1, ConcatProperties
        <5> QED
          BY <3>2, <5>2 DEF l
      <4>2. ASSUME NEW i \in 1 .. k PROVE w[i] = Decoded[i]
        <5>1. w[i] = Vector!Kept[i]
          BY <1>4, <3>1, <3>2, <2>3 DEF l
        <5> QED
          BY <3>2, <5>1
      <4>3. ASSUME NEW i \in 1 .. l PROVE w[k + i] = list[i]
        BY <1>4, <3>1, <3>2, <2>3 DEF l
      <4> QED
        BY <4>1, <4>2, <4>3
    <3>4. /\ DOMAIN Decoded' = 1 .. (k + l)
          /\ \A i \in 1 .. (k + l) : Decoded'[i] = ValueOf(storage', v2, i - 1)
      <4>1. Good(storage', e2, v2)
        BY <2>1 DEF Holds
      <4>2. storage'.nb_lines_ = k + l
        BY <2>1 DEF l
      <4> QED
        BY <1>6, <4>1, <4>2, VectorIs
    <3>5. /\ \A i \in 1 .. storage.nb_lines_ : Decoded[i] = ValueOf(storage, v, i - 1)
      BY <1>2, <1>6, VectorIs
    <3> HIDE DEF w
    <3>6. ASSUME NEW i \in 1 .. (k + l) PROVE Decoded'[i] = w[i]
      <4>1. CASE i <= k
        <5>1. i \in 1 .. k /\ i \in 1 .. storage.nb_lines_ /\ i - 1 \in 0 .. k - 1
          BY <2>3, <3>1, <4>1
        <5>2. ValueOf(storage', v2, i - 1) = ValueOf(storage, v, i - 1)
          BY <2>1, <5>1 DEF SameValues
        <5> QED
          BY <3>3, <3>4, <3>5, <5>1, <5>2
      <4>2. CASE ~(i <= k)
        <5>1. i - k \in 1 .. l /\ k + (i - k) = i /\ k + (i - k) - 1 = i - 1
          BY <2>3, <3>1, <4>2
        <5>2. ValueOf(storage', v2, i - 1) = list[i - k]
          <6>1. \A j \in 1 .. l : ValueOf(storage', v2, k + j - 1) = list[j]
            BY <2>1 DEF l
          <6> QED
            BY <5>1, <6>1
        <5>3. w[i] = list[i - k]
          BY <3>3, <5>1
        <5> QED
          BY <3>4, <5>2, <5>3
      <4> QED
        BY <4>1, <4>2
    <3>7. DOMAIN w = 1 .. (k + l)
      BY <3>3
    <3>8. Decoded' = [i \in DOMAIN Decoded' |-> Decoded'[i]]
      BY <1>6 DEF VectorOf
    <3>9. w = [i \in DOMAIN w |-> w[i]]
      BY <3>3
    <3>10. Decoded' = w
      BY <3>4, <3>6, <3>7, <3>8, <3>9
    <3> QED
      BY <3>10 DEF w
  <2>6. Vector!append_list(list, fake)
    BY <1>3, <2>2, <2>5 DEF Vector!append_list
  <2>7. fake \in BOOLEAN
    BY DEF Switches
  <2> QED
    BY <2>4, <2>6, <2>7 DEF Vector!Next
<1>9. \/ storage' = [storage EXCEPT !.dead = TRUE]
      \/ \E e2, v2 : ListAdded(storage, v, storage', e2, v2, k, list, fake)
  BY <1>1, <1>2, <1>3, <1>4, <1>5, AppendListHolds
<1> QED
  BY <1>7, <1>8, <1>9

(* A read is right when nothing moves or empties what the caches point to. *)
ReadsHold == Readers = {} \/ (~ReallocMoves /\ ~Reloads)
ReadsTyped == lastRead \in [Readers -> 0 .. MaxPos]

(* getPosForLine() keeps the invariant and is at() of the vector.          *)
LEMMA ReadStep ==
  ASSUME Sizes, Switches, Undisturbed, IInv, getPosForLine
  PROVE  IInv' /\ (ReadsHold => Vector!Next /\ (ReadsTyped => ReadsTyped'))
<1>1. PICK e, v : Holds(storage, fakeFinalLF_, e, v)
  BY DEF IInv
<1>2. fakeFinalLF_ \in {FakeLines, FALSE} /\ storage.nb_lines_ <= MaxLines
      /\ Good(storage, e, v) /\ Bounded(storage, v)
  BY <1>1 DEF IInv, Holds
<1>3. PICK t \in Readers, index \in 0 .. storage.nb_lines_ - 1 :
        /\ storage' = at(storage, t, index)
        /\ lastRead' = [lastRead EXCEPT ![t] = LastReadBy(storage', t)]
        /\ fakeFinalLF_' = fakeFinalLF_
  BY DEF getPosForLine
<1> DEFINE r == at(storage, t, index)
<1>4. /\ Holds(r, fakeFinalLF_, e, v) /\ SameBlocks(storage, r)
      /\ Quiet => LastReadBy(r, t) = ValueOf(storage, v, index)
  BY <1>1, <1>2, ReadHolds
<1> HIDE DEF r
<1>5. storage' = r
  BY <1>3 DEF r
<1>6. r.nb_lines_ = storage.nb_lines_ /\ Good(r, e, v)
  BY <1>4 DEF SameBlocks, Holds
<1>7. IInv'
  <2>1. \E e2, v2 : Holds(storage', fakeFinalLF_', e2, v2)
    BY <1>3, <1>4, <1>5
  <2>2. storage'.nb_lines_ <= MaxLines
    BY <1>2, <1>5, <1>6
  <2> QED
    BY <1>2, <1>3, <2>1, <2>2 DEF IInv
<1>8. ASSUME ReadsHold
      PROVE  LastReadBy(storage', t) = ValueOf(storage, v, index)
  <2>1. Quiet
    BY <1>8 DEF ReadsHold, Quiet, Undisturbed
  <2> QED
    BY <1>4, <1>5, <2>1
<1>9. storage.nb_lines_ \in Nat /\ index + 1 \in 1 .. storage.nb_lines_ /\ (index + 1) - 1 = index
  <2>1. storage.nb_lines_ \in Nat
    BY <1>2, VectorIs
  <2> QED
    BY <2>1
<1>10. ASSUME ReadsHold
       PROVE  Vector!Next
  <2>1. /\ Decoded = VectorOf(storage) /\ Decoded' = VectorOf(r)
        /\ DOMAIN Decoded = 1 .. storage.nb_lines_
        /\ Decoded[index + 1] = ValueOf(storage, v, index)
    <3>1. Decoded = VectorOf(storage) /\ Decoded' = VectorOf(r)
      BY <1>5 DEF Decoded, VectorOf
    <3>2. /\ DOMAIN VectorOf(storage) = 1 .. storage.nb_lines_
          /\ \A i \in 1 .. storage.nb_lines_ : VectorOf(storage)[i] = ValueOf(storage, v, i - 1)
      BY <1>2, VectorIs
    <3>3. VectorOf(storage)[index + 1] = ValueOf(storage, v, (index + 1) - 1)
      BY <1>9, <3>2
    <3> QED
      BY <1>9, <3>1, <3>2, <3>3
  <2>2. Decoded' = Decoded
    <3>1. LooksLike(storage, r, e, v)
      BY <1>2, <1>4, SameBlocksIs DEF Good
    <3>2. SameValues(storage, v, r, v, storage.nb_lines_)
      BY <3>1 DEF SameValues, LooksLike
    <3> QED
      BY <1>2, <1>6, <2>1, <3>2, SameVectors
  <2>3. lastRead' = [lastRead EXCEPT ![t] = Decoded[index + 1]]
    BY <1>3, <1>8, <1>10, <2>1
  <2>4. index + 1 \in DOMAIN Decoded
    BY <1>9, <2>1
  <2>5. Vector!at(t, index + 1)
    BY <1>3, <2>2, <2>3, <2>4 DEF Vector!at
  <2> QED
    BY <2>4, <2>5 DEF Vector!Next
<1>11. ASSUME ReadsHold, ReadsTyped
       PROVE  ReadsTyped'
  <2>1. LastReadBy(storage', t) \in 0 .. MaxPos
    BY <1>2, <1>8, <1>11 DEF Bounded, Sizes
  <2> QED
    BY <1>3, <1>11, <2>1 DEF ReadsTyped
<1> QED
  BY <1>7, <1>10, <1>11

(* clear() keeps the invariant and is clear() of the vector.               *)
LEMMA ClearStep ==
  ASSUME Sizes, IInv, clear
  PROVE  IInv' /\ Vector!Next
<1>1. IInv'
  BY ClearHolds
<1>2. storage'.nb_lines_ = 0
  BY DEF clear, Empty
<1>3. Decoded' = <<>>
  BY <1>2 DEF Decoded
<1>4. Vector!clear
  BY <1>3 DEF clear, Vector!clear
<1> QED
  BY <1>1, <1>4 DEF Vector!Next

(* Only reads change what the readers read last.                           *)
LEMMA StepKeeps ==
  ASSUME Sizes, Switches, Undisturbed, IInv, [Next]_vars
  PROVE  /\ IInv'
         /\ ReadsHold => [Vector!Next]_(Vector!vars)
         /\ ReadsHold /\ ReadsTyped => ReadsTyped'
<1>1. CASE append_list
  <2>1. lastRead' = lastRead
    BY <1>1 DEF append_list
  <2> QED
    BY <1>1, <2>1, AppendStep DEF Stutters, ReadsTyped
<1>2. CASE clear
  <2>1. lastRead' = lastRead
    BY <1>2 DEF clear
  <2> QED
    BY <1>2, <2>1, ClearStep DEF ReadsTyped
<1>3. CASE getPosForLine
  BY <1>3, ReadStep
<1>4. CASE UNCHANGED vars
  <2>1. storage' = storage /\ fakeFinalLF_' = fakeFinalLF_ /\ lastRead' = lastRead
    BY <1>4 DEF vars
  <2>2. IInv'
    BY <2>1 DEF IInv
  <2>3. UNCHANGED Vector!vars
    BY <2>1 DEF Vector!vars, Decoded
  <2> QED
    BY <2>1, <2>2, <2>3 DEF ReadsTyped
<1> QED
  BY <1>1, <1>2, <1>3, <1>4 DEF Next

(* The invariant, for every value of the constants.                        *)
LEMMA Inductive ==
  ASSUME Undisturbed
  PROVE  Spec => []IInv
<1>1. Init => IInv
  BY InitHolds, Constants
<1>2. IInv /\ [Next]_vars => IInv'
  BY StepKeeps, Constants
<1> QED
  BY <1>1, <1>2, PTL DEF Spec

(* Ownership as the checked invariant states it, over the two indexes one  *)
(* after the other.                                                        *)
LEMMA OwnedOnce ==
  ASSUME NEW s, NEW e, Shape(s, e)
  PROVE  /\ \A b \in DOMAIN s.blocks :
              s.blocks[b].size # 0 <=> b \in ToSet(s.index32) \cup ToSet(s.index64)
         /\ IsInjective(s.index32 \o s.index64)
<1> DEFINE f == s.index32
           g == s.index64
           w == f \o g
<1>1. s \in Storage /\ Owned(s)
  BY DEF Shape
<1>2. f \in Seq(Nat) /\ g \in Seq(Nat)
  BY <1>1 DEF Storage
<1>3. 32 \in Tables /\ 64 \in Tables /\ IndexOf(s, 32) = f /\ IndexOf(s, 64) = g
      /\ \A T \in Tables : T = 32 \/ T = 64
  BY DEF Tables, IndexOf
<1> HIDE DEF f, g
<1>4. /\ \A i, j \in DOMAIN f : f[i] = f[j] => i = j
      /\ \A i, j \in DOMAIN g : g[i] = g[j] => i = j
      /\ \A i \in DOMAIN f, j \in DOMAIN g : f[i] # g[j]
  <2>1. \A T, U \in Tables : \A i \in DOMAIN IndexOf(s, T), j \in DOMAIN IndexOf(s, U) :
          IndexOf(s, T)[i] = IndexOf(s, U)[j] => T = U /\ i = j
    BY <1>1 DEF Owned
  <2>2. 32 # 64
    OBVIOUS
  <2> QED
    BY <1>3, <2>1, <2>2
<1>5. \A b : (b \in ToSet(f) \cup ToSet(g)) <=>
             \E T \in Tables : \E j \in DOMAIN IndexOf(s, T) : IndexOf(s, T)[j] = b
  <2>1. \A b : b \in ToSet(f) <=> \E j \in DOMAIN f : f[j] = b
    BY DEF ToSet
  <2>2. \A b : b \in ToSet(g) <=> \E j \in DOMAIN g : g[j] = b
    BY DEF ToSet
  <2> QED
    BY <1>3, <2>1, <2>2
<1>6. \A b \in DOMAIN s.blocks : s.blocks[b].size # 0 <=> b \in ToSet(f) \cup ToSet(g)
  BY <1>1, <1>5 DEF Owned
<1>7. IsInjective(w)
  <2>1. w \in Seq(Nat) /\ Len(w) = Len(f) + Len(g)
        /\ \A i \in 1 .. Len(f) + Len(g) :
             w[i] = IF i <= Len(f) THEN f[i] ELSE g[i - Len(f)]
    BY <1>2, ConcatProperties
  <2> DEFINE m == Len(f)
             n == Len(g)
  <2>2. m \in Nat /\ n \in Nat /\ DOMAIN f = 1 .. m /\ DOMAIN g = 1 .. n
        /\ DOMAIN w = 1 .. (m + n)
    BY <1>2, <2>1
  <2>3. \A i \in 1 .. (m + n) : w[i] = IF i <= m THEN f[i] ELSE g[i - m]
    BY <2>1
  <2> HIDE DEF m, n, w
  <2> SUFFICES ASSUME NEW a \in 1 .. (m + n), NEW b \in 1 .. (m + n), w[a] = w[b]
               PROVE  a = b
    BY <2>2 DEF IsInjective
  <2>4. CASE a <= m /\ b <= m
    BY <1>4, <2>2, <2>3, <2>4
  <2>5. CASE a <= m /\ ~(b <= m)
    <3>1. a \in DOMAIN f /\ b - m \in DOMAIN g /\ w[a] = f[a] /\ w[b] = g[b - m]
      BY <2>2, <2>3, <2>5
    <3> QED
      BY <1>4, <3>1
  <2>6. CASE ~(a <= m) /\ b <= m
    <3>1. b \in DOMAIN f /\ a - m \in DOMAIN g /\ w[b] = f[b] /\ w[a] = g[a - m]
      BY <2>2, <2>3, <2>6
    <3> QED
      BY <1>4, <3>1
  <2>7. CASE ~(a <= m) /\ ~(b <= m)
    <3>1. a - m \in DOMAIN g /\ b - m \in DOMAIN g /\ w[a] = g[a - m] /\ w[b] = g[b - m]
      BY <2>2, <2>3, <2>7
    <3>2. a - m = b - m
      BY <1>4, <3>1
    <3> QED
      BY <2>2, <3>2
  <2> QED
    BY <2>4, <2>5, <2>6, <2>7
<1> QED
  BY <1>6, <1>7 DEF f, g, w

(* Every block allocated is in one place of one of the tables until it is  *)
(* freed: none leaks, none is freed twice.                                 *)
THEOREM BlocksAlwaysOwned ==
  ASSUME Undisturbed
  PROVE  Spec => []BlocksOwned
<1>1. IInv => BlocksOwned
  <2> SUFFICES ASSUME IInv PROVE BlocksOwned
    OBVIOUS
  <2>1. PICK e, v : Shape(storage, e)
    BY DEF IInv, Holds, Good
  <2> QED
    BY <2>1, OwnedOnce DEF BlocksOwned
<1> QED
  BY <1>1, Inductive, PTL

(* What the next append() and pop_back() go by is right, whether blocks    *)
(* were opened, finished or reopened: nothing is written past the end of a *)
(* block, the current position is the last line's, and the pointer to      *)
(* where its entry went is null exactly when it opened its block.          *)
THEOREM AlwaysReadyToAppend ==
  ASSUME Undisturbed
  PROVE  Spec => []ReadyToAppend
<1>1. IInv => CurrentPosition
  <2> SUFFICES ASSUME IInv, storage.nb_lines_ # 0
               PROVE  storage.current_pos_ = Stored(storage, storage.nb_lines_ - 1)
    BY DEF CurrentPosition
  <2>1. PICK e, v : Good(storage, e, v)
    BY DEF IInv, Holds
  <2>2. storage.current_pos_ = ValueOf(storage, v, storage.nb_lines_ - 1)
    BY <2>1, CurrentIsLast
  <2>3. storage.nb_lines_ - 1 \in 0 .. storage.nb_lines_ - 1
    BY <2>1 DEF Good, Shape, Storage
  <2> QED
    BY <2>1, <2>2, <2>3, StoredIs, Constants DEF Good
<1>2. IInv => ReadyToPop
  <2> SUFFICES ASSUME IInv, fakeFinalLF_
               PROVE  storage.previous_block_pointer_ = nullptr <=>
                        LineInTable(storage, storage.nb_lines_ - 1) % BLOCK_SIZE = 0
    BY DEF ReadyToPop
  <2>1. PICK e, v : Good(storage, e, v) /\ storage.nb_lines_ # 0 /\ Poppable(storage, e)
    BY DEF IInv, Holds
  <2> DEFINE T == Growing(storage)
             n == Lines(storage, T)
  <2>2. storage \in Storage /\ Counted(storage) /\ Indexed(storage)
    BY <2>1 DEF Good, Shape
  <2>3. T \in Tables /\ n \in Nat /\ n # 0
    <3>1. T \in Tables
      BY DEF Growing, Tables
    <3> HIDE DEF T
    <3> QED
      BY <2>1, <2>2, <3>1, LineCounts DEF T
  <2>4. LineInTable(storage, storage.nb_lines_ - 1) = n - 1
    BY <2>1, <2>2, LastLine
  <2>5. storage.previous_block_pointer_ =
           IF Col(n - 1) = 0 THEN nullptr
           ELSE [block |-> BlockOf(storage, T, n - 1), offset |-> e[T][n - 2]]
    BY <2>1 DEF Poppable
  <2>6. BlockOf(storage, T, n - 1) # 0
    <3>1. n - 1 \in 0 .. Lines(storage, T) - 1
      BY <2>3
    <3> HIDE DEF T, n
    <3> QED
      BY <2>2, <2>3, <3>1, BlockOfLine, Constants
  <2> HIDE DEF T, n
  <2>7. [block |-> BlockOf(storage, T, n - 1), offset |-> e[T][n - 2]] # nullptr
    BY <2>6 DEF nullptr
  <2> QED
    BY <2>4, <2>5, <2>7 DEF Col
<1>3. IInv => EntriesFit
  BY DEF IInv, Holds, Good, Shape, Fitting, EntriesFit
<1>4. IInv => ReadyToAppend
  BY <1>1, <1>2, <1>3 DEF ReadyToAppend
<1> QED
  BY <1>4, Inductive, PTL

(* An empty storage is an empty vector.                                    *)
LEMMA InitMaps ==
  ASSUME Sizes, Init
  PROVE  Vector!Init /\ ReadsTyped
<1>1. storage.nb_lines_ = 0 /\ fakeFinalLF_ = FALSE /\ lastRead = [t \in Readers |-> 0]
  BY DEF Init, Empty
<1>2. Decoded = <<>>
  BY <1>1 DEF Decoded
<1>3. 0 \in 0 .. MaxPos
  BY DEF Sizes
<1> QED
  BY <1>1, <1>2, <1>3 DEF Vector!Init, ReadsTyped

(* "It emulates the interface of a vector": the storage implements         *)
(* LinePosition, its lines what was appended and what is read of them what *)
(* they are.                                                               *)
THEOREM StorageEmulatesVector ==
  ASSUME Undisturbed, ReadsHold
  PROVE  Spec => EmulatesVector
<1>1. Init => Vector!Init
  BY InitMaps, Constants
<1>2. IInv /\ [Next]_vars => [Vector!Next]_(Vector!vars)
  BY StepKeeps, Constants
<1> QED
  BY <1>1, <1>2, Inductive, PTL DEF Spec, EmulatesVector, Vector!Spec

(* The invariant gives the types.                                          *)
LEMMA TypesHold ==
  ASSUME Sizes, Switches, IInv, ReadsTyped
  PROVE  TypeOK
<1>1. PICK e, v : Good(storage, e, v)
  BY DEF IInv, Holds
<1>2. storage \in Storage /\ Counted(storage) /\ Indexed(storage) /\ Threads(storage)
  BY <1>1 DEF Good, Shape
<1>3. DOMAIN storage = DOMAIN Empty
  BY <1>2 DEF Storage, Empty
<1>4. storage.nb_lines_ \in Nat /\ storage.nb_lines_ <= MaxLines
  BY <1>2 DEF Storage, IInv
<1>5. storage.first_long_line_ \in 0..MaxLines \cup {Unset}
  <2>1. storage.first_long_line_ \in Nat
    BY <1>2 DEF Storage
  <2> QED
    BY <1>2, <1>4, <2>1 DEF Counted, Sizes
<1>6. DOMAIN storage.last_read_ = {1, 2} /\ storage.thread_ids_ \in Seq(Readers \cup {Worker})
  BY <1>2 DEF Storage
<1>7. ToSet(storage.index32) \cup ToSet(storage.index64) \subseteq DOMAIN storage.blocks
  <2>1. 32 \in Tables /\ 64 \in Tables /\ IndexOf(storage, 32) = storage.index32
        /\ IndexOf(storage, 64) = storage.index64
    BY DEF Tables, IndexOf
  <2> QED
    BY <1>2, <2>1 DEF Indexed, ToSet
<1>8. lastRead \in [Readers -> {Garbage} \cup 0..MaxPos]
  BY DEF ReadsTyped
<1> QED
  BY <1>2, <1>3, <1>4, <1>5, <1>6, <1>7, <1>8 DEF TypeOK, Threads, IInv, Switches

(* The storage keeps its type, and what the readers read is a position.    *)
THEOREM StorageTypeOK ==
  ASSUME Undisturbed, ReadsHold
  PROVE  Spec => []TypeOK
<1>1. Init => ReadsTyped
  BY InitMaps, Constants
<1>2. IInv /\ ReadsTyped /\ [Next]_vars => ReadsTyped'
  BY StepKeeps, Constants
<1>3. IInv /\ ReadsTyped => TypeOK
  BY TypesHold, Constants
<1> QED
  BY <1>1, <1>2, <1>3, Inductive, PTL DEF Spec
=============================================================================
