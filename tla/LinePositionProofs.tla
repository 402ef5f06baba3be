------------------------- MODULE LinePositionProofs -------------------------
(* What holds of the list of line ends for every bound on the positions.   *)
EXTENDS LinePosition, TLAPS, SequenceTheorems

(* What is kept when lines are added: the list less a fake end of line.    *)
LEMMA KeptList ==
  ASSUME TypeOK, FakeIsThere, Sorted
  PROVE  /\ Kept \in Seq(1..MaxPos)
         /\ Len(Kept) <= Len(array)
         /\ \A i \in 1..Len(Kept) : Kept[i] = array[i]
         /\ Increasing(Kept)
<1>1. array \in Seq(1..MaxPos)
  BY DEF TypeOK
<1>2. CASE fakeFinalLF_
  <2>1. array # <<>> /\ Kept = SubSeq(array, 1, Len(array) - 1)
    BY <1>2 DEF FakeIsThere, Kept, Front
  <2>2. Len(array) \in Nat /\ Len(array) # 0
    BY <1>1, <2>1
  <2>3. /\ Kept \in Seq(1..MaxPos) /\ Len(Kept) = Len(array) - 1
        /\ \A i \in 1..Len(Kept) : Kept[i] = array[i]
    <3>1. ASSUME NEW i \in 1 .. Len(array) - 1
          PROVE  array[i] \in 1..MaxPos
      <4>1. i \in 1 .. Len(array)
        BY <2>2
      <4> QED
        BY <1>1, <4>1, ElementOfSeq
    <3> DEFINE n == Len(array) - 1
    <3>3. n \in Int /\ 1 \in Int /\ (1 <= n => n - 1 + 1 = n) /\ (~(1 <= n) => n = 0)
      BY <2>2
    <3>2. /\ SubSeq(array, 1, Len(array) - 1) \in Seq(1..MaxPos)
          /\ Len(SubSeq(array, 1, Len(array) - 1)) = Len(array) - 1
          /\ \A i \in 1 .. Len(array) - 1 :
               SubSeq(array, 1, Len(array) - 1)[i] = array[i]
      <4> HIDE DEF n
      <4>1. /\ SubSeq(array, 1, n) \in Seq(1..MaxPos)
            /\ Len(SubSeq(array, 1, n)) = IF 1 <= n THEN n - 1 + 1 ELSE 0
            /\ \A i \in 1 .. n - 1 + 1 : SubSeq(array, 1, n)[i] = array[1 + i - 1]
        <5>1. \A i \in 1 .. n : array[i] \in 1..MaxPos
          BY <3>1 DEF n
        <5> QED
          BY <3>3, <5>1, SubSeqProperties
      <4>2. /\ Len(SubSeq(array, 1, n)) = n
            /\ \A i \in 1 .. n : SubSeq(array, 1, n)[i] = array[i]
        BY <3>3, <4>1
      <4> QED
        BY <4>1, <4>2 DEF n
    <3> QED
      BY <2>1, <3>2
  <2>4. Increasing(Kept)
    <3>1. DOMAIN Kept = 1 .. Len(Kept) /\ DOMAIN array = 1 .. Len(array)
      BY <1>1, <2>3
    <3> QED
      BY <2>2, <2>3, <3>1 DEF Sorted, Increasing
  <2> QED
    BY <2>2, <2>3, <2>4
<1>3. CASE ~fakeFinalLF_
  BY <1>1, <1>3 DEF Kept, Sorted
<1> QED
  BY <1>2, <1>3

Inv == TypeOK /\ FakeIsThere /\ Sorted

LEMMA EmptyList ==
  ASSUME array = <<>>, fakeFinalLF_ = FALSE
  PROVE  /\ array \in Seq(1..MaxPos) /\ fakeFinalLF_ \in BOOLEAN
         /\ FakeIsThere /\ Sorted
<1>1. array \in Seq(1..MaxPos) /\ DOMAIN array = {}
  OBVIOUS
<1>2. Sorted
  BY <1>1 DEF Sorted, Increasing
<1>3. FakeIsThere /\ fakeFinalLF_ \in BOOLEAN
  BY DEF FakeIsThere
<1> QED
  BY <1>1, <1>2, <1>3

LEMMA InvInit == Init => Inv
<1> SUFFICES ASSUME Init PROVE Inv
  OBVIOUS
<1>1. lastRead \in [Readers -> Nat]
  BY DEF Init
<1> QED
  BY <1>1, EmptyList DEF Init, Inv, TypeOK

LEMMA InvStep ==
  ASSUME MaxPos \in Nat, MaxBatch \in Nat, Inv, [Next]_vars
  PROVE  Inv'
<1> USE DEF Inv
<1>1. ASSUME NEW fake \in BOOLEAN, NEW list \in Batches(fake),
             append_list(list, fake)
      PROVE  Inv'
  <2>1. /\ Kept \in Seq(1..MaxPos) /\ Increasing(Kept)
    BY KeptList
  <2>2. /\ list \in Seq(1..MaxPos) /\ Increasing(list)
        /\ fake => Len(list) = 1
        /\ list # <<>> /\ Kept # <<>> => list[1] > Last(Kept)
    BY <1>1 DEF Batches
  <2>3. array' = Kept \o list /\ fakeFinalLF_' = fake /\ lastRead' = lastRead
    BY <1>1 DEF append_list
  <2>4. TypeOK'
    BY <2>1, <2>2, <2>3 DEF TypeOK
  <2>5. FakeIsThere'
    <3>1. CASE fake
      <4>1. Len(Kept) \in Nat /\ Len(list) = 1 /\ Len(Kept \o list) = Len(Kept) + 1
        BY <2>1, <2>2, <3>1, ConcatProperties, LenProperties
      <4> QED
        BY <2>3, <4>1 DEF FakeIsThere
    <3>2. CASE ~fake
      BY <2>3, <3>2 DEF FakeIsThere
    <3> QED
      BY <3>1, <3>2
  <2>6. Sorted'
    <3> DEFINE k == Len(Kept)
               joined == Kept \o list
    <3>1. /\ k \in Nat /\ Len(list) \in Nat /\ Len(joined) = k + Len(list)
          /\ DOMAIN joined = 1 .. k + Len(list)
          /\ \A i \in 1 .. k : joined[i] = Kept[i] /\ Kept[i] \in Nat
          /\ \A i \in k + 1 .. k + Len(list) :
               /\ i - k \in 1 .. Len(list)
               /\ joined[i] = list[i - k]
               /\ list[i - k] \in Nat
      BY <2>1, <2>2, SMTT(30)
    <3>2. SUFFICES ASSUME NEW i \in 1 .. k + Len(list),
                          NEW j \in 1 .. k + Len(list), i < j
                   PROVE  joined[i] < joined[j]
      BY <2>3, <3>1 DEF Sorted, Increasing
    <3>3. CASE j <= k
      BY <2>1, <3>1, <3>2, <3>3 DEF Increasing
    <3>4. CASE i > k
      BY <2>2, <3>1, <3>2, <3>4, SMTT(30) DEF Increasing
    <3>5. CASE i <= k /\ j > k
      <4>1. list # <<>> /\ Kept # <<>> /\ Last(Kept) = Kept[k]
        BY <2>1, <2>2, <3>1, <3>5 DEF Last
      <4>2. list[1] > Kept[k] /\ Kept[k] \in Nat /\ list[1] \in Nat
        BY <2>1, <2>2, <3>1, <3>5, <4>1
      <4>3. Kept[i] <= Kept[k]
        <5>1. i \in DOMAIN Kept /\ k \in DOMAIN Kept /\ i \in Nat
          BY <2>1, <3>5
        <5>2. i < k => Kept[i] < Kept[k]
          BY <2>1, <5>1 DEF Increasing
        <5> QED
          BY <3>1, <3>5, <5>1, <5>2
      <4>4. list[1] <= list[j - k]
        <5>1. 1 \in DOMAIN list /\ j - k \in DOMAIN list /\ j - k \in Nat
          BY <2>2, <3>1, <3>5
        <5>2. 1 < j - k => list[1] < list[j - k]
          BY <2>2, <5>1 DEF Increasing
        <5>3. j - k = 1 \/ 1 < j - k
          BY <5>1, <3>1, <3>5
        <5>4. list[j - k] \in Nat
          BY <2>2, <5>1
        <5> QED
          BY <4>2, <5>2, <5>3, <5>4
      <4> QED
        BY <3>1, <3>5, <4>2, <4>3, <4>4
    <3> QED
      BY <3>1, <3>3, <3>4, <3>5
  <2> QED
    BY <2>4, <2>5, <2>6
<1>2. CASE clear
  <2>1. array' = <<>> /\ fakeFinalLF_' = FALSE /\ lastRead' = lastRead
    BY <1>2 DEF clear
  <2>2. array' \in Seq(1..MaxPos) /\ DOMAIN array' = {}
    BY <2>1
  <2>3. Sorted'
    BY <2>2 DEF Sorted, Increasing
  <2>4. FakeIsThere' /\ fakeFinalLF_' \in BOOLEAN
    BY <2>1 DEF FakeIsThere
  <2> QED
    BY <2>1, <2>2, <2>3, <2>4 DEF TypeOK
<1>3. ASSUME NEW t \in Readers, NEW i \in DOMAIN array, at(t, i)
      PROVE  Inv'
  <2>1. array[i] \in Nat
    BY DEF TypeOK
  <2> QED
    BY <1>3, <2>1 DEF at, TypeOK, FakeIsThere, Sorted, Increasing
<1>4. CASE UNCHANGED vars
  BY <1>4 DEF vars, TypeOK, FakeIsThere, Sorted, Increasing
<1> QED
  BY <1>1, <1>2, <1>3, <1>4 DEF Next

(* The ends of the lines are in order, whatever fake ones came and went:   *)
(* the callers of append_list() need only look at the lines that stay.     *)
THEOREM LinesSorted ==
  ASSUME MaxPos \in Nat, MaxBatch \in Nat
  PROVE  Spec => []Sorted
<1>1. Inv => Sorted
  BY DEF Inv
<1>2. Inv /\ [Next]_vars => Inv'
  BY InvStep
<1> QED
  BY <1>1, <1>2, InvInit, PTL DEF Spec

(* There is an end of line to take back whenever pop_back() is called.     *)
THEOREM FakeLineThere ==
  ASSUME MaxPos \in Nat, MaxBatch \in Nat
  PROVE  Spec => []FakeIsThere
<1>1. Inv => FakeIsThere
  BY DEF Inv
<1>2. Inv /\ [Next]_vars => Inv'
  BY InvStep
<1> QED
  BY <1>1, <1>2, InvInit, PTL DEF Spec
=============================================================================
