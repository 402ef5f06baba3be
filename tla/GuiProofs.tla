------------------------------ MODULE GuiProofs ------------------------------
(***************************************************************************)
(* Proofs about the parts of the graphical interface, for every value of   *)
(* their constants: the encoding of a log, the colour schemes, the         *)
(* processes of a desktop and the windows of a process.                    *)
(*                                                                         *)
(* A step of Gui is a step of the part in use, or changes nothing of it:   *)
(* an invariant of the part is one of Gui, as long as the part is in use.  *)
(***************************************************************************)
EXTENDS Gui, Lists, TLAPS, NaturalsInduction, WellFoundedInduction,
        FiniteSetTheorems

(* The steps of the encoding. *)
LEMMA EncodingSteps ==
  ASSUME use = "encoding", [Next]_vars
  PROVE  [Read!Next]_(Read!vars)
BY DEF Next, vars, encodingVars, Read!vars, InFind, InView, InListed, InTabs,
       InRun, InRead, InColors, InSchemes, Read!Next

(* The steps of the colour schemes. *)
LEMMA SchemesSteps ==
  ASSUME use = "schemes", [Next]_vars
  PROVE  [Store!Next]_(Store!vars)
BY DEF Next, vars, schemesVars, Store!vars, Store!store, InFind, InView,
       InListed, InTabs, InRun, InRead, InColors, InSchemes

(* The steps of the processes of a desktop. *)
LEMMA RunSteps ==
  ASSUME use = "instances", [Next]_vars
  PROVE  [Run!Next]_(Run!vars)
BY DEF Next, vars, instancesVars, Run!vars, InFind, InView, InListed, InTabs,
       InRun, InRead, InColors, InSchemes, Run!Next

(* The steps of the windows. *)
LEMMA TabsSteps ==
  ASSUME use = "windows", [Next]_vars
  PROVE  [Tabs!Next]_(Tabs!vars)
BY DEF Next, vars, windowsVars, Tabs!vars, InFind, InView, InListed, InTabs,
       InRun, InRead, InColors, InSchemes, Tabs!Next, Tabs!Crawlers

(* The part in use stays the same. *)
LEMMA UseStays ==
  ASSUME [Next]_vars
  PROVE  use' = use
BY DEF Next, vars, InFind, InView, InListed, InTabs, InRun, InRead, InColors,
       InSchemes

-----------------------------------------------------------------------------
(* Induction, and functions defined by recursion. *)

(* Induction up to n, over the set of the numbers that a fact holds of.    *)
LEMMA UpTo ==
  ASSUME NEW n \in Nat, NEW S, 0 \in S, \A i \in 0 .. n - 1 : i \in S => i + 1 \in S
  PROVE  n \in S
<1> DEFINE R == OpToRel(<, Nat)
           T == {i \in 0 .. n : i \notin S}
<1> SUFFICES ASSUME T # {} PROVE FALSE
  OBVIOUS
<1>1. \A x, y \in Nat : <<y, x>> \in R <=> y < x
  BY DEF OpToRel
<1>2. IsWellFoundedOn(R, Nat)
  BY NatLessThanWellFounded
<1>3. T \subseteq Nat
  OBVIOUS
<1> HIDE DEF R
<1>4. PICK x \in T : \A y \in T : ~(<<y, x>> \in R)
  <2> HIDE DEF T
  <2> QED
    BY <1>2, <1>3, WFMin, Zenon
<1>5. x \in Nat /\ x # 0 /\ x - 1 \in 0 .. n - 1
  OBVIOUS
<1>6. x - 1 \notin S
  BY <1>5
<1>7. x - 1 \in T
  BY <1>5, <1>6
<1>8. <<x - 1, x>> \in R
  BY <1>1, <1>5
<1> QED
  BY <1>4, <1>7, <1>8, Zenon

(* f begins with start, and each value is the step of the one before.      *)
Follows(f, l, start, step) ==
  f[0] = start /\ \A n \in 1 .. l : f[n] = step[<<n, f[n - 1]>>]

(* There is such a function over 0 .. l, if the steps are within a set: a   *)
(* recursive definition of the model defines what it says.                  *)
LEMMA Recursion ==
  ASSUME NEW D, NEW l \in Nat, NEW start \in D, NEW step \in [(1 .. l) \X D -> D]
  PROVE  \E f \in [0 .. l -> D] : Follows(f, l, start, step)
<1> DEFINE S == {m \in 0 .. l : \E f \in [0 .. m -> D] : Follows(f, m, start, step)}
<1>1. 0 \in S
  <2> DEFINE h == [n \in 0 .. 0 |-> start]
  <2>1. h \in [0 .. 0 -> D] /\ Follows(h, 0, start, step)
    BY DEF Follows
  <2> HIDE DEF h
  <2>2. \E f \in [0 .. 0 -> D] : Follows(f, 0, start, step)
    BY <2>1
  <2> QED
    BY <2>2
<1>2. ASSUME NEW m \in 0 .. l - 1, m \in S
      PROVE  m + 1 \in S
  <2>1. PICK f \in [0 .. m -> D] : Follows(f, m, start, step)
    BY <1>2
  <2>2. m + 1 \in 1 .. l /\ f[m] \in D
    OBVIOUS
  <2>3. PICK x \in D : x = step[<<m + 1, f[m]>>]
    BY <2>2
  <2> DEFINE h == [n \in 0 .. m + 1 |-> IF n = m + 1 THEN x ELSE f[n]]
  <2>4. h \in [0 .. m + 1 -> D]
    BY <2>3
  <2>5. /\ h[0] = f[0] /\ h[m + 1] = x
        /\ \A n \in 0 .. m : h[n] = f[n]
    OBVIOUS
  <2> HIDE DEF h
  <2>6. ASSUME NEW n \in 1 .. m + 1
        PROVE  h[n] = step[<<n, h[n - 1]>>]
    <3>1. CASE n = m + 1
      BY <2>3, <2>5, <3>1
    <3>2. CASE n # m + 1
      <4>1. n \in 1 .. m /\ n - 1 \in 0 .. m
        BY <3>2
      <4> QED
        BY <2>1, <2>5, <4>1 DEF Follows
    <3> QED
      BY <3>1, <3>2
  <2>7. Follows(h, m + 1, start, step)
    BY <2>1, <2>5, <2>6 DEF Follows
  <2> QED
    BY <2>2, <2>4, <2>7
<1> HIDE DEF S
<1>3. l \in S
  BY <1>1, <1>2, UpTo
<1> QED
  BY <1>3 DEF S

(* The same of steps that stay within D[n], whatever they are elsewhere. *)
LEMMA RecursionIn ==
  ASSUME NEW V, NEW l \in Nat, NEW D, \A n \in 0 .. l : D[n] \subseteq V,
         NEW start, start \in D[0], NEW step,
         \A n \in 1 .. l : \A y \in D[n - 1] : step[<<n, y>>] \in D[n]
  PROVE  \E f : /\ f = [n \in 0 .. l |-> f[n]] /\ Follows(f, l, start, step)
                /\ \A n \in 0 .. l : f[n] \in D[n]
<1>1. start \in V /\ 0 \in 0 .. l
  OBVIOUS
<1> DEFINE all == [p \in (1 .. l) \X V |-> IF step[p] \in V THEN step[p] ELSE start]
<1>2. all \in [(1 .. l) \X V -> V]
  BY <1>1
<1>3. \A n \in 1 .. l, y \in V : step[<<n, y>>] \in V => all[<<n, y>>] = step[<<n, y>>]
  OBVIOUS
<1> HIDE DEF all
<1>4. PICK f \in [0 .. l -> V] : Follows(f, l, start, all)
  BY <1>1, <1>2, Recursion, Zenon
<1> DEFINE S == {n \in 0 .. l : f[n] \in D[n]}
<1>5. 0 \in S
  BY <1>1, <1>4 DEF Follows
<1>6. ASSUME NEW m \in 0 .. l - 1, m \in S
      PROVE  m + 1 \in S /\ f[m + 1] = step[<<m + 1, f[m]>>]
  <2>1. m + 1 \in 1 .. l /\ m + 1 \in 0 .. l /\ m + 1 - 1 = m /\ f[m] \in D[m] /\ f[m] \in V
    BY <1>6
  <2>2. step[<<m + 1, f[m]>>] \in D[m + 1]
    BY <2>1
  <2>3. step[<<m + 1, f[m]>>] \in V
    BY <2>1, <2>2
  <2>4. f[m + 1] = all[<<m + 1, f[m]>>]
    BY <1>4, <2>1 DEF Follows
  <2>5. all[<<m + 1, f[m]>>] = step[<<m + 1, f[m]>>]
    BY <1>3, <2>1, <2>3
  <2> QED
    BY <2>1, <2>2, <2>4, <2>5
<1>7. \A n \in 0 .. l : n \in S
  <2>1. ASSUME NEW n \in 0 .. l
        PROVE  n \in S
    <3>1. n \in Nat /\ \A m \in 0 .. n - 1 : m \in 0 .. l - 1
      OBVIOUS
    <3>2. \A m \in 0 .. n - 1 : m \in S => m + 1 \in S
      BY <1>6, <3>1
    <3> HIDE DEF S
    <3> QED
      BY <1>5, <3>1, <3>2, UpTo
  <2> QED
    BY <2>1
<1>8. Follows(f, l, start, step)
  <2>1. ASSUME NEW n \in 1 .. l
        PROVE  f[n] = step[<<n, f[n - 1]>>]
    <3>1. n - 1 \in 0 .. l - 1 /\ n - 1 \in 0 .. l /\ n - 1 + 1 = n
      OBVIOUS
    <3> QED
      BY <1>6, <1>7, <3>1
  <2> QED
    BY <1>4, <2>1 DEF Follows
<1>9. f = [n \in 0 .. l |-> f[n]]
  BY <1>4
<1> QED
  BY <1>7, <1>8, <1>9

(* What every step keeps holds of the last one. *)
LEMMA StaysIn ==
  ASSUME NEW l \in Nat, NEW D, NEW f, f[0] \in D[0],
         \A n \in 1 .. l : f[n - 1] \in D[n - 1] => f[n] \in D[n]
  PROVE  \A n \in 0 .. l : f[n] \in D[n]
<1> DEFINE S == {n \in 0 .. l : f[n] \in D[n]}
<1>1. 0 \in S
  OBVIOUS
<1>2. ASSUME NEW m \in 0 .. l - 1, m \in S
      PROVE  m + 1 \in S
  <2>1. m + 1 \in 1 .. l /\ m + 1 - 1 = m /\ m + 1 \in 0 .. l
    OBVIOUS
  <2>2. f[m] \in D[m]
    BY <1>2
  <2> QED
    BY <2>1, <2>2
<1>3. ASSUME NEW n \in 0 .. l
      PROVE  n \in S
  <2>1. n \in Nat /\ \A m \in 0 .. n - 1 : m \in 0 .. l - 1
    OBVIOUS
  <2>2. \A m \in 0 .. n - 1 : m \in S => m + 1 \in S
    BY <1>2, <2>1
  <2> HIDE DEF S
  <2> QED
    BY <1>1, <2>1, <2>2, UpTo
<1> QED
  BY <1>3

(* What is kept of a list, one element after the other. *)
KeptBy(k, list, S) ==
  /\ k[0] = <<>>
  /\ \A n \in 1 .. Len(list) :
       k[n] = IF list[n] \in S THEN Append(k[n - 1], list[n]) ELSE k[n - 1]

(* Kept() goes through the list element by element. *)
LEMMA KeptSteps ==
  ASSUME NEW T, NEW list \in Seq(T), NEW S
  PROVE  \E k : /\ KeptBy(k, list, S) /\ k[Len(list)] = Kept(list, S)
                /\ \A n \in 0 .. Len(list) : k[n] \in Seq(T) /\ Len(k[n]) <= n
<1> DEFINE l == Len(list)
           After(k, n) == IF list[n] \in S THEN Append(k, list[n]) ELSE k
           all == CHOOSE f : f = [n \in 0 .. l |-> IF n = 0 THEN <<>> ELSE After(f[n - 1], n)]
           step == [x \in (1 .. l) \X Seq(T) |-> After(x[2], x[1])]
           D == [n \in 0 .. l |-> {k \in Seq(T) : Len(k) <= n}]
<1>1. Kept(list, S) = all[l]
  BY DEF Kept
<1>2. l \in Nat /\ \A n \in 1 .. l : list[n] \in T
  OBVIOUS
<1>3. \A n \in 1 .. l, k \in Seq(T) : step[<<n, k>>] = After(k, n)
  OBVIOUS
<1>4. \A n \in 0 .. l : D[n] = {k \in Seq(T) : Len(k) <= n}
  OBVIOUS
<1> HIDE DEF step, l, D
<1>5. <<>> \in D[0]
  <2>1. 0 \in 0 .. l /\ <<>> \in Seq(T) /\ Len(<<>>) <= 0
    BY <1>2
  <2>2. D[0] = {k \in Seq(T) : Len(k) <= 0}
    BY <1>4, <2>1
  <2> QED
    BY <2>1, <2>2
<1>6. ASSUME NEW n \in 1 .. l, NEW k \in D[n - 1]
      PROVE  After(k, n) \in D[n]
  <2>1. k \in Seq(T) /\ Len(k) <= n - 1 /\ list[n] \in T /\ n \in 0 .. l
    <3>1. n - 1 \in 0 .. l /\ n \in 0 .. l
      BY <1>2
    <3> QED
      BY <1>2, <1>4, <3>1
  <2>2. Len(k) \in Nat /\ Append(k, list[n]) \in Seq(T) /\ Len(Append(k, list[n])) = Len(k) + 1
    BY <2>1
  <2>3. After(k, n) \in Seq(T) /\ Len(After(k, n)) <= n
    BY <2>1, <2>2
  <2> QED
    BY <1>4, <2>1, <2>3
<1>7. \A n \in 1 .. l : \A k \in D[n - 1] : k \in Seq(T)
  <2>1. ASSUME NEW n \in 1 .. l
        PROVE  n - 1 \in 0 .. l
    BY <1>2
  <2> QED
    BY <1>4, <2>1
<1>8. PICK f : /\ f = [n \in 0 .. l |-> f[n]] /\ Follows(f, l, <<>>, step)
               /\ \A n \in 0 .. l : f[n] \in D[n]
  <2>1. \A n \in 0 .. l : D[n] \subseteq Seq(T)
    BY <1>4
  <2>2. ASSUME NEW n \in 1 .. l, NEW k \in D[n - 1]
        PROVE  step[<<n, k>>] \in D[n]
    <3>1. step[<<n, k>>] = After(k, n)
      BY <1>3, <1>7
    <3> QED
      BY <1>6, <3>1
  <2> QED
    BY <1>2, <1>5, <2>1, <2>2, RecursionIn
<1>9. f = [n \in 0 .. l |-> IF n = 0 THEN <<>> ELSE After(f[n - 1], n)]
  <2>1. ASSUME NEW n \in 0 .. l, n # 0
        PROVE  f[n] = After(f[n - 1], n)
    <3>1. n \in 1 .. l /\ n - 1 \in 0 .. l
      BY <1>2, <2>1
    <3>2. f[n - 1] \in Seq(T)
      BY <1>7, <1>8, <3>1
    <3> QED
      BY <1>3, <1>8, <3>1, <3>2 DEF Follows
  <2>2. \A n \in 0 .. l : f[n] = IF n = 0 THEN <<>> ELSE After(f[n - 1], n)
    BY <1>8, <2>1 DEF Follows
  <2> QED
    BY <1>8, <2>2
<1>10. all = [n \in 0 .. l |-> IF n = 0 THEN <<>> ELSE After(all[n - 1], n)]
  BY <1>9
<1> HIDE DEF all
<1>11. all[0] = <<>> /\ \A n \in 1 .. l : all[n] = After(all[n - 1], n)
  <2>1. 0 \in 0 .. l /\ \A n \in 1 .. l : n \in 0 .. l /\ n # 0
    BY <1>2
  <2> QED
    BY <1>10, <2>1
<1>12. \A n \in 0 .. l : all[n] \in D[n]
  <2>1. \A n \in 1 .. l : all[n - 1] \in D[n - 1] => all[n] \in D[n]
    BY <1>6, <1>11
  <2> QED
    BY <1>2, <1>5, <1>11, <2>1, StaysIn
<1>13. KeptBy(all, list, S)
  BY <1>11 DEF KeptBy, l
<1>14. \A n \in 0 .. l : all[n] \in Seq(T) /\ Len(all[n]) <= n
  BY <1>4, <1>12
<1> QED
  BY <1>1, <1>13, <1>14 DEF l

-----------------------------------------------------------------------------
(***************************************************************************)
(* The encoding.  The speculator recognises every text in UTF-8.  The      *)
(* reason is an agreement between it and the reference decoder that every  *)
(* byte preserves: within a character, both expect as many bytes, and      *)
(* whichever byte comes next among those the decoder accepts, the code     *)
(* point is not below the minimum.                                         *)
(***************************************************************************)
Speculator == [state : Read!States, code_point : Int, left : Int, min : Int]

Decoder == [text : {"ASCII", "UTF8", "Other"}, left : 0..3,
            low : 128..191, high : 128..191]

\* The speculator t is where it should be after a text the decoder d accepts.
Agree(t, d) ==
  /\ t \in Speculator
  /\ d.left = 0 /\ d.text = "ASCII" => t.state \in {"Start", "ASCIIOnly"}
  /\ d.left = 0 /\ d.text = "UTF8" => t.state = "ValidUTF8"
  /\ d.left > 0 =>
       /\ t.state = "UTF8LeadingByteSeen" /\ t.left = d.left
       /\ t.code_point + (d.low - 128) * Read!Weight(d.left - 1) >= t.min

EncodingInv == decoder \in Decoder /\ (decoder.text # "Other" => Agree(s, decoder))

(* The decoder's values are of their types whatever the byte is. *)
LEMMA DecodeType ==
  ASSUME NEW d \in Decoder, NEW b
  PROVE  /\ Read!Decode(d, b) \in Decoder
         /\ Read!Decode(d, b).text # "Other" => d.text # "Other"
BY DEF Read!Decode, Decoder, Read!Expect, Read!Begin, Read!Refuse

(* What the decoder does as long as it accepts the text. *)
LEMMA DecodeAccepting ==
  ASSUME NEW d, d.text # "Other", NEW b
  PROVE  Read!Decode(d, b) = IF d.left = 0 THEN Read!Begin(d, b)
                        ELSE IF b \in d.low..d.high
                          THEN Read!Expect(d.left - 1, 128, 191)
                        ELSE Read!Refuse(d)
BY DEF Read!Decode

(* Within a character, a byte the decoder accepts is a continuation byte   *)
(* of the speculator's, and completes a code point that is large enough.   *)
LEMMA ContinuationAgrees ==
  ASSUME NEW d \in Decoder, NEW t, Agree(t, d), NEW b \in d.low..d.high,
         d.left > 0, d.text # "Other"
  PROVE  Agree(Read!inject_byte(t, b), Read!Decode(d, b))
<1>1. b \in 128..191 /\ b \in Int /\ b % 64 = b - 128
  BY DEF Decoder
<1>2. t \in Speculator /\ t.state = "UTF8LeadingByteSeen" /\ t.left = d.left
  BY DEF Agree
<1>3. Read!inject_byte(t, b) = Read!continuationByte(t, b)
  BY <1>1, <1>2 DEF Read!inject_byte, Read!inject8Bit
<1>4. Read!Decode(d, b) = Read!Expect(d.left - 1, 128, 191)
  BY DecodeAccepting DEF Decoder
<1> DEFINE e == Read!Expect(d.left - 1, 128, 191)
<1>5. e.left = d.left - 1 /\ e.text = "UTF8" /\ e.low = 128
  BY DEF Read!Expect, Decoder
<1>6. CASE d.left = 1
  BY <1>1, <1>2, <1>5, <1>6, <1>3, <1>4
     DEF Agree, Read!continuationByte, Speculator, Read!States, Read!Weight, Decoder
<1>7. CASE d.left = 2
  BY <1>1, <1>2, <1>5, <1>7, <1>3, <1>4
     DEF Agree, Read!continuationByte, Speculator, Read!States, Read!Weight, Decoder
<1>8. CASE d.left = 3
  BY <1>1, <1>2, <1>5, <1>8, <1>3, <1>4
     DEF Agree, Read!continuationByte, Speculator, Read!States, Read!Weight, Decoder
<1> QED
  BY <1>6, <1>7, <1>8 DEF Decoder

(* Between two characters, a byte the decoder accepts is one of ASCII or   *)
(* the lead byte of as many continuation bytes for the speculator.         *)
LEMMA LeadAgrees ==
  ASSUME NEW d \in Decoder, NEW t, Agree(t, d), NEW b, d.left = 0,
         d.text # "Other",
         Read!Decode(d, b).text # "Other"
  PROVE  Agree(Read!inject_byte(t, b), Read!Decode(d, b))
<1>1. b \in 0..127 \/ b \in 194..223 \/ b \in 224..239 \/ b \in 240..244
  BY DecodeAccepting DEF Read!Begin, Read!Refuse, Read!Expect, Decoder
<1>2. t \in Speculator /\ t.state \in {"Start", "ASCIIOnly", "ValidUTF8"}
  BY DEF Agree, Decoder
<1>3. CASE b \in 0..127
  BY <1>2, <1>3, DecodeAccepting
     DEF Agree, Read!inject_byte, Read!Begin, Read!In, Speculator, Read!States, Decoder
<1>4. b > 127 /\ b \in 194..244 => Read!inject_byte(t, b) = Read!leadByte(t, b)
  BY <1>2 DEF Read!inject_byte, Read!inject8Bit
<1>5. CASE b \in 194..223
  <2>1. Read!Decode(d, b) = Read!Expect(1, 128, 191)
    BY <1>5, DecodeAccepting DEF Read!Begin, Decoder
  <2>2. Read!leadByte(t, b) = Read!Lead((b % 32) * 64, 1, 128) /\ b % 32 >= 2
    BY <1>5 DEF Read!leadByte
  <2> QED
    BY <1>4, <1>5, <2>1, <2>2
       DEF Agree, Read!Expect, Read!Lead, Speculator, Read!States, Read!Weight, Decoder
<1>6. CASE b \in 224..239
  <2>1. \/ b = 224 /\ Read!Decode(d, b) = Read!Expect(2, 160, 191)
        \/ b = 237 /\ Read!Decode(d, b) = Read!Expect(2, 128, 159)
        \/ b \in 225..239 /\ Read!Decode(d, b) = Read!Expect(2, 128, 191)
    BY <1>6, DecodeAccepting DEF Read!Begin, Decoder
  <2>2. Read!leadByte(t, b) = Read!Lead((b % 16) * 4096, 2, 2048)
    BY <1>6 DEF Read!leadByte
  <2>3. b % 16 = b - 224
    BY <1>6
  <2> QED
    BY <1>4, <1>6, <2>1, <2>2, <2>3
       DEF Agree, Read!Expect, Read!Lead, Speculator, Read!States, Read!Weight, Decoder
<1>7. CASE b \in 240..244
  <2>1. \/ b = 240 /\ Read!Decode(d, b) = Read!Expect(3, 144, 191)
        \/ b = 244 /\ Read!Decode(d, b) = Read!Expect(3, 128, 143)
        \/ b \in 241..243 /\ Read!Decode(d, b) = Read!Expect(3, 128, 191)
    BY <1>7, DecodeAccepting DEF Read!Begin, Decoder
  <2>2. Read!leadByte(t, b) = Read!Lead((b % 8) * 262144, 3, 2048)
    BY <1>7 DEF Read!leadByte
  <2>3. b % 8 = b - 240
    BY <1>7
  <2> QED
    BY <1>4, <1>7, <2>1, <2>2, <2>3
       DEF Agree, Read!Expect, Read!Lead, Speculator, Read!States, Read!Weight, Decoder
<1> QED
  BY <1>1, <1>3, <1>5, <1>6, <1>7

(* Every byte that the decoder accepts preserves the agreement. *)
LEMMA ByteAgrees ==
  ASSUME NEW d \in Decoder, NEW t, Agree(t, d), NEW b,
         Read!Decode(d, b).text # "Other", d.text # "Other"
  PROVE  Agree(Read!inject_byte(t, b), Read!Decode(d, b))
<1>1. CASE d.left > 0
  <2>1. b \in d.low..d.high
    BY <1>1, DecodeAccepting DEF Read!Refuse, Decoder
  <2> QED
    BY <1>1, <2>1, ContinuationAgrees
<1>2. CASE d.left = 0
  BY <1>2, LeadAgrees
<1> QED
  BY <1>1, <1>2 DEF Decoder

(* The speculator is always where the decoder's text should lead it,       *)
(* whatever is read, interrupted, read again or truncated. *)
THEOREM AgreementInductive == Spec => [](use = "encoding" => EncodingInv)
<1>1. Init => (use = "encoding" => EncodingInv)
  BY DEF Init, Read!Init, EncodingInv, Agree, Speculator, Read!States,
         Read!StartDecoder, Decoder
<1>2. (use = "encoding" => EncodingInv) /\ [Next]_vars => (use = "encoding" => EncodingInv)'
  <2> SUFFICES ASSUME use = "encoding", EncodingInv, [Next]_vars
               PROVE  EncodingInv'
    BY UseStays
  <2>0. [Read!Next]_(Read!vars)
    BY EncodingSteps
  <2>1. CASE Read!doIndex
    <3>1. PICK b : b = file[indexed + 1]
      OBVIOUS
    <3>2. s' = Read!inject_byte(s, b) /\ decoder' = Read!Decode(decoder, b)
      BY <2>1, <3>1 DEF Read!doIndex
    <3>3. decoder' \in Decoder /\ (decoder'.text # "Other" => decoder.text # "Other")
      BY <3>2, DecodeType DEF EncodingInv
    <3>4. decoder'.text # "Other" => Agree(s', decoder')
      BY <3>2, <3>3, ByteAgrees DEF EncodingInv
    <3> QED
      BY <3>3, <3>4 DEF EncodingInv, Agree
  <2>2. CASE UNCHANGED <<s, decoder>>
    BY <2>2 DEF EncodingInv, Agree
  <2>3. Read!doIndex \/ UNCHANGED <<s, decoder>>
    BY <2>0 DEF Read!Next, Read!vars, Read!loadingFinishedHandler,
           Read!fileChangedOnDisk, Read!reload, Read!setEncoding, Read!append,
           Read!truncate, Read!indexAll, Read!indexAdditionalLines
  <2> QED
    BY <2>1, <2>2, <2>3
<1> QED
  BY <1>1, <1>2, PTL DEF Spec

(* The speculator recognises every text in UTF-8 with a character that is  *)
(* not ASCII, whatever the bytes: no smallest or largest code point of a   *)
(* length, no byte of a character is refused by inject_byte().             *)
THEOREM EveryTextRecognised == Spec => []Utf8Recognised
<1>1. (use = "encoding" => EncodingInv) => Utf8Recognised
  BY DEF EncodingInv, Agree, Utf8Recognised, Read!Utf8Recognised, Read!IsUtf8,
         Read!guess, Decoder
<1> QED
  BY <1>1, AgreementInductive, PTL

-----------------------------------------------------------------------------
(***************************************************************************)
(* A file that grows.  The decoder of the worker has read what is indexed, *)
(* as the reference decoder of the whole file would have by then, wherever *)
(* the indexing was cut; and the codec follows the last guess.             *)
(***************************************************************************)
(* What the decoder is after n bytes of the text, f being what it was after *)
(* fewer. *)
AfterByte(text, f, n) ==
  IF n = 0 THEN Read!StartDecoder ELSE Read!Decode(f[n - 1], text[n])

(* f is what the decoder is after each number of bytes of the text. *)
Decodes(f, text) == \A n \in 0 .. Len(text) : f[n] = AfterByte(text, f, n)

(* DecoderOf() goes through the text byte by byte. *)
LEMMA DecoderIs ==
  ASSUME NEW text, Len(text) \in Nat
  PROVE  \E f : Decodes(f, text) /\ Read!DecoderOf(text) = f[Len(text)]
<1> DEFINE l == Len(text)
           After == CHOOSE f : f = [n \in 0 .. l |-> AfterByte(text, f, n)]
           S == {m \in 0 .. l : \E f : f = [n \in 0 .. m |-> AfterByte(text, f, n)]}
<1>1. Read!DecoderOf(text) = After[l]
  BY DEF Read!DecoderOf, AfterByte
<1> HIDE DEF l
<1>2. l \in Nat
  BY DEF l
<1>3. 0 \in S
  <2> DEFINE h == [n \in 0 .. 0 |-> Read!StartDecoder]
  <2>1. h = [n \in 0 .. 0 |-> AfterByte(text, h, n)]
    <3> HIDE DEF h
    <3>1. \A n \in 0 .. 0 : AfterByte(text, h, n) = Read!StartDecoder
      BY DEF AfterByte
    <3> QED
      BY <3>1 DEF h
  <2> HIDE DEF h
  <2>2. \E f : f = [n \in 0 .. 0 |-> AfterByte(text, f, n)]
    BY <2>1
  <2>3. 0 \in 0 .. l
    BY <1>2
  <2> QED
    BY <2>2, <2>3
<1>4. ASSUME NEW m \in 0 .. l - 1, m \in S
      PROVE  m + 1 \in S
  <2>1. PICK f : f = [n \in 0 .. m |-> AfterByte(text, f, n)]
    BY <1>4
  <2>2. m \in Nat /\ m + 1 \in 0 .. l /\ m \in 0 .. m
    BY <1>2
  <2> DEFINE h == [n \in 0 .. m + 1 |->
                     IF n = m + 1 THEN Read!Decode(f[m], text[m + 1]) ELSE f[n]]
  <2>3. \A n \in 0 .. m : f[n] = AfterByte(text, f, n)
    BY <2>1
  <2>4. \A n \in 0 .. m : h[n] = f[n]
    BY <2>2
  <2>5. h[m + 1] = Read!Decode(f[m], text[m + 1])
    BY <2>2
  <2>6. DOMAIN h = 0 .. m + 1 /\ h = [n \in 0 .. m + 1 |-> h[n]]
    OBVIOUS
  <2> HIDE DEF h
  <2>7. ASSUME NEW n \in 0 .. m + 1
        PROVE  h[n] = AfterByte(text, h, n)
    <3>1. CASE n = m + 1
      <4>1. n # 0 /\ n - 1 = m
        BY <2>2, <3>1
      <4>2. h[n - 1] = f[m]
        BY <2>2, <2>4, <4>1
      <4> QED
        BY <2>5, <3>1, <4>1, <4>2 DEF AfterByte
    <3>2. CASE n \in 0 .. m
      <4>1. n # 0 => h[n - 1] = f[n - 1]
        <5>1. n # 0 => n - 1 \in 0 .. m
          BY <2>2, <3>2
        <5> QED
          BY <2>4, <5>1
      <4> QED
        BY <2>3, <2>4, <3>2, <4>1 DEF AfterByte
    <3> QED
      BY <2>2, <3>1, <3>2
  <2>8. h = [n \in 0 .. m + 1 |-> AfterByte(text, h, n)]
    BY <2>6, <2>7
  <2> QED
    BY <2>2, <2>8
<1>5. l \in S
  <2> HIDE DEF S
  <2> QED
    BY <1>2, <1>3, <1>4, UpTo
<1>6. After = [n \in 0 .. l |-> AfterByte(text, After, n)]
  BY <1>5
<1> HIDE DEF After
<1>7. \A n \in 0 .. l : After[n] = AfterByte(text, After, n)
  BY <1>6
<1> QED
  BY <1>1, <1>7 DEF l, Decodes

(* The codec that updateEncoding() chooses. *)
CodecFor(chosen, detected) ==
  IF chosen # "AUTO" THEN chosen
  ELSE IF detected \in {"ASCII7", "ASCII8"} THEN "ISO_8859_1" ELSE detected

(* As long as the file has only grown, what is indexed is its beginning,   *)
(* the decoder is what it is for any decoding of the file after as many    *)
(* bytes, and the index has the guess of the speculator. *)
GrownInv ==
  /\ file \in Seq(Bytes) /\ indexed \in Nat
  /\ grown => /\ indexed <= Len(file) /\ encoding = Read!guess(s)
              /\ \A f : Decodes(f, file) => decoder = f[indexed]
  /\ operation = "none" => codec = CodecFor(setting, encoding)

(* updateEncoding() chooses it. *)
LEMMA CodecChosen ==
  ASSUME NEW chosen, NEW detected, Read!updateEncoding(chosen, detected)
  PROVE  codec' = CodecFor(chosen, detected)
BY DEF Read!updateEncoding, CodecFor

(* The file is read byte by byte, from where the last indexing ended.      *)
LEMMA GrownInductive == Spec => [](use = "encoding" => GrownInv)
<1>1. Init => (use = "encoding" => GrownInv)
  <2> SUFFICES ASSUME Init, use = "encoding" PROVE GrownInv
    OBVIOUS
  <2>1. Read!Init
    BY DEF Init
  <2>2. Len(file) = 0 /\ indexed = 0 /\ file \in Seq(Bytes)
    BY <2>1 DEF Read!Init
  <2>3. encoding = Read!guess(s) /\ operation # "none"
    BY <2>1 DEF Read!Init, Read!guess
  <2>4. ASSUME NEW f, Decodes(f, file) PROVE decoder = f[indexed]
    BY <2>1, <2>2, <2>4 DEF Read!Init, Decodes, AfterByte
  <2> QED
    BY <2>2, <2>3, <2>4 DEF GrownInv
<1>2. (use = "encoding" => GrownInv) /\ [Next]_vars => (use = "encoding" => GrownInv)'
  <2> SUFFICES ASSUME use = "encoding", GrownInv, [Next]_vars
               PROVE  GrownInv'
    BY UseStays
  <2>0. [Read!Next]_(Read!vars)
    BY EncodingSteps
  <2>1. CASE Read!doIndex
    <3>1. /\ indexed < Len(file) /\ indexed' = indexed + 1 /\ operation # "none"
          /\ s' = Read!inject_byte(s, file[indexed + 1])
          /\ decoder' = Read!Decode(decoder, file[indexed + 1])
          /\ encoding' = Read!guess(s')
          /\ UNCHANGED <<file, grown, operation>>
      BY <2>1 DEF Read!doIndex
    <3>2. ASSUME grown, NEW f, Decodes(f, file)
          PROVE  decoder' = f[indexed + 1]
      <4>1. PICK k : k = indexed + 1
        OBVIOUS
      <4>2. k \in 0 .. Len(file) /\ k # 0 /\ k - 1 = indexed
        BY <3>1, <4>1 DEF GrownInv
      <4>3. f[k] = AfterByte(file, f, k)
        BY <3>2, <4>2, Zenon DEF Decodes
      <4>4. f[k] = Read!Decode(f[indexed], file[k])
        BY <4>2, <4>3, Zenon DEF AfterByte
      <4>5. decoder = f[indexed]
        BY <3>2 DEF GrownInv
      <4> QED
        BY <3>1, <4>1, <4>4, <4>5
    <3>3. indexed + 1 \in Nat /\ indexed + 1 <= Len(file)
      BY <3>1 DEF GrownInv
    <3> QED
      BY <3>1, <3>2, <3>3 DEF GrownInv
  <2>2. CASE Read!loadingFinishedHandler
    <3>1. /\ codec' = CodecFor(setting, encoding)
          /\ UNCHANGED <<file, indexed, encoding, s, setting, decoder, grown>>
      BY <2>2, CodecChosen DEF Read!loadingFinishedHandler
    <3> QED
      BY <3>1 DEF GrownInv
  <2>3. CASE Read!fileChangedOnDisk
    <3>1. grown => ~(Len(file) < indexed)
      BY DEF GrownInv
    <3>2. /\ UNCHANGED <<file, grown>> /\ operation' # "none" /\ indexed' \in Nat
          /\ grown => UNCHANGED <<indexed, encoding, s, decoder>>
      BY <2>3, <3>1 DEF Read!fileChangedOnDisk, Read!indexAll,
         Read!indexAdditionalLines, GrownInv
    <3> QED
      BY <3>2 DEF GrownInv
  <2>4. CASE Read!reload
    BY <2>4 DEF Read!reload, Read!indexAll, GrownInv
  <2>5. ASSUME NEW chosen, Read!setEncoding(chosen)
        PROVE  GrownInv'
    <3>1. /\ setting' = chosen /\ codec' = CodecFor(chosen, encoding)
          /\ UNCHANGED <<file, operation, indexed, encoding, s, decoder, grown>>
      BY <2>5, CodecChosen DEF Read!setEncoding
    <3> QED
      BY <3>1 DEF GrownInv
  <2>6. ASSUME NEW b \in Bytes, Read!append(b)
        PROVE  GrownInv'
    <3>1. /\ file' = Append(file, b)
          /\ UNCHANGED <<operation, indexed, encoding, s, setting, codec,
                         decoder, grown>>
      BY <2>6 DEF Read!append
    <3>2. /\ file' \in Seq(Bytes) /\ Len(file') = Len(file) + 1
          /\ Len(file) \in Nat
          /\ \A n \in 1 .. Len(file) : file'[n] = file[n]
      BY <3>1 DEF GrownInv
    <3>3. ASSUME NEW f, Decodes(f, file') PROVE Decodes(f, file)
      <4> SUFFICES ASSUME NEW n \in 0 .. Len(file)
                   PROVE  f[n] = AfterByte(file, f, n)
        BY DEF Decodes
      <4>1. n \in 0 .. Len(file') /\ (n # 0 => n \in 1 .. Len(file))
        BY <3>2
      <4>2. f[n] = AfterByte(file', f, n)
        BY <3>3, <4>1 DEF Decodes
      <4> QED
        BY <3>2, <4>1, <4>2 DEF AfterByte
    <3>4. indexed <= Len(file) => indexed <= Len(file')
      BY <3>2 DEF GrownInv
    <3> QED
      BY <3>1, <3>2, <3>3, <3>4 DEF GrownInv
  <2>7. CASE Read!truncate
    BY <2>7 DEF Read!truncate, GrownInv
  <2>8. CASE UNCHANGED Read!vars
    BY <2>8 DEF Read!vars, GrownInv
  <2> QED
    BY <2>0, <2>1, <2>2, <2>3, <2>4, <2>5, <2>6, <2>7, <2>8 DEF Read!Next
<1> QED
  BY <1>1, <1>2, PTL DEF Spec

(* A file in UTF-8 that has only grown is shown as such once it is         *)
(* indexed, whatever its bytes, however it grew and wherever the indexing  *)
(* was cut. *)
THEOREM GrownFileIsShown == Spec => []GrownFileIsRead
<1>1. /\ use = "encoding" => GrownInv
      /\ use = "encoding" => EncodingInv
      => GrownFileIsRead
  <2> SUFFICES ASSUME GrownInv, EncodingInv, Read!Read, grown
               PROVE  codec = "UTF8"
    BY DEF GrownFileIsRead, Read!GrownFileIsRead
  <2>1. /\ operation = "none" /\ indexed = Len(file) /\ setting = "AUTO"
        /\ Read!IsUtf8(Read!DecoderOf(file))
    BY DEF Read!Read
  <2>2. Len(file) \in Nat
    BY DEF GrownInv
  <2>3. PICK f : Decodes(f, file) /\ Read!DecoderOf(file) = f[Len(file)]
    BY <2>2, DecoderIs
  <2>4. decoder = Read!DecoderOf(file)
    BY <2>1, <2>3 DEF GrownInv
  <2>5. Read!guess(s) = "UTF8"
    BY <2>1, <2>4 DEF EncodingInv, Agree, Read!IsUtf8, Read!guess, Decoder
  <2> QED
    BY <2>1, <2>5 DEF GrownInv, CodecFor
<1> QED
  BY <1>1, GrownInductive, AgreementInductive, PTL

-----------------------------------------------------------------------------
(***************************************************************************)
(* The colour schemes.  SchemeIsThere is not inductive: it says nothing    *)
(* while a message box is open.  A box that tells of files that could not  *)
(* be loaded leaves the store as it was, so that the property must hold    *)
(* all through it; one that tells of a scheme that is gone breaks it, and  *)
(* is the box of the window that reloaded last.                            *)
(***************************************************************************)
WindowState == [open : BOOLEAN, menu : SUBSET Store!Names, checked : Store!Names,
                shown : Store!Names, update : BOOLEAN]

SchemesTyped ==
  /\ files \subseteq Schemes /\ config_ \subseteq Schemes
  /\ saved \in Store!Names /\ colorSchemeName_ \in Store!Names
  /\ window \in [Store!Windows -> WindowState]
  /\ box = Store!NoBox \/ (box.about \in {"no longer exists", "could not load"} /\ box.by \in Store!Windows)

(* What SchemeIsThere promises of the window wd. *)
Shows(wd) ==
  /\ colorSchemeName_ \in Store!Offered(config_)
  /\ colorSchemeName_ \in wd.menu
  /\ wd.checked = colorSchemeName_
  /\ ~wd.update => wd.shown = colorSchemeName_

SchemesInv ==
  /\ SchemesTyped
  /\ everRead => changedBy \in Store!Windows
  /\ box.about = "no longer exists" => box.by = changedBy
  /\ everRead /\ box.about # "no longer exists" => Shows(window[changedBy])

(* A menu offers known names, that of the default scheme always among them. *)
LEMMA NamesOf ==
  ASSUME NEW schemes, schemes \subseteq Schemes
  PROVE  Store!Offered(schemes) \subseteq Store!Names /\ Store!DEFAULT_COLOR_SCHEME \in Store!Offered(schemes)
BY DEF Store!Offered, Store!Names

(* The menu made again. *)
LEMMA Populated ==
  ASSUME NEW wd \in WindowState, NEW schemes, schemes \subseteq Schemes,
         NEW name \in Store!Offered(schemes)
  PROVE  /\ Store!populated(wd, schemes, name) \in WindowState
         /\ Store!populated(wd, schemes, name).menu = Store!Offered(schemes)
         /\ Store!populated(wd, schemes, name).checked = name
         /\ Store!populated(wd, schemes, name).update = TRUE
<1>1. Store!Offered(schemes) \subseteq Store!Names
  BY NamesOf
<1> QED
  BY <1>1 DEF Store!populated, WindowState

(* Once the message box of reload() is closed the current scheme is one    *)
(* that was read, and the window that changed it last shows it. *)
THEOREM SchemeStaysThere == Spec => []SchemeIsThere
<1>1. Init => (use = "schemes" => SchemesInv)
  <2> SUFFICES ASSUME Init, use = "schemes" PROVE SchemesInv
    OBVIOUS
  <2>1. Store!Init
    BY DEF Init
  <2> QED
    BY <2>1 DEF Store!Init, SchemesInv, SchemesTyped, Store!NoBox, Store!NoWindow,
                WindowState, Store!Names, Store!Windows
<1>2. (use = "schemes" => SchemesInv) /\ [Next]_vars => (use = "schemes" => SchemesInv)'
  <2> SUFFICES ASSUME use = "schemes", SchemesInv, [Next]_vars
               PROVE  SchemesInv'
    BY UseStays
  <2>0. [Store!Next]_(Store!vars)
    BY SchemesSteps
  <2>1. ASSUME NEW w \in Store!Windows, NEW name \in Store!Names, box = Store!NoBox, installed,
               Store!reloadStructConfig(w, name)
        PROVE SchemesInv'
    <3>1. CASE name \in Store!Offered(files)
      <4>0. files \subseteq Schemes
        BY DEF SchemesInv, SchemesTyped
      <4>1. window' = [window EXCEPT ![w] = Store!populated(window[w], files, name)] /\ box' = Store!NoBox
        BY <2>1, <3>1 DEF Store!reloadStructConfig
      <4>2. window[w] \in WindowState
        BY DEF SchemesInv, SchemesTyped
      <4> DEFINE p == Store!populated(window[w], files, name)
      <4>p. /\ p \in WindowState
            /\ p.menu = Store!Offered(files) /\ p.checked = name /\ p.update = TRUE
        BY <4>0, <4>2, <3>1, Populated
      <4>i. window \in [Store!Windows -> WindowState] /\ window' = [window EXCEPT ![w] = p]
        BY <4>1 DEF SchemesInv, SchemesTyped
      <4> HIDE DEF p
      <4>3. window' \in [Store!Windows -> WindowState] /\ window'[w] = p
        BY <4>p, <4>i
      <4>4. config_' = files /\ colorSchemeName_' = name /\ changedBy' = w
            /\ UNCHANGED <<files, saved>>
        BY <2>1 DEF Store!reloadStructConfig
      <4>5. /\ window'[w].menu = Store!Offered(files)
            /\ window'[w].checked = name
            /\ window'[w].update = TRUE
        BY <4>p, <4>3
      <4>6. Shows(window[w])'
        BY <3>1, <4>4, <4>5 DEF Shows
      <4>7. SchemesTyped'
        BY <4>1, <4>3, <4>4, <2>1 DEF SchemesInv, SchemesTyped
      <4> QED
        BY <4>1, <4>4, <4>6, <4>7 DEF SchemesInv, Store!NoBox
    <3>2. CASE name \notin Store!Offered(files)
      <4>1. /\ config_' = files /\ colorSchemeName_' = name /\ changedBy' = w
            /\ UNCHANGED <<files, saved, window>>
            /\ box' = [about |-> "no longer exists", by |-> w]
        BY <2>1, <3>2 DEF Store!reloadStructConfig
      <4> QED
        BY <2>1, <4>1 DEF SchemesInv, SchemesTyped
    <3> QED
      BY <3>1, <3>2
  <2>2. ASSUME NEW w \in Store!Windows, Store!newWindow(w)
        PROVE SchemesInv'
    <3>1. CASE installed
      BY <2>1, <2>2, <3>1 DEF Store!newWindow, Store!UserActs, SchemesInv, SchemesTyped
    <3>2. CASE ~installed
      <4>1. /\ config_' = {} /\ colorSchemeName_' = saved
            /\ box' = [about |-> "could not load", by |-> w]
            /\ UNCHANGED <<files, saved, window>>
        BY <2>2, <3>2 DEF Store!newWindow, Store!reloadStructConfig
      <4>2. ~everRead'
        BY <2>2, <3>2 DEF Store!newWindow
      <4>3. SchemesTyped'
        BY <4>1 DEF SchemesInv, SchemesTyped
      <4>4. box'.about = "could not load"
        BY <4>1
      <4> QED
        BY <4>2, <4>3, <4>4 DEF SchemesInv
    <3> QED
      BY <3>1, <3>2
  <2>3. ASSUME NEW w \in Store!Windows, Store!reload(w)
        PROVE SchemesInv'
    <3>1. CASE installed
      BY <2>1, <2>3, <3>1 DEF Store!reload, Store!UserActs, SchemesInv, SchemesTyped
    <3>2. CASE ~installed
      <4>1. /\ box = Store!NoBox /\ box' = [about |-> "could not load", by |-> w]
            /\ UNCHANGED <<files, saved, config_, colorSchemeName_, window, changedBy>>
        BY <2>3, <3>2 DEF Store!reload, Store!UserActs, Store!reloadStructConfig
      <4>2. everRead' = everRead
        BY <2>3, <3>2 DEF Store!reload
      <4>3. SchemesTyped'
        BY <4>1 DEF SchemesInv, SchemesTyped
      <4>4. box.about # "no longer exists" /\ box'.about # "no longer exists"
        BY <4>1 DEF Store!NoBox
      <4>5. Shows(window[changedBy]) => Shows(window[changedBy])'
        BY <4>1, Zenon DEF Shows
      <4> QED
        BY <4>1, <4>2, <4>3, <4>4, <4>5, Zenon DEF SchemesInv
    <3> QED
      BY <3>1, <3>2
  <2>4. CASE Store!boxClosed
    <3>1. PICK w \in Store!Windows : w = box.by
      BY <2>4 DEF Store!boxClosed, SchemesInv, SchemesTyped
    <3>2. window[w] \in WindowState
      BY DEF SchemesInv, SchemesTyped
    <3>3. CASE box.about = "no longer exists"
      <4>1. window' = [window EXCEPT ![w] = Store!populated(window[w], config_, Store!DEFAULT_COLOR_SCHEME)]
            /\ colorSchemeName_' = Store!DEFAULT_COLOR_SCHEME
        BY <2>4, <3>1, <3>3 DEF Store!boxClosed
      <4>2. Store!DEFAULT_COLOR_SCHEME \in Store!Offered(config_)
        BY NamesOf DEF SchemesInv, SchemesTyped
      <4>4. config_ \subseteq Schemes
        BY DEF SchemesInv, SchemesTyped
      <4> DEFINE p == Store!populated(window[w], config_, Store!DEFAULT_COLOR_SCHEME)
      <4>p. /\ p \in WindowState
            /\ p.menu = Store!Offered(config_) /\ p.checked = Store!DEFAULT_COLOR_SCHEME
            /\ p.update = TRUE
        BY <4>2, <4>4, <3>2, Populated
      <4>i. window \in [Store!Windows -> WindowState] /\ window' = [window EXCEPT ![w] = p]
        BY <4>1 DEF SchemesInv, SchemesTyped
      <4> HIDE DEF p
      <4>3. window' \in [Store!Windows -> WindowState] /\ window'[w] = p
        BY <4>p, <4>i
      <4>5. /\ window'[w].menu = Store!Offered(config_)
            /\ window'[w].checked = Store!DEFAULT_COLOR_SCHEME
            /\ window'[w].update = TRUE
        BY <4>p, <4>3
      <4>6. Shows(window[w])'
        BY <2>4, <4>1, <4>2, <4>5 DEF Shows, Store!boxClosed
      <4> QED
        BY <2>4, <3>1, <3>3, <4>1, <4>3, <4>6 DEF SchemesInv, SchemesTyped, Store!boxClosed, Store!NoBox, Store!Names
    <3>4. CASE box.about # "no longer exists"
      <4>1. window' = [window EXCEPT ![w] = [window[w] EXCEPT !.open = TRUE, !.update = TRUE]]
        BY <2>4, <3>1, <3>4 DEF Store!boxClosed
      <4>2. /\ window' \in [Store!Windows -> WindowState]
            /\ window'[w].menu = window[w].menu
            /\ window'[w].checked = window[w].checked
            /\ window'[w].update = TRUE
            /\ \A u \in Store!Windows : u # w => window'[u] = window[u]
        BY <4>1, <3>2 DEF SchemesInv, SchemesTyped, WindowState
      <4>3. everRead => Shows(window[changedBy])'
        <5>1. /\ changedBy' = changedBy /\ config_' = config_
              /\ colorSchemeName_' = colorSchemeName_
          BY <2>4, <3>4 DEF Store!boxClosed
        <5>2. ASSUME everRead
              PROVE  Shows(window[changedBy])'
          <6>1. changedBy \in Store!Windows /\ Shows(window[changedBy])
            BY <3>4, <5>2 DEF SchemesInv
          <6>2. CASE changedBy = w
            BY <5>1, <6>1, <6>2, <4>2, Zenon DEF Shows
          <6>3. CASE changedBy # w
            BY <5>1, <6>1, <6>3, <4>2, Zenon DEF Shows
          <6> QED
            BY <6>2, <6>3
        <5> QED
          BY <5>2
      <4>4. /\ box' = Store!NoBox /\ everRead' = everRead /\ changedBy' = changedBy
            /\ UNCHANGED <<files, saved, config_>> /\ colorSchemeName_' = colorSchemeName_
        BY <2>4, <3>4 DEF Store!boxClosed
      <4>5. SchemesTyped'
        BY <4>2, <4>4 DEF SchemesInv, SchemesTyped
      <4>6. box'.about # "no longer exists"
        BY <4>4 DEF Store!NoBox
      <4> QED
        BY <4>3, <4>4, <4>5, <4>6, Zenon DEF SchemesInv
    <3> QED
      BY <3>3, <3>4
  <2>5. ASSUME NEW w \in Store!Windows, NEW name \in Store!Names, Store!setColorScheme(w, name)
        PROVE SchemesInv'
    <3>1. CASE name \in Store!Offered(config_)
      <4>1. window' = [window EXCEPT ![w] = [window[w] EXCEPT !.checked = name, !.update = TRUE]]
        BY <2>5, <3>1 DEF Store!setColorScheme
      <4>2. window[w] \in WindowState
        BY DEF SchemesInv, SchemesTyped
      <4>3. /\ window' \in [Store!Windows -> WindowState]
            /\ window'[w].menu = window[w].menu
            /\ window'[w].checked = name
            /\ window'[w].update = TRUE
        BY <4>1, <4>2 DEF SchemesInv, SchemesTyped, WindowState
      <4>4. Shows(window[w])'
        BY <2>5, <3>1, <4>3 DEF Shows, Store!setColorScheme
      <4> QED
        BY <2>5, <3>1, <4>3, <4>4 DEF SchemesInv, SchemesTyped, Store!setColorScheme, Store!UserActs, Store!NoBox
    <3>2. CASE name \notin Store!Offered(config_)
      BY <2>5, <3>2 DEF Store!setColorScheme, SchemesInv, SchemesTyped, Shows
    <3> QED
      BY <3>1, <3>2
  <2>6. ASSUME NEW w \in Store!Windows, Store!paint(w)
        PROVE SchemesInv'
    <3>1. CASE colorSchemeName_ \in Store!Offered(config_)
      <4>1. window' = [window EXCEPT ![w] = [window[w] EXCEPT !.shown = colorSchemeName_, !.update = FALSE]]
        BY <2>6, <3>1 DEF Store!paint
      <4>2. window[w] \in WindowState
        BY DEF SchemesInv, SchemesTyped
      <4>3. /\ window' \in [Store!Windows -> WindowState]
            /\ window'[w].menu = window[w].menu
            /\ window'[w].checked = window[w].checked
            /\ window'[w].shown = colorSchemeName_
            /\ \A u \in Store!Windows : u # w => window'[u] = window[u]
        BY <4>1, <4>2 DEF SchemesInv, SchemesTyped, WindowState
      <4>4. everRead /\ box.about # "no longer exists" => Shows(window[changedBy])'
        <5>1. /\ changedBy' = changedBy /\ everRead' = everRead /\ box' = box
              /\ config_' = config_ /\ colorSchemeName_' = colorSchemeName_
          BY <2>6 DEF Store!paint, Store!store
        <5>2. ASSUME everRead, box.about # "no longer exists"
              PROVE  Shows(window[changedBy])'
          <6>1. changedBy \in Store!Windows /\ Shows(window[changedBy])
            BY <5>2 DEF SchemesInv
          <6>2. CASE changedBy = w
            BY <5>1, <6>1, <6>2, <4>3, Zenon DEF Shows
          <6>3. CASE changedBy # w
            BY <5>1, <6>1, <6>3, <4>3, Zenon DEF Shows
          <6> QED
            BY <6>2, <6>3
        <5> QED
          BY <5>2
      <4> QED
        BY <2>6, <4>3, <4>4 DEF SchemesInv, SchemesTyped, Store!paint, Store!store
    <3>2. CASE colorSchemeName_ \notin Store!Offered(config_)
      BY <2>6, <3>2 DEF Store!paint, Store!store, SchemesInv, SchemesTyped, Shows
    <3> QED
      BY <3>1, <3>2
  <2>7. CASE Store!writeSettings
    BY <2>7 DEF Store!writeSettings, Store!store, SchemesInv, SchemesTyped, Shows
  <2>8. CASE Store!filesEdited
    BY <2>8 DEF Store!filesEdited, Store!store, SchemesInv, SchemesTyped, Shows
  <2>9. CASE UNCHANGED Store!vars
    BY <2>9 DEF Store!vars, Store!store, SchemesInv, SchemesTyped, Shows
  <2> QED
    BY <2>0, <2>2, <2>3, <2>4, <2>5, <2>6, <2>7, <2>8, <2>9 DEF Store!Next
<1>3. (use = "schemes" => SchemesInv) => SchemeIsThere
  BY DEF SchemesInv, SchemeIsThere, Store!SchemeIsThere, Shows, Store!NoBox
<1> QED
  BY <1>1, <1>2, <1>3, PTL DEF Spec

-----------------------------------------------------------------------------
(***************************************************************************)
(* The processes of a desktop.  Their lists hold nothing twice, and one    *)
(* process gives its name to the others.  The lists of a process are right *)
(* by themselves, whoever saves or reads them; but what is saved or read   *)
(* may mix the lists of two processes, so that the same is asked of each   *)
(* list set that is stored or kept.                                        *)
(***************************************************************************)
(* No two elements of the list are the same. *)
Distinct(list) == \A i, j \in 1 .. Len(list) : list[i] = list[j] => i = j

(* None of the first list is in the second. *)
Apart(list, other) ==
  \A i \in 1 .. Len(list), j \in 1 .. Len(other) : list[i] # other[j]

Within(list, other) ==
  \A i \in 1 .. Len(list) : \E j \in 1 .. Len(other) : list[i] = other[j]

(* What Kept() returns: elements of the list, each once if they were, all *)
(* of them in the set. *)
LEMMA KeptIs ==
  ASSUME NEW T, NEW list \in Seq(T), NEW S
  PROVE  LET k == Run!Kept(list, S)
         IN  /\ k \in Seq(T) /\ Len(k) <= Len(list)
             /\ Within(k, list) /\ \A i \in 1 .. Len(k) : k[i] \in S
             /\ Distinct(list) => Distinct(k)
<1> DEFINE l == Len(list)
           After(k, n) == IF list[n] \in S THEN Append(k, list[n]) ELSE k
           all == CHOOSE f : f = [n \in 0 .. l |-> IF n = 0 THEN <<>> ELSE After(f[n - 1], n)]
           step == [x \in (1 .. l) \X Seq(T) |-> After(x[2], x[1])]
<1>1. Run!Kept(list, S) = all[l]
  BY DEF Run!Kept
<1>2. l \in Nat /\ \A n \in 1 .. l : list[n] \in T
  OBVIOUS
<1>3. step \in [(1 .. l) \X Seq(T) -> Seq(T)]
  BY <1>2
<1>4. \A n \in 1 .. l, k \in Seq(T) : step[<<n, k>>] = After(k, n)
  OBVIOUS
<1>5. <<>> \in Seq(T)
  OBVIOUS
<1> HIDE DEF step, l
<1>6. PICK f \in [0 .. l -> Seq(T)] : Follows(f, l, <<>>, step)
  BY <1>2, <1>3, <1>5, Recursion, Zenon
<1>7. f = [n \in 0 .. l |-> IF n = 0 THEN <<>> ELSE After(f[n - 1], n)]
  <2>1. ASSUME NEW n \in 0 .. l, n # 0
        PROVE  f[n] = After(f[n - 1], n)
    <3>1. n \in 1 .. l /\ n - 1 \in 0 .. l
      BY <1>2, <2>1
    <3>2. f[n - 1] \in Seq(T)
      BY <3>1
    <3> QED
      BY <1>4, <1>6, <3>1, <3>2 DEF Follows
  <2>2. f = [n \in 0 .. l |-> f[n]]
    BY <1>6
  <2>3. \A n \in 0 .. l : f[n] = IF n = 0 THEN <<>> ELSE After(f[n - 1], n)
    BY <1>6, <2>1 DEF Follows
  <2> QED
    BY <2>2, <2>3
<1>8. all = [n \in 0 .. l |-> IF n = 0 THEN <<>> ELSE After(all[n - 1], n)]
  BY <1>7
<1> HIDE DEF all
<1>9. all[0] = <<>> /\ \A n \in 1 .. l : all[n] = After(all[n - 1], n)
  <2>1. 0 \in 0 .. l /\ \A n \in 1 .. l : n \in 0 .. l /\ n # 0
    BY <1>2
  <2> QED
    BY <1>8, <2>1
<1> DEFINE Right(k, n) ==
             /\ k \in Seq(T) /\ Len(k) <= n
             /\ \A i \in 1 .. Len(k) : k[i] \in S /\ \E j \in 1 .. n : k[i] = list[j]
             /\ Distinct(list) => Distinct(k)
           R == {n \in 0 .. l : Right(all[n], n)}
<1>10. 0 \in R
  <2>1. Right(<<>>, 0)
    BY <1>5 DEF Distinct
  <2> HIDE DEF Right
  <2> QED
    BY <1>2, <1>9, <2>1
<1>11. ASSUME NEW m \in 0 .. l - 1, m \in R
       PROVE  m + 1 \in R
  <2>1. PICK k \in Seq(T) : k = all[m] /\ Right(k, m)
    BY <1>11
  <2>2. m + 1 \in 1 .. l /\ all[m + 1] = After(k, m + 1)
    BY <1>2, <1>9, <2>1
  <2>3. CASE list[m + 1] \in S
    <3>1. PICK b : b = Append(k, list[m + 1])
      OBVIOUS
    <3>2. /\ b \in Seq(T) /\ Len(b) = Len(k) + 1 /\ b[Len(k) + 1] = list[m + 1]
          /\ \A i \in 1 .. Len(k) : b[i] = k[i]
      BY <1>2, <2>2, <3>1
    <3>3. ASSUME Distinct(list), NEW i \in 1 .. Len(k)
          PROVE  k[i] # list[m + 1]
      BY <2>1, <2>2, <3>3 DEF Distinct, l
    <3>4. Distinct(list) => Distinct(b)
      BY <2>1, <3>2, <3>3 DEF Distinct
    <3>5. \A i \in 1 .. Len(b) : b[i] \in S /\ \E j \in 1 .. m + 1 : b[i] = list[j]
      <4>1. ASSUME NEW i \in 1 .. Len(k)
            PROVE  b[i] \in S /\ \E j \in 1 .. m + 1 : b[i] = list[j]
        <5>1. PICK j \in 1 .. m : k[i] \in S /\ k[i] = list[j]
          BY <2>1
        <5>2. j \in 1 .. m + 1 /\ b[i] = k[i]
          BY <3>2
        <5> QED
          BY <5>1, <5>2
      <4>2. m + 1 \in 1 .. m + 1
        BY <2>2
      <4> QED
        BY <2>1, <2>3, <3>2, <4>1, <4>2
    <3>6. Right(b, m + 1)
      BY <2>1, <3>2, <3>4, <3>5
    <3>7. all[m + 1] = b
      BY <2>2, <2>3, <3>1
    <3> HIDE DEF Right
    <3> QED
      BY <2>2, <3>6, <3>7
  <2>4. CASE list[m + 1] \notin S
    <3>1. Right(k, m + 1)
      BY <2>1
    <3> QED
      BY <1>2, <2>1, <2>2, <2>4, <3>1
  <2> QED
    BY <2>3, <2>4
<1> HIDE DEF R
<1>12. l \in R
  BY <1>2, <1>10, <1>11, UpTo
<1> QED
  BY <1>1, <1>12 DEF R, l, Within, Distinct

(* The lists of searches and of files, as the settings and every process    *)
(* have them. *)
ListsRight(l) ==
  /\ l \in [recent : Seq(Texts), pinned : Seq(Texts), files : Seq(Files)]
  /\ Distinct(l.recent) /\ Distinct(l.pinned) /\ Apart(l.recent, l.pinned)
  /\ Distinct(l.files) /\ Len(l.files) <= MAX_NUMBER_OF_FILES

LEMMA RangeIs ==
  ASSUME NEW T, NEW list \in Seq(T), NEW x
  PROVE  \A i \in 1 .. Len(list) :
           list[i] \in Run!Range(list) \ {x} <=> list[i] # x
BY DEF Run!Range

LEMMA RemovedAll ==
  ASSUME NEW T, NEW list \in Seq(T), NEW x
  PROVE  LET k == Run!removeAll(list, x)
         IN  /\ k \in Seq(T) /\ Len(k) <= Len(list) /\ Within(k, list)
             /\ \A i \in 1 .. Len(k) : k[i] # x
             /\ Distinct(list) => Distinct(k)
<1>1. PICK k : k = Run!removeAll(list, x)
  OBVIOUS
<1>2. k = Run!Kept(list, Run!Range(list) \ {x})
  BY <1>1 DEF Run!removeAll
<1>3. /\ k \in Seq(T) /\ Len(k) <= Len(list) /\ Within(k, list)
      /\ \A i \in 1 .. Len(k) : k[i] \in Run!Range(list) \ {x}
      /\ Distinct(list) => Distinct(k)
  BY <1>2, KeptIs
<1> QED
  BY <1>1, <1>3

(* What is added in front. *)
LEMMA InFront ==
  ASSUME NEW T, NEW list \in Seq(T), NEW x \in T
  PROVE  LET k == <<x>> \o list
         IN  /\ k \in Seq(T) /\ Len(k) = Len(list) + 1 /\ k[1] = x
             /\ \A i \in 2 .. Len(k) : k[i] = list[i - 1]
OBVIOUS

LEMMA InFrontDistinct ==
  ASSUME NEW T, NEW list \in Seq(T), NEW x \in T, Distinct(list),
         \A i \in 1 .. Len(list) : list[i] # x
  PROVE  Distinct(<<x>> \o list)
<1>1. PICK k : k = <<x>> \o list
  OBVIOUS
<1>2. /\ Len(k) = Len(list) + 1 /\ k[1] = x /\ Len(list) \in Nat
      /\ \A i \in 2 .. Len(k) : k[i] = list[i - 1] /\ i - 1 \in 1 .. Len(list)
  BY <1>1, InFront
<1>3. ASSUME NEW i \in 1 .. Len(k), NEW j \in 1 .. Len(k), k[i] = k[j]
      PROVE  i = j
  <2>1. CASE i = 1 \/ j = 1
    BY <1>2, <1>3, <2>1
  <2>2. CASE i # 1 /\ j # 1
    <3>1. i \in 2 .. Len(k) /\ j \in 2 .. Len(k)
      BY <1>2, <2>2
    <3>2. i - 1 = j - 1
      BY <1>2, <1>3, <3>1 DEF Distinct
    <3> QED
      BY <3>2
  <2> QED
    BY <2>1, <2>2
<1> QED
  BY <1>1, <1>3 DEF Distinct

LEMMA InFrontApart ==
  ASSUME NEW T, NEW list \in Seq(T), NEW x \in T, NEW other,
         Apart(list, other) \/ Apart(other, list),
         \A i \in 1 .. Len(other) : other[i] # x
  PROVE  Apart(<<x>> \o list, other) /\ Apart(other, <<x>> \o list)
<1>1. PICK k : k = <<x>> \o list
  OBVIOUS
<1>2. /\ Len(k) = Len(list) + 1 /\ k[1] = x /\ Len(list) \in Nat
      /\ \A i \in 2 .. Len(k) : k[i] = list[i - 1] /\ i - 1 \in 1 .. Len(list)
  BY <1>1, InFront
<1>3. ASSUME NEW i \in 1 .. Len(k), NEW j \in 1 .. Len(other)
      PROVE  k[i] # other[j]
  <2>1. CASE i = 1
    BY <1>2, <2>1
  <2>2. CASE i # 1
    <3>1. k[i] = list[i - 1] /\ i - 1 \in 1 .. Len(list)
      BY <1>2, <2>2
    <3> QED
      BY <3>1 DEF Apart
  <2> QED
    BY <2>1, <2>2
<1> QED
  BY <1>1, <1>3 DEF Apart

LEMMA TrimmedIs ==
  ASSUME NEW T, NEW list \in Seq(T), NEW max \in Nat
  PROVE  LET k == Run!Trimmed(list, max)
         IN  /\ k \in Seq(T) /\ Len(k) <= max /\ Within(k, list)
             /\ Distinct(list) => Distinct(k)
<1>1. PICK k : k = Run!Trimmed(list, max)
  OBVIOUS
<1>2. PICK n \in Nat : n = (IF Len(list) < max THEN Len(list) ELSE max)
  OBVIOUS
<1>3. k = SubSeq(list, 1, n) /\ n <= max /\ n <= Len(list)
  BY <1>1, <1>2 DEF Run!Trimmed
<1>4. \A i \in 1 .. n : list[i] \in T
  BY <1>3
<1>5. k \in Seq(T) /\ Len(k) = n /\ \A i \in 1 .. n : k[i] = list[i] /\ i \in 1 .. Len(list)
  BY <1>3, <1>4
<1> QED
  BY <1>1, <1>3, <1>5 DEF Within, Distinct

LEMMA WithinApart ==
  ASSUME NEW k, NEW list, NEW other, Within(k, list)
  PROVE  /\ Apart(list, other) => Apart(k, other)
         /\ Apart(other, list) => Apart(other, k)
BY DEF Within, Apart

-----------------------------------------------------------------------------
LEMMA SearchAdded ==
  ASSUME NEW l, ListsRight(l), NEW text \in Texts,
         maxNumberOfRecentSearches \in Nat
  PROVE  ListsRight(Run!addRecentSearch(l, text))
<1>1. PICK u : u = Run!addRecentSearch(l, text)
  OBVIOUS
<1>2. CASE Run!Contains(l.pinned, text)
  <2>1. PICK k : k = Run!removeAll(l.pinned, text)
    OBVIOUS
  <2>2. /\ k \in Seq(Texts) /\ Within(k, l.pinned) /\ Distinct(k)
        /\ \A i \in 1 .. Len(k) : k[i] # text
    BY <2>1, RemovedAll DEF ListsRight
  <2>3. PICK new : new = <<text>> \o k
    OBVIOUS
  <2>4. /\ new \in Seq(Texts) /\ Len(new) = Len(k) + 1 /\ new[1] = text
        /\ \A i \in 2 .. Len(new) : new[i] = k[i - 1]
    BY <2>2, <2>3, InFront
  <2>5. Distinct(new)
    BY <2>2, <2>3, InFrontDistinct
  <2>6. u = [l EXCEPT !.pinned = new]
    BY <1>1, <1>2, <2>1, <2>3 DEF Run!addRecentSearch
  <2>7. Apart(l.recent, new)
    <3>1. Apart(l.recent, k)
      BY <2>2, WithinApart DEF ListsRight
    <3>2. \A i \in 1 .. Len(l.recent) : l.recent[i] # text
      BY <1>2 DEF ListsRight, Apart, Run!Contains
    <3> QED
      BY <2>2, <2>3, <3>1, <3>2, InFrontApart
  <2> QED
    BY <1>1, <2>4, <2>5, <2>6, <2>7 DEF ListsRight
<1>3. CASE ~Run!Contains(l.pinned, text)
  <2>1. PICK k : k = Run!removeAll(l.recent, text)
    OBVIOUS
  <2>2. /\ k \in Seq(Texts) /\ Within(k, l.recent) /\ Distinct(k)
        /\ \A i \in 1 .. Len(k) : k[i] # text
    BY <2>1, RemovedAll DEF ListsRight
  <2>3. PICK new : new = <<text>> \o k
    OBVIOUS
  <2>4. /\ new \in Seq(Texts) /\ Len(new) = Len(k) + 1 /\ new[1] = text
        /\ \A i \in 2 .. Len(new) : new[i] = k[i - 1]
    BY <2>2, <2>3, InFront
  <2>5. Distinct(new)
    BY <2>2, <2>3, InFrontDistinct
  <2>6. Apart(new, l.pinned)
    <3>1. Apart(k, l.pinned)
      BY <2>2, WithinApart DEF ListsRight
    <3>2. \A i \in 1 .. Len(l.pinned) : l.pinned[i] # text
      BY <1>3 DEF ListsRight, Run!Contains
    <3> QED
      BY <2>2, <2>3, <3>1, <3>2, InFrontApart
  <2>7. PICK short : short = Run!Trimmed(new, maxNumberOfRecentSearches)
    OBVIOUS
  <2>8. short \in Seq(Texts) /\ Within(short, new) /\ Distinct(short)
    BY <2>4, <2>5, <2>7, TrimmedIs
  <2>9. u = [l EXCEPT !.recent = short]
    BY <1>1, <1>3, <2>1, <2>3, <2>7 DEF Run!addRecentSearch
  <2>10. Apart(short, l.pinned)
    BY <2>6, <2>8, WithinApart
  <2> QED
    BY <1>1, <2>8, <2>9, <2>10 DEF ListsRight
<1> QED
  BY <1>2, <1>3

LEMMA SearchPinned ==
  ASSUME NEW l, ListsRight(l), NEW text \in Texts
  PROVE  ListsRight(Run!pinOrUnpinSearch(l, text))
<1>1. PICK u : u = Run!pinOrUnpinSearch(l, text)
  OBVIOUS
<1>2. CASE Run!Contains(l.pinned, text)
  <2>1. PICK k : k = Run!removeAll(l.pinned, text)
    OBVIOUS
  <2>2. /\ k \in Seq(Texts) /\ Within(k, l.pinned) /\ Distinct(k)
        /\ \A i \in 1 .. Len(k) : k[i] # text
    BY <2>1, RemovedAll DEF ListsRight
  <2>3. PICK new : new = <<text>> \o l.recent
    OBVIOUS
  <2>4. new \in Seq(Texts)
    BY <2>3 DEF ListsRight
  <2>5. \A i \in 1 .. Len(l.recent) : l.recent[i] # text
    BY <1>2 DEF ListsRight, Apart, Run!Contains
  <2>6. Distinct(new)
    BY <2>3, <2>5, InFrontDistinct DEF ListsRight
  <2>7. Apart(new, k)
    <3>1. Apart(l.recent, k)
      BY <2>2, WithinApart DEF ListsRight
    <3> QED
      BY <2>2, <2>3, <3>1, InFrontApart DEF ListsRight
  <2>8. u = [l EXCEPT !.pinned = k, !.recent = new]
    BY <1>1, <1>2, <2>1, <2>3 DEF Run!pinOrUnpinSearch, ListsRight
  <2> QED
    BY <1>1, <2>2, <2>4, <2>6, <2>7, <2>8 DEF ListsRight
<1>3. CASE ~Run!Contains(l.pinned, text)
  <2>1. PICK k : k = Run!removeAll(l.recent, text)
    OBVIOUS
  <2>2. /\ k \in Seq(Texts) /\ Within(k, l.recent) /\ Distinct(k)
        /\ \A i \in 1 .. Len(k) : k[i] # text
    BY <2>1, RemovedAll DEF ListsRight
  <2>3. PICK new : new = <<text>> \o l.pinned
    OBVIOUS
  <2>4. new \in Seq(Texts)
    BY <2>3 DEF ListsRight
  <2>5. \A i \in 1 .. Len(l.pinned) : l.pinned[i] # text
    BY <1>3 DEF ListsRight, Run!Contains
  <2>6. Distinct(new)
    BY <2>3, <2>5, InFrontDistinct DEF ListsRight
  <2>7. Apart(k, new)
    <3>1. Apart(k, l.pinned)
      BY <2>2, WithinApart DEF ListsRight
    <3> QED
      BY <2>2, <2>3, <3>1, InFrontApart DEF ListsRight
  <2>8. u = [l EXCEPT !.recent = k, !.pinned = new]
    BY <1>1, <1>3, <2>1, <2>3 DEF Run!pinOrUnpinSearch, ListsRight
  <2> QED
    BY <1>1, <2>2, <2>4, <2>6, <2>7, <2>8 DEF ListsRight
<1> QED
  BY <1>2, <1>3

LEMMA FileAdded ==
  ASSUME NEW l, ListsRight(l), NEW name \in Files, MAX_NUMBER_OF_FILES \in Nat
  PROVE  ListsRight(Run!addRecentFile(l, name))
<1>1. PICK pruned : pruned = Run!Kept(l.files, exists)
  OBVIOUS
<1>2. pruned \in Seq(Files) /\ Distinct(pruned)
  BY <1>1, KeptIs DEF ListsRight
<1>3. PICK k : k = Run!removeAll(pruned, name)
  OBVIOUS
<1>4. /\ k \in Seq(Files) /\ Distinct(k)
      /\ \A i \in 1 .. Len(k) : k[i] # name
  BY <1>2, <1>3, RemovedAll
<1>5. PICK new : new = <<name>> \o k
  OBVIOUS
<1>6. new \in Seq(Files) /\ Distinct(new)
  BY <1>4, <1>5, InFrontDistinct
<1>7. PICK short : short = Run!Trimmed(new, MAX_NUMBER_OF_FILES)
  OBVIOUS
<1>8. short \in Seq(Files) /\ Distinct(short) /\ Len(short) <= MAX_NUMBER_OF_FILES
  BY <1>6, <1>7, TrimmedIs
<1>9. Run!addRecentFile(l, name) = [l EXCEPT !.files = short]
  BY <1>1, <1>3, <1>5, <1>7 DEF Run!addRecentFile
<1> QED
  BY <1>8, <1>9 DEF ListsRight

(* Lists made of those of two others. *)
LEMMA Mixed ==
  ASSUME NEW l, ListsRight(l), NEW m, ListsRight(m)
  PROVE  /\ ListsRight([l EXCEPT !.files = m.files])
         /\ ListsRight([l EXCEPT !.recent = m.recent, !.pinned = m.pinned])
BY DEF ListsRight

(* Where a process that has found no other, and listens, may be. *)
Working == {"runs", "saveSearches", "saveFiles"}

Process ==
  [pc : Run!Starting \cup Working \cup {"off"},
   lists : [recent : Seq(Texts), pinned : Seq(Texts), files : Seq(Files)],
   inbox : Seq(Files), opened : SUBSET Files, volatile : BOOLEAN]

(* Of the processes, unless two were starting at the same time: at most one *)
(* is starting, and when it has found no other none listens. *)
OneStarts ==
  /\ \A p, q \in Processes :
       proc[p].pc \in Run!Starting /\ proc[q].pc \in Run!Starting => p = q
  /\ \A p \in Processes : proc[p].pc = "alone" => server = Run!None
  /\ \A p \in Processes : proc[p].pc \in Working <=> p = server

(* The process that listens is one that goes on running. *)
ServerRuns == server \in Processes => proc[server].pc \in Working

(* The invariant. *)
RunInv ==
  /\ server \in Processes \cup {Run!None} /\ ServerRuns
  /\ exists \subseteq Files
  /\ raced \in BOOLEAN
  /\ proc \in [Processes -> Process]
  /\ ListsRight(stored) /\ \A p \in Processes : ListsRight(proc[p].lists)
  /\ ~raced => OneStarts

(* One process changes. *)
LEMMA ProcChanges ==
  ASSUME RunInv, NEW p \in Processes, NEW x \in Process, ListsRight(x.lists),
         proc' = [proc EXCEPT ![p] = x]
  PROVE  /\ proc' \in [Processes -> Process] /\ proc'[p] = x
         /\ \A q \in Processes : q # p => proc'[q] = proc[q]
         /\ \A q \in Processes : ListsRight(proc'[q].lists)
BY DEF RunInv

LEMMA RunStarts ==
  ASSUME Run!Init
  PROVE  RunInv
<1>1. ListsRight(Run!NoLists)
  BY ProcessesAssumption DEF ListsRight, Run!NoLists, Distinct, Apart
<1>2. proc \in [Processes -> Process]
  BY DEF Run!Init, Process, Run!NoLists, Run!Starting, Working
<1>3. \A p \in Processes : proc[p].pc = "off" /\ ListsRight(proc[p].lists)
  BY <1>1 DEF Run!Init
<1> QED
  BY <1>1, <1>2, <1>3, ProcessesAssumption
     DEF Run!Init, RunInv, OneStarts, ServerRuns, Run!Starting, Working, Run!None

LEMMA RunStartsOne ==
  ASSUME RunInv, NEW p \in Processes, NEW names \in Seq(Files), NEW volatile \in BOOLEAN,
         Run!start(p, names, volatile)
  PROVE  RunInv'
<1>1. PICK x : x = [pc |-> "started", lists |-> Run!NoLists, inbox |-> names,
                    opened |-> {}, volatile |-> volatile]
  OBVIOUS
<1>2. ListsRight(x.lists) /\ x \in Process /\ x.pc = "started"
  BY <1>1, ProcessesAssumption
     DEF ListsRight, Run!NoLists, Distinct, Apart, Process, Run!Starting
<1>3. /\ proc' = [proc EXCEPT ![p] = x] /\ proc[p].pc = "off"
      /\ raced' = (raced \/ \E q \in Processes : proc[q].pc \in Run!Starting)
      /\ UNCHANGED <<server, stored, exists>>
  BY <1>1 DEF Run!start
<1>4. /\ proc' \in [Processes -> Process] /\ proc'[p] = x
      /\ \A q \in Processes : q # p => proc'[q] = proc[q]
      /\ \A q \in Processes : ListsRight(proc'[q].lists)
  BY <1>2, <1>3, ProcChanges
<1>5. ASSUME ~raced'
      PROVE  OneStarts'
  <2>1. ~raced /\ OneStarts /\ \A q \in Processes : proc[q].pc \notin Run!Starting
    BY <1>3, <1>5 DEF RunInv
  <2> QED
    BY <1>2, <1>3, <1>4, <2>1 DEF OneStarts, Run!Starting, Working
<1>6. ServerRuns'
  BY <1>3, <1>4 DEF RunInv, ServerRuns, Working
<1> QED
  BY <1>3, <1>4, <1>5, <1>6 DEF RunInv

(* A process whose lists or mailbox change, and which goes on running. *)
LEMMA RunsOn ==
  ASSUME RunInv, NEW p \in Processes, proc[p].pc \in Working, NEW x \in Process,
         x.pc \in Working, ListsRight(x.lists), proc' = [proc EXCEPT ![p] = x],
         ListsRight(stored'), UNCHANGED <<server, exists, raced>>
  PROVE  RunInv'
<1>1. /\ proc' \in [Processes -> Process] /\ proc'[p] = x
      /\ \A q \in Processes : q # p => proc'[q] = proc[q]
      /\ \A q \in Processes : ListsRight(proc'[q].lists)
  BY ProcChanges
<1>2. OneStarts => OneStarts'
  BY <1>1 DEF OneStarts, Run!Starting, Working
<1>3. ServerRuns'
  BY <1>1 DEF RunInv, ServerRuns
<1> QED
  BY <1>1, <1>2, <1>3 DEF RunInv

LEMMA RunSearches ==
  ASSUME RunInv, NEW p \in Processes, NEW text \in Texts,
         Run!startNewSearch(p, text) \/ Run!pinButtonClicked(p, text)
  PROVE  RunInv'
<1>1. PICK l : l = Run!retrieveSearches(p)
  OBVIOUS
<1>2. ListsRight(l)
  BY <1>1, Mixed DEF RunInv, Run!retrieveSearches
<1>3. PICK m : /\ m \in {Run!addRecentSearch(l, text), Run!pinOrUnpinSearch(l, text)}
               /\ proc' = [proc EXCEPT ![p].lists = m, ![p].pc = "saveSearches"]
               /\ proc[p].pc = "runs"
               /\ UNCHANGED <<stored, server, exists, raced>>
  BY <1>1 DEF Run!startNewSearch, Run!pinButtonClicked
<1>4. ListsRight(m)
  BY <1>2, <1>3, SearchAdded, SearchPinned, ProcessesAssumption
<1>5. PICK x : x = [proc[p] EXCEPT !.lists = m, !.pc = "saveSearches"]
  OBVIOUS
<1>6. proc[p] \in Process
  BY DEF RunInv
<1>7. x \in Process /\ x.pc = "saveSearches" /\ x.lists = m
  BY <1>4, <1>5, <1>6 DEF Process, Working, ListsRight
<1>8. proc' = [proc EXCEPT ![p] = x]
  BY <1>3, <1>5 DEF RunInv
<1> QED
  BY <1>3, <1>4, <1>7, <1>8, RunsOn DEF Working, RunInv

LEMMA RunLoads ==
  ASSUME RunInv, NEW p \in Processes, Run!loadFile(p)
  PROVE  RunInv'
<1>1. proc[p] \in Process /\ ListsRight(proc[p].lists) /\ ListsRight(stored)
  BY DEF RunInv
<1>2. /\ proc[p].pc = "runs" /\ proc[p].inbox # <<>>
      /\ UNCHANGED <<server, stored, exists, raced>>
  BY DEF Run!loadFile
<1>3. PICK name : name = Head(proc[p].inbox)
  OBVIOUS
<1>4. name \in Files /\ Tail(proc[p].inbox) \in Seq(Files)
  BY <1>1, <1>2, <1>3 DEF Process
<1>5. CASE name \in exists
  <2>1. PICK l : l = [proc[p].lists EXCEPT !.files = stored.files]
    OBVIOUS
  <2>2. ListsRight(l)
    BY <1>1, <2>1, Mixed
  <2>3. PICK m : m = Run!addRecentFile(l, name)
    OBVIOUS
  <2>4. ListsRight(m)
    BY <1>4, <2>2, <2>3, FileAdded, ProcessesAssumption
  <2>5. PICK x : x = [proc[p] EXCEPT !.inbox = Tail(@), !.opened = @ \cup {name},
                                     !.pc = "saveFiles", !.lists = m]
    OBVIOUS
  <2>6. x \in Process /\ x.pc = "saveFiles" /\ x.lists = m
    BY <1>1, <1>4, <2>4, <2>5 DEF Process, Working, ListsRight
  <2>7. proc' = [proc EXCEPT ![p] = x]
    BY <1>3, <1>5, <2>1, <2>3, <2>5 DEF RunInv, Run!loadFile
  <2> QED
    BY <1>1, <1>2, <2>4, <2>6, <2>7, RunsOn DEF Working
<1>6. CASE name \notin exists
  <2>1. PICK x : x = [proc[p] EXCEPT !.inbox = Tail(@)]
    OBVIOUS
  <2>2. x \in Process /\ x.pc = "runs" /\ x.lists = proc[p].lists
    BY <1>1, <1>2, <1>4, <2>1 DEF Process
  <2>3. proc' = [proc EXCEPT ![p] = x]
    BY <1>1, <1>3, <1>6, <2>1 DEF RunInv, Run!loadFile, Process
  <2> QED
    BY <1>1, <1>2, <2>2, <2>3, RunsOn DEF Working
<1> QED
  BY <1>5, <1>6

LEMMA RunSaves ==
  ASSUME RunInv, NEW p \in Processes, Run!save(p)
  PROVE  RunInv'
<1>1. proc[p] \in Process /\ ListsRight(proc[p].lists) /\ ListsRight(stored)
  BY DEF RunInv
<1>2. PICK x : x = [proc[p] EXCEPT !.pc = "runs"]
  OBVIOUS
<1>3. x \in Process /\ x.pc = "runs" /\ x.lists = proc[p].lists
  BY <1>1, <1>2 DEF Process, Working
<1>4. /\ proc' = [proc EXCEPT ![p] = x] /\ proc[p].pc \in Working
      /\ UNCHANGED <<server, exists, raced>>
      /\ stored' \in {stored, [stored EXCEPT !.files = proc[p].lists.files],
                      [proc[p].lists EXCEPT !.files = stored.files]}
  BY <1>2 DEF Run!save, Working, RunInv
<1>5. ListsRight(stored')
  <2>1. ListsRight([stored EXCEPT !.files = proc[p].lists.files])
    BY <1>1, Mixed, Zenon
  <2>2. ListsRight([proc[p].lists EXCEPT !.files = stored.files])
    BY <1>1, Mixed, Zenon
  <2> QED
    BY <1>1, <1>4, <2>1, <2>2, Zenon
<1> QED
  BY <1>1, <1>3, <1>4, <1>5, RunsOn DEF Working

(* One that starts finds another, which takes its files, or none. *)
LEMMA RunFinds ==
  ASSUME RunInv, NEW p \in Processes, Run!otherInstance(p)
  PROVE  RunInv'
<1>1. proc[p] \in Process /\ ListsRight(proc[p].lists) /\ proc[p].pc = "started"
  BY DEF RunInv, Run!otherInstance
<1>2. UNCHANGED <<server, stored, exists, raced>>
  BY DEF Run!otherInstance
<1>3. CASE server = Run!None
  <2>1. PICK x : x = [proc[p] EXCEPT !.pc = "alone"]
    OBVIOUS
  <2>2. x \in Process /\ x.pc = "alone" /\ x.lists = proc[p].lists
    BY <1>1, <2>1 DEF Process, Run!Starting
  <2>3. proc' = [proc EXCEPT ![p] = x]
    BY <1>3, <2>1 DEF Run!otherInstance, RunInv
  <2>4. /\ proc' \in [Processes -> Process] /\ proc'[p] = x
        /\ \A q \in Processes : q # p => proc'[q] = proc[q]
        /\ \A q \in Processes : ListsRight(proc'[q].lists)
    BY <1>1, <2>2, <2>3, ProcChanges
  <2>5. OneStarts => OneStarts'
    BY <1>1, <1>2, <1>3, <2>2, <2>4 DEF OneStarts, Run!Starting, Working
  <2>6. ServerRuns'
    BY <1>2, <1>3, ProcessesAssumption DEF ServerRuns, Run!None
  <2> QED
    BY <1>2, <2>4, <2>5, <2>6 DEF RunInv
<1>4. CASE server # Run!None
  <2>1. server \in Processes
    BY <1>4 DEF RunInv
  <2>2. PICK x : x = [proc[p] EXCEPT !.pc = "off", !.inbox = <<>>]
    OBVIOUS
  <2>3. PICK between : between = [proc EXCEPT ![p] = x]
    OBVIOUS
  <2>4. x \in Process /\ x.pc = "off" /\ x.lists = proc[p].lists
    <3>1. <<>> \in Seq(Files)
      OBVIOUS
    <3> QED
      BY <1>1, <2>2, <3>1 DEF Process
  <2>5. /\ between \in [Processes -> Process] /\ between[p] = x
        /\ \A q \in Processes : q # p => between[q] = proc[q]
        /\ \A q \in Processes : ListsRight(between[q].lists)
    BY <1>1, <2>3, <2>4 DEF RunInv
  <2>6. PICK names : names = Run!Received(proc[p].inbox)
    OBVIOUS
  <2>7. names \in Seq(Files)
    BY <1>1, <2>6 DEF Run!Received, Process
  <2>8. between[server] \in Process
    BY <2>1, <2>5
  <2>9. PICK y : y = [between[server] EXCEPT !.inbox = @ \o names]
    OBVIOUS
  <2>10. proc' = [between EXCEPT ![server] = y]
    <3>1. proc' = [proc EXCEPT ![p].pc = "off", ![p].inbox = <<>>,
                               ![server].inbox = @ \o names]
      BY <1>4, <2>6 DEF Run!otherInstance
    <3>2. proc \in [Processes -> Process] /\ server # p
      BY <1>1, <2>1 DEF RunInv, ServerRuns, Working
    <3>3. y = [proc[server] EXCEPT !.inbox = @ \o names]
      BY <2>1, <2>5, <2>9, <3>2
    <3>4. proc' = [[proc EXCEPT ![p] = x] EXCEPT ![server] = y]
      BY <2>1, <2>2, <3>1, <3>2, <3>3
    <3> QED
      BY <2>3, <3>4
  <2>11. y \in Process /\ y.pc = between[server].pc /\ y.lists = between[server].lists
    <3>1. PICK list \in Seq(Files) : list = between[server].inbox
      BY <2>8 DEF Process
    <3>2. list \o names \in Seq(Files)
      BY <2>7
    <3>3. y = [between[server] EXCEPT !.inbox = list \o names]
      BY <2>9, <3>1
    <3> QED
      BY <2>8, <3>2, <3>3 DEF Process
  <2>12. /\ proc' \in [Processes -> Process]
        /\ \A q \in Processes : /\ proc'[q].pc = between[q].pc
                                /\ proc'[q].lists = between[q].lists
    BY <2>1, <2>5, <2>10, <2>11
  <2>13. OneStarts => OneStarts'
    BY <1>1, <1>2, <2>1, <2>4, <2>5, <2>12 DEF OneStarts, Run!Starting, Working
  <2>14. ServerRuns'
    BY <1>1, <1>2, <2>1, <2>5, <2>12 DEF RunInv, ServerRuns, Working
  <2> QED
    BY <1>2, <2>5, <2>12, <2>13, <2>14 DEF RunInv
<1> QED
  BY <1>3, <1>4

LEMMA RunListens ==
  ASSUME RunInv, NEW p \in Processes, Run!startListening(p)
  PROVE  RunInv'
<1>1. /\ proc[p] \in Process /\ proc[p].pc = "alone" /\ ListsRight(stored)
      /\ UNCHANGED <<stored, exists, raced>>
  BY DEF RunInv, Run!startListening
<1>2. PICK x : x = [proc[p] EXCEPT !.pc = "runs", !.lists = stored]
  OBVIOUS
<1>3. x \in Process /\ x.pc = "runs" /\ x.lists = stored
  BY <1>1, <1>2 DEF Process, Working, ListsRight
<1>4. proc' = [proc EXCEPT ![p] = x]
  BY <1>2 DEF Run!startListening, RunInv
<1>5. /\ proc' \in [Processes -> Process] /\ proc'[p] = x
      /\ \A q \in Processes : q # p => proc'[q] = proc[q]
      /\ \A q \in Processes : ListsRight(proc'[q].lists)
  BY <1>1, <1>3, <1>4, ProcChanges
<1>6. server' \in {server, p}
  BY DEF Run!startListening
<1>7. ASSUME OneStarts
      PROVE  OneStarts'
  <2>1. server = Run!None /\ \A q \in Processes : proc[q].pc \notin Working
    BY <1>1, <1>7, ProcessesAssumption DEF OneStarts, Run!None
  <2>2. server' = p
    BY <2>1 DEF Run!startListening
  <2>3. \A q \in Processes : q # p => proc[q].pc \notin Run!Starting
    BY <1>1, <1>7 DEF OneStarts, Run!Starting
  <2> QED
    BY <1>3, <1>5, <2>1, <2>2, <2>3 DEF OneStarts, Run!Starting, Working
<1>8. ServerRuns'
  BY <1>3, <1>5, <1>6 DEF RunInv, ServerRuns, Working
<1> QED
  BY <1>1, <1>5, <1>6, <1>7, <1>8 DEF RunInv

LEMMA RunQuits ==
  ASSUME RunInv, NEW p \in Processes, Run!quit(p)
  PROVE  RunInv'
<1>1. /\ proc[p] \in Process /\ proc[p].pc = "runs" /\ ListsRight(proc[p].lists)
      /\ UNCHANGED <<stored, exists, raced>>
  BY DEF RunInv, Run!quit
<1>2. PICK x : x = [proc[p] EXCEPT !.pc = "off", !.inbox = <<>>]
  OBVIOUS
<1>3. x \in Process /\ x.pc = "off" /\ x.lists = proc[p].lists
  <2>1. <<>> \in Seq(Files)
    OBVIOUS
  <2> QED
    BY <1>1, <1>2, <2>1 DEF Process
<1>4. proc' = [proc EXCEPT ![p] = x]
  BY <1>2 DEF Run!quit, RunInv
<1>5. /\ proc' \in [Processes -> Process] /\ proc'[p] = x
      /\ \A q \in Processes : q # p => proc'[q] = proc[q]
      /\ \A q \in Processes : ListsRight(proc'[q].lists)
  BY <1>1, <1>3, <1>4, ProcChanges
<1>6. server' \in {server, Run!None}
  BY DEF Run!quit
<1>7. ASSUME OneStarts
      PROVE  OneStarts'
  <2>1. server = p /\ \A q \in Processes : q # p => proc[q].pc \notin Working
    BY <1>1, <1>7 DEF OneStarts, Working
  <2>2. server' = Run!None
    BY <2>1 DEF Run!quit
  <2> QED
    BY <1>3, <1>5, <1>7, <2>1, <2>2, ProcessesAssumption
       DEF OneStarts, Run!Starting, Working, Run!None
<1>8. ServerRuns'
  <2>1. server' \in Processes => server' = server /\ server # p
    BY <1>6, ProcessesAssumption DEF Run!quit, Run!None
  <2> QED
    BY <1>5, <2>1 DEF RunInv, ServerRuns
<1> QED
  BY <1>1, <1>5, <1>6, <1>7, <1>8 DEF RunInv

(* Names given on the command line. *)
LEMMA NamesGiven ==
  ASSUME NEW names \in Run!BoundedSeq(Files, 2)
  PROVE  names \in Seq(Files)
<1>1. PICK n \in 0 .. 2 : names \in [1 .. n -> Files]
  BY DEF Run!BoundedSeq, Run!SeqOf
<1> QED
  BY <1>1

LEMMA RunGoesOn ==
  ASSUME RunInv, [Run!Next]_(Run!vars)
  PROVE  RunInv'
<1>1. ASSUME NEW p \in Processes, Run!Step(p)
      PROVE  RunInv'
  BY <1>1, RunFinds, RunListens, RunLoads, RunSaves, RunQuits DEF Run!Step
<1>2. ASSUME NEW p \in Processes, Run!User(p)
      PROVE  RunInv'
  BY <1>2, NamesGiven, RunStartsOne, RunSearches DEF Run!User
<1>3. ASSUME NEW name \in Files, Run!removeFile(name)
      PROVE  RunInv'
  BY <1>3 DEF Run!removeFile, RunInv, OneStarts, ServerRuns
<1>4. CASE UNCHANGED Run!vars
  BY <1>4 DEF Run!vars, RunInv, OneStarts, ServerRuns
<1> QED
  BY <1>1, <1>2, <1>3, <1>4 DEF Run!Next

LEMMA InjectiveJoin ==
  ASSUME NEW T, NEW a \in Seq(T), NEW b \in Seq(T), Distinct(a), Distinct(b), Apart(a, b)
  PROVE  Run!IsInjective(a \o b)
<1>1. PICK k : k = a \o b
  OBVIOUS
<1>2. /\ Len(a) \in Nat /\ Len(b) \in Nat /\ Len(k) = Len(a) + Len(b)
      /\ DOMAIN k = 1 .. Len(k)
      /\ \A i \in 1 .. Len(a) : k[i] = a[i]
      /\ \A i \in Len(a) + 1 .. Len(k) : k[i] = b[i - Len(a)]
  BY <1>1
<1>3. \A i \in Len(a) + 1 .. Len(k) : i - Len(a) \in 1 .. Len(b)
  BY <1>2
<1>4. ASSUME NEW i \in 1 .. Len(k), NEW j \in 1 .. Len(k), k[i] = k[j]
      PROVE  i = j
  <2>1. CASE i <= Len(a) /\ j <= Len(a)
    BY <1>2, <1>4, <2>1 DEF Distinct
  <2>2. CASE i > Len(a) /\ j > Len(a)
    <3>1. i \in Len(a) + 1 .. Len(k) /\ j \in Len(a) + 1 .. Len(k)
      BY <1>2, <2>2
    <3>2. i - Len(a) = j - Len(a)
      BY <1>2, <1>3, <1>4, <3>1 DEF Distinct
    <3> QED
      BY <1>2, <3>2
  <2>3. CASE i <= Len(a) /\ j > Len(a)
    BY <1>2, <1>3, <1>4, <2>3 DEF Apart
  <2>4. CASE j <= Len(a) /\ i > Len(a)
    BY <1>2, <1>3, <1>4, <2>4 DEF Apart
  <2> QED
    BY <1>2, <2>1, <2>2, <2>3, <2>4
<1> QED
  BY <1>1, <1>2, <1>4 DEF Run!IsInjective

(* What RunInv says of the lists is what the run checks. *)
LEMMA ListsAreRight ==
  ASSUME NEW l, ListsRight(l)
  PROVE  /\ Run!IsInjective(l.recent \o l.pinned) /\ Run!IsInjective(l.files)
         /\ Len(l.files) <= MAX_NUMBER_OF_FILES
<1>1. Run!IsInjective(l.recent \o l.pinned)
  BY InjectiveJoin DEF ListsRight
<1>2. Run!IsInjective(l.files)
  BY DEF ListsRight, Distinct, Run!IsInjective
<1> QED
  BY <1>1, <1>2 DEF ListsRight

(* For any processes, files and texts, and bounds of the lists: no search   *)
(* and no file is listed twice, in the settings and in any process, and one *)
(* process runs, unless two were starting at the same time: InstancesAgree, *)
(* which the run checks. *)
THEOREM ListsStayRight == Spec => []InstancesAgree
<1>1. Init => (use = "instances" => RunInv)
  BY RunStarts DEF Init
<1>2. (use = "instances" => RunInv) /\ [Next]_vars => (use = "instances" => RunInv)'
  BY RunSteps, RunGoesOn, UseStays
<1>3. (use = "instances" => RunInv) => InstancesAgree
  <2> SUFFICES ASSUME use = "instances", RunInv
               PROVE  Run!ListsAreSets /\ Run!OneRuns
    BY DEF InstancesAgree
  <2>1. Run!ListsAreSets
    BY ListsAreRight DEF Run!ListsAreSets, Run!Lists, RunInv
  <2>2. Run!OneRuns
    <3>1. \A p \in Processes : proc[p].pc \notin Run!Starting \cup {"off"} <=> proc[p].pc \in Working
      BY DEF RunInv, Process, Working, Run!Starting
    <3> QED
      BY <3>1, ProcessesAssumption DEF Run!OneRuns, RunInv, OneStarts, Run!None
  <2> QED
    BY <2>1, <2>2
<1> QED
  BY <1>1, <1>2, <1>3, PTL DEF Spec

-----------------------------------------------------------------------------
(***************************************************************************)
(* The windows.  Every handler is a function from the state of the windows *)
(* to the state it leaves, and goes through states that are not right yet: *)
(* a file is open and has no tab, a tab was taken out of its window and    *)
(* the window shows another.  The invariant has those files as a parameter *)
(* X, empty between two events: every open file that is not in X has one   *)
(* tab, in one window, that listens to it; the handler of its data status  *)
(* knows that tab until a tab is moved; each window shows its current tab. *)
(* What was saved is told by the order that the tabs of the window had     *)
(* when it saved them last: the same crawlers, in another order maybe.     *)
(***************************************************************************)
(* What the operations on the tabs return. *)
LEMMA JoinIs ==
  ASSUME NEW T, NEW a \in Seq(T), NEW b \in Seq(T)
  PROVE  /\ a \o b \in Seq(T) /\ Len(a \o b) = Len(a) + Len(b)
         /\ Len(a) \in Nat /\ Len(b) \in Nat
         /\ \A j \in 1 .. Len(a) : (a \o b)[j] = a[j]
         /\ \A j \in Len(a) + 1 .. Len(a) + Len(b) : (a \o b)[j] = b[j - Len(a)]
OBVIOUS

(* k is the list with x at i, and those from there on after it. *)
WithAt(k, list, i, x) ==
  /\ Len(k) = Len(list) + 1 /\ k[i] = x
  /\ \A j \in 1 .. i - 1 : k[j] = list[j]
  /\ \A j \in i + 1 .. Len(k) : k[j] = list[j - 1]

(* What InsertAt() and RemoveAt() do to the tabs. *)
LEMMA InsertIs ==
  ASSUME NEW T, NEW list \in Seq(T), NEW i \in 1 .. Len(list) + 1, NEW x \in T,
         NEW k, k = Tabs!InsertAt(list, i, x)
  PROVE  k \in Seq(T) /\ WithAt(k, list, i, x)
<1>2. Len(list) \in Nat /\ i \in Nat
  OBVIOUS
<1>3. PICK a : a = SubSeq(list, 1, i - 1)
  OBVIOUS
<1>4. a \in Seq(T) /\ Len(a) = i - 1 /\ \A j \in 1 .. i - 1 : a[j] = list[j]
  BY <1>2, <1>3
<1>5. PICK b : b = SubSeq(list, i, Len(list))
  OBVIOUS
<1>6. /\ b \in Seq(T) /\ Len(b) = Len(list) - i + 1
      /\ \A j \in 1 .. Len(list) - i + 1 : b[j] = list[i + j - 1]
  BY <1>2, <1>5
<1>7. PICK c : c = a \o <<x>>
  OBVIOUS
<1>8. c \in Seq(T) /\ Len(c) = i /\ c[i] = x /\ \A j \in 1 .. i - 1 : c[j] = list[j]
  BY <1>2, <1>4, <1>7
<1>9. k = c \o b
  BY <1>3, <1>5, <1>7 DEF Tabs!InsertAt
<1>10. /\ k \in Seq(T) /\ Len(k) = Len(list) + 1
       /\ \A j \in 1 .. i : k[j] = c[j]
       /\ \A j \in i + 1 .. Len(k) : k[j] = b[j - i]
  <2>1. /\ k \in Seq(T) /\ Len(k) = Len(c) + Len(b)
        /\ \A j \in 1 .. Len(c) : k[j] = c[j]
        /\ \A j \in Len(c) + 1 .. Len(c) + Len(b) : k[j] = b[j - Len(c)]
    <3>1. c \in Seq(T) /\ b \in Seq(T)
      BY <1>6, <1>8
    <3> QED
      BY <1>9, <3>1, JoinIs
  <2> QED
    BY <1>2, <1>6, <1>8, <2>1
<1>11. ASSUME NEW j \in i + 1 .. Len(k)
       PROVE  k[j] = list[j - 1]
  <2>1. j - i \in 1 .. Len(list) - i + 1 /\ i + (j - i) - 1 = j - 1
    BY <1>2, <1>10
  <2> QED
    BY <1>6, <1>10, <2>1
<1> QED
  BY <1>2, <1>8, <1>10, <1>11 DEF WithAt

LEMMA RemoveIs ==
  ASSUME NEW T, NEW list \in Seq(T), NEW i \in 1 .. Len(list)
  PROVE  LET k == Tabs!RemoveAt(list, i)
         IN  /\ k \in Seq(T) /\ Len(k) = Len(list) - 1
             /\ \A j \in 1 .. i - 1 : k[j] = list[j]
             /\ \A j \in i .. Len(k) : k[j] = list[j + 1]
<1>1. PICK k : k = Tabs!RemoveAt(list, i)
  OBVIOUS
<1>2. Len(list) \in Nat /\ i \in Nat
  OBVIOUS
<1>3. PICK a : a = SubSeq(list, 1, i - 1)
  OBVIOUS
<1>4. a \in Seq(T) /\ Len(a) = i - 1 /\ \A j \in 1 .. i - 1 : a[j] = list[j]
  BY <1>2, <1>3
<1>5. PICK b : b = SubSeq(list, i + 1, Len(list))
  OBVIOUS
<1>6. /\ b \in Seq(T) /\ Len(b) = Len(list) - i
      /\ \A j \in 1 .. Len(list) - i : b[j] = list[i + j]
  BY <1>2, <1>5
<1>7. k = a \o b
  BY <1>1, <1>3, <1>5 DEF Tabs!RemoveAt
<1>8. /\ k \in Seq(T) /\ Len(k) = Len(list) - 1
      /\ \A j \in 1 .. i - 1 : k[j] = a[j]
      /\ \A j \in i .. Len(k) : k[j] = b[j - (i - 1)]
  <2>1. /\ k \in Seq(T) /\ Len(k) = Len(a) + Len(b)
        /\ \A j \in 1 .. Len(a) : k[j] = a[j]
        /\ \A j \in Len(a) + 1 .. Len(a) + Len(b) : k[j] = b[j - Len(a)]
    BY <1>4, <1>6, <1>7, JoinIs
  <2> QED
    BY <1>2, <1>4, <1>6, <2>1
<1>9. ASSUME NEW j \in i .. Len(k)
      PROVE  k[j] = list[j + 1]
  <2>1. j - (i - 1) \in 1 .. Len(list) - i /\ i + (j - (i - 1)) = j + 1
    BY <1>2, <1>8
  <2> QED
    BY <1>6, <1>8, <2>1
<1> QED
  BY <1>1, <1>4, <1>8, <1>9

-----------------------------------------------------------------------------
TabFields ==
  {"windows", "tabs", "current", "title", "info", "followAction", "file", "follow",
   "loading", "indexing", "firstLoadDone", "status", "searching", "pinned", "icon",
   "handler", "listeners", "saved", "savedBy", "drag", "moved", "dropped"}

Statuses == {"old", "new", "filtered"}

Named == Files \cup {Tabs!NoFile}

TabsTyped(x) ==
  /\ x = [f \in TabFields |-> x[f]]
  /\ x.windows \in SUBSET Tabs!Windows
  /\ x.tabs \in [Tabs!Windows -> Seq(Tabs!Crawlers)]
  /\ x.current \in [Tabs!Windows -> Nat]
  /\ x.title \in [Tabs!Windows -> Named] /\ x.info \in [Tabs!Windows -> Named]
  /\ x.followAction \in [Tabs!Windows -> BOOLEAN]
  /\ x.file \in [Tabs!Crawlers -> Named] /\ x.follow \in [Tabs!Crawlers -> BOOLEAN]
  /\ x.loading \in [Tabs!Crawlers -> BOOLEAN]
  /\ x.indexing \in [Tabs!Crawlers -> BOOLEAN]
  /\ x.firstLoadDone \in [Tabs!Crawlers -> BOOLEAN]
  /\ x.searching \in [Tabs!Crawlers -> BOOLEAN]
  /\ x.pinned \in [Tabs!Crawlers -> BOOLEAN]
  /\ x.status \in [Tabs!Crawlers -> Statuses] /\ x.icon \in [Tabs!Crawlers -> Statuses]
  /\ x.handler \in [Tabs!Crawlers -> Tabs!Windows \X Nat]
  /\ x.listeners \in [Tabs!Crawlers -> SUBSET Tabs!Windows]
  /\ x.saved \in Seq([file : Files, follow : BOOLEAN]) /\ x.savedBy \in Tabs!Windows
  /\ x.drag = Tabs!NoDrag \/ x.drag \in [from : Tabs!Windows, index : Nat]
  /\ x.moved \in BOOLEAN /\ x.dropped \in SUBSET Tabs!Crawlers

(* u differs from x in the fields of F only. *)
Differs(x, u, F) ==
  /\ u = [f \in TabFields |-> u[f]]
  /\ \A f \in TabFields \ F : u[f] = x[f]

(* Every tab has a file that is open, and every open file but those of X a  *)
(* tab, in one window, which listens to it. *)
Placed(x, X) ==
  /\ \A w \in Tabs!Windows : /\ x.current[w] \in 0 .. Len(x.tabs[w])
                             /\ x.current[w] = 0 <=> Len(x.tabs[w]) = 0
  /\ \A w, z \in Tabs!Windows :
       \A i \in 1 .. Len(x.tabs[w]), j \in 1 .. Len(x.tabs[z]) :
         x.tabs[w][i] = x.tabs[z][j] => w = z /\ i = j
  /\ \A w \in Tabs!Windows : \A i \in 1 .. Len(x.tabs[w]) :
       /\ x.file[x.tabs[w][i]] # Tabs!NoFile
       /\ w \in x.listeners[x.tabs[w][i]] /\ x.tabs[w][i] \notin X
  /\ \A c \in Tabs!Crawlers :
       x.file[c] # Tabs!NoFile =>
         c \in X \/ \E w \in Tabs!Windows : \E i \in 1 .. Len(x.tabs[w]) : x.tabs[w][i] = c

CrawlerOf(x, w) == IF x.current[w] = 0 THEN 0 ELSE x.tabs[w][x.current[w]]

(* What WindowShowsCurrent says of one window. *)
ShowsTab(x, w) ==
  LET c == CrawlerOf(x, w)
  IN  IF c = 0 THEN x.title[w] = Tabs!NoFile
      ELSE /\ x.title[w] = x.file[c] /\ x.followAction[w] = x.follow[c]
           /\ x.loading[c] \/ c \in x.dropped \/ x.info[w] = x.file[c]

(* The handler of the status of each crawler knows its tab. *)
KnowsTab(x, c) ==
  LET w == x.handler[c][1]  i == x.handler[c][2]
  IN  i \in 1 .. Len(x.tabs[w]) /\ x.tabs[w][i] = c

IconsRight(x, X) ==
  ~x.moved =>
    \A c \in Tabs!Crawlers :
      x.file[c] # Tabs!NoFile /\ c \notin X =>
        KnowsTab(x, c) /\ (c \notin x.dropped => x.icon[c] = x.status[c])

(* Nothing is loaded for a file that is closed. *)
IndexingOpen(x) == \A c \in Tabs!Crawlers : x.indexing[c] => x.file[c] # Tabs!NoFile

TabsGood(x, X) ==
  /\ TabsTyped(x) /\ Placed(x, X) /\ IconsRight(x, X) /\ IndexingOpen(x)
  /\ \A w \in Tabs!Windows : ShowsTab(x, w)

-----------------------------------------------------------------------------
(* The types stay when the fields that change are of theirs. *)
LEMMA StaysTyped ==
  ASSUME NEW x, TabsTyped(x), NEW u, NEW F, Differs(x, u, F),
         "windows" \in F => u.windows \in SUBSET Tabs!Windows,
         "tabs" \in F => u.tabs \in [Tabs!Windows -> Seq(Tabs!Crawlers)],
         "current" \in F => u.current \in [Tabs!Windows -> Nat],
         "title" \in F => u.title \in [Tabs!Windows -> Named],
         "info" \in F => u.info \in [Tabs!Windows -> Named],
         "followAction" \in F => u.followAction \in [Tabs!Windows -> BOOLEAN],
         "file" \in F => u.file \in [Tabs!Crawlers -> Named],
         "follow" \in F => u.follow \in [Tabs!Crawlers -> BOOLEAN],
         "loading" \in F => u.loading \in [Tabs!Crawlers -> BOOLEAN],
         "indexing" \in F => u.indexing \in [Tabs!Crawlers -> BOOLEAN],
         "firstLoadDone" \in F => u.firstLoadDone \in [Tabs!Crawlers -> BOOLEAN],
         "searching" \in F => u.searching \in [Tabs!Crawlers -> BOOLEAN],
         "pinned" \in F => u.pinned \in [Tabs!Crawlers -> BOOLEAN],
         "status" \in F => u.status \in [Tabs!Crawlers -> Statuses],
         "icon" \in F => u.icon \in [Tabs!Crawlers -> Statuses],
         "handler" \in F => u.handler \in [Tabs!Crawlers -> Tabs!Windows \X Nat],
         "listeners" \in F => u.listeners \in [Tabs!Crawlers -> SUBSET Tabs!Windows],
         "saved" \in F => u.saved \in Seq([file : Files, follow : BOOLEAN]),
         "savedBy" \in F => u.savedBy \in Tabs!Windows,
         "drag" \in F => u.drag = Tabs!NoDrag \/ u.drag \in [from : Tabs!Windows, index : Nat],
         "moved" \in F => u.moved \in BOOLEAN,
         "dropped" \in F => u.dropped \in SUBSET Tabs!Crawlers
  PROVE  TabsTyped(u)
<1>1. \A f \in TabFields : f \notin F => u[f] = x[f]
  BY DEF Differs
<1>2. /\ u.windows \in SUBSET Tabs!Windows
      /\ u.tabs \in [Tabs!Windows -> Seq(Tabs!Crawlers)]
      /\ u.current \in [Tabs!Windows -> Nat]
      /\ u.title \in [Tabs!Windows -> Named] /\ u.info \in [Tabs!Windows -> Named]
      /\ u.followAction \in [Tabs!Windows -> BOOLEAN]
      /\ u.file \in [Tabs!Crawlers -> Named] /\ u.follow \in [Tabs!Crawlers -> BOOLEAN]
  BY <1>1 DEF TabsTyped, TabFields
<1>3. /\ u.loading \in [Tabs!Crawlers -> BOOLEAN]
      /\ u.indexing \in [Tabs!Crawlers -> BOOLEAN]
      /\ u.firstLoadDone \in [Tabs!Crawlers -> BOOLEAN]
      /\ u.searching \in [Tabs!Crawlers -> BOOLEAN]
      /\ u.pinned \in [Tabs!Crawlers -> BOOLEAN]
  BY <1>1 DEF TabsTyped, TabFields
<1>4. /\ u.status \in [Tabs!Crawlers -> Statuses] /\ u.icon \in [Tabs!Crawlers -> Statuses]
      /\ u.handler \in [Tabs!Crawlers -> Tabs!Windows \X Nat]
      /\ u.listeners \in [Tabs!Crawlers -> SUBSET Tabs!Windows]
  BY <1>1 DEF TabsTyped, TabFields
<1>5. /\ u.saved \in Seq([file : Files, follow : BOOLEAN]) /\ u.savedBy \in Tabs!Windows
      /\ u.drag = Tabs!NoDrag \/ u.drag \in [from : Tabs!Windows, index : Nat]
      /\ u.moved \in BOOLEAN /\ u.dropped \in SUBSET Tabs!Crawlers
  BY <1>1 DEF TabsTyped, TabFields
<1> QED
  BY <1>2, <1>3, <1>4, <1>5 DEF TabsTyped, Differs

(* One change after another. *)
LEMMA DiffersOn ==
  ASSUME NEW x, NEW y, NEW u, NEW F, NEW G, NEW H, Differs(x, y, F), Differs(y, u, G),
         F \subseteq H, G \subseteq H
  PROVE  Differs(x, u, H)
BY DEF Differs

(* The crawler a window shows, and its type. *)
LEMMA CrawlerIs ==
  ASSUME NEW x, NEW w
  PROVE  Tabs!currentCrawlerWidget(x, w) = CrawlerOf(x, w)
BY DEF Tabs!currentCrawlerWidget, CrawlerOf, Tabs!NoCrawler

LEMMA CrawlerIn ==
  ASSUME NEW x, TabsTyped(x), NEW w \in Tabs!Windows, x.current[w] \in 0 .. Len(x.tabs[w])
  PROVE  /\ CrawlerOf(x, w) \in {0} \cup Tabs!Crawlers
         /\ CrawlerOf(x, w) = 0 <=> x.current[w] = 0
         /\ x.current[w] # 0 => CrawlerOf(x, w) \in Tabs!Crawlers
<1>1. x.tabs[w] \in Seq(Tabs!Crawlers) /\ 0 \notin Tabs!Crawlers
  BY DEF TabsTyped, Tabs!Crawlers
<1>2. x.current[w] # 0 => x.tabs[w][x.current[w]] \in Tabs!Crawlers
  BY <1>1
<1> QED
  BY <1>1, <1>2 DEF CrawlerOf

(* The window is told of its current tab. *)
LEMMA TabChanged ==
  ASSUME NEW x, TabsTyped(x), NEW w \in Tabs!Windows, x.current[w] \in 0 .. Len(x.tabs[w]),
         NEW c, c = CrawlerOf(x, w)
  PROVE  LET u == Tabs!currentTabChanged(x, w)
         IN  /\ TabsTyped(u) /\ Differs(x, u, {"title", "info", "followAction"})
             /\ u.title[w] = IF c = 0 THEN Tabs!NoFile ELSE x.file[c]
             /\ c # 0 => u.followAction[w] = x.follow[c]
             /\ \A z \in Tabs!Windows : z # w =>
                  u.title[z] = x.title[z] /\ u.followAction[z] = x.followAction[z]
             /\ \A z \in Tabs!Windows :
                  \/ u.info[z] = x.info[z] \/ (c = 0 /\ z = w)
                  \/ c # 0 /\ CrawlerOf(x, z) = c /\ u.info[z] = x.file[c]
             /\ c # 0 /\ w \in x.listeners[c] =>
                  x.loading[c] \/ u.info[w] = x.file[c]
<1>1. PICK u : u = Tabs!currentTabChanged(x, w)
  OBVIOUS
<1>2. c \in {0} \cup Tabs!Crawlers /\ 0 \notin Tabs!Crawlers
  BY CrawlerIn DEF Tabs!Crawlers
<1>3. Tabs!NoFile \in Named
  BY DEF Named
<1>4. CASE c = 0
  <2>1. u = [x EXCEPT !.title[w] = Tabs!NoFile, !.info[w] = Tabs!NoFile]
    BY <1>1, <1>4, CrawlerIs DEF Tabs!currentTabChanged, Tabs!NoCrawler
  <2>2. /\ Differs(x, u, {"title", "info", "followAction"})
        /\ u.title = [x.title EXCEPT ![w] = Tabs!NoFile]
        /\ u.info = [x.info EXCEPT ![w] = Tabs!NoFile]
        /\ u.followAction = x.followAction
    BY <2>1 DEF TabsTyped, Differs, TabFields
  <2>3. TabsTyped(u)
    <3>1. /\ u.title \in [Tabs!Windows -> Named] /\ u.info \in [Tabs!Windows -> Named]
          /\ u.followAction \in [Tabs!Windows -> BOOLEAN]
      BY <1>3, <2>2 DEF TabsTyped
    <3> QED
      BY <2>2, <3>1, StaysTyped
  <2>4. /\ u.title[w] = Tabs!NoFile
        /\ \A z \in Tabs!Windows : z # w => u.title[z] = x.title[z] /\ u.info[z] = x.info[z]
    BY <2>2 DEF TabsTyped
  <2> QED
    BY <1>1, <1>4, <2>2, <2>3, <2>4
<1>5. CASE c # 0
  <2>1. PICK y : y = Tabs!sendAllStateSignals(x, c)
    OBVIOUS
  <2>2. u = [y EXCEPT !.title[w] = x.file[c], !.followAction[w] = x.follow[c]]
    BY <1>1, <1>5, <2>1, CrawlerIs DEF Tabs!currentTabChanged, Tabs!NoCrawler
  <2>3. PICK W : W = {z \in x.listeners[c] : CrawlerOf(x, z) = c}
    OBVIOUS
  <2>4. W = Tabs!WindowsShowing(x, c)
    BY <2>3, CrawlerIs DEF Tabs!WindowsShowing
  <2>5. PICK info : info = IF x.loading[c] THEN x.info
                           ELSE [z \in Tabs!Windows |-> IF z \in W THEN x.file[c] ELSE x.info[z]]
    OBVIOUS
  <2>6. y = IF x.loading[c] THEN x ELSE [x EXCEPT !.info = info]
    BY <2>1, <2>4, <2>5 DEF Tabs!sendAllStateSignals, Tabs!handleLoadingFinished
  <2>7. c \in Tabs!Crawlers /\ x.file[c] \in Named /\ x.follow[c] \in BOOLEAN
    BY <1>2, <1>5 DEF TabsTyped
  <2>8. info \in [Tabs!Windows -> Named]
    BY <2>5, <2>7 DEF TabsTyped
  <2>9. Differs(x, y, {"info"}) /\ y.info = info
    BY <2>5, <2>6 DEF TabsTyped, Differs, TabFields
  <2>10. /\ Differs(x, u, {"title", "info", "followAction"})
         /\ u.title = [x.title EXCEPT ![w] = x.file[c]]
         /\ u.followAction = [x.followAction EXCEPT ![w] = x.follow[c]]
         /\ u.info = info
    BY <2>2, <2>9 DEF Differs, TabFields
  <2>11. TabsTyped(u)
    <3>1. /\ u.title \in [Tabs!Windows -> Named] /\ u.info \in [Tabs!Windows -> Named]
          /\ u.followAction \in [Tabs!Windows -> BOOLEAN]
      BY <2>7, <2>8, <2>10 DEF TabsTyped
    <3> QED
      BY <2>10, <3>1, StaysTyped
  <2>12. \A z \in Tabs!Windows :
           info[z] = x.info[z] \/ (CrawlerOf(x, z) = c /\ info[z] = x.file[c])
    BY <2>3, <2>5
  <2>13. w \in x.listeners[c] => x.loading[c] \/ info[w] = x.file[c]
    BY <2>3, <2>5
  <2>14. /\ u.title[w] = x.file[c] /\ u.followAction[w] = x.follow[c]
         /\ \A z \in Tabs!Windows : z # w =>
              u.title[z] = x.title[z] /\ u.followAction[z] = x.followAction[z]
    BY <2>10 DEF TabsTyped
  <2> QED
    BY <1>1, <1>5, <2>10, <2>11, <2>12, <2>13, <2>14
<1> QED
  BY <1>4, <1>5

(* Each part of the invariant stays when the fields it reads do. *)
LEMMA PlacedSame ==
  ASSUME NEW x, NEW u, NEW X, Placed(x, X),
         u.tabs = x.tabs, u.current = x.current, u.file = x.file, u.listeners = x.listeners
  PROVE  Placed(u, X)
BY DEF Placed

LEMMA IndexingSame ==
  ASSUME NEW x, NEW u, NEW F, IndexingOpen(x), Differs(x, u, F),
         "indexing" \notin F, "file" \notin F
  PROVE  IndexingOpen(u)
<1>1. u.indexing = x.indexing /\ u.file = x.file
  BY DEF Differs, TabFields
<1> QED
  BY <1>1 DEF IndexingOpen

LEMMA IconsSame ==
  ASSUME NEW x, NEW u, NEW X, IconsRight(x, X), u.tabs = x.tabs, u.file = x.file,
         u.moved = x.moved, u.handler = x.handler, u.dropped = x.dropped,
         u.icon = x.icon, u.status = x.status
  PROVE  IconsRight(u, X)
BY DEF IconsRight, KnowsTab

(* A window goes on showing the same tab. *)
LEMMA ShowsSame ==
  ASSUME NEW x, NEW u, NEW z, ShowsTab(x, z), CrawlerOf(u, z) = CrawlerOf(x, z),
         u.title[z] = x.title[z], u.followAction[z] = x.followAction[z],
         u.info[z] = x.info[z], u.file = x.file, u.follow = x.follow,
         u.loading = x.loading, x.dropped \subseteq u.dropped
  PROVE  ShowsTab(u, z)
BY DEF ShowsTab

(* Once told, a window shows its current tab, and the others still do. *)
LEMMA TabShown ==
  ASSUME NEW x, TabsTyped(x), NEW w \in Tabs!Windows, x.current[w] \in 0 .. Len(x.tabs[w]),
         NEW c, c = CrawlerOf(x, w),
         c = 0 \/ x.loading[c] \/ c \in x.dropped \/ w \in x.listeners[c]
  PROVE  LET u == Tabs!currentTabChanged(x, w)
         IN  /\ TabsTyped(u) /\ Differs(x, u, {"title", "info", "followAction"})
             /\ ShowsTab(u, w)
             /\ \A z \in Tabs!Windows : z # w /\ ShowsTab(x, z) => ShowsTab(u, z)
<1>1. PICK u : u = Tabs!currentTabChanged(x, w)
  OBVIOUS
<1>2. /\ TabsTyped(u) /\ Differs(x, u, {"title", "info", "followAction"})
      /\ u.title[w] = IF c = 0 THEN Tabs!NoFile ELSE x.file[c]
      /\ c # 0 => u.followAction[w] = x.follow[c]
      /\ \A z \in Tabs!Windows : z # w =>
           u.title[z] = x.title[z] /\ u.followAction[z] = x.followAction[z]
      /\ \A z \in Tabs!Windows :
           \/ u.info[z] = x.info[z] \/ (c = 0 /\ z = w)
           \/ c # 0 /\ CrawlerOf(x, z) = c /\ u.info[z] = x.file[c]
      /\ c # 0 /\ w \in x.listeners[c] =>
           x.loading[c] \/ u.info[w] = x.file[c]
  BY <1>1, TabChanged
<1>3. /\ u.tabs = x.tabs /\ u.current = x.current /\ u.file = x.file /\ u.follow = x.follow
      /\ u.loading = x.loading /\ u.dropped = x.dropped
  BY <1>2 DEF Differs, TabFields
<1>4. \A z : CrawlerOf(u, z) = CrawlerOf(x, z)
  BY <1>3 DEF CrawlerOf
<1>5. ShowsTab(u, w)
  BY <1>2, <1>3, <1>4 DEF ShowsTab
<1>6. ASSUME NEW z \in Tabs!Windows, z # w, ShowsTab(x, z)
      PROVE  ShowsTab(u, z)
  BY <1>2, <1>3, <1>4, <1>6 DEF ShowsTab
<1> QED
  BY <1>1, <1>2, <1>5, <1>6

(* Another tab becomes the current one. *)
LEMMA CurrentSet ==
  ASSUME NEW x, TabsTyped(x), NEW w \in Tabs!Windows, x.current[w] \in 0 .. Len(x.tabs[w]),
         NEW i, i \in 1 .. Len(x.tabs[w]) =>
                  \/ x.loading[x.tabs[w][i]] \/ x.tabs[w][i] \in x.dropped
                  \/ w \in x.listeners[x.tabs[w][i]]
  PROVE  LET u == Tabs!setCurrentIndex(x, w, i)
         IN  /\ TabsTyped(u) /\ Differs(x, u, {"current", "title", "info", "followAction"})
             /\ u.current = [x.current EXCEPT ![w] = IF i \in 1 .. Len(x.tabs[w]) THEN i ELSE @]
             /\ \A z \in Tabs!Windows : ShowsTab(x, z) => ShowsTab(u, z)
<1>1. PICK u : u = Tabs!setCurrentIndex(x, w, i)
  OBVIOUS
<1>2. CASE i = x.current[w] \/ i \notin 1 .. Len(x.tabs[w])
  <2>1. u = x
    BY <1>1, <1>2 DEF Tabs!setCurrentIndex
  <2>2. Differs(x, u, {"current", "title", "info", "followAction"})
    BY <2>1 DEF Differs, TabsTyped
  <2>3. u.current = [x.current EXCEPT ![w] = IF i \in 1 .. Len(x.tabs[w]) THEN i ELSE @]
    BY <1>2, <2>1 DEF TabsTyped
  <2> QED
    BY <1>1, <2>1, <2>2, <2>3
<1>3. CASE i # x.current[w] /\ i \in 1 .. Len(x.tabs[w])
  <2>1. PICK y : y = [x EXCEPT !.current[w] = i]
    OBVIOUS
  <2>2. Differs(x, y, {"current"}) /\ y.current = [x.current EXCEPT ![w] = i]
    BY <2>1 DEF Differs, TabsTyped, TabFields
  <2>3. i \in Nat /\ i # 0
    BY <1>3
  <2>4. y.current \in [Tabs!Windows -> Nat] /\ y.current[w] = i
    BY <2>2, <2>3 DEF TabsTyped
  <2>5. TabsTyped(y)
    BY <2>2, <2>4, StaysTyped
  <2>6. /\ y.tabs = x.tabs /\ y.file = x.file /\ y.follow = x.follow /\ y.title = x.title
        /\ y.loading = x.loading /\ y.dropped = x.dropped /\ y.listeners = x.listeners
        /\ y.info = x.info /\ y.followAction = x.followAction
    BY <2>2 DEF Differs, TabFields
  <2>7. PICK c : c = x.tabs[w][i] /\ c = CrawlerOf(y, w)
    BY <2>3, <2>4, <2>6 DEF CrawlerOf
  <2>8. u = Tabs!currentTabChanged(y, w)
    BY <1>1, <1>3, <2>1 DEF Tabs!setCurrentIndex
  <2>9. /\ y.current[w] \in 0 .. Len(y.tabs[w])
        /\ y.loading[c] \/ c \in y.dropped \/ w \in y.listeners[c]
    BY <1>3, <2>3, <2>4, <2>6, <2>7
  <2>10. /\ TabsTyped(u) /\ Differs(y, u, {"title", "info", "followAction"})
         /\ ShowsTab(u, w)
         /\ \A z \in Tabs!Windows : z # w /\ ShowsTab(y, z) => ShowsTab(u, z)
    BY <2>5, <2>7, <2>8, <2>9, TabShown
  <2>11. Differs(x, u, {"current", "title", "info", "followAction"}) /\ u.current = y.current
    BY <2>2, <2>10 DEF Differs, TabFields
  <2>12. ASSUME NEW z \in Tabs!Windows, z # w, ShowsTab(x, z)
         PROVE  ShowsTab(u, z)
    <3>1. CrawlerOf(y, z) = CrawlerOf(x, z)
      BY <2>2, <2>6, <2>12 DEF CrawlerOf, TabsTyped
    <3>2. ShowsTab(y, z)
      BY <2>6, <2>12, <3>1, ShowsSame
    <3> QED
      BY <2>10, <2>12, <3>2
  <2> QED
    BY <1>1, <1>3, <2>2, <2>10, <2>11, <2>12
<1> QED
  BY <1>2, <1>3

-----------------------------------------------------------------------------
(* What is in k was in the list, at another place than i; and the reverse. *)
FromOthers(k, list, i) ==
  \A j \in 1 .. Len(k) : \E m \in 1 .. Len(list) : m # i /\ k[j] = list[m]

HasOthers(k, list, i) ==
  \A m \in 1 .. Len(list) : m # i => \E j \in 1 .. Len(k) : k[j] = list[m]

(* Where each tab was before one was removed, and where the others go. *)
LEMMA RemovedFrom ==
  ASSUME NEW T, NEW list \in Seq(T), NEW i \in 1 .. Len(list),
         Distinct(list), NEW k, k = Tabs!RemoveAt(list, i)
  PROVE  /\ k \in Seq(T) /\ Len(k) = Len(list) - 1
         /\ FromOthers(k, list, i) /\ HasOthers(k, list, i)
         /\ Distinct(k)
<1>2. /\ k \in Seq(T) /\ Len(k) = Len(list) - 1 /\ Len(list) \in Nat
      /\ \A j \in 1 .. i - 1 : k[j] = list[j]
      /\ \A j \in i .. Len(k) : k[j] = list[j + 1]
  BY RemoveIs
<1> DEFINE old(j) == IF j < i THEN j ELSE j + 1
<1>3. ASSUME NEW j \in 1 .. Len(k)
      PROVE  old(j) \in 1 .. Len(list) /\ old(j) # i /\ k[j] = list[old(j)]
  BY <1>2
<1>4. ASSUME NEW m \in 1 .. Len(list), m # i
      PROVE  \E j \in 1 .. Len(k) : k[j] = list[m]
  <2>1. CASE m < i
    <3>1. m \in 1 .. Len(k) /\ k[m] = list[m]
      BY <1>2, <2>1
    <3> QED
      BY <3>1
  <2>2. CASE m > i
    <3>1. m - 1 \in 1 .. Len(k) /\ k[m - 1] = list[m]
      BY <1>2, <2>2
    <3> QED
      BY <3>1
  <2> QED
    BY <1>4, <2>1, <2>2
<1>5. ASSUME NEW m \in 1 .. Len(k), NEW j \in 1 .. Len(k), k[m] = k[j]
      PROVE  m = j
  <2>1. old(m) = old(j)
    BY <1>3, <1>5 DEF Distinct
  <2> QED
    BY <1>2, <2>1
<1> QED
  BY <1>2, <1>3, <1>4, <1>5 DEF Distinct, FromOthers, HasOthers

(* The tabs of a window are crawlers. *)
LEMMA TabIn ==
  ASSUME NEW x, TabsTyped(x), NEW w \in Tabs!Windows
  PROVE  /\ x.tabs[w] \in Seq(Tabs!Crawlers) /\ Len(x.tabs[w]) \in Nat
         /\ \A i \in 1 .. Len(x.tabs[w]) : x.tabs[w][i] \in Tabs!Crawlers
<1>1. x.tabs[w] \in Seq(Tabs!Crawlers)
  BY DEF TabsTyped
<1> QED
  BY <1>1

(* A tab is removed from its window; its file is still open. *)
LEMMA TabRemoved ==
  ASSUME NEW x, TabsTyped(x), Placed(x, {}), IconsRight(x, {}),
         IndexingOpen(x), NEW w \in Tabs!Windows,
         NEW i \in 1 .. Len(x.tabs[w]), NEW c, c = x.tabs[w][i],
         \A z \in Tabs!Windows : z # w \/ i > x.current[w] => ShowsTab(x, z)
  PROVE  LET u == Tabs!removeTab(x, w, i)
         IN  /\ TabsGood(u, {c}) /\ c \in Tabs!Crawlers
             /\ Differs(x, u, {"tabs", "current", "moved", "title", "info", "followAction"})
             /\ u.tabs = [x.tabs EXCEPT ![w] = Tabs!RemoveAt(@, i)]
<1>1. PICK u : u = Tabs!removeTab(x, w, i)
  OBVIOUS
<1>2. PICK list : list = x.tabs[w]
  OBVIOUS
<1>3. TabsTyped(x) /\ list \in Seq(Tabs!Crawlers) /\ Len(list) \in Nat /\ c \in Tabs!Crawlers
  BY <1>2, TabIn
<1>31. i \in 1 .. Len(list)
  BY <1>2
<1>4. PICK k : k = Tabs!RemoveAt(list, i)
  OBVIOUS
<1>5. Distinct(list)
  BY <1>2 DEF Placed, Distinct
<1>6. /\ k \in Seq(Tabs!Crawlers) /\ Len(k) = Len(list) - 1
      /\ FromOthers(k, list, i) /\ HasOthers(k, list, i)
      /\ Distinct(k)
  BY <1>3, <1>31, <1>4, <1>5, RemovedFrom
<1>7. PICK cur : cur = x.current[w]
  OBVIOUS
<1>8. cur \in 1 .. Len(list)
  BY <1>2, <1>3, <1>7 DEF Placed
<1>9. PICK new : new = IF (i < cur) \/ (cur = Len(list)) THEN cur - 1 ELSE cur
  OBVIOUS
<1>10. new \in Nat /\ new \in 0 .. Len(k) /\ (new = 0 <=> Len(k) = 0)
  <2>1. Len(k) = Len(list) - 1
    BY <1>6
  <2> QED
    BY <1>3, <1>31, <1>8, <1>9, <2>1
<1>11. PICK y : y = [x EXCEPT !.tabs[w] = k, !.current[w] = new,
                              !.moved = @ \/ i < Len(list)]
  OBVIOUS
<1>12. /\ Differs(x, y, {"tabs", "current", "moved"})
       /\ y.tabs = [x.tabs EXCEPT ![w] = k] /\ y.current = [x.current EXCEPT ![w] = new]
       /\ y.moved = (x.moved \/ i < Len(list))
  BY <1>3, <1>11 DEF TabsTyped, Differs, TabFields
<1>13. /\ y.file = x.file /\ y.follow = x.follow /\ y.title = x.title /\ y.loading = x.loading
       /\ y.dropped = x.dropped /\ y.listeners = x.listeners /\ y.info = x.info
       /\ y.followAction = x.followAction /\ y.handler = x.handler /\ y.icon = x.icon
       /\ y.status = x.status
  BY <1>12 DEF Differs, TabFields
<1>14. /\ y.tabs \in [Tabs!Windows -> Seq(Tabs!Crawlers)] /\ y.tabs[w] = k
       /\ y.current \in [Tabs!Windows -> Nat] /\ y.current[w] = new
       /\ \A z \in Tabs!Windows : z # w => y.tabs[z] = x.tabs[z] /\ y.current[z] = x.current[z]
       /\ y.moved \in BOOLEAN
  <2>1. x.tabs \in [Tabs!Windows -> Seq(Tabs!Crawlers)] /\ x.current \in [Tabs!Windows -> Nat]
    BY DEF TabsTyped
  <2>2. x.moved \in BOOLEAN
    BY DEF TabsTyped
  <2>3. y.tabs \in [Tabs!Windows -> Seq(Tabs!Crawlers)] /\ y.tabs[w] = k
    BY <1>6, <1>12, <2>1
  <2>4. y.current \in [Tabs!Windows -> Nat] /\ y.current[w] = new
    BY <1>10, <1>12, <2>1
  <2>5. \A z \in Tabs!Windows : z # w => y.tabs[z] = x.tabs[z] /\ y.current[z] = x.current[z]
    BY <1>12, <2>1
  <2>6. y.moved \in BOOLEAN
    BY <1>12, <2>2
  <2> QED
    BY <2>3, <2>4, <2>5, <2>6
<1>15. TabsTyped(y)
  BY <1>3, <1>12, <1>14, StaysTyped
<1>16. Placed(y, {c})
  <2>1. \A z \in Tabs!Windows : /\ y.current[z] \in 0 .. Len(y.tabs[z])
                                /\ y.current[z] = 0 <=> Len(y.tabs[z]) = 0
    BY <1>10, <1>14 DEF Placed
  <2>2. \A z \in Tabs!Windows : \A j \in 1 .. Len(y.tabs[z]) :
          \E m \in 1 .. Len(x.tabs[z]) : y.tabs[z][j] = x.tabs[z][m] /\ (z = w => m # i)
    <3>1. ASSUME NEW z \in Tabs!Windows, NEW j \in 1 .. Len(y.tabs[z])
          PROVE  \E m \in 1 .. Len(x.tabs[z]) : y.tabs[z][j] = x.tabs[z][m] /\ (z = w => m # i)
      <4>1. CASE z = w
        <5>1. y.tabs[z] = k /\ x.tabs[z] = list
          BY <1>2, <1>14, <4>1
        <5> QED
          BY <1>6, <3>1, <5>1 DEF FromOthers
      <4>2. CASE z # w
        BY <1>14, <3>1, <4>2
      <4> QED
        BY <4>1, <4>2
    <3> QED
      BY <3>1
  <2>3. ASSUME NEW a \in Tabs!Windows, NEW b \in Tabs!Windows,
               NEW m \in 1 .. Len(y.tabs[a]), NEW j \in 1 .. Len(y.tabs[b]),
               y.tabs[a][m] = y.tabs[b][j]
        PROVE  a = b /\ m = j
    <3>1. a = b
      BY <2>2, <2>3 DEF Placed
    <3>2. CASE a = w
      <4>1. y.tabs[a] = k /\ y.tabs[b] = k
        BY <1>14, <3>1, <3>2
      <4> QED
        BY <1>6, <2>3, <3>1, <4>1 DEF Distinct
    <3>3. CASE a # w
      BY <1>14, <2>3, <3>1, <3>3 DEF Placed
    <3> QED
      BY <3>1, <3>2, <3>3
  <2>4. ASSUME NEW z \in Tabs!Windows, NEW j \in 1 .. Len(y.tabs[z])
        PROVE  /\ y.file[y.tabs[z][j]] # Tabs!NoFile
               /\ z \in y.listeners[y.tabs[z][j]] /\ y.tabs[z][j] \notin {c}
    <3>1. PICK m \in 1 .. Len(x.tabs[z]) : y.tabs[z][j] = x.tabs[z][m] /\ (z = w => m # i)
      BY <2>2
    <3>2. x.tabs[z][m] # c
      BY <3>1 DEF Placed
    <3> QED
      BY <1>13, <3>1, <3>2 DEF Placed
  <2>5. ASSUME NEW d \in Tabs!Crawlers, y.file[d] # Tabs!NoFile, d # c
        PROVE  \E z \in Tabs!Windows : \E j \in 1 .. Len(y.tabs[z]) : y.tabs[z][j] = d
    <3>1. PICK z \in Tabs!Windows : \E m \in 1 .. Len(x.tabs[z]) : x.tabs[z][m] = d
      BY <1>13, <2>5 DEF Placed
    <3>2. PICK m \in 1 .. Len(x.tabs[z]) : x.tabs[z][m] = d
      BY <3>1
    <3>3. CASE z = w
      BY <1>2, <1>6, <1>14, <2>5, <3>2, <3>3 DEF HasOthers
    <3>4. CASE z # w
      BY <1>14, <3>2, <3>4
    <3> QED
      BY <3>3, <3>4
  <2> QED
    BY <2>1, <2>3, <2>4, <2>5 DEF Placed
<1>17. IconsRight(y, {c})
  <2>1. SUFFICES ASSUME ~y.moved, NEW d \in Tabs!Crawlers, y.file[d] # Tabs!NoFile, d # c
                 PROVE  KnowsTab(y, d) /\ (d \notin y.dropped => y.icon[d] = y.status[d])
    BY DEF IconsRight
  <2>2. ~x.moved /\ i = Len(list)
    <3>1. ~x.moved /\ ~(i < Len(list))
      BY <1>12, <2>1
    <3> QED
      BY <1>3, <1>31, <3>1
  <2>3. KnowsTab(x, d) /\ (d \notin x.dropped => x.icon[d] = x.status[d])
    BY <1>13, <2>1, <2>2 DEF IconsRight
  <2>4. x.handler[d] \in Tabs!Windows \X Nat
    BY <1>3 DEF TabsTyped
  <2>5. PICK z \in Tabs!Windows, j \in Nat : x.handler[d] = <<z, j>>
    BY <2>4
  <2>6. j \in 1 .. Len(x.tabs[z]) /\ x.tabs[z][j] = d
    BY <2>3, <2>5 DEF KnowsTab
  <2>7. j \in 1 .. Len(y.tabs[z]) /\ y.tabs[z][j] = d
    <3>1. CASE z # w
      BY <1>14, <2>6, <3>1
    <3>2. CASE z = w
      <4>1. j # i
        BY <1>2, <2>1, <2>6, <3>2
      <4>2. j \in 1 .. i - 1
        BY <1>2, <1>3, <2>2, <2>6, <3>2, <4>1
      <4>3. k[j] = list[j]
        BY <1>3, <1>31, <1>4, <4>2, RemoveIs
      <4> QED
        BY <1>2, <1>3, <1>6, <1>14, <2>2, <2>6, <3>2, <4>2, <4>3
    <3> QED
      BY <3>1, <3>2
  <2> QED
    BY <1>13, <2>3, <2>5, <2>7 DEF KnowsTab
<1>18. \A z \in Tabs!Windows : z # w => ShowsTab(y, z)
  <2>1. ASSUME NEW z \in Tabs!Windows, z # w
        PROVE  ShowsTab(y, z)
    <3>1. CrawlerOf(y, z) = CrawlerOf(x, z)
      BY <1>14, <2>1 DEF CrawlerOf
    <3> QED
      BY <1>13, <2>1, <3>1, ShowsSame
  <2> QED
    BY <2>1
<1>19. u = IF i <= cur THEN Tabs!currentTabChanged(y, w) ELSE y
  BY <1>1, <1>2, <1>4, <1>7, <1>9, <1>11 DEF Tabs!removeTab
<1>20. CASE i > cur
  <2>1. u = y /\ new = cur
    <3>1. ~(i <= cur) /\ ~(i < cur) /\ cur # Len(list)
      BY <1>3, <1>31, <1>8, <1>20
    <3> QED
      BY <1>9, <1>19, <3>1
  <2>2. k[cur] = list[cur] /\ cur # 0
    <3>1. cur \in 1 .. i - 1
      BY <1>3, <1>31, <1>8, <1>20
    <3> QED
      BY <1>3, <1>31, <1>4, <3>1, RemoveIs
  <2>3. CrawlerOf(y, w) = CrawlerOf(x, w)
    BY <1>2, <1>7, <1>14, <2>1, <2>2 DEF CrawlerOf
  <2>4. ShowsTab(y, w)
    BY <1>7, <1>13, <1>20, <2>3, ShowsSame
  <2>5. Differs(x, u, {"tabs", "current", "moved", "title", "info", "followAction"})
    BY <1>12, <2>1 DEF Differs
  <2>6. IndexingOpen(u)
    BY <2>5, IndexingSame
  <2> QED
    BY <1>1, <1>2, <1>3, <1>4, <1>12, <1>15, <1>16, <1>17, <1>18, <2>1, <2>4, <2>5, <2>6
       DEF TabsGood
<1>21. CASE i <= cur
  <2>1. PICK d : d = CrawlerOf(y, w)
    OBVIOUS
  <2>2. d = 0 \/ w \in y.listeners[d]
    BY <1>10, <1>14, <1>16, <2>1 DEF CrawlerOf, Placed
  <2>3. y.current[w] \in 0 .. Len(y.tabs[w])
    BY <1>16 DEF Placed
  <2>4. /\ TabsTyped(u) /\ Differs(y, u, {"title", "info", "followAction"})
        /\ ShowsTab(u, w)
        /\ \A z \in Tabs!Windows : z # w /\ ShowsTab(y, z) => ShowsTab(u, z)
    BY <1>15, <1>19, <1>21, <2>1, <2>2, <2>3, TabShown
  <2>5. /\ Differs(x, u, {"tabs", "current", "moved", "title", "info", "followAction"})
        /\ u.tabs = y.tabs /\ u.current = y.current /\ u.file = y.file
        /\ u.listeners = y.listeners /\ u.moved = y.moved /\ u.handler = y.handler
        /\ u.dropped = y.dropped /\ u.icon = y.icon /\ u.status = y.status
    BY <1>12, <2>4 DEF Differs, TabFields
  <2>6. Placed(u, {c}) /\ IconsRight(u, {c})
    BY <1>16, <1>17, <2>5, PlacedSame, IconsSame
  <2>7. IndexingOpen(u)
    BY <2>5, IndexingSame
  <2> QED
    BY <1>1, <1>2, <1>3, <1>4, <1>12, <1>18, <2>4, <2>5, <2>6, <2>7 DEF TabsGood
<1> QED
  BY <1>3, <1>8, <1>20, <1>21

-----------------------------------------------------------------------------
(* A tab that is inserted: to remove it again would give the tabs before. *)
LEMMA InsertedTo ==
  ASSUME NEW T, NEW list \in Seq(T), NEW i \in 1 .. Len(list) + 1, NEW c \in T,
         Distinct(list), \A m \in 1 .. Len(list) : list[m] # c,
         NEW k, k = Tabs!InsertAt(list, i, c)
  PROVE  /\ k \in Seq(T) /\ Len(k) = Len(list) + 1 /\ i \in 1 .. Len(k) /\ k[i] = c
         /\ FromOthers(list, k, i) /\ HasOthers(list, k, i)
         /\ Distinct(k)
<1>2. /\ k \in Seq(T) /\ Len(k) = Len(list) + 1 /\ Len(list) \in Nat /\ k[i] = c
      /\ \A j \in 1 .. i - 1 : k[j] = list[j]
      /\ \A j \in i + 1 .. Len(k) : k[j] = list[j - 1]
  <2>1. Len(list) \in Nat
    OBVIOUS
  <2>2. k \in Seq(T) /\ WithAt(k, list, i, c)
    BY InsertIs
  <2> QED
    BY <2>1, <2>2 DEF WithAt
<1>20. i \in 1 .. Len(k)
  BY <1>2
<1> DEFINE new(m) == IF m < i THEN m ELSE m + 1
           old(j) == IF j < i THEN j ELSE j - 1
<1>3. ASSUME NEW m \in 1 .. Len(list)
      PROVE  new(m) \in 1 .. Len(k) /\ new(m) # i /\ list[m] = k[new(m)]
  <2>1. CASE m < i
    BY <1>2, <2>1
  <2>2. CASE ~(m < i)
    <3>1. m + 1 \in i + 1 .. Len(k) /\ m + 1 - 1 = m /\ m + 1 \in 1 .. Len(k) /\ m + 1 # i
      BY <1>2, <2>2
    <3>2. k[m + 1] = list[m]
      BY <1>2, <3>1
    <3> QED
      BY <2>2, <3>1, <3>2
  <2> QED
    BY <2>1, <2>2
<1>4. ASSUME NEW j \in 1 .. Len(k), j # i
      PROVE  old(j) \in 1 .. Len(list) /\ k[j] = list[old(j)]
  <2>1. CASE j < i
    BY <1>2, <2>1
  <2>2. CASE ~(j < i)
    <3>1. j \in i + 1 .. Len(k) /\ j - 1 \in 1 .. Len(list)
      BY <1>2, <1>4, <2>2
    <3> QED
      BY <1>2, <2>2, <3>1
  <2> QED
    BY <2>1, <2>2
<1>5. ASSUME NEW m \in 1 .. Len(k), NEW j \in 1 .. Len(k), k[m] = k[j]
      PROVE  m = j
  <2>1. CASE m = i
    <3>1. j = i
      BY <1>2, <1>4, <1>5, <2>1
    <3> QED
      BY <2>1, <3>1
  <2>2. CASE m # i
    <3>1. j # i
      BY <1>2, <1>4, <1>5, <2>2
    <3>2. old(m) = old(j)
      BY <1>4, <1>5, <2>2, <3>1 DEF Distinct
    <3> QED
      BY <1>2, <2>2, <3>1, <3>2
  <2> QED
    BY <2>1, <2>2
<1> HIDE DEF new, old
<1>6. FromOthers(list, k, i) /\ HasOthers(list, k, i) /\ Distinct(k)
  BY <1>3, <1>4, <1>5 DEF Distinct, FromOthers, HasOthers
<1> QED
  BY <1>2, <1>20, <1>6

(* An open file gets its tab. *)
LEMMA PlacedMore ==
  ASSUME NEW x, TabsTyped(x), NEW X, NEW c \in Tabs!Crawlers, Placed(x, X \cup {c}),
         c \notin X, x.file[c] # Tabs!NoFile, NEW w \in Tabs!Windows,
         NEW k, NEW i \in 1 .. Len(k), k[i] = c, Distinct(k),
         FromOthers(x.tabs[w], k, i), HasOthers(x.tabs[w], k, i),
         NEW u, u.tabs[w] = k, u.current[w] \in 1 .. Len(k), Len(k) \in Nat,
         \A z \in Tabs!Windows : z # w => u.tabs[z] = x.tabs[z] /\ u.current[z] = x.current[z],
         u.file = x.file,
         \A d \in Tabs!Crawlers : x.listeners[d] \subseteq u.listeners[d],
         w \in u.listeners[c]
  PROVE  Placed(u, X)
<1>1. \A z \in Tabs!Windows : /\ u.current[z] \in 0 .. Len(u.tabs[z])
                              /\ u.current[z] = 0 <=> Len(u.tabs[z]) = 0
  <2>1. u.current[w] \in 0 .. Len(k) /\ u.current[w] # 0 /\ Len(k) # 0
    OBVIOUS
  <2> QED
    BY <2>1 DEF Placed
<1>2. ASSUME NEW z \in Tabs!Windows, NEW j \in 1 .. Len(u.tabs[z])
      PROVE  \/ z = w /\ j = i /\ u.tabs[z][j] = c
             \/ \E m \in 1 .. Len(x.tabs[z]) : u.tabs[z][j] = x.tabs[z][m]
  <2>1. CASE z = w
    BY <1>2, <2>1 DEF HasOthers
  <2>2. CASE z # w
    BY <1>2, <2>2
  <2> QED
    BY <2>1, <2>2
<1>3. \A z \in Tabs!Windows : \A m \in 1 .. Len(x.tabs[z]) : x.tabs[z][m] # c
  BY DEF Placed
<1>4. ASSUME NEW a \in Tabs!Windows, NEW b \in Tabs!Windows,
             NEW m \in 1 .. Len(u.tabs[a]), NEW j \in 1 .. Len(u.tabs[b]),
             u.tabs[a][m] = u.tabs[b][j]
      PROVE  a = b /\ m = j
  <2>1. a = b
    <3>1. CASE u.tabs[a][m] = c
      <4>1. a = w
        BY <1>2, <1>3, <3>1
      <4>2. b = w
        BY <1>2, <1>3, <1>4, <3>1
      <4> QED
        BY <4>1, <4>2
    <3>2. CASE u.tabs[a][m] # c
      <4>1. PICK n \in 1 .. Len(x.tabs[a]) : u.tabs[a][m] = x.tabs[a][n]
        BY <1>2, <3>2
      <4>2. PICK l \in 1 .. Len(x.tabs[b]) : u.tabs[b][j] = x.tabs[b][l]
        BY <1>2, <1>4, <3>2
      <4>3. x.tabs[a][n] = x.tabs[b][l]
        BY <1>4, <4>1, <4>2
      <4> QED
        BY <4>3 DEF Placed
    <3> QED
      BY <3>1, <3>2
  <2>2. CASE a = w
    <3>1. u.tabs[a] = k /\ u.tabs[b] = k
      BY <2>1, <2>2
    <3> QED
      BY <1>4, <2>1, <3>1 DEF Distinct
  <2>3. CASE a # w
    BY <1>4, <2>1, <2>3 DEF Placed
  <2> QED
    BY <2>1, <2>2, <2>3
<1>5. ASSUME NEW z \in Tabs!Windows, NEW j \in 1 .. Len(u.tabs[z])
      PROVE  /\ u.file[u.tabs[z][j]] # Tabs!NoFile
             /\ z \in u.listeners[u.tabs[z][j]] /\ u.tabs[z][j] \notin X
  <2>1. CASE z = w /\ u.tabs[z][j] = c
    BY <2>1
  <2>2. CASE \E m \in 1 .. Len(x.tabs[z]) : u.tabs[z][j] = x.tabs[z][m]
    <3>1. PICK m \in 1 .. Len(x.tabs[z]) : u.tabs[z][j] = x.tabs[z][m]
      BY <2>2
    <3>2. x.tabs[z][m] \in Tabs!Crawlers
      BY TabIn
    <3> QED
      BY <3>1, <3>2 DEF Placed
  <2> QED
    BY <1>2, <2>1, <2>2
<1>6. ASSUME NEW d \in Tabs!Crawlers, u.file[d] # Tabs!NoFile, d \notin X
      PROVE  \E z \in Tabs!Windows : \E j \in 1 .. Len(u.tabs[z]) : u.tabs[z][j] = d
  <2>1. CASE d = c
    BY <2>1
  <2>2. CASE d # c
    <3>1. PICK z \in Tabs!Windows : \E m \in 1 .. Len(x.tabs[z]) : x.tabs[z][m] = d
      BY <1>6, <2>2 DEF Placed
    <3>2. PICK m \in 1 .. Len(x.tabs[z]) : x.tabs[z][m] = d
      BY <3>1
    <3>3. CASE z = w
      BY <3>2, <3>3 DEF FromOthers
    <3>4. CASE z # w
      BY <3>2, <3>4
    <3> QED
      BY <3>3, <3>4
  <2> QED
    BY <2>1, <2>2
<1> QED
  BY <1>1, <1>4, <1>5, <1>6 DEF Placed

(* An open file without a tab gets one. *)
LEMMA TabInserted ==
  ASSUME NEW x, NEW X, NEW c \in Tabs!Crawlers, TabsGood(x, X \cup {c}), c \notin X,
         x.file[c] # Tabs!NoFile, x.loading[c] \/ c \in x.dropped,
         x.status[c] = "old" \/ c \in x.dropped,
         NEW w \in Tabs!Windows, NEW i \in 1 .. Len(x.tabs[w]) + 1,
         NEW setCurrent \in BOOLEAN, NEW u, u = Tabs!insertTab(x, w, i, c, setCurrent)
  PROVE  /\ TabsGood(u, X)
         /\ Differs(x, u, {"tabs", "current", "moved", "pinned", "icon", "handler", "title",
                           "info", "followAction", "listeners"})
         /\ u.tabs = [x.tabs EXCEPT ![w] = Tabs!InsertAt(@, i, c)]
<1>1. PICK list : list = x.tabs[w]
  OBVIOUS
<1>2. /\ TabsTyped(x) /\ Placed(x, X \cup {c}) /\ IconsRight(x, X \cup {c})
      /\ \A z \in Tabs!Windows : ShowsTab(x, z)
  BY DEF TabsGood
<1>3. /\ list \in Seq(Tabs!Crawlers) /\ Len(list) \in Nat /\ i \in 1 .. Len(list) + 1
      /\ i \in Nat
  <2>1. list \in Seq(Tabs!Crawlers) /\ Len(list) \in Nat /\ i \in 1 .. Len(list) + 1
    BY <1>1, <1>2, TabIn
  <2> QED
    BY <2>1
<1>4. PICK k : k = Tabs!InsertAt(list, i, c)
  OBVIOUS
<1>5. /\ k \in Seq(Tabs!Crawlers) /\ Len(k) = Len(list) + 1 /\ i \in 1 .. Len(k) /\ k[i] = c
      /\ FromOthers(list, k, i) /\ HasOthers(list, k, i) /\ Distinct(k)
  <2>1. Distinct(list) /\ \A m \in 1 .. Len(list) : list[m] # c
    BY <1>1, <1>2 DEF Placed, Distinct
  <2> QED
    BY <1>3, <1>4, <2>1, InsertedTo
<1>6. PICK cur : cur = x.current[w]
  OBVIOUS
<1>7. cur \in 0 .. Len(list) /\ (cur = 0 <=> Len(list) = 0)
  BY <1>1, <1>2, <1>6 DEF Placed
<1>8. PICK new : new = IF Len(list) = 0 THEN 1 ELSE IF i <= cur THEN cur + 1 ELSE cur
  OBVIOUS
<1>9. new \in 1 .. Len(k) /\ new \in Nat
  <2>1. Len(k) = Len(list) + 1
    BY <1>5
  <2> QED
    BY <1>3, <1>7, <1>8, <2>1
<1>10. PICK y : y = [x EXCEPT !.tabs[w] = k, !.current[w] = new,
                              !.moved = @ \/ i <= Len(list),
                              !.pinned[c] = FALSE, !.icon[c] = "old", !.handler[c] = <<w, i>>]
  OBVIOUS
<1>11. /\ Differs(x, y, {"tabs", "current", "moved", "pinned", "icon", "handler"})
       /\ y.tabs = [x.tabs EXCEPT ![w] = k] /\ y.current = [x.current EXCEPT ![w] = new]
       /\ y.moved = (x.moved \/ i <= Len(list))
       /\ y.pinned = [x.pinned EXCEPT ![c] = FALSE] /\ y.icon = [x.icon EXCEPT ![c] = "old"]
       /\ y.handler = [x.handler EXCEPT ![c] = <<w, i>>]
  BY <1>2, <1>10 DEF TabsTyped, Differs, TabFields
<1>12. /\ y.file = x.file /\ y.follow = x.follow /\ y.title = x.title /\ y.loading = x.loading
       /\ y.dropped = x.dropped /\ y.listeners = x.listeners /\ y.info = x.info
       /\ y.followAction = x.followAction /\ y.status = x.status
  BY <1>11 DEF Differs, TabFields
<1>13. /\ y.tabs \in [Tabs!Windows -> Seq(Tabs!Crawlers)] /\ y.tabs[w] = k
       /\ y.current \in [Tabs!Windows -> Nat] /\ y.current[w] = new
       /\ \A z \in Tabs!Windows : z # w => y.tabs[z] = x.tabs[z] /\ y.current[z] = x.current[z]
  <2>1. x.tabs \in [Tabs!Windows -> Seq(Tabs!Crawlers)] /\ x.current \in [Tabs!Windows -> Nat]
    BY <1>2 DEF TabsTyped
  <2>2. y.tabs \in [Tabs!Windows -> Seq(Tabs!Crawlers)] /\ y.tabs[w] = k
    BY <1>5, <1>11, <2>1
  <2>3. y.current \in [Tabs!Windows -> Nat] /\ y.current[w] = new
    BY <1>9, <1>11, <2>1
  <2>4. \A z \in Tabs!Windows : z # w => y.tabs[z] = x.tabs[z] /\ y.current[z] = x.current[z]
    BY <1>11, <2>1
  <2> QED
    BY <2>2, <2>3, <2>4
<1>14. /\ y.moved \in BOOLEAN /\ y.pinned \in [Tabs!Crawlers -> BOOLEAN]
       /\ y.icon \in [Tabs!Crawlers -> Statuses] /\ y.icon[c] = "old"
       /\ y.handler \in [Tabs!Crawlers -> Tabs!Windows \X Nat] /\ y.handler[c] = <<w, i>>
       /\ \A d \in Tabs!Crawlers : d # c => y.icon[d] = x.icon[d] /\ y.handler[d] = x.handler[d]
  <2>1. /\ x.moved \in BOOLEAN /\ x.pinned \in [Tabs!Crawlers -> BOOLEAN]
        /\ x.icon \in [Tabs!Crawlers -> Statuses]
        /\ x.handler \in [Tabs!Crawlers -> Tabs!Windows \X Nat]
    BY <1>2 DEF TabsTyped
  <2>2. "old" \in Statuses /\ <<w, i>> \in Tabs!Windows \X Nat
    BY <1>3 DEF Statuses
  <2>3. y.moved \in BOOLEAN /\ y.pinned \in [Tabs!Crawlers -> BOOLEAN]
    BY <1>11, <2>1
  <2>4. y.icon \in [Tabs!Crawlers -> Statuses] /\ y.icon[c] = "old"
        /\ \A d \in Tabs!Crawlers : d # c => y.icon[d] = x.icon[d]
    BY <1>11, <2>1, <2>2
  <2>5. y.handler \in [Tabs!Crawlers -> Tabs!Windows \X Nat] /\ y.handler[c] = <<w, i>>
        /\ \A d \in Tabs!Crawlers : d # c => y.handler[d] = x.handler[d]
    BY <1>11, <2>1, <2>2
  <2> QED
    BY <2>3, <2>4, <2>5
<1>15. TabsTyped(y)
  BY <1>2, <1>11, <1>13, <1>14, StaysTyped
<1>16. ASSUME NEW z \in Tabs!Windows, z # w \/ Len(list) # 0
       PROVE  ShowsTab(y, z)
  <2>1. CrawlerOf(y, z) = CrawlerOf(x, z)
    <3>1. CASE z # w
      BY <1>13, <3>1 DEF CrawlerOf
    <3>2. CASE z = w
      <4>1. cur \in 1 .. Len(list) /\ new = IF i <= cur THEN cur + 1 ELSE cur
        BY <1>3, <1>7, <1>8, <1>16, <3>2
      <4>2. WithAt(k, list, i, c)
        BY <1>3, <1>4, InsertIs
      <4>3. k[new] = list[cur]
        <5>1. CASE i <= cur
          <6>1. new \in i + 1 .. Len(k) /\ new - 1 = cur
            BY <1>3, <1>9, <4>1, <5>1
          <6> QED
            BY <4>2, <6>1 DEF WithAt
        <5>2. CASE ~(i <= cur)
          <6>1. new \in 1 .. i - 1 /\ new = cur
            BY <1>3, <4>1, <5>2
          <6> QED
            BY <4>2, <6>1 DEF WithAt
        <5> QED
          BY <5>1, <5>2
      <4>4. new # 0 /\ cur # 0
        BY <1>9, <4>1
      <4> QED
        BY <1>1, <1>6, <1>13, <3>2, <4>3, <4>4 DEF CrawlerOf
    <3> QED
      BY <3>1, <3>2
  <2> QED
    BY <1>2, <1>12, <2>1, ShowsSame
<1>17. PICK y2 : y2 = IF Len(list) = 0 THEN Tabs!currentTabChanged(y, w) ELSE y
  OBVIOUS
<1>18. y.current[w] \in 0 .. Len(y.tabs[w])
  BY <1>9, <1>13
<1>19. /\ TabsTyped(y2) /\ Differs(y, y2, {"title", "info", "followAction"})
       /\ \A z \in Tabs!Windows : ShowsTab(y2, z)
  <2>1. CASE Len(list) = 0
    <3>1. CrawlerOf(y, w) = c
      <4>1. new = 1 /\ i = 1
        BY <1>3, <1>8, <2>1
      <4> QED
        BY <1>5, <1>13, <4>1 DEF CrawlerOf
    <3>2. y2 = Tabs!currentTabChanged(y, w) /\ (y.loading[c] \/ c \in y.dropped)
      BY <1>12, <1>17, <2>1
    <3>3. /\ TabsTyped(y2) /\ Differs(y, y2, {"title", "info", "followAction"})
          /\ ShowsTab(y2, w)
          /\ \A z \in Tabs!Windows : z # w /\ ShowsTab(y, z) => ShowsTab(y2, z)
      BY <1>15, <1>18, <3>1, <3>2, TabShown
    <3> QED
      BY <1>16, <3>3
  <2>2. CASE Len(list) # 0
    <3>1. y2 = y
      BY <1>17, <2>2
    <3>2. Differs(y, y2, {"title", "info", "followAction"})
      BY <1>11, <3>1 DEF Differs
    <3> QED
      BY <1>15, <1>16, <2>2, <3>1, <3>2
  <2> QED
    BY <2>1, <2>2
<1>20. /\ y2.tabs = y.tabs /\ y2.current = y.current /\ y2.loading = x.loading
       /\ y2.dropped = x.dropped /\ y2.listeners = x.listeners /\ y2.file = x.file
       /\ y2.follow = x.follow
  BY <1>12, <1>19 DEF Differs, TabFields
<1>21. PICK y3 : y3 = IF setCurrent THEN Tabs!setCurrentIndex(y2, w, i) ELSE y2
  OBVIOUS
<1>22. /\ TabsTyped(y3) /\ Differs(y2, y3, {"current", "title", "info", "followAction"})
       /\ y3.current[w] \in 1 .. Len(k)
       /\ \A z \in Tabs!Windows : z # w => y3.current[z] = x.current[z]
       /\ \A z \in Tabs!Windows : ShowsTab(y3, z)
  <2>1. CASE setCurrent
    <3>1. y2.current[w] \in 0 .. Len(y2.tabs[w]) /\ y2.tabs[w][i] = c /\ i \in 1 .. Len(y2.tabs[w])
      BY <1>5, <1>13, <1>18, <1>20
    <3>2. y3 = Tabs!setCurrentIndex(y2, w, i) /\ (y2.loading[c] \/ c \in y2.dropped)
      BY <1>20, <1>21, <2>1
    <3>3. /\ TabsTyped(y3) /\ Differs(y2, y3, {"current", "title", "info", "followAction"})
          /\ y3.current = [y2.current EXCEPT ![w] = IF i \in 1 .. Len(y2.tabs[w]) THEN i ELSE @]
          /\ \A z \in Tabs!Windows : ShowsTab(y2, z) => ShowsTab(y3, z)
      BY <1>19, <3>1, <3>2, CurrentSet
    <3>4. /\ y3.current[w] = i
          /\ \A z \in Tabs!Windows : z # w => y3.current[z] = x.current[z]
      BY <1>13, <1>20, <3>1, <3>3
    <3> QED
      BY <1>5, <1>19, <3>3, <3>4
  <2>2. CASE ~setCurrent
    <3>1. y3 = y2
      BY <1>21, <2>2
    <3>2. Differs(y2, y3, {"current", "title", "info", "followAction"})
      BY <1>19, <3>1 DEF Differs
    <3> QED
      BY <1>9, <1>13, <1>19, <1>20, <3>1, <3>2
  <2> QED
    BY <2>1, <2>2
<1>23. /\ y3.tabs = y.tabs /\ y3.loading = x.loading /\ y3.dropped = x.dropped
       /\ y3.listeners = x.listeners /\ y3.file = x.file /\ y3.follow = x.follow
  BY <1>20, <1>22 DEF Differs, TabFields
<1>24. u = [y3 EXCEPT !.listeners[c] = @ \cup {w}]
  <2>1. y = Tabs!inserted(x, w, i, c)
    BY <1>1, <1>4, <1>6, <1>8, <1>10 DEF Tabs!inserted
  <2> QED
    BY <1>1, <1>17, <1>21, <2>1 DEF Tabs!insertTab
<1>25. /\ Differs(y3, u, {"listeners"})
       /\ u.listeners = [y3.listeners EXCEPT ![c] = @ \cup {w}]
  BY <1>22, <1>24 DEF Differs, TabsTyped, TabFields
<1>26. /\ u.listeners \in [Tabs!Crawlers -> SUBSET Tabs!Windows] /\ w \in u.listeners[c]
       /\ \A d \in Tabs!Crawlers : x.listeners[d] \subseteq u.listeners[d]
  <2>1. x.listeners \in [Tabs!Crawlers -> SUBSET Tabs!Windows]
    BY <1>2 DEF TabsTyped
  <2> QED
    BY <1>23, <1>25, <2>1
<1>27. TabsTyped(u)
  BY <1>22, <1>25, <1>26, StaysTyped
<1>28. /\ u.tabs = y.tabs /\ u.current = y3.current /\ u.file = x.file /\ u.follow = x.follow
       /\ u.title = y3.title /\ u.followAction = y3.followAction /\ u.info = y3.info
       /\ u.loading = y3.loading /\ u.dropped = y3.dropped
       /\ u.dropped = x.dropped
  BY <1>23, <1>25 DEF Differs, TabFields
<1>29. /\ u.moved = y.moved /\ u.handler = y.handler /\ u.icon = y.icon /\ u.status = x.status
  BY <1>12, <1>19, <1>22, <1>25 DEF Differs, TabFields
<1>30. \A z \in Tabs!Windows : ShowsTab(u, z)
  <2>1. \A z : CrawlerOf(u, z) = CrawlerOf(y3, z)
    BY <1>23, <1>28 DEF CrawlerOf
  <2>2. u.file = y3.file /\ u.follow = y3.follow
    BY <1>23, <1>28
  <2>3. ASSUME NEW z \in Tabs!Windows
        PROVE  ShowsTab(u, z)
    <3>1. /\ ShowsTab(y3, z) /\ CrawlerOf(u, z) = CrawlerOf(y3, z)
          /\ u.title[z] = y3.title[z] /\ u.followAction[z] = y3.followAction[z]
          /\ u.info[z] = y3.info[z] /\ u.loading = y3.loading
      BY <1>22, <1>28, <2>1
    <3>2. y3.dropped \subseteq u.dropped
      BY <1>28
    <3> QED
      BY <2>2, <3>1, <3>2, ShowsSame
  <2> QED
    BY <2>3
<1>31. Placed(u, X)
  <2>1. /\ u.tabs[w] = k /\ u.current[w] \in 1 .. Len(k) /\ Len(k) \in Nat
        /\ \A z \in Tabs!Windows : z # w => u.tabs[z] = x.tabs[z] /\ u.current[z] = x.current[z]
    BY <1>3, <1>5, <1>13, <1>22, <1>28
  <2>2. FromOthers(x.tabs[w], k, i) /\ HasOthers(x.tabs[w], k, i)
    BY <1>1, <1>5
  <2> QED
    BY <1>2, <1>5, <1>26, <1>28, <2>1, <2>2, PlacedMore
<1>32. IconsRight(u, X)
  <2>1. SUFFICES ASSUME ~u.moved, NEW d \in Tabs!Crawlers, u.file[d] # Tabs!NoFile, d \notin X
                 PROVE  KnowsTab(u, d) /\ (d \notin u.dropped => u.icon[d] = u.status[d])
    BY DEF IconsRight
  <2>2. ~x.moved /\ i = Len(list) + 1
    <3>1. ~x.moved /\ ~(i <= Len(list))
      BY <1>11, <1>29, <2>1
    <3> QED
      BY <1>3, <3>1
  <2>3. CASE d = c
    <3>1. u.handler[d][1] = w /\ u.handler[d][2] = i
      BY <1>14, <1>29, <2>3
    <3>2. KnowsTab(u, d)
      BY <1>5, <1>13, <1>28, <2>3, <3>1 DEF KnowsTab
    <3> QED
      BY <1>14, <1>28, <1>29, <2>3, <3>2
  <2>4. CASE d # c
    <3>1. KnowsTab(x, d) /\ (d \notin x.dropped => x.icon[d] = x.status[d])
      BY <1>2, <1>28, <2>1, <2>2, <2>4 DEF IconsRight
    <3>2. u.handler[d] = x.handler[d] /\ x.handler[d] \in Tabs!Windows \X Nat
      BY <1>2, <1>14, <1>29, <2>4 DEF TabsTyped
    <3>3. PICK z \in Tabs!Windows, j \in Nat : x.handler[d] = <<z, j>>
      BY <3>2
    <3>4. j \in 1 .. Len(x.tabs[z]) /\ x.tabs[z][j] = d
      BY <3>1, <3>3 DEF KnowsTab
    <3>5. j \in 1 .. Len(u.tabs[z]) /\ u.tabs[z][j] = d
      <4>1. CASE z # w
        BY <1>13, <1>28, <3>4, <4>1
      <4>2. CASE z = w
        <5>1. j \in 1 .. Len(list) /\ list[j] = d
          BY <1>1, <3>4, <4>2
        <5>2. j \in 1 .. i - 1 /\ j \in 1 .. Len(list) + 1
          BY <1>3, <2>2, <5>1
        <5>3. k[j] = list[j]
          <6>1. WithAt(k, list, i, c)
            BY <1>3, <1>4, InsertIs
          <6> QED
            BY <5>2, <6>1 DEF WithAt
        <5> QED
          BY <1>5, <1>13, <1>28, <4>2, <5>1, <5>2, <5>3
      <4> QED
        BY <4>1, <4>2
    <3>6. KnowsTab(u, d)
      BY <3>2, <3>3, <3>5 DEF KnowsTab
    <3> QED
      BY <1>14, <1>28, <1>29, <2>4, <3>1, <3>6
  <2> QED
    BY <2>3, <2>4
<1>33. Differs(x, u, {"tabs", "current", "moved", "pinned", "icon", "handler", "title",
                      "info", "followAction", "listeners"})
  <2>1. Differs(y, y3, {"current", "title", "info", "followAction"})
    BY <1>19, <1>22, DiffersOn
  <2>2. Differs(y, u, {"current", "title", "info", "followAction", "listeners"})
    BY <1>25, <2>1, DiffersOn
  <2> QED
    BY <1>11, <2>2, DiffersOn
<1>34. IndexingOpen(u)
  BY <1>33, IndexingSame DEF TabsGood
<1> QED
  BY <1>1, <1>4, <1>11, <1>27, <1>28, <1>30, <1>31, <1>32, <1>33, <1>34 DEF TabsGood

-----------------------------------------------------------------------------
(* The tabs of a window in another order. *)
LEMMA MovedTo ==
  ASSUME NEW T, NEW list \in Seq(T), NEW from \in 1 .. Len(list), NEW to \in 1 .. Len(list),
         Distinct(list),
         NEW k, k = Tabs!InsertAt(Tabs!RemoveAt(list, from), to, list[from])
  PROVE  k \in Seq(T) /\ Len(k) = Len(list) /\ Distinct(k) /\ Within(k, list) /\ Within(list, k)
<1>1. PICK mid : mid = Tabs!RemoveAt(list, from)
  OBVIOUS
<1>2. /\ mid \in Seq(T) /\ Len(mid) = Len(list) - 1 /\ Distinct(mid)
      /\ FromOthers(mid, list, from) /\ HasOthers(mid, list, from)
  BY <1>1, RemovedFrom
<1>3. PICK c \in T : c = list[from]
  OBVIOUS
<1>4. \A m \in 1 .. Len(mid) : mid[m] # c
  BY <1>2, <1>3 DEF FromOthers, Distinct
<1>5. to \in 1 .. Len(mid) + 1 /\ Len(list) \in Nat
  BY <1>2
<1>6. /\ k \in Seq(T) /\ Len(k) = Len(mid) + 1 /\ to \in 1 .. Len(k) /\ k[to] = c
      /\ FromOthers(mid, k, to) /\ HasOthers(mid, k, to) /\ Distinct(k)
  <2>1. k = Tabs!InsertAt(mid, to, c)
    BY <1>1, <1>3
  <2> QED
    BY <1>2, <1>4, <1>5, <2>1, InsertedTo
<1>7. ASSUME NEW j \in 1 .. Len(k)
      PROVE  \E m \in 1 .. Len(list) : k[j] = list[m]
  <2>1. CASE j = to
    BY <1>3, <1>6, <2>1
  <2>2. CASE j # to
    <3>1. PICK m \in 1 .. Len(mid) : mid[m] = k[j]
      BY <1>6, <1>7, <2>2 DEF HasOthers
    <3> QED
      BY <1>2, <3>1 DEF FromOthers
  <2> QED
    BY <2>1, <2>2
<1>8. ASSUME NEW m \in 1 .. Len(list)
      PROVE  \E j \in 1 .. Len(k) : list[m] = k[j]
  <2>1. CASE m = from
    BY <1>3, <1>6, <2>1
  <2>2. CASE m # from
    <3>1. PICK j \in 1 .. Len(mid) : mid[j] = list[m]
      BY <1>2, <1>8, <2>2 DEF HasOthers
    <3> QED
      BY <1>6, <3>1 DEF FromOthers
  <2> QED
    BY <2>1, <2>2
<1>9. Within(k, list) /\ Within(list, k)
  BY <1>7, <1>8 DEF Within
<1> QED
  BY <1>2, <1>5, <1>6, <1>9

(* The tabs are still where they should be in another order. *)
LEMMA PlacedAgain ==
  ASSUME NEW x, NEW X, Placed(x, X), NEW w \in Tabs!Windows,
         NEW k, Distinct(k), Within(k, x.tabs[w]), Within(x.tabs[w], k),
         NEW u, u.tabs[w] = k, u.current[w] \in 1 .. Len(k), Len(k) \in Nat,
         \A z \in Tabs!Windows : z # w => u.tabs[z] = x.tabs[z] /\ u.current[z] = x.current[z],
         u.file = x.file, u.listeners = x.listeners
  PROVE  Placed(u, X)
<1>1. \A z \in Tabs!Windows : /\ u.current[z] \in 0 .. Len(u.tabs[z])
                              /\ u.current[z] = 0 <=> Len(u.tabs[z]) = 0
  <2>1. u.current[w] \in 0 .. Len(k) /\ u.current[w] # 0 /\ Len(k) # 0
    OBVIOUS
  <2> QED
    BY <2>1 DEF Placed
<1>2. ASSUME NEW z \in Tabs!Windows, NEW j \in 1 .. Len(u.tabs[z])
      PROVE  \E m \in 1 .. Len(x.tabs[z]) : u.tabs[z][j] = x.tabs[z][m]
  <2>1. CASE z = w
    BY <1>2, <2>1 DEF Within
  <2>2. CASE z # w
    BY <1>2, <2>2
  <2> QED
    BY <2>1, <2>2
<1>4. ASSUME NEW a \in Tabs!Windows, NEW b \in Tabs!Windows,
             NEW m \in 1 .. Len(u.tabs[a]), NEW j \in 1 .. Len(u.tabs[b]),
             u.tabs[a][m] = u.tabs[b][j]
      PROVE  a = b /\ m = j
  <2>1. a = b
    <3>1. PICK n \in 1 .. Len(x.tabs[a]) : u.tabs[a][m] = x.tabs[a][n]
      BY <1>2
    <3>2. PICK l \in 1 .. Len(x.tabs[b]) : u.tabs[b][j] = x.tabs[b][l]
      BY <1>2
    <3>3. x.tabs[a][n] = x.tabs[b][l]
      BY <1>4, <3>1, <3>2
    <3> QED
      BY <3>3 DEF Placed
  <2>2. CASE a = w
    <3>1. u.tabs[a] = k /\ u.tabs[b] = k
      BY <2>1, <2>2
    <3> QED
      BY <1>4, <2>1, <3>1 DEF Distinct
  <2>3. CASE a # w
    BY <1>4, <2>1, <2>3 DEF Placed
  <2> QED
    BY <2>1, <2>2, <2>3
<1>5. ASSUME NEW z \in Tabs!Windows, NEW j \in 1 .. Len(u.tabs[z])
      PROVE  /\ u.file[u.tabs[z][j]] # Tabs!NoFile
             /\ z \in u.listeners[u.tabs[z][j]] /\ u.tabs[z][j] \notin X
  <2>1. PICK m \in 1 .. Len(x.tabs[z]) : u.tabs[z][j] = x.tabs[z][m]
    BY <1>2
  <2> QED
    BY <2>1 DEF Placed
<1>6. ASSUME NEW d \in Tabs!Crawlers, u.file[d] # Tabs!NoFile, d \notin X
      PROVE  \E z \in Tabs!Windows : \E j \in 1 .. Len(u.tabs[z]) : u.tabs[z][j] = d
  <2>1. PICK z \in Tabs!Windows : \E m \in 1 .. Len(x.tabs[z]) : x.tabs[z][m] = d
    BY <1>6 DEF Placed
  <2>2. PICK m \in 1 .. Len(x.tabs[z]) : x.tabs[z][m] = d
    BY <2>1
  <2>3. CASE z = w
    BY <2>2, <2>3 DEF Within
  <2>4. CASE z # w
    BY <2>2, <2>4
  <2> QED
    BY <2>3, <2>4
<1> QED
  BY <1>1, <1>4, <1>5, <1>6 DEF Placed

(* What is saved is the files of the tabs of the window that saved last, in *)
(* the order that they had then. *)
SessionSaved(x) ==
  \E d \in Seq(Tabs!Crawlers) :
    /\ Distinct(d) /\ Len(d) = Len(x.saved)
    /\ Within(d, x.tabs[x.savedBy]) /\ Within(x.tabs[x.savedBy], d)
    /\ \A k \in 1 .. Len(x.saved) : x.saved[k].file = x.file[d[k]]

(* Being within is transitive. *)
LEMMA WithinWithin ==
  ASSUME NEW a, NEW b, NEW d, Within(a, b), Within(b, d)
  PROVE  Within(a, d)
BY DEF Within

(* Moving a tab changes neither what is shown nor what was saved. *)
LEMMA TabMoved ==
  ASSUME NEW x, TabsGood(x, {}), SessionSaved(x), NEW w \in Tabs!Windows, NEW from, NEW to,
         NEW u, u = Tabs!moveTab(x, w, from, to)
  PROVE  TabsGood(u, {}) /\ SessionSaved(u) /\ Differs(x, u, {"tabs", "current", "moved"})
<1>1. PICK list : list = x.tabs[w]
  OBVIOUS
<1>2. /\ TabsTyped(x) /\ Placed(x, {}) /\ IconsRight(x, {})
      /\ \A z \in Tabs!Windows : ShowsTab(x, z)
  BY DEF TabsGood
<1>3. CASE from = to \/ ~({from, to} \subseteq 1 .. Len(list))
  <2>1. u = x
    BY <1>1, <1>3 DEF Tabs!moveTab
  <2>2. Differs(x, u, {"tabs", "current", "moved"})
    BY <1>2, <2>1 DEF Differs, TabsTyped
  <2> QED
    BY <2>1, <2>2
<1>4. CASE from # to /\ {from, to} \subseteq 1 .. Len(list)
  <2>1. /\ list \in Seq(Tabs!Crawlers) /\ Len(list) \in Nat /\ from \in 1 .. Len(list)
        /\ to \in 1 .. Len(list)
    BY <1>1, <1>2, <1>4, TabIn
  <2>2. PICK k : k = Tabs!InsertAt(Tabs!RemoveAt(list, from), to, list[from])
    OBVIOUS
  <2>3. /\ k \in Seq(Tabs!Crawlers) /\ Len(k) = Len(list) /\ Distinct(k)
        /\ Within(k, list) /\ Within(list, k)
    <3>1. Distinct(list)
      BY <1>1, <1>2 DEF Placed, Distinct
    <3> QED
      BY <2>1, <2>2, <3>1, MovedTo
  <2>4. PICK cur : cur = x.current[w]
    OBVIOUS
  <2>5. cur \in 1 .. Len(list) /\ cur # 0
    <3>1. cur \in 0 .. Len(list) /\ (cur = 0 <=> Len(list) = 0)
      BY <1>1, <1>2, <2>4 DEF Placed
    <3> QED
      BY <2>1, <3>1
  <2>6. PICK new : new = CHOOSE j \in 1 .. Len(k) : k[j] = list[cur]
    OBVIOUS
  <2>7. new \in 1 .. Len(k) /\ k[new] = list[cur]
    <3>1. \E j \in 1 .. Len(k) : k[j] = list[cur]
      BY <2>3, <2>5 DEF Within
    <3> QED
      BY <2>6, <3>1
  <2>8. u = [x EXCEPT !.tabs[w] = k, !.current[w] = new, !.moved = TRUE]
    BY <1>1, <1>4, <2>2, <2>4, <2>6 DEF Tabs!moveTab
  <2>9. /\ Differs(x, u, {"tabs", "current", "moved"})
        /\ u.tabs = [x.tabs EXCEPT ![w] = k] /\ u.current = [x.current EXCEPT ![w] = new]
        /\ u.moved = TRUE
    BY <1>2, <2>8 DEF TabsTyped, Differs, TabFields
  <2>10. /\ u.file = x.file /\ u.follow = x.follow /\ u.title = x.title /\ u.loading = x.loading
         /\ u.dropped = x.dropped /\ u.listeners = x.listeners /\ u.info = x.info
         /\ u.followAction = x.followAction /\ u.saved = x.saved /\ u.savedBy = x.savedBy
    BY <2>9 DEF Differs, TabFields
  <2>11. /\ u.tabs \in [Tabs!Windows -> Seq(Tabs!Crawlers)] /\ u.tabs[w] = k
         /\ u.current \in [Tabs!Windows -> Nat] /\ u.current[w] = new
         /\ \A z \in Tabs!Windows : z # w => u.tabs[z] = x.tabs[z] /\ u.current[z] = x.current[z]
    <3>1. x.tabs \in [Tabs!Windows -> Seq(Tabs!Crawlers)] /\ x.current \in [Tabs!Windows -> Nat]
      BY <1>2 DEF TabsTyped
    <3>2. u.tabs \in [Tabs!Windows -> Seq(Tabs!Crawlers)] /\ u.tabs[w] = k
      BY <2>3, <2>9, <3>1
    <3>3. u.current \in [Tabs!Windows -> Nat] /\ u.current[w] = new
      BY <2>7, <2>9, <3>1
    <3>4. \A z \in Tabs!Windows : z # w => u.tabs[z] = x.tabs[z] /\ u.current[z] = x.current[z]
      BY <2>9, <3>1
    <3> QED
      BY <3>2, <3>3, <3>4
  <2>12. TabsTyped(u)
    <3>1. u.moved \in BOOLEAN
      BY <2>9
    <3> QED
      BY <1>2, <2>9, <2>11, <3>1, StaysTyped
  <2>13. Placed(u, {})
    <3>1. u.current[w] \in 1 .. Len(k) /\ Len(k) \in Nat
      BY <2>1, <2>3, <2>7, <2>11
    <3>2. Within(k, x.tabs[w]) /\ Within(x.tabs[w], k)
      BY <1>1, <2>3
    <3> QED
      <4>1. /\ Placed(x, {}) /\ Distinct(k) /\ u.tabs[w] = k
            /\ \A z \in Tabs!Windows : z # w => u.tabs[z] = x.tabs[z] /\ u.current[z] = x.current[z]
            /\ u.file = x.file /\ u.listeners = x.listeners
        BY <1>2, <2>3, <2>10, <2>11
      <4> QED
        BY <3>1, <3>2, <4>1, PlacedAgain
  <2>14. IconsRight(u, {})
    BY <2>9 DEF IconsRight
  <2>15. ASSUME NEW z \in Tabs!Windows
         PROVE  ShowsTab(u, z)
    <3>1. CrawlerOf(u, z) = CrawlerOf(x, z)
      <4>1. CASE z = w
        BY <1>1, <2>4, <2>5, <2>7, <2>11, <4>1 DEF CrawlerOf
      <4>2. CASE z # w
        BY <2>11, <4>2 DEF CrawlerOf
      <4> QED
        BY <4>1, <4>2
    <3> QED
      BY <1>2, <2>10, <3>1, ShowsSame
  <2>16. SessionSaved(u)
    <3>1. PICK d \in Seq(Tabs!Crawlers) :
            /\ Distinct(d) /\ Len(d) = Len(x.saved)
            /\ Within(d, x.tabs[x.savedBy]) /\ Within(x.tabs[x.savedBy], d)
            /\ \A j \in 1 .. Len(x.saved) : x.saved[j].file = x.file[d[j]]
      BY DEF SessionSaved
    <3>2. x.savedBy \in Tabs!Windows
      BY <1>2 DEF TabsTyped
    <3>3. Within(d, u.tabs[u.savedBy]) /\ Within(u.tabs[u.savedBy], d)
      <4>1. CASE x.savedBy = w
        <5>1. Within(d, list) /\ Within(list, d)
          BY <1>1, <3>1, <4>1
        <5>2. Within(d, k) /\ Within(k, d)
          BY <2>3, <5>1, WithinWithin
        <5> QED
          BY <2>10, <2>11, <4>1, <5>2
      <4>2. CASE x.savedBy # w
        BY <2>10, <2>11, <3>1, <3>2, <4>2
      <4> QED
        BY <4>1, <4>2
    <3> QED
      BY <2>10, <3>1, <3>3 DEF SessionSaved
  <2>17. IndexingOpen(u)
    BY <2>9, IndexingSame DEF TabsGood
  <2> QED
    BY <2>9, <2>12, <2>13, <2>14, <2>15, <2>16, <2>17 DEF TabsGood
<1> QED
  BY <1>3, <1>4

-----------------------------------------------------------------------------
(* Saving the session makes it what is open in the window. *)
LEMMA TabsSaved ==
  ASSUME NEW x, TabsGood(x, {}), NEW w \in Tabs!Windows, NEW u, u = Tabs!saveSession(x, w)
  PROVE  TabsGood(u, {}) /\ SessionSaved(u) /\ Differs(x, u, {"saved", "savedBy"})
<1>1. /\ TabsTyped(x) /\ Placed(x, {}) /\ IconsRight(x, {}) /\ IndexingOpen(x)
      /\ \A z \in Tabs!Windows : ShowsTab(x, z)
  BY DEF TabsGood
<1>2. PICK list : list = x.tabs[w]
  OBVIOUS
<1>3. /\ list \in Seq(Tabs!Crawlers) /\ Len(list) \in Nat
      /\ \A k \in 1 .. Len(list) : list[k] \in Tabs!Crawlers
  BY <1>1, <1>2, TabIn
<1>4. PICK all : all = [k \in 1 .. Len(list) |-> [file |-> x.file[list[k]], follow |-> x.follow[list[k]]]]
  OBVIOUS
<1>5. all \in Seq([file : Files, follow : BOOLEAN]) /\ Len(all) = Len(list)
  <2>1. ASSUME NEW k \in 1 .. Len(list)
        PROVE  x.file[list[k]] \in Files /\ x.follow[list[k]] \in BOOLEAN
    <3>1. x.file[list[k]] # Tabs!NoFile
      BY <1>1, <1>2 DEF Placed
    <3> QED
      BY <1>1, <1>3, <3>1 DEF TabsTyped, Named
  <2> QED
    BY <1>3, <1>4, <2>1
<1>6. u = [x EXCEPT !.saved = all, !.savedBy = w]
  BY <1>2, <1>4 DEF Tabs!saveSession
<1>7. Differs(x, u, {"saved", "savedBy"}) /\ u.saved = all /\ u.savedBy = w
  BY <1>1, <1>6 DEF TabsTyped, Differs, TabFields
<1>8. TabsTyped(u)
  BY <1>1, <1>5, <1>7, StaysTyped
<1>9. /\ u.tabs = x.tabs /\ u.current = x.current /\ u.file = x.file /\ u.follow = x.follow
      /\ u.title = x.title /\ u.loading = x.loading /\ u.dropped = x.dropped
      /\ u.listeners = x.listeners /\ u.info = x.info /\ u.followAction = x.followAction
      /\ u.moved = x.moved /\ u.handler = x.handler /\ u.icon = x.icon /\ u.status = x.status
  BY <1>7 DEF Differs, TabFields
<1>10. Placed(u, {}) /\ IconsRight(u, {}) /\ IndexingOpen(u)
  BY <1>1, <1>7, <1>9, PlacedSame, IconsSame, IndexingSame
<1>11. ASSUME NEW z \in Tabs!Windows
       PROVE  ShowsTab(u, z)
  <2>1. CrawlerOf(u, z) = CrawlerOf(x, z)
    BY <1>9 DEF CrawlerOf
  <2> QED
    BY <1>1, <1>9, <2>1, ShowsSame
<1>12. SessionSaved(u)
  <2>1. Distinct(list) /\ Within(list, list)
    BY <1>1, <1>2 DEF Placed, Distinct, Within
  <2>2. \A k \in 1 .. Len(all) : all[k].file = x.file[list[k]]
    BY <1>3, <1>4, <1>5
  <2> QED
    BY <1>2, <1>3, <1>5, <1>7, <1>9, <2>1, <2>2 DEF SessionSaved
<1> QED
  BY <1>7, <1>8, <1>10, <1>11, <1>12 DEF TabsGood

(* A file without a tab is closed. *)
LEMMA FileClosed ==
  ASSUME NEW x, NEW c \in Tabs!Crawlers, TabsGood(x, {c}), NEW u, u = Tabs!close(x, c)
  PROVE  TabsGood(u, {}) /\ u.tabs = x.tabs /\ u.pinned = x.pinned
<1>1. /\ TabsTyped(x) /\ Placed(x, {c}) /\ IconsRight(x, {c}) /\ IndexingOpen(x)
      /\ \A z \in Tabs!Windows : ShowsTab(x, z)
  BY DEF TabsGood
<1>2. /\ Differs(x, u, {"file", "listeners", "loading", "indexing", "searching"})
      /\ u.file = [x.file EXCEPT ![c] = Tabs!NoFile]
      /\ u.listeners = [x.listeners EXCEPT ![c] = {}]
      /\ u.loading = [x.loading EXCEPT ![c] = FALSE]
      /\ u.indexing = [x.indexing EXCEPT ![c] = FALSE]
      /\ u.searching = [x.searching EXCEPT ![c] = FALSE]
  BY <1>1 DEF Tabs!close, TabsTyped, Differs, TabFields
<1>3. /\ u.tabs = x.tabs /\ u.current = x.current /\ u.follow = x.follow
      /\ u.title = x.title /\ u.dropped = x.dropped /\ u.pinned = x.pinned
      /\ u.info = x.info /\ u.followAction = x.followAction
      /\ u.moved = x.moved /\ u.handler = x.handler /\ u.icon = x.icon /\ u.status = x.status
  BY <1>2 DEF Differs, TabFields
<1>4. /\ u.file \in [Tabs!Crawlers -> Named] /\ u.file[c] = Tabs!NoFile
      /\ u.listeners \in [Tabs!Crawlers -> SUBSET Tabs!Windows]
      /\ u.loading \in [Tabs!Crawlers -> BOOLEAN]
      /\ \A d \in Tabs!Crawlers : d # c => /\ u.file[d] = x.file[d]
                                           /\ u.listeners[d] = x.listeners[d]
                                           /\ u.loading[d] = x.loading[d]
  <2>1. /\ x.file \in [Tabs!Crawlers -> Named]
        /\ x.listeners \in [Tabs!Crawlers -> SUBSET Tabs!Windows]
        /\ x.loading \in [Tabs!Crawlers -> BOOLEAN]
    BY <1>1 DEF TabsTyped
  <2>2. Tabs!NoFile \in Named
    BY DEF Named
  <2>3. /\ u.file \in [Tabs!Crawlers -> Named] /\ u.file[c] = Tabs!NoFile
        /\ \A d \in Tabs!Crawlers : d # c => u.file[d] = x.file[d]
    BY <1>2, <2>1, <2>2
  <2>4. /\ u.listeners \in [Tabs!Crawlers -> SUBSET Tabs!Windows]
        /\ \A d \in Tabs!Crawlers : d # c => u.listeners[d] = x.listeners[d]
    BY <1>2, <2>1
  <2>5. /\ u.loading \in [Tabs!Crawlers -> BOOLEAN]
        /\ \A d \in Tabs!Crawlers : d # c => u.loading[d] = x.loading[d]
    BY <1>2, <2>1
  <2> QED
    BY <2>3, <2>4, <2>5
<1>5. /\ u.indexing \in [Tabs!Crawlers -> BOOLEAN] /\ u.searching \in [Tabs!Crawlers -> BOOLEAN]
      /\ u.indexing[c] = FALSE
      /\ \A d \in Tabs!Crawlers : d # c => u.indexing[d] = x.indexing[d]
  <2>1. x.indexing \in [Tabs!Crawlers -> BOOLEAN] /\ x.searching \in [Tabs!Crawlers -> BOOLEAN]
    BY <1>1 DEF TabsTyped
  <2> QED
    BY <1>2, <2>1
<1>6. TabsTyped(u)
  BY <1>1, <1>2, <1>4, <1>5, StaysTyped
<1>7. \A z \in Tabs!Windows : \A j \in 1 .. Len(x.tabs[z]) :
        x.tabs[z][j] # c /\ x.tabs[z][j] \in Tabs!Crawlers
  <2>1. ASSUME NEW z \in Tabs!Windows, NEW j \in 1 .. Len(x.tabs[z])
        PROVE  x.tabs[z][j] # c /\ x.tabs[z][j] \in Tabs!Crawlers
    BY <1>1, TabIn DEF Placed
  <2> QED
    BY <2>1
<1>8. Placed(u, {})
  <2>1. ASSUME NEW z \in Tabs!Windows, NEW j \in 1 .. Len(u.tabs[z])
        PROVE  /\ u.file[u.tabs[z][j]] # Tabs!NoFile
               /\ z \in u.listeners[u.tabs[z][j]]
    BY <1>1, <1>3, <1>4, <1>7 DEF Placed
  <2>2. ASSUME NEW d \in Tabs!Crawlers, u.file[d] # Tabs!NoFile
        PROVE  \E z \in Tabs!Windows : \E j \in 1 .. Len(u.tabs[z]) : u.tabs[z][j] = d
    BY <1>1, <1>3, <1>4, <2>2 DEF Placed
  <2>3. /\ \A z \in Tabs!Windows : /\ u.current[z] \in 0 .. Len(u.tabs[z])
                                   /\ u.current[z] = 0 <=> Len(u.tabs[z]) = 0
        /\ \A a, b \in Tabs!Windows :
             \A i \in 1 .. Len(u.tabs[a]), j \in 1 .. Len(u.tabs[b]) :
               u.tabs[a][i] = u.tabs[b][j] => a = b /\ i = j
    BY <1>1, <1>3 DEF Placed
  <2> QED
    BY <2>1, <2>2, <2>3 DEF Placed
<1>9. IconsRight(u, {})
  BY <1>1, <1>3, <1>4 DEF IconsRight, KnowsTab
<1>10. ASSUME NEW z \in Tabs!Windows
       PROVE  ShowsTab(u, z)
  <2>1. PICK d : d = CrawlerOf(x, z) /\ d = CrawlerOf(u, z)
    BY <1>3 DEF CrawlerOf
  <2>2. d = 0 \/ (d \in Tabs!Crawlers /\ d # c)
    <3>1. x.current[z] = 0 \/ x.current[z] \in 1 .. Len(x.tabs[z])
      <4>1. x.current[z] \in 0 .. Len(x.tabs[z]) /\ Len(x.tabs[z]) \in Nat
        BY <1>1, TabIn DEF Placed
      <4> QED
        BY <4>1
    <3> QED
      BY <1>7, <2>1, <3>1 DEF CrawlerOf
  <2>3. ShowsTab(x, z)
    BY <1>1
  <2> QED
    BY <1>3, <1>4, <2>1, <2>2, <2>3 DEF ShowsTab
<1>11. IndexingOpen(u)
  BY <1>1, <1>4, <1>5 DEF IndexingOpen
<1> QED
  BY <1>3, <1>6, <1>8, <1>9, <1>10, <1>11 DEF TabsGood

(* Closing a tab closes its file, shows another tab and saves the session. *)
LEMMA TabClosed ==
  ASSUME NEW x, TabsTyped(x), Placed(x, {}), IconsRight(x, {}), IndexingOpen(x),
         NEW w \in Tabs!Windows, NEW i \in 1 .. Len(x.tabs[w]),
         \A z \in Tabs!Windows : z # w \/ i > x.current[w] => ShowsTab(x, z),
         NEW u, u = Tabs!closeTab(x, w, i)
  PROVE  /\ TabsGood(u, {}) /\ SessionSaved(u) /\ u.pinned = x.pinned
         /\ u.tabs = [x.tabs EXCEPT ![w] = Tabs!RemoveAt(@, i)]
<1>1. PICK c : c = x.tabs[w][i]
  OBVIOUS
<1>2. PICK y : y = Tabs!removeTab(x, w, i)
  OBVIOUS
<1>3. /\ TabsGood(y, {c}) /\ c \in Tabs!Crawlers
      /\ Differs(x, y, {"tabs", "current", "moved", "title", "info", "followAction"})
      /\ y.tabs = [x.tabs EXCEPT ![w] = Tabs!RemoveAt(@, i)]
  BY <1>1, <1>2, TabRemoved
<1>4. PICK y2 : y2 = Tabs!close(y, c)
  OBVIOUS
<1>5. TabsGood(y2, {}) /\ y2.tabs = y.tabs /\ y2.pinned = y.pinned
  BY <1>3, <1>4, FileClosed
<1>6. u = Tabs!saveSession(y2, w)
  BY <1>1, <1>2, <1>4 DEF Tabs!closeTab
<1>7. TabsGood(u, {}) /\ SessionSaved(u) /\ Differs(y2, u, {"saved", "savedBy"})
  BY <1>5, <1>6, TabsSaved
<1>8. y.pinned = x.pinned /\ u.pinned = y2.pinned /\ u.tabs = y2.tabs
  BY <1>3, <1>7 DEF Differs, TabFields
<1> QED
  BY <1>3, <1>5, <1>7, <1>8

-----------------------------------------------------------------------------
TabStates ==
  [windows : SUBSET Tabs!Windows, tabs : [Tabs!Windows -> Seq(Tabs!Crawlers)],
   current : [Tabs!Windows -> Nat], title : [Tabs!Windows -> Named],
   info : [Tabs!Windows -> Named], followAction : [Tabs!Windows -> BOOLEAN],
   file : [Tabs!Crawlers -> Named], follow : [Tabs!Crawlers -> BOOLEAN],
   loading : [Tabs!Crawlers -> BOOLEAN], indexing : [Tabs!Crawlers -> BOOLEAN],
   firstLoadDone : [Tabs!Crawlers -> BOOLEAN], status : [Tabs!Crawlers -> Statuses],
   searching : [Tabs!Crawlers -> BOOLEAN], pinned : [Tabs!Crawlers -> BOOLEAN],
   icon : [Tabs!Crawlers -> Statuses], handler : [Tabs!Crawlers -> Tabs!Windows \X Nat],
   listeners : [Tabs!Crawlers -> SUBSET Tabs!Windows],
   saved : Seq([file : Files, follow : BOOLEAN]), savedBy : Tabs!Windows,
   drag : {Tabs!NoDrag} \cup [from : Tabs!Windows, index : Nat],
   moved : BOOLEAN, dropped : SUBSET Tabs!Crawlers]

(* The states of the windows are a set, which recursion needs. *)
LEMMA StateIn ==
  ASSUME NEW x, TabsTyped(x)
  PROVE  x \in TabStates
BY DEF TabsTyped, TabStates, TabFields

(* The first tab is closed as many times as there are tabs. *)
LEMMA AllClosed ==
  ASSUME NEW x, TabsGood(x, {}), SessionSaved(x), NEW w \in Tabs!Windows,
         NEW u, u = Tabs!closeAll(x, w)
  PROVE  TabsGood(u, {}) /\ SessionSaved(u)
<1> DEFINE l == Len(x.tabs[w])
           all == CHOOSE f : f = [t \in 0 .. l |-> IF t = 0 THEN x ELSE Tabs!closeTab(f[t - 1], w, 1)]
           step == [p \in (1 .. l) \X TabStates |-> Tabs!closeTab(p[2], w, 1)]
           D == [t \in 0 .. l |-> {y \in TabStates :
                  TabsGood(y, {}) /\ SessionSaved(y) /\ Len(y.tabs[w]) = l - t}]
<1>1. u = all[l]
  BY DEF Tabs!closeAll
<1>2. l \in Nat
  BY TabIn DEF TabsGood
<1>3. \A t \in 1 .. l, y \in TabStates : step[<<t, y>>] = Tabs!closeTab(y, w, 1)
  OBVIOUS
<1>4. \A t \in 0 .. l : \A y : y \in D[t] <=>
        y \in TabStates /\ TabsGood(y, {}) /\ SessionSaved(y) /\ Len(y.tabs[w]) = l - t
  OBVIOUS
<1>5. x \in TabStates /\ TabsTyped(x) /\ 0 \in 0 .. l /\ Len(x.tabs[w]) = l - 0
  BY <1>2, StateIn DEF TabsGood
<1> HIDE DEF step, l, D
<1>6. x \in D[0]
  BY <1>4, <1>5
<1>7. ASSUME NEW t \in 1 .. l, NEW y \in D[t - 1]
      PROVE  y \in TabStates /\ Tabs!closeTab(y, w, 1) \in D[t]
  <2>1. t - 1 \in 0 .. l /\ t \in 0 .. l
    BY <1>2
  <2>2. y \in TabStates /\ TabsGood(y, {}) /\ Len(y.tabs[w]) = l - (t - 1)
    BY <1>4, <2>1
  <2>3. PICK list : list = y.tabs[w] /\ list \in Seq(Tabs!Crawlers) /\ Len(list) \in Nat
    BY <2>2, TabIn DEF TabsGood
  <2>4. 1 \in 1 .. Len(list)
    BY <1>2, <2>2, <2>3
  <2>5. PICK y2 : y2 = Tabs!closeTab(y, w, 1)
    OBVIOUS
  <2>6. /\ TabsGood(y2, {}) /\ SessionSaved(y2)
        /\ y2.tabs = [y.tabs EXCEPT ![w] = Tabs!RemoveAt(@, 1)]
    BY <2>2, <2>3, <2>4, <2>5, TabClosed DEF TabsGood
  <2>7. y2.tabs[w] = Tabs!RemoveAt(list, 1)
    BY <2>2, <2>3, <2>6 DEF TabsGood, TabsTyped
  <2>8. Len(y2.tabs[w]) = Len(list) - 1
    BY <2>3, <2>4, <2>7, RemoveIs
  <2>9. Len(y2.tabs[w]) = l - t /\ y2 \in TabStates
    BY <1>2, <2>2, <2>3, <2>6, <2>8, StateIn DEF TabsGood
  <2> QED
    BY <1>4, <2>1, <2>2, <2>5, <2>6, <2>9
<1>8. PICK f : /\ f = [t \in 0 .. l |-> f[t]] /\ Follows(f, l, x, step)
               /\ \A t \in 0 .. l : f[t] \in D[t]
  <2>1. \A t \in 0 .. l : D[t] \subseteq TabStates
    BY <1>4
  <2>2. ASSUME NEW t \in 1 .. l, NEW y \in D[t - 1]
        PROVE  step[<<t, y>>] \in D[t]
    <3>1. y \in TabStates /\ Tabs!closeTab(y, w, 1) \in D[t]
      BY <1>7
    <3> QED
      BY <1>3, <3>1
  <2> QED
    BY <1>2, <1>6, <2>1, <2>2, RecursionIn
<1>9. f = [t \in 0 .. l |-> IF t = 0 THEN x ELSE Tabs!closeTab(f[t - 1], w, 1)]
  <2>1. ASSUME NEW t \in 0 .. l, t # 0
        PROVE  f[t] = Tabs!closeTab(f[t - 1], w, 1)
    <3>1. t \in 1 .. l /\ t - 1 \in 0 .. l
      BY <1>2, <2>1
    <3>2. f[t - 1] \in TabStates
      BY <1>7, <1>8, <3>1
    <3> QED
      BY <1>3, <1>8, <3>1, <3>2 DEF Follows
  <2>2. \A t \in 0 .. l : f[t] = IF t = 0 THEN x ELSE Tabs!closeTab(f[t - 1], w, 1)
    BY <1>8, <2>1 DEF Follows
  <2> QED
    BY <1>8, <2>2
<1>10. all = [t \in 0 .. l |-> IF t = 0 THEN x ELSE Tabs!closeTab(all[t - 1], w, 1)]
  BY <1>9
<1> HIDE DEF all
<1>11. all[0] = x /\ \A t \in 1 .. l : all[t] = Tabs!closeTab(all[t - 1], w, 1)
  <2>1. 0 \in 0 .. l /\ \A t \in 1 .. l : t \in 0 .. l /\ t # 0
    BY <1>2
  <2> QED
    BY <1>10, <2>1
<1>12. \A t \in 0 .. l : all[t] \in D[t]
  <2>1. \A t \in 1 .. l : all[t - 1] \in D[t - 1] => all[t] \in D[t]
    BY <1>7, <1>11
  <2> QED
    BY <1>2, <1>6, <1>11, <2>1, StaysIn
<1> QED
  BY <1>1, <1>2, <1>4, <1>12

-----------------------------------------------------------------------------
(* The tabs of a window while a range of them is closed: those before the   *)
(* range, those of its first t that are kept, and the others.               *)
Closing(q, list, begin, t, k) ==
  /\ Len(q) = Len(list) - t + Len(k)
  /\ \A j \in 1 .. begin - 1 : q[j] = list[j]
  /\ \A j \in 1 .. Len(k) : q[begin - 1 + j] = k[j]
  /\ \A j \in 1 .. Len(list) - (begin - 1) - t :
       q[begin - 1 + Len(k) + j] = list[begin - 1 + t + j]

ClosingAt(T, list, begin, t, q, k, i, e) ==
  /\ list \in Seq(T) /\ q \in Seq(T) /\ k \in Seq(T)
  /\ begin \in 1 .. Len(list) /\ t \in Nat /\ begin + t <= Len(list)
  /\ Len(k) <= t /\ Closing(q, list, begin, t, k)
  /\ i = begin + Len(k) /\ e = list[begin + t]

(* A pinned tab is passed by, another is closed: the rest stays in place. *)
LEMMA ClosingNext ==
  ASSUME NEW T, NEW list, NEW begin, NEW t, NEW q, NEW k, NEW i, NEW e,
         ClosingAt(T, list, begin, t, q, k, i, e)
  PROVE  /\ i \in 1 .. Len(q) /\ q[i] = e
         /\ Closing(q, list, begin, t + 1, Append(k, e))
         /\ Closing(Tabs!RemoveAt(q, i), list, begin, t + 1, k)
<1>a. /\ list \in Seq(T) /\ q \in Seq(T) /\ k \in Seq(T)
      /\ begin \in 1 .. Len(list) /\ t \in Nat /\ begin + t <= Len(list)
      /\ Len(k) <= t /\ Closing(q, list, begin, t, k)
      /\ i = begin + Len(k) /\ e = list[begin + t]
  BY DEF ClosingAt
<1>1. Len(list) \in Nat /\ Len(k) \in Nat /\ Len(q) \in Nat /\ begin \in Nat
  BY <1>a
<1>2. /\ Len(q) = Len(list) - t + Len(k)
      /\ \A j \in 1 .. begin - 1 : q[j] = list[j]
      /\ \A j \in 1 .. Len(k) : q[begin - 1 + j] = k[j]
      /\ \A j \in 1 .. Len(list) - (begin - 1) - t :
           q[begin - 1 + Len(k) + j] = list[begin - 1 + t + j]
  BY <1>a DEF Closing
<1>3. i \in Nat
  BY <1>a, <1>1
<1>4. i \in 1 .. Len(q)
  BY <1>a, <1>1, <1>2, <1>3
<1>5. q[i] = list[begin + t]
  <2>1. 1 \in 1 .. Len(list) - (begin - 1) - t
    BY <1>a, <1>1
  <2>2. begin - 1 + Len(k) + 1 = i /\ begin - 1 + t + 1 = begin + t
    BY <1>a, <1>1, <1>3
  <2> QED
    BY <1>a, <1>2, <2>1, <2>2
<1>7. e \in T
  <2>1. begin + t \in 1 .. Len(list)
    BY <1>a, <1>1
  <2> QED
    BY <1>a, <2>1
<1>8. Closing(q, list, begin, t + 1, Append(k, e))
  <2>0. Append(k, e) \in Seq(T)
    BY <1>a, <1>7
  <2>1. PICK k2 \in Seq(T) : k2 = Append(k, e)
    BY <2>0
  <2>2. Len(k2) = Len(k) + 1 /\ k2[Len(k) + 1] = e /\ \A j \in 1 .. Len(k) : k2[j] = k[j]
    BY <1>a, <1>7, <2>1
  <2>3. Len(q) = Len(list) - (t + 1) + Len(k2)
    BY <1>a, <1>1, <1>2, <2>2
  <2>4. ASSUME NEW j \in 1 .. Len(k2)
        PROVE  q[begin - 1 + j] = k2[j]
    <3>1. CASE j = Len(k) + 1
      <4>1. begin - 1 + j = i
        BY <1>a, <1>1, <1>3, <3>1
      <4> QED
        BY <1>a, <1>5, <2>2, <3>1, <4>1
    <3>2. CASE j # Len(k) + 1
      <4>1. j \in 1 .. Len(k)
        BY <1>a, <1>1, <2>2, <3>2
      <4> QED
        BY <1>a, <1>2, <2>2, <4>1
    <3> QED
      BY <3>1, <3>2
  <2>5. ASSUME NEW j \in 1 .. Len(list) - (begin - 1) - (t + 1)
        PROVE  q[begin - 1 + Len(k2) + j] = list[begin - 1 + (t + 1) + j]
    <3>1. j + 1 \in 1 .. Len(list) - (begin - 1) - t
      BY <1>a, <1>1
    <3>2. /\ begin - 1 + Len(k) + (j + 1) = begin - 1 + Len(k2) + j
          /\ begin - 1 + t + (j + 1) = begin - 1 + (t + 1) + j
      BY <1>a, <1>1, <2>2
    <3> QED
      BY <1>a, <1>2, <3>1, <3>2
  <2> QED
    BY <1>a, <1>2, <2>1, <2>3, <2>4, <2>5 DEF Closing
<1>9. Closing(Tabs!RemoveAt(q, i), list, begin, t + 1, k)
  <2>1. PICK q2 : q2 = Tabs!RemoveAt(q, i)
    OBVIOUS
  <2>2. /\ Len(q2) = Len(q) - 1
        /\ \A j \in 1 .. i - 1 : q2[j] = q[j]
        /\ \A j \in i .. Len(q2) : q2[j] = q[j + 1]
    BY <1>a, <1>4, <2>1, RemoveIs
  <2>3. Len(q2) = Len(list) - (t + 1) + Len(k)
    BY <1>a, <1>1, <1>2, <2>2
  <2>4. ASSUME NEW j \in 1 .. begin - 1
        PROVE  q2[j] = list[j]
    <3>1. j \in 1 .. i - 1
      BY <1>a, <1>1, <1>3
    <3> QED
      BY <1>a, <1>2, <2>2, <3>1
  <2>5. ASSUME NEW j \in 1 .. Len(k)
        PROVE  q2[begin - 1 + j] = k[j]
    <3>1. begin - 1 + j \in 1 .. i - 1
      BY <1>a, <1>1, <1>3
    <3> QED
      BY <1>a, <1>2, <2>2, <3>1
  <2>6. ASSUME NEW j \in 1 .. Len(list) - (begin - 1) - (t + 1)
        PROVE  q2[begin - 1 + Len(k) + j] = list[begin - 1 + (t + 1) + j]
    <3>a. begin - 1 + Len(k) + j \in Int
      BY <1>a, <1>1
    <3>1. PICK m \in Int : m = begin - 1 + Len(k) + j
      BY <3>a
    <3>2. m \in i .. Len(q2)
      BY <1>a, <1>1, <1>3, <2>3, <3>1
    <3>3. j + 1 \in 1 .. Len(list) - (begin - 1) - t
      BY <1>a, <1>1
    <3>4. /\ begin - 1 + Len(k) + (j + 1) = m + 1
          /\ begin - 1 + t + (j + 1) = begin - 1 + (t + 1) + j
      BY <1>a, <1>1, <3>1
    <3>5. q[m + 1] = list[begin - 1 + (t + 1) + j]
      BY <1>a, <1>2, <3>3, <3>4
    <3> QED
      BY <2>2, <3>1, <3>2, <3>5
  <2> QED
    BY <2>1, <2>3, <2>4, <2>5, <2>6 DEF Closing
<1> QED
  BY <1>a, <1>4, <1>5, <1>8, <1>9

(* What is left at the end, as a concatenation. *)
LEMMA ClosingEnds ==
  ASSUME NEW T, NEW list \in Seq(T), NEW begin \in Nat, NEW end \in Nat, 1 <= begin,
         begin <= end, end <= Len(list) + 1, NEW q \in Seq(T), NEW k \in Seq(T),
         Closing(q, list, begin, end - begin, k)
  PROVE  q = SubSeq(list, 1, begin - 1) \o k \o SubSeq(list, end, Len(list))
<1>1. Len(list) \in Nat /\ Len(k) \in Nat /\ Len(q) \in Nat
  OBVIOUS
<1>2. /\ Len(q) = Len(list) - (end - begin) + Len(k)
      /\ \A j \in 1 .. begin - 1 : q[j] = list[j]
      /\ \A j \in 1 .. Len(k) : q[begin - 1 + j] = k[j]
      /\ \A j \in 1 .. Len(list) - (begin - 1) - (end - begin) :
           q[begin - 1 + Len(k) + j] = list[begin - 1 + (end - begin) + j]
  BY DEF Closing
<1>3. PICK a : a = SubSeq(list, 1, begin - 1)
  OBVIOUS
<1>4. a \in Seq(T) /\ Len(a) = begin - 1 /\ \A j \in 1 .. begin - 1 : a[j] = list[j]
  BY <1>1, <1>3
<1>5. PICK b : b = SubSeq(list, end, Len(list))
  OBVIOUS
<1>6. /\ b \in Seq(T) /\ Len(b) = Len(list) - end + 1
      /\ \A j \in 1 .. Len(list) - end + 1 : b[j] = list[end + j - 1]
  BY <1>1, <1>5
<1>7. PICK d : d = a \o k
  OBVIOUS
<1>8. /\ d \in Seq(T) /\ Len(d) = begin - 1 + Len(k)
      /\ \A j \in 1 .. begin - 1 : d[j] = a[j]
      /\ \A j \in begin .. begin - 1 + Len(k) : d[j] = k[j - (begin - 1)]
  <2>1. a \in Seq(T) /\ k \in Seq(T)
    BY <1>4
  <2>2. /\ d \in Seq(T) /\ Len(d) = Len(a) + Len(k)
        /\ \A j \in 1 .. Len(a) : d[j] = a[j]
        /\ \A j \in Len(a) + 1 .. Len(a) + Len(k) : d[j] = k[j - Len(a)]
    BY <1>7, <2>1, JoinIs
  <2> QED
    BY <1>1, <1>4, <2>2
<1>9. PICK r2 : r2 = d \o b
  OBVIOUS
<1>10. /\ r2 \in Seq(T) /\ Len(r2) = Len(d) + Len(b)
       /\ \A j \in 1 .. Len(d) : r2[j] = d[j]
       /\ \A j \in Len(d) + 1 .. Len(d) + Len(b) : r2[j] = b[j - Len(d)]
  <2>1. d \in Seq(T) /\ b \in Seq(T)
    BY <1>6, <1>8
  <2> QED
    BY <1>9, <2>1, JoinIs
<1>11. Len(r2) = Len(q)
  BY <1>1, <1>2, <1>6, <1>8, <1>10
<1>12. ASSUME NEW j \in 1 .. Len(q)
       PROVE  r2[j] = q[j]
  <2>1. CASE j <= begin - 1
    <3>1. j \in 1 .. begin - 1 /\ j \in 1 .. Len(d)
      BY <1>1, <1>8, <2>1
    <3> QED
      BY <1>2, <1>4, <1>8, <1>10, <3>1
  <2>2. CASE begin - 1 < j /\ j <= begin - 1 + Len(k)
    <3>1. j \in begin .. begin - 1 + Len(k) /\ j \in 1 .. Len(d)
      BY <1>1, <1>8, <2>2
    <3>2. j - (begin - 1) \in 1 .. Len(k) /\ begin - 1 + (j - (begin - 1)) = j
      BY <1>1, <2>2
    <3>3. q[j] = k[j - (begin - 1)]
      BY <1>2, <3>2
    <3> QED
      BY <1>8, <1>10, <3>1, <3>3
  <2>3. CASE begin - 1 + Len(k) < j
    <3>0. Len(d) \in Nat /\ j \in Nat
      BY <1>1, <1>8
    <3>a. j - Len(d) \in Int
      BY <3>0
    <3>1. PICK m \in Int : m = j - Len(d)
      BY <3>a
    <3>2. /\ j \in Len(d) + 1 .. Len(d) + Len(b)
          /\ m \in 1 .. Len(list) - (begin - 1) - (end - begin)
          /\ m \in 1 .. Len(list) - end + 1
      BY <1>1, <1>2, <1>6, <1>8, <2>3, <3>1
    <3>3. /\ begin - 1 + Len(k) + m = j
          /\ begin - 1 + (end - begin) + m = end + m - 1
      BY <1>1, <1>8, <3>1
    <3>4. q[j] = list[end + m - 1]
      BY <1>2, <3>2, <3>3
    <3>5. r2[j] = b[m] /\ b[m] = list[end + m - 1]
      BY <1>6, <1>10, <3>1, <3>2
    <3> QED
      BY <3>4, <3>5
  <2> QED
    BY <1>1, <2>1, <2>2, <2>3
<1>13. r2 = q
  <2>1. r2 \in Seq(T) /\ q \in Seq(T)
    BY <1>10
  <2> QED
    BY <1>11, <1>12, <2>1
<1> QED
  BY <1>3, <1>5, <1>7, <1>9, <1>13

-----------------------------------------------------------------------------
(* A range of tabs is closed: those of it that are pinned are kept.         *)
RangeKept(list, begin, end, S) ==
  SubSeq(list, 1, begin - 1) \o Kept(SubSeq(list, begin, end - 1), S)
    \o SubSeq(list, end, Len(list))

LEMMA TabsClosed ==
  ASSUME NEW x, TabsGood(x, {}), SessionSaved(x), NEW w \in Tabs!Windows,
         NEW begin \in Nat, NEW end \in Nat, 1 <= begin, begin <= end,
         NEW list, list = x.tabs[w], end <= Len(list) + 1,
         NEW S, S = {c \in Tabs!Crawlers : x.pinned[c]},
         NEW u, u = Tabs!closeTabs(x, w, begin, end)
  PROVE  /\ TabsGood(u, {}) /\ SessionSaved(u)
         /\ u.tabs[w] = RangeKept(list, begin, end, S)
<1> DEFINE l == end - begin
           After(y) == IF y.s.pinned[y.s.tabs[w][y.index]] THEN [y EXCEPT !.index = @ + 1]
                       ELSE [y EXCEPT !.s = Tabs!closeTab(y.s, w, y.index)]
           start == [s |-> x, index |-> begin]
           all == CHOOSE f : f = [t \in 0 .. l |-> IF t = 0 THEN start ELSE After(f[t - 1])]
           V == [s : TabStates, index : Nat]
           step == [p \in (1 .. l) \X V |-> After(p[2])]
<1>1. u = all[l].s
  BY DEF Tabs!closeTabs
<1>2. l \in Nat /\ list \in Seq(Tabs!Crawlers) /\ Len(list) \in Nat
  BY TabIn DEF TabsGood
<1>3. \A t \in 1 .. l, y \in V : step[<<t, y>>] = After(y)
  OBVIOUS
<1>4. PICK part : part = SubSeq(list, begin, end - 1)
  OBVIOUS
<1>5. /\ part \in Seq(Tabs!Crawlers) /\ Len(part) = l
      /\ \A n \in 1 .. l : part[n] = list[begin + n - 1]
  BY <1>2, <1>4
<1>6. PICK k : /\ KeptBy(k, part, S) /\ k[Len(part)] = Kept(part, S)
               /\ \A n \in 0 .. Len(part) : k[n] \in Seq(Tabs!Crawlers) /\ Len(k[n]) <= n
  BY <1>5, KeptSteps
<1>7. /\ k[0] = <<>> /\ k[l] = Kept(part, S)
      /\ \A n \in 1 .. l : k[n] = IF part[n] \in S THEN Append(k[n - 1], part[n]) ELSE k[n - 1]
      /\ \A n \in 0 .. l : k[n] \in Seq(Tabs!Crawlers) /\ Len(k[n]) <= n
  BY <1>5, <1>6 DEF KeptBy
<1> DEFINE Right(y, t) == /\ TabsGood(y.s, {}) /\ SessionSaved(y.s) /\ y.s.pinned = x.pinned
                          /\ Closing(y.s.tabs[w], list, begin, t, k[t])
                          /\ y.index = begin + Len(k[t])
           D == [t \in 0 .. l |-> {y \in V : Right(y, t)}]
<1>8. \A t \in 0 .. l : \A y : y \in D[t] <=> y \in V /\ Right(y, t)
  OBVIOUS
<1>9. start \in V /\ start.s = x /\ start.index = begin
  BY StateIn DEF TabsGood
<1>10. \A y \in V : y.s \in TabStates /\ y.index \in Nat
  OBVIOUS
<1> HIDE DEF step, l, D, V, start
<1>11. start \in D[0]
  <2>1. Closing(list, list, begin, 0, k[0])
    BY <1>2, <1>7 DEF Closing
  <2>2. 0 \in 0 .. l /\ begin = begin + Len(k[0])
    BY <1>2, <1>7
  <2> QED
    BY <1>8, <1>9, <2>1, <2>2
<1>12. ASSUME NEW t \in 1 .. l, NEW y \in D[t - 1]
       PROVE  y \in V /\ After(y) \in D[t]
  <2>1. t - 1 \in 0 .. l /\ t \in 0 .. l /\ t - 1 \in Nat /\ t - 1 + 1 = t
    BY <1>2
  <2>2. y \in V /\ Right(y, t - 1)
    BY <1>8, <2>1
  <2>3. PICK q : q = y.s.tabs[w] /\ q \in Seq(Tabs!Crawlers)
    BY <2>2, TabIn DEF TabsGood
  <2>4. PICK k1 \in Seq(Tabs!Crawlers) : k1 = k[t - 1] /\ Len(k1) <= t - 1
    BY <1>7, <2>1
  <2>5. PICK e : e = part[t]
    OBVIOUS
  <2>6. e \in Tabs!Crawlers /\ e = list[begin + (t - 1)]
    <3>1. begin + t - 1 = begin + (t - 1)
      BY <2>1
    <3> QED
      BY <1>5, <2>5, <3>1
  <2>7. PICK i : i = y.index
    OBVIOUS
  <2>8. i = begin + Len(k1)
    BY <2>2, <2>4, <2>7
  <2>9. /\ i \in 1 .. Len(q) /\ q[i] = e
        /\ Closing(q, list, begin, t, Append(k1, e))
        /\ Closing(Tabs!RemoveAt(q, i), list, begin, t, k1)
    <3>1. begin \in 1 .. Len(list) /\ begin + (t - 1) <= Len(list)
      BY <1>2, <2>1 DEF l
    <3>2. PICK n \in Nat : n = t - 1
      BY <2>1
    <3>3. e = list[begin + n]
      BY <2>6, <3>2
    <3>4. ClosingAt(Tabs!Crawlers, list, begin, n, q, k1, i, e)
      BY <1>2, <2>2, <2>3, <2>4, <2>8, <3>1, <3>2, <3>3 DEF ClosingAt
    <3>5. /\ i \in 1 .. Len(q) /\ q[i] = e
          /\ Closing(q, list, begin, n + 1, Append(k1, e))
          /\ Closing(Tabs!RemoveAt(q, i), list, begin, n + 1, k1)
      BY <3>4, ClosingNext
    <3> QED
      BY <2>1, <3>2, <3>5
  <2>10. y.s.pinned[y.s.tabs[w][y.index]] <=> e \in S
    BY <2>2, <2>3, <2>6, <2>7, <2>9
  <2>11. y = [s |-> y.s, index |-> y.index] /\ y.s \in TabStates /\ i \in Nat
    BY <2>2, <2>7 DEF V
  <2>12. CASE e \in S
    <3>1. After(y) = [s |-> y.s, index |-> i + 1]
      BY <2>7, <2>10, <2>11, <2>12
    <3>2. k[t] = Append(k1, e)
      BY <1>7, <2>4, <2>5, <2>12
    <3>3. Closing(q, list, begin, t, k[t])
      BY <2>9, <3>2
    <3>4. i + 1 = begin + Len(k[t])
      <4>1. Len(Append(k1, e)) = Len(k1) + 1 /\ Len(k1) \in Nat
        BY <2>4, <2>6
      <4> QED
        BY <2>8, <3>2, <4>1
    <3>5. PICK y2 : y2 = After(y)
      OBVIOUS
    <3>6. y2 \in V /\ y2.s = y.s /\ y2.index = i + 1
      BY <2>11, <3>1, <3>5 DEF V
    <3>7. Right(y2, t)
      BY <2>2, <2>3, <3>3, <3>4, <3>6
    <3> QED
      BY <1>8, <2>1, <2>2, <3>5, <3>6, <3>7
  <2>13. CASE e \notin S
    <3>1. PICK x2 : x2 = Tabs!closeTab(y.s, w, i)
      OBVIOUS
    <3>2. After(y) = [s |-> x2, index |-> i]
      BY <2>7, <2>10, <2>11, <2>13, <3>1
    <3>3. k[t] = k1
      BY <1>7, <2>4, <2>5, <2>13
    <3>4. /\ TabsGood(x2, {}) /\ SessionSaved(x2) /\ x2.pinned = y.s.pinned
          /\ x2.tabs = [y.s.tabs EXCEPT ![w] = Tabs!RemoveAt(@, i)]
      BY <2>2, <2>3, <2>9, <3>1, TabClosed DEF TabsGood
    <3>5. x2.tabs[w] = Tabs!RemoveAt(q, i)
      BY <2>2, <2>3, <3>4 DEF TabsGood, TabsTyped
    <3>6. Closing(x2.tabs[w], list, begin, t, k[t])
      BY <2>9, <3>3, <3>5
    <3>7. PICK y2 : y2 = After(y)
      OBVIOUS
    <3>8. y2 \in V /\ y2.s = x2 /\ y2.index = i
      <4>1. x2 \in TabStates
        BY <3>4, StateIn DEF TabsGood
      <4> QED
        BY <2>11, <3>2, <3>7, <4>1 DEF V
    <3>9. Right(y2, t)
      BY <2>2, <2>8, <3>3, <3>4, <3>6, <3>8
    <3> QED
      BY <1>8, <2>1, <2>2, <3>7, <3>8, <3>9
  <2> QED
    BY <2>12, <2>13
<1>13. PICK f : /\ f = [t \in 0 .. l |-> f[t]] /\ Follows(f, l, start, step)
                /\ \A t \in 0 .. l : f[t] \in D[t]
  <2>1. \A t \in 0 .. l : D[t] \subseteq V
    BY <1>8
  <2>2. ASSUME NEW t \in 1 .. l, NEW y \in D[t - 1]
        PROVE  step[<<t, y>>] \in D[t]
    <3>1. y \in V /\ After(y) \in D[t]
      BY <1>12
    <3> QED
      BY <1>3, <3>1
  <2> QED
    BY <1>2, <1>11, <2>1, <2>2, RecursionIn
<1>14. f = [t \in 0 .. l |-> IF t = 0 THEN start ELSE After(f[t - 1])]
  <2>1. ASSUME NEW t \in 0 .. l, t # 0
        PROVE  f[t] = After(f[t - 1])
    <3>1. t \in 1 .. l /\ t - 1 \in 0 .. l
      BY <1>2, <2>1
    <3>2. f[t - 1] \in V
      BY <1>12, <1>13, <3>1
    <3>3. f[t] = step[<<t, f[t - 1]>>]
      BY <1>13, <3>1 DEF Follows
    <3> QED
      BY <1>3, <3>1, <3>2, <3>3
  <2>2. \A t \in 0 .. l : f[t] = IF t = 0 THEN start ELSE After(f[t - 1])
    BY <1>13, <2>1 DEF Follows
  <2> QED
    BY <1>13, <2>2
<1>15. all = [t \in 0 .. l |-> IF t = 0 THEN start ELSE After(all[t - 1])]
  BY <1>14
<1> HIDE DEF all, After
<1>16. all[0] = start /\ \A t \in 1 .. l : all[t] = After(all[t - 1])
  <2>1. 0 \in 0 .. l /\ \A t \in 1 .. l : t \in 0 .. l /\ t # 0
    BY <1>2
  <2> QED
    BY <1>15, <2>1
<1>17. \A t \in 0 .. l : all[t] \in D[t]
  <2>1. \A t \in 1 .. l : all[t - 1] \in D[t - 1] => all[t] \in D[t]
    BY <1>12, <1>16
  <2> QED
    BY <1>2, <1>11, <1>16, <2>1, StaysIn
<1>18. Right(all[l], l)
  BY <1>2, <1>8, <1>17
<1>19. PICK q : q = u.tabs[w]
  OBVIOUS
<1>20. TabsGood(u, {}) /\ SessionSaved(u) /\ Closing(q, list, begin, end - begin, k[l])
  BY <1>1, <1>18, <1>19 DEF l
<1>21. q = SubSeq(list, 1, begin - 1) \o k[l] \o SubSeq(list, end, Len(list))
  <2>1. q \in Seq(Tabs!Crawlers)
    BY <1>19, <1>20, TabIn DEF TabsGood
  <2>2. k[l] \in Seq(Tabs!Crawlers)
    BY <1>2, <1>7
  <2> QED
    BY <1>2, <1>20, <2>1, <2>2, ClosingEnds
<1> QED
  BY <1>4, <1>7, <1>19, <1>20, <1>21 DEF RangeKept

-----------------------------------------------------------------------------
(* Tabs that are there go on being so. *)
LEMMA SavedSame ==
  ASSUME NEW x, SessionSaved(x), NEW u, u.tabs = x.tabs, u.file = x.file,
         u.saved = x.saved, u.savedBy = x.savedBy
  PROVE  SessionSaved(u)
BY DEF SessionSaved

(* A window goes on showing the same tab, of which no more is excused.      *)
SameTab(x, u, z, d) ==
  /\ d = CrawlerOf(x, z) /\ d = CrawlerOf(u, z)
  /\ u.title[z] = x.title[z] /\ u.followAction[z] = x.followAction[z]
  /\ u.info[z] = x.info[z]
  /\ d # 0 => u.file[d] = x.file[d] /\ u.follow[d] = x.follow[d]
  /\ d # 0 /\ x.loading[d] => u.loading[d]
  /\ d # 0 /\ d \in x.dropped => d \in u.dropped

(* Such a window still shows what it should. *)
LEMMA ShowsAs ==
  ASSUME NEW x, NEW u, NEW z, NEW d, ShowsTab(x, z), SameTab(x, u, z, d)
  PROVE  ShowsTab(u, z)
BY DEF ShowsTab, SameTab

(* What a window shows is a tab of it, open and listened to. *)
LEMMA ShownIsTab ==
  ASSUME NEW x, TabsTyped(x), NEW X, Placed(x, X), NEW z \in Tabs!Windows,
         NEW d, d = CrawlerOf(x, z), d # 0
  PROVE  /\ d \in Tabs!Crawlers /\ x.current[z] \in 1 .. Len(x.tabs[z])
         /\ d = x.tabs[z][x.current[z]]
         /\ x.file[d] # Tabs!NoFile /\ z \in x.listeners[d]
<1>1. x.current[z] \in 0 .. Len(x.tabs[z]) /\ Len(x.tabs[z]) \in Nat
  BY TabIn DEF Placed
<1>2. x.current[z] # 0 /\ d = x.tabs[z][x.current[z]]
  BY DEF CrawlerOf
<1>3. x.current[z] \in 1 .. Len(x.tabs[z])
  BY <1>1, <1>2
<1>4. d \in Tabs!Crawlers
  BY <1>2, <1>3, TabIn
<1>5. x.file[d] # Tabs!NoFile /\ z \in x.listeners[d]
  BY <1>2, <1>3 DEF Placed
<1> QED
  BY <1>2, <1>3, <1>4, <1>5

(* A crawler has one tab, in one window. *)
LEMMA OneTab ==
  ASSUME NEW x, NEW X, Placed(x, X), NEW a \in Tabs!Windows, NEW e \in Tabs!Windows,
         NEW i \in 1 .. Len(x.tabs[a]), NEW j \in 1 .. Len(x.tabs[e]),
         x.tabs[a][i] = x.tabs[e][j]
  PROVE  a = e /\ i = j
BY DEF Placed

LEMMA OneWindow ==
  ASSUME NEW x, TabsTyped(x), NEW X, Placed(x, X), NEW a \in Tabs!Windows,
         NEW e \in Tabs!Windows, NEW d, d # 0, d = CrawlerOf(x, a), d = CrawlerOf(x, e)
  PROVE  a = e
<1>a. x.current[a] \in 1 .. Len(x.tabs[a]) /\ d = x.tabs[a][x.current[a]]
  BY ShownIsTab
<1>b. x.current[e] \in 1 .. Len(x.tabs[e]) /\ d = x.tabs[e][x.current[e]]
  BY ShownIsTab
<1>1. PICK i \in 1 .. Len(x.tabs[a]) : d = x.tabs[a][i]
  BY <1>a
<1>2. PICK j \in 1 .. Len(x.tabs[e]) : d = x.tabs[e][j]
  BY <1>b
<1> QED
  BY <1>1, <1>2, OneTab

(* Choosing a tab keeps the invariant, for any files without one. *)
LEMMA TabSelected ==
  ASSUME NEW x, NEW X, TabsGood(x, X), NEW w \in Tabs!Windows, NEW i,
         NEW u, u = Tabs!setCurrentIndex(x, w, i)
  PROVE  TabsGood(u, X) /\ Differs(x, u, {"current", "title", "info", "followAction"})
<1>1. /\ TabsTyped(x) /\ Placed(x, X) /\ IconsRight(x, X) /\ IndexingOpen(x)
      /\ \A z \in Tabs!Windows : ShowsTab(x, z)
  BY DEF TabsGood
<1>2. x.current[w] \in 0 .. Len(x.tabs[w]) /\ Len(x.tabs[w]) \in Nat
  BY <1>1, TabIn DEF Placed
<1>3. i \in 1 .. Len(x.tabs[w]) => w \in x.listeners[x.tabs[w][i]]
  BY <1>1 DEF Placed
<1>4. /\ TabsTyped(u) /\ Differs(x, u, {"current", "title", "info", "followAction"})
      /\ u.current = [x.current EXCEPT ![w] = IF i \in 1 .. Len(x.tabs[w]) THEN i ELSE @]
      /\ \A z \in Tabs!Windows : ShowsTab(x, z) => ShowsTab(u, z)
  BY <1>1, <1>2, <1>3, CurrentSet
<1>5. /\ u.tabs = x.tabs /\ u.file = x.file /\ u.listeners = x.listeners
      /\ u.moved = x.moved /\ u.handler = x.handler /\ u.dropped = x.dropped
      /\ u.icon = x.icon /\ u.status = x.status /\ u.indexing = x.indexing
  BY <1>4 DEF Differs, TabFields
<1>6. ASSUME NEW z \in Tabs!Windows
      PROVE  u.current[z] \in 0 .. Len(u.tabs[z]) /\ (u.current[z] = 0 <=> Len(u.tabs[z]) = 0)
  <2>1. x.current[z] \in 0 .. Len(x.tabs[z]) /\ (x.current[z] = 0 <=> Len(x.tabs[z]) = 0)
    BY <1>1 DEF Placed
  <2>2. CASE z = w /\ i \in 1 .. Len(x.tabs[w])
    <3>1. u.current[z] = i
      BY <1>1, <1>4, <2>2 DEF TabsTyped
    <3> QED
      BY <1>2, <1>5, <2>2, <3>1
  <2>3. CASE ~(z = w /\ i \in 1 .. Len(x.tabs[w]))
    <3>0. x.current \in [Tabs!Windows -> Nat]
      BY <1>1 DEF TabsTyped
    <3>1. u.current[z] = x.current[z]
      BY <1>4, <2>3, <3>0
    <3> QED
      BY <1>5, <2>1, <3>1
  <2> QED
    BY <2>2, <2>3
<1>7. Placed(u, X)
  BY <1>1, <1>5, <1>6 DEF Placed
<1>8. IconsRight(u, X)
  BY <1>1, <1>5, IconsSame
<1>9. IndexingOpen(u)
  BY <1>1, <1>5 DEF IndexingOpen
<1> QED
  BY <1>1, <1>4, <1>7, <1>8, <1>9 DEF TabsGood

(* A crawler is given a file, which no tab shows yet. *)
GivenFile(x, u, c, name, Y) ==
  /\ TabsGood(u, Y)
  /\ Differs(x, u, {"file", "follow", "loading", "indexing", "firstLoadDone", "status",
                    "searching", "listeners", "dropped"})
  /\ u.file = [x.file EXCEPT ![c] = name] /\ u.loading[c] /\ u.status[c] = "old"
  /\ \A d \in Tabs!Crawlers : d # c => u.loading[d] = x.loading[d] /\ u.status[d] = x.status[d]

(* openAlways() adds its crawler to the files without a tab. *)
LEMMA FileOpened ==
  ASSUME NEW x, NEW X, TabsGood(x, X), NEW c \in Tabs!Crawlers, x.file[c] = Tabs!NoFile,
         NEW name \in Files, NEW b \in BOOLEAN, NEW u, u = Tabs!openAlways(x, c, name, b),
         NEW Y, Y = X \cup {c}
  PROVE  GivenFile(x, u, c, name, Y)
<1>1. /\ TabsTyped(x) /\ Placed(x, X) /\ IconsRight(x, X) /\ IndexingOpen(x)
      /\ \A z \in Tabs!Windows : ShowsTab(x, z)
  BY DEF TabsGood
<1>2. name # Tabs!NoFile /\ name \in Named /\ "old" \in Statuses
  BY WindowsAssumption DEF Tabs!NoFile, Named, Statuses
<1>3. /\ Differs(x, u, {"file", "follow", "loading", "indexing", "firstLoadDone", "status",
                        "searching", "listeners", "dropped"})
      /\ u.file = [x.file EXCEPT ![c] = name] /\ u.follow = [x.follow EXCEPT ![c] = b]
      /\ u.loading = [x.loading EXCEPT ![c] = TRUE]
      /\ u.indexing = [x.indexing EXCEPT ![c] = TRUE]
      /\ u.firstLoadDone = [x.firstLoadDone EXCEPT ![c] = FALSE]
      /\ u.status = [x.status EXCEPT ![c] = "old"]
      /\ u.searching = [x.searching EXCEPT ![c] = FALSE]
      /\ u.listeners = [x.listeners EXCEPT ![c] = {}]
      /\ u.dropped = x.dropped \ {c}
  BY <1>1 DEF Tabs!openAlways, TabsTyped, Differs, TabFields
<1>4. /\ u.tabs = x.tabs /\ u.current = x.current /\ u.title = x.title /\ u.info = x.info
      /\ u.followAction = x.followAction /\ u.moved = x.moved /\ u.handler = x.handler
      /\ u.icon = x.icon
  BY <1>3 DEF Differs, TabFields
<1>a. /\ x.file \in [Tabs!Crawlers -> Named] /\ x.follow \in [Tabs!Crawlers -> BOOLEAN]
      /\ x.loading \in [Tabs!Crawlers -> BOOLEAN]
      /\ x.indexing \in [Tabs!Crawlers -> BOOLEAN]
      /\ x.firstLoadDone \in [Tabs!Crawlers -> BOOLEAN]
      /\ x.searching \in [Tabs!Crawlers -> BOOLEAN]
      /\ x.status \in [Tabs!Crawlers -> Statuses]
      /\ x.listeners \in [Tabs!Crawlers -> SUBSET Tabs!Windows]
      /\ x.dropped \in SUBSET Tabs!Crawlers
  BY <1>1 DEF TabsTyped
<1>5. /\ u.file \in [Tabs!Crawlers -> Named] /\ u.file[c] = name
      /\ \A d \in Tabs!Crawlers : d # c => u.file[d] = x.file[d]
  BY <1>2, <1>3, <1>a
<1>6. /\ u.follow \in [Tabs!Crawlers -> BOOLEAN]
      /\ \A d \in Tabs!Crawlers : d # c => u.follow[d] = x.follow[d]
  BY <1>3, <1>a
<1>7. /\ u.loading \in [Tabs!Crawlers -> BOOLEAN] /\ u.loading[c]
      /\ \A d \in Tabs!Crawlers : d # c => u.loading[d] = x.loading[d]
  BY <1>3, <1>a
<1>8. /\ u.indexing \in [Tabs!Crawlers -> BOOLEAN]
      /\ \A d \in Tabs!Crawlers : d # c => u.indexing[d] = x.indexing[d]
  BY <1>3, <1>a
<1>9. /\ u.status \in [Tabs!Crawlers -> Statuses] /\ u.status[c] = "old"
      /\ \A d \in Tabs!Crawlers : d # c => u.status[d] = x.status[d]
  BY <1>2, <1>3, <1>a
<1>10. /\ u.listeners \in [Tabs!Crawlers -> SUBSET Tabs!Windows]
       /\ \A d \in Tabs!Crawlers : d # c => u.listeners[d] = x.listeners[d]
  BY <1>3, <1>a
<1>11. /\ u.firstLoadDone \in [Tabs!Crawlers -> BOOLEAN]
       /\ u.searching \in [Tabs!Crawlers -> BOOLEAN]
       /\ u.dropped \in SUBSET Tabs!Crawlers
  BY <1>3, <1>a
<1>12. TabsTyped(u)
  BY <1>1, <1>3, <1>5, <1>6, <1>7, <1>8, <1>9, <1>10, <1>11, StaysTyped
<1>13. \A z \in Tabs!Windows : \A j \in 1 .. Len(x.tabs[z]) :
         x.tabs[z][j] # c /\ x.tabs[z][j] \in Tabs!Crawlers
  <2>1. ASSUME NEW z \in Tabs!Windows, NEW j \in 1 .. Len(x.tabs[z])
        PROVE  x.tabs[z][j] # c /\ x.tabs[z][j] \in Tabs!Crawlers
    BY <1>1, TabIn DEF Placed
  <2> QED
    BY <2>1
<1>14. Placed(u, X \cup {c})
  <2>1. ASSUME NEW z \in Tabs!Windows, NEW j \in 1 .. Len(u.tabs[z])
        PROVE  /\ u.file[u.tabs[z][j]] # Tabs!NoFile
               /\ z \in u.listeners[u.tabs[z][j]] /\ u.tabs[z][j] \notin X \cup {c}
    BY <1>1, <1>4, <1>5, <1>10, <1>13 DEF Placed
  <2>2. ASSUME NEW d \in Tabs!Crawlers, u.file[d] # Tabs!NoFile
        PROVE  \/ d \in X \cup {c}
               \/ \E z \in Tabs!Windows : \E j \in 1 .. Len(u.tabs[z]) : u.tabs[z][j] = d
    BY <1>1, <1>4, <1>5, <2>2 DEF Placed
  <2>3. /\ \A z \in Tabs!Windows : /\ u.current[z] \in 0 .. Len(u.tabs[z])
                                   /\ u.current[z] = 0 <=> Len(u.tabs[z]) = 0
        /\ \A a, e \in Tabs!Windows :
             \A i \in 1 .. Len(u.tabs[a]), j \in 1 .. Len(u.tabs[e]) :
               u.tabs[a][i] = u.tabs[e][j] => a = e /\ i = j
    BY <1>1, <1>4 DEF Placed
  <2> QED
    BY <2>1, <2>2, <2>3 DEF Placed
<1>15. IconsRight(u, X \cup {c})
  BY <1>1, <1>3, <1>4, <1>5, <1>9 DEF IconsRight, KnowsTab
<1>16. ASSUME NEW z \in Tabs!Windows
       PROVE  ShowsTab(u, z)
  <2>1. PICK d : d = CrawlerOf(x, z) /\ d = CrawlerOf(u, z)
    BY <1>4 DEF CrawlerOf
  <2>2. d = 0 \/ (d \in Tabs!Crawlers /\ d # c)
    BY <1>1, <2>1, ShownIsTab
  <2>3. ShowsTab(x, z)
    BY <1>1
  <2> QED
    <3>1. /\ u.title[z] = x.title[z] /\ u.followAction[z] = x.followAction[z]
          /\ u.info[z] = x.info[z]
      BY <1>4
    <3>2. /\ d # 0 => u.file[d] = x.file[d] /\ u.follow[d] = x.follow[d]
          /\ d # 0 /\ x.loading[d] => u.loading[d]
      BY <1>5, <1>6, <1>7, <2>2
    <3>3. d # 0 /\ d \in x.dropped => d \in u.dropped
      BY <1>3, <2>2
    <3>4. SameTab(x, u, z, d)
      BY <2>1, <3>1, <3>2, <3>3 DEF SameTab
    <3> QED
      BY <2>3, <3>4, ShowsAs
<1>17. IndexingOpen(u)
  BY <1>1, <1>2, <1>5, <1>8 DEF IndexingOpen
<1> QED
  BY <1>3, <1>7, <1>9, <1>12, <1>14, <1>15, <1>16, <1>17 DEF TabsGood, GivenFile

(* The least of a set is in it. *)
LEMMA LeastIn ==
  ASSUME NEW S, S \subseteq Nat, S # {}
  PROVE  Tabs!Min(S) \in S
<1> DEFINE R == OpToRel(<, Nat)
<1>1. \A m, n \in Nat : <<n, m>> \in R <=> n < m
  BY DEF OpToRel
<1>2. IsWellFoundedOn(R, Nat)
  BY NatLessThanWellFounded
<1> HIDE DEF R
<1>3. PICK m \in S : \A n \in S : ~(<<n, m>> \in R)
  BY <1>2, WFMin, Zenon
<1>4. ASSUME NEW n \in S PROVE m <= n
  <2>1. ~(n < m)
    BY <1>1, <1>3
  <2> QED
    BY <2>1
<1> QED
  BY <1>4 DEF Tabs!Min

(* A file is shown again or opened in a new tab. *)
LEMMA FileLoaded ==
  ASSUME NEW x, TabsGood(x, {}), SessionSaved(x), NEW w \in Tabs!Windows,
         NEW name \in Files, NEW i \in 1 .. Len(x.tabs[w]) + 1, NEW dup,
         NEW u, u \in Tabs!loadFile(x, w, name, i, dup)
  PROVE  TabsGood(u, {}) /\ SessionSaved(u)
<1> DEFINE free == Tabs!Crawlers \ Tabs!openFiles(x)
           existing == {c \in Tabs!Crawlers : x.file[c] = name}
           opened(c) == Tabs!saveSession(Tabs!setCurrentIndex(
                          Tabs!insertTab(Tabs!openAlways(x, c, name, FALSE), w, i, c, FALSE),
                          w, i), w)
<1>1. CASE existing # {} /\ ~dup
  <2>1. \/ u = x
        \/ \E j : u = Tabs!setCurrentIndex(x, w, j)
    BY <1>1 DEF Tabs!loadFile
  <2>2. ASSUME NEW j, u = Tabs!setCurrentIndex(x, w, j)
        PROVE  TabsGood(u, {}) /\ SessionSaved(u)
    <3>1. TabsGood(u, {}) /\ Differs(x, u, {"current", "title", "info", "followAction"})
      BY <2>2, TabSelected
    <3>2. u.tabs = x.tabs /\ u.file = x.file /\ u.saved = x.saved /\ u.savedBy = x.savedBy
      BY <3>1 DEF Differs, TabFields
    <3> QED
      BY <3>1, <3>2, SavedSame
  <2> QED
    BY <2>1, <2>2
<1>2. CASE ~(existing # {} /\ ~dup)
  <2>1. free # {} /\ u = opened(Tabs!Min(free))
    BY <1>2 DEF Tabs!loadFile
  <2>2. PICK c : c = Tabs!Min(free)
    OBVIOUS
  <2>3. c \in Tabs!Crawlers /\ x.file[c] = Tabs!NoFile
    <3>1. free \subseteq Nat
      BY DEF Tabs!Crawlers
    <3>2. c \in free
      BY <2>1, <2>2, <3>1, LeastIn
    <3> QED
      BY <3>2 DEF Tabs!openFiles
  <2>4. PICK y : y = Tabs!openAlways(x, c, name, FALSE)
    OBVIOUS
  <2>5. /\ TabsGood(y, {} \cup {c})
        /\ Differs(x, y, {"file", "follow", "loading", "indexing", "firstLoadDone", "status",
                          "searching", "listeners", "dropped"})
        /\ y.file = [x.file EXCEPT ![c] = name] /\ y.loading[c] /\ y.status[c] = "old"
    <3>1. PICK b \in BOOLEAN : b = FALSE /\ y = Tabs!openAlways(x, c, name, b)
      BY <2>4
    <3>2. PICK Y : Y = {} \cup {c}
      OBVIOUS
    <3>3. GivenFile(x, y, c, name, Y)
      BY <2>3, <3>1, <3>2, FileOpened
    <3> QED
      BY <3>2, <3>3 DEF GivenFile
  <2>6. y.tabs = x.tabs
    BY <2>5 DEF Differs, TabFields
  <2>7. y.file[c] # Tabs!NoFile
    <3>1. x.file \in [Tabs!Crawlers -> Named]
      BY DEF TabsGood, TabsTyped
    <3>2. y.file[c] = name
      BY <2>3, <2>5, <3>1
    <3> QED
      BY <3>2, WindowsAssumption DEF Tabs!NoFile
  <2>8. PICK y2 : y2 = Tabs!insertTab(y, w, i, c, FALSE)
    OBVIOUS
  <2>9. TabsGood(y2, {})
    <3>1. i \in 1 .. Len(y.tabs[w]) + 1 /\ c \notin {} /\ FALSE \in BOOLEAN
      BY <2>6
    <3>2. y.loading[c] \/ c \in y.dropped
      BY <2>5
    <3>3. y.status[c] = "old" \/ c \in y.dropped
      BY <2>5
    <3> QED
      BY <2>3, <2>5, <2>7, <2>8, <3>1, <3>2, <3>3, TabInserted
  <2>10. PICK y3 : y3 = Tabs!setCurrentIndex(y2, w, i)
    OBVIOUS
  <2>11. TabsGood(y3, {})
    BY <2>9, <2>10, TabSelected
  <2>12. u = Tabs!saveSession(y3, w)
    BY <2>1, <2>2, <2>4, <2>8, <2>10
  <2> QED
    BY <2>11, <2>12, TabsSaved
<1> QED
  BY <1>1, <1>2

-----------------------------------------------------------------------------
(* Fields that the invariant says nothing of. *)
LEMMA GoodSame ==
  ASSUME NEW x, NEW X, TabsGood(x, X), NEW u, TabsTyped(u),
         NEW F, F \subseteq {"windows", "pinned", "firstLoadDone", "searching", "drag"},
         Differs(x, u, F)
  PROVE  TabsGood(u, X) /\ (SessionSaved(x) => SessionSaved(u))
<1>1. /\ TabsTyped(x) /\ Placed(x, X) /\ IconsRight(x, X) /\ IndexingOpen(x)
      /\ \A z \in Tabs!Windows : ShowsTab(x, z)
  BY DEF TabsGood
<1>2. /\ u.tabs = x.tabs /\ u.current = x.current /\ u.file = x.file
      /\ u.listeners = x.listeners /\ u.moved = x.moved /\ u.handler = x.handler
      /\ u.dropped = x.dropped /\ u.icon = x.icon /\ u.status = x.status
  BY DEF Differs, TabFields
<1>3. /\ u.title = x.title /\ u.followAction = x.followAction /\ u.info = x.info
      /\ u.follow = x.follow /\ u.loading = x.loading /\ u.indexing = x.indexing
      /\ u.saved = x.saved /\ u.savedBy = x.savedBy
  BY DEF Differs, TabFields
<1>4. Placed(u, X)
  BY <1>1, <1>2, PlacedSame
<1>5. IconsRight(u, X)
  BY <1>1, <1>2, IconsSame
<1>6. IndexingOpen(u)
  BY <1>1, <1>2, <1>3 DEF IndexingOpen
<1>7. ASSUME NEW z \in Tabs!Windows
      PROVE  ShowsTab(u, z)
  <2>1. CrawlerOf(u, z) = CrawlerOf(x, z)
    BY <1>2 DEF CrawlerOf
  <2>2. ShowsTab(x, z)
    BY <1>1
  <2> QED
    BY <1>2, <1>3, <2>1, <2>2 DEF ShowsTab
<1>8. SessionSaved(x) => SessionSaved(u)
  BY <1>2, <1>3, SavedSame
<1> QED
  BY <1>4, <1>5, <1>6, <1>7, <1>8 DEF TabsGood

(* The follow mode goes from the menus to the crawlers that are shown. *)
LEMMA FollowChanged ==
  ASSUME NEW x, TabsGood(x, {}), SessionSaved(x), NEW W, W \subseteq Tabs!Windows,
         NEW b \in BOOLEAN, NEW u, u = Tabs!changeFollowMode(x, W, b)
  PROVE  TabsGood(u, {}) /\ SessionSaved(u)
<1>1. /\ TabsTyped(x) /\ Placed(x, {}) /\ IconsRight(x, {}) /\ IndexingOpen(x)
      /\ \A z \in Tabs!Windows : ShowsTab(x, z)
  BY DEF TabsGood
<1>2. PICK changed : changed = {w \in W : x.followAction[w] # b}
  OBVIOUS
<1>3. PICK told : told = {CrawlerOf(x, w) : w \in changed}
  OBVIOUS
<1>4. told = {Tabs!currentCrawlerWidget(x, w) : w \in changed}
  BY <1>3, CrawlerIs
<1>5. PICK acts : acts = [w \in Tabs!Windows |-> IF w \in changed THEN b ELSE x.followAction[w]]
  OBVIOUS
<1>6. PICK follow :
        follow = [c \in Tabs!Crawlers |-> IF c \in told THEN b ELSE x.follow[c]]
  OBVIOUS
<1>7. u = [x EXCEPT !.followAction = acts, !.follow = follow]
  BY <1>2, <1>4, <1>5, <1>6 DEF Tabs!changeFollowMode
<1>8. /\ Differs(x, u, {"followAction", "follow"})
      /\ u.followAction = acts /\ u.follow = follow
  BY <1>1, <1>7 DEF TabsTyped, Differs, TabFields
<1>9. /\ acts \in [Tabs!Windows -> BOOLEAN] /\ follow \in [Tabs!Crawlers -> BOOLEAN]
  <2>1. /\ x.followAction \in [Tabs!Windows -> BOOLEAN]
        /\ x.follow \in [Tabs!Crawlers -> BOOLEAN]
    BY <1>1 DEF TabsTyped
  <2> QED
    BY <1>5, <1>6, <2>1
<1>10. TabsTyped(u)
  BY <1>1, <1>8, <1>9, StaysTyped
<1>11. /\ u.tabs = x.tabs /\ u.current = x.current /\ u.file = x.file
       /\ u.listeners = x.listeners /\ u.moved = x.moved /\ u.handler = x.handler
       /\ u.dropped = x.dropped /\ u.icon = x.icon /\ u.status = x.status
  BY <1>8 DEF Differs, TabFields
<1>12. /\ u.title = x.title /\ u.info = x.info
       /\ u.loading = x.loading /\ u.indexing = x.indexing
       /\ u.saved = x.saved /\ u.savedBy = x.savedBy
  BY <1>8 DEF Differs, TabFields
<1>13. ASSUME NEW z \in Tabs!Windows
       PROVE  ShowsTab(u, z)
  <2>1. PICK d : d = CrawlerOf(x, z) /\ d = CrawlerOf(u, z)
    BY <1>11 DEF CrawlerOf
  <2>2. ShowsTab(x, z)
    BY <1>1
  <2>3. CASE d = 0
    BY <1>12, <2>1, <2>2, <2>3 DEF ShowsTab
  <2>4. CASE d # 0
    <3>1. /\ d \in Tabs!Crawlers /\ x.current[z] \in 1 .. Len(x.tabs[z])
          /\ d = x.tabs[z][x.current[z]]
      BY <1>1, <2>1, <2>4, ShownIsTab
    <3>2. z \in changed <=> d \in told
      <4>1. z \in changed => d \in told
        BY <1>3, <2>1
      <4>2. ASSUME d \in told
            PROVE  z \in changed
        <5>1. PICK w \in changed : d = CrawlerOf(x, w)
          BY <1>3, <4>2
        <5>2. w \in Tabs!Windows
          BY <1>2
        <5>3. w = z
          BY <1>1, <2>1, <2>4, <5>1, <5>2, OneWindow
        <5> QED
          BY <5>3
      <4> QED
        BY <4>1, <4>2
    <3>3. /\ u.followAction[z] = IF z \in changed THEN b ELSE x.followAction[z]
          /\ u.follow[d] = IF d \in told THEN b ELSE x.follow[d]
      BY <1>5, <1>6, <1>8, <3>1
    <3>4. /\ x.title[z] = x.file[d] /\ x.followAction[z] = x.follow[d]
          /\ x.loading[d] \/ d \in x.dropped \/ x.info[z] = x.file[d]
      BY <2>1, <2>2, <2>4 DEF ShowsTab
    <3>5. u.followAction[z] = u.follow[d]
      BY <3>2, <3>3, <3>4
    <3>6. /\ u.title[z] = u.file[d]
          /\ u.loading[d] \/ d \in u.dropped \/ u.info[z] = u.file[d]
      BY <1>11, <1>12, <3>4
    <3> QED
      BY <2>1, <2>4, <3>5, <3>6 DEF ShowsTab
  <2> QED
    BY <2>3, <2>4
<1>14. Placed(u, {}) /\ IconsRight(u, {})
  BY <1>1, <1>11, PlacedSame, IconsSame
<1>15. IndexingOpen(u)
  BY <1>1, <1>11, <1>12 DEF IndexingOpen
<1>16. SessionSaved(u)
  BY <1>11, <1>12, SavedSame
<1> QED
  BY <1>10, <1>13, <1>14, <1>15, <1>16 DEF TabsGood

(* The data status of a crawler goes to the tab its handler knows. *)
LEMMA StatusChanged ==
  ASSUME NEW x, TabsGood(x, {}), SessionSaved(x), NEW c \in Tabs!Crawlers,
         x.file[c] # Tabs!NoFile, NEW status \in Statuses,
         NEW u, u = Tabs!changeDataStatus(x, c, status)
  PROVE  TabsGood(u, {}) /\ SessionSaved(u)
<1>1. /\ TabsTyped(x) /\ Placed(x, {}) /\ IconsRight(x, {}) /\ IndexingOpen(x)
      /\ \A z \in Tabs!Windows : ShowsTab(x, z)
  BY DEF TabsGood
<1>2. CASE status = x.status[c] \/ <<x.status[c], status>> = <<"filtered", "new">>
  BY <1>2 DEF Tabs!changeDataStatus
<1>3. CASE ~(status = x.status[c] \/ <<x.status[c], status>> = <<"filtered", "new">>)
  <2>1. PICK y : y = [x EXCEPT !.status[c] = status]
    OBVIOUS
  <2>2. u = Tabs!setTabDataStatus(y, x.handler[c], status)
    BY <1>3, <2>1 DEF Tabs!changeDataStatus
  <2>3. PICK w, i : x.handler[c] = <<w, i>> /\ w \in Tabs!Windows /\ i \in Nat
    <3>1. x.handler[c] \in Tabs!Windows \X Nat
      BY <1>1 DEF TabsTyped
    <3> QED
      BY <3>1
  <2>4. PICK list : list = x.tabs[w]
    OBVIOUS
  <2>5. list \in Seq(Tabs!Crawlers)
    BY <1>1, <2>3, <2>4, TabIn
  <2>6. Differs(x, y, {"status"}) /\ y.status = [x.status EXCEPT ![c] = status]
    BY <1>1, <2>1 DEF TabsTyped, Differs, TabFields
  <2>7. y.tabs = x.tabs /\ y.icon = x.icon
    BY <2>6 DEF Differs, TabFields
  <2>8. u = IF i \in 1 .. Len(list) THEN [y EXCEPT !.icon[list[i]] = status] ELSE y
    BY <2>2, <2>3, <2>4, <2>7 DEF Tabs!setTabDataStatus
  <2>9. PICK icon : icon = IF i \in 1 .. Len(list) THEN [x.icon EXCEPT ![list[i]] = status]
                           ELSE x.icon
    OBVIOUS
  <2>10. /\ Differs(x, u, {"status", "icon"}) /\ u.icon = icon
         /\ u.status = [x.status EXCEPT ![c] = status]
    <3>1. CASE i \in 1 .. Len(list)
      BY <2>6, <2>7, <2>8, <2>9, <3>1 DEF Differs, TabFields
    <3>2. CASE i \notin 1 .. Len(list)
      BY <2>6, <2>7, <2>8, <2>9, <3>2 DEF Differs, TabFields
    <3> QED
      BY <3>1, <3>2
  <2>11. x.status \in [Tabs!Crawlers -> Statuses] /\ x.icon \in [Tabs!Crawlers -> Statuses]
    BY <1>1 DEF TabsTyped
  <2>12. /\ u.status \in [Tabs!Crawlers -> Statuses] /\ u.status[c] = status
         /\ \A d \in Tabs!Crawlers : d # c => u.status[d] = x.status[d]
    BY <2>10, <2>11
  <2>13. i \in 1 .. Len(list) => list[i] \in Tabs!Crawlers
    BY <2>5
  <2>14. icon \in [Tabs!Crawlers -> Statuses]
    BY <2>9, <2>11, <2>13
  <2>15. TabsTyped(u)
    BY <1>1, <2>10, <2>12, <2>14, StaysTyped
  <2>16. /\ u.tabs = x.tabs /\ u.current = x.current /\ u.file = x.file
         /\ u.listeners = x.listeners /\ u.moved = x.moved /\ u.handler = x.handler
         /\ u.dropped = x.dropped
    BY <2>10 DEF Differs, TabFields
  <2>17. /\ u.title = x.title /\ u.followAction = x.followAction /\ u.info = x.info
         /\ u.follow = x.follow /\ u.loading = x.loading /\ u.indexing = x.indexing
         /\ u.saved = x.saved /\ u.savedBy = x.savedBy
    BY <2>10 DEF Differs, TabFields
  <2>18. ASSUME ~u.moved, NEW d \in Tabs!Crawlers, u.file[d] # Tabs!NoFile
         PROVE  KnowsTab(u, d) /\ (d \notin u.dropped => u.icon[d] = u.status[d])
    <3>1. KnowsTab(x, d) /\ KnowsTab(x, c) /\ (d \notin x.dropped => x.icon[d] = x.status[d])
      BY <1>1, <2>16, <2>18 DEF IconsRight
    <3>2. i \in 1 .. Len(list) /\ list[i] = c
      BY <2>3, <2>4, <3>1 DEF KnowsTab
    <3>3. icon = [x.icon EXCEPT ![c] = status]
      BY <2>9, <3>2
    <3>4. icon[c] = status /\ (d # c => icon[d] = x.icon[d])
      BY <2>11, <3>3
    <3>5. d \notin u.dropped => u.icon[d] = u.status[d]
      BY <2>10, <2>12, <2>16, <3>1, <3>4
    <3>6. KnowsTab(u, d)
      BY <2>16, <3>1 DEF KnowsTab
    <3> QED
      BY <3>5, <3>6
  <2>19. IconsRight(u, {})
    BY <2>18 DEF IconsRight
  <2>20. ASSUME NEW z \in Tabs!Windows
         PROVE  ShowsTab(u, z)
    <3>1. CrawlerOf(u, z) = CrawlerOf(x, z)
      BY <2>16 DEF CrawlerOf
    <3>2. ShowsTab(x, z)
      BY <1>1
    <3> QED
      BY <2>16, <2>17, <3>1, <3>2 DEF ShowsTab
  <2>21. Placed(u, {})
    BY <1>1, <2>16, PlacedSame
  <2>22. IndexingOpen(u)
    BY <1>1, <2>16, <2>17 DEF IndexingOpen
  <2>23. SessionSaved(u)
    BY <2>16, <2>17, SavedSame
  <2> QED
    BY <2>15, <2>19, <2>20, <2>21, <2>22, <2>23 DEF TabsGood
<1> QED
  BY <1>2, <1>3

-----------------------------------------------------------------------------
(* A load ends: nothing waits for it any more. *)
LoadEnded(x, y, c) ==
  /\ TabsTyped(y) /\ Placed(y, {}) /\ IconsRight(y, {}) /\ IndexingOpen(y)
  /\ SessionSaved(y) /\ Differs(x, y, {"loading", "indexing"})
  /\ \A z \in Tabs!Windows : CrawlerOf(x, z) # c => ShowsTab(y, z)

(* loadingFinished() first marks the load as over. *)
LEMMA LoadEnds ==
  ASSUME NEW x, TabsGood(x, {}), SessionSaved(x), NEW c \in Tabs!Crawlers,
         NEW y, y = [x EXCEPT !.loading[c] = FALSE, !.indexing[c] = FALSE]
  PROVE  LoadEnded(x, y, c)
<1>1. /\ TabsTyped(x) /\ Placed(x, {}) /\ IconsRight(x, {}) /\ IndexingOpen(x)
      /\ \A z \in Tabs!Windows : ShowsTab(x, z)
  BY DEF TabsGood
<1>2. /\ Differs(x, y, {"loading", "indexing"})
      /\ y.loading = [x.loading EXCEPT ![c] = FALSE]
      /\ y.indexing = [x.indexing EXCEPT ![c] = FALSE]
  BY <1>1 DEF TabsTyped, Differs, TabFields
<1>3. /\ y.tabs = x.tabs /\ y.current = x.current /\ y.file = x.file
      /\ y.listeners = x.listeners /\ y.moved = x.moved /\ y.handler = x.handler
      /\ y.dropped = x.dropped /\ y.icon = x.icon /\ y.status = x.status
  BY <1>2 DEF Differs, TabFields
<1>4. /\ y.title = x.title /\ y.info = x.info /\ y.followAction = x.followAction
      /\ y.follow = x.follow /\ y.saved = x.saved /\ y.savedBy = x.savedBy
  BY <1>2 DEF Differs, TabFields
<1>5. /\ x.loading \in [Tabs!Crawlers -> BOOLEAN] /\ x.indexing \in [Tabs!Crawlers -> BOOLEAN]
  BY <1>1 DEF TabsTyped
<1>6. /\ y.loading \in [Tabs!Crawlers -> BOOLEAN]
      /\ \A d \in Tabs!Crawlers : d # c => y.loading[d] = x.loading[d]
  BY <1>2, <1>5
<1>7. /\ y.indexing \in [Tabs!Crawlers -> BOOLEAN] /\ y.indexing[c] = FALSE
      /\ \A d \in Tabs!Crawlers : d # c => y.indexing[d] = x.indexing[d]
  BY <1>2, <1>5
<1>8. TabsTyped(y)
  BY <1>1, <1>2, <1>6, <1>7, StaysTyped
<1>9. Placed(y, {}) /\ IconsRight(y, {})
  BY <1>1, <1>3, PlacedSame, IconsSame
<1>10. IndexingOpen(y)
  BY <1>1, <1>3, <1>7 DEF IndexingOpen
<1>11. ASSUME NEW z \in Tabs!Windows, CrawlerOf(x, z) # c
       PROVE  ShowsTab(y, z)
  <2>1. PICK d : d = CrawlerOf(x, z) /\ d = CrawlerOf(y, z)
    BY <1>3 DEF CrawlerOf
  <2>2. d = 0 \/ (d \in Tabs!Crawlers /\ d # c)
    BY <1>1, <1>11, <2>1, ShownIsTab
  <2>3. ShowsTab(x, z)
    BY <1>1
  <2> QED
    <3>1. /\ y.title[z] = x.title[z] /\ y.followAction[z] = x.followAction[z]
          /\ y.info[z] = x.info[z]
      BY <1>4
    <3>2. /\ d # 0 => y.file[d] = x.file[d] /\ y.follow[d] = x.follow[d]
          /\ d # 0 /\ x.loading[d] => y.loading[d]
          /\ d # 0 /\ d \in x.dropped => d \in y.dropped
      BY <1>3, <1>4, <1>6, <2>2
    <3>3. SameTab(x, y, z, d)
      BY <2>1, <3>1, <3>2 DEF SameTab
    <3> QED
      BY <2>3, <3>3, ShowsAs
<1>12. SessionSaved(y)
  BY <1>3, <1>4, SavedSame
<1> QED
  BY <1>2, <1>8, <1>9, <1>10, <1>11, <1>12 DEF LoadEnded

(* The windows that show the crawler are told. *)
LEMMA LoadTold ==
  ASSUME NEW x, TabsGood(x, {}), SessionSaved(x), NEW c \in Tabs!Crawlers,
         NEW y, LoadEnded(x, y, c),
         NEW W, W = Tabs!WindowsShowing(x, c),
         NEW u, u = Tabs!handleLoadingFinished(y, W, c)
  PROVE  TabsGood(u, {}) /\ SessionSaved(u) /\ u.file = x.file
<1>1. /\ TabsTyped(x) /\ Placed(x, {}) /\ \A z \in Tabs!Windows : ShowsTab(x, z)
  BY DEF TabsGood
<1>2. /\ TabsTyped(y) /\ Placed(y, {}) /\ IconsRight(y, {}) /\ IndexingOpen(y)
      /\ SessionSaved(y) /\ Differs(x, y, {"loading", "indexing"})
      /\ \A z \in Tabs!Windows : CrawlerOf(x, z) # c => ShowsTab(y, z)
  BY DEF LoadEnded
<1>4. W = {z \in x.listeners[c] : CrawlerOf(x, z) = c}
  BY CrawlerIs DEF Tabs!WindowsShowing
<1>5. y.info \in [Tabs!Windows -> Named] /\ y.file[c] \in Named
  BY <1>2 DEF TabsTyped
<1>6. PICK info : info = [z \in Tabs!Windows |-> IF z \in W THEN y.file[c] ELSE y.info[z]]
  OBVIOUS
<1>7. info \in [Tabs!Windows -> Named]
  BY <1>5, <1>6
<1>8. u = [y EXCEPT !.info = info]
  BY <1>6 DEF Tabs!handleLoadingFinished
<1>9. Differs(y, u, {"info"}) /\ u.info = info
  <2>1. y = [f \in TabFields |-> y[f]]
    BY <1>2 DEF TabsTyped
  <2> QED
    BY <1>8, <2>1 DEF Differs, TabFields
<1>10. TabsTyped(u)
  BY <1>2, <1>7, <1>9, StaysTyped
<1>11. /\ u.tabs = y.tabs /\ u.current = y.current /\ u.file = y.file
       /\ u.listeners = y.listeners /\ u.moved = y.moved /\ u.handler = y.handler
       /\ u.dropped = y.dropped /\ u.icon = y.icon /\ u.status = y.status
  BY <1>9 DEF Differs, TabFields
<1>12. /\ u.title = y.title /\ u.followAction = y.followAction /\ u.loading = y.loading
       /\ u.follow = y.follow /\ u.saved = y.saved /\ u.savedBy = y.savedBy
       /\ u.indexing = y.indexing
  BY <1>9 DEF Differs, TabFields
<1>13. Placed(u, {}) /\ IconsRight(u, {})
  BY <1>2, <1>11, PlacedSame, IconsSame
<1>14. IndexingOpen(u) /\ SessionSaved(u)
  BY <1>2, <1>11, <1>12, SavedSame DEF IndexingOpen
<1>15. /\ y.tabs = x.tabs /\ y.current = x.current /\ y.file = x.file
       /\ y.title = x.title /\ y.followAction = x.followAction /\ y.follow = x.follow
  BY <1>2 DEF Differs, TabFields
<1>16. ASSUME NEW z \in Tabs!Windows
       PROVE  ShowsTab(u, z)
  <2>1. PICK d : d = CrawlerOf(x, z) /\ d = CrawlerOf(y, z) /\ d = CrawlerOf(u, z)
    BY <1>11, <1>15 DEF CrawlerOf
  <2>2. CASE d = c
    <3>1. c # 0
      BY DEF Tabs!Crawlers
    <3>2. z \in x.listeners[c]
      <4>1. d # 0 /\ d = CrawlerOf(x, z)
        BY <2>1, <2>2, <3>1
      <4>2. z \in x.listeners[d]
        BY <1>1, <4>1, ShownIsTab
      <4> QED
        BY <2>2, <4>2
    <3>3. u.info[z] = u.file[c]
      BY <1>4, <1>6, <1>9, <1>11, <2>1, <2>2, <3>2
    <3>4. ShowsTab(x, z)
      BY <1>1
    <3>5. u.title[z] = u.file[c] /\ u.followAction[z] = u.follow[c]
      BY <1>11, <1>12, <1>15, <2>1, <2>2, <3>1, <3>4 DEF ShowsTab
    <3> QED
      BY <2>1, <2>2, <3>1, <3>3, <3>5 DEF ShowsTab
  <2>3. CASE d # c
    <3>1. ShowsTab(y, z)
      BY <1>2, <2>1, <2>3
    <3>2. u.info[z] = y.info[z]
      BY <1>4, <1>6, <1>9, <2>1, <2>3
    <3> QED
      BY <1>11, <1>12, <2>1, <3>1, <3>2 DEF ShowsTab
  <2> QED
    BY <2>2, <2>3
<1> QED
  BY <1>10, <1>11, <1>13, <1>14, <1>15, <1>16 DEF TabsGood

(* What is done last. *)
LEMMA LoadFinal ==
  ASSUME NEW x, TabsGood(x, {}), SessionSaved(x), NEW c \in Tabs!Crawlers,
         x.file[c] # Tabs!NoFile,
         NEW u, \/ u = Tabs!changeDataStatus(x, c, "new")
                \/ u = [x EXCEPT !.firstLoadDone[c] = TRUE]
  PROVE  TabsGood(u, {}) /\ SessionSaved(u)
<1>1. CASE u = Tabs!changeDataStatus(x, c, "new")
  <2>1. "new" \in Statuses
    BY DEF Statuses
  <2> QED
    BY <1>1, <2>1, StatusChanged
<1>2. CASE u = [x EXCEPT !.firstLoadDone[c] = TRUE]
  <2>1. TabsTyped(x)
    BY DEF TabsGood
  <2>2. /\ Differs(x, u, {"firstLoadDone"})
        /\ u.firstLoadDone = [x.firstLoadDone EXCEPT ![c] = TRUE]
    BY <1>2, <2>1 DEF TabsTyped, Differs, TabFields
  <2>3. u.firstLoadDone \in [Tabs!Crawlers -> BOOLEAN]
    BY <2>1, <2>2 DEF TabsTyped
  <2>4. TabsTyped(u)
    BY <2>1, <2>2, <2>3, StaysTyped
  <2>5. PICK F : F = {"firstLoadDone"}
    OBVIOUS
  <2> QED
    BY <2>2, <2>4, <2>5, GoodSame
<1> QED
  BY <1>1, <1>2

-----------------------------------------------------------------------------
(* The end of a load, successful or not. *)
LEMMA LoadStep ==
  ASSUME TabsGood(g, {}), SessionSaved(g), NEW c \in Tabs!Crawlers, NEW b \in BOOLEAN,
         Tabs!loadingFinished(c, b)
  PROVE  TabsGood(g', {}) /\ SessionSaved(g')
<1>1. TabsTyped(g) /\ Placed(g, {}) /\ IndexingOpen(g)
  BY DEF TabsGood
<1>2. g.indexing[c] /\ g.file[c] # Tabs!NoFile
  BY <1>1 DEF IndexingOpen, Tabs!loadingFinished
<1>3. PICK y : y = [g EXCEPT !.loading[c] = FALSE, !.indexing[c] = FALSE]
  OBVIOUS
<1>4. PICK W : W = Tabs!WindowsShowing(g, c)
  OBVIOUS
<1>5. W = {z \in g.listeners[c] : CrawlerOf(g, z) = c}
  BY <1>4, CrawlerIs DEF Tabs!WindowsShowing
<1>a. LoadEnded(g, y, c)
  BY <1>3, LoadEnds
<1>6. /\ TabsTyped(y) /\ Placed(y, {}) /\ IconsRight(y, {}) /\ IndexingOpen(y)
      /\ SessionSaved(y) /\ Differs(g, y, {"loading", "indexing"})
      /\ \A z \in Tabs!Windows : CrawlerOf(g, z) # c => ShowsTab(y, z)
  BY <1>a DEF LoadEnded
<1>7. c # 0
  BY DEF Tabs!Crawlers
<1>8. PICK told : told = Tabs!handleLoadingFinished(y, W, c)
  OBVIOUS
<1>9. TabsGood(told, {}) /\ SessionSaved(told) /\ told.file = g.file
  BY <1>4, <1>8, <1>a, LoadTold
<1>10. \/ g' = Tabs!changeDataStatus(told, c, "new")
       \/ g' = [told EXCEPT !.firstLoadDone[c] = TRUE]
       \/ W = {} /\ g' = Tabs!changeDataStatus(y, c, "new")
       \/ W = {} /\ g' = [y EXCEPT !.firstLoadDone[c] = TRUE]
       \/ W # {} /\ g' = Tabs!closeTab(y, Tabs!Min(W), g.current[Tabs!Min(W)])
  BY <1>3, <1>4, <1>8 DEF Tabs!loadingFinished
<1>11. CASE \/ g' = Tabs!changeDataStatus(told, c, "new")
            \/ g' = [told EXCEPT !.firstLoadDone[c] = TRUE]
  <2>1. told.file[c] # Tabs!NoFile
    BY <1>2, <1>9
  <2> QED
    BY <1>9, <1>11, <2>1, LoadFinal
<1>12. CASE /\ W = {}
            /\ \/ g' = Tabs!changeDataStatus(y, c, "new")
               \/ g' = [y EXCEPT !.firstLoadDone[c] = TRUE]
  <2>1. ASSUME NEW z \in Tabs!Windows
        PROVE  ShowsTab(y, z)
    <3>1. CASE CrawlerOf(g, z) = c
      <4>1. PICK d : d = CrawlerOf(g, z) /\ d = c /\ d # 0
        BY <1>7, <3>1
      <4>2. z \in g.listeners[d]
        BY <1>1, <4>1, ShownIsTab
      <4> QED
        BY <1>5, <1>12, <4>1, <4>2
    <3> QED
      BY <1>6, <3>1
  <2>2. TabsGood(y, {}) /\ SessionSaved(y)
    BY <1>6, <2>1 DEF TabsGood
  <2>3. y.file[c] # Tabs!NoFile
    BY <1>2, <1>6 DEF Differs, TabFields
  <2> QED
    BY <1>12, <2>2, <2>3, LoadFinal
<1>13. CASE W # {} /\ g' = Tabs!closeTab(y, Tabs!Min(W), g.current[Tabs!Min(W)])
  <2>1. g.listeners[c] \subseteq Tabs!Windows
    BY <1>1 DEF TabsTyped
  <2>2. PICK w : w = Tabs!Min(W)
    OBVIOUS
  <2>3. w \in Tabs!Windows /\ CrawlerOf(g, w) = c
    <3>1. W \subseteq Nat
      BY <1>5, <2>1 DEF Tabs!Windows
    <3>2. w \in W
      BY <1>13, <2>2, <3>1, LeastIn
    <3> QED
      BY <1>5, <2>1, <3>2
  <2>4. PICK i : i = g.current[w]
    OBVIOUS
  <2>5. i \in 1 .. Len(y.tabs[w])
    <3>1. PICK d : d = CrawlerOf(g, w) /\ d # 0
      BY <1>7, <2>3
    <3>2. g.current[w] \in 1 .. Len(g.tabs[w])
      BY <1>1, <2>3, <3>1, ShownIsTab
    <3>3. y.tabs = g.tabs
      BY <1>6 DEF Differs, TabFields
    <3> QED
      BY <2>4, <3>2, <3>3
  <2>6. ASSUME NEW z \in Tabs!Windows, z # w \/ i > y.current[w]
        PROVE  ShowsTab(y, z)
    <3>1. z # w
      <4>1. y.current = g.current
        BY <1>6 DEF Differs, TabFields
      <4>2. g.current[w] \in Nat
        BY <1>1, <2>3 DEF TabsTyped
      <4> QED
        BY <2>4, <2>6, <4>1, <4>2
    <3>2. CrawlerOf(g, z) # c
      <4>1. SUFFICES ASSUME CrawlerOf(g, z) = c
                     PROVE  FALSE
        OBVIOUS
      <4>2. PICK d : d = CrawlerOf(g, z) /\ d = CrawlerOf(g, w) /\ d # 0
        BY <1>7, <2>3, <4>1
      <4> QED
        BY <1>1, <2>3, <3>1, <4>2, OneWindow
    <3> QED
      BY <1>6, <3>2
  <2>7. g' = Tabs!closeTab(y, w, i)
    BY <1>13, <2>2, <2>4
  <2> QED
    BY <1>6, <2>3, <2>5, <2>6, <2>7, TabClosed
<1> QED
  BY <1>10, <1>11, <1>12, <1>13

(* A tab is dropped in another window. *)
LEMMA TabDropped ==
  ASSUME NEW x, TabsGood(x, {}), NEW from \in Tabs!Windows,
         NEW j \in 1 .. Len(x.tabs[from]), x.drag.from = from, x.drag.index = j,
         NEW w \in Tabs!Windows, w # from, NEW i \in 1 .. Len(x.tabs[w]) + 1,
         NEW u, u = Tabs!onTabDragAndDrop(x, w, i)
  PROVE  TabsGood(u, {}) /\ SessionSaved(u)
<1>1. /\ TabsTyped(x) /\ Placed(x, {}) /\ IconsRight(x, {}) /\ IndexingOpen(x)
      /\ \A z \in Tabs!Windows : ShowsTab(x, z)
  BY DEF TabsGood
<1>2. PICK c : c = x.tabs[from][j]
  OBVIOUS
<1>3. PICK y : y = Tabs!removeTab(x, from, j)
  OBVIOUS
<1>4. /\ TabsGood(y, {c}) /\ c \in Tabs!Crawlers
      /\ Differs(x, y, {"tabs", "current", "moved", "title", "info", "followAction"})
      /\ y.tabs = [x.tabs EXCEPT ![from] = Tabs!RemoveAt(@, j)]
  BY <1>1, <1>2, <1>3, TabRemoved
<1>5. PICK y2 : y2 = [y EXCEPT !.dropped = @ \cup {c}]
  OBVIOUS
<1>6. PICK b \in BOOLEAN : b = TRUE
  OBVIOUS
<1>7. PICK y3 : y3 = Tabs!insertTab(y2, w, i, c, b)
  OBVIOUS
<1>8. u = Tabs!saveSession(y3, w)
  BY <1>2, <1>3, <1>5, <1>6, <1>7 DEF Tabs!onTabDragAndDrop
<1>9. Differs(y, y2, {"dropped"}) /\ y2.dropped = y.dropped \cup {c}
  BY <1>4, <1>5 DEF TabsGood, TabsTyped, Differs, TabFields
<1>10. /\ y2.tabs = y.tabs /\ y2.current = y.current /\ y2.file = y.file
       /\ y2.listeners = y.listeners /\ y2.moved = y.moved /\ y2.handler = y.handler
       /\ y2.icon = y.icon /\ y2.status = y.status
  BY <1>9 DEF Differs, TabFields
<1>11. /\ y2.title = y.title /\ y2.followAction = y.followAction /\ y2.loading = y.loading
       /\ y2.follow = y.follow /\ y2.info = y.info /\ y2.indexing = y.indexing
  BY <1>9 DEF Differs, TabFields
<1>12. TabsGood(y2, {c})
  <2>1. /\ TabsTyped(y) /\ Placed(y, {c}) /\ IconsRight(y, {c}) /\ IndexingOpen(y)
        /\ \A z \in Tabs!Windows : ShowsTab(y, z)
    BY <1>4 DEF TabsGood
  <2>2. y2.dropped \in SUBSET Tabs!Crawlers
    BY <1>4, <1>9, <2>1 DEF TabsTyped
  <2>3. TabsTyped(y2)
    BY <1>9, <2>1, <2>2, StaysTyped
  <2>4. Placed(y2, {c})
    BY <1>10, <2>1, PlacedSame
  <2>5. IconsRight(y2, {c})
    BY <1>9, <1>10, <2>1 DEF IconsRight, KnowsTab
  <2>6. IndexingOpen(y2)
    BY <1>10, <1>11, <2>1 DEF IndexingOpen
  <2>7. ASSUME NEW z \in Tabs!Windows
        PROVE  ShowsTab(y2, z)
    <3>1. CrawlerOf(y2, z) = CrawlerOf(y, z)
      BY <1>10 DEF CrawlerOf
    <3>2. ShowsTab(y, z) /\ y.dropped \subseteq y2.dropped
      BY <1>9, <2>1
    <3> QED
      BY <1>10, <1>11, <3>1, <3>2, ShowsSame
  <2> QED
    BY <2>3, <2>4, <2>5, <2>6, <2>7 DEF TabsGood
<1>13. TabsGood(y3, {})
  <2>1. i \in 1 .. Len(y2.tabs[w]) + 1
    <3>1. y2.tabs[w] = x.tabs[w]
      BY <1>1, <1>4, <1>10 DEF TabsTyped
    <3> QED
      BY <3>1
  <2>2. c \in y2.dropped
    BY <1>9
  <2>3. y2.loading[c] \/ c \in y2.dropped
    BY <2>2
  <2>4. y2.status[c] = "old" \/ c \in y2.dropped
    BY <2>2
  <2>5. y2.file[c] # Tabs!NoFile
    <3>1. y.file = x.file
      BY <1>4 DEF Differs, TabFields
    <3>2. x.file[c] # Tabs!NoFile
      BY <1>1, <1>2 DEF Placed
    <3> QED
      BY <1>10, <3>1, <3>2
  <2>6. TabsGood(y2, {} \cup {c}) /\ c \notin {}
    BY <1>12
  <2> QED
    BY <1>4, <1>7, <2>1, <2>3, <2>4, <2>5, <2>6, TabInserted
<1> QED
  BY <1>8, <1>13, TabsSaved

(* A file that is open grows. *)
LEMMA FileGrew ==
  ASSUME NEW x, TabsGood(x, {}), SessionSaved(x), NEW c \in Tabs!Crawlers,
         x.file[c] # Tabs!NoFile, NEW u, u = [x EXCEPT !.indexing[c] = TRUE]
  PROVE  TabsGood(u, {}) /\ SessionSaved(u)
<1>1. /\ TabsTyped(x) /\ Placed(x, {}) /\ IconsRight(x, {}) /\ IndexingOpen(x)
      /\ \A z \in Tabs!Windows : ShowsTab(x, z)
  BY DEF TabsGood
<1>2. Differs(x, u, {"indexing"}) /\ u.indexing = [x.indexing EXCEPT ![c] = TRUE]
  BY <1>1 DEF TabsTyped, Differs, TabFields
<1>3. x.indexing \in [Tabs!Crawlers -> BOOLEAN]
  BY <1>1 DEF TabsTyped
<1>4. /\ u.indexing \in [Tabs!Crawlers -> BOOLEAN]
      /\ \A d \in Tabs!Crawlers : d # c => u.indexing[d] = x.indexing[d]
  BY <1>2, <1>3
<1>5. TabsTyped(u)
  BY <1>1, <1>2, <1>4, StaysTyped
<1>6. /\ u.tabs = x.tabs /\ u.current = x.current /\ u.file = x.file
      /\ u.listeners = x.listeners /\ u.moved = x.moved /\ u.handler = x.handler
      /\ u.dropped = x.dropped /\ u.icon = x.icon /\ u.status = x.status
  BY <1>2 DEF Differs, TabFields
<1>7. /\ u.title = x.title /\ u.info = x.info /\ u.followAction = x.followAction
      /\ u.follow = x.follow /\ u.saved = x.saved /\ u.savedBy = x.savedBy
      /\ u.loading = x.loading
  BY <1>2 DEF Differs, TabFields
<1>8. Placed(u, {}) /\ IconsRight(u, {})
  BY <1>1, <1>6, PlacedSame, IconsSame
<1>9. IndexingOpen(u)
  BY <1>1, <1>4, <1>6 DEF IndexingOpen
<1>10. ASSUME NEW z \in Tabs!Windows
       PROVE  ShowsTab(u, z)
  <2>1. CrawlerOf(u, z) = CrawlerOf(x, z)
    BY <1>6 DEF CrawlerOf
  <2>2. ShowsTab(x, z) /\ x.dropped \subseteq u.dropped
    BY <1>1, <1>6
  <2> QED
    BY <1>6, <1>7, <2>1, <2>2, ShowsSame
<1>11. SessionSaved(u)
  BY <1>6, <1>7, SavedSame
<1> QED
  BY <1>5, <1>8, <1>9, <1>10, <1>11 DEF TabsGood

-----------------------------------------------------------------------------
(* The types of what is saved. *)
LEMMA ElementIn ==
  ASSUME NEW T, NEW list \in Seq(T), NEW k \in 1 .. Len(list)
  PROVE  list[k] \in T
OBVIOUS

LEMMA LengthIn ==
  ASSUME NEW T, NEW list \in Seq(T)
  PROVE  Len(list) \in Nat
OBVIOUS

LEMMA FirstWindow == 1 \in Tabs!Windows
<1>1. MaxWindows \in Nat /\ MaxWindows # 0
  BY WindowsAssumption
<1> QED
  BY <1>1 DEF Tabs!Windows

(* A process that starts. *)
SavedLists == Seq([file : Files, follow : BOOLEAN])

(* It has no tab and no open file. *)
LEMMA EmptyTyped ==
  ASSUME NEW list \in SavedLists, NEW u, u = Tabs!Empty(list)
  PROVE  TabsTyped(u)
<1>1. 1 \in Tabs!Windows
  BY FirstWindow
<1>2. Tabs!NoFile \in Named /\ "old" \in Statuses
  BY DEF Named, Statuses
<1>3. u = [f \in TabFields |-> u[f]]
  BY DEF Tabs!Empty, TabFields
<1>4. /\ u.windows \in SUBSET Tabs!Windows
      /\ u.tabs \in [Tabs!Windows -> Seq(Tabs!Crawlers)]
      /\ u.current \in [Tabs!Windows -> Nat]
      /\ u.title \in [Tabs!Windows -> Named] /\ u.info \in [Tabs!Windows -> Named]
      /\ u.followAction \in [Tabs!Windows -> BOOLEAN]
  <2>1. <<>> \in Seq(Tabs!Crawlers)
    OBVIOUS
  <2>2. /\ u.windows = {1} /\ u.tabs = [w \in Tabs!Windows |-> <<>>]
        /\ u.current = [w \in Tabs!Windows |-> 0]
        /\ u.title = [w \in Tabs!Windows |-> Tabs!NoFile]
        /\ u.info = [w \in Tabs!Windows |-> Tabs!NoFile]
        /\ u.followAction = [w \in Tabs!Windows |-> FALSE]
    BY DEF Tabs!Empty
  <2> HIDE DEF Tabs!Empty
  <2> QED
    BY <1>1, <1>2, <2>1, <2>2
<1>5. /\ u.file \in [Tabs!Crawlers -> Named] /\ u.follow \in [Tabs!Crawlers -> BOOLEAN]
      /\ u.loading \in [Tabs!Crawlers -> BOOLEAN]
      /\ u.indexing \in [Tabs!Crawlers -> BOOLEAN]
      /\ u.firstLoadDone \in [Tabs!Crawlers -> BOOLEAN]
      /\ u.searching \in [Tabs!Crawlers -> BOOLEAN]
      /\ u.pinned \in [Tabs!Crawlers -> BOOLEAN]
  <2>1. /\ u.file = [c \in Tabs!Crawlers |-> Tabs!NoFile]
        /\ u.follow = [c \in Tabs!Crawlers |-> FALSE]
        /\ u.loading = [c \in Tabs!Crawlers |-> FALSE]
        /\ u.indexing = [c \in Tabs!Crawlers |-> FALSE]
        /\ u.firstLoadDone = [c \in Tabs!Crawlers |-> FALSE]
        /\ u.searching = [c \in Tabs!Crawlers |-> FALSE]
        /\ u.pinned = [c \in Tabs!Crawlers |-> FALSE]
    BY DEF Tabs!Empty
  <2> QED
    BY <1>2, <2>1
<1>6. /\ u.status \in [Tabs!Crawlers -> Statuses] /\ u.icon \in [Tabs!Crawlers -> Statuses]
      /\ u.handler \in [Tabs!Crawlers -> Tabs!Windows \X Nat]
      /\ u.listeners \in [Tabs!Crawlers -> SUBSET Tabs!Windows]
  <2>1. /\ u.status = [c \in Tabs!Crawlers |-> "old"]
        /\ u.icon = [c \in Tabs!Crawlers |-> "old"]
        /\ u.handler = [c \in Tabs!Crawlers |-> <<1, 0>>]
        /\ u.listeners = [c \in Tabs!Crawlers |-> {}]
    BY DEF Tabs!Empty
  <2>2. <<1, 0>> \in Tabs!Windows \X Nat
    BY <1>1
  <2> QED
    BY <1>2, <2>1, <2>2
<1>7. /\ u.saved \in Seq([file : Files, follow : BOOLEAN]) /\ u.savedBy \in Tabs!Windows
      /\ u.drag = Tabs!NoDrag /\ u.moved \in BOOLEAN /\ u.dropped \in SUBSET Tabs!Crawlers
  BY <1>1 DEF Tabs!Empty, SavedLists
<1> QED
  BY <1>3, <1>4, <1>5, <1>6, <1>7 DEF TabsTyped

(* The files of the first k crawlers have been opened, in no tab.           *)
Restored(y, list, k) ==
  /\ TabsGood(y, 1 .. k) /\ y.saved = list /\ y.savedBy = 1
  /\ \A w \in Tabs!Windows : y.tabs[w] = <<>>
  /\ \A c \in Tabs!Crawlers :
       IF c <= k THEN y.file[c] = list[c].file /\ y.loading[c] /\ y.status[c] = "old"
       ELSE y.file[c] = Tabs!NoFile

(* The files of the session are opened one after the other. *)
LEMMA RestoreStarts ==
  ASSUME NEW list \in SavedLists, NEW u, u = Tabs!Empty(list)
  PROVE  Restored(u, list, 0)
<1>1. TabsTyped(u)
  BY EmptyTyped
<1>2. /\ u.saved = list /\ u.savedBy = 1 /\ u.moved = FALSE /\ u.dropped = {}
      /\ \A w \in Tabs!Windows : /\ u.tabs[w] = <<>> /\ u.current[w] = 0
                                 /\ u.title[w] = Tabs!NoFile
      /\ \A c \in Tabs!Crawlers : /\ u.file[c] = Tabs!NoFile /\ u.indexing[c] = FALSE
                                  /\ u.icon[c] = "old" /\ u.status[c] = "old"
  BY DEF Tabs!Empty
<1>3. Placed(u, 1 .. 0)
  BY <1>2 DEF Placed
<1>4. IconsRight(u, 1 .. 0) /\ IndexingOpen(u)
  BY <1>2 DEF IconsRight, IndexingOpen
<1>5. ASSUME NEW z \in Tabs!Windows
      PROVE  ShowsTab(u, z)
  BY <1>2 DEF ShowsTab, CrawlerOf
<1>6. \A c \in Tabs!Crawlers : ~(c <= 0)
  BY DEF Tabs!Crawlers
<1> QED
  BY <1>1, <1>2, <1>3, <1>4, <1>5, <1>6 DEF Restored, TabsGood

LEMMA RestoreNext ==
  ASSUME NEW list \in SavedLists, Len(list) <= MaxCrawlers, NEW k \in 1 .. Len(list),
         NEW y, Restored(y, list, k - 1),
         NEW u, u = Tabs!openAlways(y, k, list[k].file, list[k].follow)
  PROVE  Restored(u, list, k)
<1>1. /\ TabsGood(y, 1 .. k - 1) /\ y.saved = list /\ y.savedBy = 1
      /\ \A w \in Tabs!Windows : y.tabs[w] = <<>>
      /\ \A c \in Tabs!Crawlers :
           IF c <= k - 1 THEN y.file[c] = list[c].file /\ y.loading[c] /\ y.status[c] = "old"
           ELSE y.file[c] = Tabs!NoFile
  BY DEF Restored
<1>2. k \in Tabs!Crawlers /\ Tabs!Crawlers \subseteq Nat
  <2>1. Len(list) \in Nat
    BY LengthIn DEF SavedLists
  <2>2. MaxCrawlers \in Nat
    BY WindowsAssumption
  <2> QED
    BY <2>1, <2>2 DEF Tabs!Crawlers
<1>3. PICK name : name = list[k].file
  OBVIOUS
<1>4. PICK b : b = list[k].follow
  OBVIOUS
<1>5. name \in Files /\ b \in BOOLEAN
  <2>1. list[k] \in [file : Files, follow : BOOLEAN]
    BY ElementIn DEF SavedLists
  <2> QED
    BY <1>3, <1>4, <2>1
<1>6. PICK Y : Y = 1 .. k
  OBVIOUS
<1>7. PICK X : X = 1 .. k - 1
  OBVIOUS
<1>8. Y = X \cup {k}
  BY <1>6, <1>7
<1>9. u = Tabs!openAlways(y, k, name, b)
  BY <1>3, <1>4
<1>10. y.file[k] = Tabs!NoFile
  BY <1>1, <1>2
<1>11. GivenFile(y, u, k, name, Y)
  BY <1>1, <1>2, <1>5, <1>7, <1>8, <1>9, <1>10, FileOpened
<1>12. /\ TabsGood(u, 1 .. k) /\ u.file = [y.file EXCEPT ![k] = name]
       /\ u.loading[k] /\ u.status[k] = "old"
       /\ \A d \in Tabs!Crawlers : d # k =>
            u.loading[d] = y.loading[d] /\ u.status[d] = y.status[d]
  BY <1>6, <1>11 DEF GivenFile
<1>13. u.tabs = y.tabs /\ u.saved = y.saved /\ u.savedBy = y.savedBy
  BY <1>11 DEF GivenFile, Differs, TabFields
<1>14. y.file \in [Tabs!Crawlers -> Named]
  BY <1>1 DEF TabsGood, TabsTyped
<1>15. ASSUME NEW c \in Tabs!Crawlers
       PROVE  IF c <= k THEN u.file[c] = list[c].file /\ u.loading[c] /\ u.status[c] = "old"
              ELSE u.file[c] = Tabs!NoFile
  <2>1. CASE c = k
    BY <1>2, <1>3, <1>12, <1>14, <2>1
  <2>2. CASE c # k
    <3>1. c <= k <=> c <= k - 1
      BY <1>2, <2>2
    <3>2. u.file[c] = y.file[c] /\ u.loading[c] = y.loading[c] /\ u.status[c] = y.status[c]
      BY <1>12, <1>14, <2>2
    <3> QED
      BY <1>1, <3>1, <3>2
  <2> QED
    BY <2>1, <2>2
<1> QED
  BY <1>1, <1>12, <1>13, <1>15 DEF Restored

(* All of them, once the loop is over. *)
LEMMA RestoreEnds ==
  ASSUME NEW list \in SavedLists, Len(list) <= MaxCrawlers, NEW l, l = Len(list),
         NEW all, all = CHOOSE f : f = [k \in 0 .. l |->
                          IF k = 0 THEN Tabs!Empty(list)
                          ELSE Tabs!openAlways(f[k - 1], k, list[k].file, list[k].follow)]
  PROVE  Restored(all[l], list, l)
<1> DEFINE After(y, k) == Tabs!openAlways(y, k, list[k].file, list[k].follow)
           start == Tabs!Empty(list)
           step == [p \in (1 .. l) \X TabStates |-> After(p[2], p[1])]
           D == [k \in 0 .. l |-> {y \in TabStates : Restored(y, list, k)}]
<1>1. all = CHOOSE f : f = [k \in 0 .. l |-> IF k = 0 THEN start ELSE After(f[k - 1], k)]
  OBVIOUS
<1>2. l \in Nat
  BY LengthIn DEF SavedLists
<1>3. \A k \in 1 .. l, y \in TabStates : step[<<k, y>>] = After(y, k)
  OBVIOUS
<1>4. \A k \in 0 .. l : \A y : y \in D[k] <=> y \in TabStates /\ Restored(y, list, k)
  OBVIOUS
<1>5. Restored(start, list, 0)
  BY RestoreStarts
<1>6. \A y, k : Restored(y, list, k) => y \in TabStates
  BY StateIn DEF Restored, TabsGood
<1>7. ASSUME NEW k \in 1 .. l, NEW y, Restored(y, list, k - 1)
      PROVE  Restored(After(y, k), list, k)
  BY <1>7, RestoreNext
<1> HIDE DEF step, D, start, After
<1>8. start \in D[0]
  <2>1. 0 \in 0 .. l
    BY <1>2
  <2> QED
    BY <1>4, <1>5, <1>6, <2>1
<1>9. ASSUME NEW k \in 1 .. l, NEW y \in D[k - 1]
      PROVE  y \in TabStates /\ After(y, k) \in D[k]
  <2>1. k - 1 \in 0 .. l /\ k \in 0 .. l
    BY <1>2
  <2>2. y \in TabStates /\ Restored(y, list, k - 1)
    BY <1>4, <2>1
  <2>3. Restored(After(y, k), list, k)
    BY <1>7, <2>2
  <2> QED
    BY <1>4, <1>6, <2>1, <2>2, <2>3
<1>10. PICK f : /\ f = [k \in 0 .. l |-> f[k]] /\ Follows(f, l, start, step)
                /\ \A k \in 0 .. l : f[k] \in D[k]
  <2>1. \A k \in 0 .. l : D[k] \subseteq TabStates
    BY <1>4
  <2>2. ASSUME NEW k \in 1 .. l, NEW y \in D[k - 1]
        PROVE  step[<<k, y>>] \in D[k]
    <3>1. y \in TabStates /\ After(y, k) \in D[k]
      BY <1>9
    <3> QED
      BY <1>3, <3>1
  <2> QED
    BY <1>2, <1>8, <2>1, <2>2, RecursionIn
<1>11. f = [k \in 0 .. l |-> IF k = 0 THEN start ELSE After(f[k - 1], k)]
  <2>1. ASSUME NEW k \in 0 .. l, k # 0
        PROVE  f[k] = After(f[k - 1], k)
    <3>1. k \in 1 .. l /\ k - 1 \in 0 .. l
      BY <1>2, <2>1
    <3>2. f[k - 1] \in TabStates
      BY <1>9, <1>10, <3>1
    <3>3. f[k] = step[<<k, f[k - 1]>>]
      BY <1>10, <3>1 DEF Follows
    <3> QED
      BY <1>3, <3>1, <3>2, <3>3
  <2>2. \A k \in 0 .. l : f[k] = IF k = 0 THEN start ELSE After(f[k - 1], k)
    BY <1>10, <2>1 DEF Follows
  <2> QED
    BY <1>10, <2>2
<1>12. all = [k \in 0 .. l |-> IF k = 0 THEN start ELSE After(all[k - 1], k)]
  BY <1>1, <1>11
<1>13. all[0] = start /\ \A k \in 1 .. l : all[k] = After(all[k - 1], k)
  <2>1. 0 \in 0 .. l /\ \A k \in 1 .. l : k \in 0 .. l /\ k # 0
    BY <1>2
  <2> QED
    BY <1>12, <2>1
<1>14. \A k \in 0 .. l : all[k] \in D[k]
  <2>1. \A k \in 1 .. l : all[k - 1] \in D[k - 1] => all[k] \in D[k]
    BY <1>9, <1>13
  <2> QED
    BY <1>2, <1>8, <1>13, <2>1, StaysIn
<1> QED
  BY <1>2, <1>4, <1>14

(* The first k crawlers have their tabs, in order.                          *)
Reinserted(y, list, k) ==
  /\ TabsGood(y, k + 1 .. Len(list)) /\ y.saved = list /\ y.savedBy = 1
  /\ Len(y.tabs[1]) = k /\ \A j \in 1 .. k : y.tabs[1][j] = j
  /\ \A c \in 1 .. Len(list) :
       y.file[c] = list[c].file /\ y.loading[c] /\ y.status[c] = "old"

(* Each gets its tab, the first one being shown. *)
LEMMA ReinsertNext ==
  ASSUME NEW list \in SavedLists, Len(list) <= MaxCrawlers, NEW k \in 1 .. Len(list),
         NEW y, Reinserted(y, list, k - 1), NEW b \in BOOLEAN,
         NEW u, u = Tabs!insertTab(y, 1, Len(y.tabs[1]) + 1, k, b)
  PROVE  Reinserted(u, list, k)
<1>1. /\ y.saved = list /\ y.savedBy = 1
      /\ Len(y.tabs[1]) = k - 1 /\ \A j \in 1 .. k - 1 : y.tabs[1][j] = j
      /\ \A c \in 1 .. Len(list) :
           y.file[c] = list[c].file /\ y.loading[c] /\ y.status[c] = "old"
  BY DEF Reinserted
<1>2. Len(list) \in Nat /\ MaxCrawlers \in Nat
  <2>1. Len(list) \in Nat
    BY LengthIn DEF SavedLists
  <2>2. MaxCrawlers \in Nat
    BY WindowsAssumption
  <2> QED
    BY <2>1, <2>2
<1>3. k \in Tabs!Crawlers
  BY <1>2 DEF Tabs!Crawlers
<1>4. PICK X : X = k + 1 .. Len(list)
  OBVIOUS
<1>5. X \cup {k} = k - 1 + 1 .. Len(list) /\ k \notin X
  BY <1>2, <1>4
<1>6. TabsGood(y, X \cup {k})
  BY <1>5 DEF Reinserted
<1>7. PICK q : q = y.tabs[1] /\ q \in Seq(Tabs!Crawlers)
  BY <1>6, FirstWindow, TabIn DEF TabsGood
<1>8. PICK i : i = Len(y.tabs[1]) + 1
  OBVIOUS
<1>9. i = k /\ i \in 1 .. Len(q) + 1 /\ Len(q) = k - 1
  BY <1>1, <1>2, <1>7, <1>8
<1>10. y.file[k] # Tabs!NoFile
  <2>1. list[k] \in [file : Files, follow : BOOLEAN]
    BY ElementIn DEF SavedLists
  <2>2. list[k].file \in Files
    BY <2>1
  <2> QED
    BY <1>1, <2>2, WindowsAssumption DEF Tabs!NoFile
<1>11. /\ TabsGood(u, X)
       /\ Differs(y, u, {"tabs", "current", "moved", "pinned", "icon", "handler", "title",
                         "info", "followAction", "listeners"})
       /\ u.tabs = [y.tabs EXCEPT ![1] = Tabs!InsertAt(@, i, k)]
  <2>1. y.loading[k] \/ k \in y.dropped
    BY <1>1
  <2>2. y.status[k] = "old" \/ k \in y.dropped
    BY <1>1
  <2>3. PICK w \in Tabs!Windows : w = 1
    BY FirstWindow
  <2>4. i \in 1 .. Len(y.tabs[w]) + 1 /\ u = Tabs!insertTab(y, w, i, k, b)
    BY <1>7, <1>8, <1>9, <2>3
  <2>5. /\ TabsGood(u, X)
        /\ Differs(y, u, {"tabs", "current", "moved", "pinned", "icon", "handler", "title",
                          "info", "followAction", "listeners"})
        /\ u.tabs = [y.tabs EXCEPT ![w] = Tabs!InsertAt(@, i, k)]
    BY <1>3, <1>5, <1>6, <1>10, <2>1, <2>2, <2>4, TabInserted
  <2> QED
    BY <2>3, <2>5
<1>12. /\ u.saved = y.saved /\ u.savedBy = y.savedBy /\ u.file = y.file
       /\ u.loading = y.loading /\ u.status = y.status
  BY <1>11 DEF Differs, TabFields
<1>13. PICK q2 : q2 = Tabs!InsertAt(q, i, k)
  OBVIOUS
<1>14. u.tabs[1] = q2
  <2>1. y.tabs \in [Tabs!Windows -> Seq(Tabs!Crawlers)]
    BY <1>6 DEF TabsGood, TabsTyped
  <2> QED
    BY <1>7, <1>11, <1>13, <2>1, FirstWindow
<1>15. /\ Len(q2) = Len(q) + 1 /\ q2[i] = k
       /\ \A j \in 1 .. i - 1 : q2[j] = q[j]
  <2>1. WithAt(q2, q, i, k)
    <3>1. q \in Seq(Tabs!Crawlers) /\ i \in 1 .. Len(q) + 1 /\ k \in Tabs!Crawlers
      BY <1>3, <1>7, <1>9
    <3> QED
      BY <1>13, <3>1, InsertIs
  <2> QED
    BY <2>1, <1>9 DEF WithAt
<1>16. Len(u.tabs[1]) = k /\ \A j \in 1 .. k : u.tabs[1][j] = j
  <2>1. ASSUME NEW j \in 1 .. k
        PROVE  q2[j] = j
    <3>1. CASE j = k
      BY <1>9, <1>15, <3>1
    <3>2. CASE j # k
      <4>1. j \in 1 .. k - 1
        BY <3>2
      <4> QED
        BY <1>1, <1>7, <1>9, <1>15, <4>1
    <3> QED
      BY <3>1, <3>2
  <2> QED
    BY <1>9, <1>14, <1>15, <2>1
<1> QED
  BY <1>1, <1>4, <1>11, <1>12, <1>16 DEF Reinserted

(* There are no more tabs in a window than crawlers. *)
LEMMA DistinctShort ==
  ASSUME NEW d \in Seq(Tabs!Crawlers), Distinct(d)
  PROVE  Len(d) \in Nat /\ Len(d) <= MaxCrawlers
<1>1. Len(d) \in Nat /\ d \in [1 .. Len(d) -> Tabs!Crawlers]
  OBVIOUS
<1>2. MaxCrawlers \in Nat
  BY WindowsAssumption
<1>3. PICK m : m = Len(d)
  OBVIOUS
<1>4. /\ IsFiniteSet(1 .. m) /\ Cardinality(1 .. m) = m
      /\ IsFiniteSet(1 .. MaxCrawlers) /\ Cardinality(1 .. MaxCrawlers) = MaxCrawlers
  <2>1. m \in Int /\ MaxCrawlers \in Int /\ 1 \in Int
    BY <1>1, <1>2, <1>3
  <2>2. IsFiniteSet(1 .. m) /\ Cardinality(1 .. m) = IF 1 > m THEN 0 ELSE m - 1 + 1
    BY <2>1, FS_Interval
  <2>3. /\ IsFiniteSet(1 .. MaxCrawlers)
        /\ Cardinality(1 .. MaxCrawlers) = IF 1 > MaxCrawlers THEN 0 ELSE MaxCrawlers - 1 + 1
    BY <2>1, FS_Interval
  <2> QED
    BY <1>1, <1>2, <1>3, <2>2, <2>3
<1>5. SUFFICES ASSUME MaxCrawlers < m
               PROVE  FALSE
  BY <1>1, <1>2, <1>3
<1>6. PICK T : T = 1 .. MaxCrawlers
  OBVIOUS
<1>7. PICK S : S = 1 .. m
  OBVIOUS
<1>8. d \in [S -> T]
  BY <1>1, <1>3, <1>6, <1>7 DEF Tabs!Crawlers
<1>9. IsFiniteSet(S) /\ IsFiniteSet(T) /\ Cardinality(T) < Cardinality(S)
  BY <1>4, <1>5, <1>6, <1>7
<1>10. \E i, j \in S : i # j /\ d[i] = d[j]
  BY <1>8, <1>9, FS_PigeonHole
<1> QED
  BY <1>3, <1>7, <1>10 DEF Distinct

(* The saved session is opened again, one tab for each of its files.        *)
LEMMA Reloaded ==
  ASSUME NEW x, TabsGood(x, {}), SessionSaved(x), NEW list, list = x.saved,
         NEW u, u = Tabs!reloadSession(list)
  PROVE  TabsGood(u, {}) /\ SessionSaved(u)
<1>1. list \in SavedLists
  BY DEF TabsGood, TabsTyped, SavedLists
<1>2. Len(list) <= MaxCrawlers
  <2>1. PICK d \in Seq(Tabs!Crawlers) : Distinct(d) /\ Len(d) = Len(list)
    BY DEF SessionSaved
  <2> QED
    BY <2>1, DistinctShort
<1> DEFINE l == Len(list)
           restore == CHOOSE f : f = [k \in 0 .. l |->
                        IF k = 0 THEN Tabs!Empty(list)
                        ELSE Tabs!openAlways(f[k - 1], k, list[k].file, list[k].follow)]
           start == restore[l]
           After(y, k) == Tabs!insertTab(y, 1, Len(y.tabs[1]) + 1, k, FALSE)
           all == CHOOSE f : f = [k \in 0 .. l |-> IF k = 0 THEN start ELSE After(f[k - 1], k)]
           step == [p \in (1 .. l) \X TabStates |-> After(p[2], p[1])]
           D == [k \in 0 .. l |-> {y \in TabStates : Reinserted(y, list, k)}]
<1>3. u = all[l]
  BY DEF Tabs!reloadSession
<1>4. Restored(start, list, l)
  BY <1>1, <1>2, RestoreEnds
<1>5. l \in Nat
  BY <1>1, LengthIn DEF SavedLists
<1>6. \A k \in 1 .. l, y \in TabStates : step[<<k, y>>] = After(y, k)
  OBVIOUS
<1>7. \A k \in 0 .. l : \A y : y \in D[k] <=> y \in TabStates /\ Reinserted(y, list, k)
  OBVIOUS
<1>8. \A y, k : Reinserted(y, list, k) => y \in TabStates
  BY StateIn DEF Reinserted, TabsGood
<1>9. ASSUME NEW k \in 1 .. l, NEW y, Reinserted(y, list, k - 1)
      PROVE  Reinserted(After(y, k), list, k)
  <2>1. PICK b \in BOOLEAN : b = FALSE
    OBVIOUS
  <2>2. After(y, k) = Tabs!insertTab(y, 1, Len(y.tabs[1]) + 1, k, b)
    BY <2>1
  <2> QED
    BY <1>1, <1>2, <1>9, <2>2, ReinsertNext
<1> HIDE DEF restore, start, all, step, D, After
<1>10. Reinserted(start, list, 0)
  <2>1. /\ TabsGood(start, 1 .. l) /\ start.saved = list /\ start.savedBy = 1
        /\ \A w \in Tabs!Windows : start.tabs[w] = <<>>
        /\ \A c \in Tabs!Crawlers :
             IF c <= l
             THEN start.file[c] = list[c].file /\ start.loading[c] /\ start.status[c] = "old"
             ELSE start.file[c] = Tabs!NoFile
    BY <1>4 DEF Restored
  <2>2. start.tabs[1] = <<>> /\ Len(start.tabs[1]) = 0
    BY <2>1, FirstWindow
  <2>3. ASSUME NEW c \in 1 .. l
        PROVE  start.file[c] = list[c].file /\ start.loading[c] /\ start.status[c] = "old"
    <3>1. MaxCrawlers \in Nat
      BY WindowsAssumption
    <3>2. c \in Tabs!Crawlers /\ c <= l
      BY <1>2, <1>5, <3>1 DEF Tabs!Crawlers
    <3> QED
      BY <2>1, <3>2
  <2>4. TabsGood(start, 0 + 1 .. l)
    BY <2>1
  <2> QED
    BY <2>1, <2>2, <2>3, <2>4 DEF Reinserted
<1>11. start \in D[0]
  <2>1. 0 \in 0 .. l
    BY <1>5
  <2> QED
    BY <1>7, <1>8, <1>10, <2>1
<1>12. ASSUME NEW k \in 1 .. l, NEW y \in D[k - 1]
       PROVE  y \in TabStates /\ After(y, k) \in D[k]
  <2>1. k - 1 \in 0 .. l /\ k \in 0 .. l
    BY <1>5
  <2>2. y \in TabStates /\ Reinserted(y, list, k - 1)
    BY <1>7, <2>1
  <2>3. Reinserted(After(y, k), list, k)
    BY <1>9, <2>2
  <2> QED
    BY <1>7, <1>8, <2>1, <2>2, <2>3
<1> HIDE DEF l
<1>13. PICK f : /\ f = [k \in 0 .. l |-> f[k]] /\ Follows(f, l, start, step)
                /\ \A k \in 0 .. l : f[k] \in D[k]
  <2>1. \A k \in 0 .. l : D[k] \subseteq TabStates
    BY <1>7
  <2>2. ASSUME NEW k \in 1 .. l, NEW y \in D[k - 1]
        PROVE  step[<<k, y>>] \in D[k]
    <3>1. y \in TabStates /\ After(y, k) \in D[k]
      BY <1>12
    <3> QED
      BY <1>6, <3>1
  <2> QED
    BY <1>5, <1>11, <2>1, <2>2, RecursionIn
<1>14. f = [k \in 0 .. l |-> IF k = 0 THEN start ELSE After(f[k - 1], k)]
  <2>1. ASSUME NEW k \in 0 .. l, k # 0
        PROVE  f[k] = After(f[k - 1], k)
    <3>1. k \in 1 .. l /\ k - 1 \in 0 .. l
      BY <1>5, <2>1
    <3>2. f[k - 1] \in TabStates
      BY <1>12, <1>13, <3>1
    <3>3. f[k] = step[<<k, f[k - 1]>>]
      BY <1>13, <3>1 DEF Follows
    <3> QED
      BY <1>6, <3>1, <3>2, <3>3
  <2>2. \A k \in 0 .. l : f[k] = IF k = 0 THEN start ELSE After(f[k - 1], k)
    BY <1>13, <2>1 DEF Follows
  <2> QED
    BY <1>13, <2>2
<1>15. all = [k \in 0 .. l |-> IF k = 0 THEN start ELSE After(all[k - 1], k)]
  BY <1>14 DEF all
<1>16. all[0] = start /\ \A k \in 1 .. l : all[k] = After(all[k - 1], k)
  <2>1. 0 \in 0 .. l /\ \A k \in 1 .. l : k \in 0 .. l /\ k # 0
    BY <1>5
  <2> QED
    BY <1>15, <2>1
<1>17. \A k \in 0 .. l : all[k] \in D[k]
  <2>1. \A k \in 1 .. l : all[k - 1] \in D[k - 1] => all[k] \in D[k]
    BY <1>12, <1>16
  <2> QED
    BY <1>5, <1>11, <1>16, <2>1, StaysIn
<1>18. Reinserted(u, list, l)
  BY <1>3, <1>5, <1>7, <1>17
<1>19. /\ TabsGood(u, l + 1 .. l) /\ u.saved = list /\ u.savedBy = 1
       /\ Len(u.tabs[1]) = l /\ \A j \in 1 .. l : u.tabs[1][j] = j
       /\ \A c \in 1 .. l : u.file[c] = list[c].file
  BY <1>18 DEF Reinserted, l
<1>20. TabsGood(u, {})
  <2>1. l + 1 .. l = {}
    BY <1>5
  <2> QED
    BY <1>19, <2>1
<1>21. SessionSaved(u)
  <2>1. PICK d : d = u.tabs[1]
    OBVIOUS
  <2>2. d \in Seq(Tabs!Crawlers) /\ Len(d) = l /\ \A j \in 1 .. l : d[j] = j
    BY <1>19, <1>20, <2>1, FirstWindow, TabIn DEF TabsGood
  <2>3. Distinct(d) /\ Within(d, d)
    BY <2>2 DEF Distinct, Within
  <2>4. u.tabs[u.savedBy] = d /\ Len(u.saved) = l
    BY <1>19, <2>1 DEF l
  <2>5. \A k \in 1 .. Len(u.saved) : u.saved[k].file = u.file[d[k]]
    BY <1>19, <2>2, <2>4
  <2> QED
    BY <2>2, <2>3, <2>4, <2>5 DEF SessionSaved
<1> QED
  BY <1>20, <1>21

-----------------------------------------------------------------------------
(* Steps that the invariant says nothing of. *)
LEMMA DragSet ==
  ASSUME NEW x, TabsGood(x, {}), SessionSaved(x), NEW e,
         e = Tabs!NoDrag \/ e \in [from : Tabs!Windows, index : Nat],
         NEW u, u = [x EXCEPT !.drag = e]
  PROVE  TabsGood(u, {}) /\ SessionSaved(u)
<1>1. TabsTyped(x)
  BY DEF TabsGood
<1>2. PICK F : F = {"drag"}
  OBVIOUS
<1>3. Differs(x, u, F) /\ u.drag = e
  BY <1>1, <1>2 DEF TabsTyped, Differs, TabFields
<1>4. TabsTyped(u)
  BY <1>1, <1>2, <1>3, StaysTyped
<1>5. F \subseteq {"windows", "pinned", "firstLoadDone", "searching", "drag"}
  BY <1>2
<1> QED
  BY <1>3, <1>4, <1>5, GoodSame

(* A search begins or ends. *)
LEMMA SearchSet ==
  ASSUME NEW x, TabsGood(x, {}), SessionSaved(x), NEW c \in Tabs!Crawlers,
         NEW b \in BOOLEAN, NEW u, u = [x EXCEPT !.searching[c] = b]
  PROVE  TabsGood(u, {}) /\ SessionSaved(u)
<1>1. TabsTyped(x)
  BY DEF TabsGood
<1>2. PICK F : F = {"searching"}
  OBVIOUS
<1>3. Differs(x, u, F) /\ u.searching = [x.searching EXCEPT ![c] = b]
  BY <1>1, <1>2 DEF TabsTyped, Differs, TabFields
<1>4. u.searching \in [Tabs!Crawlers -> BOOLEAN]
  BY <1>1, <1>3 DEF TabsTyped
<1>5. TabsTyped(u)
  BY <1>1, <1>2, <1>3, <1>4, StaysTyped
<1>6. F \subseteq {"windows", "pinned", "firstLoadDone", "searching", "drag"}
  BY <1>2
<1> QED
  BY <1>3, <1>5, <1>6, GoodSame

(* A tab is pinned or not. *)
LEMMA PinnedSet ==
  ASSUME NEW x, TabsGood(x, {}), SessionSaved(x), NEW c \in Tabs!Crawlers,
         NEW b \in BOOLEAN, NEW u, u = [x EXCEPT !.pinned[c] = b]
  PROVE  TabsGood(u, {}) /\ SessionSaved(u)
<1>1. TabsTyped(x)
  BY DEF TabsGood
<1>2. PICK F : F = {"pinned"}
  OBVIOUS
<1>3. Differs(x, u, F) /\ u.pinned = [x.pinned EXCEPT ![c] = b]
  BY <1>1, <1>2 DEF TabsTyped, Differs, TabFields
<1>4. u.pinned \in [Tabs!Crawlers -> BOOLEAN]
  BY <1>1, <1>3 DEF TabsTyped
<1>5. TabsTyped(u)
  BY <1>1, <1>2, <1>3, <1>4, StaysTyped
<1>6. F \subseteq {"windows", "pinned", "firstLoadDone", "searching", "drag"}
  BY <1>2
<1> QED
  BY <1>3, <1>5, <1>6, GoodSame

(* The cardinality that the module of the windows means.                    *)
LEMMA CardinalityIs ==
  ASSUME NEW S
  PROVE  Tabs!Cardinality(S) = Cardinality(S)
BY DEF Tabs!Cardinality, Cardinality

(* A window more, without tabs. *)
LEMMA WindowAdded ==
  ASSUME NEW x, TabsGood(x, {}), SessionSaved(x), Cardinality(x.windows) < MaxWindows,
         NEW W, W = x.windows \cup {Cardinality(x.windows) + 1},
         NEW u, u = [x EXCEPT !.windows = W]
  PROVE  TabsGood(u, {}) /\ SessionSaved(u)
<1>1. TabsTyped(x) /\ x.windows \in SUBSET Tabs!Windows
  BY DEF TabsGood, TabsTyped
<1>2. PICK F : F = {"windows"}
  OBVIOUS
<1>3. PICK n : n = Cardinality(x.windows)
  OBVIOUS
<1>4. Differs(x, u, F) /\ u.windows = x.windows \cup {n + 1}
  BY <1>1, <1>2, <1>3 DEF TabsTyped, Differs, TabFields
<1>5. MaxWindows \in Nat
  BY WindowsAssumption
<1>6. n \in Nat
  <2>1. IsFiniteSet(Tabs!Windows)
    BY <1>5, FS_Interval DEF Tabs!Windows
  <2>2. IsFiniteSet(x.windows)
    BY <1>1, <2>1, FS_Subset
  <2> QED
    BY <1>3, <2>2, FS_CardinalityType
<1>7. u.windows \in SUBSET Tabs!Windows
  BY <1>1, <1>3, <1>4, <1>5, <1>6 DEF Tabs!Windows
<1>8. TabsTyped(u)
  BY <1>1, <1>2, <1>4, <1>7, StaysTyped
<1>9. F \subseteq {"windows", "pinned", "firstLoadDone", "searching", "drag"}
  BY <1>2
<1> QED
  BY <1>4, <1>8, <1>9, GoodSame

(* A tab becomes the current one. *)
LEMMA TabChosen ==
  ASSUME NEW x, TabsGood(x, {}), SessionSaved(x), NEW w \in Tabs!Windows, NEW i,
         NEW u, u = Tabs!setCurrentIndex(x, w, i)
  PROVE  TabsGood(u, {}) /\ SessionSaved(u)
<1>1. TabsGood(u, {}) /\ Differs(x, u, {"current", "title", "info", "followAction"})
  BY TabSelected
<1>2. u.tabs = x.tabs /\ u.file = x.file /\ u.saved = x.saved /\ u.savedBy = x.savedBy
  BY <1>1 DEF Differs, TabFields
<1> QED
  BY <1>1, <1>2, SavedSame

(* A range of tabs is closed. *)
LEMMA RangeClosed ==
  ASSUME NEW x, TabsGood(x, {}), SessionSaved(x), NEW w \in Tabs!Windows,
         NEW begin \in Nat, NEW end \in Nat, 1 <= begin, begin <= end,
         end <= Len(x.tabs[w]) + 1, NEW u, u = Tabs!closeTabs(x, w, begin, end)
  PROVE  TabsGood(u, {}) /\ SessionSaved(u)
<1>1. PICK list : list = x.tabs[w]
  OBVIOUS
<1>2. PICK S : S = {c \in Tabs!Crawlers : x.pinned[c]}
  OBVIOUS
<1> QED
  BY <1>1, <1>2, TabsClosed

-----------------------------------------------------------------------------
(***************************************************************************)
(* The steps of the windows: what is done to a tab, to a window, by a      *)
(* crawler.                                                                *)
(***************************************************************************)
LEMMA TabStep ==
  ASSUME TabsGood(g, {}), SessionSaved(g), NEW w \in Tabs!Windows,
         NEW i \in 1 .. Len(g.tabs[w]), Tabs!OnTab(w, i)
  PROVE  TabsGood(g', {}) /\ SessionSaved(g')
<1>1. TabsTyped(g) /\ Placed(g, {})
  BY DEF TabsGood
<1>2. PICK c : c = g.tabs[w][i]
  OBVIOUS
<1>3. c \in Tabs!Crawlers /\ Len(g.tabs[w]) \in Nat /\ i \in Nat
  BY <1>1, <1>2, TabIn
<1>4. CASE Tabs!onDuplicateTab(w, i)
  <2>1. PICK name : name = g.file[c]
    OBVIOUS
  <2>2. name \in Files
    <3>1. name # Tabs!NoFile
      BY <1>1, <1>2, <2>1 DEF Placed
    <3>2. name \in Named
      BY <1>1, <1>3, <2>1 DEF TabsTyped
    <3> QED
      BY <3>1, <3>2 DEF Named
  <2>3. PICK j : j = Len(g.tabs[w]) + 1
    OBVIOUS
  <2>4. j \in 1 .. Len(g.tabs[w]) + 1
    BY <1>3, <2>3
  <2>5. PICK b : b = TRUE
    OBVIOUS
  <2>6. g' \in Tabs!loadFile(g, w, name, j, b)
    BY <1>2, <1>4, <2>1, <2>3, <2>5 DEF Tabs!onDuplicateTab
  <2> QED
    BY <2>2, <2>4, <2>6, FileLoaded
<1>5. CASE Tabs!tabCloseRequested(w, i)
  <2>1. g' = Tabs!closeTab(g, w, i)
    BY <1>5 DEF Tabs!tabCloseRequested
  <2> QED
    BY <2>1, TabClosed DEF TabsGood
<1>6. ASSUME NEW b \in BOOLEAN, Tabs!setPinned(w, i, b)
      PROVE  TabsGood(g', {}) /\ SessionSaved(g')
  <2>1. g' = [g EXCEPT !.pinned[c] = b]
    BY <1>2, <1>6 DEF Tabs!setPinned
  <2> QED
    BY <1>3, <2>1, PinnedSet
<1>7. CASE Tabs!moveToStart(w, i) \/ Tabs!moveToEnd(w, i)
  <2>1. PICK to : g' = Tabs!moveTab(g, w, i, to)
    BY <1>7 DEF Tabs!moveToStart, Tabs!moveToEnd
  <2> QED
    BY <2>1, TabMoved
<1>8. CASE Tabs!selectTab(w, i)
  <2>1. g' = Tabs!setCurrentIndex(g, w, i)
    BY <1>8 DEF Tabs!selectTab
  <2> QED
    BY <2>1, TabChosen
<1>9. CASE Tabs!onTabDragStarted(w, i)
  <2>1. PICK y : y = Tabs!setCurrentIndex(g, w, i)
    OBVIOUS
  <2>2. TabsGood(y, {}) /\ SessionSaved(y)
    BY <2>1, TabChosen
  <2>3. PICK e : e = [from |-> w, index |-> i]
    OBVIOUS
  <2>4. g' = [y EXCEPT !.drag = e]
    BY <1>9, <2>1, <2>3 DEF Tabs!onTabDragStarted
  <2>5. e \in [from : Tabs!Windows, index : Nat]
    BY <1>3, <2>3
  <2> QED
    BY <2>2, <2>4, <2>5, DragSet
<1>10. CASE Tabs!closeSomeTabs(w, 1, i)
  <2>1. g' = Tabs!closeTabs(g, w, 1, i)
    BY <1>10 DEF Tabs!closeSomeTabs
  <2>2. 1 \in Nat /\ 1 <= 1 /\ 1 <= i /\ i <= Len(g.tabs[w]) + 1
    BY <1>3
  <2> QED
    BY <1>3, <2>1, <2>2, RangeClosed
<1>11. CASE Tabs!closeSomeTabs(w, i + 1, Len(g.tabs[w]) + 1)
  <2>1. PICK begin, end : begin = i + 1 /\ end = Len(g.tabs[w]) + 1
    OBVIOUS
  <2>2. g' = Tabs!closeTabs(g, w, begin, end)
    BY <1>11, <2>1 DEF Tabs!closeSomeTabs
  <2>3. /\ begin \in Nat /\ end \in Nat /\ 1 <= begin /\ begin <= end
        /\ end <= Len(g.tabs[w]) + 1
    BY <1>3, <2>1
  <2> QED
    BY <2>2, <2>3, RangeClosed
<1> QED
  BY <1>4, <1>5, <1>6, <1>7, <1>8, <1>9, <1>10, <1>11 DEF Tabs!OnTab

-----------------------------------------------------------------------------
(* A drop from another window, whose tab may be gone by then. *)
LEMMA TabDroppedHere ==
  ASSUME TabsGood(g, {}), SessionSaved(g), NEW w \in Tabs!Windows,
         NEW i \in 1 .. Len(g.tabs[w]) + 1, Tabs!dropInOtherWindow(w, i)
  PROVE  TabsGood(g', {}) /\ SessionSaved(g')
<1>1. TabsTyped(g)
  BY DEF TabsGood
<1>2. PICK from, j : from = g.drag.from /\ j = g.drag.index
  OBVIOUS
<1>3. from \in Tabs!Windows /\ w # from
  BY <1>1, <1>2 DEF TabsTyped, Tabs!dropInOtherWindow
<1>4. CASE j \in 1 .. Len(g.tabs[from])
  <2>1. PICK y : y = Tabs!onTabDragAndDrop(g, w, i)
    OBVIOUS
  <2>2. TabsGood(y, {}) /\ SessionSaved(y)
    BY <1>2, <1>3, <1>4, <2>1, TabDropped
  <2>3. PICK e : e = Tabs!NoDrag
    OBVIOUS
  <2>4. g' = [y EXCEPT !.drag = e]
    BY <1>2, <1>4, <2>1, <2>3 DEF Tabs!dropInOtherWindow
  <2> QED
    BY <2>2, <2>3, <2>4, DragSet
<1>5. CASE j \notin 1 .. Len(g.tabs[from])
  <2>1. PICK list : list = g.saved
    OBVIOUS
  <2>2. g' = Tabs!reloadSession(list)
    BY <1>2, <1>5, <2>1 DEF Tabs!dropInOtherWindow
  <2> QED
    BY <2>1, <2>2, Reloaded
<1> QED
  BY <1>4, <1>5

(* What is done to a window, by its menu or from outside. *)
LEMMA WindowStep ==
  ASSUME TabsGood(g, {}), SessionSaved(g), NEW w \in Tabs!Windows, Tabs!OnWindow(w)
  PROVE  TabsGood(g', {}) /\ SessionSaved(g')
<1>1. TabsTyped(g) /\ Placed(g, {})
  BY DEF TabsGood
<1>2. Len(g.tabs[w]) \in Nat
  BY <1>1, TabIn
<1>3. PICK c : c = CrawlerOf(g, w)
  OBVIOUS
<1>4. c = Tabs!currentCrawlerWidget(g, w)
  BY <1>3, CrawlerIs
<1>5. g.current[w] # 0 => c \in Tabs!Crawlers /\ g.file[c] # Tabs!NoFile
  <2>1. ASSUME g.current[w] # 0
        PROVE  c \in Tabs!Crawlers /\ g.file[c] # Tabs!NoFile
    <3>1. g.current[w] \in 0 .. Len(g.tabs[w])
      BY <1>1 DEF Placed
    <3>2. c \in Tabs!Crawlers
      BY <1>1, <1>3, <2>1, <3>1, CrawlerIn
    <3>3. c # 0
      BY <3>2 DEF Tabs!Crawlers
    <3> QED
      BY <1>1, <1>3, <3>2, <3>3, ShownIsTab
  <2> QED
    BY <2>1
<1>6. ASSUME NEW name \in Files, NEW i \in 1 .. Len(g.tabs[w]) + 1,
             \/ Tabs!open(w, name) /\ i = Len(g.tabs[w]) + 1
             \/ Tabs!dropFromOtherProcess(w, i, name)
      PROVE  TabsGood(g', {}) /\ SessionSaved(g')
  <2>1. PICK b : b = FALSE
    OBVIOUS
  <2>2. g' \in Tabs!loadFile(g, w, name, i, b)
    BY <1>6, <2>1 DEF Tabs!open, Tabs!dropFromOtherProcess
  <2> QED
    BY <2>2, FileLoaded
<1>7. CASE Tabs!closeAllTabs(w)
  <2>1. g' = Tabs!closeAll(g, w)
    BY <1>7 DEF Tabs!closeAllTabs
  <2> QED
    BY <2>1, AllClosed
<1>8. CASE Tabs!closeSomeTabs(w, 1, Len(g.tabs[w]) + 1)
  <2>1. PICK begin, end : begin = 1 /\ end = Len(g.tabs[w]) + 1
    OBVIOUS
  <2>2. g' = Tabs!closeTabs(g, w, begin, end)
    BY <1>8, <2>1 DEF Tabs!closeSomeTabs
  <2>3. /\ begin \in Nat /\ end \in Nat /\ 1 <= begin /\ begin <= end
        /\ end <= Len(g.tabs[w]) + 1
    BY <1>2, <2>1
  <2> QED
    BY <2>2, <2>3, RangeClosed
<1>9. ASSUME NEW b \in BOOLEAN, Tabs!followFile(w, b) \/ Tabs!hooked(w, b)
      PROVE  TabsGood(g', {}) /\ SessionSaved(g')
  <2>1. \E W : W \subseteq Tabs!Windows /\ g' = Tabs!changeFollowMode(g, W, b)
    <3>1. CASE Tabs!followFile(w, b)
      BY <3>1 DEF Tabs!followFile
    <3>2. CASE Tabs!hooked(w, b)
      <4>1. g' = Tabs!changeFollowMode(g, g.listeners[c], b) /\ c \in Tabs!Crawlers
        BY <1>4, <1>5, <3>2 DEF Tabs!hooked, Tabs!followModeChanged
      <4>2. g.listeners[c] \subseteq Tabs!Windows
        BY <1>1, <4>1 DEF TabsTyped
      <4> QED
        BY <4>1, <4>2
    <3> QED
      BY <1>9, <3>1, <3>2
  <2> QED
    BY <2>1, FollowChanged
<1>10. CASE Tabs!activityDetected(w)
  <2>1. PICK status : status = "old"
    OBVIOUS
  <2>2. status \in Statuses
    BY <2>1 DEF Statuses
  <2>3. g' = Tabs!changeDataStatus(g, c, status) /\ g.current[w] # 0
    BY <1>4, <1>10, <2>1 DEF Tabs!activityDetected
  <2> QED
    BY <1>5, <2>2, <2>3, StatusChanged
<1>11. CASE Tabs!startNewSearch(w)
  <2>1. PICK b \in BOOLEAN : b = TRUE
    OBVIOUS
  <2>2. g' = [g EXCEPT !.searching[c] = b] /\ g.current[w] # 0
    BY <1>4, <1>11, <2>1 DEF Tabs!startNewSearch
  <2> QED
    BY <1>5, <2>2, SearchSet
<1>12. ASSUME NEW name \in Files, Tabs!open(w, name)
       PROVE  TabsGood(g', {}) /\ SessionSaved(g')
  <2>1. Len(g.tabs[w]) + 1 \in 1 .. Len(g.tabs[w]) + 1
    BY <1>2
  <2>2. PICK i \in 1 .. Len(g.tabs[w]) + 1 : i = Len(g.tabs[w]) + 1
    BY <2>1
  <2> QED
    BY <1>6, <1>12, <2>2
<1> QED
  BY <1>6, <1>7, <1>8, <1>9, <1>10, <1>11, <1>12, TabDroppedHere DEF Tabs!OnWindow

(* What a crawler tells of, whoever shows it. *)
LEMMA CrawlerStep ==
  ASSUME TabsGood(g, {}), SessionSaved(g), NEW c \in Tabs!Crawlers, Tabs!Crawler(c)
  PROVE  TabsGood(g', {}) /\ SessionSaved(g')
<1>1. TabsTyped(g)
  BY DEF TabsGood
<1>2. CASE Tabs!fileGrew(c)
  <2>1. g' = [g EXCEPT !.indexing[c] = TRUE] /\ g.file[c] # Tabs!NoFile
    BY <1>2 DEF Tabs!fileGrew, Tabs!openFiles
  <2> QED
    BY <2>1, FileGrew
<1>3. CASE Tabs!newMatches(c)
  <2>1. PICK status : status = "filtered"
    OBVIOUS
  <2>2. status \in Statuses
    BY <2>1 DEF Statuses
  <2>3. g' = Tabs!changeDataStatus(g, c, status) /\ g.file[c] # Tabs!NoFile
    BY <1>3, <2>1 DEF Tabs!newMatches, Tabs!openFiles
  <2> QED
    BY <2>2, <2>3, StatusChanged
<1>4. CASE Tabs!searchFinished(c)
  <2>1. PICK b \in BOOLEAN : b = FALSE
    OBVIOUS
  <2>2. PICK y : y = IF g.follow[c] THEN g ELSE Tabs!followModeChanged(g, c, b)
    OBVIOUS
  <2>3. g' = [y EXCEPT !.searching[c] = b]
    BY <1>4, <2>1, <2>2 DEF Tabs!searchFinished
  <2>4. TabsGood(y, {}) /\ SessionSaved(y)
    <3>1. CASE g.follow[c]
      BY <2>2, <3>1
    <3>2. CASE ~g.follow[c]
      <4>1. PICK W : W = g.listeners[c]
        OBVIOUS
      <4>2. W \subseteq Tabs!Windows
        BY <1>1, <4>1 DEF TabsTyped
      <4>3. y = Tabs!changeFollowMode(g, W, b)
        BY <2>2, <3>2, <4>1 DEF Tabs!followModeChanged
      <4> QED
        BY <4>2, <4>3, FollowChanged
    <3> QED
      BY <3>1, <3>2
  <2> QED
    BY <2>3, <2>4, SearchSet
<1> QED
  BY <1>2, <1>3, <1>4, LoadStep DEF Tabs!Crawler

(* What the user does. *)
LEMMA UserStep ==
  ASSUME TabsGood(g, {}), SessionSaved(g), Tabs!User
  PROVE  TabsGood(g', {}) /\ SessionSaved(g')
<1>1. TabsTyped(g)
  BY DEF TabsGood
<1>2. CASE Tabs!newWindow
  <2>1. PICK W : W = g.windows \cup {Cardinality(g.windows) + 1}
    OBVIOUS
  <2>2. Cardinality(g.windows) < MaxWindows /\ g' = [g EXCEPT !.windows = W]
    BY <1>2, <2>1, CardinalityIs DEF Tabs!newWindow
  <2> QED
    BY <2>1, <2>2, WindowAdded
<1>3. CASE Tabs!quitAndStart
  <2>1. PICK list : list = g.saved
    OBVIOUS
  <2>2. g' = Tabs!reloadSession(list)
    BY <1>3, <2>1 DEF Tabs!quitAndStart
  <2> QED
    BY <2>1, <2>2, Reloaded
<1>4. PICK e : e = Tabs!NoDrag
  OBVIOUS
<1>5. CASE Tabs!dragCancelled
  <2>1. g' = [g EXCEPT !.drag = e]
    BY <1>4, <1>5 DEF Tabs!dragCancelled
  <2> QED
    BY <1>4, <2>1, DragSet
<1>6. ASSUME NEW i, Tabs!dropInSameBar(i)
      PROVE  TabsGood(g', {}) /\ SessionSaved(g')
  <2>1. PICK w, from, to : /\ w = g.drag.from /\ from = g.drag.index
                           /\ to = IF from < i THEN i - 1 ELSE i
    OBVIOUS
  <2>2. PICK y : y = Tabs!moveTab(g, w, from, to)
    OBVIOUS
  <2>3. g' = [y EXCEPT !.drag = e] /\ g.drag # Tabs!NoDrag
    BY <1>4, <1>6, <2>1, <2>2 DEF Tabs!dropInSameBar
  <2>4. w \in Tabs!Windows
    BY <1>1, <2>1, <2>3 DEF TabsTyped
  <2>5. TabsGood(y, {}) /\ SessionSaved(y)
    BY <2>2, <2>4, TabMoved
  <2> QED
    BY <1>4, <2>3, <2>5, DragSet
<1>7. ASSUME NEW w \in g.windows,
             Tabs!OnWindow(w) \/ \E i \in 1 .. Len(g.tabs[w]) : Tabs!OnTab(w, i)
      PROVE  TabsGood(g', {}) /\ SessionSaved(g')
  <2>1. w \in Tabs!Windows
    BY <1>1 DEF TabsTyped
  <2> QED
    BY <1>7, <2>1, WindowStep, TabStep
<1> QED
  BY <1>2, <1>3, <1>5, <1>6, <1>7 DEF Tabs!User

-----------------------------------------------------------------------------
(***************************************************************************)
(* The invariant of the windows, and what follows from it.                 *)
(***************************************************************************)
LEMMA SavedAgain ==
  ASSUME NEW x, TabsTyped(x), Placed(x, {}), SessionSaved(x), NEW name \in Files,
         NEW list, list = x.tabs[x.savedBy],
         NEW A, A = {k \in DOMAIN list : x.file[list[k]] = name},
         NEW B, B = {k \in DOMAIN x.saved : x.saved[k].file = name}
  PROVE  Cardinality(A) = Cardinality(B)
<1>1. PICK d \in Seq(Tabs!Crawlers) :
        /\ Distinct(d) /\ Len(d) = Len(x.saved) /\ Within(d, list) /\ Within(list, d)
        /\ \A k \in 1 .. Len(x.saved) : x.saved[k].file = x.file[d[k]]
  BY DEF SessionSaved
<1>2. PICK l, n : l = Len(list) /\ n = Len(d)
  OBVIOUS
<1>3. /\ l \in Nat /\ n \in Nat /\ DOMAIN list = 1 .. l /\ DOMAIN x.saved = 1 .. n
      /\ x.savedBy \in Tabs!Windows
  <2>1. x.savedBy \in Tabs!Windows /\ x.saved \in Seq([file : Files, follow : BOOLEAN])
    BY DEF TabsTyped
  <2>2. list \in Seq(Tabs!Crawlers)
    BY <2>1, TabIn
  <2> QED
    BY <1>1, <1>2, <2>1, <2>2
<1>4. \A i, j \in 1 .. l : list[i] = list[j] => i = j
  BY <1>2, <1>3 DEF Placed
<1>5. A = {k \in 1 .. l : x.file[list[k]] = name}
  BY <1>3
<1>6. B = {k \in 1 .. n : x.file[d[k]] = name}
  BY <1>1, <1>2, <1>3
<1>7. \A k \in 1 .. n : \E j \in 1 .. l : d[k] = list[j]
  BY <1>1, <1>2 DEF Within
<1>8. \A j \in 1 .. l : \E k \in 1 .. n : list[j] = d[k]
  BY <1>1, <1>2 DEF Within
<1>9. \A i, j \in 1 .. n : d[i] = d[j] => i = j
  BY <1>1, <1>2 DEF Distinct
<1> DEFINE f == [k \in B |-> CHOOSE j \in 1 .. l : d[k] = list[j]]
<1>10. \A k \in B : f[k] \in 1 .. l /\ d[k] = list[f[k]] /\ k \in 1 .. n
  BY <1>6, <1>7
<1>11. f = [k \in B |-> f[k]]
  OBVIOUS
<1> HIDE DEF f
<1>12. \A k \in B : f[k] \in A
  BY <1>5, <1>6, <1>10
<1>13. f \in [B -> A]
  BY <1>11, <1>12
<1>14. \A i, j \in B : f[i] = f[j] => i = j
  BY <1>9, <1>10
<1>15. ASSUME NEW j \in A
       PROVE  \E k \in B : f[k] = j
  <2>1. j \in 1 .. l /\ x.file[list[j]] = name
    BY <1>5
  <2>2. PICK k \in 1 .. n : list[j] = d[k]
    BY <1>8, <2>1
  <2>3. k \in B
    BY <1>6, <2>1, <2>2
  <2>4. f[k] = j
    BY <1>4, <1>10, <2>1, <2>2, <2>3
  <2> QED
    BY <2>3, <2>4
<1>16. f \in Bijection(B, A)
  <2>1. f \in Injection(B, A)
    BY <1>13, <1>14 DEF Injection, IsInjective
  <2>2. f \in Surjection(B, A)
    BY <1>13, <1>15 DEF Surjection
  <2> QED
    BY <2>1, <2>2 DEF Bijection
<1>17. ExistsBijection(B, A)
  BY <1>16 DEF ExistsBijection
<1>18. IsFiniteSet(B)
  <2>1. IsFiniteSet(1 .. n)
    BY <1>3, FS_Interval
  <2> QED
    BY <1>6, <2>1, FS_Subset
<1> QED
  BY <1>17, <1>18, FS_Bijection

(* The places of a crawler in the tabs: one if it has a file, none if not. *)
LEMMA TabKnown ==
  ASSUME NEW x, TabsTyped(x), Placed(x, {}), NEW c \in Tabs!Crawlers,
         NEW K, K = {at \in Tabs!Windows \X (1 .. MaxCrawlers) :
                       at[2] <= Len(x.tabs[at[1]]) /\ x.tabs[at[1]][at[2]] = c}
  PROVE  Cardinality(K) = IF x.file[c] # Tabs!NoFile THEN 1 ELSE 0
<1>1. \A w \in Tabs!Windows, i \in 1 .. MaxCrawlers :
        <<w, i>> \in K <=> i \in 1 .. Len(x.tabs[w]) /\ x.tabs[w][i] = c
  <2>1. ASSUME NEW w \in Tabs!Windows, NEW i \in 1 .. MaxCrawlers
        PROVE  <<w, i>> \in K <=> i \in 1 .. Len(x.tabs[w]) /\ x.tabs[w][i] = c
    <3>1. Len(x.tabs[w]) \in Nat
      BY TabIn
    <3>2. PICK l \in Nat : l = Len(x.tabs[w])
      BY <3>1
    <3>3. i \in Int /\ 1 <= i
      OBVIOUS
    <3>4. i <= l <=> i \in 1 .. l
      BY <3>3
    <3> QED
      BY <3>2, <3>4
  <2> QED
    BY <2>1
<1>2. \A at \in K : \E w \in Tabs!Windows, i \in 1 .. MaxCrawlers : at = <<w, i>>
  OBVIOUS
<1>3. CASE x.file[c] = Tabs!NoFile
  <2>1. ASSUME NEW at \in K
        PROVE  FALSE
    <3>1. PICK w \in Tabs!Windows, i \in 1 .. MaxCrawlers : at = <<w, i>>
      BY <1>2
    <3>2. i \in 1 .. Len(x.tabs[w]) /\ x.tabs[w][i] = c
      BY <1>1, <3>1
    <3>3. x.file[x.tabs[w][i]] # Tabs!NoFile
      BY <3>2 DEF Placed
    <3> QED
      BY <1>3, <3>2, <3>3
  <2>2. K = {}
    BY <2>1
  <2> QED
    BY <1>3, <2>2, FS_EmptySet
<1>4. CASE x.file[c] # Tabs!NoFile
  <2>1. PICK w \in Tabs!Windows : \E i \in 1 .. Len(x.tabs[w]) : x.tabs[w][i] = c
    BY <1>4 DEF Placed
  <2>2. PICK i \in 1 .. Len(x.tabs[w]) : x.tabs[w][i] = c
    BY <2>1
  <2>3. x.tabs[w] \in Seq(Tabs!Crawlers) /\ Len(x.tabs[w]) \in Nat
    BY TabIn
  <2>4. Distinct(x.tabs[w])
    BY DEF Placed, Distinct
  <2>5. PICK list : list = x.tabs[w]
    OBVIOUS
  <2>6. Len(list) <= MaxCrawlers
    BY <2>3, <2>4, <2>5, DistinctShort
  <2>7. i \in 1 .. MaxCrawlers
    <3>1. PICK l \in Nat : l = Len(list)
      BY <2>3, <2>5
    <3>2. MaxCrawlers \in Nat
      BY WindowsAssumption
    <3>3. i \in 1 .. l /\ l <= MaxCrawlers
      BY <2>2, <2>5, <2>6, <3>1
    <3> QED
      BY <3>2, <3>3
  <2>8. <<w, i>> \in K
    BY <1>1, <2>2, <2>7
  <2>9. ASSUME NEW at \in K
        PROVE  at = <<w, i>>
    <3>1. PICK z \in Tabs!Windows, j \in 1 .. MaxCrawlers : at = <<z, j>>
      BY <1>2
    <3>2. j \in 1 .. Len(x.tabs[z]) /\ x.tabs[z][j] = c
      BY <1>1, <3>1
    <3>3. w = z /\ i = j
      BY <2>2, <3>2, OneTab
    <3> QED
      BY <3>1, <3>3
  <2>10. PICK pair : pair = <<w, i>>
    OBVIOUS
  <2>11. K = {pair}
    BY <2>8, <2>9, <2>10
  <2> QED
    BY <1>4, <2>11, FS_Singleton
<1> QED
  BY <1>3, <1>4

TabsInv == TabsGood(g, {}) /\ SessionSaved(g)

(* Whatever is opened, closed, moved or dragged, whichever load ends and    *)
(* whatever is saved and restored meanwhile. *)
THEOREM TabsInductive == Spec => [](use = "windows" => TabsInv)
<1>1. Init => (use = "windows" => TabsInv)
  <2> SUFFICES ASSUME Init, use = "windows" PROVE TabsInv
    OBVIOUS
  <2>1. Tabs!Init
    BY DEF Init
  <2>2. PICK list : list = <<>>
    OBVIOUS
  <2>3. list \in SavedLists /\ Len(list) = 0
    BY <2>2 DEF SavedLists
  <2>4. g = Tabs!Empty(list)
    BY <2>1, <2>2 DEF Tabs!Init
  <2>5. Restored(g, list, 0)
    BY <2>3, <2>4, RestoreStarts
  <2>6. TabsGood(g, {})
    <3>1. 1 .. 0 = {}
      OBVIOUS
    <3> QED
      BY <2>5, <3>1 DEF Restored
  <2>7. g.saved = <<>> /\ g.savedBy = 1 /\ g.tabs[1] = <<>>
    BY <2>2, <2>5, FirstWindow DEF Restored
  <2>8. SessionSaved(g)
    <3>1. PICK d : d = <<>>
      OBVIOUS
    <3>2. d \in Seq(Tabs!Crawlers) /\ Len(d) = 0
      BY <3>1
    <3>3. Distinct(d) /\ Within(d, d)
      BY <3>2 DEF Distinct, Within
    <3>4. g.saved = d /\ g.tabs[g.savedBy] = d
      BY <2>7, <3>1
    <3>5. \A k \in 1 .. Len(g.saved) : g.saved[k].file = g.file[d[k]]
      BY <3>2, <3>4
    <3> QED
      BY <3>2, <3>3, <3>4, <3>5 DEF SessionSaved
  <2> QED
    BY <2>6, <2>8 DEF TabsInv
<1>2. (use = "windows" => TabsInv) /\ [Next]_vars => (use = "windows" => TabsInv)'
  <2> SUFFICES ASSUME use = "windows", TabsInv, [Next]_vars
               PROVE  TabsInv'
    BY UseStays
  <2>0. [Tabs!Next]_(Tabs!vars)
    BY TabsSteps
  <2>1. TabsGood(g, {}) /\ SessionSaved(g)
    BY DEF TabsInv
  <2>2. CASE Tabs!User
    BY <2>1, <2>2, UserStep DEF TabsInv
  <2>3. ASSUME NEW c \in Tabs!Crawlers, Tabs!Crawler(c)
        PROVE  TabsInv'
    BY <2>1, <2>3, CrawlerStep DEF TabsInv
  <2>4. CASE UNCHANGED g
    BY <2>1, <2>4 DEF TabsInv
  <2> QED
    BY <2>0, <2>2, <2>3, <2>4 DEF Tabs!Next, Tabs!vars
<1> QED
  BY <1>1, <1>2, PTL DEF Spec

(* A window shows its current tab, and the icons the status of the data,    *)
(* whatever was dragged where and whichever crawler was heard of. *)
THEOREM CurrentIsShown == Spec => []WindowShowsCurrent
<1>1. (use = "windows" => TabsInv) => WindowShowsCurrent
  <2> SUFFICES ASSUME use = "windows", TabsInv PROVE WindowShowsCurrent
    BY DEF WindowShowsCurrent
  <2>1. TabsGood(g, {})
    BY DEF TabsInv
  <2>2. Tabs!WindowShowsCurrent
    <3>1. ASSUME NEW w \in Tabs!Windows
          PROVE  LET c == Tabs!currentCrawlerWidget(g, w)
                 IN  IF c = Tabs!NoCrawler THEN g.title[w] = Tabs!NoFile
                     ELSE /\ g.title[w] = g.file[c]
                          /\ g.followAction[w] = g.follow[c]
                          /\ g.loading[c] \/ c \in g.dropped \/ g.info[w] = g.file[c]
      <4>1. ShowsTab(g, w)
        BY <2>1 DEF TabsGood
      <4>2. Tabs!currentCrawlerWidget(g, w) = CrawlerOf(g, w)
        BY CrawlerIs
      <4> QED
        BY <4>1, <4>2 DEF ShowsTab, Tabs!NoCrawler
    <3> QED
      BY <3>1 DEF Tabs!WindowShowsCurrent
  <2>3. Tabs!StatusIsShown
    <3>1. IconsRight(g, {})
      BY <2>1 DEF TabsGood
    <3> QED
      BY <3>1 DEF IconsRight, Tabs!StatusIsShown, Tabs!openFiles
  <2> QED
    BY <2>2, <2>3 DEF WindowShowsCurrent
<1> QED
  BY <1>1, TabsInductive, PTL

(* Every tab is known to the session, in one window only, and the session   *)
(* saved is what is open in the window that saved it. *)
THEOREM OpenIsSaved == Spec => []SessionIsSaved
<1>1. (use = "windows" => TabsInv) => SessionIsSaved
  <2> SUFFICES ASSUME use = "windows", TabsInv PROVE SessionIsSaved
    BY DEF SessionIsSaved
  <2>1. TabsTyped(g) /\ Placed(g, {}) /\ SessionSaved(g)
    BY DEF TabsInv, TabsGood
  <2>2. Tabs!SessionKnowsTabs
    <3>1. ASSUME NEW c \in Tabs!Crawlers
          PROVE  Tabs!Cardinality({at \in Tabs!Windows \X (1 .. MaxCrawlers) :
                                     at[2] <= Len(g.tabs[at[1]]) /\ g.tabs[at[1]][at[2]] = c})
                   = IF c \in Tabs!openFiles(g) THEN 1 ELSE 0
      <4>1. PICK K : K = {at \in Tabs!Windows \X (1 .. MaxCrawlers) :
                            at[2] <= Len(g.tabs[at[1]]) /\ g.tabs[at[1]][at[2]] = c}
        OBVIOUS
      <4>2. Cardinality(K) = IF g.file[c] # Tabs!NoFile THEN 1 ELSE 0
        BY <2>1, <4>1, TabKnown
      <4> QED
        BY <4>1, <4>2, CardinalityIs DEF Tabs!openFiles
    <3> QED
      BY <3>1 DEF Tabs!SessionKnowsTabs
  <2>3. Tabs!SessionIsSaved
    <3>1. PICK list : list = g.tabs[g.savedBy]
      OBVIOUS
    <3>2. ASSUME NEW name \in Files
          PROVE  Tabs!Cardinality({k \in DOMAIN list : g.file[list[k]] = name})
                   = Tabs!Cardinality({k \in DOMAIN g.saved : g.saved[k].file = name})
      <4>1. PICK A, B : /\ A = {k \in DOMAIN list : g.file[list[k]] = name}
                        /\ B = {k \in DOMAIN g.saved : g.saved[k].file = name}
        OBVIOUS
      <4>2. Cardinality(A) = Cardinality(B)
        BY <2>1, <3>1, <4>1, SavedAgain
      <4> QED
        BY <4>1, <4>2, CardinalityIs
    <3> QED
      BY <3>1, <3>2 DEF Tabs!SessionIsSaved
  <2> QED
    BY <2>2, <2>3 DEF SessionIsSaved
<1> QED
  BY <1>1, TabsInductive, PTL

(* Closing a range of tabs closes those that are not pinned and no other:   *)
(* it is asked of closeTabs() in every state the windows can be in. *)
THEOREM ClosedAsAsked == Spec => []PinnedAreKept
<1>1. (use = "windows" => TabsInv) => PinnedAreKept
  <2> SUFFICES ASSUME use = "windows", TabsInv PROVE Tabs!PinnedAreKept
    BY DEF PinnedAreKept
  <2>1. ASSUME NEW w \in Tabs!Windows, NEW list, list = g.tabs[w],
               NEW begin \in 1 .. Len(list) + 1, NEW end \in 1 .. Len(list) + 1, begin <= end
        PROVE  Tabs!closeTabs(g, w, begin, end).tabs[w] =
                 SubSeq(list, 1, begin - 1)
                   \o Kept(SubSeq(list, begin, end - 1), {c \in Tabs!Crawlers : g.pinned[c]})
                   \o SubSeq(list, end, Len(list))
    <3>1. TabsGood(g, {}) /\ SessionSaved(g)
      BY DEF TabsInv
    <3>2. Len(list) \in Nat
      BY <2>1, <3>1, TabIn DEF TabsGood
    <3>3. /\ begin \in Nat /\ end \in Nat /\ 1 <= begin /\ begin <= end
          /\ end <= Len(list) + 1
      BY <2>1, <3>2
    <3>4. PICK S : S = {c \in Tabs!Crawlers : g.pinned[c]}
      OBVIOUS
    <3>5. PICK u : u = Tabs!closeTabs(g, w, begin, end)
      OBVIOUS
    <3>6. u.tabs[w] = RangeKept(list, begin, end, S)
      BY <2>1, <3>1, <3>3, <3>4, <3>5, TabsClosed
    <3> QED
      BY <3>4, <3>5, <3>6 DEF RangeKept
  <2>2. \A list, S : Tabs!Kept(list, S) = Kept(list, S)
    BY DEF Tabs!Kept, Kept
  <2> QED
    BY <2>1, <2>2 DEF Tabs!PinnedAreKept
<1> QED
  BY <1>1, TabsInductive, PTL
=============================================================================
