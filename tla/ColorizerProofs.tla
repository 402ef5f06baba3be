--------------------------- MODULE ColorizerProofs ---------------------------
(***************************************************************************)
(* Whatever tokens are given, in whatever number, addLowerToken() keeps    *)
(* the list of a line sorted and gives each column to the first token that *)
(* covers it.                                                              *)
(*                                                                         *)
(* UpperIsKept is not inductive: while a token is added one must also know *)
(* that the tokens before the iterator end by lower_start, and that all    *)
(* the columns given so far are covered but those of the new token from    *)
(* lower_start on.  The lemmas say what Append, Tail and \o do to the      *)
(* three parts of the property.                                            *)
(***************************************************************************)
EXTENDS Colorizer, SequenceTheorems, TLAPS

Typed ==
  /\ before \in Seq(Token) /\ after \in Seq(Token) /\ given \in Seq(Token)
  /\ lower \in Token /\ lower_start \in Nat
  /\ adding \in BOOLEAN

(* The part of the given tokens that the loop has been over. *)
Reached ==
  \A i \in DOMAIN given : \A c \in Nat :
    Covers(given[i], c) /\ (adding /\ i = Len(given) => c < lower_start)
      => CoveredBy(before, c) \/ CoveredBy(after, c)

Within ==
  adding => /\ given # <<>> /\ lower = given[Len(given)]
            /\ lower.start <= lower_start
            /\ \A i \in DOMAIN before : before[i].end <= lower_start

IInv ==
  /\ Typed
  /\ Sorted
  /\ ShownIsFirst
  /\ Reached
  /\ Within
  /\ ~adding => before = <<>>

-----------------------------------------------------------------------------
LEMMA TokensOf ==
  ASSUME NEW q \in Seq(Token), NEW i \in DOMAIN q
  PROVE  q[i] \in Token /\ q[i].start \in Nat /\ q[i].end \in Nat
<1>1. q[i] \in Token
  BY LenProperties, ElementOfSeq
<1> QED
  BY <1>1 DEF Token

(* A token added at the end of tokens that it is past. *)
LEMMA AppendToken ==
  ASSUME NEW q \in Seq(Token), NEW t \in Token
  PROVE  /\ Append(q, t) \in Seq(Token)
         /\ Disjoint(q) /\ t.start < t.end /\ (\A i \in DOMAIN q : q[i].end <= t.start)
              => Disjoint(Append(q, t))
         /\ \A c \in Nat : CoveredBy(Append(q, t), c) <=> CoveredBy(q, c) \/ Covers(t, c)
         /\ FirstIn(q) /\ (\A c \in t.start..(t.end - 1) : FirstAt(c, t.scope))
              => FirstIn(Append(q, t))
         /\ \A n \in Nat : (\A i \in DOMAIN q : q[i].end <= n) /\ t.end <= n
              => \A i \in DOMAIN Append(q, t) : Append(q, t)[i].end <= n
<1>1. /\ Append(q, t) \in Seq(Token)
      /\ DOMAIN q = 1..Len(q) /\ Len(q) \in Nat
      /\ DOMAIN Append(q, t) = 1..(Len(q) + 1)
      /\ Append(q, t)[Len(q) + 1] = t
      /\ \A i \in 1..Len(q) : Append(q, t)[i] = q[i] /\ q[i] \in Token
  BY AppendProperties, LenProperties, ElementOfSeq
<1>2. Disjoint(q) /\ t.start < t.end /\ (\A i \in DOMAIN q : q[i].end <= t.start)
        => Disjoint(Append(q, t))
  BY <1>1 DEF Disjoint, Token
<1>3. \A c \in Nat : CoveredBy(Append(q, t), c) <=> CoveredBy(q, c) \/ Covers(t, c)
  BY <1>1 DEF CoveredBy
<1>4. FirstIn(q) /\ (\A c \in t.start..(t.end - 1) : FirstAt(c, t.scope))
        => FirstIn(Append(q, t))
  BY <1>1 DEF FirstIn
<1>5. \A n \in Nat : (\A i \in DOMAIN q : q[i].end <= n) /\ t.end <= n
        => \A i \in DOMAIN Append(q, t) : Append(q, t)[i].end <= n
  BY <1>1
<1> QED
  BY <1>1, <1>2, <1>3, <1>4, <1>5

(* The first token taken from the others. *)
LEMMA TailTokens ==
  ASSUME NEW q \in Seq(Token), q # <<>>
  PROVE  /\ Head(q) \in Token /\ Tail(q) \in Seq(Token)
         /\ Disjoint(q) => /\ Disjoint(Tail(q)) /\ Head(q).start < Head(q).end
                           /\ \A i \in DOMAIN Tail(q) : Head(q).end <= Tail(q)[i].start
         /\ \A c \in Nat : CoveredBy(q, c) <=> Covers(Head(q), c) \/ CoveredBy(Tail(q), c)
         /\ FirstIn(q) => /\ FirstIn(Tail(q))
                          /\ \A c \in Head(q).start..(Head(q).end - 1) :
                               FirstAt(c, Head(q).scope)
         /\ 1 \in DOMAIN q /\ Head(q) = q[1]
         /\ \A i \in DOMAIN Tail(q) : i + 1 \in DOMAIN q /\ Tail(q)[i] = q[i + 1]
<1>1. /\ Tail(q) \in Seq(Token) /\ Head(q) = q[1] /\ q[1] \in Token
      /\ DOMAIN q = 1..Len(q) /\ Len(q) \in Nat /\ Len(q) >= 1
      /\ DOMAIN Tail(q) = 1..(Len(q) - 1)
      /\ \A i \in 1..(Len(q) - 1) : Tail(q)[i] = q[i + 1]
  BY HeadTailProperties, LenProperties, ElementOfSeq, EmptySeq
<1>2. Disjoint(q) => /\ Disjoint(Tail(q)) /\ Head(q).start < Head(q).end
                     /\ \A i \in DOMAIN Tail(q) : Head(q).end <= Tail(q)[i].start
  BY <1>1 DEF Disjoint
<1>3. ASSUME NEW c \in Nat
      PROVE  CoveredBy(q, c) <=> Covers(Head(q), c) \/ CoveredBy(Tail(q), c)
  <2>1. ASSUME CoveredBy(q, c) PROVE Covers(Head(q), c) \/ CoveredBy(Tail(q), c)
    <3>1. PICK i \in 1..Len(q) : Covers(q[i], c)
      BY <1>1, <2>1 DEF CoveredBy
    <3>2. i = 1 \/ (i - 1 \in DOMAIN Tail(q) /\ Tail(q)[i - 1] = q[i])
      BY <1>1, <3>1
    <3> QED
      BY <1>1, <3>1, <3>2 DEF CoveredBy
  <2>2. ASSUME Covers(Head(q), c) \/ CoveredBy(Tail(q), c) PROVE CoveredBy(q, c)
    BY <1>1, <2>2 DEF CoveredBy
  <2> QED
    BY <2>1, <2>2
<1>4. FirstIn(q) => /\ FirstIn(Tail(q))
                    /\ \A c \in Head(q).start..(Head(q).end - 1) :
                         FirstAt(c, Head(q).scope)
  BY <1>1 DEF FirstIn
<1> QED
  BY <1>1, <1>2, <1>3, <1>4

(* Both sides of the iterator put together. *)
LEMMA ConcatTokens ==
  ASSUME NEW p \in Seq(Token), NEW q \in Seq(Token)
  PROVE  /\ p \o q \in Seq(Token)
         /\ Disjoint(p) /\ Disjoint(q)
            /\ (\A i \in DOMAIN p, j \in DOMAIN q : p[i].end <= q[j].start)
              => Disjoint(p \o q)
         /\ \A c \in Nat : CoveredBy(p, c) \/ CoveredBy(q, c) => CoveredBy(p \o q, c)
         /\ FirstIn(p) /\ FirstIn(q) => FirstIn(p \o q)
<1>1. /\ p \o q \in Seq(Token)
      /\ DOMAIN p = 1..Len(p) /\ DOMAIN q = 1..Len(q)
      /\ Len(p) \in Nat /\ Len(q) \in Nat
      /\ DOMAIN (p \o q) = 1..(Len(p) + Len(q))
      /\ \A i \in 1..Len(p) : (p \o q)[i] = p[i]
      /\ \A i \in (Len(p) + 1)..(Len(p) + Len(q)) : (p \o q)[i] = q[i - Len(p)]
  BY ConcatProperties, LenProperties
<1>2. \A i \in DOMAIN (p \o q) :
        \/ i \in DOMAIN p /\ (p \o q)[i] = p[i]
        \/ i > Len(p) /\ i - Len(p) \in DOMAIN q /\ (p \o q)[i] = q[i - Len(p)]
  BY <1>1
<1>3. ASSUME Disjoint(p), Disjoint(q),
             \A i \in DOMAIN p, j \in DOMAIN q : p[i].end <= q[j].start,
             NEW i \in DOMAIN (p \o q), NEW j \in DOMAIN (p \o q)
      PROVE  /\ (p \o q)[i].start < (p \o q)[i].end
             /\ i < j => (p \o q)[i].end <= (p \o q)[j].start
  <2>1. CASE i \in DOMAIN p /\ (p \o q)[i] = p[i]
    BY <1>1, <1>2, <1>3, <2>1 DEF Disjoint
  <2>2. CASE i > Len(p) /\ i - Len(p) \in DOMAIN q /\ (p \o q)[i] = q[i - Len(p)]
    <3>1. i < j => j - Len(p) \in DOMAIN q /\ (p \o q)[j] = q[j - Len(p)]
      BY <1>1, <2>2
    <3> QED
      BY <1>1, <1>3, <2>2, <3>1 DEF Disjoint
  <2> QED
    BY <1>2, <2>1, <2>2
<1>4. \A c \in Nat : CoveredBy(p, c) => CoveredBy(p \o q, c)
  BY <1>1 DEF CoveredBy
<1>5. ASSUME NEW c \in Nat, CoveredBy(q, c) PROVE CoveredBy(p \o q, c)
  <2>1. PICK j \in 1..Len(q) : Covers(q[j], c)
    BY <1>1, <1>5 DEF CoveredBy
  <2>2. Len(p) + j \in DOMAIN (p \o q) /\ (p \o q)[Len(p) + j] = q[j]
    BY <1>1, <2>1
  <2> QED
    BY <2>1, <2>2 DEF CoveredBy
<1>6. FirstIn(p) /\ FirstIn(q) => FirstIn(p \o q)
  BY <1>2 DEF FirstIn
<1> QED
  BY <1>1, <1>3, <1>4, <1>5, <1>6 DEF Disjoint

-----------------------------------------------------------------------------
(* No token is left out of the list when the loop is over. *)
LEMMA ReachedIsGiven == IInv => UpperIsKept
<1> SUFFICES ASSUME IInv PROVE UpperIsKept
  OBVIOUS
<1>1. ASSUME ~adding, NEW i \in DOMAIN given,
             NEW c \in given[i].start..(given[i].end - 1)
      PROVE  CoveredBy(after, c)
  <2>1. given[i] \in Token
    BY TokensOf DEF IInv, Typed
  <2>2. c \in Nat /\ Covers(given[i], c)
    BY <2>1 DEF Token, Covers
  <2>3. CoveredBy(before, c) \/ CoveredBy(after, c)
    BY <1>1, <2>2 DEF IInv, Reached
  <2>4. ~CoveredBy(before, c)
    BY <1>1 DEF IInv, CoveredBy
  <2> QED
    BY <2>3, <2>4
<1> QED
  BY <1>1 DEF IInv, UpperIsKept, GivenIsShown

(* A list starts empty or with one token. *)
LEMMA InitIsSorted == Init => IInv
<1> SUFFICES ASSUME Init PROVE IInv
  OBVIOUS
<1>1. lower \in Token /\ lower_start = 0
  BY DEF Init
<1>2. CASE StartsWith(<<>>)
  <2>1. /\ before = <<>> /\ after = <<>> /\ given = <<>> /\ adding = FALSE
        /\ DOMAIN <<>> = {} /\ <<>> \in Seq(Token)
    BY <1>2 DEF StartsWith
  <2>2. Typed /\ Within
    BY <1>1, <2>1 DEF Typed, Within
  <2>3. Sorted /\ ShownIsFirst /\ Reached
    BY <2>1 DEF Sorted, Disjoint, ShownIsFirst, FirstIn, Reached
  <2> QED
    BY <2>1, <2>2, <2>3 DEF IInv
<1>3. ASSUME NEW t \in Token, t.start < t.end, StartsWith(<<t>>) PROVE IInv
  <2>1. /\ before = <<>> /\ after = <<t>> /\ given = <<t>> /\ adding = FALSE
        /\ lower \in Token /\ lower_start = 0
    BY <1>1, <1>3 DEF StartsWith
  <2>2. DOMAIN <<t>> = {1} /\ <<t>>[1] = t /\ <<t>> \in Seq(Token)
    OBVIOUS
  <2>3. \A c \in t.start..(t.end - 1) : FirstAt(c, t.scope)
    BY <2>1, <2>2 DEF FirstAt, Covers, Token
  <2>4. DOMAIN <<>> = {} /\ <<>> \in Seq(Token)
    OBVIOUS
  <2>5. Typed /\ Within
    BY <2>1, <2>2, <2>4 DEF Typed, Within
  <2>6. Sorted
    BY <1>3, <2>1, <2>2, <2>4 DEF Sorted, Disjoint
  <2>7. ShownIsFirst
    BY <2>1, <2>2, <2>3, <2>4 DEF ShownIsFirst, FirstIn
  <2>8. Reached
    BY <2>1, <2>2 DEF Reached, CoveredBy
  <2> QED
    BY <2>1, <2>5, <2>6, <2>7, <2>8 DEF IInv
<1> QED
  BY <1>2, <1>3 DEF Init

(* One more token is given: it is the last one, and shows nowhere yet. *)
LEMMA AddIsSorted ==
  ASSUME IInv, NEW t \in Token, t.start <= t.end, addLowerToken(t)
  PROVE  IInv'
<1>1. /\ given' = Append(given, t) /\ given' \in Seq(Token)
      /\ DOMAIN given = 1..Len(given) /\ Len(given) \in Nat
      /\ DOMAIN given' = 1..(Len(given) + 1) /\ Len(given') = Len(given) + 1
      /\ given'[Len(given) + 1] = t
      /\ \A i \in 1..Len(given) : given'[i] = given[i]
  BY AppendProperties, LenProperties DEF IInv, Typed, addLowerToken
<1>2. /\ ~adding /\ adding' = TRUE /\ lower' = t /\ lower_start' = t.start
      /\ before' = before /\ after' = after /\ before = <<>>
  BY DEF addLowerToken, IInv
<1>3. Typed'
  BY <1>1, <1>2 DEF IInv, Typed, Token
<1>4. Sorted'
  BY <1>2 DEF IInv, Sorted, Disjoint
<1>5. ShownIsFirst'
  <2>1. \A c, s : FirstAt(c, s) => FirstAt(c, s)'
    BY <1>1 DEF FirstAt
  <2> QED
    BY <1>2, <2>1 DEF IInv, ShownIsFirst, FirstIn
<1>6. Reached'
  <2>1. ASSUME NEW i \in DOMAIN given', NEW c \in Nat,
               Covers(given'[i], c), i = Len(given') => c < t.start
        PROVE  CoveredBy(before, c) \/ CoveredBy(after, c)
    <3>1. i \in DOMAIN given /\ given'[i] = given[i]
      BY <1>1, <2>1 DEF Covers, Token
    <3> QED
      BY <1>2, <2>1, <3>1 DEF IInv, Reached
  <2> QED
    BY <1>2, <2>1 DEF Reached, CoveredBy, Covers
<1>7. Within'
  BY <1>1, <1>2 DEF Within, Token
<1> QED
  BY <1>2, <1>3, <1>4, <1>5, <1>6, <1>7 DEF IInv

-----------------------------------------------------------------------------
(* What the loop knows of the next upper token, and of the columns it has  *)
(* not been over. *)
LEMMA NextUpper ==
  ASSUME IInv, adding, after # <<>>
  PROVE  /\ Upper \in Token /\ Tail(after) \in Seq(Token)
         /\ Upper.start < Upper.end
         /\ Disjoint(Tail(after)) /\ FirstIn(Tail(after))
         /\ \A i \in DOMAIN Tail(after) : Upper.end <= Tail(after)[i].start
         /\ \A i \in DOMAIN before : before[i].end <= Upper.start
         /\ \A c \in Upper.start..(Upper.end - 1) : FirstAt(c, Upper.scope)
         /\ \A c \in Nat : CoveredBy(after, c) <=> Covers(Upper, c) \/ CoveredBy(Tail(after), c)
BY TailTokens DEF IInv, Typed, Sorted, ShownIsFirst, Upper

(* A piece of the new token that no token shown covers is the first to     *)
(* have its columns. *)
LEMMA PieceIsFirst ==
  ASSUME IInv, adding, NEW e \in Nat, lower_start < e, e <= lower.end,
         \A c \in lower_start..(e - 1) : ~CoveredBy(after, c)
  PROVE  /\ Piece(e) \in Token
         /\ \A c \in lower_start..(e - 1) : FirstAt(c, lower.scope)
         /\ \A i \in DOMAIN before : before[i].end <= lower_start
<1>1. /\ lower_start \in Nat /\ lower \in Token /\ given \in Seq(Token)
      /\ given # <<>> /\ lower = given[Len(given)] /\ lower.start <= lower_start
      /\ \A i \in DOMAIN before : before[i].end <= lower_start
  BY DEF IInv, Typed, Within
<1>2. Len(given) \in DOMAIN given /\ DOMAIN given = 1..Len(given)
  BY <1>1, LenProperties, EmptySeq
<1>3. Piece(e) \in Token
  BY <1>1 DEF Piece, Token
<1>4. ASSUME NEW c \in lower_start..(e - 1) PROVE FirstAt(c, lower.scope)
  <2>1. c \in Nat /\ lower_start <= c /\ Covers(lower, c)
    BY <1>1 DEF Covers, Token
  <2>2. ~CoveredBy(before, c)
    <3>1. \A i \in DOMAIN before : before[i] \in Token
      BY TokensOf DEF IInv, Typed
    <3> QED
      BY <1>1, <2>1, <3>1 DEF CoveredBy, Covers, Token
  <2>3. \A j \in DOMAIN given : j < Len(given) => ~Covers(given[j], c)
    <3>1. ASSUME NEW j \in DOMAIN given, j < Len(given), Covers(given[j], c)
          PROVE  FALSE
      <4>1. j # Len(given)
        BY <1>2, <3>1
      <4> QED
        BY <2>1, <2>2, <3>1, <4>1 DEF IInv, Reached
    <3> QED
      BY <3>1
  <2> QED
    BY <1>1, <1>2, <2>1, <2>3 DEF FirstAt
<1> QED
  BY <1>1, <1>3, <1>4

LEMMA SameGiven ==
  ASSUME given' = given
  PROVE  \A c, s : FirstAt(c, s)' <=> FirstAt(c, s)
BY DEF FirstAt

(* The iterator goes past an upper token. *)
LEMMA PassedIsSorted == ASSUME IInv, passed PROVE IInv'
<1>1. /\ adding /\ after # <<>> /\ Upper.start <= lower_start /\ Upper.end < lower.end
      /\ lower_start' = IF Upper.end > lower_start THEN Upper.end ELSE lower_start
      /\ before' = Append(before, Upper) /\ after' = Tail(after)
      /\ lower' = lower /\ adding' = adding /\ given' = given
  BY DEF passed, Above
<1>2. /\ lower_start \in Nat /\ before \in Seq(Token) /\ lower \in Token
      /\ Disjoint(before) /\ FirstIn(before)
      /\ \A i \in DOMAIN before : before[i].end <= lower_start
  BY <1>1 DEF IInv, Typed, Sorted, ShownIsFirst, Within
<1>3. /\ Upper.start \in Nat /\ Upper.end \in Nat /\ Upper \in Token
  BY <1>1, NextUpper DEF Token
<1>4. /\ lower_start' \in Nat /\ lower_start <= lower_start' /\ Upper.end <= lower_start'
      /\ \A c \in Nat : c < lower_start' => c < lower_start \/ Covers(Upper, c)
  BY <1>1, <1>2, <1>3 DEF Covers
<1>5. /\ before' \in Seq(Token) /\ Disjoint(before') /\ FirstIn(before')
      /\ \A c \in Nat : CoveredBy(before', c) <=> CoveredBy(before, c) \/ Covers(Upper, c)
  BY <1>1, <1>2, <1>3, NextUpper, AppendToken
<1>6. \A i \in DOMAIN before' : before'[i].end <= lower_start'
  <2>1. \A i \in DOMAIN before : before[i].end <= lower_start'
    <3>1. \A i \in DOMAIN before : before[i].end \in Nat
      BY <1>2, TokensOf
    <3> QED
      BY <1>2, <1>4, <3>1
  <2> QED
    BY <1>1, <1>2, <1>3, <1>4, <2>1, AppendToken
<1>7. \A i \in DOMAIN before', j \in DOMAIN after' : before'[i].end <= after'[j].start
  <2>1. \A i \in DOMAIN before : before[i].end <= Upper.end
    <3>1. \A i \in DOMAIN before : before[i].end \in Nat
      BY <1>2, TokensOf
    <3> QED
      BY <1>1, <1>3, <3>1, NextUpper
  <2>2. \A i \in DOMAIN before' : before'[i].end <= Upper.end
    BY <1>1, <1>2, <1>3, <2>1, AppendToken
  <2>3. /\ \A i \in DOMAIN before' : before'[i].end \in Nat
        /\ \A j \in DOMAIN after' : after'[j].start \in Nat
    BY <1>1, <1>5, NextUpper, TokensOf
  <2> QED
    BY <1>1, <1>3, <2>2, <2>3, NextUpper
<1>8. Typed'
  BY <1>1, <1>4, <1>5, NextUpper DEF IInv, Typed
<1>9. Sorted'
  BY <1>1, <1>5, <1>7, NextUpper DEF Sorted, Disjoint
<1>10. ShownIsFirst'
  BY <1>1, <1>5, NextUpper, SameGiven DEF ShownIsFirst, FirstIn
<1>11. Reached'
  <2>1. ASSUME NEW i \in DOMAIN given, NEW c \in Nat, Covers(given[i], c),
               i = Len(given) => c < lower_start'
        PROVE  CoveredBy(before', c) \/ CoveredBy(after', c)
    <3>1. CASE i = Len(given) => c < lower_start
      BY <1>1, <1>5, <2>1, <3>1, NextUpper DEF IInv, Reached
    <3>2. CASE Covers(Upper, c)
      BY <1>5, <3>2
    <3> QED
      BY <1>4, <2>1, <3>1, <3>2
  <2> QED
    BY <1>1, <2>1 DEF Reached, CoveredBy, Covers
<1>12. Within'
  <2>1. lower.start <= lower_start'
    BY <1>1, <1>2, <1>4 DEF IInv, Within, Token
  <2> QED
    BY <1>1, <1>6, <2>1 DEF IInv, Within
<1> QED
  BY <1>1, <1>8, <1>9, <1>10, <1>11, <1>12 DEF IInv

(* A piece of the new token is put before an upper one. *)
LEMMA PieceIsSorted == ASSUME IInv, piece PROVE IInv'
<1> DEFINE p == Piece(Upper.start)
           q == Append(before, p)
<1>1. /\ adding /\ after # <<>> /\ Upper.start > lower_start /\ Upper.start < lower.end
      /\ lower_start' = Upper.end
      /\ before' = Append(q, Upper) /\ after' = Tail(after)
      /\ lower' = lower /\ adding' = adding /\ given' = given
  BY DEF piece
<1>2. /\ lower_start \in Nat /\ before \in Seq(Token) /\ lower \in Token
      /\ lower.start \in Nat /\ lower.end \in Nat
      /\ Disjoint(before) /\ FirstIn(before)
      /\ \A i \in DOMAIN before : before[i].end <= lower_start
  BY <1>1 DEF IInv, Typed, Sorted, ShownIsFirst, Within, Token
<1>3. /\ Upper.start \in Nat /\ Upper.end \in Nat /\ Upper \in Token
      /\ Upper.start < Upper.end
  BY <1>1, NextUpper DEF Token
<1>4. \A c \in lower_start..(Upper.start - 1) : ~CoveredBy(after, c)
  <2>1. \A i \in DOMAIN Tail(after) : Tail(after)[i].start \in Nat
                                     /\ Upper.end <= Tail(after)[i].start
    BY <1>1, NextUpper, TokensOf
  <2>2. \A c \in lower_start..(Upper.start - 1) :
          c \in Nat /\ ~Covers(Upper, c) /\ ~CoveredBy(Tail(after), c)
    BY <1>2, <1>3, <2>1 DEF Covers, CoveredBy
  <2> QED
    BY <1>1, <2>2, NextUpper
<1>5. /\ p \in Token /\ p.start = lower_start /\ p.end = Upper.start
      /\ p.scope = lower.scope
      /\ \A c \in p.start..(p.end - 1) : FirstAt(c, p.scope)
  <2>1. p \in Token /\ \A c \in lower_start..(Upper.start - 1) : FirstAt(c, lower.scope)
    <3>1. lower_start < Upper.start /\ Upper.start <= lower.end
      BY <1>1, <1>2, <1>3
    <3> QED
      BY <1>1, <1>3, <1>4, <3>1, PieceIsFirst, Zenon
  <2>2. p.start = lower_start /\ p.end = Upper.start /\ p.scope = lower.scope
    BY DEF Piece
  <2> QED
    BY <2>1, <2>2
<1>6. /\ q \in Seq(Token) /\ Disjoint(q) /\ FirstIn(q)
      /\ \A c \in Nat : CoveredBy(q, c) <=> CoveredBy(before, c) \/ Covers(p, c)
      /\ \A i \in DOMAIN q : q[i].end <= Upper.start
  <2>1. \A i \in DOMAIN before : before[i].end <= Upper.start
    BY <1>1, NextUpper
  <2> HIDE DEF p
  <2>2. /\ p.start < p.end /\ p.end <= Upper.start
        /\ \A i \in DOMAIN before : before[i].end <= p.start
    BY <1>1, <1>2, <1>3, <1>5
  <2> QED
    BY <1>2, <1>3, <1>5, <2>1, <2>2, AppendToken
<1>7. /\ before' \in Seq(Token) /\ Disjoint(before') /\ FirstIn(before')
      /\ \A c \in Nat : CoveredBy(before', c) <=>
                      CoveredBy(before, c) \/ Covers(p, c) \/ Covers(Upper, c)
      /\ \A i \in DOMAIN before' : before'[i].end <= Upper.end
  <2> HIDE DEF q
  <2>1. \A i \in DOMAIN q : q[i].end <= Upper.end
    <3>1. \A i \in DOMAIN q : q[i].end \in Nat
      BY <1>6, TokensOf
    <3> QED
      BY <1>3, <1>6, <3>1
  <2>2. \A c \in Upper.start..(Upper.end - 1) : FirstAt(c, Upper.scope)
    BY <1>1, NextUpper
  <2> QED
    BY <1>1, <1>3, <1>6, <2>1, <2>2, AppendToken
<1> HIDE DEF q
<1>8. \A i \in DOMAIN before', j \in DOMAIN after' : before'[i].end <= after'[j].start
  <2>1. /\ \A i \in DOMAIN before' : before'[i].end \in Nat
        /\ \A j \in DOMAIN after' : after'[j].start \in Nat
    BY <1>1, <1>7, NextUpper, TokensOf
  <2> QED
    BY <1>1, <1>3, <1>7, <2>1, NextUpper
<1>9. Typed'
  BY <1>1, <1>3, <1>7, NextUpper DEF IInv, Typed
<1>10. Sorted'
  BY <1>1, <1>7, <1>8, NextUpper DEF Sorted, Disjoint
<1>11. ShownIsFirst'
  BY <1>1, <1>7, NextUpper, SameGiven DEF ShownIsFirst, FirstIn
<1>12. Reached'
  <2>1. ASSUME NEW i \in DOMAIN given, NEW c \in Nat, Covers(given[i], c),
               i = Len(given) => c < Upper.end
        PROVE  CoveredBy(before', c) \/ CoveredBy(after', c)
    <3>1. CASE i = Len(given) => c < lower_start
      BY <1>1, <1>7, <2>1, <3>1, NextUpper DEF IInv, Reached
    <3>2. CASE c < Upper.end /\ ~(c < lower_start)
      <4>1. Covers(p, c) \/ Covers(Upper, c)
        BY <1>2, <1>3, <1>5, <3>2 DEF Covers
      <4> QED
        BY <1>7, <4>1
    <3> QED
      BY <2>1, <3>1, <3>2
  <2> QED
    BY <1>1, <2>1 DEF Reached, CoveredBy, Covers
<1>13. Within'
  <2>1. lower.start <= Upper.end
    BY <1>1, <1>2, <1>3 DEF IInv, Within
  <2> QED
    BY <1>1, <1>7, <2>1 DEF IInv, Within
<1> QED
  BY <1>1, <1>9, <1>10, <1>11, <1>12, <1>13 DEF IInv

(* What is left to show when the loop is over. *)
LEMMA OverIsSorted ==
  ASSUME IInv, before' = <<>>, adding' = FALSE, given' = given, lower' \in Token,
         lower_start' \in Nat, after' \in Seq(Token), Disjoint(after'), FirstIn(after'),
         \A i \in DOMAIN given : \A c \in Nat : Covers(given[i], c) => CoveredBy(after', c)
  PROVE  IInv'
<1>1. DOMAIN <<>> = {} /\ <<>> \in Seq(Token)
  OBVIOUS
<1>2. Typed' /\ Within'
  BY <1>1 DEF IInv, Typed, Within
<1>3. Sorted'
  BY <1>1 DEF Sorted, Disjoint
<1>4. ShownIsFirst'
  BY <1>1, SameGiven DEF ShownIsFirst, FirstIn
<1>5. Reached'
  BY DEF Reached, CoveredBy, Covers
<1> QED
  BY <1>2, <1>3, <1>4, <1>5 DEF IInv

(* The loop is over with the new token under an upper one. *)
LEMMA CoveredIsSorted == ASSUME IInv, covered PROVE IInv'
<1>1. /\ adding /\ after # <<>> /\ Upper.start <= lower_start /\ Upper.end >= lower.end
      /\ before' = <<>> /\ after' = before \o after /\ adding' = FALSE
      /\ lower' = lower /\ lower_start' = lower_start /\ given' = given
  BY DEF covered, Above, Return
<1>2. /\ before \in Seq(Token) /\ after \in Seq(Token) /\ given \in Seq(Token)
      /\ lower \in Token /\ lower_start \in Nat
      /\ Disjoint(before) /\ Disjoint(after) /\ FirstIn(before) /\ FirstIn(after)
      /\ \A i \in DOMAIN before, j \in DOMAIN after : before[i].end <= after[j].start
  BY DEF IInv, Typed, Sorted, ShownIsFirst
<1>3. /\ after' \in Seq(Token) /\ Disjoint(after') /\ FirstIn(after')
      /\ \A c \in Nat : CoveredBy(before, c) \/ CoveredBy(after, c) => CoveredBy(after', c)
  BY <1>1, <1>2, ConcatTokens
<1>4. ASSUME NEW i \in DOMAIN given, NEW c \in Nat, Covers(given[i], c)
      PROVE  CoveredBy(after', c)
  <2>1. CASE i = Len(given) => c < lower_start
    BY <1>3, <1>4, <2>1 DEF IInv, Reached
  <2>2. CASE i = Len(given) /\ ~(c < lower_start)
    <3>1. Covers(lower, c)
      BY <1>1, <1>4, <2>2 DEF IInv, Within
    <3>2. Covers(Upper, c)
      BY <1>1, <1>2, <2>2, <3>1, NextUpper DEF Covers, Token
    <3> QED
      BY <1>1, <1>3, <3>2, NextUpper
  <2> QED
    BY <2>1, <2>2
<1> QED
  BY <1>1, <1>2, <1>3, <1>4, OverIsSorted

LEMMA RestIsSorted == ASSUME IInv, rest PROVE IInv'
<1> DEFINE p == Piece(lower.end)
           q == Append(before, p)
<1>1. /\ adding /\ (after # <<>> => Upper.start > lower_start /\ Upper.start >= lower.end)
      /\ before' = <<>> /\ adding' = FALSE
      /\ after' = IF lower_start < lower.end THEN q \o after ELSE before \o after
      /\ lower' = lower /\ lower_start' = lower_start /\ given' = given
  BY DEF rest, Return
<1>2. /\ before \in Seq(Token) /\ after \in Seq(Token) /\ given \in Seq(Token)
      /\ lower \in Token /\ lower_start \in Nat /\ lower.end \in Nat
      /\ Disjoint(before) /\ Disjoint(after) /\ FirstIn(before) /\ FirstIn(after)
      /\ \A i \in DOMAIN before, j \in DOMAIN after : before[i].end <= after[j].start
      /\ \A i \in DOMAIN before : before[i].end <= lower_start
  BY <1>1 DEF IInv, Typed, Sorted, ShownIsFirst, Within, Token
<1>3. CASE lower_start < lower.end
  <2>1. \A j \in DOMAIN after : after[j].start \in Nat /\ lower.end <= after[j].start
    <3>1. SUFFICES ASSUME after # <<>>, NEW j \in DOMAIN after PROVE lower.end <= after[j].start
      BY <1>2, TokensOf
    <3>2. /\ Upper = after[1] /\ 1 \in DOMAIN after /\ j \in Nat /\ j >= 1
      BY <1>2, <3>1, TailTokens, LenProperties DEF Upper
    <3>3. /\ after[1].start \in Nat /\ after[1].end \in Nat /\ after[j].start \in Nat
      BY <1>2, <3>1, <3>2, TokensOf
    <3>4. j = 1 \/ (after[1].start < after[1].end /\ after[1].end <= after[j].start)
      BY <1>2, <3>1, <3>2 DEF Disjoint
    <3> QED
      BY <1>1, <1>2, <3>1, <3>2, <3>3, <3>4
  <2>2. \A c \in lower_start..(lower.end - 1) : ~CoveredBy(after, c)
    BY <1>2, <2>1 DEF CoveredBy, Covers
  <2>3. /\ p \in Token /\ p.start = lower_start /\ p.end = lower.end
        /\ \A c \in p.start..(p.end - 1) : FirstAt(c, p.scope)
    <3>1. p \in Token /\ \A c \in lower_start..(lower.end - 1) : FirstAt(c, lower.scope)
      <4>1. lower.end <= lower.end
        BY <1>2
      <4> QED
        BY <1>1, <1>2, <1>3, <2>2, <4>1, PieceIsFirst, Zenon
    <3>2. p.start = lower_start /\ p.end = lower.end /\ p.scope = lower.scope
      BY DEF Piece
    <3> QED
      BY <3>1, <3>2
  <2>4. \A i \in DOMAIN before : before[i].end \in Nat /\ before[i].end <= lower.end
    BY <1>2, <1>3, TokensOf
  <2>5. /\ q \in Seq(Token) /\ Disjoint(q) /\ FirstIn(q)
        /\ \A c \in Nat : CoveredBy(q, c) <=> CoveredBy(before, c) \/ Covers(p, c)
        /\ \A i \in DOMAIN q : q[i].end <= lower.end
    <3> HIDE DEF p
    <3>1. /\ p.start < p.end /\ p.end <= lower.end
          /\ \A i \in DOMAIN before : before[i].end <= p.start
      BY <1>2, <1>3, <2>3
    <3>2. /\ Disjoint(before) /\ FirstIn(before) /\ before \in Seq(Token)
          /\ lower.end \in Nat
      BY <1>2
    <3> QED
      BY <2>3, <2>4, <3>1, <3>2, AppendToken
  <2>6. \A i \in DOMAIN q, j \in DOMAIN after : q[i].end <= after[j].start
    <3>1. \A i \in DOMAIN q : q[i].end \in Nat
      BY <2>5, TokensOf
    <3> QED
      BY <1>2, <2>1, <2>5, <3>1
  <2> HIDE DEF q
  <2>7. /\ after' \in Seq(Token) /\ Disjoint(after') /\ FirstIn(after')
        /\ \A c \in Nat : CoveredBy(q, c) \/ CoveredBy(after, c) => CoveredBy(after', c)
    BY <1>1, <1>2, <1>3, <2>5, <2>6, ConcatTokens
  <2>8. ASSUME NEW i \in DOMAIN given, NEW c \in Nat, Covers(given[i], c)
        PROVE  CoveredBy(after', c)
    <3>1. CASE i = Len(given) => c < lower_start
      BY <2>5, <2>7, <2>8, <3>1 DEF IInv, Reached
    <3>2. CASE i = Len(given) /\ ~(c < lower_start)
      <4>1. Covers(lower, c)
        BY <1>1, <2>8, <3>2 DEF IInv, Within
      <4>2. Covers(p, c)
        BY <1>2, <2>3, <3>2, <4>1 DEF Covers
      <4> QED
        BY <2>5, <2>7, <4>2
    <3> QED
      BY <3>1, <3>2
  <2> QED
    BY <1>1, <1>2, <2>7, <2>8, OverIsSorted
<1>4. CASE ~(lower_start < lower.end)
  <2>1. /\ after' \in Seq(Token) /\ Disjoint(after') /\ FirstIn(after')
        /\ \A c \in Nat : CoveredBy(before, c) \/ CoveredBy(after, c) => CoveredBy(after', c)
    BY <1>1, <1>2, <1>4, ConcatTokens
  <2>2. ASSUME NEW i \in DOMAIN given, NEW c \in Nat, Covers(given[i], c)
        PROVE  CoveredBy(after', c)
    <3>1. i = Len(given) => c < lower_start
      BY <1>1, <1>2, <1>4, <2>2 DEF IInv, Within, Covers
    <3> QED
      BY <2>1, <2>2, <3>1 DEF IInv, Reached
  <2> QED
    BY <1>1, <1>2, <2>1, <2>2, OverIsSorted
<1> QED
  BY <1>3, <1>4

-----------------------------------------------------------------------------
LEMMA LoopIsSorted == ASSUME IInv, Loop PROVE IInv'
BY CoveredIsSorted, PassedIsSorted, PieceIsSorted, RestIsSorted DEF Loop

(* addLowerToken() keeps the list of a line sorted and disjoint, gives it  *)
(* every column of every token and each column to the first of the tokens  *)
(* that cover it, for any tokens in any number. *)
THEOREM FirstTokenShows == Spec => []UpperIsKept
<1>1. IInv /\ [Next]_list => IInv'
  <2>1. ASSUME IInv, Next PROVE IInv'
    BY <2>1, LoopIsSorted, AddIsSorted DEF Next
  <2>2. ASSUME IInv, UNCHANGED list PROVE IInv'
    BY <2>2 DEF list, IInv, Typed, Sorted, Disjoint, ShownIsFirst, FirstIn, FirstAt,
                Reached, CoveredBy, Within
  <2> QED
    BY <2>1, <2>2
<1> QED
  BY <1>1, InitIsSorted, ReachedIsGiven, PTL DEF Spec
=============================================================================
