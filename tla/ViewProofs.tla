------------------------------ MODULE ViewProofs ------------------------------
(***************************************************************************)
(* Proofs about the view of a log and the searches through it, for every   *)
(* value of their constants.                                               *)
(***************************************************************************)
EXTENDS Gui, TLAPS, SequenceTheorems, FiniteSetTheorems, NaturalsInduction,
        WellFoundedInduction

(* The steps of QuickFind. *)
LEMMA FindSteps ==
  ASSUME use = "quickfind", [Next]_vars
  PROVE  [Find!Next]_(Find!vars)
BY DEF Next, vars, quickfindVars, Find!vars, InFind, InView, InListed, InTabs,
       InRun, InRead, InColors, InSchemes, Find!Next

(* The part in use stays the same. *)
LEMMA UseStays ==
  ASSUME [Next]_vars
  PROVE  use' = use
BY DEF Next, vars, InFind, InView, InListed, InTabs, InRun, InRead, InColors,
       InSchemes

-----------------------------------------------------------------------------
(***************************************************************************)
(* The least and the greatest number of a finite set.                      *)
(***************************************************************************)
(* Every set of natural numbers that is not empty has a least one. *)
LEMMA LeastOf ==
  ASSUME NEW S \in SUBSET Nat, S # {}
  PROVE  \E m \in S : \A x \in S : m <= x
<1> DEFINE R == OpToRel(<, Nat)
<1>1. \A x, y \in Nat : <<y, x>> \in R <=> y < x
  BY DEF OpToRel
<1>2. IsWellFoundedOn(R, Nat)
  BY NatLessThanWellFounded
<1> HIDE DEF R
<1>3. PICK m \in S : \A y \in S : ~(<<y, m>> \in R)
  BY <1>2, WFMin, Zenon
<1>4. ASSUME NEW x \in S PROVE m <= x
  <2>1. ~(x < m)
    BY <1>1, <1>3
  <2> QED
    BY <2>1
<1> QED
  BY <1>4

LEMMA MinIn ==
  ASSUME NEW S \in SUBSET Nat, S # {}
  PROVE  Find!Min(S) \in S
BY LeastOf DEF Find!Min

(* Induction up to n, over the set of the numbers that a fact holds of.    *)
LEMMA UpTo ==
  ASSUME NEW n \in Nat, NEW S, 0 \in S, \A i \in 0 .. n - 1 : i \in S => i + 1 \in S
  PROVE  n \in S
<1> DEFINE T == {i \in 0 .. n : i \notin S}
<1> SUFFICES ASSUME T # {} PROVE FALSE
  OBVIOUS
<1>1. PICK x \in T : \A y \in T : x <= y
  <2>1. T \in SUBSET Nat
    OBVIOUS
  <2> HIDE DEF T
  <2> QED
    BY <2>1, LeastOf
<1>2. x \in Nat /\ x # 0 /\ x - 1 \in 0 .. n - 1
  OBVIOUS
<1>3. x - 1 \notin S
  BY <1>2
<1>4. x - 1 \in T
  BY <1>2, <1>3
<1> QED
  BY <1>1, <1>2, <1>4

(* A finite one has a greatest one: of the numbers that are as large as    *)
(* all of its, the least. *)
LEMMA MaxIn ==
  ASSUME NEW S \in SUBSET Nat, S # {}, IsFiniteSet(S)
  PROVE  Find!Max(S) \in S
<1> DEFINE Above == {b \in Nat : \A x \in S : x <= b}
<1>1. \E b \in Nat : \A x \in S : x <= b
  <2>0. PICK n \in Nat : ExistsSurjection(1 .. n, S)
    BY FS_NatSurjection
  <2>1. PICK f \in Surjection(1 .. n, S) : TRUE
    BY <2>0 DEF ExistsSurjection
  <2>2. /\ \A x \in S : \E i \in 1 .. n : f[i] = x
        /\ \A i \in 1 .. n : f[i] \in Nat
    <3>1. f \in [1 .. n -> S] /\ \A x \in S : \E i \in 1 .. n : f[i] = x
      BY DEF Surjection
    <3>2. \A x \in S : x \in Nat
      OBVIOUS
    <3> QED
      BY <3>1, <3>2
  <2> DEFINE K == {k \in 0 .. n : \E b \in Nat : \A i \in 1 .. k : f[i] <= b}
  <2>3. 0 \in K
    OBVIOUS
  <2>4. ASSUME NEW k \in 0 .. n - 1, k \in K PROVE k + 1 \in K
    <3>1. PICK b \in Nat : \A i \in 1 .. k : f[i] <= b
      BY <2>4
    <3>0. k + 1 \in 1 .. n /\ k + 1 \in 0 .. n /\ k \in Nat
      OBVIOUS
    <3>2. f[k + 1] \in Nat
      BY <2>2, <3>0
    <3>3. PICK c \in Nat : b <= c /\ f[k + 1] <= c
      BY <3>2
    <3>4. \A i \in 1 .. k + 1 : f[i] <= c
      <4> TAKE i \in 1 .. k + 1
      <4>1. i = k + 1 \/ i \in 1 .. k
        OBVIOUS
      <4>2. i \in 1 .. n /\ f[i] \in Nat
        BY <2>2
      <4> QED
        BY <3>1, <3>3, <4>1, <4>2
    <3>5. \E d \in Nat : \A i \in 1 .. k + 1 : f[i] <= d
      BY <3>4
    <3> QED
      BY <3>0, <3>5
  <2>5. n \in K
    <3> HIDE DEF K
    <3> QED
      BY <2>3, <2>4, UpTo
  <2> QED
    BY <2>2, <2>5
<1>2. PICK m \in Above : \A x \in Above : m <= x
  BY <1>1, LeastOf
<1>3. m \in S
  <2>0. m \in Nat /\ \A x \in S : x \in Nat /\ x <= m
    BY <1>2
  <2>1. CASE m = 0
    <3>1. PICK x \in S : TRUE
      OBVIOUS
    <3>2. x = m
      BY <2>0, <2>1
    <3> QED
      BY <3>2
  <2>2. CASE m # 0
    <3>1. m - 1 \in Nat /\ m - 1 \notin Above
      BY <1>2, <2>0, <2>2
    <3>2. PICK x \in S : ~(x <= m - 1)
      BY <3>1
    <3>3. x = m
      BY <2>0, <3>1, <3>2
    <3> QED
      BY <3>3
  <2> QED
    BY <2>1, <2>2
<1> QED
  BY <1>2, <1>3 DEF Find!Max

-----------------------------------------------------------------------------
(***************************************************************************)
(* QuickFind.  FoundIsNearest and NoSearchLost are not inductive: they say *)
(* nothing of a search under way.  Handlers nest, so that each loop of the *)
(* stack has to be right about the lines it has read, whatever pattern was *)
(* typed and however much the log grew since it stopped to notify; and     *)
(* what is selected, where searches begin, has to be in the log.           *)
(***************************************************************************)
Directions == {"Forward", "Backward"}

(* What the handlers under way may have still to do. *)
Loops ==
  [at : {"loop"}, dir : Directions, inc : BOOLEAN, line : Int, start : Int,
   nbLines : Int, asked : Patterns \cup {NoPattern}]

Handlers ==
  [at : {"call"}, dir : Directions, inc : BOOLEAN]
  \cup [at : {"notify"}, inc : BOOLEAN]
  \cup Loops

(* The columns of line l where p matches, in a log of these lines. *)
MatchesIn(lines, l, p) ==
  IF l \in 0 .. Len(lines) - 1 /\ p # NoPattern THEN lines[l + 1][p] ELSE {}

(* p matches none of the lines from one to the other. *)
NoneIn(lines, p, from, to) ==
  \A l \in Int : from <= l /\ l <= to => MatchesIn(lines, l, p) = {}

(* What a loop has read is part of the log, and does not match what it has *)
(* read all of it for. *)
LoopRight(lines, loop) ==
  /\ loop.nbLines <= Len(lines)
  /\ loop.dir = "Forward" =>
       /\ loop.start <= loop.line
       /\ loop.line = loop.start \/ loop.line <= loop.nbLines
       /\ loop.asked # NoPattern =>
            NoneIn(lines, loop.asked, loop.start, loop.line - 1)
  /\ loop.dir = "Backward" =>
       /\ loop.start <= Len(lines) - 1 /\ loop.line <= loop.start
       /\ loop.asked # NoPattern =>
            NoneIn(lines, loop.asked, loop.line + 1, loop.start)

LoopsRight(lines, handlers) ==
  \A i \in 1 .. Len(handlers) :
    handlers[i].at = "loop" => LoopRight(lines, handlers[i])

(* What is selected is in the log. *)
SelectedIn(lines, sel) ==
  /\ sel.kind \in {"none", "line", "range", "portion"}
  /\ sel.kind \in {"line", "portion"} => sel.line \in 0 .. Len(lines) - 1
  /\ sel.kind = "range" => /\ sel.start \in 0 .. Len(lines) - 1
                           /\ sel.end \in 0 .. Len(lines) - 1

(* Where an incremental search began is in the log, or just after it. *)
BegunIn(lines, inc) ==
  inc.direction # "None" => /\ inc.position.line \in 0 .. Len(lines)
                            /\ SelectedIn(lines, inc.selection)

FoundRight(lines, find) ==
  find.asked # NoPattern =>
    /\ find.asked \in Patterns /\ find.from \in Int
    /\ find.line \in 0 .. Len(lines) - 1
    /\ find.column \in MatchesIn(lines, find.line, find.asked)
    /\ find.from <= find.line \/ find.from <= Len(lines) - 1
    /\ NoneIn(lines, find.asked, find.from, find.line - 1)
    /\ NoneIn(lines, find.asked, find.line + 1, find.from)

ForwardUnderWay(handlers) ==
  \E i \in 1 .. Len(handlers) :
    handlers[i].at = "loop" /\ handlers[i].dir = "Forward"

FindInv ==
  /\ log \in Seq(LogLines) /\ pattern \in Patterns \cup {NoPattern}
  /\ stack \in Seq(Handlers) /\ currentDirection_ \in Directions
  /\ SelectedIn(log, selection) /\ BegunIn(log, incremental)
  /\ LoopsRight(log, stack)
  /\ FoundRight(log, found)
  /\ looped /\ searchState # "Idle" => ForwardUnderWay(stack)

(* The matches of QuickFind are those of its log. *)
LEMMA MatchesAre ==
  ASSUME NEW l, NEW p
  PROVE  Find!Matches(l, p) = MatchesIn(log, l, p)
BY DEF Find!Matches, MatchesIn, Find!getNbLine

(* Whatever columns of a line are chosen from are columns of it. *)
LEMMA ChosenColumn ==
  ASSUME log \in Seq(LogLines), NEW l, NEW p \in Patterns \cup {NoPattern},
         NEW S, S \subseteq MatchesIn(log, l, p), S # {}
  PROVE  /\ Find!Min(S) \in MatchesIn(log, l, p)
         /\ Find!Max(S) \in MatchesIn(log, l, p)
         /\ l \in 0 .. Len(log) - 1 /\ p # NoPattern
<1>1. l \in 0 .. Len(log) - 1 /\ p # NoPattern /\ MatchesIn(log, l, p) = log[l + 1][p]
  BY DEF MatchesIn
<1>2. l + 1 \in 1 .. Len(log) /\ p \in Patterns
  BY <1>1
<1>3. log[l + 1] \in LogLines
  BY <1>2
<1>4. log[l + 1][p] \in SUBSET Nat /\ IsFiniteSet(log[l + 1][p])
  BY <1>2, <1>3, LinesAssumption
<1>5. IsFiniteSet(S) /\ S \in SUBSET Nat
  BY <1>1, <1>4, FS_Subset
<1> QED
  BY <1>1, <1>5, MinIn, MaxIn

(* The handlers but the last. *)
LEMMA Below ==
  ASSUME NEW st \in Seq(Handlers), st # <<>>
  PROVE  /\ Len(st) \in Nat \ {0}
         /\ Find!Last(st) \in Handlers /\ Find!Last(st) = st[Len(st)]
         /\ Find!Front(st) \in Seq(Handlers)
         /\ Len(Find!Front(st)) = Len(st) - 1
         /\ \A i \in 1 .. Len(st) - 1 : Find!Front(st)[i] = st[i]
<1>1. Len(st) \in Nat \ {0}
  BY EmptySeq
<1>2. \A i \in 1 .. Len(st) : st[i] \in Handlers
  BY ElementOfSeq
<1> DEFINE n == Len(st) - 1
<1>3. n \in Nat /\ 1 \in Int /\ (1 <= n => n - 1 + 1 = n) /\ (~(1 <= n) => n = 0)
  <2>1. PICK l \in Nat : l = Len(st) /\ l # 0
    BY <1>1
  <2>2. /\ l - 1 \in Nat /\ 1 \in Int /\ (1 <= l - 1 => l - 1 - 1 + 1 = l - 1)
        /\ (~(1 <= l - 1) => l - 1 = 0)
    BY <2>1
  <2> QED
    BY <2>1, <2>2, Zenon
<1>4. /\ SubSeq(st, 1, n) \in Seq(Handlers)
      /\ Len(SubSeq(st, 1, n)) = IF 1 <= n THEN n - 1 + 1 ELSE 0
      /\ \A i \in 1 .. n - 1 + 1 : SubSeq(st, 1, n)[i] = st[1 + i - 1]
  <2>1. \A i \in 1 .. n : st[i] \in Handlers
    BY <1>1, <1>2
  <2> HIDE DEF n
  <2> QED
    BY <1>3, <2>1, SubSeqProperties
<1>5. \A i \in 1 .. n : SubSeq(st, 1, n)[i] = st[i]
  BY <1>3, <1>4
<1> QED
  BY <1>1, <1>2, <1>3, <1>4, <1>5 DEF Find!Last, Find!Front

LEMMA LoopsBelow ==
  ASSUME NEW lines, NEW st \in Seq(Handlers), st # <<>>, LoopsRight(lines, st)
  PROVE  LoopsRight(lines, Find!Front(st))
<1> SUFFICES ASSUME NEW i \in 1 .. Len(Find!Front(st)), Find!Front(st)[i].at = "loop"
             PROVE  LoopRight(lines, Find!Front(st)[i])
  BY DEF LoopsRight
<1>1. i \in 1 .. Len(st) - 1 /\ i \in 1 .. Len(st)
  BY Below
<1> QED
  BY <1>1, Below DEF LoopsRight

(* One handler more. *)
LEMMA LoopsWith ==
  ASSUME NEW lines, NEW st \in Seq(Handlers), LoopsRight(lines, st),
         NEW h \in Handlers, h.at = "loop" => LoopRight(lines, h)
  PROVE  Append(st, h) \in Seq(Handlers) /\ LoopsRight(lines, Append(st, h))
<1>1. /\ Append(st, h) \in Seq(Handlers) /\ Len(Append(st, h)) = Len(st) + 1
      /\ \A i \in 1 .. Len(st) : Append(st, h)[i] = st[i]
      /\ Append(st, h)[Len(st) + 1] = h /\ Len(st) \in Nat
  BY AppendProperties, LenProperties
<1>2. ASSUME NEW i \in 1 .. Len(Append(st, h)), Append(st, h)[i].at = "loop"
      PROVE  LoopRight(lines, Append(st, h)[i])
  <2>1. i = Len(st) + 1 \/ i \in 1 .. Len(st)
    BY <1>1
  <2> QED
    BY <1>1, <1>2, <2>1 DEF LoopsRight
<1> QED
  BY <1>1, <1>2 DEF LoopsRight

(* A forward search is still under way when another handler returns or is  *)
(* called. *)
LEMMA ForwardBelow ==
  ASSUME NEW st \in Seq(Handlers), st # <<>>, ForwardUnderWay(st),
         ~(Find!Last(st).at = "loop" /\ Find!Last(st).dir = "Forward")
  PROVE  ForwardUnderWay(Find!Front(st))
<1>1. PICK i \in 1 .. Len(st) : st[i].at = "loop" /\ st[i].dir = "Forward"
  BY DEF ForwardUnderWay
<1>2. i \in 1 .. Len(st) - 1
  BY <1>1, Below
<1>3. i \in 1 .. Len(Find!Front(st)) /\ Find!Front(st)[i] = st[i]
  BY <1>2, Below
<1> QED
  BY <1>1, <1>3 DEF ForwardUnderWay

LEMMA ForwardWith ==
  ASSUME NEW st \in Seq(Handlers), NEW h \in Handlers,
         ForwardUnderWay(st) \/ (h.at = "loop" /\ h.dir = "Forward")
  PROVE  ForwardUnderWay(Append(st, h))
<1>1. /\ Len(Append(st, h)) = Len(st) + 1 /\ Len(st) \in Nat
      /\ \A i \in 1 .. Len(st) : Append(st, h)[i] = st[i]
      /\ Append(st, h)[Len(st) + 1] = h
  BY AppendProperties, LenProperties
<1>2. 1 .. Len(st) \subseteq 1 .. Len(st) + 1 /\ Len(st) + 1 \in 1 .. Len(st) + 1
  BY <1>1
<1> QED
  BY <1>1, <1>2 DEF ForwardUnderWay

(* The log grows: what was true of the lines there were still is. *)
LEMMA MatchesGrow ==
  ASSUME NEW lines \in Seq(LogLines), NEW line \in LogLines, NEW l \in Int,
         l <= Len(lines) - 1, NEW p
  PROVE  MatchesIn(Append(lines, line), l, p) = MatchesIn(lines, l, p)
<1>1. /\ Len(Append(lines, line)) = Len(lines) + 1 /\ Len(lines) \in Nat
      /\ \A i \in 1 .. Len(lines) : Append(lines, line)[i] = lines[i]
  BY AppendProperties, LenProperties
<1> QED
  BY <1>1 DEF MatchesIn

LEMMA NoneGrow ==
  ASSUME NEW lines \in Seq(LogLines), NEW line \in LogLines, NEW p, NEW from \in Int,
         NEW to \in Int, from > to \/ to <= Len(lines) - 1, NoneIn(lines, p, from, to)
  PROVE  NoneIn(Append(lines, line), p, from, to)
<1> SUFFICES ASSUME NEW l \in Int, from <= l, l <= to
             PROVE  MatchesIn(Append(lines, line), l, p) = {}
  BY DEF NoneIn
<1>1. Len(lines) \in Nat
  BY LenProperties
<1>2. l <= Len(lines) - 1
  BY <1>1
<1> QED
  BY <1>2, MatchesGrow DEF NoneIn

LEMMA LoopsGrow ==
  ASSUME NEW lines \in Seq(LogLines), NEW line \in LogLines, NEW st \in Seq(Handlers),
         LoopsRight(lines, st)
  PROVE  LoopsRight(Append(lines, line), st)
<1> SUFFICES ASSUME NEW i \in 1 .. Len(st), st[i].at = "loop"
             PROVE  LoopRight(Append(lines, line), st[i])
  BY DEF LoopsRight
<1>1. Len(Append(lines, line)) = Len(lines) + 1 /\ Len(lines) \in Nat
  BY AppendProperties, LenProperties
<1>2. PICK h \in Handlers : h = st[i]
  BY ElementOfSeq
<1>3. h.at = "loop" /\ LoopRight(lines, h)
  BY <1>2 DEF LoopsRight
<1>4. /\ h.line \in Int /\ h.start \in Int /\ h.nbLines \in Int
  BY <1>3 DEF Handlers, Loops
<1>5. CASE h.dir = "Forward"
  <2>1. h.asked # NoPattern => NoneIn(Append(lines, line), h.asked, h.start, h.line - 1)
    <3> SUFFICES ASSUME h.asked # NoPattern
                 PROVE  NoneIn(Append(lines, line), h.asked, h.start, h.line - 1)
      OBVIOUS
    <3>1. NoneIn(lines, h.asked, h.start, h.line - 1)
      BY <1>3, <1>5 DEF LoopRight
    <3>2. h.line - 1 \in Int /\ (h.start > h.line - 1 \/ h.line - 1 <= Len(lines) - 1)
      BY <1>1, <1>3, <1>4, <1>5 DEF LoopRight
    <3> QED
      BY <1>4, <3>1, <3>2, NoneGrow
  <2> QED
    BY <1>1, <1>2, <1>3, <1>4, <1>5, <2>1 DEF LoopRight
<1>6. CASE h.dir # "Forward"
  <2>1. h.dir = "Backward" /\ h.asked # NoPattern =>
          NoneIn(Append(lines, line), h.asked, h.line + 1, h.start)
    <3> SUFFICES ASSUME h.dir = "Backward", h.asked # NoPattern
                 PROVE  NoneIn(Append(lines, line), h.asked, h.line + 1, h.start)
      OBVIOUS
    <3>1. NoneIn(lines, h.asked, h.line + 1, h.start)
      BY <1>3 DEF LoopRight
    <3>2. h.line + 1 \in Int /\ h.start <= Len(lines) - 1
      BY <1>1, <1>3, <1>4 DEF LoopRight
    <3> QED
      BY <1>4, <3>1, <3>2, NoneGrow
  <2> QED
    BY <1>1, <1>2, <1>3, <1>4, <1>6, <2>1 DEF LoopRight
<1> QED
  BY <1>5, <1>6

LEMMA FoundGrows ==
  ASSUME NEW lines \in Seq(LogLines), NEW line \in LogLines, NEW find, FoundRight(lines, find)
  PROVE  FoundRight(Append(lines, line), find)
<1> SUFFICES ASSUME find.asked # NoPattern
             PROVE  FoundRight(Append(lines, line), find)
  BY DEF FoundRight
<1>1. Len(Append(lines, line)) = Len(lines) + 1 /\ Len(lines) \in Nat
  BY AppendProperties, LenProperties
<1>2. /\ find.asked \in Patterns /\ find.from \in Int
      /\ find.line \in 0 .. Len(lines) - 1
      /\ find.column \in MatchesIn(lines, find.line, find.asked)
      /\ find.from <= find.line \/ find.from <= Len(lines) - 1
      /\ NoneIn(lines, find.asked, find.from, find.line - 1)
      /\ NoneIn(lines, find.asked, find.line + 1, find.from)
  BY DEF FoundRight
<1>3. find.line \in 0 .. Len(Append(lines, line)) - 1
  BY <1>1, <1>2
<1>4. find.column \in MatchesIn(Append(lines, line), find.line, find.asked)
  BY <1>1, <1>2, MatchesGrow
<1>5. find.from <= find.line \/ find.from <= Len(Append(lines, line)) - 1
  BY <1>1, <1>2
<1>6. NoneIn(Append(lines, line), find.asked, find.from, find.line - 1)
  <2>1. find.line - 1 \in Int /\ find.line - 1 <= Len(lines) - 1
    BY <1>1, <1>2
  <2> QED
    BY <1>2, <2>1, NoneGrow
<1>7. NoneIn(Append(lines, line), find.asked, find.line + 1, find.from)
  <2>1. find.line + 1 \in Int /\ (find.line + 1 > find.from \/ find.from <= Len(lines) - 1)
    BY <1>1, <1>2
  <2> QED
    BY <1>2, <2>1, NoneGrow
<1> QED
  BY <1>2, <1>3, <1>4, <1>5, <1>6, <1>7 DEF FoundRight

(* A longer log has the lines of the shorter one. *)
LEMMA SelectionGrows ==
  ASSUME NEW lines \in Seq(LogLines), NEW line \in LogLines, NEW sel, SelectedIn(lines, sel)
  PROVE  SelectedIn(Append(lines, line), sel)
<1>1. Len(Append(lines, line)) = Len(lines) + 1 /\ Len(lines) \in Nat
  BY AppendProperties, LenProperties
<1>2. 0 .. Len(lines) - 1 \subseteq 0 .. Len(Append(lines, line)) - 1
  BY <1>1
<1> QED
  BY <1>2, Zenon DEF SelectedIn

LEMMA BeginningGrows ==
  ASSUME NEW lines \in Seq(LogLines), NEW line \in LogLines, NEW inc, BegunIn(lines, inc)
  PROVE  BegunIn(Append(lines, line), inc)
<1>1. Len(Append(lines, line)) = Len(lines) + 1 /\ Len(lines) \in Nat
  BY AppendProperties, LenProperties
<1>2. 0 .. Len(lines) \subseteq 0 .. Len(Append(lines, line))
  BY <1>1
<1> QED
  BY <1>2, SelectionGrows, Zenon DEF BegunIn

(* Searches begin in the log, or just after it. *)
LEMMA PositionIn ==
  ASSUME NEW lines \in Seq(LogLines), NEW sel, SelectedIn(lines, sel)
  PROVE  /\ Find!getNextPosition(sel).line \in 0 .. Len(lines)
         /\ Find!getPreviousPosition(sel).line \in 0 .. Len(lines)
<1>1. Len(lines) \in Nat
  BY LenProperties
<1>2. \/ sel.kind = "none"
      \/ sel.kind = "line" /\ sel.line \in 0 .. Len(lines) - 1
      \/ sel.kind = "portion" /\ sel.line \in 0 .. Len(lines) - 1
      \/ sel.kind = "range" /\ sel.start \in 0 .. Len(lines) - 1
                            /\ sel.end \in 0 .. Len(lines) - 1
  BY DEF SelectedIn
<1> QED
  BY <1>1, <1>2 DEF Find!getNextPosition, Find!getPreviousPosition, Find!FilePosition

(* The last handler returns, or is replaced by another. *)
LEMMA Replaced ==
  ASSUME NEW lines, NEW st \in Seq(Handlers), st # <<>>, LoopsRight(lines, st),
         NEW h \in Handlers, h.at = "loop" => LoopRight(lines, h)
  PROVE  /\ Append(Find!Front(st), h) \in Seq(Handlers)
         /\ LoopsRight(lines, Append(Find!Front(st), h))
BY Below, LoopsBelow, LoopsWith

LEMMA ForwardReplaced ==
  ASSUME NEW st \in Seq(Handlers), st # <<>>, NEW h \in Handlers,
         ~(Find!Last(st).at = "loop" /\ Find!Last(st).dir = "Forward"),
         ForwardUnderWay(st)
  PROVE  ForwardUnderWay(Append(Find!Front(st), h))
BY Below, ForwardBelow, ForwardWith

(* What is shown when nothing is found is still in the log. *)
LEMMA ShowsNothing ==
  ASSUME SelectedIn(log, selection), NEW inc, Find!ReturnNothing(inc), log' = log
  PROVE  SelectedIn(log', selection')
BY DEF Find!ReturnNothing, Find!clear, Find!NoSelection, SelectedIn

(* What is found is in the log, and is the nearest if none of the lines    *)
(* from the first that was read to it matches. *)
LEMMA Finds ==
  ASSUME log \in Seq(LogLines), NEW l \in Int, NEW p \in Patterns \cup {NoPattern},
         NEW c \in MatchesIn(log, l, p), NEW from \in Int, NEW asked \in {p, NoPattern},
         Find!Find(l, c, from, asked), log' = log,
         from <= l \/ from <= Len(log) - 1,
         asked # NoPattern => NoneIn(log, p, from, l - 1) /\ NoneIn(log, p, l + 1, from)
  PROVE  SelectedIn(log', selection') /\ FoundRight(log', found')
<1>1. l \in 0 .. Len(log) - 1 /\ p # NoPattern
  BY DEF MatchesIn
<1>2. SelectedIn(log, Find!Portion(l, c))
  BY <1>1 DEF SelectedIn, Find!Portion
<1>3. /\ found'.line = l /\ found'.column = c /\ found'.from = from
      /\ found'.asked = asked /\ selection' = Find!Portion(l, c)
  BY DEF Find!Find
<1>4. FoundRight(log, found')
  <2> SUFFICES ASSUME found'.asked # NoPattern
               PROVE  FoundRight(log, found')
    BY DEF FoundRight
  <2>1. asked = p
    BY <1>3
  <2> QED
    BY <1>1, <1>3, <2>1 DEF FoundRight
<1> QED
  BY <1>2, <1>3, <1>4

(* No line is between one and the next. *)
LEMMA NoneBetween ==
  ASSUME NEW lines, NEW p, NEW from \in Int, NEW to \in Int, from > to
  PROVE  NoneIn(lines, p, from, to)
BY DEF NoneIn

(* A search begins in the log or just after it, and an incremental one is  *)
(* remembered to. *)
LEMMA BeginsIn ==
  ASSUME log \in Seq(LogLines), SelectedIn(log, selection), BegunIn(log, incremental),
         NEW call, call.dir \in Directions
  PROVE  /\ Find!StartPosition(call).line \in 0 .. Len(log)
         /\ BegunIn(log, Find!StartStatus(call))
<1>1. Find!StartPosition(call).line \in 0 .. Len(log)
  <2>1. CASE call.inc /\ incremental.direction = call.dir
    <3>1. incremental.direction # "None"
      BY <2>1 DEF Directions
    <3>2. Find!StartPosition(call) = incremental.position
      BY <2>1 DEF Find!StartPosition
    <3> QED
      BY <3>1, <3>2 DEF BegunIn
  <2>2. CASE ~(call.inc /\ incremental.direction = call.dir)
    BY <2>2, PositionIn DEF Find!StartPosition
  <2> QED
    BY <2>1, <2>2
<1>2. BegunIn(log, Find!StartStatus(call))
  <2> DEFINE at == Find!StartPosition(call)
  <2> HIDE DEF at
  <2>1. /\ [direction |-> call.dir, position |-> at, selection |-> selection].position = at
        /\ [direction |-> call.dir, position |-> at, selection |-> selection].selection
             = selection
    OBVIOUS
  <2>2. at.line \in 0 .. Len(log)
    BY <1>1 DEF at
  <2>3. BegunIn(log, [direction |-> call.dir, position |-> at, selection |-> selection])
    BY <2>1, <2>2 DEF BegunIn
  <2>4. BegunIn(log, Find!NoIncremental)
    BY DEF BegunIn, Find!NoIncremental
  <2> QED
    BY <2>3, <2>4 DEF Find!StartStatus, at
<1> QED
  BY <1>1, <1>2

(* A search begins. *)
LEMMA StartSearch ==
  ASSUME FindInv, Find!startSearch
  PROVE  FindInv'
<1>1. PICK call : call = Find!Last(stack)
  OBVIOUS
<1>2. /\ stack # <<>> /\ call.at = "call"
      /\ incremental' = Find!StartStatus(call)
      /\ Find!doSearchForward(call) \/ Find!doSearchBackward(call)
      /\ UNCHANGED <<log, pattern, currentDirection_>>
  BY <1>1 DEF Find!startSearch, Find!Top
<1>3. /\ log \in Seq(LogLines) /\ pattern \in Patterns \cup {NoPattern}
      /\ stack \in Seq(Handlers) /\ SelectedIn(log, selection)
      /\ BegunIn(log, incremental) /\ LoopsRight(log, stack) /\ FoundRight(log, found)
  BY DEF FindInv
<1>4. call \in Handlers
  BY <1>1, <1>2, <1>3, Below
<1>5. call.dir \in Directions /\ call.inc \in BOOLEAN
  BY <1>2, <1>4 DEF Handlers, Loops
<1>6. PICK at : at = Find!StartPosition(call)
  OBVIOUS
<1>7. at.line \in 0 .. Len(log) /\ BegunIn(log, incremental') /\ at.line \in Int
      /\ Len(log) \in Nat
  BY <1>2, <1>3, <1>5, <1>6, BeginsIn, LenProperties
<1> DEFINE under == Find!Front(stack)
<1>8. /\ under \in Seq(Handlers) /\ LoopsRight(log, under)
      /\ ForwardUnderWay(stack) => ForwardUnderWay(under)
  BY <1>1, <1>2, <1>3, Below, LoopsBelow, ForwardBelow
<1> HIDE DEF under
<1>9. ASSUME NEW h \in Handlers, h.at = "loop" => LoopRight(log, h)
      PROVE  /\ Append(under, h) \in Seq(Handlers) /\ LoopsRight(log, Append(under, h))
             /\ ForwardUnderWay(stack) \/ (h.at = "loop" /\ h.dir = "Forward")
                  => ForwardUnderWay(Append(under, h))
  BY <1>8, <1>9, LoopsWith, ForwardWith
<1>10. Find!Notify(call.inc) \in Handlers /\ Find!Notify(call.inc).at # "loop"
  BY <1>5 DEF Find!Notify, Handlers, Loops
<1>11. ASSUME NEW h \in Handlers, h.at = "loop" => LoopRight(log, h),
              stack' \in {under, Append(under, h)},
              looped' /\ searchState' # "Idle" =>
                (looped /\ searchState # "Idle") \/ (stack' = Append(under, h) /\ h.at = "loop" /\ h.dir = "Forward"),
              SelectedIn(log', selection'), FoundRight(log', found')
       PROVE  FindInv'
  <2>1. stack' \in Seq(Handlers) /\ LoopsRight(log, stack')
    BY <1>8, <1>9, <1>11
  <2>2. looped' /\ searchState' # "Idle" => ForwardUnderWay(stack')
    BY <1>8, <1>9, <1>11 DEF FindInv
  <2> QED
    BY <1>2, <1>3, <1>7, <1>11, <2>1, <2>2 DEF FindInv
<1>12. CASE Find!doSearchForward(call)
  <2> DEFINE here == Find!MatchesFrom(at.line, at.column)
             loop == Find!Loop("Forward", call.inc, at.line + 1)
  <2>1. here \subseteq MatchesIn(log, at.line, pattern)
    BY MatchesAre DEF Find!MatchesFrom
  <2>2. loop \in Handlers /\ LoopRight(log, loop) /\ loop.at = "loop"
        /\ loop.dir = "Forward"
    <3>1. /\ loop.at = "loop" /\ loop.dir = "Forward" /\ loop.inc = call.inc
          /\ loop.line = at.line + 1 /\ loop.start = at.line + 1
          /\ loop.nbLines = Len(log) /\ loop.asked = pattern
      BY DEF Find!Loop, Find!getNbLine
    <3>2. loop \in Handlers
      BY <1>3, <1>5, <1>7 DEF Find!Loop, Find!getNbLine, Handlers, Loops, Directions
    <3>3. NoneIn(log, pattern, at.line + 1, at.line + 1 - 1)
      BY <1>7, NoneBetween
    <3> HIDE DEF loop
    <3> QED
      BY <1>7, <3>1, <3>2, <3>3 DEF LoopRight
  <2>3. \/ /\ Find!ReturnNothing(call.inc) /\ stack' = under
           /\ UNCHANGED <<looped, found>>
           /\ searchState # "Idle" \/ UNCHANGED searchState
        \/ /\ stack' = Append(under, Find!Notify(call.inc))
           /\ UNCHANGED <<selection, searchState, looped, found>>
        \/ /\ here # {} /\ Find!Find(at.line, Find!Min(here), at.line, pattern)
           /\ stack' = under /\ UNCHANGED <<searchState, looped>>
        \/ /\ stack' = Append(under, loop) /\ UNCHANGED <<selection, found>>
    BY <1>12, <1>6 DEF Find!doSearchForward, Find!Below, under
  <2> HIDE DEF here, loop
  <2>4. CASE /\ Find!ReturnNothing(call.inc) /\ stack' = under
             /\ UNCHANGED <<looped, found>>
             /\ searchState # "Idle" \/ UNCHANGED searchState
    <3>1. SelectedIn(log', selection')
      BY <1>2, <1>3, <2>4, ShowsNothing
    <3>2. stack' \in {under, Append(under, Find!Notify(call.inc))} /\ found' = found
          /\ log' = log
          /\ (looped' /\ searchState' # "Idle" => looped /\ searchState # "Idle")
      BY <1>2, <2>4
    <3>3. FoundRight(log', found')
      BY <1>3, <3>2
    <3> QED
      BY <1>10, <1>11, <3>1, <3>2, <3>3
  <2>5. CASE /\ stack' = Append(under, Find!Notify(call.inc))
             /\ UNCHANGED <<selection, searchState, looped, found>>
    <3>1. SelectedIn(log', selection') /\ FoundRight(log', found')
      BY <1>2, <1>3, <2>5
    <3> QED
      BY <1>10, <1>11, <2>5, <3>1
  <2>6. CASE /\ here # {} /\ Find!Find(at.line, Find!Min(here), at.line, pattern)
             /\ stack' = under /\ UNCHANGED <<searchState, looped>>
    <3>1. Find!Min(here) \in MatchesIn(log, at.line, pattern)
      BY <1>3, <2>1, <2>6, ChosenColumn
    <3>2. NoneIn(log, pattern, at.line, at.line - 1) /\ NoneIn(log, pattern, at.line + 1, at.line)
      BY <1>7, NoneBetween
    <3>3. SelectedIn(log', selection') /\ FoundRight(log', found')
      BY <1>2, <1>3, <1>7, <2>6, <3>1, <3>2, Finds
    <3> QED
      BY <1>10, <1>11, <2>6, <3>3
  <2>7. CASE stack' = Append(under, loop) /\ UNCHANGED <<selection, found>>
    <3>1. SelectedIn(log', selection') /\ FoundRight(log', found')
      BY <1>2, <1>3, <2>7
    <3> QED
      BY <1>11, <2>2, <2>7, <3>1
  <2> QED
    BY <2>3, <2>4, <2>5, <2>6, <2>7
<1>13. CASE Find!doSearchBackward(call)
  <2> DEFINE here == IF at.column > 0 THEN Find!MatchesBefore(at.line, at.column) ELSE {}
             loop == Find!Loop("Backward", call.inc, at.line - 1)
  <2>1. here \subseteq MatchesIn(log, at.line, pattern)
    BY MatchesAre DEF Find!MatchesBefore
  <2>2. loop \in Handlers /\ LoopRight(log, loop)
    <3>1. /\ loop.at = "loop" /\ loop.dir = "Backward" /\ loop.inc = call.inc
          /\ loop.line = at.line - 1 /\ loop.start = at.line - 1
          /\ loop.nbLines = Len(log) /\ loop.asked = pattern
      BY DEF Find!Loop, Find!getNbLine
    <3>2. loop \in Handlers
      BY <1>3, <1>5, <1>7 DEF Find!Loop, Find!getNbLine, Handlers, Loops, Directions
    <3>3. NoneIn(log, pattern, at.line - 1 + 1, at.line - 1)
      BY <1>7, NoneBetween
    <3> HIDE DEF loop
    <3> QED
      BY <1>7, <3>1, <3>2, <3>3 DEF LoopRight
  <2>0. UNCHANGED <<searchState, looped>>
    BY <1>13 DEF Find!doSearchBackward
  <2>3. \/ Find!ReturnNothing(call.inc) /\ stack' = under /\ UNCHANGED found
        \/ /\ stack' = Append(under, Find!Notify(call.inc))
           /\ UNCHANGED <<selection, found>>
        \/ /\ here # {} /\ Find!Find(at.line, Find!Max(here), at.line, pattern)
           /\ stack' = under
        \/ stack' = Append(under, loop) /\ UNCHANGED <<selection, found>>
    BY <1>13, <1>6 DEF Find!doSearchBackward, Find!Below, under
  <2> HIDE DEF here, loop
  <2>4. CASE Find!ReturnNothing(call.inc) /\ stack' = under /\ UNCHANGED found
    <3>1. SelectedIn(log', selection')
      BY <1>2, <1>3, <2>4, ShowsNothing
    <3>3. FoundRight(log', found')
      BY <1>2, <1>3, <2>4
    <3> QED
      BY <1>10, <1>11, <2>0, <2>4, <3>1, <3>3
  <2>5. CASE /\ stack' = Append(under, Find!Notify(call.inc))
             /\ UNCHANGED <<selection, found>>
    <3>1. SelectedIn(log', selection') /\ FoundRight(log', found')
      BY <1>2, <1>3, <2>5
    <3> QED
      BY <1>10, <1>11, <2>0, <2>5, <3>1
  <2>6. CASE /\ here # {} /\ Find!Find(at.line, Find!Max(here), at.line, pattern)
             /\ stack' = under
    <3>1. Find!Max(here) \in MatchesIn(log, at.line, pattern)
      BY <1>3, <2>1, <2>6, ChosenColumn
    <3>2. NoneIn(log, pattern, at.line, at.line - 1) /\ NoneIn(log, pattern, at.line + 1, at.line)
      BY <1>7, NoneBetween
    <3>3. SelectedIn(log', selection') /\ FoundRight(log', found')
      BY <1>2, <1>3, <1>7, <2>6, <3>1, <3>2, Finds
    <3> QED
      BY <1>10, <1>11, <2>0, <2>6, <3>3
  <2>7. CASE stack' = Append(under, loop) /\ UNCHANGED <<selection, found>>
    <3>1. SelectedIn(log', selection') /\ FoundRight(log', found')
      BY <1>2, <1>3, <2>7
    <3> QED
      BY <1>11, <2>0, <2>2, <2>7, <3>1
  <2> QED
    BY <2>3, <2>4, <2>5, <2>6, <2>7
<1> QED
  BY <1>2, <1>12, <1>13


(* The last handler goes on, or returns. *)
LEMMA Continues ==
  ASSUME FindInv, stack # <<>>, NEW h \in Handlers, h.at = "loop" => LoopRight(log, h),
         stack' \in {Find!Front(stack), Append(Find!Front(stack), h)},
         UNCHANGED <<log, pattern, currentDirection_, incremental>>,
         SelectedIn(log', selection'), FoundRight(log', found'),
         looped' /\ searchState' # "Idle" => ForwardUnderWay(stack')
  PROVE  FindInv'
<1>1. /\ stack \in Seq(Handlers) /\ LoopsRight(log, stack)
      /\ log \in Seq(LogLines) /\ pattern \in Patterns \cup {NoPattern}
      /\ currentDirection_ \in Directions /\ BegunIn(log, incremental)
  BY DEF FindInv
<1>2. /\ Find!Front(stack) \in Seq(Handlers) /\ LoopsRight(log, Find!Front(stack))
      /\ Append(Find!Front(stack), h) \in Seq(Handlers)
      /\ LoopsRight(log, Append(Find!Front(stack), h))
  <2>1. Find!Front(stack) \in Seq(Handlers)
    BY <1>1, Below
  <2>2. LoopsRight(log, Find!Front(stack))
    BY <1>1, LoopsBelow
  <2> QED
    BY <2>1, <2>2, LoopsWith
<1>3. stack' \in Seq(Handlers) /\ LoopsRight(log, stack')
  BY <1>2
<1> QED
  BY <1>1, <1>3 DEF FindInv


(* A line is read. *)
LEMMA SearchForwardLine ==
  ASSUME FindInv, Find!searchForwardLine
  PROVE  FindInv'
<1>1. PICK loop : loop = Find!Last(stack)
  OBVIOUS
<1>2. PICK line : line = IF searchState = "RestartNeeded" THEN loop.start ELSE loop.line
  OBVIOUS
<1>3. PICK asked : asked = IF searchState = "RestartNeeded" THEN pattern
                                                          ELSE Find!Asked(loop)
  OBVIOUS
<1>4. PICK here : here = Find!Matches(line, pattern)
  OBVIOUS
<1>5. /\ stack # <<>> /\ loop.at = "loop" /\ loop.dir = "Forward"
      /\ loop.line < loop.nbLines
      /\ UNCHANGED <<log, pattern, currentDirection_, incremental, looped>>
      /\ \/ /\ here # {} /\ Find!Find(line, Find!Min(here), loop.start, asked)
            /\ searchState' = "Idle" /\ stack' = Find!Front(stack)
         \/ /\ here = {}
            /\ stack' = Append(Find!Front(stack),
                               [loop EXCEPT !.line = line + 1, !.asked = asked])
            /\ UNCHANGED <<selection, found>>
  BY <1>1, <1>2, <1>3, <1>4 DEF Find!searchForwardLine, Find!Top, Find!Below
<1>6. /\ log \in Seq(LogLines) /\ pattern \in Patterns \cup {NoPattern}
      /\ stack \in Seq(Handlers) /\ SelectedIn(log, selection)
      /\ LoopsRight(log, stack) /\ FoundRight(log, found) /\ Len(log) \in Nat
  BY LenProperties DEF FindInv
<1>7. loop \in Handlers /\ LoopRight(log, loop)
  <2>1. Len(stack) \in 1 .. Len(stack)
    BY <1>5, <1>6, Below
  <2> QED
    BY <1>1, <1>5, <1>6, <2>1, Below DEF LoopsRight
<1>8. /\ loop.line \in Int /\ loop.start \in Int /\ loop.nbLines \in Int
      /\ loop.inc \in BOOLEAN /\ loop.asked \in Patterns \cup {NoPattern}
  BY <1>5, <1>7 DEF Handlers, Loops
<1>9. /\ loop.start <= line /\ line <= loop.line /\ line \in Int
      /\ loop.nbLines <= Len(log)
  BY <1>2, <1>5, <1>7, <1>8 DEF LoopRight
<1>10. /\ asked \in {pattern, NoPattern}
       /\ asked # NoPattern => NoneIn(log, pattern, loop.start, line - 1)
  <2>1. CASE searchState = "RestartNeeded"
    <3>1. line = loop.start /\ asked = pattern
      BY <1>2, <1>3, <2>1
    <3>2. loop.start > loop.start - 1 /\ loop.start - 1 \in Int
      BY <1>8
    <3> QED
      BY <1>8, <3>1, <3>2, NoneBetween
  <2>2. CASE searchState # "RestartNeeded"
    <3>1. line = loop.line /\ asked = Find!Asked(loop)
      BY <1>2, <1>3, <2>2
    <3>2. asked # NoPattern => asked = pattern /\ loop.asked = pattern
      BY <3>1 DEF Find!Asked
    <3>3. asked \in {pattern, NoPattern}
      BY <3>1 DEF Find!Asked
    <3> QED
      BY <1>5, <1>7, <3>1, <3>2, <3>3 DEF LoopRight
  <2> QED
    BY <2>1, <2>2
<1>11. here = MatchesIn(log, line, pattern)
  BY <1>4, MatchesAre
<1>12. CASE /\ here # {} /\ Find!Find(line, Find!Min(here), loop.start, asked)
            /\ searchState' = "Idle" /\ stack' = Find!Front(stack)
  <2>1. Find!Min(here) \in MatchesIn(log, line, pattern)
    BY <1>6, <1>11, <1>12, ChosenColumn
  <2>2. NoneIn(log, pattern, line + 1, loop.start)
    BY <1>8, <1>9, NoneBetween
  <2>3. SelectedIn(log', selection') /\ FoundRight(log', found')
    BY <1>5, <1>6, <1>8, <1>9, <1>10, <1>12, <2>1, <2>2, Finds
  <2> QED
    BY <1>5, <1>7, <1>12, <2>3, Continues
<1>13. CASE /\ here = {}
            /\ stack' = Append(Find!Front(stack),
                               [loop EXCEPT !.line = line + 1, !.asked = asked])
            /\ UNCHANGED <<selection, found>>
  <2>1. PICK h : h = [loop EXCEPT !.line = line + 1, !.asked = asked]
    OBVIOUS
  <2>2. /\ h \in Handlers /\ h.at = "loop" /\ h.dir = "Forward"
        /\ h.line = line + 1 /\ h.start = loop.start /\ h.nbLines = loop.nbLines
        /\ h.asked = asked
    <3>1. PICK following \in Int : following = line + 1
      BY <1>8, <1>9
    <3>2. asked \in Patterns \cup {NoPattern}
      BY <1>6, <1>10
    <3>3. h = [loop EXCEPT !.line = following, !.asked = asked]
      BY <2>1, <3>1
    <3>4. loop \in Loops
      BY <1>5, <1>7 DEF Handlers, Loops
    <3>5. /\ h \in Loops /\ h.at = "loop" /\ h.dir = loop.dir
          /\ h.line = following /\ h.start = loop.start /\ h.nbLines = loop.nbLines
          /\ h.asked = asked
      BY <3>2, <3>3, <3>4 DEF Loops
    <3> QED
      BY <1>5, <3>1, <3>5 DEF Handlers, Loops
  <2>3. asked # NoPattern => NoneIn(log, asked, loop.start, line + 1 - 1)
    <3> SUFFICES ASSUME asked # NoPattern, NEW l \in Int, loop.start <= l,
                        l <= line + 1 - 1
                 PROVE  MatchesIn(log, l, asked) = {}
      BY DEF NoneIn
    <3>1. asked = pattern /\ NoneIn(log, pattern, loop.start, line - 1)
      BY <1>10
    <3>2. l = line \/ l <= line - 1
      BY <1>9
    <3> QED
      BY <1>11, <1>13, <3>1, <3>2 DEF NoneIn
  <2>4. LoopRight(log, h)
    BY <1>5, <1>8, <1>9, <2>2, <2>3 DEF LoopRight
  <2>5. ForwardUnderWay(stack')
    BY <1>5, <1>6, <1>13, <2>1, <2>2, Below, ForwardWith
  <2> QED
    BY <1>5, <1>6, <1>13, <2>1, <2>2, <2>4, <2>5, Continues
<1> QED
  BY <1>5, <1>12, <1>13

LEMMA SearchBackwardLine ==
  ASSUME FindInv, Find!searchBackwardLine
  PROVE  FindInv'
<1>1. PICK loop : loop = Find!Last(stack)
  OBVIOUS
<1>2. PICK line : line = loop.line
  OBVIOUS
<1>3. PICK asked : asked = Find!Asked(loop)
  OBVIOUS
<1>4. PICK here : here = Find!Matches(line, pattern)
  OBVIOUS
<1>5. /\ stack # <<>> /\ loop.at = "loop" /\ loop.dir = "Backward"
      /\ UNCHANGED <<log, pattern, currentDirection_, incremental, looped, searchState>>
      /\ \/ /\ here # {} /\ Find!Find(line, Find!Max(here), loop.start, asked)
            /\ stack' = Find!Front(stack)
         \/ /\ here = {}
            /\ stack' = Append(Find!Front(stack),
                               [loop EXCEPT !.line = line - 1, !.asked = asked])
            /\ UNCHANGED <<selection, found>>
  BY <1>1, <1>2, <1>3, <1>4 DEF Find!searchBackwardLine, Find!Top, Find!Below
<1>6. /\ log \in Seq(LogLines) /\ pattern \in Patterns \cup {NoPattern}
      /\ stack \in Seq(Handlers) /\ SelectedIn(log, selection)
      /\ LoopsRight(log, stack) /\ FoundRight(log, found) /\ Len(log) \in Nat
      /\ looped /\ searchState # "Idle" => ForwardUnderWay(stack)
  BY LenProperties DEF FindInv
<1>7. loop \in Handlers /\ LoopRight(log, loop)
  <2>1. Len(stack) \in 1 .. Len(stack)
    BY <1>5, <1>6, Below
  <2> QED
    BY <1>1, <1>5, <1>6, <2>1, Below DEF LoopsRight
<1>8. /\ line \in Int /\ loop.start \in Int /\ loop.nbLines \in Int
      /\ loop.inc \in BOOLEAN /\ loop.asked \in Patterns \cup {NoPattern}
  BY <1>2, <1>5, <1>7 DEF Handlers, Loops
<1>9. /\ line <= loop.start /\ loop.start <= Len(log) - 1
      /\ loop.nbLines <= Len(log)
  BY <1>2, <1>5, <1>7, <1>8 DEF LoopRight
<1>10. /\ asked \in {pattern, NoPattern}
       /\ asked # NoPattern => NoneIn(log, pattern, line + 1, loop.start)
  <2>1. asked # NoPattern => asked = pattern /\ loop.asked = pattern
    BY <1>3 DEF Find!Asked
  <2>2. asked \in {pattern, NoPattern}
    BY <1>3 DEF Find!Asked
  <2> QED
    BY <1>2, <1>5, <1>7, <2>1, <2>2 DEF LoopRight
<1>11. here = MatchesIn(log, line, pattern)
  BY <1>4, MatchesAre
<1>12. CASE /\ here # {} /\ Find!Find(line, Find!Max(here), loop.start, asked)
            /\ stack' = Find!Front(stack)
  <2>1. Find!Max(here) \in MatchesIn(log, line, pattern)
    BY <1>6, <1>11, <1>12, ChosenColumn
  <2>2. asked # NoPattern => NoneIn(log, pattern, loop.start, line - 1)
                             /\ NoneIn(log, pattern, line + 1, loop.start)
    <3>1. \/ loop.start > line - 1
      BY <1>8, <1>9
    <3> QED
      BY <1>8, <1>10, <3>1, NoneBetween
  <2>3. SelectedIn(log', selection') /\ FoundRight(log', found')
    BY <1>5, <1>6, <1>8, <1>9, <1>10, <1>12, <2>1, <2>2, Finds
  <2>4. looped' /\ searchState' # "Idle" => ForwardUnderWay(stack')
    BY <1>1, <1>5, <1>6, <1>12, ForwardBelow
  <2> QED
    BY <1>5, <1>7, <1>12, <2>3, <2>4, Continues
<1>13. CASE /\ here = {}
            /\ stack' = Append(Find!Front(stack),
                               [loop EXCEPT !.line = line - 1, !.asked = asked])
            /\ UNCHANGED <<selection, found>>
  <2>1. PICK h : h = [loop EXCEPT !.line = line - 1, !.asked = asked]
    OBVIOUS
  <2>2. /\ h \in Handlers /\ h.at = "loop" /\ h.dir = "Backward"
        /\ h.line = line - 1 /\ h.start = loop.start /\ h.nbLines = loop.nbLines
        /\ h.asked = asked
    <3>1. PICK following \in Int : following = line - 1
      BY <1>8, <1>9
    <3>2. asked \in Patterns \cup {NoPattern}
      BY <1>6, <1>10
    <3>3. h = [loop EXCEPT !.line = following, !.asked = asked]
      BY <2>1, <3>1
    <3>4. loop \in Loops
      BY <1>5, <1>7 DEF Handlers, Loops
    <3>5. /\ h \in Loops /\ h.at = "loop" /\ h.dir = loop.dir
          /\ h.line = following /\ h.start = loop.start /\ h.nbLines = loop.nbLines
          /\ h.asked = asked
      BY <3>2, <3>3, <3>4 DEF Loops
    <3> QED
      BY <1>5, <3>1, <3>5 DEF Handlers, Loops
  <2>3. asked # NoPattern => NoneIn(log, asked, line - 1 + 1, loop.start)
    <3> SUFFICES ASSUME asked # NoPattern, NEW l \in Int, line - 1 + 1 <= l,
                        l <= loop.start
                 PROVE  MatchesIn(log, l, asked) = {}
      BY DEF NoneIn
    <3>1. asked = pattern /\ NoneIn(log, pattern, line + 1, loop.start)
      BY <1>10
    <3>2. l = line \/ line + 1 <= l
      BY <1>8
    <3> QED
      BY <1>11, <1>13, <3>1, <3>2 DEF NoneIn
  <2>4. LoopRight(log, h)
    BY <1>8, <1>9, <2>2, <2>3 DEF LoopRight
  <2>5. looped' /\ searchState' # "Idle" => ForwardUnderWay(stack')
    BY <1>1, <1>5, <1>6, <1>13, <2>1, <2>2, ForwardReplaced
  <2> QED
    BY <1>5, <1>6, <1>13, <2>1, <2>2, <2>4, <2>5, Continues
<1> QED
  BY <1>5, <1>12, <1>13

(* The end, or the beginning, is reached, and told. *)
LEMMA ReachedTheEnd ==
  ASSUME FindInv, Find!reachedEndOfFile \/ Find!reachedBeginningOfFile
  PROVE  FindInv'
<1>1. PICK loop : loop = Find!Last(stack)
  OBVIOUS
<1>2. /\ stack # <<>> /\ loop.at = "loop"
      /\ UNCHANGED <<log, pattern, currentDirection_, selection, incremental,
                     looped, found>>
      /\ searchState' = "Idle" \/ (loop.dir = "Backward" /\ searchState' = searchState)
      /\ stack' = Append(Find!Front(stack), Find!Notify(loop.inc))
  BY <1>1 DEF Find!reachedEndOfFile, Find!reachedBeginningOfFile, Find!Top, Find!Below
<1>3. /\ stack \in Seq(Handlers) /\ SelectedIn(log, selection) /\ FoundRight(log, found)
      /\ looped /\ searchState # "Idle" => ForwardUnderWay(stack)
  BY DEF FindInv
<1>4. Find!Notify(loop.inc) \in Handlers /\ Find!Notify(loop.inc).at = "notify"
  <2>1. loop \in Handlers
    BY <1>1, <1>2, <1>3, Below
  <2>2. loop.inc \in BOOLEAN
    BY <1>2, <2>1 DEF Handlers, Loops
  <2> QED
    BY <2>2 DEF Find!Notify, Handlers, Loops
<1>5. looped' /\ searchState' # "Idle" => ForwardUnderWay(stack')
  BY <1>1, <1>2, <1>3, <1>4, ForwardReplaced
<1> QED
  BY <1>2, <1>3, <1>4, <1>5, Continues

LEMMA NotifyReturns ==
  ASSUME FindInv, Find!notifyReturns
  PROVE  FindInv'
<1>1. PICK call : call = Find!Last(stack)
  OBVIOUS
<1>2. /\ stack # <<>> /\ call.at = "notify" /\ Find!ReturnNothing(call.inc)
      /\ UNCHANGED <<log, pattern, currentDirection_, incremental, searchState,
                     looped, found>>
      /\ stack' = Find!Front(stack)
  BY <1>1 DEF Find!notifyReturns, Find!Top, Find!Below
<1>3. /\ stack \in Seq(Handlers) /\ SelectedIn(log, selection) /\ FoundRight(log, found)
      /\ looped /\ searchState # "Idle" => ForwardUnderWay(stack)
  BY DEF FindInv
<1>4. call \in Handlers
  BY <1>1, <1>2, <1>3, Below
<1>5. SelectedIn(log', selection')
  BY <1>2, <1>3, ShowsNothing
<1>6. looped' /\ searchState' # "Idle" => ForwardUnderWay(stack')
  BY <1>1, <1>2, <1>3, ForwardBelow
<1> QED
  BY <1>2, <1>3, <1>4, <1>5, <1>6, Continues

(* What the user asks for: what is selected is in the log, and what begins *)
(* is a call. *)
LEMMA ActsIn ==
  ASSUME FindInv, UNCHANGED <<log, searchState, looped, found>>,
         pattern' \in Patterns \cup {NoPattern}, currentDirection_' \in Directions,
         SelectedIn(log, selection'), BegunIn(log, incremental'),
         stack' \in Seq(Handlers), LoopsRight(log, stack'),
         ForwardUnderWay(stack) => ForwardUnderWay(stack')
  PROVE  FindInv'
BY DEF FindInv

LEMMA Calls ==
  ASSUME NEW lines, NEW st \in Seq(Handlers), LoopsRight(lines, st),
         NEW dir \in Directions, NEW inc \in BOOLEAN, NEW new,
         new = Append(st, Find!Call(dir, inc))
  PROVE  /\ new \in Seq(Handlers) /\ LoopsRight(lines, new)
         /\ ForwardUnderWay(st) => ForwardUnderWay(new)
<1>1. Find!Call(dir, inc) \in Handlers /\ Find!Call(dir, inc).at # "loop"
  BY DEF Find!Call, Handlers
<1> QED
  BY <1>1, LoopsWith, ForwardWith

(* A call is added to the others. *)
LEMMA CallsAfter ==
  ASSUME NEW lines, NEW st \in Seq(Handlers), LoopsRight(lines, st),
         NEW dir \in Directions, NEW inc \in BOOLEAN, NEW new,
         new = st \o <<Find!Call(dir, inc)>>
  PROVE  /\ new \in Seq(Handlers) /\ LoopsRight(lines, new)
         /\ ForwardUnderWay(st) => ForwardUnderWay(new)
<1>1. Find!Call(dir, inc) \in Handlers
  BY DEF Find!Call, Handlers
<1>2. new = Append(st, Find!Call(dir, inc))
  BY <1>1, AppendIsConcat
<1> QED
  BY <1>2, Calls

LEMMA UserActs ==
  ASSUME FindInv, Find!UserAction
  PROVE  FindInv'
<1>1. /\ stack \in Seq(Handlers) /\ LoopsRight(log, stack) /\ log \in Seq(LogLines)
      /\ pattern \in Patterns \cup {NoPattern} /\ currentDirection_ \in Directions
      /\ SelectedIn(log, selection) /\ BegunIn(log, incremental)
  BY DEF FindInv
<1>2. BegunIn(log, Find!NoIncremental)
  BY DEF BegunIn, Find!NoIncremental
<1>3. incremental.direction # "None" => SelectedIn(log, incremental.selection)
  BY <1>1 DEF BegunIn
<1>4. ASSUME NEW p \in Patterns \cup {NoPattern}, NEW i \in BOOLEAN,
             Find!textChanged(p, i)
      PROVE  FindInv'
  <2>1. /\ UNCHANGED <<log, searchState, looped, found, currentDirection_, selection,
                       incremental>>
        /\ pattern' \in {p, pattern}
        /\ \/ stack' = Append(stack, Find!Call(currentDirection_, TRUE))
           \/ stack' = stack
    BY <1>4 DEF Find!textChanged, Find!UserActs, Find!changeSearchPattern,
                Find!KeepPattern
  <2>2. /\ stack' \in Seq(Handlers) /\ LoopsRight(log, stack')
        /\ ForwardUnderWay(stack) => ForwardUnderWay(stack')
    BY <1>1, <2>1, Calls
  <2> QED
    BY <1>1, <2>1, <2>2, ActsIn
<1>5. ASSUME NEW p \in Patterns \cup {NoPattern}, NEW i \in BOOLEAN,
             NEW arrow \in {<<>>, <<Find!Call("Forward", FALSE)>>,
                            <<Find!Call("Backward", FALSE)>>},
             Find!confirmPattern(p, i, arrow)
      PROVE  FindInv'
  <2>1. PICK first : first = stack \o arrow
    OBVIOUS
  <2>2. /\ UNCHANGED <<log, searchState, looped, found, currentDirection_>>
        /\ pattern' = p
        /\ stack' \in {first \o <<>>, first \o <<Find!Call(currentDirection_, FALSE)>>}
        /\ incremental' \in {incremental, Find!NoIncremental}
        /\ \/ selection' = selection
           \/ selection' = incremental.selection /\ incremental.direction # "None"
    BY <1>5, <2>1 DEF Find!confirmPattern, Find!UserActs, Find!changeSearchPattern,
                      Find!incrementalSearchStop, Find!isOngoing
  <2>3. /\ first \in Seq(Handlers) /\ LoopsRight(log, first)
        /\ ForwardUnderWay(stack) => ForwardUnderWay(first)
    <3>1. stack \o <<>> = stack
      BY <1>1, ConcatEmptySeq
    <3>2. "Forward" \in Directions /\ "Backward" \in Directions /\ FALSE \in BOOLEAN
      BY DEF Directions
    <3> QED
      BY <1>1, <2>1, <3>1, <3>2, CallsAfter
  <2>4. /\ stack' \in Seq(Handlers) /\ LoopsRight(log, stack')
        /\ ForwardUnderWay(first) => ForwardUnderWay(stack')
    <3>1. first \o <<>> = first
      BY <2>3, ConcatEmptySeq
    <3> QED
      BY <1>1, <2>2, <2>3, <3>1, CallsAfter
  <2>5. SelectedIn(log, selection') /\ BegunIn(log, incremental')
    BY <1>1, <1>2, <1>3, <2>2
  <2> QED
    BY <1>1, <2>2, <2>3, <2>4, <2>5, ActsIn
<1>6. ASSUME NEW i \in BOOLEAN, Find!cancelSearch(i)
      PROVE  FindInv'
  <2>1. /\ UNCHANGED <<log, searchState, looped, found, stack>>
        /\ pattern' = NoPattern /\ currentDirection_' = "Forward"
        /\ incremental' \in {incremental, Find!NoIncremental}
        /\ \/ selection' = selection
           \/ selection' = incremental.selection /\ incremental.direction # "None"
    BY <1>6 DEF Find!cancelSearch, Find!UserActs, Find!changeSearchPattern,
                Find!isOngoing
  <2>2. SelectedIn(log, selection') /\ BegunIn(log, incremental')
    BY <1>1, <1>2, <1>3, <2>1
  <2>3. "Forward" \in Directions
    BY DEF Directions
  <2> QED
    BY <1>1, <2>1, <2>2, <2>3, ActsIn
<1>7. ASSUME NEW dir \in Directions, Find!searchAgain(dir)
      PROVE  FindInv'
  <2>1. /\ UNCHANGED <<log, searchState, looped, found, pattern, currentDirection_,
                       selection, incremental>>
        /\ stack' = Append(stack, Find!Call(dir, FALSE))
    BY <1>7 DEF Find!searchAgain, Find!UserActs, Find!KeepPattern
  <2> QED
    BY <1>1, <2>1, Calls, ActsIn
<1>8. ASSUME Find!displayQuickFindBar
      PROVE  FindInv'
  <2>1. /\ UNCHANGED <<log, searchState, looped, found, pattern, selection,
                       incremental, stack>>
        /\ currentDirection_' = "Forward"
    BY <1>8 DEF Find!displayQuickFindBar, Find!UserActs, Find!KeepPattern
  <2>2. "Forward" \in Directions
    BY DEF Directions
  <2> QED
    BY <1>1, <2>1, <2>2, ActsIn
<1>9. ASSUME NEW p \in Patterns, NEW dir \in Directions, Find!findSelected(p, dir)
      PROVE  FindInv'
  <2>1. /\ UNCHANGED <<log, searchState, looped, found, selection, incremental>>
        /\ pattern' = p /\ currentDirection_' = dir
        /\ stack' = Append(stack, Find!Call(dir, FALSE))
    BY <1>9 DEF Find!findSelected, Find!UserActs, Find!changeSearchPattern
  <2> QED
    BY <1>1, <2>1, Calls, ActsIn
<1>10. ASSUME NEW sel, SelectedIn(log, sel), Find!select(sel)
       PROVE  FindInv'
  <2>1. /\ UNCHANGED <<log, searchState, looped, found, pattern, currentDirection_,
                       incremental, stack>>
        /\ selection' = sel
    BY <1>10 DEF Find!select, Find!UserActs, Find!KeepPattern
  <2> QED
    BY <1>1, <1>10, <2>1, ActsIn
<1>11. ASSUME NEW l \in 0 .. Len(log) - 1
       PROVE  /\ SelectedIn(log, Find!WholeLine(l))
              /\ \A c : SelectedIn(log, Find!Portion(l, c))
              /\ \A m \in l + 1 .. Len(log) - 1 : SelectedIn(log, Find!LineRange(l, m))
  <2>1. SelectedIn(log, Find!WholeLine(l))
    BY DEF SelectedIn, Find!WholeLine
  <2>2. ASSUME NEW c PROVE SelectedIn(log, Find!Portion(l, c))
    BY DEF SelectedIn, Find!Portion
  <2>3. ASSUME NEW m \in l + 1 .. Len(log) - 1
        PROVE  SelectedIn(log, Find!LineRange(l, m))
    <3>1. m \in 0 .. Len(log) - 1
      OBVIOUS
    <3> QED
      BY <3>1 DEF SelectedIn, Find!LineRange
  <2> QED
    BY <2>1, <2>2, <2>3
<1>12. \/ \E p \in Patterns \cup {NoPattern}, i \in BOOLEAN : Find!textChanged(p, i)
       \/ \E p \in Patterns \cup {NoPattern}, i \in BOOLEAN :
            \E arrow \in {<<>>, <<Find!Call("Forward", FALSE)>>,
                          <<Find!Call("Backward", FALSE)>>} :
              Find!confirmPattern(p, i, arrow)
       \/ \E i \in BOOLEAN : Find!cancelSearch(i)
       \/ \E dir \in Directions : Find!searchAgain(dir)
       \/ \E dir \in Directions, p \in Patterns : Find!findSelected(p, dir)
       \/ Find!displayQuickFindBar
       \/ \E l \in 0 .. Len(log) - 1 :
            \/ Find!select(Find!WholeLine(l))
            \/ \E c : Find!select(Find!Portion(l, c))
            \/ \E m \in l + 1 .. Len(log) - 1 : Find!select(Find!LineRange(l, m))
  BY DEF Find!UserAction, Find!getNbLine, Directions
<1>13. CASE \E l \in 0 .. Len(log) - 1 :
              \/ Find!select(Find!WholeLine(l))
              \/ \E c : Find!select(Find!Portion(l, c))
              \/ \E m \in l + 1 .. Len(log) - 1 : Find!select(Find!LineRange(l, m))
  BY <1>10, <1>11, <1>13
<1> QED
  BY <1>4, <1>5, <1>6, <1>7, <1>8, <1>9, <1>12, <1>13

(* The log grows. *)
LEMMA LogGrows ==
  ASSUME FindInv, NEW line \in LogLines, Find!updateData(line)
  PROVE  FindInv'
<1>1. /\ log' = Append(log, line)
      /\ UNCHANGED <<pattern, currentDirection_, selection, incremental, searchState,
                     stack, looped, found>>
  BY DEF Find!updateData
<1>2. log' \in Seq(LogLines)
  BY <1>1, AppendProperties DEF FindInv
<1>3. /\ SelectedIn(log', selection) /\ BegunIn(log', incremental)
      /\ LoopsRight(log', stack) /\ FoundRight(log', found)
  BY <1>1, SelectionGrows, BeginningGrows, LoopsGrow, FoundGrows DEF FindInv
<1> QED
  BY <1>1, <1>2, <1>3 DEF FindInv

LEMMA FindInit ==
  ASSUME Find!Init
  PROVE  FindInv
<1>1. /\ log \in UNION {[1 .. n -> LogLines] : n \in 1 .. MaxLines - 1}
      /\ pattern = NoPattern /\ currentDirection_ \in Directions
      /\ selection = Find!NoSelection /\ incremental = Find!NoIncremental
      /\ stack = <<>> /\ looped = FALSE /\ found.asked = NoPattern
  BY DEF Find!Init, Directions
<1>2. log \in Seq(LogLines)
  <2>1. PICK n \in 1 .. MaxLines - 1 : log \in [1 .. n -> LogLines]
    BY <1>1
  <2>2. n \in Nat
    BY <2>1
  <2> QED
    BY <2>1, <2>2
<1>3. SelectedIn(log, selection) /\ BegunIn(log, incremental) /\ FoundRight(log, found)
  BY <1>1 DEF SelectedIn, BegunIn, FoundRight, Find!NoSelection, Find!NoIncremental
<1>4. stack \in Seq(Handlers) /\ LoopsRight(log, stack)
  <2>1. stack \in Seq(Handlers) /\ Len(stack) = 0
    BY <1>1, EmptySeq
  <2> QED
    BY <2>1 DEF LoopsRight
<1> QED
  BY <1>1, <1>2, <1>3, <1>4 DEF FindInv

(* Every loop under way is right about what it has read, for every log,    *)
(* whatever the user does meanwhile and however deep handlers nest. *)
THEOREM FindInductive == Spec => [](use = "quickfind" => FindInv)
<1>1. Init => (use = "quickfind" => FindInv)
  BY FindInit DEF Init
<1>2. (use = "quickfind" => FindInv) /\ [Next]_vars => (use = "quickfind" => FindInv)'
  <2> SUFFICES ASSUME use = "quickfind", FindInv, [Next]_vars
               PROVE  FindInv'
    BY UseStays
  <2>1. use = "quickfind" /\ FindInv
    OBVIOUS
  <2>2. [Find!Next]_(Find!vars)
    BY FindSteps
  <2>3. CASE UNCHANGED Find!vars
    BY <2>1, <2>3 DEF FindInv, Find!vars
  <2>4. CASE Find!Search
    BY <2>1, <2>4, StartSearch, SearchForwardLine, SearchBackwardLine, ReachedTheEnd,
       NotifyReturns DEF Find!Search
  <2>5. CASE Find!UserAction
    BY <2>1, <2>5, UserActs
  <2>6. CASE \E l \in LogLines : Find!updateData(l)
    BY <2>1, <2>6, LogGrows
  <2> QED
    BY <2>2, <2>3, <2>4, <2>5, <2>6 DEF Find!Next
<1> QED
  BY <1>1, <1>2, PTL DEF Spec

(* A search finds the nearest match: none of the lines it passed over      *)
(* matches what was looked for; and a search is turned away only while     *)
(* another is under way.  QuickFind::doSearchForward() and its twin.       *)
THEOREM NearestIsFound == Spec => []FoundIsNearest
<1>1. (use = "quickfind" => FindInv) => FoundIsNearest
  <2> SUFFICES ASSUME use = "quickfind", FindInv
               PROVE  Find!FoundIsNearest /\ Find!NoSearchLost
    BY DEF FoundIsNearest
  <2>1. /\ stack \in Seq(Handlers) /\ log \in Seq(LogLines) /\ FoundRight(log, found)
        /\ looped /\ searchState # "Idle" => ForwardUnderWay(stack)
    BY DEF FindInv
  <2>2. Find!NoSearchLost
    <3>1. DOMAIN stack = 1 .. Len(stack)
      BY <2>1, LenProperties
    <3> QED
      BY <2>1, <3>1 DEF Find!NoSearchLost, ForwardUnderWay
  <2>3. Find!FoundIsNearest
    <3> SUFFICES ASSUME found.asked # NoPattern
                 PROVE  /\ found.column \in MatchesIn(log, found.line, found.asked)
                        /\ \A l \in 0 .. Len(log) - 1 :
                             (found.from <= l /\ l < found.line)
                             \/ (found.line < l /\ l <= found.from)
                               => MatchesIn(log, l, found.asked) = {}
      BY MatchesAre DEF Find!FoundIsNearest, Find!getNbLine
    <3>1. /\ found.line \in Int /\ found.from \in Int
          /\ found.column \in MatchesIn(log, found.line, found.asked)
          /\ NoneIn(log, found.asked, found.from, found.line - 1)
          /\ NoneIn(log, found.asked, found.line + 1, found.from)
      BY <2>1 DEF FoundRight
    <3>2. ASSUME NEW l \in 0 .. Len(log) - 1,
                 \/ (found.from <= l /\ l < found.line)
                 \/ (found.line < l /\ l <= found.from)
          PROVE  MatchesIn(log, l, found.asked) = {}
      <4>1. /\ l \in Int
            /\ \/ (found.from <= l /\ l <= found.line - 1)
               \/ (found.line + 1 <= l /\ l <= found.from)
        BY <3>1, <3>2
      <4> QED
        BY <3>1, <4>1 DEF NoneIn
    <3> QED
      BY <3>1, <3>2
  <2> QED
    BY <2>2, <2>3
<1> QED
  BY <1>1, FindInductive, PTL
-----------------------------------------------------------------------------
(***************************************************************************)
(* LogView.  ScreenIsCurrent is not inductive: the cache of a page that    *)
(* the view has left must still be right if the view may come back to it.  *)
(* LinesAreVisible needs the range of the scroll bar to be that of the log *)
(* there is, once the view was told of it, and its value to be at the end  *)
(* while the end is followed.                                              *)
(***************************************************************************)
Fields ==
  {"visible", "value", "maximum", "firstLine", "lastLineAligned", "firstCol",
   "selection", "pattern", "followMode_", "hooked_", "selectionStarted_",
   "selectionStartPos_", "markingClickLine_", "repaint", "invalid_", "screen",
   "changed", "unseen", "tail", "asked"}

IsView(w) == w = [f \in Fields |-> w[f]]

SelectionIn(sel) ==
  \/ sel.kind = "none"
  \/ sel.kind \in {"line", "portion"} /\ sel.line \in Nat
  \/ sel \in [kind : {"range"}, start : Nat, end : Nat, first : Nat]

(* The line that was asked for is in the log, and on the screen. *)
AskedIn(w, n) ==
  w.asked # -1 =>
    /\ ~w.changed /\ w.asked \in 0 .. n - 1
    /\ w.asked \in w.firstLine .. w.firstLine + w.visible - 1

(* The view over a log of n lines. *)
ScrolledIn(w, n) ==
  /\ IsView(w)
  /\ w.visible \in Nat \ {0} /\ w.value \in Nat /\ w.maximum \in Nat
  /\ w.firstLine \in Nat /\ w.selectionStartPos_ \in Nat
  /\ SelectionIn(w.selection) /\ AskedIn(w, n)

End(w, n) == IF n - w.visible + 1 > 0 THEN n - w.visible + 1 ELSE 0

(* The range of the scroll bar is that of the log. *)
Wide(w, n) == ~w.changed => w.maximum = End(w, n)

(* The end is followed at the end of the scroll bar. *)
Tailed(w) == w.tail /\ w.followMode_ /\ ~w.changed => w.value = w.maximum

(* What is drawn where the view is at that line and column. *)
Page(w, first, col, n) ==
  View!Drawn([w EXCEPT !.firstLine = first, !.firstCol = col], n)

(* The cache holds a page of what there is, the one on the screen unless   *)
(* there is something to paint. *)
Painted(w, n) ==
  ~w.changed /\ ~w.unseen /\ ~w.invalid_ =>
    /\ w.screen = Page(w, w.screen.first, w.screen.col, n)
    /\ ~w.repaint => w.screen.first = w.firstLine /\ w.screen.col = w.firstCol

ViewInv ==
  /\ nbLines \in Nat
  /\ ScrolledIn(v, nbLines) /\ Wide(v, nbLines) /\ Tailed(v)
  /\ drawing = View!NotDrawn /\ ~dead => Painted(v, nbLines)
  /\ drawing # View!NotDrawn /\ ~v.changed => drawing.lines = nbLines

(* Whatever was done to the view, the cache is still that of a page of it, *)
(* or it is known not to be.  This relation is transitive. *)
KeepsCache(w, u) ==
  /\ w.invalid_ => u.invalid_
  /\ ~u.invalid_ /\ ~u.unseen =>
       /\ ~w.unseen /\ u.screen = w.screen /\ (w.changed => u.changed)
       /\ u.selection = w.selection /\ u.pattern = w.pattern /\ u.visible = w.visible
       /\ u.repaint \/ (~w.repaint /\ u.firstLine = w.firstLine /\ u.firstCol = w.firstCol)

LEMMA KeepsTwice ==
  ASSUME NEW w, NEW x, NEW u, KeepsCache(w, x), KeepsCache(x, u)
  PROVE  KeepsCache(w, u)
BY DEF KeepsCache

LEMMA PagesAlike ==
  ASSUME NEW w, NEW u, IsView(w), IsView(u), u.selection = w.selection,
         u.pattern = w.pattern, u.visible = w.visible, NEW first, NEW col, NEW n
  PROVE  Page(u, first, col, n) = Page(w, first, col, n)
<1> DEFINE x == [w EXCEPT !.firstLine = first, !.firstCol = col]
           y == [u EXCEPT !.firstLine = first, !.firstCol = col]
<1>1. /\ x.selection = w.selection /\ x.pattern = w.pattern /\ x.visible = w.visible
      /\ x.firstLine = first /\ x.firstCol = col
  BY DEF IsView, Fields
<1>2. /\ y.selection = u.selection /\ y.pattern = u.pattern /\ y.visible = u.visible
      /\ y.firstLine = first /\ y.firstCol = col
  BY DEF IsView, Fields
<1> HIDE DEF x, y
<1>3. View!visibleLineRange(x) = View!visibleLineRange(y)
  BY <1>1, <1>2 DEF View!visibleLineRange
<1>4. View!Drawn(x, n) = View!Drawn(y, n)
  BY <1>1, <1>2, <1>3, Zenon DEF View!Drawn
<1> QED
  BY <1>4 DEF Page, x, y

(* The page that the view is at. *)
LEMMA PageHere ==
  ASSUME NEW w, IsView(w), NEW n
  PROVE  /\ Page(w, w.firstLine, w.firstCol, n) = View!Drawn(w, n)
         /\ View!Drawn(w, n).first = w.firstLine /\ View!Drawn(w, n).col = w.firstCol
<1>1. [w EXCEPT !.firstLine = w.firstLine, !.firstCol = w.firstCol] = w
  BY DEF IsView, Fields
<1>2. View!Drawn(w, n).first = w.firstLine /\ View!Drawn(w, n).col = w.firstCol
  BY DEF View!Drawn
<1> QED
  BY <1>1, <1>2 DEF Page

LEMMA PaintedStill ==
  ASSUME NEW w, NEW u, IsView(w), IsView(u), NEW n, Painted(w, n), KeepsCache(w, u)
  PROVE  Painted(u, n)
<1> SUFFICES ASSUME ~u.changed, ~u.unseen, ~u.invalid_
             PROVE  /\ u.screen = Page(u, u.screen.first, u.screen.col, n)
                    /\ ~u.repaint => u.screen.first = u.firstLine /\ u.screen.col = u.firstCol
  BY DEF Painted
<1>1. /\ ~w.invalid_ /\ ~w.unseen /\ ~w.changed /\ u.screen = w.screen
      /\ u.selection = w.selection /\ u.pattern = w.pattern /\ u.visible = w.visible
      /\ u.repaint \/ (~w.repaint /\ u.firstLine = w.firstLine /\ u.firstCol = w.firstCol)
  BY DEF KeepsCache
<1>2. Page(u, u.screen.first, u.screen.col, n) = Page(w, u.screen.first, u.screen.col, n)
  BY <1>1, PagesAlike
<1> QED
  BY <1>1, <1>2 DEF Painted

-----------------------------------------------------------------------------
(* The larger and the smaller of two numbers. *)
LEMMA MaxOfTwo ==
  ASSUME NEW a \in Int, NEW b \in Int
  PROVE  View!Max({a, b}) = IF a >= b THEN a ELSE b
BY DEF View!Max

LEMMA MinOfTwo ==
  ASSUME NEW a \in Int, NEW b \in Int
  PROVE  View!Min({a, b}) = IF a <= b THEN a ELSE b
BY DEF View!Min

-----------------------------------------------------------------------------
(* What scrolls nothing, changes neither the log's state nor what was asked *)
(* for. *)
Alike(w, u) ==
  /\ IsView(u)
  /\ u.visible = w.visible /\ u.value = w.value /\ u.maximum = w.maximum
  /\ u.firstLine = w.firstLine /\ u.changed = w.changed /\ u.asked = w.asked
  /\ u.tail = w.tail /\ u.followMode_ = w.followMode_
  /\ u.selectionStartPos_ \in Nat /\ SelectionIn(u.selection)

LEMMA AlikeIn ==
  ASSUME NEW w, NEW u, NEW n, Alike(w, u)
  PROVE  /\ ScrolledIn(w, n) => ScrolledIn(u, n)
         /\ Wide(w, n) => Wide(u, n)
         /\ Tailed(w) => Tailed(u)
<1>1. End(u, n) = End(w, n)
  BY DEF Alike, End
<1>2. AskedIn(w, n) => AskedIn(u, n)
  BY DEF Alike, AskedIn
<1> QED
  BY <1>1, <1>2 DEF Alike, ScrolledIn, Wide, Tailed

LEMMA Updated ==
  ASSUME NEW w, NEW n, ScrolledIn(w, n)
  PROVE  /\ Alike(w, View!update(w)) /\ KeepsCache(w, View!update(w))
         /\ View!update(w).selection = w.selection /\ View!update(w).repaint
         /\ View!update(w).unseen = w.unseen /\ View!update(w).invalid_ = w.invalid_
<1>1. PICK u : u = View!update(w)
  OBVIOUS
<1>2. IsView(w) /\ SelectionIn(w.selection) /\ w.selectionStartPos_ \in Nat
  BY DEF ScrolledIn
<1>3. /\ IsView(u) /\ u.repaint = TRUE
      /\ \A f \in Fields \ {"repaint"} : u[f] = w[f]
  BY <1>1, <1>2 DEF View!update, IsView, Fields
<1>4. /\ u.visible = w.visible /\ u.value = w.value /\ u.maximum = w.maximum
      /\ u.firstLine = w.firstLine /\ u.changed = w.changed /\ u.asked = w.asked
      /\ u.tail = w.tail /\ u.followMode_ = w.followMode_ /\ u.pattern = w.pattern
      /\ u.selectionStartPos_ = w.selectionStartPos_ /\ u.selection = w.selection
      /\ u.screen = w.screen /\ u.unseen = w.unseen /\ u.invalid_ = w.invalid_
  BY <1>3 DEF Fields
<1> QED
  BY <1>1, <1>2, <1>3, <1>4 DEF Alike, KeepsCache

LEMMA Invalidated ==
  ASSUME NEW w, NEW n, ScrolledIn(w, n)
  PROVE  /\ Alike(w, View!invalidate(w)) /\ View!invalidate(w).invalid_
         /\ View!invalidate(w).selection = w.selection
<1>1. PICK u : u = View!invalidate(w)
  OBVIOUS
<1>2. IsView(w) /\ SelectionIn(w.selection) /\ w.selectionStartPos_ \in Nat
  BY DEF ScrolledIn
<1>3. /\ IsView(u) /\ u.invalid_ = TRUE
      /\ u.visible = w.visible /\ u.value = w.value /\ u.maximum = w.maximum
      /\ u.firstLine = w.firstLine /\ u.changed = w.changed /\ u.asked = w.asked
      /\ u.tail = w.tail /\ u.followMode_ = w.followMode_
      /\ u.selectionStartPos_ = w.selectionStartPos_ /\ u.selection = w.selection
  BY <1>1, <1>2 DEF View!invalidate, IsView, Fields
<1> QED
  BY <1>1, <1>2, <1>3 DEF Alike

(* Nothing is claimed of a cache that is thrown away. *)
LEMMA NoCache ==
  ASSUME NEW w, NEW u, u.invalid_
  PROVE  KeepsCache(w, u)
BY DEF KeepsCache

(* Where the first line is put. *)
LEMMA TopIn ==
  ASSUME nbLines \in Nat, NEW w, w.visible \in Nat \ {0}, w.value \in Nat
  PROVE  View!topLine(w) \in Nat
BY DEF View!topLine, View!beyond

LEMMA Scrolls ==
  ASSUME nbLines \in Nat, NEW w, NEW n, IsView(w), w.visible \in Nat \ {0},
         w.value \in Nat, w.maximum \in Nat, w.selectionStartPos_ \in Nat,
         SelectionIn(w.selection)
  PROVE  LET u == View!scrollContentsBy(w)
         IN  /\ ScrolledIn(u, n) /\ Tailed(u) /\ (Wide(w, n) => Wide(u, n))
             /\ u.repaint /\ u.firstLine = View!topLine(u) /\ u.asked = -1
             /\ View!topLine(u) = View!topLine(w)
             /\ u.value = w.value /\ u.maximum = w.maximum /\ u.visible = w.visible
             /\ u.changed = w.changed /\ u.followMode_ = w.followMode_
             /\ u.selection = w.selection /\ u.pattern = w.pattern
             /\ u.unseen = w.unseen /\ u.invalid_ = w.invalid_ /\ u.screen = w.screen
             /\ u.selectionStartPos_ = w.selectionStartPos_ /\ u.firstCol = w.firstCol
<1>1. PICK u : u = View!scrollContentsBy(w)
  OBVIOUS
<1>2. PICK top : top = View!topLine(w)
  OBVIOUS
<1>3. PICK aligned : aligned = View!beyond(w)
  OBVIOUS
<1>4. top \in Nat
  BY <1>2, TopIn
<1>5. u = [[w EXCEPT !.firstLine = top, !.lastLineAligned = View!beyond(w), !.tail = FALSE,
                     !.asked = -1] EXCEPT !.repaint = TRUE]
  BY <1>1, <1>2 DEF View!scrollContentsBy, View!update
<1>6. /\ IsView(u) /\ u.firstLine = top /\ u.tail = FALSE /\ u.asked = -1
      /\ u.repaint = TRUE
      /\ u.value = w.value /\ u.maximum = w.maximum /\ u.visible = w.visible
      /\ u.changed = w.changed /\ u.followMode_ = w.followMode_
      /\ u.selection = w.selection /\ u.pattern = w.pattern
      /\ u.unseen = w.unseen /\ u.invalid_ = w.invalid_ /\ u.screen = w.screen
      /\ u.selectionStartPos_ = w.selectionStartPos_ /\ u.firstCol = w.firstCol
  BY <1>5 DEF IsView, Fields
<1>7. View!topLine(u) = View!topLine(w)
  BY <1>6 DEF View!topLine, View!beyond
<1>8. ScrolledIn(u, n)
  BY <1>4, <1>6 DEF ScrolledIn, AskedIn
<1>9. Tailed(u) /\ (Wide(w, n) => Wide(u, n))
  BY <1>6 DEF Tailed, Wide, End
<1> QED
  BY <1>1, <1>2, <1>6, <1>7, <1>8, <1>9

Bounded(value, maximum) ==
  IF value >= maximum THEN maximum ELSE IF value >= 0 THEN value ELSE 0

(* What a function that scrolls leaves as it was. *)
Scrolled(w, u) ==
  /\ u.maximum = w.maximum /\ u.visible = w.visible
  /\ u.changed = w.changed /\ u.followMode_ = w.followMode_
  /\ u.selection = w.selection /\ u.selectionStartPos_ = w.selectionStartPos_
  /\ u.screen = w.screen
  /\ u.unseen = w.unseen /\ u.invalid_ = w.invalid_

LEMMA SetsValue ==
  ASSUME nbLines \in Nat, NEW w, ScrolledIn(w, nbLines), NEW value \in Int
  PROVE  LET u == View!setValue(w, value)
         IN  /\ ScrolledIn(u, nbLines) /\ (Wide(w, nbLines) => Wide(u, nbLines))
             /\ Tailed(w) => Tailed(u)
             /\ KeepsCache(w, u) /\ Scrolled(w, u)
             /\ u.value = Bounded(value, w.maximum)
             /\ u = w \/ (u.firstLine = View!topLine(u) /\ u.asked = -1)
<1>1. /\ IsView(w) /\ w.visible \in Nat \ {0} /\ w.value \in Nat /\ w.maximum \in Nat
      /\ w.selectionStartPos_ \in Nat /\ SelectionIn(w.selection)
  BY DEF ScrolledIn
<1>2. PICK b : b = Bounded(value, w.maximum)
  OBVIOUS
<1>3. b \in Nat
  BY <1>1, <1>2 DEF Bounded
<1>4. View!Max({0, View!Min({value, w.maximum})}) = b
  <2>1. View!Min({value, w.maximum}) = IF value <= w.maximum THEN value ELSE w.maximum
    BY <1>1, MinOfTwo
  <2>2. PICK m \in Int : m = View!Min({value, w.maximum})
    BY <1>1, <2>1
  <2>3. View!Max({0, m}) = IF 0 >= m THEN 0 ELSE m
    BY MaxOfTwo
  <2> QED
    BY <1>1, <1>2, <2>1, <2>2, <2>3 DEF Bounded
<1>5. CASE b = w.value
  <2>1. View!setValue(w, value) = w
    BY <1>4, <1>5 DEF View!setValue
  <2>2. KeepsCache(w, w) /\ Scrolled(w, w)
    BY DEF KeepsCache, Scrolled
  <2> QED
    BY <1>2, <1>5, <2>1, <2>2
<1>6. CASE b # w.value
  <2>1. PICK x : x = [w EXCEPT !.value = b]
    OBVIOUS
  <2>2. View!setValue(w, value) = View!scrollContentsBy(x)
    BY <1>4, <1>6, <2>1 DEF View!setValue
  <2>3. /\ IsView(x) /\ x.value = b /\ x.maximum = w.maximum /\ x.visible = w.visible
        /\ x.changed = w.changed /\ x.followMode_ = w.followMode_
        /\ x.selection = w.selection /\ x.pattern = w.pattern
        /\ x.unseen = w.unseen /\ x.invalid_ = w.invalid_ /\ x.screen = w.screen
        /\ x.selectionStartPos_ = w.selectionStartPos_
    BY <1>1, <2>1 DEF IsView, Fields
  <2>4. Wide(w, nbLines) => Wide(x, nbLines)
    BY <2>3 DEF Wide, End
  <2>5. PICK u : u = View!scrollContentsBy(x)
    OBVIOUS
  <2>6. /\ ScrolledIn(u, nbLines) /\ Tailed(u) /\ (Wide(x, nbLines) => Wide(u, nbLines))
        /\ u.repaint /\ u.firstLine = View!topLine(u) /\ u.asked = -1
        /\ u.value = x.value /\ u.maximum = x.maximum /\ u.visible = x.visible
        /\ u.changed = x.changed /\ u.followMode_ = x.followMode_
        /\ u.selection = x.selection /\ u.pattern = x.pattern
        /\ u.unseen = x.unseen /\ u.invalid_ = x.invalid_ /\ u.screen = x.screen
        /\ u.selectionStartPos_ = x.selectionStartPos_
    BY <1>1, <1>3, <2>3, <2>5, Scrolls
  <2>7. KeepsCache(w, u) /\ Scrolled(w, u)
    BY <2>3, <2>6 DEF KeepsCache, Scrolled
  <2> QED
    BY <1>2, <2>2, <2>3, <2>4, <2>5, <2>6, <2>7
<1> QED
  BY <1>5, <1>6

LEMMA SetsColumn ==
  ASSUME nbLines \in Nat, NEW w, ScrolledIn(w, nbLines), NEW column
  PROVE  LET u == View!setColumn(w, column)
         IN  /\ ScrolledIn(u, nbLines) /\ (Wide(w, nbLines) => Wide(u, nbLines))
             /\ Tailed(w) => Tailed(u)
             /\ KeepsCache(w, u) /\ Scrolled(w, u) /\ u.value = w.value
             /\ u = w \/ (u.firstLine = View!topLine(u) /\ u.asked = -1)
<1>1. /\ IsView(w) /\ w.visible \in Nat \ {0} /\ w.value \in Nat /\ w.maximum \in Nat
      /\ w.selectionStartPos_ \in Nat /\ SelectionIn(w.selection)
  BY DEF ScrolledIn
<1>5. CASE column = w.firstCol
  <2>1. View!setColumn(w, column) = w
    BY <1>5 DEF View!setColumn
  <2>2. KeepsCache(w, w) /\ Scrolled(w, w)
    BY DEF KeepsCache, Scrolled
  <2> QED
    BY <1>5, <2>1, <2>2
<1>6. CASE column # w.firstCol
  <2>1. PICK x : x = [w EXCEPT !.firstCol = column]
    OBVIOUS
  <2>2. View!setColumn(w, column) = View!scrollContentsBy(x)
    BY <1>6, <2>1 DEF View!setColumn
  <2>3. /\ IsView(x) /\ x.value = w.value /\ x.maximum = w.maximum
        /\ x.visible = w.visible
        /\ x.changed = w.changed /\ x.followMode_ = w.followMode_
        /\ x.selection = w.selection /\ x.pattern = w.pattern
        /\ x.unseen = w.unseen /\ x.invalid_ = w.invalid_ /\ x.screen = w.screen
        /\ x.selectionStartPos_ = w.selectionStartPos_
    BY <1>1, <2>1 DEF IsView, Fields
  <2>4. Wide(w, nbLines) => Wide(x, nbLines)
    BY <2>3 DEF Wide, End
  <2>5. PICK u : u = View!scrollContentsBy(x)
    OBVIOUS
  <2>6. /\ ScrolledIn(u, nbLines) /\ Tailed(u) /\ (Wide(x, nbLines) => Wide(u, nbLines))
        /\ u.repaint /\ u.firstLine = View!topLine(u) /\ u.asked = -1
        /\ u.value = x.value /\ u.maximum = x.maximum /\ u.visible = x.visible
        /\ u.changed = x.changed /\ u.followMode_ = x.followMode_
        /\ u.selection = x.selection /\ u.pattern = x.pattern
        /\ u.unseen = x.unseen /\ u.invalid_ = x.invalid_ /\ u.screen = x.screen
        /\ u.selectionStartPos_ = x.selectionStartPos_
    BY <1>1, <2>3, <2>5, Scrolls
  <2>7. KeepsCache(w, u) /\ Scrolled(w, u)
    BY <2>3, <2>6 DEF KeepsCache, Scrolled
  <2> QED
    BY <2>2, <2>3, <2>4, <2>5, <2>6, <2>7
<1> QED
  BY <1>5, <1>6

(* Nothing is claimed of a cache that is out of date. *)
LEMMA CacheDropped ==
  ASSUME NEW w, NEW u, w.invalid_ => u.invalid_, u.invalid_ \/ u.unseen
  PROVE  KeepsCache(w, u)
BY DEF KeepsCache

-----------------------------------------------------------------------------
(* The view over the log there is. *)
Good(w) == ScrolledIn(w, nbLines) /\ Wide(w, nbLines)

LEMMA EndIn ==
  ASSUME nbLines \in Nat, NEW w, w.visible \in Nat \ {0}
  PROVE  /\ View!Max({0, nbLines - w.visible + 1}) = End(w, nbLines)
         /\ View!Max({nbLines - w.visible + 1, 0}) = End(w, nbLines)
         /\ End(w, nbLines) \in Nat
<1>1. PICK e \in Int : e = nbLines - w.visible + 1
  OBVIOUS
<1>2. View!Max({0, e}) = (IF 0 >= e THEN 0 ELSE e) /\ View!Max({e, 0}) = IF e >= 0 THEN e ELSE 0
  BY MaxOfTwo
<1> QED
  BY <1>1, <1>2 DEF End

LEMMA BarsUpdated ==
  ASSUME nbLines \in Nat, NEW w, ScrolledIn(w, nbLines)
  PROVE  LET u == View!updateScrollBars(w)
         IN  /\ Good(u) /\ KeepsCache(w, u) /\ u.followMode_ = w.followMode_
             /\ u.changed = w.changed
<1>1. /\ IsView(w) /\ w.visible \in Nat \ {0} /\ w.value \in Nat /\ w.maximum \in Nat
      /\ w.firstLine \in Nat
      /\ w.selectionStartPos_ \in Nat /\ SelectionIn(w.selection) /\ AskedIn(w, nbLines)
  BY DEF ScrolledIn
<1>2. PICK x : x = [w EXCEPT !.maximum = End(w, nbLines)]
  OBVIOUS
<1>3. PICK u : u = View!updateScrollBars(w)
  OBVIOUS
<1>4. u = View!setValue(x, x.value)
  <2>1. PICK e : e = End(w, nbLines)
    OBVIOUS
  <2>2. View!Max({0, nbLines - w.visible + 1}) = e
    BY <1>1, <2>1, EndIn
  <2> QED
    BY <1>2, <1>3, <2>1, <2>2 DEF View!updateScrollBars
<1>5. /\ IsView(x) /\ x.maximum = End(w, nbLines) /\ x.visible = w.visible
      /\ x.value = w.value /\ x.firstLine = w.firstLine /\ x.firstCol = w.firstCol
      /\ x.selection = w.selection /\ x.selectionStartPos_ = w.selectionStartPos_
      /\ x.asked = w.asked /\ x.changed = w.changed /\ x.followMode_ = w.followMode_
      /\ x.unseen = w.unseen /\ x.invalid_ = w.invalid_ /\ x.repaint = w.repaint
      /\ x.pattern = w.pattern /\ x.screen = w.screen
  BY <1>1, <1>2 DEF IsView, Fields
<1>6. ScrolledIn(x, nbLines) /\ Wide(x, nbLines) /\ KeepsCache(w, x)
  <2>1. AskedIn(x, nbLines)
    BY <1>1, <1>5 DEF AskedIn
  <2>2. End(x, nbLines) = End(w, nbLines) /\ End(w, nbLines) \in Nat
    BY <1>1, <1>5, EndIn DEF End
  <2>3. ScrolledIn(x, nbLines)
    BY <1>1, <1>5, <2>1, <2>2 DEF ScrolledIn
  <2> QED
    BY <1>5, <2>2, <2>3 DEF Wide, KeepsCache
<1>7. /\ ScrolledIn(u, nbLines) /\ Wide(u, nbLines) /\ KeepsCache(x, u) /\ Scrolled(x, u)
  <2>1. x.value \in Int
    BY <1>1, <1>5
  <2>2. \A value \in Int :
          LET y == View!setValue(x, value)
          IN  /\ ScrolledIn(y, nbLines) /\ (Wide(x, nbLines) => Wide(y, nbLines))
              /\ KeepsCache(x, y) /\ Scrolled(x, y)
    BY <1>6, SetsValue
  <2> QED
    BY <1>4, <1>6, <2>1, <2>2
<1> QED
  BY <1>3, <1>5, <1>6, <1>7, KeepsTwice DEF Good, Scrolled

LEMMA JumpsToBottom ==
  ASSUME nbLines \in Nat, NEW w, Good(w)
  PROVE  LET u == View!jumpToBottom(w)
         IN  /\ Good(u) /\ KeepsCache(w, u) /\ (~u.changed => u.value = u.maximum)
             /\ u.followMode_ = w.followMode_ /\ u.changed = w.changed
             /\ u.invalid_ = w.invalid_
<1>1. w.visible \in Nat \ {0} /\ w.maximum \in Nat /\ ScrolledIn(w, nbLines)
      /\ Wide(w, nbLines)
  BY DEF Good, ScrolledIn
<1>2. PICK e \in Nat : e = End(w, nbLines)
  BY <1>1, EndIn
<1>3. PICK x : x = View!setValue(w, e)
  OBVIOUS
<1>4. View!jumpToBottom(w) = View!update(x)
  BY <1>1, <1>2, <1>3, EndIn DEF View!jumpToBottom
<1>5. /\ ScrolledIn(x, nbLines) /\ Wide(x, nbLines) /\ KeepsCache(w, x)
      /\ Scrolled(w, x) /\ x.value = Bounded(e, w.maximum)
  <2>1. e \in Int
    OBVIOUS
  <2>2. \A value \in Int :
          LET y == View!setValue(w, value)
          IN  /\ ScrolledIn(y, nbLines) /\ (Wide(w, nbLines) => Wide(y, nbLines))
              /\ KeepsCache(w, y) /\ Scrolled(w, y)
              /\ y.value = Bounded(value, w.maximum)
    BY <1>1, SetsValue
  <2> QED
    BY <1>1, <1>3, <2>1, <2>2
<1>6. ~x.changed => x.value = x.maximum
  BY <1>1, <1>2, <1>5 DEF Wide, Scrolled, Bounded
<1>7. PICK u : u = View!update(x)
  OBVIOUS
<1>8. /\ Alike(x, u) /\ KeepsCache(x, u) /\ ScrolledIn(u, nbLines) /\ Wide(u, nbLines)
      /\ u.invalid_ = x.invalid_
  BY <1>5, <1>7, Updated, AlikeIn
<1>9. KeepsCache(w, u)
  BY <1>5, <1>8, KeepsTwice
<1> QED
  BY <1>4, <1>5, <1>6, <1>7, <1>8, <1>9 DEF Good, Scrolled, Alike

LEMMA Follows ==
  ASSUME nbLines \in Nat, NEW w, Good(w)
  PROVE  LET u == View!follow(w)
         IN  /\ Good(u) /\ KeepsCache(w, u) /\ Tailed(u) /\ u.changed = w.changed
             /\ ~w.followMode_ => u = w
<1>1. CASE ~w.followMode_
  <2>1. View!follow(w) = w
    BY <1>1 DEF View!follow
  <2> QED
    BY <1>1, <2>1 DEF KeepsCache, Tailed
<1>2. CASE w.followMode_
  <2>1. PICK x : x = View!jumpToBottom(w)
    OBVIOUS
  <2>2. /\ Good(x) /\ KeepsCache(w, x) /\ (~x.changed => x.value = x.maximum)
        /\ x.changed = w.changed /\ x.followMode_ = w.followMode_
    BY <2>1, JumpsToBottom
  <2>3. PICK u : u = [x EXCEPT !.tail = TRUE]
    OBVIOUS
  <2>4. View!follow(w) = u
    BY <1>2, <2>1, <2>3 DEF View!follow
  <2>5. /\ IsView(u) /\ u.maximum = x.maximum /\ u.visible = x.visible
        /\ u.value = x.value /\ u.firstLine = x.firstLine /\ u.firstCol = x.firstCol
        /\ u.selection = x.selection /\ u.selectionStartPos_ = x.selectionStartPos_
        /\ u.asked = x.asked /\ u.changed = x.changed /\ u.followMode_ = x.followMode_
        /\ u.unseen = x.unseen /\ u.invalid_ = x.invalid_ /\ u.repaint = x.repaint
        /\ u.pattern = x.pattern /\ u.screen = x.screen
    BY <2>2, <2>3 DEF Good, ScrolledIn, IsView, Fields
  <2>6. ScrolledIn(u, nbLines) /\ Wide(u, nbLines)
    <3>1. AskedIn(x, nbLines) => AskedIn(u, nbLines)
      BY <2>5 DEF AskedIn
    <3>2. End(u, nbLines) = End(x, nbLines)
      BY <2>5 DEF End
    <3> QED
      BY <2>2, <2>5, <3>1, <3>2 DEF Good, ScrolledIn, Wide
  <2>7. KeepsCache(x, u)
    BY <2>5 DEF KeepsCache
  <2>8. KeepsCache(w, u)
    BY <2>2, <2>7, KeepsTwice
  <2> QED
    BY <1>2, <2>2, <2>4, <2>5, <2>6, <2>8 DEF Good, Tailed
<1> QED
  BY <1>1, <1>2

LEMMA FollowSet ==
  ASSUME nbLines \in Nat, NEW w, Good(w), NEW checked \in BOOLEAN
  PROVE  LET u == View!followSet(w, checked)
         IN  /\ Good(u) /\ KeepsCache(w, u) /\ Tailed(u) /\ u.changed = w.changed
             /\ ~checked => u.firstLine = w.firstLine /\ u.value = w.value
                            /\ u.visible = w.visible
<1>1. PICK x : x = [w EXCEPT !.followMode_ = checked, !.hooked_ = checked]
  OBVIOUS
<1>2. /\ IsView(x) /\ x.maximum = w.maximum /\ x.visible = w.visible
      /\ x.value = w.value /\ x.firstLine = w.firstLine /\ x.firstCol = w.firstCol
      /\ x.selection = w.selection /\ x.selectionStartPos_ = w.selectionStartPos_
      /\ x.asked = w.asked /\ x.changed = w.changed /\ x.followMode_ = checked
      /\ x.unseen = w.unseen /\ x.invalid_ = w.invalid_ /\ x.repaint = w.repaint
      /\ x.pattern = w.pattern /\ x.screen = w.screen
  BY <1>1 DEF Good, ScrolledIn, IsView, Fields
<1>3. ScrolledIn(x, nbLines) /\ Wide(x, nbLines) /\ KeepsCache(w, x)
  <2>1. AskedIn(w, nbLines) => AskedIn(x, nbLines)
    BY <1>2 DEF AskedIn
  <2>2. End(w, nbLines) = End(x, nbLines)
    BY <1>2 DEF End
  <2>3. ScrolledIn(x, nbLines) /\ Wide(x, nbLines)
    BY <1>2, <2>1, <2>2 DEF Good, ScrolledIn, Wide
  <2> QED
    BY <1>2, <2>3 DEF KeepsCache
<1>4. PICK y : y = View!update(x)
  OBVIOUS
<1>5. /\ Alike(x, y) /\ KeepsCache(x, y) /\ Good(y)
  BY <1>3, <1>4, Updated, AlikeIn DEF Good
<1>6. PICK u : u = View!follow(y)
  OBVIOUS
<1>7. /\ Good(u) /\ KeepsCache(y, u) /\ Tailed(u) /\ u.changed = y.changed
      /\ ~y.followMode_ => u = y
  BY <1>5, <1>6, Follows
<1>8. View!followSet(w, checked) = u
  BY <1>1, <1>4, <1>6 DEF View!followSet
<1>9. KeepsCache(w, u)
  BY <1>3, <1>5, <1>7, KeepsTwice
<1> QED
  BY <1>2, <1>5, <1>7, <1>8, <1>9 DEF Alike

LEMMA FollowModeChanged ==
  ASSUME nbLines \in Nat, NEW w, Good(w), Tailed(w), NEW enabled \in BOOLEAN
  PROVE  LET u == View!followModeChanged(w, enabled)
         IN  /\ Good(u) /\ KeepsCache(w, u) /\ Tailed(u) /\ u.changed = w.changed
             /\ ~enabled => u.firstLine = w.firstLine /\ u.value = w.value
                            /\ u.visible = w.visible
BY FollowSet DEF View!followModeChanged, KeepsCache

LEMMA DisablesFollow ==
  ASSUME nbLines \in Nat, NEW w, Good(w), Tailed(w)
  PROVE  LET u == View!disableFollow(w)
         IN  /\ Good(u) /\ KeepsCache(w, u) /\ Tailed(u) /\ u.changed = w.changed
             /\ u.firstLine = w.firstLine /\ u.value = w.value /\ u.visible = w.visible
<1>1. PICK x : x = View!followModeChanged(w, FALSE)
  OBVIOUS
<1>2. /\ Good(x) /\ KeepsCache(w, x) /\ Tailed(x) /\ x.changed = w.changed
      /\ x.firstLine = w.firstLine /\ x.value = w.value /\ x.visible = w.visible
  BY <1>1, FollowModeChanged
<1>3. PICK u : u = [x EXCEPT !.hooked_ = FALSE]
  OBVIOUS
<1>4. /\ Alike(x, u) /\ KeepsCache(x, u)
  <2>1. /\ IsView(u) /\ u.maximum = x.maximum /\ u.visible = x.visible
        /\ u.value = x.value /\ u.firstLine = x.firstLine /\ u.firstCol = x.firstCol
        /\ u.selection = x.selection /\ u.selectionStartPos_ = x.selectionStartPos_
        /\ u.asked = x.asked /\ u.changed = x.changed /\ u.followMode_ = x.followMode_
        /\ u.unseen = x.unseen /\ u.invalid_ = x.invalid_ /\ u.repaint = x.repaint
        /\ u.pattern = x.pattern /\ u.screen = x.screen /\ u.tail = x.tail
    BY <1>2, <1>3 DEF Good, ScrolledIn, IsView, Fields
  <2> QED
    BY <1>2, <2>1 DEF Good, ScrolledIn, Alike, KeepsCache
<1>5. Good(u) /\ Tailed(u)
  BY <1>2, <1>4, AlikeIn DEF Good
<1>6. KeepsCache(w, u)
  BY <1>2, <1>4, KeepsTwice
<1>7. View!disableFollow(w) = u
  BY <1>1, <1>3 DEF View!disableFollow
<1> QED
  BY <1>2, <1>4, <1>5, <1>6, <1>7 DEF Alike

-----------------------------------------------------------------------------
LEMMA Half ==
  ASSUME NEW n \in Nat \ {0}
  PROVE  n \div 2 \in Nat /\ n \div 2 <= n - 1
OBVIOUS

(* Where the scroll bar goes for a line is where the line can be seen. *)
LEMMA SeenThere ==
  ASSUME nbLines \in Nat, NEW w, w.visible \in Nat \ {0},
         NEW line \in 0 .. nbLines - 1, w.firstLine = View!topLine(w),
         NEW target \in Int,
         target = line - w.visible \div 2
           \/ (target = 0 /\ line - w.visible \div 2 < 0),
         w.value = Bounded(target, End(w, nbLines))
  PROVE  line \in w.firstLine .. w.firstLine + w.visible - 1
<1>1. PICK seen \in Nat \ {0} : seen = w.visible
  OBVIOUS
<1>2. PICK half \in Nat : half = w.visible \div 2 /\ half <= seen - 1
  BY <1>1, Half
<1>3. PICK value : value = w.value
  OBVIOUS
<1>4. value = Bounded(target, IF nbLines - seen + 1 > 0 THEN nbLines - seen + 1 ELSE 0)
  BY <1>1, <1>3 DEF End
<1>5. w.firstLine = IF nbLines - seen > 0 /\ value > nbLines - seen THEN nbLines - seen
                                                                   ELSE value
  BY <1>1, <1>3 DEF View!topLine, View!beyond
<1>6. target = line - half \/ (target = 0 /\ line - half < 0)
  BY <1>2
<1>7. PICK first : first = w.firstLine
  OBVIOUS
<1>8. line \in first .. first + seen - 1
  BY <1>1, <1>2, <1>4, <1>5, <1>6, <1>7 DEF Bounded
<1> QED
  BY <1>1, <1>7, <1>8

LEMMA JumpsToLine ==
  ASSUME nbLines \in Nat, NEW w, Good(w), NEW line \in Int
  PROVE  LET u == View!jumpToLine(w, line)
         IN  /\ Good(u) /\ (Tailed(w) => Tailed(u)) /\ KeepsCache(w, u) /\ Scrolled(w, u)
             /\ ~w.changed /\ ~View!Detached(u) /\ line \in 0 .. nbLines - 1 =>
                  line \in u.firstLine .. u.firstLine + u.visible - 1
<1>1. /\ w.visible \in Nat \ {0} /\ w.maximum \in Nat /\ ScrolledIn(w, nbLines)
      /\ Wide(w, nbLines)
  BY DEF Good, ScrolledIn
<1>2. PICK half \in Nat : half = w.visible \div 2
  BY <1>1, Half
<1>3. PICK target \in Int : /\ target = View!Max({line - w.visible \div 2, 0})
                            /\ target = IF line - half >= 0 THEN line - half ELSE 0
  <2>1. PICK a \in Int : a = line - half
    OBVIOUS
  <2>2. View!Max({a, 0}) = IF a >= 0 THEN a ELSE 0
    BY MaxOfTwo
  <2> QED
    BY <1>2, <2>1, <2>2
<1>4. PICK u : u = View!setValue(w, target)
  OBVIOUS
<1>5. u = View!jumpToLine(w, line)
  BY <1>3, <1>4 DEF View!jumpToLine
<1>6. /\ ScrolledIn(u, nbLines) /\ (Wide(w, nbLines) => Wide(u, nbLines))
      /\ Tailed(w) => Tailed(u)
      /\ KeepsCache(w, u) /\ Scrolled(w, u)
      /\ u.value = Bounded(target, w.maximum)
  BY <1>1, <1>4, SetsValue
<1>7. ASSUME ~w.changed, ~View!Detached(u), line \in 0 .. nbLines - 1
      PROVE  line \in u.firstLine .. u.firstLine + u.visible - 1
  <2>1. u.visible = w.visible /\ u.visible \in Nat \ {0} /\ w.maximum = End(u, nbLines)
    BY <1>1, <1>6, <1>7 DEF Scrolled, Wide, End
  <2>2. u.value = Bounded(target, End(u, nbLines)) /\ u.firstLine = View!topLine(u)
    BY <1>6, <1>7, <2>1 DEF View!Detached
  <2>3. target = line - u.visible \div 2 \/ (target = 0 /\ line - u.visible \div 2 < 0)
    BY <1>2, <1>3, <2>1
  <2> QED
    BY <1>7, <2>1, <2>2, <2>3, SeenThere
<1> QED
  BY <1>1, <1>5, <1>6, <1>7 DEF Good

LEMMA DisplaysLine ==
  ASSUME nbLines \in Nat, NEW w, Good(w), Tailed(w), NEW line \in Int
  PROVE  LET u == View!displayLine(w, line)
         IN  /\ Good(u) /\ Tailed(u) /\ (w.invalid_ => u.invalid_)
             /\ (u.invalid_ \/ u.unseen) /\ u.changed = w.changed
             /\ ~w.changed /\ ~View!Detached(u) /\ line \in 0 .. nbLines - 1 =>
                  line \in u.firstLine .. u.firstLine + u.visible - 1
<1>1. PICK u : u = View!displayLine(w, line)
  OBVIOUS
<1>2. CASE line \in View!visibleLineRange(w)
  <2>1. PICK x : x = View!invalidate(w)
    OBVIOUS
  <2>2. Alike(w, x) /\ Good(x) /\ Tailed(x) /\ x.invalid_
    BY <2>1, Invalidated, AlikeIn DEF Good
  <2>3. u = View!update(x)
    BY <1>1, <1>2, <2>1 DEF View!displayLine
  <2>4. Alike(x, u) /\ Good(u) /\ Tailed(u) /\ u.invalid_
    BY <2>2, <2>3, Updated, AlikeIn DEF Good
  <2>5. u.firstLine = w.firstLine /\ u.visible = w.visible /\ u.changed = w.changed
    BY <2>2, <2>4 DEF Alike
  <2>6. line \in w.firstLine .. w.firstLine + w.visible - 1
    BY <1>2 DEF View!visibleLineRange
  <2> QED
    BY <1>1, <2>4, <2>5, <2>6
<1>3. CASE line \notin View!visibleLineRange(w)
  <2>1. PICK x : x = View!jumpToLine(w, line)
    OBVIOUS
  <2>2. /\ Good(x) /\ Tailed(x) /\ Scrolled(w, x)
        /\ ~w.changed /\ ~View!Detached(x) /\ line \in 0 .. nbLines - 1 =>
             line \in x.firstLine .. x.firstLine + x.visible - 1
    BY <2>1, JumpsToLine
  <2>3. u = [x EXCEPT !.unseen = TRUE]
    BY <1>1, <1>3, <2>1 DEF View!displayLine, View!jumpAndSelect
  <2>4. /\ Alike(x, u) /\ u.unseen /\ u.invalid_ = x.invalid_
    BY <2>2, <2>3 DEF Good, ScrolledIn, IsView, Fields, Alike
  <2>5. Good(u) /\ Tailed(u)
    BY <2>2, <2>4, AlikeIn DEF Good
  <2>6. View!Detached(u) = View!Detached(x)
    BY <2>4 DEF Alike, View!Detached, View!topLine, View!beyond
  <2> QED
    BY <1>1, <2>2, <2>4, <2>5, <2>6 DEF Alike, Scrolled
<1> QED
  BY <1>1, <1>2, <1>3

(* A line is asked for that is on the screen. *)
LEMMA AsksFor ==
  ASSUME nbLines \in Nat, NEW w, Good(w), Tailed(w), NEW line \in Nat \cup {-1},
         ~w.changed /\ ~View!Detached(w) /\ line \in 0 .. nbLines - 1 =>
           line \in w.firstLine .. w.firstLine + w.visible - 1
  PROVE  LET u == View!Asked(w, line)
         IN  /\ Good(u) /\ Tailed(u) /\ KeepsCache(w, u) /\ u.invalid_ = w.invalid_
             /\ u.unseen = w.unseen
<1>1. PICK asked : asked = IF w.changed \/ View!Detached(w) \/ line >= nbLines
                             THEN -1 ELSE line
  OBVIOUS
<1>2. PICK u : u = [w EXCEPT !.asked = asked]
  OBVIOUS
<1>3. u = View!Asked(w, line)
  BY <1>1, <1>2 DEF View!Asked
<1>4. /\ IsView(u) /\ u.maximum = w.maximum /\ u.visible = w.visible
      /\ u.value = w.value /\ u.firstLine = w.firstLine /\ u.firstCol = w.firstCol
      /\ u.selection = w.selection /\ u.selectionStartPos_ = w.selectionStartPos_
      /\ u.asked = asked /\ u.changed = w.changed /\ u.followMode_ = w.followMode_
      /\ u.unseen = w.unseen /\ u.invalid_ = w.invalid_ /\ u.repaint = w.repaint
      /\ u.pattern = w.pattern /\ u.screen = w.screen /\ u.tail = w.tail
  BY <1>2 DEF Good, ScrolledIn, IsView, Fields
<1>5. AskedIn(u, nbLines)
  <2> SUFFICES ASSUME asked # -1
               PROVE  /\ ~w.changed /\ asked \in 0 .. nbLines - 1
                      /\ asked \in w.firstLine .. w.firstLine + w.visible - 1
    BY <1>4 DEF AskedIn
  <2>1. ~w.changed /\ ~View!Detached(w) /\ line < nbLines /\ asked = line
    BY <1>1
  <2> QED
    BY <2>1
<1>6. End(u, nbLines) = End(w, nbLines)
  BY <1>4 DEF End
<1>7. Good(u) /\ Tailed(u) /\ KeepsCache(w, u)
  BY <1>4, <1>5, <1>6 DEF Good, ScrolledIn, Wide, Tailed, KeepsCache
<1> QED
  BY <1>3, <1>4, <1>7

(* What is selected changes. *)
LEMMA Selects ==
  ASSUME nbLines \in Nat, NEW w, Good(w), Tailed(w), NEW sel, SelectionIn(sel), NEW u,
         u = [w EXCEPT !.selection = sel]
  PROVE  /\ Good(u) /\ Tailed(u) /\ Alike(w, u) /\ u.selection = sel
         /\ u.invalid_ = w.invalid_ /\ u.firstLine = w.firstLine /\ u.value = w.value
         /\ u.visible = w.visible /\ u.changed = w.changed
<1>1. /\ Alike(w, u) /\ u.selection = sel /\ u.invalid_ = w.invalid_
  BY DEF Good, ScrolledIn, IsView, Fields, Alike
<1> QED
  BY <1>1, AlikeIn DEF Good, Alike

LEMMA LineSelected ==
  ASSUME NEW line \in Int
  PROVE  SelectionIn(View!selectLine(line))
BY DEF View!selectLine, SelectionIn, View!NoSelection

LEMMA RangeSelected ==
  ASSUME NEW from \in Nat, NEW to \in Nat
  PROVE  SelectionIn(View!selectRange(from, to))
<1>1. View!Min({from, to}) \in Nat /\ View!Max({from, to}) \in Nat
  BY MinOfTwo, MaxOfTwo
<1> QED
  BY <1>1 DEF View!selectRange, SelectionIn

LEMMA SelectsAndDisplays ==
  ASSUME nbLines \in Nat, NEW w, Good(w), Tailed(w), NEW line \in Nat \cup {-1}
  PROVE  LET u == View!selectAndDisplayLine(w, line)
         IN  Good(u) /\ Tailed(u) /\ KeepsCache(w, u)
<1>1. PICK x : x = View!disableFollow(w)
  OBVIOUS
<1>2. Good(x) /\ Tailed(x) /\ (w.invalid_ => x.invalid_)
  BY <1>1, DisablesFollow DEF KeepsCache
<1>3. PICK y : y = [x EXCEPT !.selection = View!selectLine(line)]
  OBVIOUS
<1>4. Good(y) /\ Tailed(y) /\ y.invalid_ = x.invalid_
  <2>1. PICK sel : sel = View!selectLine(line)
    OBVIOUS
  <2>2. SelectionIn(sel) /\ y = [x EXCEPT !.selection = sel]
    BY <1>3, <2>1, LineSelected
  <2> QED
    BY <1>2, <2>2, Selects
<1>5. PICK z : z = View!displayLine(y, line)
  OBVIOUS
<1>6. /\ Good(z) /\ Tailed(z) /\ (y.invalid_ => z.invalid_) /\ (z.invalid_ \/ z.unseen)
      /\ z.changed = y.changed
      /\ ~y.changed /\ ~View!Detached(z) /\ line \in 0 .. nbLines - 1 =>
           line \in z.firstLine .. z.firstLine + z.visible - 1
  BY <1>4, <1>5, DisplaysLine
<1>7. PICK u : u = View!Asked(z, line)
  OBVIOUS
<1>8. Good(u) /\ Tailed(u) /\ u.invalid_ = z.invalid_ /\ u.unseen = z.unseen
  BY <1>6, <1>7, AsksFor
<1>9. View!selectAndDisplayLine(w, line) = u
  BY <1>1, <1>3, <1>5, <1>7 DEF View!selectAndDisplayLine
<1> QED
  BY <1>2, <1>4, <1>6, <1>8, <1>9, CacheDropped

LEMMA Crops ==
  ASSUME NEW sel, SelectionIn(sel), NEW last \in Int
  PROVE  SelectionIn(View!crop(sel, last))
<1>1. CASE sel.kind = "none"
  <2>1. View!crop(sel, last) = sel
    BY <1>1 DEF View!crop
  <2> QED
    BY <2>1
<1>2. CASE sel.kind \in {"line", "portion"} /\ sel.line \in Nat
  <2>1. View!crop(sel, last) = IF sel.line > last THEN View!NoSelection ELSE sel
    BY <1>2 DEF View!crop
  <2> QED
    BY <2>1 DEF SelectionIn, View!NoSelection
<1>3. CASE sel \in [kind : {"range"}, start : Nat, end : Nat, first : Nat]
  <2>1. sel.kind = "range" /\ sel.start \in Nat /\ sel.end \in Nat
    BY <1>3
  <2>2. CASE last < 0
    <3>1. View!crop(sel, last) = View!NoSelection
      BY <2>1, <2>2 DEF View!crop
    <3> QED
      BY <3>1 DEF SelectionIn, View!NoSelection
  <2>3. CASE last >= 0
    <3>1. PICK a : a = View!Min({sel.start, last})
      OBVIOUS
    <3>2. PICK b : b = View!Min({sel.end, last})
      OBVIOUS
    <3>3. a \in Nat /\ b \in Nat
      BY <2>1, <2>3, <3>1, <3>2, MinOfTwo
    <3>4. View!crop(sel, last) = [sel EXCEPT !.start = a, !.end = b]
      BY <2>1, <2>3, <3>1, <3>2 DEF View!crop
    <3>5. [sel EXCEPT !.start = a, !.end = b]
            \in [kind : {"range"}, start : Nat, end : Nat, first : Nat]
      BY <1>3, <3>3
    <3> QED
      BY <3>4, <3>5 DEF SelectionIn
  <2> QED
    BY <2>2, <2>3
<1> QED
  BY <1>1, <1>2, <1>3 DEF SelectionIn

(* A view that draws all of its lines again. *)
LEMMA Discards ==
  ASSUME nbLines \in Nat, NEW w, Good(w), Tailed(w), NEW past,
         NEW u \in {View!invalidate(w), View!update(View!invalidate(w)),
                    View!invalidate(View!update(w))}
  PROVE  Good(u) /\ Tailed(u) /\ u.invalid_ /\ KeepsCache(past, u)
<1>1. PICK x : x = View!invalidate(w)
  OBVIOUS
<1>2. Good(x) /\ Tailed(x) /\ x.invalid_
  BY <1>1, Invalidated, AlikeIn DEF Good
<1>3. PICK y : y = View!update(x)
  OBVIOUS
<1>4. Good(y) /\ Tailed(y) /\ y.invalid_
  BY <1>2, <1>3, Updated, AlikeIn DEF Good
<1>5. PICK z : z = View!update(w)
  OBVIOUS
<1>6. Good(z) /\ Tailed(z)
  BY <1>5, Updated, AlikeIn DEF Good
<1>7. PICK i : i = View!invalidate(z)
  OBVIOUS
<1>8. Good(i) /\ Tailed(i) /\ i.invalid_
  BY <1>6, <1>7, Invalidated, AlikeIn DEF Good
<1> QED
  BY <1>1, <1>2, <1>3, <1>4, <1>5, <1>7, <1>8, NoCache

(* The view is told of the log. *)
LEMMA IsTold ==
  ASSUME nbLines \in Nat, NEW w, ScrolledIn(w, nbLines), NEW past
  PROVE  LET u == View!updated(w)
         IN  Good(u) /\ Tailed(u) /\ KeepsCache(past, u)
<1>1. /\ IsView(w) /\ w.visible \in Nat \ {0} /\ w.value \in Nat /\ w.maximum \in Nat
      /\ w.firstLine \in Nat
      /\ w.selectionStartPos_ \in Nat /\ SelectionIn(w.selection) /\ AskedIn(w, nbLines)
  BY DEF ScrolledIn
<1>2. PICK told : told = [w EXCEPT !.changed = FALSE]
  OBVIOUS
<1>3. /\ IsView(told) /\ told.visible = w.visible /\ told.value = w.value
      /\ told.maximum = w.maximum /\ told.firstLine = w.firstLine
      /\ told.selectionStartPos_ = w.selectionStartPos_ /\ told.asked = w.asked
      /\ told.selection = w.selection /\ told.changed = FALSE
  BY <1>1, <1>2 DEF IsView, Fields
<1>4. ScrolledIn(told, nbLines)
  <2>1. AskedIn(told, nbLines)
    BY <1>1, <1>3 DEF AskedIn
  <2> QED
    BY <1>1, <1>3, <2>1 DEF ScrolledIn
<1>5. PICK top : top = [told EXCEPT !.firstLine = 0, !.firstCol = 0]
  OBVIOUS
<1>6. PICK inRange : inRange = IF w.firstLine >= nbLines THEN View!setValue(top, 0)
                                                       ELSE told
  OBVIOUS
<1>7. ScrolledIn(inRange, nbLines)
  <2>1. CASE w.firstLine >= nbLines
    <3>1. /\ IsView(top) /\ top.visible = w.visible /\ top.value = w.value
          /\ top.maximum = w.maximum /\ top.firstLine = 0
          /\ top.selectionStartPos_ = w.selectionStartPos_ /\ top.asked = w.asked
          /\ top.selection = w.selection
      BY <1>3, <1>5 DEF IsView, Fields
    <3>2. w.asked = -1
      BY <1>1, <2>1 DEF AskedIn
    <3>3. ScrolledIn(top, nbLines)
      BY <1>1, <3>1, <3>2 DEF ScrolledIn, AskedIn
    <3>4. PICK zero \in Int : zero = 0
      OBVIOUS
    <3>5. ScrolledIn(View!setValue(top, zero), nbLines)
      BY <3>3, SetsValue
    <3> QED
      BY <1>6, <2>1, <3>4, <3>5
  <2>2. CASE ~(w.firstLine >= nbLines)
    BY <1>4, <1>6, <2>2
  <2> QED
    BY <2>1, <2>2
<1>8. PICK cropped : cropped = [inRange EXCEPT !.selection = View!crop(@, nbLines - 1)]
  OBVIOUS
<1>9. ScrolledIn(cropped, nbLines)
  <2>1. PICK sel : sel = View!crop(inRange.selection, nbLines - 1)
    OBVIOUS
  <2>2. SelectionIn(sel)
    <3>1. nbLines - 1 \in Int /\ SelectionIn(inRange.selection)
      BY <1>7 DEF ScrolledIn
    <3> QED
      BY <2>1, <3>1, Crops
  <2>3. cropped = [inRange EXCEPT !.selection = sel]
    BY <1>8, <2>1
  <2>4. Alike(inRange, cropped)
    BY <1>7, <2>2, <2>3 DEF ScrolledIn, IsView, Fields, Alike
  <2> QED
    BY <1>7, <2>4, AlikeIn
<1>10. PICK bars : bars = View!updateScrollBars(cropped)
  OBVIOUS
<1>11. Good(bars)
  BY <1>9, <1>10, BarsUpdated
<1>12. PICK end : end = View!follow(bars)
  OBVIOUS
<1>13. Good(end) /\ Tailed(end)
  BY <1>11, <1>12, Follows
<1>14. View!updated(w) = View!update(View!invalidate(end))
  BY <1>2, <1>5, <1>6, <1>8, <1>10, <1>12 DEF View!updated
<1> QED
  BY <1>13, <1>14, Discards

(* A search finds. *)
LEMMA RangeDisplayed ==
  ASSUME nbLines \in Nat, NEW w, Good(w), Tailed(w), NEW line \in 0 .. nbLines - 1,
         NEW column
  PROVE  LET u == View!displayRangeInLine(w, line, column)
         IN  /\ Good(u) /\ Tailed(u) /\ u.invalid_ /\ u.changed = w.changed
             /\ (~w.changed /\ ~View!Detached(w) /\ ~(line - w.visible \div 2 < 0)) =>
                  line \in u.firstLine .. u.firstLine + u.visible - 1
<1>1. /\ w.visible \in Nat \ {0} /\ w.maximum \in Nat /\ ScrolledIn(w, nbLines)
      /\ Wide(w, nbLines) /\ w.value \in Nat
  BY DEF Good, ScrolledIn
<1>2. PICK half \in Nat : half = w.visible \div 2
  BY <1>1, Half
<1>3. PICK newLine \in Int : newLine = line - half
  OBVIOUS
<1>4. PICK target \in Int : target = IF newLine < 0 THEN w.maximum ELSE newLine
  BY <1>1
<1>5. PICK x : x = IF line \notin View!visibleLineRange(w) /\ newLine # -1
                     THEN View!setValue(w, target) ELSE w
  OBVIOUS
<1>6. /\ Good(x) /\ Tailed(x) /\ Scrolled(w, x)
      /\ x = w \/ (x.firstLine = View!topLine(x) /\ x.value = Bounded(target, w.maximum))
  <2>1. PICK y : y = View!setValue(w, target)
    OBVIOUS
  <2>2. /\ ScrolledIn(y, nbLines) /\ (Wide(w, nbLines) => Wide(y, nbLines))
        /\ Tailed(w) => Tailed(y)
        /\ Scrolled(w, y) /\ y.value = Bounded(target, w.maximum)
        /\ y = w \/ (y.firstLine = View!topLine(y) /\ y.asked = -1)
    BY <1>1, <2>1, SetsValue
  <2>3. Scrolled(w, w)
    BY DEF Scrolled
  <2> QED
    BY <1>1, <1>5, <2>1, <2>2, <2>3 DEF Good
<1>7. PICK y : y = View!setColumn(x, column)
  OBVIOUS
<1>8. /\ Good(y) /\ Tailed(y) /\ Scrolled(x, y) /\ y.value = x.value
      /\ y = x \/ y.firstLine = View!topLine(y)
  BY <1>6, <1>7, SetsColumn DEF Good
<1>9. PICK z : z = View!invalidate(y)
  OBVIOUS
<1>10. PICK u : u = View!update(z)
  OBVIOUS
<1>11. /\ Alike(y, z) /\ Good(z) /\ Tailed(z) /\ z.invalid_
  BY <1>8, <1>9, Invalidated, AlikeIn DEF Good
<1>12. /\ Alike(z, u) /\ Good(u) /\ Tailed(u) /\ u.invalid_
  BY <1>10, <1>11, Updated, AlikeIn DEF Good
<1>13. View!displayRangeInLine(w, line, column) = u
  BY <1>2, <1>3, <1>4, <1>5, <1>7, <1>9, <1>10 DEF View!displayRangeInLine
<1>14. /\ u.firstLine = y.firstLine /\ u.visible = y.visible /\ y.visible = w.visible
       /\ u.changed = w.changed
  BY <1>6, <1>8, <1>11, <1>12 DEF Alike, Scrolled
<1>15. ASSUME ~w.changed, ~View!Detached(w), ~(line - w.visible \div 2 < 0)
       PROVE  line \in y.firstLine .. y.firstLine + y.visible - 1
  <2>1. newLine >= 0 /\ target = newLine
    BY <1>2, <1>3, <1>4, <1>15
  <2>2. w.firstLine = View!topLine(w)
    BY <1>15 DEF View!Detached
  <2>3. CASE line \in View!visibleLineRange(w)
    <3>1. x = w
      BY <1>5, <2>3
    <3>2. y.firstLine = w.firstLine
      BY <1>8, <1>14, <2>2, <3>1 DEF View!topLine, View!beyond
    <3> QED
      BY <1>14, <2>3, <3>2 DEF View!visibleLineRange
  <2>4. CASE line \notin View!visibleLineRange(w)
    <3>1. x = View!setValue(w, target)
      BY <1>5, <2>1, <2>4
    <3>2. x.value = Bounded(target, w.maximum) /\ x.visible = w.visible
      BY <1>1, <3>1, SetsValue DEF Scrolled
    <3>3. x.firstLine = View!topLine(x)
      BY <1>6, <2>2
    <3>4. y.firstLine = View!topLine(y)
      BY <1>8, <3>3 DEF View!topLine, View!beyond
    <3>5. w.maximum = End(y, nbLines)
      BY <1>1, <1>14, <1>15 DEF Wide, End
    <3>6. y.value = Bounded(target, End(y, nbLines))
      BY <1>8, <3>2, <3>5
    <3>7. target = line - y.visible \div 2 /\ y.visible \in Nat \ {0}
      BY <1>1, <1>2, <1>3, <1>14, <2>1
    <3> QED
      BY <3>4, <3>6, <3>7, SeenThere
  <2> QED
    BY <2>3, <2>4
<1> QED
  BY <1>12, <1>13, <1>14, <1>15

-----------------------------------------------------------------------------
(***************************************************************************)
(* What the user does.                                                     *)
(***************************************************************************)
(* What an event leaves of the view. *)
Keeps(w, u) == Good(u) /\ Tailed(u) /\ KeepsCache(w, u)

LEMMA FilePosIn ==
  ASSUME nbLines \in Nat, Good(v), NEW row \in Int
  PROVE  View!convertCoordToFilePos(row) \in Nat
<1>1. PICK line \in Int : line = View!convertCoordToLine(row)
  BY DEF Good, ScrolledIn, View!convertCoordToLine
<1>2. PICK last \in Int : last = nbLines - 1
  OBVIOUS
<1>3. PICK m \in Int : m = View!Min({line, last})
  BY MinOfTwo
<1>4. View!Max({0, m}) \in Nat
  BY MaxOfTwo
<1> QED
  BY <1>1, <1>2, <1>3, <1>4 DEF View!convertCoordToFilePos

LEMMA PreviousRange ==
  ASSUME NEW sel, SelectionIn(sel), NEW line \in Nat
  PROVE  SelectionIn(View!selectRangeFromPrevious(sel, line))
<1>1. CASE sel.kind = "none"
  <2>1. View!selectRangeFromPrevious(sel, line) = View!selectRange(0, line)
    BY <1>1 DEF View!selectRangeFromPrevious
  <2> QED
    BY <2>1, RangeSelected
<1>2. CASE sel.kind \in {"line", "portion"} /\ sel.line \in Nat
  <2>1. View!selectRangeFromPrevious(sel, line) = View!selectRange(sel.line, line)
    BY <1>2 DEF View!selectRangeFromPrevious
  <2> QED
    BY <1>2, <2>1, RangeSelected
<1>3. CASE sel \in [kind : {"range"}, start : Nat, end : Nat, first : Nat]
  <2>1. View!selectRangeFromPrevious(sel, line) = View!selectRange(sel.first, line)
    BY <1>3 DEF View!selectRangeFromPrevious
  <2> QED
    BY <1>3, <2>1, RangeSelected
<1> QED
  BY <1>1, <1>2, <1>3 DEF SelectionIn

LEMMA Pressed ==
  ASSUME nbLines \in Nat, Good(v), Tailed(v), NEW row \in 0 .. v.visible - 1,
         NEW where \in {"text", "shift", "margin"}, View!mousePressEvent(row, where)
  PROVE  Keeps(v, v')
<1>1. /\ IsView(v) /\ v.firstLine \in Nat /\ v.visible \in Nat /\ SelectionIn(v.selection)
      /\ v.selectionStartPos_ \in Nat
  BY DEF Good, ScrolledIn
<1>2. PICK line \in Nat : line = View!convertCoordToLine(row)
  BY <1>1 DEF View!convertCoordToLine
<1>3. PICK start \in Nat : start = View!convertCoordToFilePos(row)
  BY <1>1, FilePosIn
<1>4. CASE where = "shift"
  <2>1. PICK sel : sel = View!selectRangeFromPrevious(v.selection, line)
    OBVIOUS
  <2>2. PICK x : x = [v EXCEPT !.selection = sel]
    OBVIOUS
  <2>3. Good(x) /\ Tailed(x)
    <3>1. SelectionIn(sel)
      BY <1>1, <2>1, PreviousRange
    <3> QED
      BY <2>2, <3>1, Selects
  <2>4. v' = View!invalidate(View!update(x))
    BY <1>2, <1>4, <2>1, <2>2 DEF View!mousePressEvent
  <2> QED
    BY <2>3, <2>4, Discards DEF Keeps
<1>5. CASE where = "margin"
  <2>1. PICK x : x = [v EXCEPT !.markingClickLine_ = line]
    OBVIOUS
  <2>2. Alike(v, x)
    BY <1>1, <2>1 DEF IsView, Fields, Alike
  <2>3. Good(x) /\ Tailed(x)
    BY <2>2, AlikeIn DEF Good
  <2>4. v' = View!invalidate(x)
    BY <1>2, <1>5, <2>1 DEF View!mousePressEvent
  <2> QED
    BY <2>3, <2>4, Discards DEF Keeps
<1>6. CASE where = "text"
  <2>1. PICK begun : begun = [v EXCEPT !.selectionStarted_ = TRUE, !.selectionStartPos_ = start]
    OBVIOUS
  <2>2. Alike(v, begun)
    BY <1>1, <2>1 DEF IsView, Fields, Alike
  <2>3. Good(begun) /\ Tailed(begun)
    BY <2>2, AlikeIn DEF Good
  <2>4. CASE line < nbLines
    <3>1. PICK sel : sel = View!selectLine(line)
      OBVIOUS
    <3>2. PICK x : x = [begun EXCEPT !.selection = sel]
      OBVIOUS
    <3>3. Good(x) /\ Tailed(x)
      <4>1. SelectionIn(sel)
        BY <3>1, LineSelected
      <4> QED
        BY <2>3, <3>2, <4>1, Selects
    <3>4. v' = View!invalidate(View!update(x))
      BY <1>2, <1>3, <1>6, <2>1, <2>4, <3>1, <3>2 DEF View!mousePressEvent
    <3> QED
      BY <3>3, <3>4, Discards DEF Keeps
  <2>5. CASE line >= nbLines
    <3>1. v' = View!invalidate(begun)
      BY <1>2, <1>3, <1>6, <2>1, <2>5 DEF View!mousePressEvent
    <3> QED
      BY <2>3, <3>1, Discards DEF Keeps
  <2> QED
    BY <2>4, <2>5
<1> QED
  BY <1>4, <1>5, <1>6

LEMMA Moved ==
  ASSUME nbLines \in Nat, Good(v), Tailed(v), NEW row \in Int, NEW within,
         View!mouseMoveEvent(row, within)
  PROVE  Keeps(v, v')
<1>1. v.selectionStartPos_ \in Nat
  BY DEF Good, ScrolledIn
<1>2. PICK end \in Nat : end = View!convertCoordToFilePos(row)
  BY FilePosIn
<1>3. PICK sel : sel = IF end # v.selectionStartPos_
                         THEN View!selectRange(v.selectionStartPos_, end)
                         ELSE IF within THEN View!selectPortion(end) ELSE View!selectLine(end)
  OBVIOUS
<1>4. SelectionIn(sel)
  <2>1. SelectionIn(View!selectPortion(end))
    BY DEF View!selectPortion, SelectionIn
  <2>2. SelectionIn(View!selectLine(end))
    BY LineSelected
  <2>3. SelectionIn(View!selectRange(v.selectionStartPos_, end))
    BY <1>1, RangeSelected
  <2> QED
    BY <1>3, <2>1, <2>2, <2>3
<1>5. PICK x : x = [v EXCEPT !.selection = sel]
  OBVIOUS
<1>6. Good(x) /\ Tailed(x)
  BY <1>4, <1>5, Selects
<1>7. v' = View!update(View!invalidate(x))
  BY <1>2, <1>3, <1>5 DEF View!mouseMoveEvent
<1> QED
  BY <1>6, <1>7, Discards DEF Keeps

LEMMA DoubleClicked ==
  ASSUME nbLines \in Nat, Good(v), Tailed(v), NEW row \in Int,
         View!mouseDoubleClickEvent(row)
  PROVE  Keeps(v, v')
<1>1. PICK end \in Nat : end = View!convertCoordToFilePos(row)
  BY FilePosIn
<1>2. PICK sel : sel = View!selectPortion(end)
  OBVIOUS
<1>3. SelectionIn(sel)
  BY <1>2 DEF View!selectPortion, SelectionIn
<1>4. PICK x : x = [v EXCEPT !.selection = sel]
  OBVIOUS
<1>5. Good(x) /\ Tailed(x)
  BY <1>3, <1>4, Selects
<1>6. v' = View!update(View!invalidate(x))
  BY <1>1, <1>2, <1>4 DEF View!mouseDoubleClickEvent
<1> QED
  BY <1>5, <1>6, Discards DEF Keeps

LEMMA Released ==
  ASSUME nbLines \in Nat, Good(v), Tailed(v), NEW row \in Int,
         View!mouseReleaseEvent(row)
  PROVE  Keeps(v, v')
<1>1. IsView(v) /\ SelectionIn(v.selection) /\ v.selectionStartPos_ \in Nat
  BY DEF Good, ScrolledIn
<1>2. PICK idle : idle = [v EXCEPT !.selectionStarted_ = FALSE]
  OBVIOUS
<1>3. PICK released : released = [v EXCEPT !.markingClickLine_ = -1]
  OBVIOUS
<1>4. Alike(v, idle) /\ KeepsCache(v, idle)
  BY <1>1, <1>2 DEF IsView, Fields, Alike, KeepsCache
<1>5. Alike(v, released) /\ KeepsCache(v, released)
  BY <1>1, <1>3 DEF IsView, Fields, Alike, KeepsCache
<1>6. Good(idle) /\ Tailed(idle) /\ Good(released) /\ Tailed(released)
  BY <1>4, <1>5, AlikeIn DEF Good
<1>7. v' \in {idle, released, View!updated(released), View!invalidate(released)}
  BY <1>2, <1>3 DEF View!mouseReleaseEvent
<1>8. Keeps(v, View!updated(released))
  BY <1>6, IsTold DEF Keeps, Good
<1>9. Keeps(v, View!invalidate(released))
  BY <1>6, Discards DEF Keeps
<1> QED
  BY <1>4, <1>5, <1>6, <1>7, <1>8, <1>9 DEF Keeps

LEMMA Scrolling ==
  ASSUME nbLines \in Nat, NEW w, Good(w), Tailed(w), NEW value \in Int
  PROVE  Keeps(w, View!setValue(w, value))
BY SetsValue DEF Keeps, Good

LEMMA Wheeled ==
  ASSUME nbLines \in Nat, Good(v), Tailed(v), NEW step \in Int, NEW hook \in BOOLEAN,
         View!wheelEvent(step, hook)
  PROVE  Keeps(v, v')
<1>1. PICK bottom : bottom = IF v.followMode_ THEN View!follow(v) ELSE v
  OBVIOUS
<1>2. Keeps(v, bottom)
  <2>1. bottom = View!follow(v)
    BY <1>1, Follows
  <2> QED
    BY <2>1, Follows DEF Keeps
<1>3. PICK h : h = [bottom EXCEPT !.hooked_ = hook]
  OBVIOUS
<1>4. Good(h) /\ Tailed(h) /\ KeepsCache(bottom, h)
  <2>1. Alike(bottom, h) /\ KeepsCache(bottom, h)
    BY <1>2, <1>3 DEF Keeps, Good, ScrolledIn, IsView, Fields, Alike, KeepsCache
  <2> QED
    BY <1>2, <2>1, AlikeIn DEF Keeps, Good
<1>5. PICK f : f = View!followModeChanged(h, hook)
  OBVIOUS
<1>6. Good(f) /\ Tailed(f) /\ KeepsCache(h, f)
  BY <1>4, <1>5, FollowModeChanged
<1>7. Keeps(v, f)
  BY <1>2, <1>4, <1>6, KeepsTwice DEF Keeps
<1>8. PICK pulled : pulled = IF bottom.value = bottom.maximum /\ hook # bottom.hooked_
                               THEN f ELSE bottom
  OBVIOUS
<1>9. Keeps(v, pulled)
  BY <1>2, <1>7, <1>8
<1>10. PICK value \in Int : value = pulled.value + step
  BY <1>9 DEF Keeps, Good, ScrolledIn
<1>11. PICK x : x = IF pulled.hooked_ THEN pulled ELSE View!setValue(pulled, value)
  OBVIOUS
<1>12. Keeps(v, x)
  <2>1. Keeps(pulled, View!setValue(pulled, value))
    BY <1>9, Scrolling DEF Keeps
  <2>2. Keeps(v, View!setValue(pulled, value))
    BY <1>9, <2>1, KeepsTwice DEF Keeps
  <2> QED
    BY <1>9, <1>11, <2>2
<1>13. v' = View!update(x)
  BY <1>1, <1>3, <1>5, <1>8, <1>10, <1>11 DEF View!wheelEvent
<1>14. Alike(x, v') /\ KeepsCache(x, v')
  BY <1>12, <1>13, Updated DEF Keeps, Good
<1>15. Good(v') /\ Tailed(v')
  BY <1>12, <1>14, AlikeIn DEF Keeps, Good
<1> QED
  BY <1>12, <1>14, <1>15, KeepsTwice DEF Keeps

(* Of the lines that are selected, or -1, the first and the last. *)
LEMMA SelectedLines ==
  ASSUME NEW sel, SelectionIn(sel), NEW lines,
         lines = View!getLines(sel) \cup (IF View!getLines(sel) = {} THEN {-1} ELSE {})
  PROVE  View!Min(lines) \in Nat \cup {-1} /\ View!Max(lines) \in Nat \cup {-1}
<1>1. PICK S : S = View!getLines(sel)
  OBVIOUS
<1>2. S \in SUBSET Nat /\ IsFiniteSet(S)
  <2>1. CASE sel.kind = "none"
    <3>1. S = {}
      BY <1>1, <2>1 DEF View!getLines
    <3> QED
      BY <3>1, FS_EmptySet
  <2>2. CASE sel.kind \in {"line", "portion"} /\ sel.line \in Nat
    <3>1. S = {sel.line}
      BY <1>1, <2>2 DEF View!getLines
    <3> QED
      BY <2>2, <3>1, FS_Singleton
  <2>3. CASE sel \in [kind : {"range"}, start : Nat, end : Nat, first : Nat]
    <3>1. S = sel.start .. sel.end /\ sel.start \in Nat /\ sel.end \in Nat
      BY <1>1, <2>3 DEF View!getLines
    <3>2. IsFiniteSet(sel.start .. sel.end)
      BY <3>1, FS_Interval
    <3> QED
      BY <3>1, <3>2
  <2> QED
    BY <2>1, <2>2, <2>3 DEF SelectionIn
<1>3. CASE S = {}
  <2>1. lines = {-1}
    BY <1>1, <1>3
  <2> QED
    BY <2>1 DEF View!Min, View!Max
<1>4. CASE S # {}
  <2>1. lines = S
    BY <1>1, <1>4
  <2>2. Find!Min(S) \in S /\ Find!Max(S) \in S
    BY <1>2, <1>4, MinIn, MaxIn
  <2>3. View!Min(S) = Find!Min(S) /\ View!Max(S) = Find!Max(S)
    BY DEF View!Min, Find!Min, View!Max, Find!Max
  <2> QED
    BY <1>2, <2>1, <2>2, <2>3
<1> QED
  BY <1>3, <1>4

LEMMA SelectionMoved ==
  ASSUME nbLines \in Nat, Good(v), Tailed(v), NEW delta \in Int, View!moveSelection(delta)
  PROVE  Keeps(v, v')
<1>1. PICK lines : lines = View!getLines(v.selection)
                             \cup (IF View!getLines(v.selection) = {} THEN {-1} ELSE {})
  OBVIOUS
<1>2. View!Min(lines) \in Int /\ View!Max(lines) \in Int
  BY <1>1, SelectedLines DEF Good, ScrolledIn
<1>3. PICK from \in Int :
        from = (IF delta < 0 THEN View!Min(lines) ELSE View!Max(lines)) + delta
  BY <1>2
<1>4. PICK line : line = IF from < 0 THEN 0 ELSE IF from >= nbLines THEN nbLines - 1 ELSE from
  OBVIOUS
<1>5. line \in Nat \cup {-1}
  BY <1>3, <1>4
<1>6. v' = View!selectAndDisplayLine(v, line)
  BY <1>1, <1>3, <1>4 DEF View!moveSelection
<1> QED
  BY <1>5, <1>6, SelectsAndDisplays DEF Keeps

LEMMA LastSelected ==
  ASSUME nbLines \in Nat, Good(v), Tailed(v), View!selectLastLine
  PROVE  Keeps(v, v')
<1>1. PICK x : x = View!disableFollow(v)
  OBVIOUS
<1>2. Good(x) /\ Tailed(x) /\ KeepsCache(v, x)
  BY <1>1, DisablesFollow
<1>3. PICK sel : sel = View!selectLine(nbLines - 1)
  OBVIOUS
<1>4. PICK y : y = [x EXCEPT !.selection = sel]
  OBVIOUS
<1>5. Good(y) /\ Tailed(y) /\ y.invalid_ = x.invalid_
  <2>1. SelectionIn(sel)
    BY <1>3, LineSelected
  <2> QED
    BY <1>2, <1>4, <2>1, Selects
<1>6. PICK z : z = View!jumpToBottom(y)
  OBVIOUS
<1>7. Good(z) /\ Tailed(z) /\ z.invalid_ = y.invalid_
  BY <1>5, <1>6, JumpsToBottom DEF Tailed
<1>8. v' = [z EXCEPT !.unseen = TRUE]
  BY <1>1, <1>3, <1>4, <1>6 DEF View!selectLastLine
<1>9. Alike(z, v') /\ v'.unseen /\ v'.invalid_ = z.invalid_
  BY <1>7, <1>8 DEF Good, ScrolledIn, IsView, Fields, Alike
<1>10. Good(v') /\ Tailed(v')
  BY <1>7, <1>9, AlikeIn DEF Good
<1> QED
  BY <1>2, <1>5, <1>7, <1>9, <1>10, CacheDropped DEF Keeps, KeepsCache

LEMMA Resized ==
  ASSUME nbLines \in Nat, Good(v), Tailed(v), NEW visible \in ViewHeights,
         View!resizeEvent(visible)
  PROVE  Keeps(v, v')
<1>1. visible \in Nat \ {0}
  BY HeightsAssumption
<1>2. PICK x : x = [v EXCEPT !.visible = visible, !.asked = -1]
  OBVIOUS
<1>3. ScrolledIn(x, nbLines)
  BY <1>1, <1>2 DEF Good, ScrolledIn, IsView, Fields, AskedIn
<1>4. PICK bars : bars = View!updateScrollBars(x)
  OBVIOUS
<1>5. Good(bars)
  BY <1>3, <1>4, BarsUpdated
<1>6. PICK end : end = View!follow(bars)
  OBVIOUS
<1>7. Good(end) /\ Tailed(end)
  BY <1>5, <1>6, Follows
<1>8. v' = View!update(View!invalidate(end))
  BY <1>2, <1>4, <1>6 DEF View!resizeEvent
<1> QED
  BY <1>7, <1>8, Discards DEF Keeps

LEMMA SearchFound ==
  ASSUME nbLines \in Nat, Good(v), Tailed(v), NEW line \in 0 .. nbLines - 1, NEW column,
         View!searchFound(line, column)
  PROVE  Keeps(v, v')
<1>1. PICK x : x = View!disableFollow(v)
  OBVIOUS
<1>2. /\ Good(x) /\ Tailed(x) /\ x.changed = v.changed
      /\ x.firstLine = v.firstLine /\ x.value = v.value /\ x.visible = v.visible
  BY <1>1, DisablesFollow
<1>3. PICK sel : sel = View!selectPortion(line)
  OBVIOUS
<1>4. PICK y : y = [x EXCEPT !.selection = sel]
  OBVIOUS
<1>5. /\ Good(y) /\ Tailed(y) /\ y.changed = x.changed
      /\ y.firstLine = x.firstLine /\ y.value = x.value /\ y.visible = x.visible
  <2>1. SelectionIn(sel)
    BY <1>3 DEF View!selectPortion, SelectionIn
  <2> QED
    BY <1>2, <1>4, <2>1, Selects
<1>6. View!Detached(y) = View!Detached(v)
  BY <1>2, <1>5 DEF View!Detached, View!topLine, View!beyond
<1>7. PICK w : w = View!displayRangeInLine(y, line, column)
  OBVIOUS
<1>8. /\ Good(w) /\ Tailed(w) /\ w.invalid_ /\ w.changed = y.changed
      /\ (~y.changed /\ ~View!Detached(y) /\ ~(line - y.visible \div 2 < 0)) =>
           line \in w.firstLine .. w.firstLine + w.visible - 1
  BY <1>5, <1>7, RangeDisplayed
<1>9. Keeps(v, w)
  BY <1>8, NoCache DEF Keeps
<1>10. v' = IF line - v.visible \div 2 < 0 \/ View!Detached(v) THEN w ELSE View!Asked(w, line)
  BY <1>1, <1>3, <1>4, <1>7 DEF View!searchFound
<1>11. CASE line - v.visible \div 2 < 0 \/ View!Detached(v)
  BY <1>9, <1>10, <1>11
<1>12. CASE ~(line - v.visible \div 2 < 0 \/ View!Detached(v))
  <2>1. CASE y.changed
    <3>1. w.changed
      BY <1>8, <2>1
    <3>2. PICK u : u = View!Asked(w, line)
      OBVIOUS
    <3>3. Good(u) /\ Tailed(u) /\ u.invalid_
      BY <1>8, <3>1, <3>2, AsksFor
    <3> QED
      BY <1>10, <1>12, <3>2, <3>3, NoCache DEF Keeps
  <2>2. CASE ~y.changed
    <3>1. line \in w.firstLine .. w.firstLine + w.visible - 1
      BY <1>2, <1>5, <1>6, <1>8, <1>12, <2>2
    <3>2. PICK u : u = View!Asked(w, line)
      OBVIOUS
    <3>3. Good(u) /\ Tailed(u) /\ u.invalid_
      BY <1>8, <3>1, <3>2, AsksFor
    <3> QED
      BY <1>10, <1>12, <3>2, <3>3, NoCache DEF Keeps
  <2> QED
    BY <2>1, <2>2
<1> QED
  BY <1>11, <1>12

LEMMA SearchNotFound ==
  ASSUME nbLines \in Nat, Good(v), Tailed(v), NEW inc, View!searchNotFound(inc)
  PROVE  Keeps(v, v')
<1>1. PICK x : x = View!disableFollow(v)
  OBVIOUS
<1>2. Good(x) /\ Tailed(x) /\ KeepsCache(v, x)
  BY <1>1, DisablesFollow
<1>3. PICK y : y = [x EXCEPT !.selection = View!NoSelection, !.unseen = TRUE]
  OBVIOUS
<1>4. Alike(x, y) /\ y.unseen /\ y.invalid_ = x.invalid_
  BY <1>2, <1>3
     DEF Good, ScrolledIn, IsView, Fields, Alike, SelectionIn, View!NoSelection
<1>5. Good(y) /\ Tailed(y)
  BY <1>2, <1>4, AlikeIn DEF Good
<1>6. KeepsCache(v, y)
  BY <1>2, <1>4, CacheDropped DEF KeepsCache
<1>7. v' \in {x, y}
  BY <1>1, <1>3 DEF View!searchNotFound
<1> QED
  BY <1>2, <1>5, <1>6, <1>7 DEF Keeps

LEMMA SearchEnds ==
  ASSUME nbLines \in Nat, Good(v), Tailed(v), NEW sel, SelectionIn(sel),
         View!incrementalSearchEnds(sel)
  PROVE  Keeps(v, v')
<1>1. v' = [v EXCEPT !.selection = sel, !.unseen = TRUE]
  BY DEF View!incrementalSearchEnds
<1>2. Alike(v, v') /\ v'.unseen /\ v'.invalid_ = v.invalid_
  BY <1>1 DEF Good, ScrolledIn, IsView, Fields, Alike
<1> QED
  BY <1>2, AlikeIn, CacheDropped DEF Good, Keeps

LEMMA PatternUpdated ==
  ASSUME nbLines \in Nat, Good(v), Tailed(v), NEW pat, View!handlePatternUpdated(pat)
  PROVE  Keeps(v, v')
<1>1. PICK x : x = [v EXCEPT !.pattern = pat, !.unseen = TRUE]
  OBVIOUS
<1>2. Alike(v, x) /\ x.unseen /\ x.invalid_ = v.invalid_
  BY <1>1 DEF Good, ScrolledIn, IsView, Fields, Alike
<1>3. Good(x) /\ Tailed(x)
  BY <1>2, AlikeIn DEF Good
<1>4. v' = View!update(x)
  BY <1>1 DEF View!handlePatternUpdated
<1>5. Alike(x, v') /\ v'.unseen /\ v'.invalid_ = x.invalid_
  BY <1>2, <1>3, <1>4, Updated DEF Good
<1> QED
  BY <1>2, <1>3, <1>5, AlikeIn, CacheDropped DEF Good, Keeps

LEMMA AllSelected ==
  ASSUME nbLines \in Nat, Good(v), Tailed(v), View!selectAll
  PROVE  Keeps(v, v')
<1>1. PICK last \in Nat : last = nbLines - 1
  BY DEF View!selectAll
<1>2. PICK sel : sel = View!selectRange(0, last)
  OBVIOUS
<1>3. SelectionIn(sel)
  BY <1>2, RangeSelected
<1>4. PICK x : x = [v EXCEPT !.selection = sel]
  OBVIOUS
<1>5. Good(x) /\ Tailed(x)
  BY <1>3, <1>4, Selects
<1>6. v' = View!update(View!invalidate(x))
  BY <1>1, <1>2, <1>4 DEF View!selectAll
<1> QED
  BY <1>5, <1>6, Discards DEF Keeps

LEMMA UserKeeps ==
  ASSUME nbLines \in Nat, Good(v), Tailed(v), View!UserAction
  PROVE  /\ Keeps(v, v') /\ nbLines' = nbLines /\ drawing' = drawing /\ dead' = dead
         /\ drawing = View!NotDrawn /\ ~dead
<1>0. /\ nbLines' = nbLines /\ drawing' = drawing /\ dead' = dead
      /\ drawing = View!NotDrawn /\ ~dead
  BY DEF View!UserAction, View!mousePressEvent, View!mouseReleaseEvent,
     View!mouseDoubleClickEvent, View!mouseMoveEvent, View!timerEvent, View!wheelEvent,
     View!moveSelection, View!scrollTo, View!scrollColumns, View!displayAndSelect,
     View!searchFound, View!incrementalSearchEnds, View!selectLastLine, View!resizeEvent,
     View!followSetByUser, View!searchNotFound, View!handlePatternUpdated, View!selectAll,
     View!markLines, View!forceRefresh, View!UserActs, View!Handle
<1>1. /\ ScrolledIn(v, nbLines) /\ v.visible \in Nat /\ v.value \in Nat
  BY DEF Good, ScrolledIn
<1>2. ASSUME NEW row \in 0 .. v.visible - 1,
             \/ \E where \in {"text", "shift", "margin"} : View!mousePressEvent(row, where)
             \/ View!mouseReleaseEvent(row)
             \/ View!mouseDoubleClickEvent(row)
      PROVE  Keeps(v, v')
  <2>1. row \in Int
    BY <1>1
  <2> QED
    BY <1>2, <2>1, Pressed, Released, DoubleClicked
<1>3. ASSUME NEW row \in -1 .. v.visible, NEW within \in BOOLEAN,
             View!mouseMoveEvent(row, within)
      PROVE  Keeps(v, v')
  <2>1. row \in Int
    BY <1>1
  <2> QED
    BY <1>3, <2>1, Moved
<1>4. ASSUME NEW step \in {-1, 1}, View!timerEvent(step)
      PROVE  Keeps(v, v')
  <2>1. PICK value \in Int : value = v.value + step
    BY <1>1
  <2>2. v' = View!setValue(v, value)
    BY <1>4, <2>1 DEF View!timerEvent
  <2> QED
    BY <2>2, Scrolling
<1>5. ASSUME NEW step \in {-1, 1},
             (\E hook \in BOOLEAN : View!wheelEvent(step, hook)) \/ View!moveSelection(step)
      PROVE  Keeps(v, v')
  <2>1. step \in Int
    OBVIOUS
  <2> QED
    BY <1>5, <2>1, Wheeled, SelectionMoved
<1>6. ASSUME NEW value \in {0, v.value - v.visible, v.value + v.visible}, View!scrollTo(value)
      PROVE  Keeps(v, v')
  <2>1. value \in Int
    BY <1>1
  <2>2. v' = View!setValue(v, value)
    BY <1>6 DEF View!scrollTo
  <2> QED
    BY <2>1, <2>2, Scrolling
<1>7. ASSUME NEW column, View!scrollColumns(column)
      PROVE  Keeps(v, v')
  <2>1. v' = View!setColumn(v, column)
    BY <1>7 DEF View!scrollColumns
  <2> QED
    BY <2>1, SetsColumn DEF Keeps, Good
<1>8. ASSUME NEW line \in 0 .. nbLines - 1,
             \/ View!displayAndSelect(line)
             \/ \E column \in 0 .. MaxColumn : View!searchFound(line, column)
             \/ View!incrementalSearchEnds(View!selectLine(line))
      PROVE  Keeps(v, v')
  <2>1. line \in Nat /\ SelectionIn(View!selectLine(line))
    BY LineSelected
  <2>2. CASE View!displayAndSelect(line)
    <3>1. v' = View!selectAndDisplayLine(v, line)
      BY <2>2 DEF View!displayAndSelect
    <3> QED
      BY <2>1, <3>1, SelectsAndDisplays DEF Keeps
  <2>3. CASE \E column \in 0 .. MaxColumn : View!searchFound(line, column)
    BY <2>3, SearchFound
  <2>4. CASE View!incrementalSearchEnds(View!selectLine(line))
    BY <2>1, <2>4, SearchEnds
  <2> QED
    BY <1>8, <2>2, <2>3, <2>4
<1>9. ASSUME NEW b \in BOOLEAN, View!followSetByUser(b) PROVE Keeps(v, v')
  <2>1. v' = View!followSet(v, b)
    BY <1>9 DEF View!followSetByUser
  <2> QED
    BY <2>1, FollowSet DEF Keeps
<1>10. ASSUME View!markLines PROVE Keeps(v, v')
  <2>1. v' = View!updated(v)
    BY <1>10 DEF View!markLines
  <2> QED
    BY <1>1, <2>1, IsTold DEF Keeps
<1>11. ASSUME View!forceRefresh PROVE Keeps(v, v')
  <2>1. v' = View!update(View!invalidate(v))
    BY <1>11 DEF View!forceRefresh
  <2> QED
    BY <2>1, Discards DEF Keeps
<1>12. \/ \E row \in 0 .. v.visible - 1 :
            \/ \E where \in {"text", "shift", "margin"} : View!mousePressEvent(row, where)
            \/ View!mouseReleaseEvent(row)
            \/ View!mouseDoubleClickEvent(row)
       \/ \E row \in -1 .. v.visible, within \in BOOLEAN : View!mouseMoveEvent(row, within)
       \/ \E step \in {-1, 1} :
            \/ View!timerEvent(step)
            \/ \E hook \in BOOLEAN : View!wheelEvent(step, hook)
            \/ View!moveSelection(step)
       \/ \E value \in {0, v.value - v.visible, v.value + v.visible} : View!scrollTo(value)
       \/ \E column \in 0 .. MaxColumn : View!scrollColumns(column)
       \/ \E line \in 0 .. nbLines - 1 :
            \/ View!displayAndSelect(line)
            \/ \E column \in 0 .. MaxColumn : View!searchFound(line, column)
            \/ View!incrementalSearchEnds(View!selectLine(line))
       \/ View!selectLastLine
       \/ \E visible \in ViewHeights : View!resizeEvent(visible)
       \/ \E b \in BOOLEAN : View!followSetByUser(b) \/ View!searchNotFound(b)
       \/ \E p \in Patterns : View!handlePatternUpdated(p)
       \/ View!selectAll \/ View!markLines \/ View!forceRefresh
  BY DEF View!UserAction
<1>13. Keeps(v, v')
  BY <1>2, <1>3, <1>4, <1>5, <1>6, <1>7, <1>8, <1>9, <1>10, <1>11, <1>12, LastSelected,
     Resized, SearchNotFound, PatternUpdated, AllSelected
<1> QED
  BY <1>0, <1>13

-----------------------------------------------------------------------------
(***************************************************************************)
(* The log, and what is drawn.                                             *)
(***************************************************************************)
LEMMA LogChanges ==
  ASSUME ViewInv, View!logChanges
  PROVE  ViewInv'
<1>1. nbLines' \in Nat /\ drawing' = drawing /\ dead' = dead
  BY DEF ViewInv, View!logChanges
<1>2. /\ IsView(v') /\ v'.visible = v.visible /\ v'.value = v.value
      /\ v'.maximum = v.maximum /\ v'.firstLine = v.firstLine
      /\ v'.selectionStartPos_ = v.selectionStartPos_ /\ v'.selection = v.selection
      /\ v'.changed /\ v'.asked = -1
  BY DEF ViewInv, ScrolledIn, View!logChanges, IsView, Fields
<1>3. ScrolledIn(v', nbLines')
  BY <1>2 DEF ViewInv, ScrolledIn, AskedIn
<1> QED
  BY <1>1, <1>2, <1>3 DEF ViewInv, Wide, Tailed, Painted

LEMMA IsPainted ==
  ASSUME ViewInv, View!paintEvent
  PROVE  ViewInv'
<1>1. /\ nbLines \in Nat /\ nbLines' = nbLines /\ dead' = dead
      /\ drawing = View!NotDrawn /\ ~dead /\ ScrolledIn(v, nbLines)
      /\ Wide(v, nbLines) /\ Tailed(v) /\ Painted(v, nbLines)
  BY DEF ViewInv, View!paintEvent
<1>2. PICK first : first = IF v.firstLine > nbLines THEN View!Max({nbLines - 1, 0})
                                                    ELSE v.firstLine
  OBVIOUS
<1>3. first \in Nat
  <2>1. v.firstLine \in Nat
    BY <1>1 DEF ScrolledIn
  <2>2. PICK last \in Int : last = nbLines - 1
    BY <1>1
  <2>3. View!Max({last, 0}) \in Nat
    BY MaxOfTwo
  <2> QED
    BY <1>2, <2>1, <2>2, <2>3
<1>4. CASE ~v.invalid_ /\ v.screen.first = v.firstLine /\ v.screen.col = v.firstCol
  <2>1. v' = [v EXCEPT !.repaint = FALSE] /\ drawing' = drawing
    BY <1>4 DEF View!paintEvent
  <2>2. /\ Alike(v, v') /\ v'.selection = v.selection /\ v'.pattern = v.pattern
        /\ v'.screen = v.screen /\ v'.firstCol = v.firstCol
        /\ v'.invalid_ = v.invalid_ /\ v'.unseen = v.unseen
    BY <1>1, <2>1 DEF ScrolledIn, IsView, Fields, Alike
  <2>3. ScrolledIn(v', nbLines) /\ Wide(v', nbLines) /\ Tailed(v')
    BY <1>1, <2>2, AlikeIn
  <2>4. Page(v', v.screen.first, v.screen.col, nbLines)
          = Page(v, v.screen.first, v.screen.col, nbLines)
    BY <1>1, <2>2, PagesAlike DEF ScrolledIn, Alike
  <2>5. Painted(v', nbLines)
    BY <1>1, <1>4, <2>2, <2>4 DEF Painted, Alike
  <2> QED
    BY <1>1, <2>1, <2>3, <2>5 DEF ViewInv
<1>5. CASE ~(~v.invalid_ /\ v.screen.first = v.firstLine /\ v.screen.col = v.firstCol)
  <2>1. PICK asked : asked = IF first = v.firstLine THEN v.asked ELSE -1
    OBVIOUS
  <2>2. PICK tail : tail = (v.tail /\ first = v.firstLine)
    OBVIOUS
  <2>3. /\ v' = [v EXCEPT !.firstLine = first, !.repaint = FALSE, !.tail = tail,
                          !.asked = asked]
        /\ drawing' = [first |-> first, lines |-> nbLines,
                       rows |-> View!Min({v.visible, nbLines - first})]
    BY <1>2, <1>5, <2>1, <2>2 DEF View!paintEvent
  <2>4. drawing' # View!NotDrawn /\ drawing'.lines = nbLines
    BY <2>3 DEF View!NotDrawn
  <2>5. /\ IsView(v') /\ v'.visible = v.visible /\ v'.value = v.value
        /\ v'.maximum = v.maximum /\ v'.firstLine = first
        /\ v'.selectionStartPos_ = v.selectionStartPos_ /\ v'.selection = v.selection
        /\ v'.changed = v.changed /\ v'.asked = asked /\ v'.tail = tail
        /\ v'.followMode_ = v.followMode_
    BY <1>1, <2>3 DEF ScrolledIn, IsView, Fields
  <2>6. AskedIn(v', nbLines)
    BY <1>1, <2>1, <2>5 DEF ScrolledIn, AskedIn
  <2>7. ScrolledIn(v', nbLines)
    BY <1>1, <1>3, <2>5, <2>6 DEF ScrolledIn
  <2>8. Wide(v', nbLines) /\ Tailed(v')
    BY <1>1, <2>2, <2>5 DEF Wide, Tailed, End
  <2> QED
    BY <1>1, <2>4, <2>7, <2>8 DEF ViewInv
<1> QED
  BY <1>4, <1>5

LEMMA IsDrawn ==
  ASSUME ViewInv, View!drawTextArea
  PROVE  ViewInv'
<1>1. /\ nbLines \in Nat /\ nbLines' = nbLines /\ drawing # View!NotDrawn /\ ~dead
      /\ drawing' = View!NotDrawn /\ ScrolledIn(v, nbLines)
      /\ Wide(v, nbLines) /\ Tailed(v) /\ (~v.changed => drawing.lines = nbLines)
  BY DEF ViewInv, View!drawTextArea
<1>2. CASE dead' = TRUE /\ v' = v
  BY <1>1, <1>2 DEF ViewInv
<1>3. CASE v' = [v EXCEPT !.invalid_ = FALSE, !.unseen = FALSE,
                          !.screen = View!Drawn(v, drawing.lines)]
  <2>1. PICK screen : screen = View!Drawn(v, drawing.lines)
    OBVIOUS
  <2>2. v' = [v EXCEPT !.invalid_ = FALSE, !.unseen = FALSE, !.screen = screen]
    BY <1>3, <2>1
  <2>3. /\ Alike(v, v') /\ v'.selection = v.selection /\ v'.pattern = v.pattern
        /\ v'.screen = screen /\ v'.firstCol = v.firstCol
    BY <1>1, <2>2 DEF ScrolledIn, IsView, Fields, Alike
  <2>4. ScrolledIn(v', nbLines) /\ Wide(v', nbLines) /\ Tailed(v')
    BY <1>1, <2>3, AlikeIn
  <2>5. Painted(v', nbLines)
    <3> SUFFICES ASSUME ~v'.changed
                 PROVE  /\ v'.screen = Page(v', v'.screen.first, v'.screen.col, nbLines)
                        /\ v'.screen.first = v'.firstLine /\ v'.screen.col = v'.firstCol
      BY DEF Painted
    <3>1. screen = View!Drawn(v, nbLines)
      BY <1>1, <2>1, <2>3 DEF Alike
    <3>2. /\ screen = Page(v, v.firstLine, v.firstCol, nbLines)
          /\ screen.first = v.firstLine /\ screen.col = v.firstCol
      BY <1>1, <3>1, PageHere DEF ScrolledIn
    <3>3. Page(v', v.firstLine, v.firstCol, nbLines) = Page(v, v.firstLine, v.firstCol, nbLines)
      BY <1>1, <2>3, PagesAlike DEF ScrolledIn, Alike
    <3> QED
      BY <2>3, <3>2, <3>3 DEF Alike
  <2> QED
    BY <1>1, <2>4, <2>5 DEF ViewInv
<1> QED
  BY <1>2, <1>3 DEF View!drawTextArea

LEMMA ViewInit ==
  ASSUME View!Init
  PROVE  ViewInv
<1>1. View!Max(ViewHeights) \in Nat \ {0}
  <2>1. Find!Max(ViewHeights) \in ViewHeights
    BY HeightsAssumption, MaxIn
  <2>2. View!Max(ViewHeights) = Find!Max(ViewHeights)
    BY DEF View!Max, Find!Max
  <2> QED
    BY <2>1, <2>2, HeightsAssumption
<1>2. PICK height \in Nat \ {0} : height = View!Max(ViewHeights)
  BY <1>1
<1>3. /\ nbLines = 0 /\ drawing = View!NotDrawn
      /\ IsView(v) /\ v.visible = height /\ v.value = 0 /\ v.maximum = 0
      /\ v.firstLine = 0 /\ v.selection = View!NoSelection /\ v.selectionStartPos_ = 0
      /\ v.asked = -1 /\ v.tail = FALSE /\ v.invalid_ = TRUE
  BY <1>2 DEF View!Init, IsView, Fields
<1>4. End(v, nbLines) = 0
  BY <1>3 DEF End
<1> QED
  BY <1>3, <1>4
     DEF ViewInv, ScrolledIn, AskedIn, Wide, Tailed, Painted, SelectionIn, View!NoSelection

(* The steps of the view. *)
LEMMA ViewSteps ==
  ASSUME use = "view", [Next]_vars
  PROVE  [View!Next]_(View!vars)
BY DEF Next, vars, viewVars, View!vars, InFind, InView, InListed, InTabs, InRun,
       InRead, InColors, InSchemes, View!Next

(* For every log, however it changes, and whatever the user does meanwhile. *)
THEOREM ViewInductive == Spec => [](use = "view" => ViewInv)
<1>1. Init => (use = "view" => ViewInv)
  BY ViewInit DEF Init
<1>2. (use = "view" => ViewInv) /\ [Next]_vars => (use = "view" => ViewInv)'
  <2> SUFFICES ASSUME use = "view", ViewInv, [Next]_vars
               PROVE  ViewInv'
    BY UseStays
  <2>0. use = "view" /\ ViewInv
    OBVIOUS
  <2>1. nbLines \in Nat /\ Good(v) /\ Tailed(v)
    BY <2>0 DEF ViewInv, Good
  <2>2. [View!Next]_(View!vars)
    BY ViewSteps
  <2>3. CASE UNCHANGED View!vars
    BY <2>0, <2>3 DEF ViewInv, View!vars
  <2>4. CASE View!logChanges
    BY <2>0, <2>4, LogChanges
  <2>5. CASE View!paintEvent
    BY <2>0, <2>5, IsPainted
  <2>6. CASE View!drawTextArea
    BY <2>0, <2>6, IsDrawn
  <2>7. ASSUME Keeps(v, v'), nbLines' = nbLines, drawing' = drawing, dead' = dead,
               drawing = View!NotDrawn, ~dead
        PROVE  ViewInv'
    <3>1. IsView(v) /\ Painted(v, nbLines)
      BY <2>0, <2>7 DEF ViewInv, ScrolledIn
    <3>2. IsView(v')
      BY <2>7 DEF Keeps, Good, ScrolledIn
    <3>3. Painted(v', nbLines)
      BY <2>7, <3>1, <3>2, PaintedStill DEF Keeps
    <3> QED
      BY <2>1, <2>7, <3>3 DEF ViewInv, Keeps, Good
  <2>8. CASE View!updateData
    <3>1. v' = View!updated(v) /\ nbLines' = nbLines /\ drawing' = drawing /\ dead' = dead
          /\ drawing = View!NotDrawn /\ ~dead
      BY <2>8 DEF View!updateData, View!Handle
    <3>2. Keeps(v, v')
      BY <2>1, <3>1, IsTold DEF Keeps, Good
    <3> QED
      BY <2>7, <3>1, <3>2
  <2>9. CASE View!UserAction
    BY <2>1, <2>7, <2>9, UserKeeps
  <2> QED
    BY <2>2, <2>3, <2>4, <2>5, <2>6, <2>8, <2>9 DEF View!Next
<1> QED
  BY <1>1, <1>2, PTL DEF Spec

(* When nothing is left to draw, the screen shows the lines, the selection *)
(* and the matches that there are.  AbstractLogView::paintEvent() and its  *)
(* cache, which every handler invalidates or not.                          *)
THEOREM ScreenIsShown == Spec => []ScreenIsCurrent
<1>1. (use = "view" => ViewInv) => ScreenIsCurrent
  <2> SUFFICES ASSUME ViewInv, ~v.repaint, ~v.changed, ~v.unseen, ~dead,
                      drawing = View!NotDrawn, ~v.invalid_
               PROVE  v.screen = View!Drawn(v, nbLines)
    BY DEF ScreenIsCurrent, View!ScreenIsCurrent
  <2>1. IsView(v) /\ Painted(v, nbLines)
    BY DEF ViewInv, ScrolledIn
  <2>2. /\ v.screen = Page(v, v.screen.first, v.screen.col, nbLines)
        /\ v.screen.first = v.firstLine /\ v.screen.col = v.firstCol
    BY <2>1 DEF Painted
  <2> QED
    BY <2>1, <2>2, PageHere
<1> QED
  BY <1>1, ViewInductive, PTL

(* The last line of a log that is followed is on the screen, and so is the *)
(* line that was asked for, until something else scrolls.                  *)
(* AbstractLogView::jumpToBottom(), jumpToLine() and displayLine().        *)
THEOREM LinesAreShown == Spec => []LinesAreVisible
<1>1. (use = "view" => ViewInv) => LinesAreVisible
  <2> SUFFICES ASSUME ViewInv
               PROVE  View!TailIsShown /\ View!AskedIsVisible
    BY DEF LinesAreVisible
  <2>1. /\ nbLines \in Nat /\ v.visible \in Nat \ {0} /\ v.value \in Nat
        /\ v.firstLine \in Nat /\ AskedIn(v, nbLines)
        /\ Wide(v, nbLines) /\ Tailed(v)
    BY DEF ViewInv, ScrolledIn
  <2>2. View!AskedIsVisible
    BY <2>1 DEF AskedIn, View!AskedIsVisible, View!visibleLineRange
  <2>3. View!TailIsShown
    <3> SUFFICES ASSUME v.followMode_, v.tail, ~v.changed, ~View!Detached(v)
                 PROVE  v.firstLine + v.visible >= nbLines
      BY DEF View!TailIsShown
    <3>1. v.value = End(v, nbLines)
      BY <2>1 DEF Wide, Tailed
    <3>2. v.firstLine = View!topLine(v)
      BY DEF View!Detached
    <3>3. PICK seen \in Nat : seen = v.visible
      BY <2>1
    <3>4. PICK value \in Nat : value = v.value
      BY <2>1
    <3>5. PICK first \in Nat : first = v.firstLine
      BY <2>1
    <3>6. value = IF nbLines - seen + 1 > 0 THEN nbLines - seen + 1 ELSE 0
      BY <3>1, <3>3, <3>4 DEF End
    <3>7. first = IF nbLines - seen > 0 /\ value > nbLines - seen THEN nbLines - seen ELSE value
      BY <3>2, <3>3, <3>4, <3>5 DEF View!topLine, View!beyond
    <3>8. first + seen >= nbLines
      BY <2>1, <3>6, <3>7
    <3> QED
      BY <3>3, <3>5, <3>8
  <2> QED
    BY <2>2, <2>3
<1> QED
  BY <1>1, ViewInductive, PTL
=============================================================================
