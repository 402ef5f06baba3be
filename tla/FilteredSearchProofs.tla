------------------------- MODULE FilteredSearchProofs -------------------------
(***************************************************************************)
(* What holds of a search for any log, chunks and users.  Each invariant   *)
(* is proved from those before it:                                         *)
(*   TypeInv     types, and the counters of the search under way;          *)
(*   LoadingInv  a loading finishes once: its signal, then its handler;    *)
(*   RestartInv  when the log is to be read again;                         *)
(*   ShownInv    what the widget shows against what the events on their    *)
(*               way, and the worker, will make it show;                   *)
(*   FoundInv    what was found against the lines that stay as they are;   *)
(*   ExactInv    what was found against all lines.                         *)
(***************************************************************************)
EXTENDS FilteredSearch, TLAPS, FiniteSetTheorems, SequenceTheorems, WellFoundedInduction

LogType ==
  /\ source \in Seq(Line) /\ Len(source) <= MaxLines
  /\ fakeFinalLF \in BOOLEAN
  /\ fakeFinalLF => Len(source) > 0
  /\ currentOperation_ \in {None, "partial", "full", "running", "finished"}
  /\ nextOperation_ \in {None, "partial", "full"}

GuiType ==
  /\ stack \in Seq(Frame) /\ guiQueue \in Seq(Event)
  /\ text \in Regexps \cup {Empty, Invalid}
  /\ \A k \in DOMAIN stack : k # Len(stack) => stack[k] \in {"events", "loaded"}
  /\ At("run") => text \in Regexps
  /\ state_ \in State

WidgetType ==
  /\ autoRefreshRequested_ \in BOOLEAN
  /\ searchInfoLine \in BOOLEAN /\ stopButton \in BOOLEAN
  /\ nbMatches_ \in Nat /\ shown \in Nat
  /\ matching_lines_ \in Seq(0 .. MaxLines - 1)
  /\ nbLinesProcessed_ \in 0 .. MaxLines
  /\ currentRegExp_ \in Regexps \cup {Empty}

(* A search under way has a request, and counts what it finds. *)
WorkType ==
  /\ operationRequested_ \in
       [kind : {"none", "Full", "Update"}, regexp : Regexps \cup {Empty}, position : Nat]
  /\ operationRequested_.kind = "none" => operationRequested_ = NoOperation
  /\ interruptRequested_ \in BOOLEAN
  /\ workerPc \in {"wait", "loop", "read"}
  /\ search \in [initialLine : Nat, nbSourceLines : 0..MaxLines, nbMatches : Nat, i : Nat]
  /\ searchData_ \in [matches : Seq(0 .. MaxLines - 1), nbLinesProcessed : 0..MaxLines]
  /\ searched \in Regexps \cup {Empty}
  /\ workerPc # "wait" =>
       /\ operationRequested_.kind # "none"
       /\ search.initialLine <= search.i
       /\ search.nbMatches = Len(searchData_.matches)
  /\ workerPc = "read" => search.i < search.nbSourceLines

TypeInv == LogType /\ GuiType /\ WidgetType /\ WorkType /\ history \subseteq Past

Loaded(k) == stack[k] = "loaded"
Finishes(k) == guiQueue[k].is = "loadingFinished"

FinishInv ==
  \A k \in DOMAIN guiQueue : Finishes(k) =>
    /\ currentOperation_ = "finished"
    /\ \A j \in DOMAIN guiQueue : Finishes(j) => j = k
    /\ \A j \in DOMAIN stack : ~Loaded(j)

LoadedInv ==
  \A k \in DOMAIN stack : Loaded(k) =>
    /\ currentOperation_ = "finished"
    /\ \A j \in DOMAIN stack : Loaded(j) => j = k

StateInv ==
  /\ \A k \in DOMAIN stack : stack[k] \in {"stop", "stopLoading"} => Len(stack) = 1
  /\ At("update") => state_ = "Autorefreshing"
  /\ At("loaded") => state_ # "TruncatedAutorefreshing"
  /\ state_ = "TruncatedAutorefreshing" => currentOperation_ # None

LoadingInv == FinishInv /\ LoadedInv /\ StateInv

(* A full search is requested, and not begun. *)
FullAwaited == operationRequested_.kind = "Full" /\ workerPc = "wait"

RestartInv ==
  SearchIsActive /\ "unseen" \notin history /\ ~FullAwaited =>
    "full" \notin {currentOperation_, nextOperation_} /\ "reindexed" \notin history

(* The search there is shows, or will; not the one that will replace it. *)
Showing == SearchIsActive /\ ~At("run")
NbFound == Len(searchData_.matches)
Progress(k) == guiQueue[k].is = "searchProgressed"
Unhandled == \E k \in DOMAIN guiQueue : Progress(k)
Differing ==
  \E k \in DOMAIN guiQueue : Progress(k) /\ guiQueue[k].nbMatches # nbMatches_

(* Any event is followed by one that tells how many matches there are. *)
Ends ==
  \A k \in DOMAIN guiQueue : Progress(k) =>
    \E j \in DOMAIN guiQueue : j >= k /\ Progress(j) /\ guiQueue[j].nbMatches = NbFound

(* The view is right, or will be updated by an event that is not sent yet. *)
Shows ==
  IF FullAwaited
    THEN nbMatches_ = 0 => shown = 0
    ELSE shown = NbFound \/ (operationRequested_.kind # "none" /\ nbMatches_ # NbFound)

ShownInv ==
  /\ At("run") => nbMatches_ = 0 /\ shown = 0
  /\ Showing =>
       IF FullAwaited THEN operationRequested_.regexp = currentRegExp_
                      ELSE currentRegExp_ = searched
  /\ Showing /\ operationRequested_.kind = "none" /\ ~Unhandled =>
       /\ matching_lines_ = searchData_.matches
       /\ nbLinesProcessed_ = searchData_.nbLinesProcessed
  /\ workerPc # "loop" => Ends
  /\ Showing /\ workerPc # "loop" /\ ~FullAwaited /\ ~Unhandled => nbMatches_ = NbFound
  /\ Showing => Differing \/ Shows

(* The lines that a loading leaves alone: the last one may be completed. *)
NbStable == IF fakeFinalLF THEN Len(source) - 1 ELSE Len(source)

(* The lines of a log, before one of them, that match. *)
LinesThat(lines, to, regexp) == {l \in 0 .. to - 1 : regexp \in lines[l + 1]}

(* The data of a search is right for a log, up to the last line searched.  *)
IsFound(lines, stable, data, regexp) ==
  LET n == data.nbLinesProcessed
  IN
  /\ InOrder(data.matches) /\ Range(data.matches) \subseteq 0 .. n - 1
  /\ n <= stable + 1
  /\ n # 0 => Range(data.matches) \ {n - 1} = LinesThat(lines, n - 1, regexp)

(* It is what the chunk that is to be read next goes on from. *)
GoesOnFrom(lines, stable, data, regexp, s) ==
  /\ s.nbSourceLines <= stable + 1
  /\ s.i < s.nbSourceLines =>
       /\ Range(data.matches) = LinesThat(lines, s.i, regexp)
       /\ data.nbLinesProcessed \in {s.i, s.i + 1}

FoundInv ==
  {"stale", "reindexed"} \cap history = {} =>
    /\ IsFound(source, NbStable, searchData_, searched)
    /\ operationRequested_.kind = "Update" =>
         /\ operationRequested_.regexp = searched
         /\ workerPc = "wait" =>
              operationRequested_.position = searchData_.nbLinesProcessed
    /\ workerPc # "wait" =>
         /\ operationRequested_.regexp = searched
         /\ GoesOnFrom(source, NbStable, searchData_, searched, search)

(* Lines change that the search was not told of yet. *)
Unfollowed ==
  \/ currentOperation_ = "running"
  \/ currentOperation_ = "finished" /\ ~At("loaded")

(* All that matches is found. *)
Exact == Range(searchData_.matches) = LinesThat(source, Len(source), searched)

ExactInv ==
  SearchIsActive /\ ~Unfollowed /\ history \cap (Past \ {"unseen"}) = {} =>
    /\ operationRequested_.kind = "none" => Exact
    /\ workerPc # "wait" =>
         /\ search.nbSourceLines = Len(source)
         /\ search.i >= search.nbSourceLines => Exact

-----------------------------------------------------------------------------
(* Lists.                                                                  *)

(* A set of numbers that are not above another one has a greatest. *)
LEMMA MaxIsIn ==
  ASSUME NEW n \in Nat, NEW S \in SUBSET (0 .. n), S # {}
  PROVE  Max(S) \in S /\ \A x \in S : x <= Max(S)
<1> DEFINE R == OpToRel(<, Nat)
           T == {n - x : x \in S}
<1>1. \A x, y \in Nat : <<y, x>> \in R <=> y < x
  BY DEF OpToRel
<1>2. IsWellFoundedOn(R, Nat)
  BY NatLessThanWellFounded
<1>3. T \in SUBSET Nat /\ T # {}
  <2>1. \A x \in S : n - x \in Nat
    OBVIOUS
  <2> QED
    BY <2>1
<1> HIDE DEF R
<1>4. PICK d \in T : \A e \in T : ~(<<e, d>> \in R)
  BY <1>2, <1>3, WFMin, Zenon
<1>5. PICK x \in S : d = n - x
  OBVIOUS
<1>6. ASSUME NEW y \in S PROVE y <= x
  <2>1. n - y \in T /\ n - y \in Nat /\ d \in Nat
    BY <1>3
  <2>2. ~(n - y < d)
    BY <1>1, <1>4, <2>1, Zenon
  <2> QED
    BY <1>5, <2>1, <2>2
<1>7. x \in Int
  OBVIOUS
<1> QED
  BY <1>6, <1>7 DEF Max

(* What is left of a list without its element at k. *)
LEMMA RemovedAt ==
  ASSUME NEW S, NEW s \in Seq(S), NEW k \in DOMAIN s
  PROVE  /\ RemoveAt(s, k) \in Seq(S)
         /\ Len(RemoveAt(s, k)) = Len(s) - 1
         /\ \A j \in 1 .. Len(s) - 1 :
              RemoveAt(s, k)[j] = IF j < k THEN s[j] ELSE s[j + 1]
<1>1. k \in 1 .. Len(s)
  OBVIOUS
<1> DEFINE l == SubSeq(s, 1, k - 1)
           r == SubSeq(s, k + 1, Len(s))
<1>2. l \in Seq(S) /\ Len(l) = k - 1 /\ \A j \in 1 .. k - 1 : l[j] = s[j]
  BY <1>1
<1>3. r \in Seq(S) /\ Len(r) = Len(s) - k /\ \A j \in 1 .. Len(s) - k : r[j] = s[j + k]
  BY <1>1
<1>4. RemoveAt(s, k) = l \o r
  BY DEF RemoveAt
<1> HIDE DEF l, r
<1>5. l \o r \in Seq(S) /\ Len(l \o r) = Len(s) - 1
  BY <1>2, <1>3
<1>6. ASSUME NEW j \in 1 .. Len(s) - 1
      PROVE  (l \o r)[j] = IF j < k THEN s[j] ELSE s[j + 1]
  <2>1. (l \o r)[j] = IF j <= Len(l) THEN l[j] ELSE r[j - Len(l)]
    BY <1>1, <1>2, <1>3, SMTT(30)
  <2>2. CASE j < k
    BY <1>1, <1>2, <2>1, <2>2
  <2>3. CASE ~(j < k)
    <3>1. j - (k - 1) \in 1 .. Len(s) - k /\ (j - (k - 1)) + k = j + 1
      BY <1>1, <2>3
    <3>2. ~(j <= Len(l)) /\ ~(j < k) /\ j - Len(l) = j - (k - 1)
      BY <1>1, <1>2, <2>3
    <3>3. r[j - (k - 1)] = s[j + 1]
      BY <1>3, <3>1
    <3> QED
      BY <2>1, <3>2, <3>3
  <2> QED
    BY <2>2, <2>3
<1> QED
  BY <1>4, <1>5, <1>6

(* What a list is once an element is put at its end. *)
LEMMA Pushed ==
  ASSUME NEW E, NEW s \in Seq(E), NEW e \in E
  PROVE  /\ Append(s, e) \in Seq(E) /\ Len(Append(s, e)) = Len(s) + 1
         /\ \A k \in 1 .. Len(s) : Append(s, e)[k] = s[k]
         /\ Append(s, e)[Len(s) + 1] = e
         /\ Last(Append(s, e)) = e /\ Append(s, e) # <<>>
BY DEF Last

(* What a list is without its last element. *)
LEMMA Popped ==
  ASSUME NEW E, NEW s \in Seq(E), s # <<>>
  PROVE  /\ Front(s) \in Seq(E) /\ Len(s) \in Nat \ {0} /\ Len(Front(s)) = Len(s) - 1
         /\ \A k \in 1 .. Len(s) - 1 : Front(s)[k] = s[k]
         /\ Last(s) = s[Len(s)] /\ Last(s) \in E
<1>1. Len(s) \in Nat \ {0}
  OBVIOUS
<1>2. s[Len(s)] \in E
  BY <1>1
<1>3. PICK n \in Nat : Len(s) = n + 1
  BY <1>1
<1>4. SubSeq(s, 1, n) \in Seq(E) /\ Len(SubSeq(s, 1, n)) = n
      /\ \A k \in 1 .. n : SubSeq(s, 1, n)[k] = s[k]
  <2>1. \A k \in 1 .. n : s[k] \in E
    BY <1>3
  <2> QED
    BY <1>3, <2>1, SubSeqProperties
<1>5. Len(s) - 1 = n
  BY <1>3
<1> QED
  BY <1>1, <1>2, <1>4, <1>5 DEF Front, Last

(* What it is once its last element is replaced. *)
LEMMA Swapped ==
  ASSUME NEW E, NEW s \in Seq(E), s # <<>>, NEW e \in E
  PROVE  LET t == Append(Front(s), e)
         IN  /\ t \in Seq(E) /\ Len(t) = Len(s) /\ t # <<>> /\ Last(t) = e
             /\ \A k \in 1 .. Len(s) - 1 : t[k] = s[k]
             /\ t[Len(s)] = e
<1> DEFINE f == Front(s)
<1>1. /\ f \in Seq(E) /\ Len(f) = Len(s) - 1 /\ Len(s) \in Nat \ {0}
      /\ \A k \in 1 .. Len(s) - 1 : f[k] = s[k]
  BY Popped
<1> HIDE DEF f
<1>2. /\ Append(f, e) \in Seq(E) /\ Len(Append(f, e)) = Len(f) + 1
      /\ \A k \in 1 .. Len(f) : Append(f, e)[k] = f[k]
      /\ Append(f, e)[Len(f) + 1] = e
      /\ Last(Append(f, e)) = e /\ Append(f, e) # <<>>
  BY <1>1, Pushed
<1>3. Len(f) + 1 = Len(s)
  BY <1>1
<1> QED
  BY <1>1, <1>2, <1>3 DEF f

(* The last element of a list is at its length. *)
LEMMA HasLast ==
  ASSUME NEW E, NEW s \in Seq(E)
  PROVE  /\ Len(s) \in Nat /\ DOMAIN s = 1 .. Len(s)
         /\ s # <<>> => Len(s) \in DOMAIN s /\ Last(s) = s[Len(s)]
         /\ \A k \in DOMAIN s : s # <<>>
<1>1. Len(s) \in Nat /\ DOMAIN s = 1 .. Len(s)
  OBVIOUS
<1>2. s # <<>> => Len(s) # 0
  BY EmptySeq
<1>3. ASSUME NEW k \in DOMAIN s PROVE s # <<>>
  OBVIOUS
<1> QED
  BY <1>1, <1>2, <1>3 DEF Last

(* A list without its first element. *)
LEMMA Taken ==
  ASSUME NEW E, NEW s \in Seq(E), s # <<>>
  PROVE  /\ Tail(s) \in Seq(E) /\ Len(s) \in Nat \ {0} /\ Len(Tail(s)) = Len(s) - 1
         /\ \A k \in 1 .. Len(s) - 1 : Tail(s)[k] = s[k + 1]
         /\ Head(s) = s[1] /\ Head(s) \in E
OBVIOUS

-----------------------------------------------------------------------------
(* What the actions do to the stack of handlers.                           *)

(* A handler begins or blocks, within those there are. *)
Nests(frame) ==
  /\ stack' \in Seq(Frame) /\ Len(stack') = Len(stack) + 1
  /\ \A k \in 1 .. Len(stack) : stack'[k] = stack[k]
  /\ stack'[Len(stack) + 1] = frame
  /\ \A f : At(f)' <=> f = frame

(* The handler of a loading begins, and blocks. *)
NestsIn(frame) ==
  /\ stack' \in Seq(Frame) /\ Len(stack') = Len(stack) + 2
  /\ \A k \in 1 .. Len(stack) : stack'[k] = stack[k]
  /\ stack'[Len(stack) + 1] = "loaded" /\ stack'[Len(stack) + 2] = frame
  /\ \A f : At(f)' <=> f = frame

(* The innermost one goes on, or returns. *)
GoesOn(frame) ==
  /\ stack' \in Seq(Frame) /\ Len(stack') = Len(stack) /\ Len(stack) \in Nat \ {0}
  /\ \A k \in 1 .. Len(stack) - 1 : stack'[k] = stack[k]
  /\ stack'[Len(stack)] = frame
  /\ \A f : At(f)' <=> f = frame

Returns ==
  /\ stack' \in Seq(Frame) /\ Len(stack') = Len(stack) - 1 /\ Len(stack) \in Nat \ {0}
  /\ \A k \in 1 .. Len(stack) - 1 : stack'[k] = stack[k]
  /\ \A f : At(f)' <=> Len(stack) > 1 /\ stack[Len(stack) - 1] = f

(* A handler that begins or blocks is put on the stack. *)
LEMMA Nesting ==
  ASSUME stack \in Seq(Frame), NEW f \in Frame, stack' = Append(stack, f)
  PROVE  Nests(f)
BY Pushed DEF Nests, At

(* The handler of a loading is put there with what it blocks in. *)
LEMMA NestingIn ==
  ASSUME stack \in Seq(Frame), NEW f \in Frame, stack' = stack \o <<"loaded", f>>
  PROVE  NestsIn(f)
<1>1. "loaded" \in Frame
  BY DEF Frame
<1>2. <<"loaded", f>> \in Seq(Frame) /\ Len(<<"loaded", f>>) = 2
  BY <1>1
<1>3. Len(stack) \in Nat /\ Len(stack') = Len(stack) + 2 /\ stack' \in Seq(Frame)
  BY <1>2
<1>4. \A k \in 1 .. Len(stack) : stack'[k] = stack[k]
  BY <1>2
<1>5. stack'[Len(stack) + 1] = "loaded" /\ stack'[Len(stack) + 2] = f
  BY <1>2
<1>6. stack' # <<>> /\ Last(stack') = f
  BY <1>3, <1>5 DEF Last
<1> QED
  BY <1>3, <1>4, <1>5, <1>6 DEF NestsIn, At

(* One that goes on takes the place it had. *)
LEMMA GoingOn ==
  ASSUME stack \in Seq(Frame), stack # <<>>, NEW f \in Frame,
         stack' = Append(Front(stack), f)
  PROVE  GoesOn(f)
<1>1. LET t == Append(Front(stack), f)
      IN  /\ t \in Seq(Frame) /\ Len(t) = Len(stack) /\ t # <<>> /\ Last(t) = f
          /\ \A k \in 1 .. Len(stack) - 1 : t[k] = stack[k]
          /\ t[Len(stack)] = f
  BY Swapped
<1>2. Len(stack) \in Nat \ {0}
  BY Popped
<1> QED
  BY <1>1, <1>2 DEF GoesOn, At

(* One that returns gives way to the one below it. *)
LEMMA Returning ==
  ASSUME stack \in Seq(Frame), stack # <<>>, stack' = Front(stack)
  PROVE  Returns
<1>1. /\ Front(stack) \in Seq(Frame) /\ Len(stack) \in Nat \ {0}
      /\ Len(Front(stack)) = Len(stack) - 1
      /\ \A k \in 1 .. Len(stack) - 1 : Front(stack)[k] = stack[k]
  BY Popped
<1>2. stack' \in Seq(Frame) /\ Len(stack') = Len(stack) - 1
      /\ \A k \in 1 .. Len(stack) - 1 : stack'[k] = stack[k]
  BY <1>1
<1>3. stack' # <<>> <=> Len(stack) > 1
  BY <1>1, <1>2, EmptySeq
<1>4. ASSUME Len(stack) > 1 PROVE Last(stack') = stack[Len(stack) - 1]
  BY <1>1, <1>2, <1>4 DEF Last
<1> QED
  BY <1>1, <1>2, <1>3, <1>4 DEF Returns, At

(* Who returns does nothing else. *)
LEMMA OnlyReturns ==
  ASSUME stack \in Seq(Frame), Returns
  PROVE  ~UNCHANGED stack /\ \A f : ~Nests(f) /\ ~GoesOn(f)
<1>1. Len(stack) \in Nat /\ Len(stack') = Len(stack) - 1
  BY DEF Returns
<1>2. Len(stack') # Len(stack) /\ Len(stack') # Len(stack) + 1
  BY <1>1
<1>3. ~UNCHANGED stack
  BY <1>2
<1>4. \A f : ~Nests(f) /\ ~GoesOn(f)
  BY <1>2 DEF Nests, GoesOn
<1> QED
  BY <1>3, <1>4

(* Which of these each action does. *)
LEMMA Handlers ==
  ASSUME stack \in Seq(Frame)
  PROVE  /\ startNewSearch => Nests("replace")
         /\ stopSearch => Nests("stop")
         /\ stopLoading => Nests("stopLoading")
         /\ interruptReturns => \/ (At("stop") \/ At("stopLoading")) /\ Returns
                                \/ At("replace") /\ GoesOn("events")
         /\ processEventsReturns => \/ text \in Regexps /\ GoesOn("run")
                                    \/ state_' = "NoSearch" /\ Returns
         /\ searchRequested => Returns
         /\ updateRequested => Returns
         /\ loadingFinishedHandler =>
              \/ /\ ~isAutorefreshAllowed /\ "unrefreshed" \in history'
                 /\ Nests("loaded")
              \/ isAutorefreshAllowed /\ isFileTruncated /\ NestsIn("replace")
              \/ isAutorefreshAllowed /\ ~isFileTruncated /\ NestsIn("update")
         /\ indexingFinishedReturns => Returns
<1> USE DEF At
<1>1. {"replace", "stop", "stopLoading", "events", "run", "loaded", "update"} \subseteq Frame
  BY DEF Frame
<1>2. startNewSearch => Nests("replace")
  BY <1>1, Nesting DEF startNewSearch, interrupt, Begin
<1>3. stopSearch => Nests("stop")
  BY <1>1, Nesting DEF stopSearch, interrupt, Begin
<1>4. stopLoading => Nests("stopLoading")
  BY <1>1, Nesting DEF stopLoading, interrupt, Begin
<1>5. interruptReturns => \/ (At("stop") \/ At("stopLoading")) /\ Returns
                          \/ At("replace") /\ GoesOn("events")
  BY <1>1, Returning, GoingOn DEF interruptReturns, Return
<1>6. processEventsReturns => \/ text \in Regexps /\ GoesOn("run")
                              \/ state_' = "NoSearch" /\ Returns
  BY <1>1, Returning, GoingOn DEF processEventsReturns, Return
<1>7. searchRequested => Returns
  BY Returning DEF searchRequested, Return
<1>8. updateRequested => Returns
  BY Returning DEF updateRequested, Return
<1>9. loadingFinishedHandler =>
        \/ /\ ~isAutorefreshAllowed /\ "unrefreshed" \in history'
           /\ Nests("loaded")
        \/ isAutorefreshAllowed /\ isFileTruncated /\ NestsIn("replace")
        \/ isAutorefreshAllowed /\ ~isFileTruncated /\ NestsIn("update")
  BY <1>1, Nesting, NestingIn DEF loadingFinishedHandler, Begin
<1>10. indexingFinishedReturns => Returns
  BY Returning DEF indexingFinishedReturns, Return
<1> QED
  BY <1>2, <1>3, <1>4, <1>5, <1>6, <1>7, <1>8, <1>9, <1>10

(* What the actions do to the queue of events: one is posted, or taken. *)
Posts(event) ==
  /\ guiQueue' \in Seq(Event) /\ Len(guiQueue') = Len(guiQueue) + 1
  /\ Len(guiQueue) \in Nat /\ event \in Event
  /\ \A k \in 1 .. Len(guiQueue) : guiQueue'[k] = guiQueue[k]
  /\ guiQueue'[Len(guiQueue) + 1] = event

Takes(is) ==
  /\ guiQueue' \in Seq(Event) /\ Len(guiQueue') = Len(guiQueue) - 1
  /\ Len(guiQueue) \in Nat \ {0}
  /\ \A k \in 1 .. Len(guiQueue) - 1 : guiQueue'[k] = guiQueue[k + 1]
  /\ Head(guiQueue) = guiQueue[1] /\ guiQueue[1] \in Event /\ guiQueue[1].is = is

ProgressEvent(progress) ==
  [is |-> "searchProgressed", progress |-> progress, nbMatches |-> search.nbMatches]

(* An event is posted at the end of the queue. *)
LEMMA Posting ==
  ASSUME guiQueue \in Seq(Event), NEW e \in Event, guiQueue' = Append(guiQueue, e)
  PROVE  Posts(e)
<1>1. Len(guiQueue) \in Nat
  OBVIOUS
<1> QED
  BY <1>1, Pushed DEF Posts

(* What each action does to the queue: the worker posts what it has found so
   far, the end of a loading its signal, and a handler takes what it handles. *)
LEMMA Events ==
  ASSUME TypeInv
  PROVE  /\ finishIndexing => Posts(Finished)
         /\ nextChunk => \E p \in Int : Posts(ProgressEvent(p))
         /\ endSearch => \E p \in Int : Posts(ProgressEvent(p))
         /\ \A is : Take(is) => Takes(is)
<1> USE DEF TypeInv, GuiType
<1>1. Finished \in Event
  BY DEF Event
<1>2. \A p \in Int : ProgressEvent(p) \in Event
  BY DEF Event, ProgressEvent, WorkType
<1>3. finishIndexing => Posts(Finished)
  BY <1>1, Posting DEF finishIndexing
<1>4. nextChunk => \E p \in Int : Posts(ProgressEvent(p))
  <2> SUFFICES ASSUME nextChunk PROVE \E p \in Int : Posts(ProgressEvent(p))
    OBVIOUS
  <2> DEFINE p == ((search.i - search.initialLine) * 100)
                   \div (search.nbSourceLines - search.initialLine)
  <2>1. p \in Int
    <3>1. /\ search.i - search.initialLine \in Nat
          /\ search.nbSourceLines - search.initialLine \in Nat \ {0}
      BY ConstantsAssumption, SMTT(30) DEF nextChunk, WorkType
    <3>2. (search.i - search.initialLine) * 100 \in Nat
      BY <3>1
    <3>3. \A a \in Nat, b \in Nat \ {0} : a \div b \in Int
      OBVIOUS
    <3> QED
      BY <3>1, <3>2, <3>3
  <2>2. guiQueue' = Append(guiQueue, ProgressEvent(p))
    BY DEF nextChunk, searchProgressed, ProgressEvent
  <2> HIDE DEF p
  <2> QED
    BY <1>2, <2>1, <2>2, Posting
<1>5. endSearch => \E p \in Int : Posts(ProgressEvent(p))
  <2> SUFFICES ASSUME endSearch PROVE Posts(ProgressEvent(100))
    OBVIOUS
  <2>1. guiQueue' = Append(guiQueue, ProgressEvent(100))
    BY DEF endSearch, searchProgressed, ProgressEvent
  <2> QED
    BY <1>2, <2>1, Posting
<1>6. \A is : Take(is) => Takes(is)
  <2> SUFFICES ASSUME NEW is, Take(is) PROVE Takes(is)
    OBVIOUS
  <2>1. /\ guiQueue # <<>> /\ guiQueue' = Tail(guiQueue) /\ Head(guiQueue).is = is
    BY DEF Take
  <2> QED
    BY <2>1, Taken DEF Takes
<1> QED
  BY <1>3, <1>4, <1>5, <1>6

-----------------------------------------------------------------------------
(* Types.                                                                  *)

(* A log that was loaded, in a new window, has the types. *)
LEMMA TypeInit == Init => TypeInv
<1> SUFFICES ASSUME Init PROVE TypeInv
  OBVIOUS
<1>1. source \in Seq(Line) /\ Len(source) <= MaxLines /\ (fakeFinalLF => Len(source) > 0)
  <2>1. PICK n \in 0..MaxLines : source \in [1..n -> Line]
    BY DEF Init
  <2>2. n \in Nat /\ source \in Seq(Line) /\ Len(source) = n
    BY <2>1, ConstantsAssumption
  <2>3. source # <<>> => Len(source) > 0
    BY <2>2
  <2>4. fakeFinalLF => source # <<>>
    BY DEF Init
  <2> QED
    BY <2>2, <2>3, <2>4
<1>2. LogType
  BY <1>1 DEF Init, LogType, None
<1>3. GuiType
  BY DEF Init, GuiType, At, State, Empty
<1>4. WidgetType
  <2>1. 0 \in 0 .. MaxLines /\ <<>> \in Seq(0 .. MaxLines - 1)
    BY ConstantsAssumption
  <2> QED
    BY <2>1 DEF Init, WidgetType
<1>5. WorkType
  <2>1. 0 \in 0 .. MaxLines /\ <<>> \in Seq(0 .. MaxLines - 1)
    BY ConstantsAssumption
  <2>2. /\ operationRequested_ = NoOperation /\ search = NoSearch
        /\ searchData_ = [matches |-> <<>>, nbLinesProcessed |-> 0]
        /\ workerPc = "wait" /\ interruptRequested_ = FALSE /\ searched = Empty
    BY DEF Init
  <2>3. NoOperation \in [kind : {"none", "Full", "Update"},
                         regexp : Regexps \cup {Empty}, position : Nat]
    BY DEF NoOperation
  <2>4. NoSearch \in [initialLine : Nat, nbSourceLines : 0..MaxLines, nbMatches : Nat,
                      i : Nat]
    BY <2>1 DEF NoSearch
  <2> QED
    BY <2>1, <2>2, <2>3, <2>4 DEF WorkType
<1> QED
  BY <1>2, <1>3, <1>4, <1>5 DEF Init, TypeInv

(* The types are those that the specification states. *)
LEMMA TypesAreTypes == TypeInv => TypeOK
<1> SUFFICES ASSUME TypeInv PROVE TypeOK
  OBVIOUS
<1> QED
  BY ConstantsAssumption DEF TypeInv, TypeOK, LogType, GuiType, WidgetType, WorkType

(* The log. *)
LEMMA LogTypeStep == TypeInv /\ [Next]_vars => LogType'
<1> SUFFICES ASSUME TypeInv, [Next]_vars PROVE LogType'
  OBVIOUS
<1>1. CASE UNCHANGED <<sourceVars, currentOperation_, nextOperation_>>
  BY <1>1 DEF TypeInv, LogType, sourceVars
<1> USE ConstantsAssumption DEF TypeInv, LogType, sourceVars, loadVars, None
<1>2. CASE startFullIndexing
  <2>1. <<>> \in Seq(Line) /\ Len(<<>>) = 0
    OBVIOUS
  <2>2. source' \in Seq(Line) /\ Len(source') = 0
    BY <1>2, <2>1 DEF startFullIndexing
  <2>3. fakeFinalLF' \in BOOLEAN /\ ~fakeFinalLF'
    BY <1>2 DEF startFullIndexing
  <2>4. currentOperation_' = "running" /\ nextOperation_' = nextOperation_
    BY <1>2 DEF startFullIndexing
  <2> QED
    BY <2>2, <2>3, <2>4
<1>3. CASE addAll
  <2>1. PICK list \in {<<l>> : l \in Line} \cup {<<>>} :
          source' = (IF fakeFinalLF THEN Front(source) ELSE source) \o list
    BY <1>3 DEF addAll
  <2>2. list \in Seq(Line)
    <3>1. <<>> \in Seq(Line) /\ \A l \in Line : <<l>> \in Seq(Line)
      OBVIOUS
    <3> QED
      BY <3>1
  <2>3. ASSUME fakeFinalLF PROVE Front(source) \in Seq(Line)
    <3>1. Len(source) # 0 /\ source \in Seq(Line)
      BY <2>3
    <3>2. source # <<>>
      BY <3>1, EmptySeq
    <3> QED
      BY <3>1, <3>2, Popped
  <2>4. source' \in Seq(Line)
    BY <2>1, <2>2, <2>3
  <2>5. fakeFinalLF' \in BOOLEAN /\ ~fakeFinalLF' /\ Len(source') <= MaxLines
    BY <1>3 DEF addAll
  <2>6. currentOperation_' = "running" /\ nextOperation_' = nextOperation_
    BY <1>3 DEF addAll
  <2> QED
    BY <2>4, <2>5, <2>6
<1>4. CASE finishIndexing
  <2>1. ASSUME NEW l \in Line
        PROVE  Append(source, l) \in Seq(Line) /\ Len(Append(source, l)) = Len(source) + 1
    OBVIOUS
  <2>2. currentOperation_' = "finished" /\ nextOperation_' = nextOperation_
    BY <1>4 DEF finishIndexing
  <2>3. CASE UNCHANGED sourceVars
    BY <2>2, <2>3
  <2>4. CASE ~UNCHANGED sourceVars
    <3>1. PICK l \in Line : source' = Append(source, l)
      BY <1>4, <2>4 DEF finishIndexing
    <3>2. Len(source) < MaxLines /\ fakeFinalLF' \in BOOLEAN
      BY <1>4, <2>4 DEF finishIndexing
    <3> QED
      BY <2>1, <2>2, <3>1, <3>2
  <2> QED
    BY <2>3, <2>4
<1>5. CASE fileGrew \/ fileTruncated \/ reload
  BY <1>5 DEF fileGrew, fileTruncated, reload, enqueueOperation
<1>6. CASE User
  BY <1>1, <1>5, <1>6 DEF User, startNewSearch, stopSearch, stopLoading,
     searchRefreshChangedHandler, searchTextChangeHandler
<1>7. CASE indexingFinishedReturns
  BY <1>7 DEF indexingFinishedReturns
<1>8. CASE Gui
  BY <1>1, <1>7, <1>8 DEF Gui, interruptReturns, processEventsReturns, searchRequested,
     updateRequested, handleSearchProgressed, loadingFinishedHandler
<1>9. CASE Worker
  BY <1>1, <1>9 DEF Worker, startFullSearch, startUpdateSearch, beginSearch, nextChunk,
     searchChunk, endSearch
<1>10. CASE UNCHANGED vars
  BY <1>1, <1>10 DEF vars
<1> QED
  BY <1>2, <1>3, <1>4, <1>5, <1>6, <1>8, <1>9, <1>10 DEF Next, Log

(* The stack, the queue and the search line. *)
LEMMA StackQueueType == TypeInv /\ [Next]_vars => stack' \in Seq(Frame) /\ guiQueue' \in Seq(Event)
<1> SUFFICES ASSUME TypeInv, [Next]_vars
             PROVE  stack' \in Seq(Frame) /\ guiQueue' \in Seq(Event)
  OBVIOUS
<1>0. stack \in Seq(Frame) /\ guiQueue \in Seq(Event)
  BY DEF TypeInv, GuiType
<1>1. stack' \in Seq(Frame)
  <2>1. CASE UNCHANGED stack
    BY <1>0, <2>1
  <2>2. CASE Log
    BY <2>1, <2>2 DEF Log, startFullIndexing, addAll, finishIndexing, fileGrew,
       fileTruncated, guiVars
  <2>3. CASE User
    BY <1>0, <2>1, <2>3, Handlers DEF User, reload, searchRefreshChangedHandler,
       searchTextChangeHandler, Nests
  <2>4. CASE Gui
    BY <1>0, <2>1, <2>4, Handlers DEF Gui, handleSearchProgressed, Nests, NestsIn,
       GoesOn, Returns
  <2>5. CASE Worker
    BY <2>1, <2>5 DEF Worker, startFullSearch, startUpdateSearch, beginSearch, nextChunk,
       searchChunk, endSearch, guiVars
  <2>6. CASE UNCHANGED vars
    BY <2>1, <2>6 DEF vars, guiVars
  <2> QED
    BY <2>2, <2>3, <2>4, <2>5, <2>6 DEF Next
<1>2. guiQueue' \in Seq(Event)
  <2>1. CASE UNCHANGED guiQueue
    BY <1>0, <2>1
  <2>2. CASE Log
    BY <2>1, <2>2, Events DEF Log, startFullIndexing, addAll, finishIndexing, fileGrew,
       fileTruncated, guiVars, Posts
  <2>3. CASE User
    BY <2>1, <2>3 DEF User, startNewSearch, stopSearch, stopLoading, reload,
       searchRefreshChangedHandler, searchTextChangeHandler
  <2>4. CASE handleSearchProgressed \/ loadingFinishedHandler
    BY <2>4, Events DEF handleSearchProgressed, loadingFinishedHandler, Takes
  <2>5. CASE Gui
    BY <2>1, <2>4, <2>5 DEF Gui, interruptReturns, processEventsReturns, searchRequested,
       updateRequested, indexingFinishedReturns
  <2>6. CASE nextChunk \/ endSearch
    BY <2>6, Events DEF Posts
  <2>7. CASE Worker
    BY <2>1, <2>6, <2>7 DEF Worker, startFullSearch, startUpdateSearch, beginSearch,
       searchChunk, guiVars
  <2>8. CASE UNCHANGED vars
    BY <2>1, <2>8 DEF vars, guiVars
  <2> QED
    BY <2>2, <2>3, <2>5, <2>7, <2>8 DEF Next
<1> QED
  BY <1>1, <1>2

(* The search line and SearchState. *)
LEMMA TextStateType ==
  TypeInv /\ [Next]_vars => text' \in Regexps \cup {Empty, Invalid} /\ state_' \in State
<1> SUFFICES ASSUME TypeInv, [Next]_vars
             PROVE  text' \in Regexps \cup {Empty, Invalid} /\ state_' \in State
  OBVIOUS
<1>0. text \in Regexps \cup {Empty, Invalid} /\ state_ \in State
  BY DEF TypeInv, GuiType
<1>1. CASE UNCHANGED <<text, state_>>
  BY <1>0, <1>1
<1>2. CASE Log
  BY <1>0, <1>1, <1>2 DEF Log, startFullIndexing, addAll, finishIndexing, fileGrew,
     fileTruncated, truncateFile, State, guiVars, stateVars
<1>3. CASE startNewSearch
  BY <1>0, <1>3 DEF startNewSearch
<1>4. CASE User
  BY <1>0, <1>1, <1>3, <1>4 DEF User, stopSearch, stopLoading, reload,
     searchRefreshChangedHandler, searchTextChangeHandler, setAutorefresh,
     suspendAutorefresh, State, stateVars
<1>5. CASE Gui
  BY <1>0, <1>1, <1>5 DEF Gui, interruptReturns, processEventsReturns, searchRequested,
     updateRequested, handleSearchProgressed, loadingFinishedHandler,
     indexingFinishedReturns, suspendAutorefresh, startSearch, State, stateVars
<1>6. CASE Worker
  BY <1>1, <1>6 DEF Worker, startFullSearch, startUpdateSearch, beginSearch, nextChunk,
     searchChunk, endSearch, guiVars, stateVars
<1>7. CASE UNCHANGED vars
  BY <1>1, <1>7 DEF vars, guiVars, stateVars
<1> QED
  BY <1>2, <1>4, <1>5, <1>6, <1>7 DEF Next

(* What blocks is innermost. *)
LEMMA BlocksInnermost ==
  TypeInv /\ [Next]_vars =>
    (\A k \in DOMAIN stack : k # Len(stack) => stack[k] \in {"events", "loaded"})'
<1> SUFFICES ASSUME TypeInv, [Next]_vars, NEW k \in DOMAIN stack', k # Len(stack')
             PROVE  stack'[k] \in {"events", "loaded"}
  OBVIOUS
<1>0. /\ stack \in Seq(Frame) /\ stack' \in Seq(Frame)
      /\ Len(stack) \in Nat /\ Len(stack') \in Nat /\ k \in 1 .. Len(stack')
      /\ \A j \in 1 .. Len(stack) : j # Len(stack) => stack[j] \in {"events", "loaded"}
  BY StackQueueType, LenProperties DEF TypeInv, GuiType
<1>1. CASE UNCHANGED stack
  BY <1>0, <1>1
<1>2. CASE Log
  BY <1>1, <1>2 DEF Log, startFullIndexing, addAll, finishIndexing, fileGrew,
     fileTruncated, guiVars
<1>3. CASE User
  <2>1. CASE startNewSearch \/ stopSearch \/ stopLoading
    <3>1. Len(stack) = 0
      BY <2>1 DEF startNewSearch, stopSearch, stopLoading, UserAction
    <3>2. Len(stack') = Len(stack) + 1
      BY <1>0, <2>1, Handlers DEF Nests
    <3> QED
      BY <1>0, <3>1, <3>2
  <2> QED
    BY <1>1, <1>3, <2>1 DEF User, reload, searchRefreshChangedHandler,
       searchTextChangeHandler
<1>4. CASE loadingFinishedHandler
  <2>1. Len(stack) # 0 => stack[Len(stack)] = "events"
    BY <1>0, <1>4, EmptySeq DEF loadingFinishedHandler, Take, Dispatching, At, Last
  <2>2. \A j \in 1 .. Len(stack) : stack[j] \in {"events", "loaded"}
    BY <1>0, <2>1
  <2>3. \/ Nests("loaded")
        \/ NestsIn("replace")
        \/ NestsIn("update")
    BY <1>0, <1>4, Handlers
  <2>4. CASE Nests("loaded")
    BY <1>0, <2>2, <2>4 DEF Nests
  <2>5. ASSUME NEW f \in {"replace", "update"}, NestsIn(f)
        PROVE  stack'[k] \in {"events", "loaded"}
    BY <1>0, <2>2, <2>5 DEF NestsIn
  <2> QED
    BY <2>3, <2>4, <2>5
<1>5. CASE GoesOn("events") \/ GoesOn("run")
  BY <1>0, <1>5 DEF GoesOn
<1>6. CASE Returns
  BY <1>0, <1>6 DEF Returns
<1>7. CASE Gui
  BY <1>0, <1>1, <1>4, <1>5, <1>6, <1>7, Handlers DEF Gui, handleSearchProgressed
<1>8. CASE Worker
  BY <1>1, <1>8 DEF Worker, startFullSearch, startUpdateSearch, beginSearch, nextChunk,
     searchChunk, endSearch, guiVars
<1>9. CASE UNCHANGED vars
  BY <1>1, <1>9 DEF vars, guiVars
<1> QED
  BY <1>2, <1>3, <1>7, <1>8, <1>9 DEF Next

(* Who returns, returns to a handler that goes on. *)
LEMMA ReturnsInto ==
  ASSUME TypeInv, Returns, NEW f, At(f)'
  PROVE  f \in {"events", "loaded"}
<1>1. /\ Len(stack) \in Nat \ {0} /\ Len(stack) > 1
      /\ stack[Len(stack) - 1] = f
  BY DEF Returns
<1>2. Len(stack) - 1 \in DOMAIN stack /\ Len(stack) - 1 # Len(stack)
  BY <1>1 DEF TypeInv, GuiType
<1> QED
  BY <1>1, <1>2 DEF TypeInv, GuiType

(* A search is only run of a valid expression: the line is not edited while
   its handler blocks. *)
LEMMA RunHasText == TypeInv /\ [Next]_vars => (At("run") => text \in Regexps)'
<1> SUFFICES ASSUME TypeInv, [Next]_vars, At("run")' PROVE text' \in Regexps
  OBVIOUS
<1>0. stack \in Seq(Frame) /\ (At("run") => text \in Regexps)
  BY DEF TypeInv, GuiType
<1>1. CASE UNCHANGED <<stack, text>>
  BY <1>0, <1>1 DEF At
<1>2. CASE Log
  BY <1>1, <1>2 DEF Log, startFullIndexing, addAll, finishIndexing, fileGrew,
     fileTruncated, guiVars, stateVars
<1>3. CASE User
  BY <1>0, <1>1, <1>3, Handlers DEF User, reload, searchRefreshChangedHandler,
     searchTextChangeHandler, UserAction, Nests, At
<1>4. CASE Gui
  <2>1. UNCHANGED text
    BY <1>4 DEF Gui, interruptReturns, processEventsReturns, searchRequested,
       updateRequested, handleSearchProgressed, loadingFinishedHandler,
       indexingFinishedReturns, stateVars
  <2>2. ~Returns
    BY ReturnsInto
  <2>3. \A f \in {"loaded", "replace", "update", "events"} :
          ~Nests(f) /\ ~NestsIn(f) /\ ~GoesOn(f)
    BY DEF Nests, NestsIn, GoesOn
  <2> QED
    BY <1>0, <1>1, <1>4, <2>1, <2>2, <2>3, Handlers DEF Gui, handleSearchProgressed
<1>5. CASE Worker
  BY <1>1, <1>5 DEF Worker, startFullSearch, startUpdateSearch, beginSearch, nextChunk,
     searchChunk, endSearch, guiVars, stateVars
<1>6. CASE UNCHANGED vars
  BY <1>1, <1>6 DEF vars, guiVars, stateVars
<1> QED
  BY <1>2, <1>3, <1>4, <1>5, <1>6 DEF Next

(* What a chunk reads is a part of the lines there are, and of those to search. *)
LEMMA ChunkFits ==
  ASSUME TypeInv, workerPc = "read"
  PROVE  /\ search.i \in Nat /\ search.nbSourceLines \in Nat /\ LinesRead \in Nat
         /\ search.nbSourceLines <= MaxLines
         /\ search.i + LinesRead <= search.nbSourceLines
         /\ LinesRead <= nbLinesInChunk
         /\ LinesRead = 0 =>
              /\ Len(source) < search.nbSourceLines
              /\ \/ Len(source) < search.i + nbLinesInChunk
                 \/ search.nbSourceLines <= search.i + nbLinesInChunk
         /\ LinesRead # 0 =>
              \/ search.i + LinesRead = search.nbSourceLines
              \/ LinesRead = nbLinesInChunk
<1> DEFINE a == nbLinesInChunk
           b == search.nbSourceLines - search.i
<1>1. /\ search.i \in Nat /\ search.nbSourceLines \in Nat /\ search.i < search.nbSourceLines
      /\ search.nbSourceLines <= MaxLines
  BY ConstantsAssumption DEF TypeInv, WorkType
<1>2. a \in Nat \ {0} /\ b \in Nat \ {0} /\ Len(source) \in Nat
  BY <1>1, ConstantsAssumption DEF TypeInv, LogType
<1>3. ChunkSize \in {a, b} /\ ChunkSize <= a /\ ChunkSize <= b
  <2>1. \E m \in {a, b} : \A y \in {a, b} : m <= y
    BY <1>2
  <2> QED
    BY <2>1 DEF ChunkSize, Min
<1> QED
  BY <1>1, <1>2, <1>3 DEF LinesRead

(* The lists of a set of line numbers. *)
LEMMA ListsAreOrdered ==
  ASSUME NEW n \in Nat, NEW S \in SUBSET (0 .. n - 1), NEW list \in Lists(S)
  PROVE  list \in Seq(S) /\ Range(list) = S /\ InOrder(list)
<1>1. IsFiniteSet(S)
  <2>1. 0 \in Int /\ n - 1 \in Int
    OBVIOUS
  <2>2. IsFiniteSet(0 .. n - 1)
    BY <2>1, FS_Interval
  <2> QED
    BY <2>2, FS_Subset
<1>2. Cardinality(S) \in Nat
  BY <1>1, FS_CardinalityType
<1> QED
  BY <1>2 DEF Lists

(* What a chunk finds, and where it leaves the search. *)
LEMMA Chunk ==
  ASSUME TypeInv, searchChunk
  PROVE  \E found \in Seq(0 .. MaxLines - 1) :
           LET lines == Matching(search.i, search.i + LinesRead, operationRequested_.regexp)
           IN  /\ Range(found) = lines /\ InOrder(found)
               /\ searchData_'.matches = searchData_.matches \o found
               /\ searchData_'.nbLinesProcessed = search.i + LinesRead
               /\ searchData_' \in
                    [matches : Seq(0 .. MaxLines - 1), nbLinesProcessed : 0..MaxLines]
               /\ search' = [search EXCEPT !.nbMatches = Len(searchData_'.matches),
                                           !.i = search.i + nbLinesInChunk]
               /\ search.nbMatches = Len(searchData_.matches)
               /\ Len(searchData_'.matches) = Len(searchData_.matches) + Len(found)
<1> DEFINE lines == Matching(search.i, search.i + LinesRead, operationRequested_.regexp)
<1>1. PICK found \in Lists(lines) :
        /\ searchData_' = [matches |-> searchData_.matches \o found,
                           nbLinesProcessed |-> LinesProcessed]
        /\ search' = [search EXCEPT !.nbMatches = @ + Len(found),
                                    !.i = @ + nbLinesInChunk]
  BY DEF searchChunk
<1>2. workerPc = "read"
  BY DEF searchChunk
<1>3. lines \in SUBSET (0 .. MaxLines - 1)
  BY <1>2, ChunkFits, ConstantsAssumption DEF Matching
<1>4. found \in Seq(lines) /\ Range(found) = lines /\ InOrder(found)
  BY <1>1, <1>3, ListsAreOrdered, ConstantsAssumption
<1> HIDE DEF lines
<1>5. found \in Seq(0 .. MaxLines - 1)
  BY <1>3, <1>4, SeqMonotonic
<1>6. LinesProcessed \in 0 .. MaxLines /\ LinesProcessed = search.i + LinesRead
  BY <1>2, ChunkFits, ConstantsAssumption DEF LinesProcessed
<1>7. /\ searchData_.matches \in Seq(0 .. MaxLines - 1)
      /\ search.nbMatches = Len(searchData_.matches)
      /\ search \in [initialLine : Nat, nbSourceLines : 0..MaxLines, nbMatches : Nat, i : Nat]
  BY <1>2 DEF TypeInv, WorkType
<1>8. /\ searchData_.matches \o found \in Seq(0 .. MaxLines - 1)
      /\ Len(searchData_.matches \o found) = Len(searchData_.matches) + Len(found)
  BY <1>5, <1>7
<1> QED
  BY <1>1, <1>4, <1>5, <1>6, <1>7, <1>8 DEF lines

(* An expression that is valid is not empty. *)
LEMMA SearchLine ==
  ASSUME TypeInv, At("run")
  PROVE  text \in Regexps /\ text # Empty
BY ConstantsAssumption DEF TypeInv, GuiType

(* The widget and its results. *)
LEMMA WidgetTypeStep == TypeInv /\ [Next]_vars => WidgetType'
<1> SUFFICES ASSUME TypeInv, [Next]_vars PROVE WidgetType'
  OBVIOUS
<1>0. /\ 0 \in 0 .. MaxLines /\ <<>> \in Seq(0 .. MaxLines - 1)
      /\ 0 \in Nat
  BY ConstantsAssumption
<1> USE DEF TypeInv, WidgetType
<1>1. CASE UNCHANGED <<autoRefreshRequested_, widgetVars, resultVars>>
  BY <1>1 DEF widgetVars, resultVars
<1>2. CASE fileTruncated \/ reload
  BY <1>0, <1>2 DEF fileTruncated, reload, clearSearch, printSearchInfoMessage, widgetVars,
     resultVars
<1>3. CASE Log
  BY <1>1, <1>2, <1>3 DEF Log, startFullIndexing, addAll, finishIndexing, fileGrew,
     guiVars, stateVars
<1>4. CASE User
  BY <1>1, <1>2, <1>4 DEF User, startNewSearch, stopSearch, stopLoading, setAutorefresh,
     searchRefreshChangedHandler, searchTextChangeHandler, printSearchInfoMessage,
     stateVars, widgetVars, resultVars
<1>5. CASE interruptReturns \/ processEventsReturns
  BY <1>0, <1>5 DEF interruptReturns, processEventsReturns, clearSearch,
     printSearchInfoMessage, widgetVars, resultVars
<1>6. CASE searchRequested
  BY <1>6, SearchLine DEF searchRequested, widgetVars, resultVars
<1>7. CASE handleSearchProgressed
  <2>1. Head(guiQueue) \in Event /\ Head(guiQueue).is = "searchProgressed"
    BY <1>7, Events DEF handleSearchProgressed, Take, Takes
  <2>2. Head(guiQueue).nbMatches \in Nat
    BY <2>1 DEF Event, Finished
  <2>3. /\ searchData_.matches \in Seq(0 .. MaxLines - 1)
        /\ searchData_.nbLinesProcessed \in 0 .. MaxLines
        /\ Len(searchData_.matches) \in Nat
    BY DEF WorkType
  <2>4. searchInfoLine' \in BOOLEAN /\ stopButton' \in BOOLEAN
    BY <1>7 DEF handleSearchProgressed
  <2>5. /\ matching_lines_' = searchData_.matches
        /\ nbLinesProcessed_' = searchData_.nbLinesProcessed
        /\ nbMatches_' \in Nat /\ shown' \in Nat
    BY <1>7, <2>2, <2>3 DEF handleSearchProgressed
  <2>6. UNCHANGED <<autoRefreshRequested_, currentRegExp_>>
    BY <1>7 DEF handleSearchProgressed, stateVars
  <2> QED
    BY <2>3, <2>4, <2>5, <2>6
<1>8. CASE Gui
  BY <1>1, <1>5, <1>6, <1>7, <1>8 DEF Gui, updateRequested, loadingFinishedHandler,
     indexingFinishedReturns, stateVars
<1>9. CASE Worker
  BY <1>1, <1>9 DEF Worker, startFullSearch, startUpdateSearch, beginSearch, nextChunk,
     searchChunk, endSearch, guiVars, stateVars
<1>10. CASE UNCHANGED vars
  BY <1>1, <1>10 DEF vars, guiVars, stateVars
<1> QED
  BY <1>3, <1>4, <1>8, <1>9, <1>10 DEF Next

(* A match is deleted where there is one; in a list in order, that is all. *)
LEMMA DeletedMatch ==
  ASSUME NEW n \in Nat, NEW m \in Seq(0 .. n - 1), NEW line \in Nat
  PROVE  /\ deleteMatch(m, line) \in Seq(0 .. n - 1)
         /\ InOrder(m) => /\ InOrder(deleteMatch(m, line))
                          /\ Range(deleteMatch(m, line)) = Range(m) \ {line}
<1> DEFINE reached == {k \in DOMAIN m : m[k] <= line}
           last == Max(reached)
           left == RemoveAt(m, last)
<1>1. Len(m) \in Nat /\ DOMAIN m = 1 .. Len(m) /\ \A k \in 1 .. Len(m) : m[k] \in 0 .. n - 1
  OBVIOUS
<1>2. Range(m) = {m[k] : k \in 1 .. Len(m)}
  BY RangeEquality
<1>3. reached \in SUBSET (0 .. Len(m))
  BY <1>1
<1>4. CASE reached = {}
  <2>1. deleteMatch(m, line) = m
    BY <1>4 DEF deleteMatch
  <2>2. \A k \in 1 .. Len(m) : m[k] # line
    BY <1>1, <1>4
  <2> QED
    BY <1>2, <2>1, <2>2
<1>5. CASE reached # {}
  <2>1. last \in reached /\ \A k \in reached : k <= last
    BY <1>1, <1>3, <1>5, MaxIsIn
  <2> HIDE DEF last
  <2>2. last \in 1 .. Len(m) /\ m[last] <= line
    BY <1>1, <2>1
  <2>3. \A k \in 1 .. Len(m) : k > last => m[k] > line
    BY <1>1, <2>1, <2>2
  <2>4. CASE m[last] # line
    <3>1. deleteMatch(m, line) = m
      BY <2>4 DEF deleteMatch, last
    <3>2. ASSUME InOrder(m), NEW k \in 1 .. Len(m) PROVE m[k] # line
      <4>1. k < last => m[k] < m[last]
        BY <1>1, <2>2, <3>2, SMTT(30) DEF InOrder
      <4> QED
        BY <1>1, <2>2, <2>3, <2>4, <4>1
    <3> QED
      BY <1>2, <3>1, <3>2
  <2>5. CASE m[last] = line
    <3>1. deleteMatch(m, line) = left
      BY <1>5, <2>5 DEF deleteMatch, last
    <3>2. /\ left \in Seq(0 .. n - 1) /\ Len(left) = Len(m) - 1
          /\ \A j \in 1 .. Len(m) - 1 : left[j] = IF j < last THEN m[j] ELSE m[j + 1]
      BY <1>1, <2>2, RemovedAt
    <3> HIDE DEF left
    <3>3. Range(left) = {left[k] : k \in 1 .. Len(left)} /\ DOMAIN left = 1 .. Len(left)
      BY <3>2, RangeEquality
    <3>4. ASSUME InOrder(m) PROVE InOrder(left)
      <4>1. \A j, k \in 1 .. Len(m) : j < k => m[j] < m[k]
        BY <1>1, <3>4 DEF InOrder
      <4>2. ASSUME NEW j \in 1 .. Len(left), NEW k \in 1 .. Len(left), j < k
            PROVE  left[j] < left[k]
        <5> DEFINE a == IF j < last THEN j ELSE j + 1
                   b == IF k < last THEN k ELSE k + 1
        <5>1. a \in 1 .. Len(m) /\ b \in 1 .. Len(m) /\ a < b
          BY <1>1, <2>2, <3>2, <4>2, SMTT(30)
        <5>2. left[j] = m[a] /\ left[k] = m[b]
          BY <3>2
        <5> HIDE DEF a, b
        <5> QED
          BY <4>1, <5>1, <5>2
      <4> QED
        BY <3>3, <4>2 DEF InOrder
    <3>5. ASSUME InOrder(m) PROVE Range(left) = Range(m) \ {line}
      <4>1. \A j, k \in 1 .. Len(m) : j < k => m[j] < m[k]
        BY <1>1, <3>5 DEF InOrder
      <4>2. ASSUME NEW j \in 1 .. Len(left)
            PROVE  left[j] \in Range(m) /\ left[j] # line
        <5> DEFINE a == IF j < last THEN j ELSE j + 1
        <5>1. a \in 1 .. Len(m) /\ a # last
          BY <1>1, <2>2, <3>2
        <5>2. left[j] = m[a]
          BY <3>2
        <5>3. a < last \/ last < a
          BY <2>2, <5>1
        <5> HIDE DEF a
        <5>4. m[a] # m[last]
          <6>1. m[a] < m[last] \/ m[last] < m[a]
            BY <2>2, <4>1, <5>1, <5>3
          <6>2. m[a] \in Int /\ m[last] \in Int
            BY <1>1, <2>2, <5>1
          <6> QED
            BY <6>1, <6>2
        <5> QED
          BY <1>2, <2>5, <5>1, <5>2, <5>4
      <4>3. ASSUME NEW k \in 1 .. Len(m), m[k] # line
            PROVE  m[k] \in Range(left)
        <5> DEFINE j == IF k < last THEN k ELSE k - 1
        <5>1. k # last
          BY <2>5, <4>3
        <5>2. j \in 1 .. Len(m) - 1 /\ left[j] = m[k]
          BY <1>1, <2>2, <3>2, <5>1, SMTT(30)
        <5> HIDE DEF j
        <5> QED
          BY <3>2, <3>3, <5>2
      <4> QED
        BY <1>2, <3>3, <4>2, <4>3
    <3> QED
      BY <3>1, <3>2, <3>4, <3>5
  <2> QED
    BY <2>4, <2>5
<1> QED
  BY <1>4, <1>5

(* What the worker is asked to do, and does. *)
LEMMA WorkTypeStep == TypeInv /\ [Next]_vars => WorkType'
<1> SUFFICES ASSUME TypeInv, [Next]_vars PROVE WorkType'
  OBVIOUS
<1> USE DEF TypeInv, WorkType
<1>0. /\ 0 \in 0 .. MaxLines /\ <<>> \in Seq(0 .. MaxLines - 1)
      /\ Len(source) \in 0 .. MaxLines
  BY ConstantsAssumption DEF LogType
<1>1. CASE UNCHANGED <<operationRequested_, workVars>> /\ interruptRequested_' \in BOOLEAN
  BY <1>1 DEF workVars
<1>2. CASE Log
  BY <1>1, <1>2 DEF Log, startFullIndexing, addAll, finishIndexing, fileGrew, fileTruncated
<1>3. CASE User
  BY <1>1, <1>3 DEF User, startNewSearch, stopSearch, stopLoading, reload, interrupt,
     searchRefreshChangedHandler, searchTextChangeHandler
<1>4. CASE searchRequested \/ updateRequested
  <2>1. UNCHANGED workVars /\ workerPc = "wait" /\ interruptRequested_' = FALSE
    BY <1>4 DEF searchRequested, updateRequested, NothingToDo, request
  <2>2. operationRequested_' \in [kind : {"none", "Full", "Update"},
                                  regexp : Regexps \cup {Empty}, position : Nat]
    <3>1. nbLinesProcessed_ \in Nat /\ currentRegExp_ \in Regexps \cup {Empty}
      BY ConstantsAssumption DEF WidgetType
    <3> QED
      BY <1>4, <3>1, SearchLine DEF searchRequested, updateRequested, request
  <2>3. operationRequested_'.kind # "none"
    BY <1>4 DEF searchRequested, updateRequested, request
  <2> QED
    BY <2>1, <2>2, <2>3 DEF workVars
<1>5. CASE Gui
  BY <1>1, <1>4, <1>5 DEF Gui, interruptReturns, processEventsReturns,
     handleSearchProgressed, loadingFinishedHandler, indexingFinishedReturns
<1>6. CASE startFullSearch \/ startUpdateSearch
  <2> DEFINE position == operationRequested_.position
             initial_line == IF position >= 1 THEN position - 1 ELSE position
             data == IF startFullSearch THEN [matches |-> <<>>, nbLinesProcessed |-> 0]
                     ELSE searchData_'
             line == IF startFullSearch THEN 0 ELSE initial_line
  <2>1. position \in Nat /\ initial_line \in Nat /\ line \in Nat
    OBVIOUS
  <2>2. searchData_' \in [matches : Seq(0 .. MaxLines - 1), nbLinesProcessed : 0..MaxLines]
    <3>1. CASE startFullSearch
      BY <1>0, <3>1 DEF startFullSearch, beginSearch
    <3>2. CASE startUpdateSearch
      <4>1. deleteMatch(searchData_.matches, initial_line) \in Seq(0 .. MaxLines - 1)
        BY <2>1, DeletedMatch, ConstantsAssumption
      <4>2. searchData_' = IF position >= 1
              THEN [searchData_ EXCEPT !.matches = deleteMatch(searchData_.matches, initial_line)]
              ELSE searchData_
        BY <3>2 DEF startUpdateSearch, beginSearch
      <4> HIDE DEF initial_line, position
      <4> QED
        BY <4>1, <4>2
    <3> QED
      BY <1>6, <3>1, <3>2
  <2>3. /\ search' = [initialLine |-> line, nbSourceLines |-> Len(source),
                      nbMatches |-> Len(searchData_'.matches), i |-> line]
        /\ workerPc' = "loop" /\ operationRequested_.kind # "none"
        /\ UNCHANGED <<operationRequested_, interruptRequested_>>
    <3>1. startFullSearch => operationRequested_.kind = "Full"
      BY DEF startFullSearch
    <3> QED
      BY <1>6, <3>1 DEF startFullSearch, startUpdateSearch, beginSearch
  <2>4. searched' \in Regexps \cup {Empty}
    BY <1>6 DEF startFullSearch, startUpdateSearch
  <2>5. Len(searchData_'.matches) \in Nat
    BY <2>2
  <2> HIDE DEF line
  <2>6. search' \in [initialLine : Nat, nbSourceLines : 0..MaxLines, nbMatches : Nat, i : Nat]
    BY <1>0, <2>1, <2>3, <2>5
  <2>7. /\ search.initialLine' <= search.i'
        /\ search.nbMatches' = Len(searchData_.matches)'
    BY <2>1, <2>3
  <2>8. /\ operationRequested_' \in [kind : {"none", "Full", "Update"},
                                     regexp : Regexps \cup {Empty}, position : Nat]
        /\ operationRequested_.kind' # "none" /\ interruptRequested_' \in BOOLEAN
    BY <2>3
  <2> QED
    BY <2>2, <2>3, <2>4, <2>6, <2>7, <2>8
<1>7. CASE nextChunk
  BY <1>7 DEF nextChunk
<1>8. CASE searchChunk
  <2>1. PICK found \in Seq(0 .. MaxLines - 1) :
          /\ searchData_' \in
               [matches : Seq(0 .. MaxLines - 1), nbLinesProcessed : 0..MaxLines]
          /\ search' = [search EXCEPT !.nbMatches = Len(searchData_'.matches),
                                      !.i = search.i + nbLinesInChunk]
    BY <1>8, Chunk
  <2>2. workerPc = "read" /\ workerPc' = "loop"
        /\ UNCHANGED <<operationRequested_, interruptRequested_, searched>>
    BY <1>8 DEF searchChunk
  <2>3. /\ search.i \in Nat /\ search.i + nbLinesInChunk \in Nat
        /\ search.initialLine \in Nat
        /\ search.initialLine <= search.i + nbLinesInChunk
        /\ Len(searchData_'.matches) \in Nat
    BY <2>1, <2>2, ConstantsAssumption
  <2>4. /\ search' \in [initialLine : Nat, nbSourceLines : 0..MaxLines, nbMatches : Nat, i : Nat]
        /\ search.initialLine' = search.initialLine
        /\ search.i' = search.i + nbLinesInChunk
        /\ search.nbMatches' = Len(searchData_.matches)'
    BY <2>1, <2>3
  <2> QED
    BY <2>1, <2>2, <2>3, <2>4
<1>9. CASE endSearch
  <2>1. NoOperation \in [kind : {"none", "Full", "Update"},
                         regexp : Regexps \cup {Empty}, position : Nat]
    BY DEF NoOperation
  <2>2. NoSearch \in [initialLine : Nat, nbSourceLines : 0..MaxLines, nbMatches : Nat,
                      i : Nat]
    BY <1>0 DEF NoSearch
  <2> QED
    BY <1>9, <2>1, <2>2 DEF endSearch
<1>10. CASE UNCHANGED vars
  BY <1>1, <1>10 DEF vars
<1> QED
  BY <1>2, <1>3, <1>5, <1>6, <1>7, <1>8, <1>9, <1>10 DEF Next, Worker

(* What happened since is of these kinds. *)
LEMMA PastStep == TypeInv /\ [Next]_vars => history' \subseteq Past
<1> SUFFICES ASSUME TypeInv, [Next]_vars PROVE history' \subseteq Past
  OBVIOUS
<1> USE DEF TypeInv, Past
<1>1. CASE UNCHANGED history
  BY <1>1
<1>2. CASE Log
  BY <1>1, <1>2 DEF Log, startFullIndexing, addAll, finishIndexing, fileGrew, fileTruncated
<1>3. CASE User
  BY <1>1, <1>3 DEF User, startNewSearch, stopSearch, stopLoading, reload,
     searchRefreshChangedHandler, searchTextChangeHandler
<1>4. CASE Gui
  BY <1>1, <1>4 DEF Gui, interruptReturns, processEventsReturns, searchRequested,
     updateRequested, handleSearchProgressed, loadingFinishedHandler,
     indexingFinishedReturns
<1>5. CASE Worker
  BY <1>1, <1>5 DEF Worker, startFullSearch, startUpdateSearch, nextChunk, searchChunk,
     endSearch
<1>6. CASE UNCHANGED vars
  BY <1>1, <1>6 DEF vars
<1> QED
  BY <1>2, <1>3, <1>4, <1>5, <1>6 DEF Next

(* Every step keeps the types and the counters of the search under way. *)
LEMMA TypeStep == TypeInv /\ [Next]_vars => TypeInv'
<1> SUFFICES ASSUME TypeInv, [Next]_vars PROVE TypeInv'
  OBVIOUS
<1>1. GuiType'
  BY StackQueueType, TextStateType, BlocksInnermost, RunHasText DEF GuiType
<1> QED
  BY <1>1, LogTypeStep, WidgetTypeStep, WorkTypeStep, PastStep DEF TypeInv

(* In every behaviour of a search, of any size, the variables have their   *)
(* types: the bounds of the log hold, and no line searched is past them.   *)
THEOREM TypeCorrect == Spec => []TypeOK
<1>1. Init => TypeInv
  BY TypeInit
<1>2. TypeInv /\ [Next]_vars => TypeInv'
  BY TypeStep
<1>3. TypeInv => TypeOK
  BY TypesAreTypes
<1> QED
  BY <1>1, <1>2, <1>3, PTL DEF Spec

-----------------------------------------------------------------------------
(* The interruption.                                                       *)

(* Every step keeps it: the flag goes up as a handler blocks, which goes on
   only once the worker has nothing to do, and down with the next request. *)
LEMMA WaitedForStep ==
  TypeInv /\ InterruptionIsWaitedFor /\ [Next]_vars => InterruptionIsWaitedFor'
<1> SUFFICES ASSUME TypeInv, InterruptionIsWaitedFor, [Next]_vars
             PROVE  InterruptionIsWaitedFor'
  OBVIOUS
<1> DEFINE raised == operationRequested_ # NoOperation /\ interruptRequested_
<1> USE DEF InterruptionIsWaitedFor
<1>0. stack \in Seq(Frame)
  BY DEF TypeInv, GuiType
<1>1. CASE UNCHANGED <<stack, operationRequested_, interruptRequested_>>
  BY <1>1 DEF At
<1>2. CASE operationRequested_' = NoOperation \/ ~interruptRequested_'
  BY <1>2
<1>3. CASE ~raised /\ UNCHANGED <<operationRequested_, interruptRequested_>>
  BY <1>3
<1>4. CASE Log
  BY <1>1, <1>4 DEF Log, startFullIndexing, addAll, finishIndexing, fileGrew,
     fileTruncated, guiVars
<1>5. CASE User
  <2>1. CASE startNewSearch \/ stopSearch \/ stopLoading
    BY <1>0, <2>1, Handlers DEF Nests
  <2> QED
    BY <1>1, <1>5, <2>1 DEF User, reload, searchRefreshChangedHandler,
       searchTextChangeHandler
<1>6. CASE interruptReturns \/ searchRequested \/ updateRequested
  BY <1>2, <1>6 DEF interruptReturns, searchRequested, updateRequested, NothingToDo,
     request
<1>7. CASE processEventsReturns \/ indexingFinishedReturns
  BY <1>3, <1>7 DEF processEventsReturns, indexingFinishedReturns, At
<1>8. CASE handleSearchProgressed
  BY <1>1, <1>8 DEF handleSearchProgressed
<1>9. CASE loadingFinishedHandler
  <2>1. ~raised
    BY <1>9 DEF loadingFinishedHandler, Take, Dispatching, At
  <2>2. CASE interruptRequested_' = interruptRequested_
    BY <1>3, <1>9, <2>1, <2>2 DEF loadingFinishedHandler
  <2>3. CASE interruptRequested_' # interruptRequested_
    <3>1. isAutorefreshAllowed /\ isFileTruncated
      BY <1>9, <2>3 DEF loadingFinishedHandler
    <3>2. NestsIn("replace")
      BY <1>0, <1>9, <3>1, Handlers
    <3> QED
      BY <3>2 DEF NestsIn
  <2> QED
    BY <2>2, <2>3
<1>10. CASE Gui
  BY <1>6, <1>7, <1>8, <1>9, <1>10 DEF Gui
<1>11. CASE Worker
  BY <1>1, <1>2, <1>11 DEF Worker, startFullSearch, startUpdateSearch, beginSearch,
     nextChunk, searchChunk, endSearch, guiVars
<1>12. CASE UNCHANGED vars
  BY <1>1, <1>12 DEF vars, guiVars
<1> QED
  BY <1>4, <1>5, <1>10, <1>11, <1>12 DEF Next

(* However the user, the log and the worker take turns, the flag that      *)
(* interrupts a search is only up while a handler waits for its end: no    *)
(* search is ever stopped by the flag raised for the one before.           *)
THEOREM WaitedForCorrect == Spec => []InterruptionIsWaitedFor
<1>1. Init => TypeInv /\ InterruptionIsWaitedFor
  BY TypeInit DEF Init, InterruptionIsWaitedFor
<1>2. TypeInv /\ InterruptionIsWaitedFor /\ [Next]_vars => (TypeInv /\ InterruptionIsWaitedFor)'
  BY TypeStep, WaitedForStep
<1> QED
  BY <1>1, <1>2, PTL DEF Spec

-----------------------------------------------------------------------------
(* The end of a loading.                                                   *)

(* The handler of a loading only begins in loadingFinishedHandler().       *)
LEMMA NoNewLoaded ==
  ASSUME TypeInv, [Next]_vars, ~loadingFinishedHandler
  PROVE  /\ \A k \in DOMAIN stack' : Loaded(k)' =>
              k \in DOMAIN stack /\ Loaded(k) /\ (Returns => k # Len(stack))
         /\ \/ UNCHANGED stack /\ ~Returns
            \/ \E f \in {"stop", "stopLoading", "replace"} : Nests(f) /\ stack = <<>>
            \/ \E f \in {"events", "run"} : GoesOn(f)
            \/ Returns
<1>0. /\ stack \in Seq(Frame) /\ Len(stack) \in Nat /\ DOMAIN stack = 1 .. Len(stack)
      /\ stack' \in Seq(Frame) /\ Len(stack') \in Nat /\ DOMAIN stack' = 1 .. Len(stack')
  BY StackQueueType DEF TypeInv, GuiType
<1>1. \/ UNCHANGED stack /\ ~Returns
      \/ \E f \in {"stop", "stopLoading", "replace"} : Nests(f) /\ stack = <<>>
      \/ \E f \in {"events", "run"} : GoesOn(f)
      \/ Returns
  <2>0. UNCHANGED stack => ~Returns
    BY <1>0, OnlyReturns
  <2>1. CASE Log
    BY <2>0, <2>1 DEF Log, startFullIndexing, addAll, finishIndexing, fileGrew, fileTruncated,
       guiVars
  <2>2. CASE User
    BY <1>0, <2>0, <2>2, Handlers DEF User, reload, searchRefreshChangedHandler,
       searchTextChangeHandler, startNewSearch, stopSearch, stopLoading, UserAction
  <2>3. CASE Gui
    BY <1>0, <2>0, <2>3, Handlers DEF Gui, handleSearchProgressed
  <2>4. CASE Worker
    BY <2>0, <2>4 DEF Worker, startFullSearch, startUpdateSearch, beginSearch, nextChunk,
       searchChunk, endSearch, guiVars
  <2>5. CASE UNCHANGED vars
    BY <2>0, <2>5 DEF vars, guiVars
  <2> QED
    BY <2>1, <2>2, <2>3, <2>4, <2>5 DEF Next
<1>2. ASSUME NEW k \in DOMAIN stack', Loaded(k)'
      PROVE  k \in DOMAIN stack /\ Loaded(k) /\ (Returns => k # Len(stack))
  <2>1. CASE UNCHANGED stack /\ ~Returns
    BY <1>2, <2>1 DEF Loaded
  <2>2. ASSUME NEW f \in {"stop", "stopLoading", "replace"}, Nests(f)
        PROVE  k \in DOMAIN stack /\ Loaded(k) /\ ~Returns
    <3>1. Len(stack') = Len(stack) + 1 /\ stack'[Len(stack) + 1] # "loaded"
      BY <2>2 DEF Nests
    <3>2. k \in 1 .. Len(stack) /\ stack'[k] = stack[k]
      BY <1>0, <1>2, <2>2, <3>1 DEF Nests, Loaded
    <3> QED
      BY <1>0, <1>2, <2>2, <3>2, OnlyReturns DEF Loaded
  <2>3. ASSUME NEW f \in {"events", "run"}, GoesOn(f)
        PROVE  k \in DOMAIN stack /\ Loaded(k) /\ ~Returns
    <3>1. Len(stack') = Len(stack) /\ stack'[Len(stack)] # "loaded"
      BY <2>3 DEF GoesOn
    <3>2. k \in 1 .. Len(stack) - 1 /\ stack'[k] = stack[k]
      BY <1>0, <1>2, <2>3, <3>1 DEF GoesOn, Loaded
    <3> QED
      BY <1>0, <1>2, <2>3, <3>2, OnlyReturns DEF Loaded
  <2>4. CASE Returns
    <3>1. k \in 1 .. Len(stack) - 1 /\ stack'[k] = stack[k]
      BY <1>0, <1>2, <2>4 DEF Returns
    <3> QED
      BY <1>0, <1>2, <3>1 DEF Loaded
  <2> QED
    BY <1>1, <2>1, <2>2, <2>3, <2>4
<1> QED
  BY <1>1, <1>2

(* The signal of a loading is only posted by finishIndexing(). *)
LEMMA NoNewFinish ==
  ASSUME TypeInv, [Next]_vars, ~finishIndexing
  PROVE  \E d \in {0, 1} : \A k \in DOMAIN guiQueue' : Finishes(k)' =>
           k + d \in DOMAIN guiQueue /\ Finishes(k + d)
<1>0. /\ guiQueue \in Seq(Event) /\ guiQueue' \in Seq(Event)
      /\ Len(guiQueue) \in Nat /\ DOMAIN guiQueue = 1 .. Len(guiQueue)
      /\ Len(guiQueue') \in Nat /\ DOMAIN guiQueue' = 1 .. Len(guiQueue')
  BY StackQueueType DEF TypeInv, GuiType
<1>1. CASE UNCHANGED guiQueue
  BY <1>0, <1>1 DEF Finishes
<1>2. CASE \E p \in Int : Posts(ProgressEvent(p))
  <2>1. PICK p \in Int : Posts(ProgressEvent(p))
    BY <1>2
  <2>2. ASSUME NEW k \in DOMAIN guiQueue', Finishes(k)'
        PROVE  k + 0 \in DOMAIN guiQueue /\ Finishes(k + 0)
    <3>1. guiQueue'[k].is = "loadingFinished"
      BY <2>2 DEF Finishes
    <3>2. guiQueue'[Len(guiQueue) + 1].is = "searchProgressed"
      BY <2>1 DEF Posts, ProgressEvent
    <3>3. k \in 1 .. Len(guiQueue) /\ guiQueue'[k] = guiQueue[k]
      BY <1>0, <2>1, <3>1, <3>2 DEF Posts
    <3> QED
      BY <1>0, <3>1, <3>3 DEF Finishes
  <2> QED
    BY <2>2
<1>3. ASSUME NEW is, Takes(is)
      PROVE  \A k \in DOMAIN guiQueue' : Finishes(k)' =>
               k + 1 \in DOMAIN guiQueue /\ Finishes(k + 1)
  BY <1>0, <1>3 DEF Takes, Finishes
<1>4. CASE Log
  BY <1>1, <1>4 DEF Log, startFullIndexing, addAll, fileGrew, fileTruncated, guiVars
<1>5. CASE User
  BY <1>1, <1>5 DEF User, startNewSearch, stopSearch, stopLoading, reload,
     searchRefreshChangedHandler, searchTextChangeHandler
<1>6. CASE handleSearchProgressed \/ loadingFinishedHandler
  BY <1>3, <1>6, Events DEF handleSearchProgressed, loadingFinishedHandler
<1>7. CASE Gui
  BY <1>1, <1>6, <1>7 DEF Gui, interruptReturns, processEventsReturns, searchRequested,
     updateRequested, indexingFinishedReturns
<1>8. CASE nextChunk \/ endSearch
  BY <1>2, <1>8, Events
<1>9. CASE Worker
  BY <1>1, <1>8, <1>9 DEF Worker, startFullSearch, startUpdateSearch, beginSearch,
     searchChunk, guiVars
<1>10. CASE UNCHANGED vars
  BY <1>1, <1>10 DEF vars, guiVars
<1> QED
  BY <1>4, <1>5, <1>7, <1>9, <1>10 DEF Next

(* Nothing else changes a loading that is finished and not handled. *)
LEMMA FinishedStays ==
  ASSUME TypeInv, [Next]_vars, ~indexingFinishedReturns, currentOperation_ = "finished"
  PROVE  currentOperation_' = "finished" /\ UNCHANGED sourceVars
<1>1. CASE UNCHANGED <<currentOperation_, sourceVars>>
  BY <1>1
<1>2. CASE Log
  BY <1>2 DEF Log, startFullIndexing, addAll, finishIndexing, fileGrew, fileTruncated,
     enqueueOperation, None
<1>3. CASE User
  BY <1>1, <1>3 DEF User, startNewSearch, stopSearch, stopLoading, reload, enqueueOperation,
     searchRefreshChangedHandler, searchTextChangeHandler, loadVars, None
<1>4. CASE Gui
  BY <1>1, <1>4 DEF Gui, interruptReturns, processEventsReturns, searchRequested,
     updateRequested, handleSearchProgressed, loadingFinishedHandler, loadVars
<1>5. CASE Worker
  BY <1>1, <1>5 DEF Worker, startFullSearch, startUpdateSearch, beginSearch, nextChunk,
     searchChunk, endSearch, loadVars
<1>6. CASE UNCHANGED vars
  BY <1>1, <1>6 DEF vars, loadVars
<1> QED
  BY <1>2, <1>3, <1>4, <1>5, <1>6 DEF Next

(* A loading is in one place: under way, its signal sent, or handled. *)
LEMMA LoadedOnce ==
  TypeInv /\ FinishInv /\ LoadedInv /\ [Next]_vars => (FinishInv /\ LoadedInv)'
<1> SUFFICES ASSUME TypeInv, FinishInv, LoadedInv, [Next]_vars
             PROVE  FinishInv' /\ LoadedInv'
  OBVIOUS
<1>0. /\ guiQueue \in Seq(Event) /\ Len(guiQueue) \in Nat /\ DOMAIN guiQueue = 1 .. Len(guiQueue)
      /\ guiQueue' \in Seq(Event) /\ DOMAIN guiQueue' = 1 .. Len(guiQueue')
      /\ stack \in Seq(Frame) /\ Len(stack) \in Nat /\ DOMAIN stack = 1 .. Len(stack)
      /\ stack' \in Seq(Frame) /\ Len(stack') \in Nat /\ DOMAIN stack' = 1 .. Len(stack')
  BY StackQueueType DEF TypeInv, GuiType
<1>1. CASE finishIndexing
  <2>1. /\ currentOperation_ \in {"partial", "running"} /\ currentOperation_' = "finished"
        /\ UNCHANGED stack
    BY <1>1 DEF finishIndexing
  <2>2. /\ \A k \in DOMAIN guiQueue : ~Finishes(k)
        /\ \A k \in DOMAIN stack : ~Loaded(k)
    BY <2>1 DEF FinishInv, LoadedInv
  <2>3. /\ Len(guiQueue') = Len(guiQueue) + 1
        /\ \A k \in 1 .. Len(guiQueue) : guiQueue'[k] = guiQueue[k]
    BY <1>1, Events DEF Posts
  <2>4. \A k \in DOMAIN guiQueue' : Finishes(k)' => k = Len(guiQueue) + 1
    BY <1>0, <2>2, <2>3 DEF Finishes
  <2>5. \A k \in DOMAIN stack' : ~Loaded(k)'
    BY <2>1, <2>2 DEF Loaded
  <2> QED
    BY <2>1, <2>4, <2>5 DEF FinishInv, LoadedInv
<1>2. CASE loadingFinishedHandler
  <2>1. Takes("loadingFinished") /\ UNCHANGED currentOperation_
    BY <1>2, Events DEF loadingFinishedHandler, loadVars
  <2>2. 1 \in DOMAIN guiQueue /\ Finishes(1)
    BY <1>0, <2>1 DEF Takes, Finishes
  <2>3. /\ currentOperation_ = "finished"
        /\ \A j \in DOMAIN guiQueue : Finishes(j) => j = 1
        /\ \A j \in DOMAIN stack : ~Loaded(j)
    BY <2>2 DEF FinishInv
  <2>4. ASSUME NEW k \in DOMAIN guiQueue' PROVE ~Finishes(k)'
    <3>1. k + 1 \in DOMAIN guiQueue /\ guiQueue'[k] = guiQueue[k + 1] /\ k + 1 # 1
      BY <1>0, <2>1 DEF Takes
    <3>2. ~Finishes(k + 1)
      BY <2>3, <3>1
    <3> QED
      BY <3>1, <3>2 DEF Finishes
  <2>5. ASSUME NEW k \in DOMAIN stack', Loaded(k)' PROVE k = Len(stack) + 1
    <3>1. ASSUME Nests("loaded") PROVE k = Len(stack) + 1
      <4>1. k \in 1 .. Len(stack) => stack'[k] # "loaded"
        BY <1>0, <2>3, <3>1 DEF Nests, Loaded
      <4> QED
        BY <1>0, <2>5, <3>1, <4>1 DEF Nests, Loaded
    <3>2. ASSUME NEW f \in {"replace", "update"}, NestsIn(f) PROVE k = Len(stack) + 1
      <4>1. k \in 1 .. Len(stack) => stack'[k] # "loaded"
        BY <1>0, <2>3, <3>2 DEF NestsIn, Loaded
      <4> QED
        BY <1>0, <2>5, <3>2, <4>1 DEF NestsIn, Loaded
    <3> QED
      BY <1>0, <1>2, <3>1, <3>2, Handlers
  <2> QED
    BY <2>1, <2>3, <2>4, <2>5 DEF FinishInv, LoadedInv
<1>3. CASE indexingFinishedReturns
  <2>1. Returns /\ UNCHANGED guiQueue /\ Len(stack) \in DOMAIN stack /\ Loaded(Len(stack))
    <3>1. Returns /\ UNCHANGED guiQueue /\ At("loaded")
      BY <1>0, <1>3, Handlers DEF indexingFinishedReturns
    <3>2. Len(stack) \in DOMAIN stack
      BY <1>0, <3>1 DEF Returns
    <3> QED
      BY <3>1, <3>2 DEF At, Last, Loaded
  <2>2. /\ \A k \in DOMAIN guiQueue : ~Finishes(k)
        /\ \A k \in DOMAIN stack : Loaded(k) => k = Len(stack)
    BY <2>1 DEF FinishInv, LoadedInv
  <2>3. \A k \in DOMAIN guiQueue' : ~Finishes(k)'
    BY <2>1, <2>2 DEF Finishes
  <2>4. ~loadingFinishedHandler
    BY <1>3 DEF indexingFinishedReturns, loadingFinishedHandler, Take, Dispatching, At
  <2>5. \A k \in DOMAIN stack' : ~Loaded(k)'
    BY <2>1, <2>2, <2>4, NoNewLoaded
  <2> QED
    BY <2>3, <2>5 DEF FinishInv, LoadedInv
<1>4. CASE ~finishIndexing /\ ~loadingFinishedHandler /\ ~indexingFinishedReturns
  <2>1. \A k \in DOMAIN stack' : Loaded(k)' => k \in DOMAIN stack /\ Loaded(k)
    BY <1>4, NoNewLoaded
  <2>2. PICK d \in {0, 1} : \A k \in DOMAIN guiQueue' : Finishes(k)' =>
          k + d \in DOMAIN guiQueue /\ Finishes(k + d)
    BY <1>4, NoNewFinish
  <2>3. currentOperation_ = "finished" => currentOperation_' = "finished"
    BY <1>4, FinishedStays
  <2>4. LoadedInv'
    BY <2>1, <2>3 DEF LoadedInv
  <2>5. ASSUME NEW k \in DOMAIN guiQueue', Finishes(k)'
        PROVE  /\ currentOperation_' = "finished"
               /\ \A j \in DOMAIN guiQueue' : Finishes(j)' => j = k
               /\ \A j \in DOMAIN stack' : ~Loaded(j)'
    <3>1. k + d \in DOMAIN guiQueue /\ Finishes(k + d)
      BY <2>2, <2>5
    <3>2. /\ currentOperation_ = "finished"
          /\ \A j \in DOMAIN guiQueue : Finishes(j) => j = k + d
          /\ \A j \in DOMAIN stack : ~Loaded(j)
      BY <3>1 DEF FinishInv
    <3>3. ASSUME NEW j \in DOMAIN guiQueue', Finishes(j)' PROVE j = k
      <4>1. j + d = k + d
        BY <2>2, <3>2, <3>3
      <4> QED
        BY <1>0, <2>2, <4>1
    <3> QED
      BY <2>1, <2>3, <3>2, <3>3
  <2> QED
    BY <2>4, <2>5 DEF FinishInv
<1> QED
  BY <1>1, <1>2, <1>3, <1>4

-----------------------------------------------------------------------------
(* The state of the search while its handlers are under way.               *)

(* The state of the search only changes where events are handled, and in   *)
(* the handlers that go on.                                                *)
LEMMA StateChanges ==
  ASSUME TypeInv, [Next]_vars, state_' # state_
  PROVE  \/ Dispatching /\ UNCHANGED stack
         \/ interruptReturns /\ At("stop")
         \/ processEventsReturns /\ state_' = "NoSearch"
         \/ searchRequested
<1>1. CASE Log
  BY <1>1 DEF Log, startFullIndexing, addAll, finishIndexing, fileGrew, fileTruncated,
     guiVars, stateVars
<1>2. CASE User
  BY <1>2 DEF User, startNewSearch, stopSearch, stopLoading, reload, UserAction,
     searchRefreshChangedHandler, searchTextChangeHandler, Dispatching, stateVars
<1>3. CASE Gui
  BY <1>3 DEF Gui, interruptReturns, processEventsReturns, searchRequested, updateRequested,
     handleSearchProgressed, loadingFinishedHandler, indexingFinishedReturns, stateVars
<1>4. CASE Worker
  BY <1>4 DEF Worker, startFullSearch, startUpdateSearch, beginSearch, nextChunk,
     searchChunk, endSearch, guiVars, stateVars
<1>5. CASE UNCHANGED vars
  BY <1>5 DEF vars, guiVars, stateVars
<1> QED
  BY <1>1, <1>2, <1>3, <1>4, <1>5 DEF Next

(* A search waits for the log to be read again only once this is asked.    *)
LEMMA TruncatedIsLoading ==
  ASSUME TypeInv, [Next]_vars, state_' = "TruncatedAutorefreshing"
  PROVE  \/ state_ = "TruncatedAutorefreshing"
         \/ Dispatching /\ UNCHANGED stack /\ currentOperation_' # None
<1>1. CASE UNCHANGED state_
  BY <1>1
<1>2. CASE Log
  BY <1>1, <1>2 DEF Log, startFullIndexing, addAll, finishIndexing, fileGrew, fileTruncated,
     enqueueOperation, None, guiVars, stateVars
<1>3. CASE User
  BY <1>1, <1>3 DEF User, startNewSearch, stopSearch, stopLoading, reload, setAutorefresh,
     searchRefreshChangedHandler, searchTextChangeHandler, suspendAutorefresh, stateVars
<1>4. CASE Gui
  BY <1>1, <1>4 DEF Gui, interruptReturns, processEventsReturns, searchRequested,
     updateRequested, handleSearchProgressed, loadingFinishedHandler,
     indexingFinishedReturns, suspendAutorefresh, startSearch, stateVars
<1>5. CASE Worker
  BY <1>1, <1>5 DEF Worker, startFullSearch, startUpdateSearch, beginSearch, nextChunk,
     searchChunk, endSearch, guiVars, stateVars
<1>6. CASE UNCHANGED vars
  BY <1>6 DEF vars, guiVars, stateVars
<1> QED
  BY <1>2, <1>3, <1>4, <1>5, <1>6 DEF Next

(* Who returns. *)
LEMMA WhoReturns ==
  ASSUME TypeInv, [Next]_vars, Returns
  PROVE  \/ interruptReturns /\ (At("stop") \/ At("stopLoading"))
         \/ processEventsReturns /\ state_' = "NoSearch"
         \/ searchRequested
         \/ updateRequested
         \/ indexingFinishedReturns
<1>0. stack \in Seq(Frame)
  BY DEF TypeInv, GuiType
<1>1. ~UNCHANGED stack /\ \A f : ~Nests(f) /\ ~GoesOn(f)
  BY <1>0, OnlyReturns
<1>2. \A f : ~NestsIn(f)
  <2>1. Len(stack) \in Nat /\ Len(stack') = Len(stack) - 1
    BY DEF Returns
  <2>2. Len(stack') # Len(stack) + 2
    BY <2>1
  <2> QED
    BY <2>2 DEF NestsIn
<1>3. CASE Log
  BY <1>1, <1>3 DEF Log, startFullIndexing, addAll, finishIndexing, fileGrew, fileTruncated,
     guiVars
<1>4. CASE User
  BY <1>0, <1>1, <1>4, Handlers DEF User, reload, searchRefreshChangedHandler,
     searchTextChangeHandler
<1>5. CASE Gui
  BY <1>0, <1>1, <1>2, <1>5, Handlers DEF Gui, handleSearchProgressed
<1>6. CASE Worker
  BY <1>1, <1>6 DEF Worker, startFullSearch, startUpdateSearch, beginSearch, nextChunk,
     searchChunk, endSearch, guiVars
<1>7. CASE UNCHANGED vars
  BY <1>1, <1>7 DEF vars, guiVars
<1> QED
  BY <1>3, <1>4, <1>5, <1>6, <1>7 DEF Next

(* Nothing else ends a loading. *)
LEMMA LoadingStays ==
  ASSUME TypeInv, [Next]_vars, ~indexingFinishedReturns, currentOperation_ # None
  PROVE  currentOperation_' # None
<1>1. CASE UNCHANGED currentOperation_
  BY <1>1
<1>2. CASE Log
  BY <1>2 DEF Log, startFullIndexing, addAll, finishIndexing, fileGrew, fileTruncated,
     enqueueOperation, None
<1>3. CASE User
  BY <1>1, <1>3 DEF User, startNewSearch, stopSearch, stopLoading, reload, enqueueOperation,
     searchRefreshChangedHandler, searchTextChangeHandler, loadVars, None
<1>4. CASE Gui
  BY <1>1, <1>4 DEF Gui, interruptReturns, processEventsReturns, searchRequested,
     updateRequested, handleSearchProgressed, loadingFinishedHandler, loadVars
<1>5. CASE Worker
  BY <1>1, <1>5 DEF Worker, startFullSearch, startUpdateSearch, beginSearch, nextChunk,
     searchChunk, endSearch, loadVars
<1>6. CASE UNCHANGED vars
  BY <1>1, <1>6 DEF vars, loadVars
<1> QED
  BY <1>2, <1>3, <1>4, <1>5, <1>6 DEF Next

(* Every step keeps what the handlers under way tell of the state. *)
LEMMA StateStep ==
  TypeInv /\ FinishInv /\ LoadedInv /\ StateInv /\ [Next]_vars => StateInv'
<1> SUFFICES ASSUME TypeInv, FinishInv, LoadedInv, StateInv, [Next]_vars PROVE StateInv'
  OBVIOUS
<1>0. /\ stack \in Seq(Frame) /\ Len(stack) \in Nat /\ DOMAIN stack = 1 .. Len(stack)
      /\ stack' \in Seq(Frame) /\ Len(stack') \in Nat /\ DOMAIN stack' = 1 .. Len(stack')
      /\ \A k \in 1 .. Len(stack') : k # Len(stack') => stack'[k] \in {"events", "loaded"}
  BY StackQueueType, BlocksInnermost DEF TypeInv, GuiType
<1>1. \A f \in {"stop", "stopLoading"}, k \in DOMAIN stack' :
        stack'[k] = f => k = Len(stack') /\ At(f)'
  <2> SUFFICES ASSUME NEW f \in {"stop", "stopLoading"}, NEW k \in DOMAIN stack',
                      stack'[k] = f
               PROVE  k = Len(stack') /\ At(f)'
    OBVIOUS
  <2>1. k = Len(stack')
    BY <1>0
  <2>2. stack' # <<>> /\ Last(stack') = stack'[Len(stack')]
    BY <1>0, HasLast
  <2> QED
    BY <2>1, <2>2 DEF At
<1>2. CASE loadingFinishedHandler
  <2>0. UNCHANGED <<state_, currentOperation_>>
    BY <1>2 DEF loadingFinishedHandler, stateVars, loadVars
  <2>1. CASE ~isAutorefreshAllowed /\ Nests("loaded")
    BY <1>1, <2>0, <2>1 DEF Nests, isAutorefreshAllowed, StateInv
  <2>2. CASE NestsIn("replace")
    BY <1>1, <2>0, <2>2 DEF NestsIn, StateInv
  <2>3. CASE isAutorefreshAllowed /\ ~isFileTruncated /\ NestsIn("update")
    BY <1>1, <2>0, <2>3 DEF NestsIn, isAutorefreshAllowed, isFileTruncated, StateInv
  <2> QED
    BY <1>0, <1>2, <2>1, <2>2, <2>3, Handlers
<1>3. ASSUME ~loadingFinishedHandler, NEW k \in DOMAIN stack',
             stack'[k] \in {"stop", "stopLoading"}
      PROVE  Len(stack') = 1
  <2>1. PICK g \in {"stop", "stopLoading"} : k = Len(stack') /\ At(g)'
    BY <1>1, <1>3
  <2>2. CASE UNCHANGED stack
    BY <1>3, <2>2 DEF StateInv
  <2>3. ASSUME NEW f \in {"stop", "stopLoading", "replace"}, Nests(f) /\ stack = <<>>
        PROVE  Len(stack') = 1
    BY <2>3 DEF Nests
  <2>4. ASSUME NEW f \in {"events", "run"} PROVE ~GoesOn(f)
    BY <2>1 DEF GoesOn
  <2>5. ~Returns
    BY <2>1, ReturnsInto
  <2> QED
    BY <1>3, <2>2, <2>3, <2>4, <2>5, NoNewLoaded
<1>4. ASSUME ~loadingFinishedHandler, At("update")'
      PROVE  state_' = "Autorefreshing"
  <2>1. ~Returns /\ \A f \in {"stop", "stopLoading", "replace", "events", "run"} :
                      ~Nests(f) /\ ~GoesOn(f)
    BY <1>4, ReturnsInto DEF Nests, GoesOn
  <2>2. UNCHANGED stack
    BY <1>4, <2>1, NoNewLoaded
  <2>3. At("update")
    BY <1>4, <2>2 DEF At
  <2>4. ~Dispatching /\ ~interruptReturns /\ ~processEventsReturns /\ ~searchRequested
    BY <2>3 DEF Dispatching, At, interruptReturns, processEventsReturns, searchRequested
  <2> QED
    BY <2>3, <2>4, StateChanges DEF StateInv
<1>5. ASSUME ~loadingFinishedHandler, At("loaded")'
      PROVE  state_' # "TruncatedAutorefreshing"
  <2>0. PICK k \in DOMAIN stack' : k = Len(stack') /\ stack'[k] = "loaded"
    <3>1. stack' # <<>> /\ Last(stack') = "loaded"
      BY <1>5 DEF At
    <3> QED
      BY <1>0, <3>1, HasLast
  <2>1. Len(stack') \in DOMAIN stack /\ Loaded(Len(stack'))
    <3>1. k \in DOMAIN stack /\ Loaded(k)
      BY <1>5, <2>0, NoNewLoaded DEF Loaded
    <3> QED
      BY <2>0, <3>1
  <2>2. CASE UNCHANGED stack
    <3>1. At("loaded")
      BY <1>5, <2>2 DEF At
    <3>2. ~Dispatching
      BY <3>1 DEF Dispatching, At
    <3> QED
      BY <3>1, <3>2, TruncatedIsLoading DEF StateInv
  <2>3. CASE Returns
    <3>1. Len(stack') = Len(stack) - 1 /\ Len(stack) > 1 /\ Len(stack) \in Nat
      BY <1>5, <2>3 DEF Returns
    <3>2. ASSUME NEW f, At(f)
          PROVE  stack[Len(stack)] = f /\ Len(stack) \in DOMAIN stack
      <4>1. stack # <<>> /\ Last(stack) = f
        BY <3>2 DEF At
      <4> QED
        BY <1>0, <4>1, HasLast
    <3>9. Len(stack') # Len(stack)
      BY <3>1
    <3>3. ~At("loaded")
      <4>1. SUFFICES ASSUME At("loaded") PROVE FALSE
        OBVIOUS
      <4>2. Loaded(Len(stack)) /\ Len(stack) \in DOMAIN stack
        BY <3>2, <4>1 DEF Loaded
      <4>3. Len(stack') = Len(stack)
        BY <2>1, <4>2 DEF LoadedInv
      <4> QED
        BY <3>9, <4>3
    <3>4. ~At("stop") /\ ~At("stopLoading")
      <4>1. SUFFICES ASSUME NEW f \in {"stop", "stopLoading"}, At(f) PROVE FALSE
        OBVIOUS
      <4>2. Len(stack) = 1
        BY <3>2, <4>1 DEF StateInv
      <4> QED
        BY <3>1, <4>2
    <3>5. CASE processEventsReturns /\ state_' = "NoSearch"
      BY <3>5
    <3>6. CASE searchRequested
      BY <3>6 DEF searchRequested, startSearch
    <3>7. CASE updateRequested
      BY <3>7 DEF updateRequested, stateVars, StateInv
    <3> QED
      BY <2>3, <3>3, <3>4, <3>5, <3>6, <3>7, WhoReturns DEF indexingFinishedReturns
  <2>4. \A f \in {"stop", "stopLoading", "replace", "events", "run"} :
          ~Nests(f) /\ ~GoesOn(f)
    BY <1>5 DEF Nests, GoesOn
  <2> QED
    BY <1>5, <2>2, <2>3, <2>4, NoNewLoaded
<1>6. ASSUME state_' = "TruncatedAutorefreshing" PROVE currentOperation_' # None
  <2>1. CASE state_ = "TruncatedAutorefreshing"
    <3>1. currentOperation_ # None /\ ~At("loaded")
      BY <2>1 DEF StateInv
    <3>2. ~indexingFinishedReturns
      BY <3>1 DEF indexingFinishedReturns
    <3> QED
      BY <3>1, <3>2, LoadingStays
  <2> QED
    BY <1>6, <2>1, TruncatedIsLoading
<1> QED
  BY <1>2, <1>3, <1>4, <1>5, <1>6 DEF StateInv

(* Every step keeps a loading in one place. *)
LEMMA LoadingStep == TypeInv /\ LoadingInv /\ [Next]_vars => LoadingInv'
BY LoadedOnce, StateStep DEF LoadingInv

-----------------------------------------------------------------------------
(* The search of a log that is to be read again.                           *)

(* A search that is active in the next state is active already, unless it  *)
(* is requested then.                                                      *)
LEMMA StaysActive ==
  ASSUME TypeInv, [Next]_vars, SearchIsActive', ~searchRequested
  PROVE  SearchIsActive
<1> USE DEF SearchIsActive
<1>1. CASE UNCHANGED state_
  BY <1>1
<1>2. CASE Log
  BY <1>1, <1>2 DEF Log, startFullIndexing, addAll, finishIndexing, fileGrew, fileTruncated,
     truncateFile, guiVars, stateVars
<1>3. CASE User
  BY <1>1, <1>3 DEF User, startNewSearch, stopSearch, stopLoading, reload, setAutorefresh,
     searchRefreshChangedHandler, searchTextChangeHandler, suspendAutorefresh, stateVars
<1>4. CASE Gui
  BY <1>1, <1>4 DEF Gui, interruptReturns, processEventsReturns, updateRequested,
     handleSearchProgressed, loadingFinishedHandler, indexingFinishedReturns,
     suspendAutorefresh, stateVars
<1>5. CASE Worker
  BY <1>1, <1>5 DEF Worker, startFullSearch, startUpdateSearch, beginSearch, nextChunk,
     searchChunk, endSearch, guiVars, stateVars
<1>6. CASE UNCHANGED vars
  BY <1>6 DEF vars, guiVars, stateVars
<1> QED
  BY <1>2, <1>3, <1>4, <1>5, <1>6 DEF Next

(* Every step keeps an active search away from a log that is to be read
   again, unless that came unseen. *)
LEMMA RestartStep == TypeInv /\ LoadingInv /\ RestartInv /\ [Next]_vars => RestartInv'
<1> SUFFICES ASSUME TypeInv, LoadingInv, RestartInv, [Next]_vars,
                    SearchIsActive', "unseen" \notin history', ~FullAwaited'
             PROVE  "full" \notin {currentOperation_', nextOperation_'}
                    /\ "reindexed" \notin history'
  BY DEF RestartInv
<1> DEFINE before == SearchIsActive /\ "unseen" \notin history /\ ~FullAwaited
           unread == "full" \notin {currentOperation_, nextOperation_}
<1>1. before => unread /\ "reindexed" \notin history
  BY DEF RestartInv
<1>2. ~searchRequested
  BY DEF searchRequested, request, NothingToDo, FullAwaited, workVars
<1>3. SearchIsActive
  BY <1>2, StaysActive
<1> HIDE DEF before
<1>4. CASE UNCHANGED <<currentOperation_, nextOperation_, operationRequested_, workerPc, history>>
  BY <1>1, <1>3, <1>4 DEF before, FullAwaited
<1>5. CASE startFullIndexing \/ addAll \/ finishIndexing \/ fileGrew
  <2>1. UNCHANGED <<operationRequested_, workerPc>> /\ history \subseteq history'
    BY <1>5 DEF startFullIndexing, addAll, finishIndexing, fileGrew, workVars
  <2>2. before
    BY <1>3, <2>1 DEF before, FullAwaited
  <2>3. ~startFullIndexing
    BY <1>1, <2>2 DEF startFullIndexing
  <2>4. UNCHANGED history
    BY <1>5, <2>3 DEF addAll, finishIndexing, fileGrew
  <2> QED
    BY <1>1, <1>5, <2>2, <2>3, <2>4 DEF addAll, finishIndexing, fileGrew, enqueueOperation,
       None
<1>6. ~fileTruncated /\ ~reload
  BY DEF fileTruncated, truncateFile, reload, SearchIsActive
<1>7. CASE User
  BY <1>4, <1>6, <1>7 DEF User, startNewSearch, stopSearch, stopLoading,
     searchRefreshChangedHandler, searchTextChangeHandler, loadVars, workVars
<1>8. CASE updateRequested
  <2>1. before
    BY <1>3, <1>8 DEF updateRequested, NothingToDo, NoOperation, FullAwaited, before
  <2> QED
    BY <1>1, <1>8, <2>1 DEF updateRequested, loadVars
<1>9. CASE loadingFinishedHandler \/ indexingFinishedReturns
  <2>1. before
    BY <1>3, <1>9 DEF loadingFinishedHandler, indexingFinishedReturns, FullAwaited, workVars,
       before
  <2> QED
    BY <1>1, <1>9, <2>1 DEF loadingFinishedHandler, indexingFinishedReturns, loadVars, None
<1>10. CASE Gui
  BY <1>2, <1>4, <1>8, <1>9, <1>10 DEF Gui, interruptReturns, processEventsReturns,
     handleSearchProgressed, loadVars, workVars
<1>11. CASE startFullSearch
  BY <1>11 DEF startFullSearch, beginSearch, loadVars
<1>12. CASE startUpdateSearch \/ nextChunk \/ searchChunk \/ endSearch
  <2>1. ~FullAwaited
    BY <1>12 DEF startUpdateSearch, nextChunk, searchChunk, endSearch, FullAwaited
  <2>2. before
    BY <1>3, <1>12, <2>1 DEF startUpdateSearch, nextChunk, searchChunk, endSearch, before
  <2> QED
    BY <1>1, <1>12, <2>2 DEF startUpdateSearch, beginSearch, nextChunk, searchChunk,
       endSearch, loadVars
<1>13. CASE UNCHANGED vars
  BY <1>4, <1>13 DEF vars, loadVars, workVars
<1> QED
  BY <1>5, <1>6, <1>7, <1>10, <1>11, <1>12, <1>13 DEF Next, Log, Worker

(* No event, no handler, no search at first. *)
LEMMA LoadingInit == Init => LoadingInv
<1> SUFFICES ASSUME Init PROVE LoadingInv
  OBVIOUS
<1>1. DOMAIN stack = {} /\ DOMAIN guiQueue = {}
  BY DEF Init
<1>2. FinishInv /\ LoadedInv
  BY <1>1 DEF FinishInv, LoadedInv
<1>3. StateInv
  BY <1>1 DEF Init, StateInv, At
<1> QED
  BY <1>2, <1>3 DEF LoadingInv

(* A log that is truncated while its search is auto-refreshed is searched  *)
(* again once it is read, however many more changes and events come first. *)
THEOREM RestartCorrect == Spec => []QuietMeansRestarted
<1>1. Init => TypeInv /\ LoadingInv /\ RestartInv
  BY TypeInit, LoadingInit DEF Init, RestartInv, SearchIsActive
<1>2. TypeInv /\ LoadingInv /\ RestartInv /\ [Next]_vars => (TypeInv /\ LoadingInv /\ RestartInv)'
  BY TypeStep, LoadingStep, RestartStep
<1>3. TypeInv /\ LoadingInv /\ RestartInv => QuietMeansRestarted
  BY DEF LoadingInv, StateInv, RestartInv, QuietMeansRestarted, Quiescent, SearchIsActive,
     isAutorefreshAllowed, FullAwaited, NoOperation
<1> QED
  BY <1>1, <1>2, <1>3, PTL DEF Spec

-----------------------------------------------------------------------------
(* What the filtered view shows.                                           *)

(* Where a search is not about to begin it is not made to be. *)
LEMMA ShowingStays ==
  ASSUME TypeInv, [Next]_vars, Showing', ~searchRequested
  PROVE  Showing
<1>1. SearchIsActive
  BY StaysActive DEF Showing
<1>2. SUFFICES ASSUME At("run") PROVE FALSE
  BY <1>1 DEF Showing
<1>3. ~UNCHANGED stack
  BY <1>2 DEF Showing, At
<1>4. CASE Log
  BY <1>3, <1>4 DEF Log, startFullIndexing, addAll, finishIndexing, fileGrew, fileTruncated,
     guiVars
<1>5. CASE User
  BY <1>2, <1>3, <1>5 DEF User, startNewSearch, stopSearch, stopLoading, UserAction, reload,
     searchRefreshChangedHandler, searchTextChangeHandler, At
<1>6. CASE Gui
  BY <1>2, <1>3, <1>6 DEF Gui, interruptReturns, processEventsReturns, updateRequested,
     handleSearchProgressed, loadingFinishedHandler, indexingFinishedReturns, Take,
     Dispatching, At
<1>7. CASE Worker
  BY <1>3, <1>7 DEF Worker, startFullSearch, startUpdateSearch, beginSearch, nextChunk,
     searchChunk, endSearch, guiVars
<1>8. CASE UNCHANGED vars
  BY <1>3, <1>8 DEF vars, guiVars
<1> QED
  BY <1>4, <1>5, <1>6, <1>7, <1>8 DEF Next

(* The search that is requested is shown as nothing until it begins. *)
LEMMA ClearedForRun ==
  ASSUME TypeInv, At("run") => nbMatches_ = 0 /\ shown = 0, [Next]_vars, At("run")'
  PROVE  nbMatches_' = 0 /\ shown' = 0
<1>0. stack \in Seq(Frame)
  BY DEF TypeInv, GuiType
<1>1. CASE UNCHANGED <<stack, nbMatches_, shown>>
  BY <1>1 DEF At
<1>2. CASE Dispatching /\ UNCHANGED stack
  BY <1>2 DEF Dispatching, At
<1>3. CASE Log
  BY <1>1, <1>2, <1>3 DEF Log, startFullIndexing, addAll, finishIndexing, fileGrew,
     fileTruncated, guiVars, widgetVars
<1>4. CASE startNewSearch \/ stopSearch \/ stopLoading
  BY <1>0, <1>4, Handlers DEF Nests
<1>5. CASE User
  BY <1>2, <1>4, <1>5 DEF User, reload, searchRefreshChangedHandler, UserAction,
     searchTextChangeHandler, Dispatching
<1>6. CASE processEventsReturns
  BY <1>6 DEF processEventsReturns
<1>7. ~Returns
  BY ReturnsInto
<1>8. \A f \in {"events", "loaded", "replace", "update"} : ~Nests(f) /\ ~NestsIn(f) /\ ~GoesOn(f)
  BY DEF Nests, NestsIn, GoesOn
<1>9. CASE Gui
  BY <1>0, <1>2, <1>6, <1>7, <1>8, <1>9, Handlers DEF Gui, handleSearchProgressed, Take
<1>10. CASE Worker
  BY <1>1, <1>10 DEF Worker, startFullSearch, startUpdateSearch, beginSearch, nextChunk,
     searchChunk, endSearch, guiVars, widgetVars
<1>11. CASE UNCHANGED vars
  BY <1>1, <1>11 DEF vars, guiVars, widgetVars
<1> QED
  BY <1>3, <1>5, <1>9, <1>10, <1>11 DEF Next

(* The events of searches stay, perhaps one place further. *)
Kept ==
  \E d \in {0, 1} :
    /\ \A k \in DOMAIN guiQueue' : guiQueue'[k].is = "searchProgressed" =>
         k + d \in DOMAIN guiQueue /\ guiQueue'[k] = guiQueue[k + d]
    /\ \A k \in DOMAIN guiQueue : Progress(k) =>
         k - d \in DOMAIN guiQueue' /\ guiQueue'[k - d] = guiQueue[k]

(* The ends of loadings leave the events of searches as they are. *)
LEMMA KeptByOthers ==
  ASSUME TypeInv, TypeInv',
         UNCHANGED guiQueue \/ Posts(Finished) \/ Takes("loadingFinished")
  PROVE  Kept
<1>0. /\ guiQueue \in Seq(Event) /\ Len(guiQueue) \in Nat /\ DOMAIN guiQueue = 1 .. Len(guiQueue)
      /\ guiQueue' \in Seq(Event) /\ Len(guiQueue') \in Nat
      /\ DOMAIN guiQueue' = 1 .. Len(guiQueue')
  BY DEF TypeInv, GuiType
<1>1. CASE UNCHANGED guiQueue
  <2>1. \A k \in DOMAIN guiQueue : k + 0 = k /\ k - 0 = k
    BY <1>0
  <2> QED
    BY <1>1, <2>1 DEF Kept
<1>2. CASE Posts(Finished)
  <2>1. /\ Len(guiQueue') = Len(guiQueue) + 1
        /\ \A k \in 1 .. Len(guiQueue) : guiQueue'[k] = guiQueue[k]
        /\ guiQueue'[Len(guiQueue) + 1].is # "searchProgressed"
    BY <1>2 DEF Posts, Finished
  <2>2. ASSUME NEW k \in DOMAIN guiQueue', guiQueue'[k].is = "searchProgressed"
        PROVE  k + 0 \in DOMAIN guiQueue /\ guiQueue'[k] = guiQueue[k + 0]
    BY <1>0, <2>1, <2>2
  <2>3. ASSUME NEW k \in DOMAIN guiQueue
        PROVE  k - 0 \in DOMAIN guiQueue' /\ guiQueue'[k - 0] = guiQueue[k]
    BY <1>0, <2>1
  <2> QED
    BY <2>2, <2>3 DEF Kept
<1>3. CASE Takes("loadingFinished")
  <2>1. /\ Len(guiQueue') = Len(guiQueue) - 1
        /\ \A k \in 1 .. Len(guiQueue) - 1 : guiQueue'[k] = guiQueue[k + 1]
        /\ guiQueue[1].is # "searchProgressed"
    BY <1>3 DEF Takes
  <2>2. ASSUME NEW k \in DOMAIN guiQueue'
        PROVE  k + 1 \in DOMAIN guiQueue /\ guiQueue'[k] = guiQueue[k + 1]
    BY <1>0, <2>1
  <2>3. ASSUME NEW k \in DOMAIN guiQueue, Progress(k)
        PROVE  k - 1 \in DOMAIN guiQueue' /\ guiQueue'[k - 1] = guiQueue[k]
    <3>1. k # 1
      BY <2>1, <2>3 DEF Progress
    <3>2. k - 1 \in 1 .. Len(guiQueue) - 1 /\ (k - 1) + 1 = k
      BY <1>0, <3>1
    <3> QED
      BY <1>0, <2>1, <3>2
  <2> QED
    BY <2>2, <2>3 DEF Kept
<1> QED
  BY <1>1, <1>2, <1>3

(* So what they tell stays. *)
LEMMA KeptEvents ==
  ASSUME TypeInv, TypeInv', Kept, UNCHANGED <<nbMatches_, searchData_>>
  PROVE  /\ Unhandled' <=> Unhandled
         /\ Differing' <=> Differing
         /\ Ends => Ends'
<1>0. /\ DOMAIN guiQueue = 1 .. Len(guiQueue) /\ Len(guiQueue) \in Nat
      /\ DOMAIN guiQueue' = 1 .. Len(guiQueue') /\ Len(guiQueue') \in Nat
  BY DEF TypeInv, GuiType
<1>1. PICK d \in {0, 1} :
        /\ \A k \in DOMAIN guiQueue' : guiQueue'[k].is = "searchProgressed" =>
             k + d \in DOMAIN guiQueue /\ guiQueue'[k] = guiQueue[k + d]
        /\ \A k \in DOMAIN guiQueue : Progress(k) =>
             k - d \in DOMAIN guiQueue' /\ guiQueue'[k - d] = guiQueue[k]
  BY DEF Kept
<1>2. ASSUME NEW k \in DOMAIN guiQueue', Progress(k)'
      PROVE  k + d \in DOMAIN guiQueue /\ Progress(k + d) /\ guiQueue'[k] = guiQueue[k + d]
  BY <1>1, <1>2 DEF Progress
<1>3. ASSUME NEW k \in DOMAIN guiQueue, Progress(k)
      PROVE  \E j \in DOMAIN guiQueue' :
               j = k - d /\ Progress(j)' /\ guiQueue'[j] = guiQueue[k]
  BY <1>1, <1>3 DEF Progress
<1>4. Unhandled' <=> Unhandled
  BY <1>2, <1>3 DEF Unhandled
<1>5. Differing' <=> Differing
  <2>1. ASSUME Differing' PROVE Differing
    <3>1. PICK k \in DOMAIN guiQueue' : Progress(k)' /\ guiQueue'[k].nbMatches # nbMatches_
      BY <2>1 DEF Differing
    <3> QED
      BY <1>2, <3>1 DEF Differing
  <2>2. ASSUME Differing PROVE Differing'
    <3>1. PICK k \in DOMAIN guiQueue : Progress(k) /\ guiQueue[k].nbMatches # nbMatches_
      BY <2>2 DEF Differing
    <3>2. PICK j \in DOMAIN guiQueue' : Progress(j)' /\ guiQueue'[j] = guiQueue[k]
      BY <1>3, <3>1
    <3> QED
      BY <3>1, <3>2 DEF Differing
  <2> QED
    BY <2>1, <2>2
<1>6. ASSUME Ends PROVE Ends'
  <2> SUFFICES ASSUME NEW k \in DOMAIN guiQueue', Progress(k)'
               PROVE  \E j \in DOMAIN guiQueue' : /\ j >= k /\ Progress(j)'
                                                  /\ guiQueue'[j].nbMatches = NbFound'
    BY DEF Ends
  <2>1. PICK i \in DOMAIN guiQueue :
          i >= k + d /\ Progress(i) /\ guiQueue[i].nbMatches = NbFound
    BY <1>2, <1>6 DEF Ends
  <2>2. PICK j \in DOMAIN guiQueue' :
          j = i - d /\ Progress(j)' /\ guiQueue'[j] = guiQueue[i]
    BY <1>3, <2>1
  <2>3. j >= k
    BY <1>0, <2>1, <2>2
  <2>4. NbFound' = NbFound
    BY DEF NbFound
  <2> QED
    BY <2>1, <2>2, <2>3, <2>4
<1> QED
  BY <1>4, <1>5, <1>6

(* An event that the worker sends tells how many matches there are. *)
LEMMA PostedEvent ==
  ASSUME TypeInv, TypeInv', NEW p \in Int, Posts(ProgressEvent(p)),
         search.nbMatches = NbFound, UNCHANGED <<nbMatches_, searchData_>>
  PROVE  /\ Unhandled' /\ Ends'
         /\ Differing => Differing'
         /\ nbMatches_ # NbFound => Differing'
<1>0. /\ DOMAIN guiQueue = 1 .. Len(guiQueue) /\ Len(guiQueue) \in Nat
      /\ DOMAIN guiQueue' = 1 .. Len(guiQueue') /\ Len(guiQueue') \in Nat
  BY DEF TypeInv, GuiType
<1>1. PICK n \in DOMAIN guiQueue' : n = Len(guiQueue')
  BY <1>0 DEF Posts
<1>2. guiQueue'[n].is = "searchProgressed" /\ guiQueue'[n].nbMatches = NbFound
  BY <1>1 DEF Posts, ProgressEvent
<1>3. Progress(n)' /\ NbFound' = NbFound
  BY <1>2 DEF Progress, NbFound
<1>4. Unhandled'
  BY <1>3 DEF Unhandled
<1>5. \A k \in DOMAIN guiQueue' : n >= k
  BY <1>0, <1>1
<1>6. Ends'
  BY <1>2, <1>3, <1>5 DEF Ends
<1>7. nbMatches_ # NbFound => Differing'
  BY <1>2, <1>3 DEF Differing
<1>8. ASSUME Differing PROVE Differing'
  <2>1. PICK k \in DOMAIN guiQueue : Progress(k) /\ guiQueue[k].nbMatches # nbMatches_
    BY <1>8 DEF Differing
  <2>2. k \in DOMAIN guiQueue' /\ guiQueue'[k] = guiQueue[k]
    BY <1>0 DEF Posts
  <2>3. Progress(k)'
    BY <2>1, <2>2 DEF Progress
  <2> QED
    BY <2>1, <2>2, <2>3 DEF Differing
<1> QED
  BY <1>4, <1>6, <1>7, <1>8

(* What is left to tell once an event is taken. *)
LEMMA TakenEvent ==
  ASSUME TypeInv, TypeInv', Takes("searchProgressed"), UNCHANGED searchData_
  PROVE  /\ Ends => Ends'
         /\ Ends /\ ~Unhandled' => guiQueue[1].nbMatches = NbFound
         /\ Ends /\ guiQueue[1].nbMatches # NbFound =>
              \E k \in DOMAIN guiQueue' : Progress(k)' /\ guiQueue'[k].nbMatches = NbFound
         /\ Differing /\ guiQueue[1].nbMatches = nbMatches_ /\ UNCHANGED nbMatches_ =>
              Differing'
<1>0. /\ DOMAIN guiQueue = 1 .. Len(guiQueue) /\ Len(guiQueue) \in Nat
      /\ DOMAIN guiQueue' = 1 .. Len(guiQueue') /\ Len(guiQueue') \in Nat
  BY DEF TypeInv, GuiType
<1>1. 1 \in DOMAIN guiQueue /\ Progress(1)
  BY <1>0 DEF Takes, Progress
<1>2. ASSUME NEW k \in DOMAIN guiQueue', Progress(k)'
      PROVE  k + 1 \in DOMAIN guiQueue /\ Progress(k + 1) /\ guiQueue'[k] = guiQueue[k + 1]
  BY <1>0, <1>2 DEF Takes, Progress
<1>3. ASSUME NEW k \in DOMAIN guiQueue, Progress(k), k # 1
      PROVE  \E j \in DOMAIN guiQueue' :
               j = k - 1 /\ Progress(j)' /\ guiQueue'[j] = guiQueue[k]
  <2>1. k - 1 \in 1 .. Len(guiQueue) - 1 /\ (k - 1) + 1 = k
    BY <1>0, <1>3
  <2>2. k - 1 \in DOMAIN guiQueue' /\ guiQueue'[k - 1] = guiQueue[k]
    BY <1>0, <2>1 DEF Takes
  <2>3. PICK j \in DOMAIN guiQueue' : j = k - 1
    BY <2>2
  <2> QED
    BY <1>3, <2>2, <2>3 DEF Progress
<1>4. NbFound' = NbFound
  BY DEF NbFound
<1>5. ASSUME Ends PROVE Ends'
  <2> SUFFICES ASSUME NEW k \in DOMAIN guiQueue', Progress(k)'
               PROVE  \E j \in DOMAIN guiQueue' : /\ j >= k /\ Progress(j)'
                                                  /\ guiQueue'[j].nbMatches = NbFound'
    BY DEF Ends
  <2>1. PICK i \in DOMAIN guiQueue :
          i >= k + 1 /\ Progress(i) /\ guiQueue[i].nbMatches = NbFound
    BY <1>2, <1>5 DEF Ends
  <2>2. i # 1
    BY <1>0, <2>1
  <2>3. PICK j \in DOMAIN guiQueue' :
          j = i - 1 /\ Progress(j)' /\ guiQueue'[j] = guiQueue[i]
    BY <1>3, <2>1, <2>2
  <2>4. j >= k
    BY <1>0, <2>1, <2>3
  <2> QED
    BY <1>4, <2>1, <2>3, <2>4
<1>6. ASSUME Ends
      PROVE  \/ guiQueue[1].nbMatches = NbFound
             \/ \E k \in DOMAIN guiQueue' : Progress(k)' /\ guiQueue'[k].nbMatches = NbFound
  <2>1. PICK i \in DOMAIN guiQueue : Progress(i) /\ guiQueue[i].nbMatches = NbFound
    BY <1>1, <1>6 DEF Ends
  <2>2. CASE i = 1
    BY <2>1, <2>2
  <2>3. CASE i # 1
    BY <1>3, <2>1, <2>3
  <2> QED
    BY <2>2, <2>3
<1>7. ASSUME Differing, guiQueue[1].nbMatches = nbMatches_, UNCHANGED nbMatches_
      PROVE  Differing'
  <2>1. PICK k \in DOMAIN guiQueue : Progress(k) /\ guiQueue[k].nbMatches # nbMatches_
    BY <1>7 DEF Differing
  <2>2. k # 1
    BY <1>7, <2>1
  <2>3. PICK j \in DOMAIN guiQueue' : Progress(j)' /\ guiQueue'[j] = guiQueue[k]
    BY <1>3, <2>1, <2>2
  <2> QED
    BY <1>7, <2>1, <2>3 DEF Differing
<1> QED
  BY <1>5, <1>6, <1>7 DEF Unhandled

(* Where a search that is shown finds more, or less, an event tells it. *)
LEMMA FoundChanges ==
  ASSUME TypeInv, ShownInv, Showing, workerPc # "loop", ~FullAwaited,
         operationRequested_.kind # "none", ~FullAwaited',
         UNCHANGED <<guiQueue, nbMatches_, shown, operationRequested_>>
  PROVE  Differing' \/ Shows'
<1>1. Differing => Differing'
  BY DEF Differing, Progress
<1>2. CASE Differing
  BY <1>1, <1>2
<1>3. CASE nbMatches_ # NbFound'
  BY <1>3 DEF Shows
<1>4. CASE NbFound' = NbFound
  BY <1>1, <1>4 DEF ShownInv, Shows
<1>5. CASE nbMatches_ = NbFound' /\ NbFound' # NbFound
  <2>1. nbMatches_ # NbFound
    BY <1>5
  <2>2. Unhandled /\ Ends
    BY <2>1 DEF ShownInv
  <2>3. PICK k \in DOMAIN guiQueue : Progress(k) /\ guiQueue[k].nbMatches = NbFound
    BY <2>2 DEF Unhandled, Ends
  <2> QED
    BY <1>1, <2>1, <2>3 DEF Differing
<1> QED
  BY <1>2, <1>3, <1>4, <1>5

(* Every step keeps the view right, or an event on its way that corrects it. *)
LEMMA ShownStep == TypeInv /\ LoadingInv /\ ShownInv /\ [Next]_vars => ShownInv'
<1> SUFFICES ASSUME TypeInv, LoadingInv, ShownInv, [Next]_vars PROVE ShownInv'
  OBVIOUS
<1>0. TypeInv'
  BY TypeStep
<1>1. At("run")' => nbMatches_' = 0 /\ shown' = 0
  BY ClearedForRun DEF ShownInv
<1>2. UNCHANGED searchData_ => NbFound' = NbFound
  BY DEF NbFound
<1> DEFINE workSame == UNCHANGED <<operationRequested_, workerPc, searchData_, searched>>
           same == workSame /\ UNCHANGED <<nbMatches_, shown, resultVars>>
<1>3. CASE ~Showing' /\ workSame /\ UNCHANGED guiQueue
  <2>1. Ends => Ends'
    BY <1>2, <1>3 DEF Ends, Progress
  <2> QED
    BY <1>1, <1>3, <2>1 DEF ShownInv
<1>4. CASE /\ same /\ ~searchRequested
           /\ UNCHANGED guiQueue \/ Posts(Finished) \/ Takes("loadingFinished")
  <2>1. (Unhandled' <=> Unhandled) /\ (Differing' <=> Differing) /\ (Ends => Ends')
    BY <1>0, <1>4, KeptByOthers, KeptEvents
  <2>2. Showing' => Showing
    BY <1>4, ShowingStays
  <2>3. (FullAwaited' <=> FullAwaited) /\ (Shows' <=> Shows)
    BY <1>2, <1>4 DEF FullAwaited, Shows
  <2> QED
    BY <1>1, <1>2, <1>4, <2>1, <2>2, <2>3 DEF ShownInv, resultVars
<1>5. CASE Log
  <2>1. CASE startFullIndexing \/ addAll \/ fileGrew
    <3>1. same /\ UNCHANGED guiQueue
      BY <2>1 DEF startFullIndexing, addAll, fileGrew, guiVars, widgetVars, workVars
    <3>2. ~searchRequested
      BY <2>1 DEF startFullIndexing, addAll, fileGrew, searchRequested, request, NothingToDo,
         NoOperation
    <3> QED
      BY <1>4, <3>1, <3>2
  <2>2. CASE finishIndexing
    <3>1. same /\ Posts(Finished)
      BY <2>2, Events DEF finishIndexing, widgetVars, workVars
    <3>2. ~searchRequested
      BY <2>2 DEF finishIndexing, searchRequested, request, NothingToDo, NoOperation
    <3> QED
      BY <1>4, <3>1, <3>2
  <2>3. CASE fileTruncated
    <3>1. workSame /\ UNCHANGED guiQueue
      BY <2>3 DEF fileTruncated, workVars
    <3>2. CASE searchInfoLine
      <4>1. ~Showing'
        BY <2>3, <3>2 DEF fileTruncated, truncateFile, Showing, SearchIsActive
      <4> QED
        BY <1>3, <3>1, <4>1
    <3>3. CASE ~searchInfoLine
      <4>1. same
        BY <2>3, <3>1, <3>3 DEF fileTruncated
      <4>2. ~searchRequested
        BY <2>3 DEF fileTruncated, searchRequested, request, NothingToDo, NoOperation
      <4> QED
        BY <1>4, <3>1, <4>1, <4>2
    <3> QED
      BY <3>2, <3>3
  <2> QED
    BY <1>5, <2>1, <2>2, <2>3 DEF Log
<1>6. CASE User
  <2>1. CASE reload
    <3>1. workSame /\ UNCHANGED guiQueue /\ ~Showing'
      BY <2>1 DEF reload, workVars, Showing, SearchIsActive
    <3> QED
      BY <1>3, <3>1
  <2>2. CASE User /\ ~reload
    <3>1. same /\ UNCHANGED guiQueue
      BY <2>2 DEF User, startNewSearch, stopSearch, stopLoading, widgetVars, workVars,
         searchRefreshChangedHandler, searchTextChangeHandler
    <3>2. ~searchRequested
      BY <1>6 DEF User, startNewSearch, stopSearch, stopLoading, reload, UserAction,
         searchRefreshChangedHandler, searchTextChangeHandler, searchRequested, At
    <3> QED
      BY <1>4, <3>1, <3>2
  <2> QED
    BY <1>6, <2>1, <2>2
<1>7. CASE interruptReturns \/ indexingFinishedReturns \/ loadingFinishedHandler
  <2>1. same
    BY <1>7 DEF interruptReturns, indexingFinishedReturns, loadingFinishedHandler,
       widgetVars, workVars
  <2>2. ~searchRequested
    BY <1>7 DEF interruptReturns, indexingFinishedReturns, loadingFinishedHandler, Take,
       Dispatching, searchRequested, At
  <2>3. UNCHANGED guiQueue \/ Takes("loadingFinished")
    BY <1>7, Events DEF interruptReturns, indexingFinishedReturns, loadingFinishedHandler
  <2> QED
    BY <1>4, <2>1, <2>2, <2>3
<1>8. CASE processEventsReturns
  <2>1. workSame /\ UNCHANGED guiQueue
    BY <1>8 DEF processEventsReturns, workVars
  <2>2. CASE state_' = "NoSearch"
    BY <1>3, <2>1, <2>2 DEF Showing, SearchIsActive
  <2>3. CASE GoesOn("run")
    BY <1>3, <2>1, <2>3 DEF Showing, GoesOn
  <2> QED
    BY <1>8, <2>2, <2>3, Handlers DEF TypeInv, GuiType
<1>9. CASE searchRequested
  <2>1. /\ At("run") /\ NothingToDo
        /\ currentRegExp_' = text
        /\ operationRequested_' = [kind |-> "Full", regexp |-> text, position |-> 0]
        /\ UNCHANGED <<guiQueue, nbMatches_, shown, workerPc, searchData_>>
    BY <1>9 DEF searchRequested, request, widgetVars, workVars
  <2>2. FullAwaited' /\ operationRequested_.regexp' = currentRegExp_'
        /\ operationRequested_.kind' # "none"
    BY <2>1 DEF FullAwaited, NothingToDo
  <2>3. nbMatches_' = 0 /\ shown' = 0
    BY <2>1 DEF ShownInv
  <2>4. Shows'
    BY <2>2, <2>3 DEF Shows
  <2>5. workerPc # "loop" /\ Ends /\ (Ends => Ends')
    BY <1>2, <2>1 DEF NothingToDo, ShownInv, Ends, Progress
  <2> QED
    BY <1>1, <2>2, <2>4, <2>5 DEF ShownInv
<1>10. CASE updateRequested
  <2>1. /\ NothingToDo
        /\ operationRequested_'.kind = "Update"
        /\ UNCHANGED <<guiQueue, nbMatches_, shown, resultVars, workerPc, searchData_, searched>>
    BY <1>10 DEF updateRequested, request, widgetVars, workVars
  <2>2. ~FullAwaited /\ ~FullAwaited' /\ operationRequested_.kind = "none" /\ workerPc = "wait"
    BY <2>1 DEF FullAwaited, NothingToDo, NoOperation
  <2>3. ~searchRequested
    BY <1>10 DEF updateRequested, searchRequested, At
  <2>4. Showing' => Showing
    BY <2>3, ShowingStays
  <2>5. (Unhandled' <=> Unhandled) /\ (Differing' <=> Differing) /\ (Ends => Ends')
    BY <1>2, <2>1 DEF Unhandled, Differing, Ends, Progress
  <2>6. NbFound' = NbFound
    BY <1>2, <2>1
  <2>7. Shows => Shows'
    BY <2>1, <2>2, <2>6 DEF Shows
  <2> QED
    BY <1>1, <2>1, <2>2, <2>4, <2>5, <2>6, <2>7 DEF ShownInv, resultVars
<1>11. CASE handleSearchProgressed
  <2> DEFINE e == guiQueue[1]
  <2>1. Takes("searchProgressed") /\ Head(guiQueue) = e
    BY <1>11, Events DEF handleSearchProgressed, Takes
  <2>2. /\ matching_lines_' = searchData_.matches
        /\ nbLinesProcessed_' = searchData_.nbLinesProcessed
        /\ workSame /\ UNCHANGED <<stack, state_, currentRegExp_>>
    BY <1>11 DEF handleSearchProgressed, workVars, stateVars
  <2>3. \/ e.nbMatches # nbMatches_ /\ nbMatches_' = e.nbMatches /\ shown' = NbFound
        \/ e.nbMatches = nbMatches_ /\ UNCHANGED <<nbMatches_, shown>>
    BY <1>11, <2>1 DEF handleSearchProgressed, MatchesChanged, NbFound
  <2>4. /\ Ends => Ends'
        /\ Ends /\ ~Unhandled' => e.nbMatches = NbFound
        /\ Ends /\ e.nbMatches # NbFound =>
             \E k \in DOMAIN guiQueue' : Progress(k)' /\ guiQueue'[k].nbMatches = NbFound
        /\ Differing /\ e.nbMatches = nbMatches_ /\ UNCHANGED nbMatches_ => Differing'
    BY <1>0, <2>1, <2>2, TakenEvent
  <2>5. /\ Showing' <=> Showing
        /\ FullAwaited' <=> FullAwaited
        /\ NbFound' = NbFound
    BY <1>2, <2>2 DEF Showing, SearchIsActive, FullAwaited, At
  <2> HIDE DEF e
  <2>6. FullAwaited => workerPc # "loop" /\ Ends
    BY DEF FullAwaited, ShownInv
  <2>7. ASSUME Showing PROVE Differing' \/ Shows'
    <3>1. CASE e.nbMatches # nbMatches_
      <4>1. nbMatches_' = e.nbMatches /\ shown' = NbFound
        BY <2>3, <3>1
      <4>2. CASE ~FullAwaited
        BY <2>5, <4>1, <4>2 DEF Shows
      <4>3. CASE FullAwaited /\ e.nbMatches = NbFound
        BY <2>5, <4>1, <4>3 DEF Shows
      <4>4. CASE FullAwaited /\ e.nbMatches # NbFound
        <5>1. \E k \in DOMAIN guiQueue' : Progress(k)' /\ guiQueue'[k].nbMatches = NbFound
          BY <2>4, <2>6, <4>4
        <5> QED
          BY <4>1, <4>4, <5>1 DEF Differing
      <4> QED
        BY <4>2, <4>3, <4>4
    <3>2. CASE e.nbMatches = nbMatches_ /\ UNCHANGED <<nbMatches_, shown>>
      <4>1. Shows => Shows'
        BY <2>2, <2>5, <3>2 DEF Shows
      <4> QED
        BY <2>4, <2>7, <3>2, <4>1 DEF ShownInv
    <3> QED
      BY <2>3, <3>1, <3>2
  <2>8. workerPc' # "loop" => Ends'
    BY <2>2, <2>4 DEF ShownInv
  <2>9. workerPc' # "loop" /\ ~Unhandled' => nbMatches_' = NbFound'
    BY <2>2, <2>3, <2>4, <2>5 DEF ShownInv
  <2> QED
    BY <1>1, <2>2, <2>5, <2>7, <2>8, <2>9 DEF ShownInv
<1>12. CASE startFullSearch
  <2>1. /\ operationRequested_.kind = "Full" /\ workerPc = "wait"
        /\ workerPc' = "loop" /\ searched' = operationRequested_.regexp
        /\ searchData_' = [matches |-> <<>>, nbLinesProcessed |-> 0]
        /\ UNCHANGED <<guiVars, operationRequested_>>
    BY <1>12 DEF startFullSearch, beginSearch
  <2>2. UNCHANGED <<stack, guiQueue, state_, nbMatches_, shown, resultVars>>
    BY <2>1 DEF guiVars, stateVars, widgetVars
  <2>3. FullAwaited /\ ~FullAwaited' /\ NbFound' = 0
    BY <2>1 DEF FullAwaited, NbFound
  <2>4. (Showing' <=> Showing) /\ (Differing' <=> Differing)
    BY <2>2 DEF Showing, SearchIsActive, At, Differing, Progress
  <2>5. Shows => Shows'
    BY <2>1, <2>2, <2>3 DEF Shows
  <2> QED
    BY <1>1, <2>1, <2>2, <2>3, <2>4, <2>5 DEF ShownInv, resultVars
<1>13. CASE startUpdateSearch \/ searchChunk
  <2>1. /\ workerPc \in {"wait", "read"} /\ workerPc' = "loop"
        /\ UNCHANGED <<guiVars, operationRequested_, searched>>
    BY <1>13 DEF startUpdateSearch, beginSearch, searchChunk
  <2>2. UNCHANGED <<stack, guiQueue, state_, nbMatches_, shown, resultVars>>
    BY <2>1 DEF guiVars, stateVars, widgetVars
  <2>3. ~FullAwaited /\ ~FullAwaited' /\ operationRequested_.kind # "none"
    BY <1>13, <2>1 DEF startUpdateSearch, searchChunk, FullAwaited, TypeInv, WorkType
  <2>4. Showing' <=> Showing
    BY <2>2 DEF Showing, SearchIsActive, At
  <2>5. Showing => Differing' \/ Shows'
    BY <2>1, <2>2, <2>3, FoundChanges
  <2> QED
    BY <1>1, <2>1, <2>2, <2>3, <2>4, <2>5 DEF ShownInv, resultVars
<1>14. CASE nextChunk \/ endSearch
  <2>1. /\ workerPc = "loop" /\ workerPc' \in {"read", "wait"}
        /\ UNCHANGED <<stack, state_, nbMatches_, shown, resultVars, searchData_, searched>>
    BY <1>14 DEF nextChunk, endSearch, stateVars, widgetVars
  <2>2. PICK p \in Int : Posts(ProgressEvent(p))
    BY <1>14, Events
  <2>3. search.nbMatches = NbFound /\ operationRequested_.kind # "none"
    BY <2>1 DEF TypeInv, WorkType, NbFound
  <2>4. /\ Unhandled' /\ Ends'
        /\ Differing => Differing'
        /\ nbMatches_ # NbFound => Differing'
    BY <1>0, <2>1, <2>2, <2>3, PostedEvent
  <2>5. Showing' <=> Showing
    BY <2>1 DEF Showing, SearchIsActive, At
  <2>6. ~FullAwaited /\ ~FullAwaited'
    BY <1>14, <2>1 DEF nextChunk, endSearch, FullAwaited, NoOperation
  <2>7. NbFound' = NbFound
    BY <1>2, <2>1
  <2>8. Shows => Differing' \/ Shows'
    BY <2>1, <2>4, <2>6, <2>7 DEF Shows
  <2> QED
    BY <1>1, <2>1, <2>4, <2>5, <2>6, <2>8 DEF ShownInv, resultVars
<1>15. CASE UNCHANGED vars
  <2>1. same /\ UNCHANGED guiQueue
    BY <1>15 DEF vars, guiVars, widgetVars, workVars
  <2>2. ~searchRequested
    BY <1>15 DEF vars, searchRequested, request, NothingToDo, NoOperation
  <2> QED
    BY <1>4, <2>1, <2>2
<1> QED
  BY <1>5, <1>6, <1>7, <1>8, <1>9, <1>10, <1>11, <1>12, <1>13, <1>14, <1>15
     DEF Next, Gui, Worker

(* At first there is no search. *)
LEMMA ShownInit == Init => ShownInv
<1> SUFFICES ASSUME Init PROVE ShownInv
  OBVIOUS
<1>1. DOMAIN guiQueue = {} /\ nbMatches_ = 0 /\ shown = 0 /\ ~Showing
  BY DEF Init, Showing, SearchIsActive
<1>2. Ends
  BY <1>1 DEF Ends
<1> QED
  BY <1>1, <1>2 DEF ShownInv

(* Whatever is still on its way when a search is replaced, stopped, cleared *)
(* or resumed, the view ends up with all that the last one found, and with *)
(* nothing else, although it is only updated by the events whose count is  *)
(* not the one before.                                                     *)
THEOREM ShownCorrect == Spec => []QuietMeansShown
<1>1. Init => TypeInv /\ LoadingInv /\ ShownInv
  BY TypeInit, LoadingInit, ShownInit
<1>2. TypeInv /\ LoadingInv /\ ShownInv /\ [Next]_vars => (TypeInv /\ LoadingInv /\ ShownInv)'
  BY TypeStep, LoadingStep, ShownStep
<1>3. ASSUME ShownInv, Quiescent, SearchIsActive
      PROVE  /\ matching_lines_ = searchData_.matches
             /\ nbLinesProcessed_ = searchData_.nbLinesProcessed
             /\ currentRegExp_ = searched
             /\ shown = Len(matching_lines_)
  <2>1. operationRequested_.kind = "none" /\ Showing /\ ~FullAwaited
    BY <1>3 DEF Quiescent, NoOperation, Showing, At, FullAwaited
  <2>2. ~Unhandled /\ ~Differing
    <3>1. DOMAIN guiQueue = {}
      BY <1>3 DEF Quiescent
    <3> QED
      BY <3>1 DEF Unhandled, Differing
  <2>3. shown = NbFound
    BY <1>3, <2>1, <2>2 DEF ShownInv, Shows
  <2> QED
    BY <1>3, <2>1, <2>2, <2>3 DEF ShownInv, NbFound
<1>4. ShownInv => QuietMeansShown
  BY <1>3 DEF QuietMeansShown
<1> QED
  BY <1>1, <1>2, <1>4, PTL DEF Spec

-----------------------------------------------------------------------------
(* What is found.                                                          *)

(* The lines that stay are all of them but, perhaps, the last one. *)
LEMMA StableLines ==
  ASSUME TypeInv
  PROVE  /\ Len(source) \in Nat /\ NbStable \in Nat
         /\ NbStable <= Len(source) /\ Len(source) <= NbStable + 1
<1>1. Len(source) \in Nat /\ (fakeFinalLF => Len(source) > 0)
  BY DEF TypeInv, LogType
<1>2. CASE fakeFinalLF
  BY <1>1, <1>2 DEF NbStable
<1>3. CASE ~fakeFinalLF
  BY <1>1, <1>3 DEF NbStable
<1> QED
  BY <1>2, <1>3

(* They stay whatever is done, unless the log is indexed from scratch. *)
LEMMA LinesStay ==
  ASSUME TypeInv, TypeInv', [Next]_vars, ~startFullIndexing \/ source = <<>>
  PROVE  NbStable <= NbStable' /\ \A k \in 1 .. NbStable : source'[k] = source[k]
<1>0. /\ source \in Seq(Line) /\ Len(source) \in Nat /\ (fakeFinalLF => Len(source) > 0)
      /\ NbStable \in Nat
  BY StableLines DEF TypeInv, LogType
<1>1. CASE UNCHANGED sourceVars
  <2>1. NbStable' = NbStable /\ source' = source
    BY <1>1 DEF sourceVars, NbStable
  <2> QED
    BY <1>0, <2>1
<1>2. CASE startFullIndexing /\ source = <<>>
  <2>1. Len(source) = 0 /\ source' = source /\ ~fakeFinalLF'
    BY <1>2 DEF startFullIndexing
  <2>2. ~fakeFinalLF
    BY <1>0, <2>1
  <2>3. NbStable' = NbStable
    BY <2>1, <2>2 DEF NbStable
  <2> QED
    BY <1>0, <2>1, <2>3
<1>3. CASE addAll
  <2>1. PICK list \in {<<l>> : l \in Line} \cup {<<>>} :
          source' = (IF fakeFinalLF THEN Front(source) ELSE source) \o list
    BY <1>3 DEF addAll
  <2>2. list \in Seq(Line) /\ Len(list) \in Nat
    <3>1. <<>> \in Seq(Line) /\ \A l \in Line : <<l>> \in Seq(Line)
      OBVIOUS
    <3>2. list \in Seq(Line)
      BY <3>1
    <3> QED
      BY <3>2, LenProperties
  <2>3. NbStable' = Len(source')
    BY <1>3 DEF addAll, NbStable
  <2>4. PICK kept \in Seq(Line) :
          /\ Len(kept) = NbStable /\ \A k \in 1 .. NbStable : kept[k] = source[k]
          /\ source' = kept \o list
    <3>1. CASE fakeFinalLF
      <4>1. source # <<>>
        <5>1. Len(source) # 0
          BY <1>0, <3>1
        <5> QED
          BY <5>1, EmptySeq
      <4>2. /\ Front(source) \in Seq(Line) /\ Len(Front(source)) = Len(source) - 1
            /\ \A k \in 1 .. Len(source) - 1 : Front(source)[k] = source[k]
        BY <1>0, <4>1, Popped
      <4>3. NbStable = Len(source) - 1 /\ source' = Front(source) \o list
        BY <2>1, <3>1 DEF NbStable
      <4> QED
        BY <4>2, <4>3
    <3>2. CASE ~fakeFinalLF
      <4>1. NbStable = Len(source) /\ source' = source \o list
        BY <2>1, <3>2 DEF NbStable
      <4> QED
        BY <1>0, <4>1
    <3> QED
      BY <3>1, <3>2
  <2>5. Len(source') = NbStable + Len(list) /\ \A k \in 1 .. NbStable : source'[k] = kept[k]
    BY <1>0, <2>2, <2>4
  <2> QED
    BY <1>0, <2>2, <2>3, <2>4, <2>5
<1>4. CASE finishIndexing /\ ~UNCHANGED sourceVars
  <2>1. PICK l \in Line : source' = Append(source, l)
    BY <1>4 DEF finishIndexing
  <2>2. ~fakeFinalLF /\ fakeFinalLF'
    BY <1>4 DEF finishIndexing
  <2>3. Len(source') = Len(source) + 1 /\ \A k \in 1 .. Len(source) : source'[k] = source[k]
    BY <1>0, <2>1
  <2>4. NbStable = Len(source) /\ NbStable' = Len(source') - 1
    BY <2>2 DEF NbStable
  <2>5. NbStable' = NbStable
    BY <1>0, <2>3, <2>4
  <2> QED
    BY <1>0, <2>3, <2>4, <2>5
<1>5. CASE Log
  BY <1>1, <1>2, <1>3, <1>4, <1>5 DEF Log, fileGrew, fileTruncated
<1>6. CASE User
  BY <1>1, <1>6 DEF User, startNewSearch, stopSearch, stopLoading, reload,
     searchRefreshChangedHandler, searchTextChangeHandler
<1>7. CASE Gui
  BY <1>1, <1>7 DEF Gui, interruptReturns, processEventsReturns, searchRequested,
     updateRequested, handleSearchProgressed, loadingFinishedHandler,
     indexingFinishedReturns
<1>8. CASE Worker
  BY <1>1, <1>8 DEF Worker, startFullSearch, startUpdateSearch, beginSearch, nextChunk,
     searchChunk, endSearch
<1>9. CASE UNCHANGED vars
  BY <1>1, <1>9 DEF vars
<1> QED
  BY <1>5, <1>6, <1>7, <1>8, <1>9 DEF Next

(* What was found stays right while the lines stay. *)
LEMMA StaysFound ==
  ASSUME NEW lines, NEW stable \in Nat, NEW lines2, NEW stable2 \in Nat, stable <= stable2,
         \A k \in 1 .. stable : lines2[k] = lines[k],
         NEW data, NEW regexp, NEW s,
         data.nbLinesProcessed \in Nat, s.i \in Nat, s.nbSourceLines \in Nat
  PROVE  /\ IsFound(lines, stable, data, regexp) => IsFound(lines2, stable2, data, regexp)
         /\ GoesOnFrom(lines, stable, data, regexp, s) =>
              GoesOnFrom(lines2, stable2, data, regexp, s)
<1>1. ASSUME NEW m \in Nat, m <= stable
      PROVE  LinesThat(lines2, m, regexp) = LinesThat(lines, m, regexp)
  <2>1. \A l \in 0 .. m - 1 : l + 1 \in 1 .. stable
    BY <1>1
  <2>2. \A l \in 0 .. m - 1 : lines2[l + 1] = lines[l + 1]
    BY <2>1
  <2> QED
    BY <2>2 DEF LinesThat
<1>2. ASSUME IsFound(lines, stable, data, regexp)
      PROVE  IsFound(lines2, stable2, data, regexp)
  <2> DEFINE n == data.nbLinesProcessed
  <2>1. /\ InOrder(data.matches) /\ Range(data.matches) \subseteq 0 .. n - 1
        /\ n <= stable + 1
        /\ n # 0 => Range(data.matches) \ {n - 1} = LinesThat(lines, n - 1, regexp)
    BY <1>2 DEF IsFound
  <2>2. n <= stable2 + 1 /\ n \in Nat
    BY <2>1
  <2>3. n # 0 => n - 1 \in Nat /\ n - 1 <= stable
    BY <2>1, <2>2
  <2>4. n # 0 => LinesThat(lines2, n - 1, regexp) = LinesThat(lines, n - 1, regexp)
    BY <1>1, <2>3
  <2> QED
    BY <2>1, <2>2, <2>4 DEF IsFound
<1>3. ASSUME GoesOnFrom(lines, stable, data, regexp, s)
      PROVE  GoesOnFrom(lines2, stable2, data, regexp, s)
  <2>1. s.nbSourceLines <= stable + 1
    BY <1>3 DEF GoesOnFrom
  <2>2. s.nbSourceLines <= stable2 + 1 /\ (s.i < s.nbSourceLines => s.i <= stable)
    BY <2>1
  <2> QED
    BY <1>1, <1>3, <2>2 DEF GoesOnFrom
<1> QED
  BY <1>2, <1>3

LinesIn(lines, from, to, regexp) == {l \in from .. to - 1 : regexp \in lines[l + 1]}

(* What a chunk adds to what was found before it. *)
LEMMA ChunkAdds ==
  ASSUME NEW lines, NEW i \in Nat, NEW j \in Nat, i <= j, NEW n \in Nat, NEW regexp,
         NEW matches \in Seq(0 .. n), NEW found \in Seq(0 .. n),
         InOrder(matches), Range(matches) = LinesThat(lines, i, regexp),
         InOrder(found), Range(found) = LinesIn(lines, i, j, regexp)
  PROVE  /\ InOrder(matches \o found)
         /\ Range(matches \o found) = LinesThat(lines, j, regexp)
<1> DEFINE both == matches \o found
<1>1. Range(both) = Range(matches) \cup Range(found)
  BY RangeConcatenation
<1>2. Range(both) = LinesThat(lines, j, regexp)
  <2>1. \A l : l \in 0 .. j - 1 <=> l \in 0 .. i - 1 \/ l \in i .. j - 1
    OBVIOUS
  <2> QED
    BY <1>1, <2>1 DEF LinesThat, LinesIn
<1>3. /\ Len(matches) \in Nat /\ DOMAIN matches = 1 .. Len(matches)
      /\ Len(found) \in Nat /\ DOMAIN found = 1 .. Len(found)
      /\ Len(both) = Len(matches) + Len(found) /\ DOMAIN both = 1 .. Len(both)
      /\ \A k \in 1 .. Len(matches) + Len(found) :
           both[k] = IF k <= Len(matches) THEN matches[k] ELSE found[k - Len(matches)]
  BY ConcatProperties
<1>4. \A k \in 1 .. Len(matches) : matches[k] \in 0 .. n /\ matches[k] < i
  <2>1. \A k \in 1 .. Len(matches) : matches[k] \in Range(matches)
    BY RangeEquality
  <2> QED
    BY <2>1 DEF LinesThat
<1>5. \A k \in 1 .. Len(found) : found[k] \in 0 .. n /\ found[k] >= i
  <2>1. \A k \in 1 .. Len(found) : found[k] \in Range(found)
    BY RangeEquality
  <2> QED
    BY <2>1 DEF LinesIn
<1>6. \A a, b \in 1 .. Len(matches) : a < b => matches[a] < matches[b]
  BY <1>3 DEF InOrder
<1>7. \A a, b \in 1 .. Len(found) : a < b => found[a] < found[b]
  BY <1>3 DEF InOrder
<1> HIDE DEF both
<1>8. ASSUME NEW a \in 1 .. Len(both), NEW b \in 1 .. Len(both), a < b
      PROVE  both[a] < both[b]
  <2>1. CASE b <= Len(matches)
    BY <1>3, <1>6, <1>8, <2>1
  <2>2. CASE a <= Len(matches) /\ ~(b <= Len(matches))
    <3>1. both[a] = matches[a] /\ a \in 1 .. Len(matches)
      BY <1>3, <2>2
    <3>2. both[b] = found[b - Len(matches)] /\ b - Len(matches) \in 1 .. Len(found)
      BY <1>3, <2>2
    <3>3. both[a] \in 0 .. n /\ both[a] < i
      BY <1>4, <3>1
    <3>4. both[b] \in 0 .. n /\ both[b] >= i
      BY <1>5, <3>2
    <3> QED
      BY <3>3, <3>4
  <2>3. CASE ~(a <= Len(matches))
    <3>1. /\ both[a] = found[a - Len(matches)] /\ a - Len(matches) \in 1 .. Len(found)
          /\ both[b] = found[b - Len(matches)] /\ b - Len(matches) \in 1 .. Len(found)
          /\ a - Len(matches) < b - Len(matches)
      BY <1>3, <1>8, <2>3
    <3> QED
      BY <1>7, <3>1
  <2> QED
    BY <2>1, <2>2, <2>3
<1>9. InOrder(both)
  BY <1>3, <1>8 DEF InOrder
<1> QED
  BY <1>2, <1>9 DEF both

(* What a chunk makes of what was found. *)
LEMMA FoundByChunk ==
  ASSUME TypeInv, FoundInv, searchChunk, {"stale", "reindexed"} \cap history = {}
  PROVE  /\ InOrder(searchData_'.matches)
         /\ Range(searchData_'.matches) = LinesThat(source, search.i + LinesRead, searched)
<1> DEFINE j == search.i + LinesRead
<1>1. workerPc = "read"
  BY DEF searchChunk
<1>2. /\ operationRequested_.regexp = searched
      /\ GoesOnFrom(source, NbStable, searchData_, searched, search)
      /\ InOrder(searchData_.matches)
  BY <1>1 DEF FoundInv, IsFound
<1>3. PICK found \in Seq(0 .. MaxLines - 1) :
        /\ Range(found) = Matching(search.i, j, operationRequested_.regexp)
        /\ InOrder(found)
        /\ searchData_'.matches = searchData_.matches \o found
  BY Chunk
<1>4. /\ LinesRead \in Nat /\ search.i \in Nat /\ j \in Nat /\ search.i <= j
      /\ search.i < search.nbSourceLines
  BY <1>1, ChunkFits DEF TypeInv, WorkType
<1>5. Range(searchData_.matches) = LinesThat(source, search.i, searched)
  BY <1>2, <1>4 DEF GoesOnFrom
<1>6. /\ searchData_.matches \in Seq(0 .. MaxLines) /\ found \in Seq(0 .. MaxLines)
      /\ MaxLines \in Nat
  <2>1. 0 .. MaxLines - 1 \subseteq 0 .. MaxLines /\ searchData_.matches \in Seq(0 .. MaxLines - 1)
    BY ConstantsAssumption DEF TypeInv, WorkType
  <2> QED
    BY <2>1, SeqMonotonic, ConstantsAssumption
<1>7. Range(found) = LinesIn(source, search.i, j, searched)
  BY <1>2, <1>3 DEF Matching, LinesIn
<1>8. InOrder(found) /\ InOrder(searchData_.matches)
  BY <1>2, <1>3
<1> HIDE DEF j
<1>9. /\ InOrder(searchData_.matches \o found)
      /\ Range(searchData_.matches \o found) = LinesThat(source, j, searched)
  BY <1>4, <1>5, <1>6, <1>7, <1>8, ChunkAdds
<1> QED
  BY <1>3, <1>9 DEF j

(* Every step keeps what was found right: a chunk goes on from where the one
   before ended, an update takes back the last line searched. *)
LEMMA FoundStep ==
  TypeInv /\ LoadingInv /\ ShownInv /\ FoundInv /\ [Next]_vars => FoundInv'
<1> SUFFICES ASSUME TypeInv, LoadingInv, ShownInv, FoundInv, [Next]_vars,
                    {"stale", "reindexed"} \cap history' = {}
             PROVE  /\ IsFound(source', NbStable', searchData_', searched')
                    /\ operationRequested_'.kind = "Update" =>
                         /\ operationRequested_'.regexp = searched'
                         /\ workerPc' = "wait" =>
                              operationRequested_'.position = searchData_'.nbLinesProcessed
                    /\ workerPc' # "wait" =>
                         /\ operationRequested_'.regexp = searched'
                         /\ GoesOnFrom(source', NbStable', searchData_', searched', search')
  BY DEF FoundInv
<1>0. TypeInv'
  BY TypeStep
<1>1. /\ NbStable \in Nat /\ NbStable' \in Nat /\ Len(source) \in Nat
      /\ NbStable <= Len(source) /\ Len(source) <= NbStable + 1
      /\ NbStable' <= Len(source') /\ Len(source') <= NbStable' + 1
  <2>1. Len(source') \in Nat /\ (fakeFinalLF' => Len(source') > 0)
    BY <1>0 DEF TypeInv, LogType
  <2>2. NbStable' = IF fakeFinalLF' THEN Len(source') - 1 ELSE Len(source')
    BY DEF NbStable
  <2>3. NbStable' \in Nat /\ NbStable' <= Len(source') /\ Len(source') <= NbStable' + 1
    <3>1. CASE fakeFinalLF'
      BY <2>1, <2>2, <3>1
    <3>2. CASE ~fakeFinalLF'
      BY <2>1, <2>2, <3>2
    <3> QED
      BY <3>1, <3>2
  <2> QED
    BY <2>3, StableLines
<1>2. /\ searchData_.nbLinesProcessed \in Nat /\ search.i \in Nat /\ search.nbSourceLines \in Nat
      /\ searchData_.matches \in Seq(0 .. MaxLines - 1)
  BY ConstantsAssumption DEF TypeInv, WorkType
<1>3. ASSUME UNCHANGED workVars, {"stale", "reindexed"} \cap history = {},
             ~startFullIndexing \/ source = <<>>
      PROVE  /\ IsFound(source', NbStable', searchData_', searched')
             /\ workerPc' # "wait" =>
                  GoesOnFrom(source', NbStable', searchData_', searched', search')
             /\ workerPc # "wait" => operationRequested_.regexp = searched
             /\ operationRequested_.kind = "Update" =>
                  /\ operationRequested_.regexp = searched
                  /\ workerPc = "wait" =>
                       operationRequested_.position = searchData_.nbLinesProcessed
  <2>1. NbStable <= NbStable' /\ \A k \in 1 .. NbStable : source'[k] = source[k]
    BY <1>0, <1>3, LinesStay
  <2>2. /\ IsFound(source, NbStable, searchData_, searched)
        /\ workerPc # "wait" => GoesOnFrom(source, NbStable, searchData_, searched, search)
    BY <1>3 DEF FoundInv
  <2>3. /\ IsFound(source', NbStable', searchData_, searched)
        /\ workerPc # "wait" => GoesOnFrom(source', NbStable', searchData_, searched, search)
    BY <1>1, <1>2, <2>1, <2>2, StaysFound
  <2> QED
    BY <1>3, <2>3 DEF FoundInv, workVars
<1>4. CASE /\ UNCHANGED <<workVars, operationRequested_>>
           /\ {"stale", "reindexed"} \cap history = {}
           /\ ~startFullIndexing \/ source = <<>>
  BY <1>3, <1>4 DEF workVars
<1>5. CASE Log
  <2>1. ~startFullIndexing \/ source = <<>>
    BY DEF startFullIndexing
  <2> QED
    BY <1>4, <1>5, <2>1 DEF Log, startFullIndexing, addAll, finishIndexing, fileGrew,
       fileTruncated
<1>6. CASE User
  <2>1. ~startFullIndexing \/ source = <<>>
    BY DEF startFullIndexing
  <2> QED
    BY <1>4, <1>6, <2>1 DEF User, startNewSearch, stopSearch, stopLoading, reload,
       searchRefreshChangedHandler, searchTextChangeHandler
<1>7. CASE searchRequested
  <2>1. /\ operationRequested_'.kind = "Full" /\ workerPc = "wait"
        /\ UNCHANGED <<workVars, history, sourceVars>>
    BY <1>7 DEF searchRequested, request, NothingToDo
  <2>2. ~startFullIndexing \/ source = <<>>
    BY DEF startFullIndexing
  <2> QED
    BY <1>3, <2>1, <2>2 DEF workVars
<1>8. CASE updateRequested
  <2>1. /\ operationRequested_' = [kind |-> "Update", regexp |-> currentRegExp_,
                                   position |-> nbLinesProcessed_]
        /\ nbLinesProcessed_ = searchData_.nbLinesProcessed
        /\ {"stale", "reindexed"} \cap history = {}
        /\ workerPc = "wait" /\ UNCHANGED workVars
    BY <1>8 DEF updateRequested, request, NothingToDo
  <2>2. currentRegExp_ = searched
    <3>1. Showing
      BY <1>8 DEF updateRequested, LoadingInv, StateInv, Showing, SearchIsActive, At
    <3>2. ~FullAwaited
      BY <1>8 DEF updateRequested, NothingToDo, NoOperation, FullAwaited
    <3> QED
      BY <3>1, <3>2 DEF ShownInv
  <2>3. ~startFullIndexing \/ source = <<>>
    BY DEF startFullIndexing
  <2> QED
    BY <1>3, <2>1, <2>2, <2>3 DEF workVars
<1>9. CASE Gui
  <2>1. ~startFullIndexing \/ source = <<>>
    BY DEF startFullIndexing
  <2> QED
    BY <1>4, <1>7, <1>8, <1>9, <2>1 DEF Gui, interruptReturns, processEventsReturns,
       handleSearchProgressed, loadingFinishedHandler, indexingFinishedReturns
<1>10. CASE Worker
  <2> DEFINE n == searchData_.nbLinesProcessed
  <2>0. UNCHANGED source /\ NbStable' = NbStable
    <3>1. UNCHANGED sourceVars
      BY <1>10 DEF Worker, startFullSearch, startUpdateSearch, beginSearch, nextChunk,
         searchChunk, endSearch
    <3> QED
      BY <3>1 DEF sourceVars, NbStable
  <2>1. CASE startFullSearch
    <3>1. /\ searchData_' = [matches |-> <<>>, nbLinesProcessed |-> 0]
          /\ search' = [initialLine |-> 0, nbSourceLines |-> Len(source),
                        nbMatches |-> Len(<<>>), i |-> 0]
          /\ searched' = operationRequested_.regexp /\ operationRequested_.kind = "Full"
          /\ UNCHANGED operationRequested_
      BY <2>1 DEF startFullSearch, beginSearch
    <3>2. InOrder(<<>>) /\ Range(<<>>) = {}
      BY DEF InOrder, Range
    <3>3. \A r : LinesThat(source, 0, r) = {}
      BY DEF LinesThat
    <3>4. IsFound(source', NbStable', searchData_', searched')
      BY <1>1, <2>0, <3>1, <3>2 DEF IsFound
    <3>5. GoesOnFrom(source', NbStable', searchData_', searched', search')
      BY <1>1, <2>0, <3>1, <3>2, <3>3 DEF GoesOnFrom
    <3> QED
      BY <3>1, <3>4, <3>5
  <2>2. CASE startUpdateSearch
    <3> DEFINE line == IF n >= 1 THEN n - 1 ELSE n
               left == IF n >= 1 THEN deleteMatch(searchData_.matches, line)
                       ELSE searchData_.matches
    <3>1. {"stale", "reindexed"} \cap history = {} /\ operationRequested_.kind = "Update"
          /\ workerPc = "wait" /\ UNCHANGED <<operationRequested_, searched>>
      BY <2>2 DEF startUpdateSearch, beginSearch
    <3>2. /\ IsFound(source, NbStable, searchData_, searched)
          /\ operationRequested_.regexp = searched
          /\ operationRequested_.position = n
      BY <3>1 DEF FoundInv
    <3>3. /\ search'.i = line /\ search'.nbSourceLines = Len(source)
          /\ searchData_'.matches = left /\ searchData_'.nbLinesProcessed = n
      <4>1. searchData_ \in [matches : Seq(0 .. MaxLines - 1), nbLinesProcessed : 0..MaxLines]
        BY DEF TypeInv, WorkType
      <4> QED
        BY <2>2, <3>2, <4>1 DEF startUpdateSearch, beginSearch
    <3>4. /\ InOrder(searchData_.matches) /\ Range(searchData_.matches) \subseteq 0 .. n - 1
          /\ n <= NbStable + 1
          /\ n # 0 => Range(searchData_.matches) \ {n - 1} = LinesThat(source, n - 1, searched)
      BY <3>2 DEF IsFound
    <3>5. /\ InOrder(left) /\ Range(left) \subseteq 0 .. n - 1
          /\ Range(left) = LinesThat(source, line, searched)
          /\ n # 0 => Range(left) \ {n - 1} = LinesThat(source, n - 1, searched)
      <4>1. CASE n >= 1
        <5>1. line \in Nat /\ line = n - 1 /\ n # 0
          BY <1>2, <4>1
        <5>2. InOrder(left) /\ Range(left) = Range(searchData_.matches) \ {line}
          BY <1>2, <3>4, <4>1, <5>1, DeletedMatch, ConstantsAssumption
        <5> HIDE DEF left, line, n
        <5> QED
          BY <3>4, <5>1, <5>2
      <4>2. CASE ~(n >= 1)
        <5>1. n = 0 /\ line = 0 /\ left = searchData_.matches
          BY <1>2, <4>2
        <5>2. Range(searchData_.matches) = {} /\ LinesThat(source, 0, searched) = {}
          BY <3>4, <5>1 DEF LinesThat
        <5> QED
          BY <3>4, <5>1, <5>2
      <4> QED
        BY <4>1, <4>2
    <3>6. n \in {line, line + 1}
      BY <1>2
    <3> HIDE DEF left, line
    <3>7. IsFound(source', NbStable', searchData_', searched')
      BY <2>0, <3>1, <3>3, <3>4, <3>5 DEF IsFound
    <3>8. GoesOnFrom(source', NbStable', searchData_', searched', search')
      BY <1>1, <2>0, <3>1, <3>3, <3>5, <3>6 DEF GoesOnFrom
    <3>9. workerPc' = "loop"
      BY <2>2 DEF startUpdateSearch, beginSearch
    <3> QED
      BY <3>1, <3>2, <3>7, <3>8, <3>9
  <2>3. CASE nextChunk \/ endSearch
    <3>1. {"stale", "reindexed"} \cap history = {} /\ UNCHANGED <<searchData_, searched>>
          /\ workerPc # "wait"
      BY <2>3 DEF nextChunk, endSearch
    <3>2. IsFound(source', NbStable', searchData_', searched')
      BY <2>0, <3>1 DEF FoundInv
    <3>3. CASE nextChunk
      BY <2>0, <3>1, <3>2, <3>3 DEF nextChunk, FoundInv
    <3>4. CASE endSearch
      BY <3>2, <3>4 DEF endSearch, NoOperation
    <3> QED
      BY <2>3, <3>3, <3>4
  <2>4. CASE searchChunk
    <3> DEFINE j == search.i + LinesRead
    <3>1. /\ workerPc = "read" /\ workerPc' = "loop"
          /\ {"stale", "reindexed"} \cap history = {}
          /\ UNCHANGED <<operationRequested_, searched>>
      BY <2>4 DEF searchChunk
    <3>2. /\ operationRequested_.regexp = searched
          /\ GoesOnFrom(source, NbStable, searchData_, searched, search)
          /\ InOrder(searchData_.matches)
      BY <3>1 DEF FoundInv, IsFound
    <3>3. /\ searchData_'.nbLinesProcessed = j
          /\ search' = [search EXCEPT !.nbMatches = Len(searchData_'.matches),
                                      !.i = search.i + nbLinesInChunk]
      BY <2>4, Chunk
    <3>4. /\ LinesRead \in Nat /\ j \in Nat /\ search.i <= j /\ j <= search.nbSourceLines
          /\ search.i < search.nbSourceLines
          /\ LinesRead <= nbLinesInChunk
          /\ LinesRead = 0 =>
               /\ Len(source) < search.nbSourceLines
               /\ \/ Len(source) < search.i + nbLinesInChunk
                  \/ search.nbSourceLines <= search.i + nbLinesInChunk
          /\ LinesRead # 0 => j = search.nbSourceLines \/ LinesRead = nbLinesInChunk
      BY <1>2, <3>1, ChunkFits DEF TypeInv, WorkType
    <3>5. search'.i = search.i + nbLinesInChunk /\ search'.nbSourceLines = search.nbSourceLines
      BY <3>3 DEF TypeInv, WorkType
    <3>6. search.nbSourceLines <= NbStable + 1
          /\ Range(searchData_.matches) = LinesThat(source, search.i, searched)
      BY <3>2, <3>4 DEF GoesOnFrom
    <3>7. InOrder(searchData_'.matches)
          /\ Range(searchData_'.matches) = LinesThat(source, j, searched)
      BY <2>4, <3>1, FoundByChunk
    <3> HIDE DEF j
    <3>8. IsFound(source', NbStable', searchData_', searched')
      <4>1. Range(searchData_'.matches) \subseteq 0 .. j - 1
        BY <3>7 DEF LinesThat
      <4>2. Range(searchData_'.matches) \ {j - 1} = LinesThat(source, j - 1, searched)
        <5>1. \A l : l \in 0 .. (j - 1) - 1 <=> l \in 0 .. j - 1 /\ l # j - 1
          BY <3>4
        <5> QED
          BY <3>7, <5>1 DEF LinesThat
      <4>3. j <= NbStable + 1
        BY <1>1, <1>2, <3>4, <3>6
      <4> QED
        BY <2>0, <3>1, <3>3, <3>7, <4>1, <4>2, <4>3 DEF IsFound
    <3>9. GoesOnFrom(source', NbStable', searchData_', searched', search')
      <4>1. ASSUME search.i + nbLinesInChunk < search.nbSourceLines
            PROVE  j = search.i + nbLinesInChunk
        <5>1. nbLinesInChunk \in Nat \ {0}
          BY ConstantsAssumption
        <5>2. LinesRead # 0
          BY <1>1, <1>2, <3>4, <3>6, <4>1, <5>1
        <5>3. j # search.nbSourceLines
          BY <1>2, <3>4, <4>1, <5>1 DEF j
        <5> QED
          BY <3>4, <5>2, <5>3 DEF j
      <4> QED
        BY <2>0, <3>1, <3>3, <3>5, <3>6, <3>7, <4>1 DEF GoesOnFrom
    <3> QED
      BY <3>1, <3>2, <3>8, <3>9
  <2> QED
    BY <1>10, <2>1, <2>2, <2>3, <2>4 DEF Worker
<1>11. CASE UNCHANGED vars
  <2>1. ~startFullIndexing \/ source = <<>>
    BY DEF startFullIndexing
  <2> QED
    BY <1>4, <1>11, <2>1 DEF vars
<1> QED
  BY <1>5, <1>6, <1>9, <1>10, <1>11 DEF Next

(* At first nothing was searched. *)
LEMMA FoundInit == Init => FoundInv
<1> SUFFICES ASSUME Init PROVE FoundInv
  OBVIOUS
<1>1. /\ searchData_ = [matches |-> <<>>, nbLinesProcessed |-> 0]
      /\ operationRequested_.kind = "none" /\ workerPc = "wait"
  BY DEF Init, NoOperation
<1>2. InOrder(<<>>) /\ Range(<<>>) = {}
  BY DEF InOrder, Range
<1>3. NbStable \in Nat
  BY TypeInit, StableLines
<1>4. IsFound(source, NbStable, searchData_, searched)
  BY <1>1, <1>2, <1>3 DEF IsFound
<1> QED
  BY <1>1, <1>4 DEF FoundInv

(* However the search is cut into chunks and updates, interrupted and      *)
(* resumed, while the log grows and its last line is completed: what was   *)
(* found is what matches in the lines searched, all of it, once, in order. *)
THEOREM FoundCorrect == Spec => []FoundIsPrefix
<1>1. Init => TypeInv /\ LoadingInv /\ ShownInv /\ FoundInv
  BY TypeInit, LoadingInit, ShownInit, FoundInit
<1>2. TypeInv /\ LoadingInv /\ ShownInv /\ FoundInv /\ [Next]_vars
        => (TypeInv /\ LoadingInv /\ ShownInv /\ FoundInv)'
  BY TypeStep, LoadingStep, ShownStep, FoundStep
<1>3. ASSUME TypeInv, FoundInv PROVE FoundIsPrefix
  <2> DEFINE n == searchData_.nbLinesProcessed
  <2> SUFFICES ASSUME {"stale", "reindexed"} \cap history = {}, n - 1 # -1
               PROVE  /\ InOrder(searchData_.matches)
                      /\ Range(searchData_.matches) \subseteq 0 .. n - 1
                      /\ Range(searchData_.matches) \ {n - 1} = Matching(0, n - 1, searched)
    BY DEF FoundIsPrefix
  <2>1. n # 0
    OBVIOUS
  <2>2. IsFound(source, NbStable, searchData_, searched)
    BY <1>3 DEF FoundInv
  <2> QED
    BY <2>1, <2>2 DEF IsFound, LinesThat, Matching
<1>4. TypeInv /\ FoundInv => FoundIsPrefix
  BY <1>3
<1> QED
  BY <1>1, <1>2, <1>4, PTL DEF Spec

(* A loading that is over, and followed, was before as well; unless it is  *)
(* followed now.                                                           *)
LEMMA StaysFollowed ==
  ASSUME TypeInv, LoadingInv, [Next]_vars, SearchIsActive', ~Unfollowed',
         "unrefreshed" \notin history', ~searchRequested, ~updateRequested
  PROVE  SearchIsActive /\ ~Unfollowed /\ UNCHANGED sourceVars
<1>0. SearchIsActive /\ stack \in Seq(Frame)
  BY StaysActive DEF TypeInv, GuiType
<1>1. CASE UNCHANGED <<currentOperation_, stack, sourceVars>>
  BY <1>0, <1>1 DEF Unfollowed, At
<1>2. CASE fileGrew \/ fileTruncated
  BY <1>0, <1>2 DEF fileGrew, fileTruncated, enqueueOperation, guiVars, Unfollowed, At, None
<1>3. CASE finishIndexing
  <2>1. \A k \in DOMAIN stack : ~Loaded(k)
    BY <1>3 DEF finishIndexing, LoadingInv, LoadedInv
  <2>2. ~At("loaded")
    BY <1>0, <2>1, HasLast DEF At, Loaded
  <2>3. ~At("loaded")'
    BY <1>3, <2>2 DEF finishIndexing, At
  <2> QED
    BY <1>3, <2>3 DEF finishIndexing, Unfollowed
<1>4. CASE Log
  BY <1>2, <1>3, <1>4 DEF Log, startFullIndexing, addAll, Unfollowed
<1>5. ASSUME NEW f \in {"stop", "stopLoading", "replace", "events", "run"},
             Nests(f) \/ GoesOn(f), UNCHANGED <<currentOperation_, sourceVars>>
      PROVE  ~Unfollowed
  <2>1. ~At("loaded")'
    BY <1>5 DEF Nests, GoesOn
  <2> QED
    BY <1>5, <2>1 DEF Unfollowed
<1>6. CASE User
  <2>1. CASE startNewSearch \/ stopSearch \/ stopLoading
    <3>1. UNCHANGED <<currentOperation_, sourceVars>>
      BY <2>1 DEF startNewSearch, stopSearch, stopLoading, loadVars
    <3> QED
      BY <1>0, <1>5, <2>1, <3>1, Handlers
  <2>2. ~reload
    BY DEF reload, SearchIsActive
  <2> QED
    BY <1>1, <1>6, <2>1, <2>2 DEF User, searchRefreshChangedHandler, searchTextChangeHandler,
       loadVars
<1>7. CASE interruptReturns
  <2>1. UNCHANGED <<currentOperation_, sourceVars>>
    BY <1>7 DEF interruptReturns, loadVars
  <2>2. ASSUME Returns, NEW f \in {"stop", "stopLoading"}, At(f) PROVE ~At("loaded")'
    <3>1. stack # <<>> /\ Last(stack) = f
      BY <2>2 DEF At
    <3>2. Len(stack) \in DOMAIN stack /\ stack[Len(stack)] = f
      BY <1>0, <3>1, HasLast
    <3>3. Len(stack) = 1
      BY <3>2 DEF LoadingInv, StateInv
    <3> QED
      BY <2>2, <3>3 DEF Returns
  <2>3. CASE ~At("loaded")'
    BY <1>0, <2>1, <2>3 DEF Unfollowed
  <2>4. CASE GoesOn("events")
    BY <1>0, <1>5, <2>1, <2>4
  <2> QED
    BY <1>0, <1>7, <2>2, <2>3, <2>4, Handlers
<1>8. CASE processEventsReturns
  <2>1. UNCHANGED <<currentOperation_, sourceVars>>
    BY <1>8 DEF processEventsReturns, loadVars
  <2>2. GoesOn("run")
    BY <1>0, <1>8, Handlers DEF SearchIsActive
  <2> QED
    BY <1>0, <1>5, <2>1, <2>2
<1>9. CASE loadingFinishedHandler
  <2>1. Takes("loadingFinished") /\ UNCHANGED currentOperation_
    BY <1>9, Events DEF loadingFinishedHandler, loadVars
  <2>2. 1 \in DOMAIN guiQueue /\ Finishes(1)
    BY <2>1 DEF Takes, Finishes, TypeInv, GuiType
  <2>3. currentOperation_' = "finished"
    BY <2>1, <2>2 DEF LoadingInv, FinishInv
  <2>4. \/ NestsIn("replace")
        \/ NestsIn("update")
    BY <1>0, <1>9, Handlers
  <2>5. ~At("loaded")'
    BY <2>4 DEF NestsIn
  <2> QED
    BY <2>3, <2>5 DEF Unfollowed
<1>10. CASE indexingFinishedReturns
  <2>1. At("loaded") /\ UNCHANGED sourceVars
    BY <1>10 DEF indexingFinishedReturns
  <2>2. Len(stack) \in DOMAIN stack /\ Loaded(Len(stack))
    <3>1. stack # <<>> /\ Last(stack) = "loaded"
      BY <2>1 DEF At
    <3> QED
      BY <1>0, <3>1, HasLast DEF Loaded
  <2>3. currentOperation_ = "finished"
    BY <2>2 DEF LoadingInv, LoadedInv
  <2> QED
    BY <1>0, <2>1, <2>3 DEF Unfollowed
<1>11. CASE handleSearchProgressed
  BY <1>1, <1>11 DEF handleSearchProgressed, loadVars
<1>12. CASE Gui
  BY <1>7, <1>8, <1>9, <1>10, <1>11, <1>12 DEF Gui
<1>13. CASE Worker
  BY <1>1, <1>13 DEF Worker, startFullSearch, startUpdateSearch, beginSearch, nextChunk,
     searchChunk, endSearch, guiVars, loadVars
<1>14. CASE UNCHANGED vars
  BY <1>1, <1>14 DEF vars, guiVars, loadVars
<1> QED
  BY <1>4, <1>6, <1>12, <1>13, <1>14 DEF Next

(* Every step keeps it: an update begins at the line that may have changed,
   and the search it makes ends at the end of the log. *)
LEMMA ExactStep ==
  TypeInv /\ LoadingInv /\ ShownInv /\ FoundInv /\ ExactInv /\ [Next]_vars => ExactInv'
<1> SUFFICES ASSUME TypeInv, LoadingInv, ShownInv, FoundInv, ExactInv, [Next]_vars,
                    SearchIsActive', ~Unfollowed', history' \cap (Past \ {"unseen"}) = {}
             PROVE  /\ operationRequested_'.kind = "none" => Exact'
                    /\ workerPc' # "wait" =>
                         /\ search'.nbSourceLines = Len(source')
                         /\ search'.i >= search'.nbSourceLines => Exact'
  BY DEF ExactInv
<1> DEFINE clean == history \cap (Past \ {"unseen"}) = {}
<1>0. TypeInv' /\ FoundInv'
  BY TypeStep, FoundStep
<1>1. {"stale", "reindexed", "stopped", "unrefreshed"} \cap history' = {}
      /\ history \subseteq Past
  BY DEF Past, TypeInv
<1>2. CASE searchRequested \/ updateRequested
  <2>1. workerPc' = "wait" /\ operationRequested_'.kind # "none"
    BY <1>2 DEF searchRequested, updateRequested, request, NothingToDo, workVars
  <2> QED
    BY <2>1
<1>3. ASSUME ~searchRequested, ~updateRequested
      PROVE  SearchIsActive /\ ~Unfollowed /\ UNCHANGED source
             /\ (UNCHANGED <<searchData_, searched>> => (Exact' <=> Exact))
  <2>1. SearchIsActive /\ ~Unfollowed /\ UNCHANGED source
    BY <1>1, <1>3, StaysFollowed DEF sourceVars
  <2> QED
    BY <2>1 DEF Exact
<1>4. ASSUME ~searchRequested, ~updateRequested, clean
      PROVE  /\ operationRequested_.kind = "none" => Exact
             /\ workerPc # "wait" =>
                  /\ search.nbSourceLines = Len(source)
                  /\ search.i >= search.nbSourceLines => Exact
  BY <1>3, <1>4 DEF ExactInv
<1>5. CASE /\ UNCHANGED <<workVars, operationRequested_>> /\ history \subseteq history'
           /\ ~searchRequested /\ ~updateRequested
  <2>1. clean
    BY <1>5
  <2> QED
    BY <1>3, <1>4, <1>5, <2>1 DEF workVars
<1> HIDE DEF clean
<1>6. CASE Log \/ User \/ UNCHANGED vars
  <2>1. CASE searchRequested \/ updateRequested
    BY <1>2, <2>1
  <2>2. CASE ~searchRequested /\ ~updateRequested
    <3>1. UNCHANGED <<workVars, operationRequested_>> /\ history \subseteq history'
      BY <1>6 DEF Log, startFullIndexing, addAll, finishIndexing, fileGrew, fileTruncated,
         User, startNewSearch, stopSearch, stopLoading, reload, searchRefreshChangedHandler,
         searchTextChangeHandler, vars
    <3> QED
      BY <1>5, <2>2, <3>1
  <2> QED
    BY <2>1, <2>2
<1>7. CASE Gui
  <2>1. CASE searchRequested \/ updateRequested
    BY <1>2, <2>1
  <2>2. CASE ~searchRequested /\ ~updateRequested
    <3>1. UNCHANGED <<workVars, operationRequested_>> /\ history \subseteq history'
      BY <1>7, <2>2 DEF Gui, interruptReturns, processEventsReturns, handleSearchProgressed,
         loadingFinishedHandler, indexingFinishedReturns
    <3> QED
      BY <1>5, <2>2, <3>1
  <2> QED
    BY <2>1, <2>2
<1>8. CASE Worker
  <2>0. ~searchRequested /\ ~updateRequested
    <3>1. CASE searchRequested \/ updateRequested
      <4>1. operationRequested_.kind = "none" /\ workerPc = "wait"
        BY <3>1 DEF searchRequested, updateRequested, NothingToDo, NoOperation
      <4>2. operationRequested_.kind # "none"
        BY <1>8, <4>1 DEF Worker, startFullSearch, startUpdateSearch, nextChunk, searchChunk,
           endSearch
      <4> QED
        BY <4>1, <4>2
    <3> QED
      BY <3>1
  <2>1. UNCHANGED source /\ Len(source) \in Nat
    BY <1>3, <2>0 DEF TypeInv, LogType
  <2>2. CASE startFullSearch
    <3>1. /\ searchData_' = [matches |-> <<>>, nbLinesProcessed |-> 0]
          /\ search'.i = 0 /\ search'.nbSourceLines = Len(source)
          /\ operationRequested_'.kind = "Full"
      BY <2>2 DEF startFullSearch, beginSearch
    <3>2. ASSUME Len(source) = 0 PROVE Exact'
      <4>1. \A r : LinesThat(source, 0, r) = {}
        BY DEF LinesThat
      <4>2. Range(searchData_'.matches) = {}
        BY <3>1 DEF Range
      <4>3. LinesThat(source', Len(source'), searched') = {}
        BY <2>1, <3>2, <4>1
      <4> QED
        BY <4>2, <4>3 DEF Exact
    <3>3. 0 >= Len(source) => Len(source) = 0
      BY <2>1
    <3> QED
      BY <2>1, <3>1, <3>2, <3>3
  <2>3. CASE startUpdateSearch
    <3> DEFINE n == searchData_.nbLinesProcessed
               line == IF n >= 1 THEN n - 1 ELSE n
               left == IF n >= 1 THEN deleteMatch(searchData_.matches, line)
                       ELSE searchData_.matches
    <3>1. /\ {"stale", "reindexed"} \cap history = {} /\ operationRequested_.kind = "Update"
          /\ workerPc = "wait" /\ UNCHANGED <<operationRequested_, searched>>
      BY <1>1, <2>3 DEF startUpdateSearch, beginSearch
    <3>2. IsFound(source, NbStable, searchData_, searched) /\ operationRequested_.position = n
      BY <3>1 DEF FoundInv
    <3>3. search'.i = line /\ search'.nbSourceLines = Len(source) /\ searchData_'.matches = left
      <4>1. searchData_ \in [matches : Seq(0 .. MaxLines - 1), nbLinesProcessed : 0..MaxLines]
        BY DEF TypeInv, WorkType
      <4> QED
        BY <2>3, <3>2, <4>1 DEF startUpdateSearch, beginSearch
    <3>4. /\ InOrder(searchData_.matches) /\ Range(searchData_.matches) \subseteq 0 .. n - 1
          /\ n <= NbStable + 1
          /\ n # 0 => Range(searchData_.matches) \ {n - 1} = LinesThat(source, n - 1, searched)
      BY <3>2 DEF IsFound
    <3>5. n \in Nat /\ NbStable \in Nat /\ NbStable <= Len(source)
      BY StableLines, ConstantsAssumption DEF TypeInv, WorkType
    <3>6. ASSUME line >= Len(source)
          PROVE  Range(left) = LinesThat(source, Len(source), searched)
      <4>1. CASE n >= 1
        <5>1. line = n - 1 /\ line \in Nat /\ n # 0
          BY <3>5, <4>1
        <5>2. line = Len(source)
          BY <2>1, <3>4, <3>5, <3>6, <5>1
        <5>3. searchData_.matches \in Seq(0 .. MaxLines - 1)
          BY DEF TypeInv, WorkType
        <5>4. Range(left) = Range(searchData_.matches) \ {line}
          BY <3>4, <4>1, <5>1, <5>3, DeletedMatch, ConstantsAssumption
        <5> HIDE DEF left, line, n
        <5> QED
          BY <3>4, <5>1, <5>2, <5>4
      <4>2. CASE ~(n >= 1)
        <5>1. n = 0 /\ line = 0 /\ left = searchData_.matches
          BY <3>5, <4>2
        <5>2. Len(source) = 0
          BY <2>1, <3>6, <5>1
        <5>3. Range(searchData_.matches) = {} /\ LinesThat(source, 0, searched) = {}
          BY <3>4, <5>1 DEF LinesThat
        <5> QED
          BY <5>1, <5>2, <5>3
      <4> QED
        BY <4>1, <4>2
    <3> HIDE DEF left, line
    <3>7. line >= Len(source) => Exact'
      BY <2>1, <3>1, <3>3, <3>6 DEF Exact
    <3> QED
      BY <2>1, <3>1, <3>3, <3>7
  <2>4. CASE nextChunk
    <3>1. /\ clean /\ workerPc # "wait" /\ search.i < search.nbSourceLines
          /\ UNCHANGED <<search, searchData_, searched, operationRequested_>>
      BY <2>4 DEF nextChunk, clean
    <3>2. search.i \in Nat /\ search.nbSourceLines \in Nat /\ operationRequested_.kind # "none"
      BY <3>1, ConstantsAssumption DEF TypeInv, WorkType
    <3>3. ~(search.i >= search.nbSourceLines)
      BY <3>1, <3>2
    <3> QED
      BY <1>4, <2>0, <2>1, <3>1, <3>2, <3>3
  <2>5. CASE searchChunk
    <3> DEFINE j == search.i + LinesRead
    <3>1. /\ clean /\ workerPc = "read" /\ {"stale", "reindexed"} \cap history = {}
          /\ UNCHANGED <<operationRequested_, searched>>
      BY <1>1, <2>5 DEF searchChunk, clean
    <3>2. search.nbSourceLines = Len(source) /\ operationRequested_.kind # "none"
      BY <1>4, <2>0, <3>1 DEF TypeInv, WorkType
    <3>3. /\ search'.i = search.i + nbLinesInChunk /\ search'.nbSourceLines = search.nbSourceLines
          /\ searchData_'.nbLinesProcessed = j
      <4>1. /\ searchData_'.nbLinesProcessed = j
            /\ search' = [search EXCEPT !.nbMatches = Len(searchData_'.matches),
                                        !.i = search.i + nbLinesInChunk]
        BY <2>5, Chunk
      <4> QED
        BY <4>1 DEF TypeInv, WorkType
    <3>4. ASSUME search.i + nbLinesInChunk >= search.nbSourceLines PROVE j = Len(source)
      <4>1. /\ search.i \in Nat /\ LinesRead \in Nat /\ j <= search.nbSourceLines
            /\ LinesRead = 0 => Len(source) < search.nbSourceLines
            /\ LinesRead # 0 => j = search.nbSourceLines \/ LinesRead = nbLinesInChunk
        BY <3>1, ChunkFits
      <4>2. LinesRead # 0
        BY <2>1, <3>2, <4>1
      <4> QED
        BY <2>1, <3>2, <3>4, <4>1, <4>2, ConstantsAssumption
    <3>5. Range(searchData_'.matches) = LinesThat(source, j, searched)
      BY <2>5, FoundByChunk, <3>1
    <3>6. search.i + nbLinesInChunk >= search.nbSourceLines => Exact'
      BY <2>1, <3>1, <3>4, <3>5 DEF Exact
    <3> QED
      BY <2>1, <3>1, <3>2, <3>3, <3>6
  <2>6. CASE endSearch
    <3>1. /\ clean /\ workerPc = "loop" /\ workerPc' = "wait"
          /\ ~(search.i < search.nbSourceLines)
          /\ UNCHANGED <<searchData_, searched>>
      BY <1>1, <2>6 DEF endSearch, clean
    <3>2. search.i \in Nat /\ search.nbSourceLines \in Nat
      BY ConstantsAssumption DEF TypeInv, WorkType
    <3>3. search.i >= search.nbSourceLines
      BY <3>1, <3>2
    <3>4. Exact
      BY <1>4, <2>0, <3>1, <3>3
    <3> QED
      BY <1>3, <2>0, <3>1, <3>4
  <2> QED
    BY <1>8, <2>2, <2>3, <2>4, <2>5, <2>6 DEF Worker
<1> QED
  BY <1>6, <1>7, <1>8 DEF Next

(* When the loadings of the log are over, whether they were followed by the *)
(* updates of an auto-refreshed search: everything that matches in the log *)
(* is shown, its last line included, once each and in order.               *)
THEOREM RefreshedCorrect == Spec => []QuietMeansRefreshed
<1> DEFINE Inv == TypeInv /\ LoadingInv /\ ShownInv /\ FoundInv /\ ExactInv
<1>1. Init => Inv
  <2>1. Init => ExactInv
    BY DEF Init, ExactInv, SearchIsActive
  <2> QED
    BY <2>1, TypeInit, LoadingInit, ShownInit, FoundInit
<1>2. Inv /\ [Next]_vars => Inv'
  BY TypeStep, LoadingStep, ShownStep, FoundStep, ExactStep
<1>3. ASSUME Inv, Quiescent, state_ = "Autorefreshing", history = {}
      PROVE  /\ InOrder(matching_lines_)
             /\ Range(matching_lines_) = Matching(0, Len(source), currentRegExp_)
  <2>1. /\ SearchIsActive /\ ~Unfollowed /\ Showing /\ ~FullAwaited
        /\ operationRequested_.kind = "none"
    BY <1>3 DEF Quiescent, SearchIsActive, Unfollowed, Showing, FullAwaited, NoOperation, At, None
  <2>2. ~Unhandled
    <3>1. DOMAIN guiQueue = {}
      BY <1>3 DEF Quiescent
    <3> QED
      BY <3>1 DEF Unhandled
  <2>3. matching_lines_ = searchData_.matches /\ currentRegExp_ = searched
    BY <1>3, <2>1, <2>2 DEF ShownInv
  <2>4. Exact
    BY <1>3, <2>1 DEF ExactInv
  <2>5. InOrder(searchData_.matches)
    BY <1>3 DEF FoundInv, IsFound
  <2> QED
    BY <2>3, <2>4, <2>5 DEF Exact, LinesThat, Matching
<1>4. Inv => QuietMeansRefreshed
  BY <1>3 DEF QuietMeansRefreshed
<1> HIDE DEF Inv
<1> QED
  BY <1>1, <1>2, <1>4, PTL DEF Spec

=============================================================================
