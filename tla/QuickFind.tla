----------------------------- MODULE QuickFind -----------------------------
(***************************************************************************)
(* QuickFind in one view: the pattern (QuickFindPattern), the bar          *)
(* (QuickFindWidget), the multiplexer (QuickFindMux), the selection        *)
(* (Selection) and the searches through the log (QuickFind).               *)
(*                                                                         *)
(* A search that lasts tells its progress, and so does one that finds      *)
(* nothing; QuickFindWidget::notify() then handles the events that wait,   *)
(* the user's among them.  Handlers therefore nest: stack holds what each  *)
(* of those that have begun has still to do, the innermost last.           *)
(*                                                                         *)
(* A line is, for each pattern, the set of the columns it matches at; a    *)
(* match is one column wide.                                               *)
(***************************************************************************)
EXTENDS Integers, SequencesExt, FiniteSetsExt

CONSTANTS
  Patterns,    \* the valid patterns
  Lines,       \* the lines a log may hold, functions from Patterns to columns
  NoPattern,   \* an empty or an invalid pattern
  MaxLines,    \* bound on the lines of the log
  MaxActions,  \* bound on what the user asks for
  MaxDepth     \* bound on the nesting of handlers

VARIABLES
  log,
  pattern,            \* quickFindPattern_
  currentDirection_,  \* of QuickFindMux
  selection,
  lastMatch,          \* lastMatch_
  firstMatch,         \* firstMatch_
  incremental,        \* incrementalSearchStatus_
  searchState,        \* searchState_
  stack,
  actions,
  (* History. *)
  looped,             \* a forward search has gone past its first line
  found               \* the last search's find, and what it went through

vars == <<log, pattern, currentDirection_, selection, lastMatch, firstMatch,
          incremental, searchState, stack, actions, looped, found>>

(***************************************************************************)
(* Positions and selections.                                               *)
(***************************************************************************)
Columns == 0..Max({0} \cup UNION {l[p] : l \in Lines, p \in Patterns})

FilePosition(line, column) == [line |-> line, column |-> column]

NoPosition == FilePosition(-1, -1)

NoSelection == [kind |-> "none"]
WholeLine(line) == [kind |-> "line", line |-> line]
Portion(line, column) == [kind |-> "portion", line |-> line, column |-> column]
LineRange(start, end) == [kind |-> "range", start |-> start, end |-> end]

isEmpty(s) == s.kind \in {"none", "range"}

clear(s) == IF s.kind = "range" THEN s ELSE NoSelection

getNextPosition(s) ==
  CASE s.kind = "none"    -> FilePosition(0, 0)
    [] s.kind = "line"    -> FilePosition(s.line + 1, 0)
    [] s.kind = "range"   -> FilePosition(s.end + 1, 0)
    [] s.kind = "portion" -> FilePosition(s.line, s.column + 1)

getPreviousPosition(s) ==
  CASE s.kind = "none"    -> FilePosition(0, 0)
    [] s.kind = "line"    -> FilePosition(s.line, 0)
    [] s.kind = "range"   -> FilePosition(s.start, 0)
    [] s.kind = "portion" -> FilePosition(s.line, Max({s.column - 1, 0}))

(* QuickFind::LastMatchPosition. *)
setLimit(limit, p) ==
  IF limit.line = -1 \/ (p.line <= limit.line /\ p.column < limit.column)
    THEN p ELSE limit

isLater(limit, p) ==
  /\ limit.line # -1
  /\ p.line > limit.line \/ (p.line = limit.line /\ p.column >= limit.column)

isSooner(limit, p) ==
  /\ limit.line # -1
  /\ p.line < limit.line \/ (p.line = limit.line /\ p.column <= limit.column)

(***************************************************************************)
(* Matches.  There are none past the end: such a line reads as empty.      *)
(***************************************************************************)
getNbLine == Len(log)

Matches(line, p) ==
  IF line \in 0..getNbLine - 1 /\ p # NoPattern THEN log[line + 1][p] ELSE {}

MatchesFrom(line, column) == {c \in Matches(line, pattern) : c >= column}

(* Those that end before the column, one column apart at least. *)
MatchesBefore(line, column) ==
  {c \in Matches(line, pattern) : column >= 0 => c + 1 < column}

(***************************************************************************)
(* The handlers under way.                                                 *)
(***************************************************************************)
Call(dir, inc) == [at |-> "call", dir |-> dir, inc |-> inc]

(* A loop over the lines, about to read one; asked is the pattern it has read
   all its lines for, if it is one. *)
Loop(dir, inc, line) ==
  [at |-> "loop", dir |-> dir, inc |-> inc, line |-> line, start |-> line,
   nbLines |-> getNbLine, asked |-> pattern]

Asked(loop) == IF loop.asked = pattern THEN pattern ELSE NoPattern

(* The end of the log was reached, and the notification of it handles events. *)
Notify(inc) == [at |-> "notify", inc |-> inc]

Top == Last(stack)
Below == Front(stack)

(* Nothing runs, or what runs is in QuickFindWidget::notify(). *)
EventLoop ==
  stack # <<>> =>
    Top.at = "notify" \/ (Top.at = "loop" /\ Top.line # Top.start)

NoIncremental == [direction |-> "None"]

isOngoing == incremental.direction # "None"

Init ==
  /\ log \in UNION {[1..n -> Lines] : n \in 1..MaxLines - 1}
  /\ pattern = NoPattern
  /\ currentDirection_ \in {"Forward", "Backward"}
  /\ selection = NoSelection
  /\ lastMatch = NoPosition
  /\ firstMatch = NoPosition
  /\ incremental = NoIncremental
  /\ searchState \in {"Idle", "OnGoing", "RestartNeeded"}
  /\ stack = <<>>
  /\ actions = 0
  /\ looped = FALSE
  /\ found = [line |-> -1, column |-> -1, from |-> -1, asked |-> NoPattern]

(***************************************************************************)
(* A search begins.                                                        *)
(***************************************************************************)
(* Where it begins: an incremental one in a direction begins again where it
   first did. *)
StartPosition(call) ==
  IF call.inc /\ incremental.direction = call.dir
    THEN incremental.position
    ELSE IF call.dir = "Forward" THEN getNextPosition(selection)
                                 ELSE getPreviousPosition(selection)

StartStatus(call) ==
  IF ~call.inc THEN NoIncremental
  ELSE IF incremental.direction = call.dir THEN incremental
  ELSE [direction |-> call.dir, position |-> StartPosition(call),
        selection |-> selection]

(* The search returns without a find: an incremental one shows nothing. *)
ReturnNothing(inc) ==
  selection' = IF inc THEN clear(selection) ELSE selection

Find(line, column, from, asked) ==
  /\ selection' = Portion(line, column)
  /\ found' = [line |-> line, column |-> column, from |-> from, asked |-> asked]

(* doSearchForward() up to its loop. *)
doSearchForward(call) ==
  LET start == StartPosition(call)
      here == MatchesFrom(start.line, start.column) IN
  /\ call.dir = "Forward"
  /\ UNCHANGED <<lastMatch, firstMatch>>
  /\ \/ /\ searchState = "OnGoing"
        /\ searchState' = "RestartNeeded"
        /\ ReturnNothing(call.inc)
        /\ stack' = Below
        /\ UNCHANGED <<looped, found>>
     \/ /\ searchState # "OnGoing" /\ pattern = NoPattern
        /\ ReturnNothing(call.inc)
        /\ stack' = Below
        /\ UNCHANGED <<searchState, looped, found>>
     \/ /\ searchState # "OnGoing" /\ pattern # NoPattern
        /\ isLater(lastMatch, start)
        /\ stack' = Append(Below, Notify(call.inc))
        /\ UNCHANGED <<selection, searchState, looped, found>>
     \/ /\ searchState # "OnGoing" /\ pattern # NoPattern
        /\ ~isLater(lastMatch, start)
        /\ here # {}
        /\ Find(start.line, Min(here), start.line, pattern)
        /\ stack' = Below
        /\ UNCHANGED <<searchState, looped>>
     \/ /\ searchState # "OnGoing" /\ pattern # NoPattern
        /\ ~isLater(lastMatch, start)
        /\ here = {}
        /\ searchState' = "OnGoing"
        /\ looped' = TRUE
        /\ stack' = Append(Below,
                           Loop("Forward", call.inc, start.line + 1))
        /\ UNCHANGED <<selection, found>>

(* doSearchBackward() up to its loop. *)
doSearchBackward(call) ==
  LET start == StartPosition(call)
      here == IF start.column > 0 THEN MatchesBefore(start.line, start.column)
                                  ELSE {} IN
  /\ call.dir = "Backward"
  /\ UNCHANGED <<lastMatch, firstMatch, searchState, looped>>
  /\ \/ /\ pattern = NoPattern
        /\ ReturnNothing(call.inc)
        /\ stack' = Below
        /\ UNCHANGED found
     \/ /\ pattern # NoPattern
        /\ isSooner(firstMatch, start)
        /\ stack' = Append(Below, Notify(call.inc))
        /\ UNCHANGED <<selection, found>>
     \/ /\ pattern # NoPattern
        /\ ~isSooner(firstMatch, start)
        /\ here # {}
        /\ Find(start.line, Max(here), start.line, pattern)
        /\ stack' = Below
     \/ /\ pattern # NoPattern
        /\ ~isSooner(firstMatch, start)
        /\ here = {}
        /\ stack' = Append(Below,
                           Loop("Backward", call.inc, start.line - 1))
        /\ UNCHANGED <<selection, found>>

startSearch ==
  /\ stack # <<>>
  /\ Top.at = "call"
  /\ incremental' = StartStatus(Top)
  /\ doSearchForward(Top) \/ doSearchBackward(Top)
  /\ UNCHANGED <<log, pattern, currentDirection_, actions>>

(***************************************************************************)
(* A step of a search: one line, and the notification after it.            *)
(***************************************************************************)
(* Bug: it starts over with the state and not with the line. *)
searchForwardLine_GoOn ==
  LET restart == searchState = "RestartNeeded"
      line == Top.line
      asked == IF restart THEN pattern ELSE Asked(Top)
      here == Matches(line, pattern) IN
  /\ stack # <<>>
  /\ Top.at = "loop" /\ Top.dir = "Forward"
  /\ Top.line < Top.nbLines
  /\ \/ /\ here # {}
        /\ Find(line, Min(here), Top.start, asked)
        /\ searchState' = "Idle"
        /\ stack' = Below
     \/ /\ here = {}
        /\ searchState' = "OnGoing"
        /\ stack' = Append(Below, [Top EXCEPT !.line = line + 1, !.asked = asked])
        /\ UNCHANGED <<selection, found>>
  /\ UNCHANGED <<log, pattern, currentDirection_, lastMatch, firstMatch,
                 incremental, actions, looped>>

(* Bug: a restart is not reset: the search starts over for ever. *)
searchForwardLine_StayRestarted ==
  LET restart == searchState = "RestartNeeded"
      line == IF restart THEN Top.start ELSE Top.line
      asked == IF restart THEN pattern ELSE Asked(Top)
      here == Matches(line, pattern) IN
  /\ stack # <<>>
  /\ Top.at = "loop" /\ Top.dir = "Forward"
  /\ Top.line < Top.nbLines
  /\ \/ /\ here # {}
        /\ Find(line, Min(here), Top.start, asked)
        /\ searchState' = "Idle"
        /\ stack' = Below
     \/ /\ here = {}
        /\ UNCHANGED searchState
        /\ stack' = Append(Below, [Top EXCEPT !.line = line + 1, !.asked = asked])
        /\ UNCHANGED <<selection, found>>
  /\ UNCHANGED <<log, pattern, currentDirection_, lastMatch, firstMatch,
                 incremental, actions, looped>>

searchForwardLine ==
  LET restart == searchState = "RestartNeeded"
      line == IF restart THEN Top.start ELSE Top.line
      asked == IF restart THEN pattern ELSE Asked(Top)
      here == Matches(line, pattern) IN
  /\ stack # <<>>
  /\ Top.at = "loop" /\ Top.dir = "Forward"
  /\ Top.line < Top.nbLines
  /\ \/ /\ here # {}
        /\ Find(line, Min(here), Top.start, asked)
        /\ searchState' = "Idle"
        /\ stack' = Below
     \/ /\ here = {}
        /\ searchState' = "OnGoing"
        /\ stack' = Append(Below, [Top EXCEPT !.line = line + 1, !.asked = asked])
        /\ UNCHANGED <<selection, found>>
  /\ UNCHANGED <<log, pattern, currentDirection_, lastMatch, firstMatch,
                 incremental, actions, looped>>

reachedEndOfFile ==
  /\ stack # <<>>
  /\ Top.at = "loop" /\ Top.dir = "Forward"
  /\ Top.line >= Top.nbLines
  /\ searchState' = "Idle"
  /\ lastMatch' = setLimit(lastMatch, getPreviousPosition(selection))
  /\ stack' = Append(Below, Notify(Top.inc))
  /\ UNCHANGED <<log, pattern, currentDirection_, selection, firstMatch,
                 incremental, actions, looped, found>>

searchBackwardLine ==
  LET here == Matches(Top.line, pattern) IN
  /\ stack # <<>>
  /\ Top.at = "loop" /\ Top.dir = "Backward"
  /\ Top.line >= 0
  /\ \/ /\ here # {}
        /\ Find(Top.line, Max(here), Top.start, Asked(Top))
        /\ stack' = Below
     \/ /\ here = {}
        /\ stack' = Append(Below, [Top EXCEPT !.line = @ - 1, !.asked = Asked(Top)])
        /\ UNCHANGED <<selection, found>>
  /\ UNCHANGED <<log, pattern, currentDirection_, lastMatch, firstMatch,
                 incremental, searchState, actions, looped>>

reachedBeginningOfFile ==
  /\ stack # <<>>
  /\ Top.at = "loop" /\ Top.dir = "Backward"
  /\ Top.line < 0
  /\ firstMatch' = setLimit(firstMatch, getNextPosition(selection))
  /\ stack' = Append(Below, Notify(Top.inc))
  /\ UNCHANGED <<log, pattern, currentDirection_, selection, lastMatch,
                 incremental, searchState, actions, looped, found>>

notifyReturns ==
  /\ stack # <<>>
  /\ Top.at = "notify"
  /\ ReturnNothing(Top.inc)
  /\ stack' = Below
  /\ UNCHANGED <<log, pattern, currentDirection_, lastMatch, firstMatch,
                 incremental, searchState, actions, looped, found>>

(***************************************************************************)
(* What the user does, and the log.                                        *)
(***************************************************************************)
UserActs ==
  /\ EventLoop
  /\ Len(stack) < MaxDepth
  /\ actions < MaxActions
  /\ actions' = actions + 1
  /\ UNCHANGED <<log, searchState, looped, found>>

resetLimits == lastMatch' = NoPosition /\ firstMatch' = NoPosition

(* The views forget the limits of another pattern. *)
changeSearchPattern(p) == pattern' = p /\ resetLimits

KeepPattern == UNCHANGED <<pattern, lastMatch, firstMatch>>

(* The text of the bar, or one of its buttons, changes; the check box says
   whether searches are incremental. *)
textChanged(p, isIncremental) ==
  /\ UserActs
  /\ IF isIncremental
       THEN /\ changeSearchPattern(p)
            /\ stack' = Append(stack, Call(currentDirection_, TRUE))
       ELSE KeepPattern /\ UNCHANGED stack
  /\ UNCHANGED <<currentDirection_, selection, incremental>>

incrementalSearchStop ==
  /\ incremental' = NoIncremental
  /\ selection' = IF isOngoing /\ isEmpty(selection)
                    THEN incremental.selection ELSE selection

(* Return, or an arrow of the bar, which searches once more. *)
confirmPattern(p, isIncremental, arrow) ==
  /\ UserActs
  /\ changeSearchPattern(p)
  /\ stack' = stack \o arrow
                \o (IF isIncremental THEN <<>>
                                     ELSE <<Call(currentDirection_, FALSE)>>)
  /\ IF isIncremental THEN incrementalSearchStop
                      ELSE UNCHANGED <<selection, incremental>>
  /\ UNCHANGED currentDirection_

cancelSearch(isIncremental) ==
  /\ UserActs
  /\ IF isIncremental
       THEN /\ incremental' = NoIncremental
            /\ selection' = IF isOngoing THEN incremental.selection ELSE selection
       ELSE UNCHANGED <<incremental, selection>>
  /\ changeSearchPattern(NoPattern)
  /\ currentDirection_' = "Forward"
  /\ UNCHANGED stack

(* n, N and the menu. *)
searchAgain(dir) ==
  /\ UserActs
  /\ stack' = Append(stack, Call(dir, FALSE))
  /\ KeepPattern
  /\ UNCHANGED <<currentDirection_, selection, incremental>>

(* The bar is opened: always forwards, with '/' and with '?'. *)
displayQuickFindBar ==
  /\ UserActs
  /\ currentDirection_' = "Forward"
  /\ KeepPattern
  /\ UNCHANGED <<selection, incremental, stack>>

(* '*' and '#': what is selected, if it is a part of a line. *)
findSelected(p, dir) ==
  /\ UserActs
  /\ selection.kind = "portion"
  /\ selection.column \in Matches(selection.line, p)
  /\ changeSearchPattern(p)
  /\ currentDirection_' = dir
  /\ stack' = Append(stack, Call(dir, FALSE))
  /\ UNCHANGED <<selection, incremental>>

(* The mouse. *)
select(s) ==
  /\ UserActs
  /\ selection' = s
  /\ KeepPattern
  /\ UNCHANGED <<currentDirection_, incremental, stack>>

(* The log grows, and the view is told: updateData(). *)
updateData(line) ==
  /\ EventLoop
  /\ getNbLine < MaxLines
  /\ log' = Append(log, line)
  /\ resetLimits
  /\ UNCHANGED <<pattern, currentDirection_, selection, incremental,
                 searchState, stack, actions, looped, found>>

Search ==
  \/ startSearch
  \/ searchForwardLine \/ reachedEndOfFile
  \/ searchBackwardLine \/ reachedBeginningOfFile
  \/ notifyReturns

UserAction ==
  \/ \E p \in Patterns \cup {NoPattern}, i \in BOOLEAN :
       \/ textChanged(p, i)
       \/ \E arrow \in {<<>>, <<Call("Forward", FALSE)>>, <<Call("Backward", FALSE)>>} :
            confirmPattern(p, i, arrow)
  \/ \E i \in BOOLEAN : cancelSearch(i)
  \/ \E dir \in {"Forward", "Backward"} :
       searchAgain(dir) \/ \E p \in Patterns : findSelected(p, dir)
  \/ displayQuickFindBar
  \/ \E l \in 0..getNbLine - 1 :
       \/ select(WholeLine(l))
       \/ \E c \in Columns : select(Portion(l, c))
       \/ \E m \in l + 1..getNbLine - 1 : select(LineRange(l, m))

Next == Search \/ UserAction \/ \E l \in Lines : updateData(l)

Spec == Init /\ [][Next]_vars

(* Handlers do return; the user and the log owe nothing. *)
FairSpec == Spec /\ WF_vars(Search)

-----------------------------------------------------------------------------
(***************************************************************************)
(* Properties.                                                             *)
(***************************************************************************)
(* The values of the variables. *)
TypeOK ==
  /\ log \in Seq(Lines)
  /\ pattern \in Patterns \cup {NoPattern}
  /\ currentDirection_ \in {"Forward", "Backward"}
  /\ {lastMatch, firstMatch} \subseteq
       {NoPosition} \cup {FilePosition(l, c) : l \in 0..MaxLines, c \in Columns \cup {Max(Columns) + 1}}
  /\ incremental.direction \in {"None", "Forward", "Backward"}
  /\ searchState \in {"Idle", "OnGoing", "RestartNeeded"}
  /\ Len(stack) <= MaxDepth + 2
  /\ looped \in BOOLEAN

(* "Use the current QFP to go and select the next match" (the previous one):
   no line that was passed over matches what was looked for, whatever patterns
   were typed meanwhile and however often the search began again. *)
FoundIsNearest ==
  found.asked # NoPattern =>
    /\ found.column \in Matches(found.line, found.asked)
    /\ \A l \in 0..getNbLine - 1 :
         (found.from <= l /\ l < found.line) \/ (found.line < l /\ l <= found.from)
           => Matches(l, found.asked) = {}

(* "This happens if this function is re-entered via the notifier": once a
   search has passed its first line, searchState_, which nothing initialises,
   only turns a forward search away while another is under way. *)
NoSearchLost ==
  looped /\ searchState # "Idle" =>
    \E i \in DOMAIN stack : stack[i].at = "loop" /\ stack[i].dir = "Forward"

(* A search ends, those that are asked to begin again included. *)
SearchReturns == (stack # <<>>) ~> (stack = <<>>)
=============================================================================
