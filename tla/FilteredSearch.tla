---------------------------- MODULE FilteredSearch ----------------------------
(***************************************************************************)
(* The search in one log: CrawlerWidget and its SearchState, and           *)
(* LogFilteredData, in the GUI thread; LogFilteredDataWorkerThread, its    *)
(* operations and the SearchData they share.                               *)
(*                                                                         *)
(* The log is seen through what LogData makes of it (module LogData): the  *)
(* lines indexed so far, each the set of the expressions it matches, the   *)
(* operations that change them and the signals it sends.                   *)
(*                                                                         *)
(* A handler of the GUI thread may block (interrupt(), search() and        *)
(* updateSearch() wait for the worker) and may run the event loop itself   *)
(* (processEvents() in replaceCurrentSearch()), so handlers nest: stack    *)
(* holds where each of those that have begun is, the innermost last.       *)
(***************************************************************************)
EXTENDS Integers, FiniteSets, SequencesExt

CONSTANTS
  Regexps,        \* the valid expressions that may be searched for
  nbLinesInChunk, \* SearchOperation::nbLinesInChunk
  MaxLines,       \* bound on the lines of the log
  MaxLoads,       \* bound on the loadings that the file's changes cause
  MaxUserActions, \* bound on what the user asks for
  UserActions,    \* the kinds of things the user asks for
  Truncations     \* whether the log may be truncated as well

VARIABLES
  (* The log, in LogData. *)
  source,             \* the lines indexed
  fakeFinalLF,        \* the last one is not LF-terminated
  currentOperation_,
  nextOperation_,
  (* CrawlerWidget. *)
  stack,              \* the handlers under way
  guiQueue,           \* the events posted to the GUI thread
  text,               \* what the search line holds
  state_,             \* SearchState
  autoRefreshRequested_,
  searchInfoLine,     \* there is a message on it
  stopButton,         \* it is enabled
  nbMatches_,
  shown,              \* the matches there were when the view was last updated
  (* LogFilteredData. *)
  matching_lines_,
  nbLinesProcessed_,
  currentRegExp_,
  (* LogFilteredDataWorkerThread and its operation. *)
  operationRequested_,
  interruptRequested_,
  workerPc,
  search,             \* doSearch()'s initialLine, nbSourceLines, nbMatches, i
  searchData_,        \* matches, nbLinesProcessed
  (* Bounds and history. *)
  loads,
  userActions,
  searched,           \* the expression of the last full search begun
  history             \* what happened since: "stale", an update began past or
                      \* before what was searched; "reindexed", the lines were
                      \* thrown away; "stopped", the last operation was
                      \* interrupted; "unrefreshed", a loading finished
                      \* while the search did not follow the log; "unseen",
                      \* an indexing from scratch that does not restart it

sourceVars == <<source, fakeFinalLF>>
loadVars == <<currentOperation_, nextOperation_, loads>>
stateVars == <<text, state_, autoRefreshRequested_>>
widgetVars == <<searchInfoLine, stopButton, nbMatches_, shown>>
resultVars == <<matching_lines_, nbLinesProcessed_, currentRegExp_>>
guiVars == <<stack, guiQueue, stateVars, widgetVars, resultVars>>
workVars == <<workerPc, search, searchData_, searched>>
vars == <<sourceVars, loadVars, guiVars, operationRequested_,
          interruptRequested_, workVars, userActions, history>>

None == "none"
Empty == "empty"      \* an empty search line, and the RegExpFilter of one
Invalid == "invalid"  \* an expression that is not valid
NoOperation == [kind |-> "none", regexp |-> Empty, position |-> 0]
NoSearch == [initialLine |-> 0, nbSourceLines |-> 0, nbMatches |-> 0, i |-> 0]
Line == SUBSET Regexps
State == {"NoSearch", "Static", "Autorefreshing", "FileTruncated",
          "TruncatedAutorefreshing"}
Frame == {"stop", "stopLoading", "replace", "events", "run", "update", "loaded"}
Finished == [is |-> "loadingFinished"]
Event ==
  {Finished} \cup [is : {"searchProgressed"}, progress : Int, nbMatches : Nat]
Past == {"stale", "reindexed", "stopped", "unrefreshed", "unseen"}

ASSUME ConstantsAssumption ==
  /\ nbLinesInChunk \in Nat \ {0} /\ MaxLines \in Nat
  /\ Regexps \cap {Empty, Invalid} = {}

TypeOK ==
  /\ source \in Seq(Line) /\ Len(source) <= MaxLines
  /\ fakeFinalLF \in BOOLEAN
  /\ currentOperation_ \in {None, "partial", "full", "running", "finished"}
  /\ nextOperation_ \in {None, "partial", "full"}
  /\ stack \in Seq(Frame) /\ guiQueue \in Seq(Event)
  /\ text \in Regexps \cup {Empty, Invalid}
  /\ state_ \in State
  /\ {autoRefreshRequested_, searchInfoLine, stopButton} \subseteq BOOLEAN
  /\ {nbMatches_, shown, nbLinesProcessed_} \subseteq Nat
  /\ matching_lines_ \in Seq(0 .. MaxLines - 1)
  /\ currentRegExp_ \in Regexps \cup {Empty}
  /\ operationRequested_.kind \in {"none", "Full", "Update"}
  /\ interruptRequested_ \in BOOLEAN
  /\ workerPc \in {"wait", "loop", "read"}
  /\ search.i \in Nat /\ search.nbSourceLines \in 0..MaxLines
  /\ searchData_.matches \in Seq(0 .. MaxLines - 1)
  /\ searchData_.nbLinesProcessed \in 0..MaxLines
  /\ history \subseteq Past

(* A log that was loaded, perhaps an empty one, in a new window. *)
Init ==
  /\ source \in UNION {[1..n -> Line] : n \in 0..MaxLines}
  /\ fakeFinalLF \in {source # <<>>, FALSE}
  /\ currentOperation_ = None /\ nextOperation_ = None
  /\ stack = <<>> /\ guiQueue = <<>>
  /\ text = Empty
  /\ state_ = "NoSearch" /\ autoRefreshRequested_ \in BOOLEAN
  /\ searchInfoLine = FALSE /\ stopButton = FALSE
  /\ nbMatches_ = 0 /\ shown = 0
  /\ matching_lines_ = <<>> /\ nbLinesProcessed_ = 0 /\ currentRegExp_ = Empty
  /\ operationRequested_ = NoOperation /\ interruptRequested_ = FALSE
  /\ workerPc = "wait"
  /\ search = NoSearch
  /\ searchData_ = [matches |-> <<>>, nbLinesProcessed |-> 0]
  /\ loads = 0 /\ userActions = 0
  /\ searched = Empty /\ history = {}

-----------------------------------------------------------------------------
(* LogData and its worker.                                                 *)

(* The GUI thread is in an event loop: its own, or that of processEvents().*)
At(frame) == stack # <<>> /\ Last(stack) = frame
Dispatching == stack = <<>> \/ At("events")

enqueueOperation(op) ==
  IF currentOperation_ = None
    THEN currentOperation_' = op /\ UNCHANGED nextOperation_
    ELSE nextOperation_' = op /\ UNCHANGED currentOperation_

(* FullIndexOperation::start() *)
startFullIndexing ==
  /\ currentOperation_ = "full"
  /\ source' = <<>> /\ fakeFinalLF' = FALSE
  /\ currentOperation_' = "running"
  /\ history' = IF source = <<>> THEN history ELSE history \cup {"reindexed"}
  /\ UNCHANGED <<nextOperation_, loads, guiVars, operationRequested_,
                 interruptRequested_, workVars, userActions>>

(* A block is read and added: the lines that end in it, the fake final one *)
(* giving way to what was read of it since.                                *)
addAll ==
  /\ currentOperation_ \in {"partial", "running"}
  /\ \E list \in {<<l>> : l \in Line} \cup (IF fakeFinalLF THEN {<<>>} ELSE {}) :
       source' = (IF fakeFinalLF THEN Front(source) ELSE source) \o list
  /\ Len(source') <= MaxLines
  /\ fakeFinalLF' = FALSE
  /\ currentOperation_' = "running"
  /\ UNCHANGED <<nextOperation_, loads, guiVars, operationRequested_,
                 interruptRequested_, workVars, userActions, history>>

(* The end of an indexing, cut short or not: a last line that is not       *)
(* terminated is added, and the GUI thread told.                           *)
finishIndexing ==
  /\ currentOperation_ \in {"partial", "running"}
  /\ currentOperation_' = "finished"
  /\ \/ UNCHANGED sourceVars
     \/ /\ ~fakeFinalLF /\ fakeFinalLF' = TRUE
        /\ Len(source) < MaxLines
        /\ \E l \in Line : source' = Append(source, l)
  /\ guiQueue' = Append(guiQueue, Finished)
  /\ UNCHANGED <<nextOperation_, loads, stack, stateVars, widgetVars, resultVars,
                 operationRequested_, interruptRequested_, workVars,
                 userActions, history>>

(* LogData::fileChangedOnDisk() finds that the file grew: fileChanged is   *)
(* emitted, which CrawlerWidget does nothing for.                          *)
fileGrew ==
  /\ Dispatching
  /\ loads < MaxLoads /\ loads' = loads + 1
  /\ enqueueOperation("partial")
  /\ UNCHANGED <<sourceVars, guiVars, operationRequested_, interruptRequested_,
                 workVars, userActions, history>>

-----------------------------------------------------------------------------
(* CrawlerWidget::fileChangedHandler() *)

clearSearch ==
  /\ currentRegExp_' = Empty
  /\ matching_lines_' = <<>>
  /\ nbLinesProcessed_' = 0

truncateFile ==
  state_' = IF state_ \in {"Autorefreshing", "TruncatedAutorefreshing"}
              THEN "TruncatedAutorefreshing" ELSE "FileTruncated"

(* LogData::fileChangedOnDisk() finds that the file shrank. *)
fileTruncated ==
  /\ Truncations
  /\ Dispatching
  /\ loads < MaxLoads /\ loads' = loads + 1
  /\ enqueueOperation("full")
  /\ IF searchInfoLine
       THEN /\ clearSearch
            /\ truncateFile
            /\ nbMatches_' = 0 /\ shown' = 0
       ELSE UNCHANGED <<resultVars, state_, nbMatches_, shown>>
  /\ history' = history \cup
       (IF ~searchInfoLine \/ stack # <<>> \/ currentOperation_ # None
          THEN {"unseen"} ELSE {})
  /\ UNCHANGED <<sourceVars, stack, guiQueue, text, autoRefreshRequested_,
                 searchInfoLine, stopButton, operationRequested_,
                 interruptRequested_, workVars, userActions>>

-----------------------------------------------------------------------------
(* The operations of SearchState, and the info line that shows it.         *)

printSearchInfoMessage == searchInfoLine' = (state_' # "NoSearch")

setAutorefresh(refresh) ==
  /\ autoRefreshRequested_' = refresh
  /\ state_' =
       CASE refresh /\ state_ = "Static"                    -> "Autorefreshing"
         [] ~refresh /\ state_ = "Autorefreshing"           -> "Static"
         [] ~refresh /\ state_ = "TruncatedAutorefreshing"  -> "FileTruncated"
         [] OTHER                                           -> state_

(* changeExpression() and stopSearch() *)
suspendAutorefresh ==
  state_' = IF state_ = "Autorefreshing" THEN "Static" ELSE state_

startSearch ==
  state_' = IF autoRefreshRequested_ THEN "Autorefreshing" ELSE "Static"

isAutorefreshAllowed == state_ \in {"Autorefreshing", "TruncatedAutorefreshing"}
(* Bug: where the search is to be refreshed the truncation is forgotten. *)
isFileTruncated_Static == state_ = "FileTruncated"
isFileTruncated == state_ \in {"FileTruncated", "TruncatedAutorefreshing"}

-----------------------------------------------------------------------------
(* The calls into the worker that block.                                   *)

NothingToDo == operationRequested_ = NoOperation /\ workerPc = "wait"

Begin(frame) == stack' = Append(stack, frame)
Return == stack' = Front(stack)

(* LogFilteredDataWorkerThread::interrupt() raises the flag, then waits. *)
interrupt(frame) == interruptRequested_' = TRUE /\ Begin(frame)

-----------------------------------------------------------------------------
(* What the user does, in the window's own event loop.                     *)

UserAction(kind) ==
  /\ kind \in UserActions
  /\ stack = <<>>
  /\ userActions < MaxUserActions /\ userActions' = userActions + 1

(* startNewSearch(), of what was edited or of a saved search picked from   *)
(* the list: replaceCurrentSearch(), up to its interrupt().                *)
startNewSearch ==
  /\ UserAction("search")
  /\ text' \in Regexps \cup ({text, Empty} \ {Invalid})
  /\ interrupt("replace")
  /\ UNCHANGED <<sourceVars, loadVars, guiQueue, state_, autoRefreshRequested_,
                 widgetVars, resultVars, operationRequested_, workVars, history>>

stopSearch ==
  /\ UserAction("stop")
  /\ stopButton
  /\ interrupt("stop")
  /\ UNCHANGED <<sourceVars, loadVars, guiQueue, stateVars, widgetVars,
                 resultVars, operationRequested_, workVars, history>>

stopLoading ==
  /\ UserAction("stopLoading")
  /\ interrupt("stopLoading")
  /\ UNCHANGED <<sourceVars, loadVars, guiQueue, stateVars, widgetVars,
                 resultVars, operationRequested_, workVars, history>>

reload ==
  /\ UserAction("reload")
  /\ state_' = "NoSearch"
  /\ clearSearch
  /\ shown' = 0
  /\ printSearchInfoMessage
  /\ enqueueOperation("full")
  /\ UNCHANGED <<sourceVars, loads, stack, guiQueue, text,
                 autoRefreshRequested_, stopButton, nbMatches_,
                 operationRequested_, interruptRequested_, workVars, history>>

searchRefreshChangedHandler ==
  /\ UserAction("refresh")
  /\ setAutorefresh(~autoRefreshRequested_)
  /\ printSearchInfoMessage
  /\ UNCHANGED <<sourceVars, loadVars, stack, guiQueue, text, stopButton,
                 nbMatches_, shown, resultVars, operationRequested_,
                 interruptRequested_, workVars, history>>

searchTextChangeHandler ==
  /\ UserAction("edit")
  /\ text' \in (Regexps \cup {Empty, Invalid}) \ {text}
  /\ suspendAutorefresh
  /\ printSearchInfoMessage
  /\ UNCHANGED <<sourceVars, loadVars, stack, guiQueue, autoRefreshRequested_,
                 stopButton, nbMatches_, shown, resultVars,
                 operationRequested_, interruptRequested_, workVars, history>>

-----------------------------------------------------------------------------
(* The rest of the handlers that block.                                    *)

(* interruptSearch() returned; interruptLoading() stops an indexing, which *)
(* may end anywhere anyhow.                                                *)
interruptReturns ==
  /\ NothingToDo
  /\ \/ /\ At("stop")
        /\ suspendAutorefresh
        /\ printSearchInfoMessage
        /\ Return
     \/ /\ At("stopLoading")
        /\ UNCHANGED <<state_, searchInfoLine>>
        /\ Return
     \/ /\ At("replace")
        /\ UNCHANGED <<state_, searchInfoLine>>
        /\ stack' = Append(Front(stack), "events")
  /\ UNCHANGED <<sourceVars, loadVars, guiQueue, text, autoRefreshRequested_,
                 stopButton, nbMatches_, shown, resultVars,
                 operationRequested_, interruptRequested_, workVars,
                 userActions, history>>

(* replaceCurrentSearch(), once processEvents() has no event left. *)
processEventsReturns ==
  /\ At("events") /\ guiQueue = <<>>
  /\ clearSearch
  /\ nbMatches_' = 0 /\ shown' = 0
  /\ \/ /\ text \in Regexps
        /\ stopButton' = TRUE
        /\ stack' = Append(Front(stack), "run")
        /\ UNCHANGED <<state_, searchInfoLine>>
     \/ /\ text = Invalid
        /\ state_' = "NoSearch" /\ searchInfoLine' = TRUE
        /\ Return
        /\ UNCHANGED stopButton
     \/ /\ text = Empty
        /\ state_' = "NoSearch"
        /\ printSearchInfoMessage
        /\ Return
        /\ UNCHANGED stopButton
  /\ UNCHANGED <<sourceVars, loadVars, guiQueue, text, autoRefreshRequested_,
                 operationRequested_, interruptRequested_, workVars,
                 userActions, history>>

(* Bug: the flag raised for the operation before is left up. *)
request_KeepFlag(operation) ==
  operationRequested_' = operation /\ UNCHANGED interruptRequested_

request(operation) ==
  operationRequested_' = operation /\ interruptRequested_' = FALSE

(* LogFilteredDataWorkerThread::search() can go on: the end of             *)
(* runSearch() and of replaceCurrentSearch().                              *)
searchRequested ==
  /\ At("run") /\ NothingToDo
  /\ currentRegExp_' = text
  /\ request([kind |-> "Full", regexp |-> text, position |-> 0])
  /\ startSearch
  /\ Return
  /\ UNCHANGED <<sourceVars, loadVars, guiQueue, text, autoRefreshRequested_,
                 widgetVars, matching_lines_, nbLinesProcessed_, workVars,
                 userActions, history>>

(* updateSearch() can go on, with the position it was called with. *)
updateRequested ==
  /\ At("update") /\ NothingToDo
  /\ request([kind |-> "Update", regexp |-> currentRegExp_,
              position |-> nbLinesProcessed_])
  /\ history' = history \cup
       (IF nbLinesProcessed_ = searchData_.nbLinesProcessed THEN {} ELSE {"stale"})
  /\ Return
  /\ UNCHANGED <<sourceVars, loadVars, guiQueue, stateVars, widgetVars,
                 resultVars, workVars, userActions>>

-----------------------------------------------------------------------------
(* Events.                                                                 *)

Take(is) == Dispatching /\ guiQueue # <<>> /\ Head(guiQueue).is = is
            /\ guiQueue' = Tail(guiQueue)

(* Bug: the view is updated only where there are more matches. *)
MatchesChanged_More(nbMatches) == nbMatches > nbMatches_

MatchesChanged(nbMatches) == nbMatches # nbMatches_

(* handleSearchProgressed(), and updateFilteredView() through its signal. *)
handleSearchProgressed ==
  LET e == Head(guiQueue)
  IN
  /\ Take("searchProgressed")
  /\ matching_lines_' = searchData_.matches
  /\ nbLinesProcessed_' = searchData_.nbLinesProcessed
  /\ searchInfoLine' = CASE e.progress = 100 -> state_ # "NoSearch"
                         [] e.progress = 0   -> searchInfoLine
                         [] OTHER            -> TRUE
  /\ stopButton' = (stopButton /\ e.progress # 100)
  /\ IF MatchesChanged(e.nbMatches)
       THEN nbMatches_' = e.nbMatches /\ shown' = Len(searchData_.matches)
       ELSE UNCHANGED <<nbMatches_, shown>>
  /\ UNCHANGED <<sourceVars, loadVars, stack, stateVars, currentRegExp_,
                 operationRequested_, interruptRequested_, workVars,
                 userActions, history>>

(* LogData::indexingFinished() up to the call of loadingFinishedHandler(),  *)
(* and up to where that blocks.                                            *)
loadingFinishedHandler ==
  /\ Take("loadingFinished")
  /\ \/ /\ ~isAutorefreshAllowed
        /\ Begin("loaded")
        /\ history' = history \cup {"unrefreshed"}
        /\ UNCHANGED interruptRequested_
     \/ /\ isAutorefreshAllowed /\ isFileTruncated
        /\ interruptRequested_' = TRUE
        /\ stack' = stack \o <<"loaded", "replace">>
        /\ UNCHANGED history
     \/ /\ isAutorefreshAllowed /\ ~isFileTruncated
        /\ stack' = stack \o <<"loaded", "update">>
        /\ UNCHANGED <<interruptRequested_, history>>
  /\ UNCHANGED <<sourceVars, loadVars, stateVars, widgetVars, resultVars,
                 operationRequested_, workVars, userActions>>

(* The end of indexingFinished(): the next operation is begun. *)
indexingFinishedReturns ==
  /\ At("loaded")
  /\ currentOperation_' = nextOperation_ /\ nextOperation_' = None
  /\ Return
  /\ UNCHANGED <<sourceVars, loads, guiQueue, stateVars, widgetVars, resultVars,
                 operationRequested_, interruptRequested_, workVars,
                 userActions, history>>

-----------------------------------------------------------------------------
(* The worker.                                                             *)

(* Bug: the last line of what was searched is left in. *)
deleteMatch_Nothing(matches, line) == matches

(* SearchData::deleteMatch(), which looks from the end. *)
deleteMatch(matches, line) ==
  LET reached == {k \in DOMAIN matches : matches[k] <= line}
  IN  IF reached # {} /\ matches[Max(reached)] = line
        THEN RemoveAt(matches, Max(reached)) ELSE matches

(* What getLines() gives for the chunk at i: nothing at all where some of  *)
(* the lines asked for are not there (any more).                           *)
ChunkSize == Min({nbLinesInChunk, search.nbSourceLines - search.i})
LinesRead == IF search.i + ChunkSize > Len(source) THEN 0 ELSE ChunkSize

(* Bug: a chunk is always counted whole. *)
LinesProcessed_Whole == search.i + nbLinesInChunk

LinesProcessed == search.i + LinesRead

(* The lines of a range of the log that match, and the lines in order. *)
Matching(from, to, regexp) == {l \in from .. to - 1 : regexp \in source[l + 1]}

InOrder(list) == \A j, k \in DOMAIN list : j < k => list[j] < list[k]
Lists(lines) ==
  {list \in [1 .. Cardinality(lines) -> lines] : Range(list) = lines /\ InOrder(list)}

(* Bug: an operation interrupted before it is begun is not begun, but still *)
(* asked for.                                                              *)
beginSearch_Uninterrupted(initial_line, data) ==
  /\ workerPc = "wait" /\ ~interruptRequested_
  /\ searchData_' = data
  /\ search' = [initialLine |-> initial_line, nbSourceLines |-> Len(source),
                nbMatches |-> Len(data.matches), i |-> initial_line]
  /\ workerPc' = "loop"
  /\ UNCHANGED <<sourceVars, loadVars, guiVars, operationRequested_,
                 interruptRequested_, userActions>>

(* Bug: the last line, perhaps not terminated yet, is left for later. *)
beginSearch_ButLast(initial_line, data) ==
  /\ workerPc = "wait"
  /\ searchData_' = data
  /\ search' = [initialLine |-> initial_line, nbSourceLines |-> Max({0, Len(source) - 1}),
                nbMatches |-> Len(data.matches), i |-> initial_line]
  /\ workerPc' = "loop"
  /\ UNCHANGED <<sourceVars, loadVars, guiVars, operationRequested_,
                 interruptRequested_, userActions>>

(* FullSearchOperation::start() and UpdateSearchOperation::start(), and    *)
(* doSearch() up to its loop.                                              *)
beginSearch(initial_line, data) ==
  /\ workerPc = "wait"
  /\ searchData_' = data
  /\ search' = [initialLine |-> initial_line, nbSourceLines |-> Len(source),
                nbMatches |-> Len(data.matches), i |-> initial_line]
  /\ workerPc' = "loop"
  /\ UNCHANGED <<sourceVars, loadVars, guiVars, operationRequested_,
                 interruptRequested_, userActions>>

startFullSearch ==
  /\ operationRequested_.kind = "Full"
  /\ beginSearch(0, [matches |-> <<>>, nbLinesProcessed |-> 0])
  /\ searched' = operationRequested_.regexp
  /\ history' = IF "full" \in {currentOperation_, nextOperation_}
                  THEN {"unseen"} ELSE {}

startUpdateSearch ==
  LET position == operationRequested_.position
      initial_line == IF position >= 1 THEN position - 1 ELSE position
  IN
  /\ operationRequested_.kind = "Update"
  /\ beginSearch(initial_line,
        IF position >= 1
          THEN [searchData_ EXCEPT !.matches = deleteMatch(@, initial_line)]
          ELSE searchData_)
  /\ history' = history \ {"stopped", "unrefreshed"}
  /\ UNCHANGED searched

searchProgressed(progress) ==
  guiQueue' = Append(guiQueue,
    [is |-> "searchProgressed", progress |-> progress,
     nbMatches |-> search.nbMatches])

(* The head of doSearch()'s loop, with a chunk left to read. *)
nextChunk ==
  LET i == search.i - search.initialLine
      n == search.nbSourceLines - search.initialLine
  IN
  /\ workerPc = "loop"
  /\ search.i < search.nbSourceLines /\ ~interruptRequested_
  /\ searchProgressed((i * 100) \div n)
  /\ workerPc' = "read"
  /\ UNCHANGED <<sourceVars, loadVars, stack, stateVars, widgetVars, resultVars,
                 operationRequested_, interruptRequested_, search, searchData_,
                 searched, userActions, history>>

searchChunk ==
  /\ workerPc = "read"
  /\ \E found \in Lists(Matching(search.i, search.i + LinesRead,
                                 operationRequested_.regexp)) :
       /\ searchData_' = [matches |-> searchData_.matches \o found,
                          nbLinesProcessed |-> LinesProcessed]
       /\ search' = [search EXCEPT !.nbMatches = @ + Len(found),
                                   !.i = @ + nbLinesInChunk]
  /\ workerPc' = "loop"
  /\ UNCHANGED <<sourceVars, loadVars, guiVars, operationRequested_,
                 interruptRequested_, searched, userActions, history>>

(* The end of doSearch() and of the operation. *)
endSearch ==
  /\ workerPc = "loop"
  /\ search.i >= search.nbSourceLines \/ interruptRequested_
  /\ searchProgressed(100)
  /\ operationRequested_' = NoOperation
  /\ search' = NoSearch
  /\ workerPc' = "wait"
  /\ history' = IF search.i < search.nbSourceLines
                  THEN history \cup {"stopped"} ELSE history
  /\ UNCHANGED <<sourceVars, loadVars, stack, stateVars, widgetVars, resultVars,
                 interruptRequested_, searchData_, searched,
                 userActions>>

-----------------------------------------------------------------------------
Log == startFullIndexing \/ addAll \/ finishIndexing \/ fileGrew \/ fileTruncated

User ==
  \/ startNewSearch \/ stopSearch \/ stopLoading \/ reload
  \/ searchRefreshChangedHandler \/ searchTextChangeHandler

Gui ==
  \/ interruptReturns \/ processEventsReturns
  \/ searchRequested \/ updateRequested
  \/ handleSearchProgressed \/ loadingFinishedHandler \/ indexingFinishedReturns

Worker ==
  startFullSearch \/ startUpdateSearch \/ nextChunk \/ searchChunk \/ endSearch

Next == Log \/ User \/ Gui \/ Worker

Spec == Init /\ [][Next]_vars

(* The event loop and the worker run. *)
FairSpec == Spec /\ WF_vars(Gui) /\ WF_vars(Worker)

-----------------------------------------------------------------------------
(* A search runs, and is not being interrupted, as long as nobody waits    *)
(* for the interruption: the flag raised for one operation never stops the *)
(* one after it ("We wait for the interruption to be done").               *)
InterruptionIsWaitedFor ==
  operationRequested_ # NoOperation /\ interruptRequested_ =>
    At("stop") \/ At("stopLoading") \/ At("replace")

(* What was found is the lines that match, in order and once each, of the  *)
(* part of the log that was searched, its last line aside, however it was  *)
(* split into chunks and updates, interrupted and resumed, while the log   *)
(* grew and its last line changed; unless an update started elsewhere than *)
(* where the search was, or the log was read again.                        *)
FoundIsPrefix ==
  LET matches == searchData_.matches
      last == searchData_.nbLinesProcessed - 1
  IN
  {"stale", "reindexed"} \cap history = {} /\ last # -1 =>
    /\ InOrder(matches) /\ Range(matches) \subseteq 0..last
    /\ Range(matches) \ {last} = Matching(0, last, searched)

(* No event is left, nothing runs. *)
Quiescent ==
  /\ stack = <<>> /\ guiQueue = <<>>
  /\ operationRequested_ = NoOperation
  /\ currentOperation_ = None

(* Once all is quiet the filtered view shows what the last search found,   *)
(* and nothing of the searches before it, whatever events were still on    *)
(* their way when it replaced them ("wait for the last search update       *)
(* before clearing/restarting to avoid having remaining results").         *)
SearchIsActive == state_ \in {"Static", "Autorefreshing"}
QuietMeansShown ==
  Quiescent /\ SearchIsActive =>
    /\ matching_lines_ = searchData_.matches
    /\ nbLinesProcessed_ = searchData_.nbLinesProcessed
    /\ currentRegExp_ = searched
    /\ shown = Len(matching_lines_)

(* "Search is auto-refreshing...": once all is quiet everything that       *)
(* matches in the log is shown, although a chunk is skipped where the last *)
(* line is being rewritten, and whatever was interrupted before.           *)
QuietMeansRefreshed ==
  Quiescent /\ state_ = "Autorefreshing" /\ history = {} =>
    /\ InOrder(matching_lines_)
    /\ Range(matching_lines_) = Matching(0, Len(source), currentRegExp_)

(* A truncation restarts the auto-refreshed search once the new log is     *)
(* read, unless it came at a moment that is not accounted for (see         *)
(* "unseen").                                                              *)
QuietMeansRestarted ==
  Quiescent /\ isAutorefreshAllowed /\ "unseen" \notin history =>
    state_ = "Autorefreshing" /\ "reindexed" \notin history

(* The window always comes back to its event loop. *)
GuiResponds == stack # <<>> ~> stack = <<>>

-----------------------------------------------------------------------------
(* What the documentation and the comments say, and the code does not do.  *)

(* "The lines matching the search criteria are listed in order in the      *)
(* results" (documentation).                                               *)
ListedInOrder ==
  \A k \in 2 .. Len(matching_lines_) : matching_lines_[k - 1] < matching_lines_[k]
=============================================================================
