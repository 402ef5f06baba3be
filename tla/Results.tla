------------------------------ MODULE Results ------------------------------
(***************************************************************************)
(* The lines of the filtered view: the matches of a search and the marks   *)
(* (Marks), their merge (LogFilteredData), the line that stays selected    *)
(* in both views when they change (CrawlerWidget), and their projection    *)
(* on the overview (Overview).                                             *)
(*                                                                         *)
(* The log and the matches of the search are those of other threads        *)
(* (modules LogData and FilteredSearch): here they come as they may.  The  *)
(* length of a line does not change.                                       *)
(***************************************************************************)
EXTENDS Integers, SequencesExt, FiniteSetsExt

CONSTANTS
  Length,     \* the length of each line, a function of Lines
  Matching,   \* the sets of lines that a search may match
  Heights,    \* the heights of the overview, in pixels
  MaxActions  \* bound on what the user does

VARIABLES
  nbLines,  \* sourceLogData_->getNbLine()
  r,        \* LogFilteredData, and what CrawlerWidget and its views keep
  o,        \* the overview
  actions

vars == <<nbLines, r, o, actions>>

Lines == DOMAIN Length

(* UINT32_MAX, which becomes -1 as an int; and what an unmarked, unselected,
   or absent line is. *)
NoLine == -1

Visibilities == {"MatchesOnly", "MarksOnly", "MarksAndMatches"}

(***************************************************************************)
(* Lists of lines in order.                                                *)
(***************************************************************************)
(* Bug: the end of the list is not looked at. *)
lookup_NoEnd(list, line) ==
  LET bisect[lo \in DOMAIN list, hi \in DOMAIN list] ==
        LET try == (lo + hi) \div 2 IN
        IF hi - lo <= 1
          THEN [found |-> FALSE, at |-> IF line > list[lo] THEN lo + 1 ELSE lo]
          ELSE IF list[try] > line THEN bisect[lo, try]
          ELSE IF list[try] < line THEN bisect[try, hi]
          ELSE [found |-> TRUE, at |-> try]
  IN  IF list = <<>> THEN [found |-> FALSE, at |-> 1]
      ELSE IF Head(list) = line THEN [found |-> TRUE, at |-> 1]
      ELSE bisect[1, Len(list)]

(* Where a line is, or is to be inserted. *)
lookup(list, line) ==
  LET bisect[lo \in DOMAIN list, hi \in DOMAIN list] ==
        LET try == (lo + hi) \div 2 IN
        IF hi - lo <= 1
          THEN [found |-> FALSE, at |-> IF line > list[hi] THEN hi + 1
                                        ELSE IF line > list[lo] THEN lo + 1 ELSE lo]
          ELSE IF list[try] > line THEN bisect[lo, try]
          ELSE IF list[try] < line THEN bisect[try, hi]
          ELSE [found |-> TRUE, at |-> try]
  IN  IF list = <<>> THEN [found |-> FALSE, at |-> 1]
      ELSE IF Head(list) = line THEN [found |-> TRUE, at |-> 1]
      ELSE IF Last(list) = line THEN [found |-> TRUE, at |-> Len(list)]
      ELSE bisect[1, Len(list)]

(* The index of the first line from there on; where there is none, the number
   of the first line of the list is taken for an index.  An absent line is past
   all others, but it is -1 once more where marks are compared. *)
lookupLineNumber(list, line, signed) ==
  LET after == {i \in DOMAIN list : line \in IF signed THEN NoLine..list[i] ELSE 0..list[i]}
  IN  IF after # {} THEN Min(after) - 1 ELSE IF list = <<>> THEN 0 ELSE Head(list)

Item(line, type) == [line |-> line, type |-> type]

(* "We choose a Mark over a Match if a line is both". *)
merge(matches, marks) ==
  LET from[i \in 1..Len(matches) + 1, j \in 1..Len(marks) + 1] ==
        IF i > Len(matches) /\ j > Len(marks) THEN <<>>
        ELSE IF j <= Len(marks) /\ (i > Len(matches) \/ marks[j] <= matches[i])
          THEN LET both == i <= Len(matches) /\ marks[j] = matches[i]
               IN  <<Item(marks[j], "Mark")>> \o from[IF both THEN i + 1 ELSE i, j + 1]
          ELSE <<Item(matches[i], "Match")>> \o from[i + 1, j]
  IN  from[1, 1]

(***************************************************************************)
(* LogFilteredData.                                                        *)
(***************************************************************************)
(* What the cache holds is not read again until it is made anew. *)
invalidateCache(w) == [w EXCEPT !.dirty = TRUE, !.cache = <<>>]

(* Before anything is read. *)
regenerateFilteredItemsCache(w) ==
  IF w.visibility = "MarksAndMatches" /\ w.dirty
    THEN [w EXCEPT !.cache = merge(w.matches, w.marks), !.dirty = FALSE] ELSE w

(* The lines there are, those of a cache that is not dirty. *)
Shown(w) ==
  CASE w.visibility = "MatchesOnly"     -> w.matches
    [] w.visibility = "MarksOnly"       -> w.marks
    [] w.visibility = "MarksAndMatches" -> [i \in DOMAIN w.cache |-> w.cache[i].line]

findLogDataLine(w, index) ==
  IF index + 1 \in DOMAIN Shown(w) THEN Shown(w)[index + 1] ELSE NoLine

findFilteredLine(w, line) ==
  lookupLineNumber(Shown(w), line, w.visibility = "MarksOnly")

(* What there is past the end of the cache is anything. *)
filteredLineTypeByIndex(w, index) ==
  CASE w.visibility = "MatchesOnly"     -> {"Match"}
    [] w.visibility = "MarksOnly"       -> {"Mark"}
    [] w.visibility = "MarksAndMatches" ->
         IF index + 1 \in DOMAIN w.cache THEN {w.cache[index + 1].type} ELSE {"Match", "Mark"}

isLineMarked(w, line) == lookup(w.marks, line).found

getLineLength(line) == IF line \in 0..nbLines - 1 THEN Length[line] ELSE 0

addMark(w, line) ==
  IF line \in 0..nbLines - 1
    THEN [invalidateCache(w) EXCEPT !.marks = InsertAt(@, lookup(@, line).at, line),
                                    !.widest = Max({@, getLineLength(line)})]
    ELSE w

recalcMaxLengthMarks(w) ==
  [w EXCEPT !.widest = Max({0} \cup {getLineLength(l) : l \in ToSet(w.marks)})]

deleteMarkInBulk(w, line) ==
  LET where == lookup(w.marks, line)
  IN  IF where.found THEN [w EXCEPT !.marks = RemoveAt(@, where.at)] ELSE w

NeedsRecalc(w, line) == getLineLength(line) >= w.widest

deleteMark(w, line) ==
  LET deleted == invalidateCache(deleteMarkInBulk(w, line))
  IN  IF NeedsRecalc(w, line) THEN recalcMaxLengthMarks(deleted) ELSE deleted

clearMarks(w) ==
  [invalidateCache(w) EXCEPT !.marks = <<>>, !.widest = 0, !.outlived = FALSE]

clearSearch(w) == [invalidateCache(w) EXCEPT !.matches = <<>>]

(***************************************************************************)
(* The views.                                                              *)
(***************************************************************************)
(* The selection of the filtered view is cropped. *)
updateData(w) ==
  LET read == regenerateFilteredItemsCache(w)
  IN  [read EXCEPT !.selected = IF @ >= Len(Shown(read)) THEN NoLine ELSE @]

(* A line of the filtered view, and with it the one of the main view. *)
selectAndDisplayLine(w, index) ==
  LET read == regenerateFilteredItemsCache(w)
  IN  [read EXCEPT !.selected = Max({index, NoLine}),
                   !.currentLineNumber_ = findLogDataLine(read, index)]

(* "Try to restore the filtered window selection close to where it was". *)
restoreSelection(w) ==
  LET read == regenerateFilteredItemsCache(w)
  IN  selectAndDisplayLine(read, findFilteredLine(read, read.currentLineNumber_))

(***************************************************************************)
(* The overview.                                                           *)
(***************************************************************************)
(* "If the line is already there, we increase its weight". *)
Weighted(positions) ==
  LET upTo[n \in 0..Len(positions)] ==
        IF n = 0 THEN <<>>
        ELSE LET before == upTo[n - 1] IN
             IF before # <<>> /\ Last(before).position = positions[n]
               THEN [before EXCEPT ![Len(before)].weight = Min({@ + 1, 2})]
               ELSE Append(before, [position |-> positions[n], weight |-> 0])
  IN  upTo[Len(positions)]

yFromFileLine(ov, line) == (line * ov.height) \div ov.linesInFile

recalculatesLines(ov, w) ==
  LET Positions(type) ==
        LET lines == SelectSeq([i \in DOMAIN Shown(w) |-> i - 1],
                               LAMBDA i : type \in filteredLineTypeByIndex(w, i))
        IN  [i \in DOMAIN lines |-> yFromFileLine(ov, findLogDataLine(w, lines[i]))]
  IN  [ov EXCEPT !.dirty = FALSE, !.behind = FALSE,
                 !.matchLines = IF ov.linesInFile > 0 THEN Weighted(Positions("Match")) ELSE <<>>,
                 !.markLines = IF ov.linesInFile > 0 THEN Weighted(Positions("Mark")) ELSE <<>>]

(* Its lines are not read again until they are made anew. *)
overviewUpdateData ==
  [o EXCEPT !.linesInFile = nbLines, !.dirty = TRUE, !.behind = FALSE,
            !.matchLines = <<>>, !.markLines = <<>>]

-----------------------------------------------------------------------------
Init ==
  /\ nbLines = 0
  /\ r = [matches |-> <<>>, marks |-> <<>>, widest |-> 0, visibility |-> "MarksAndMatches",
          cache |-> <<>>, dirty |-> TRUE,
          searched |-> FALSE,
          selected |-> NoLine, currentLineNumber_ |-> 0,
          outlived |-> FALSE]  \* history: a mark is past the end of the log
  /\ o = [linesInFile |-> 0, dirty |-> TRUE, height |-> 0, visible_ |-> TRUE,
          matchLines |-> <<>>, markLines |-> <<>>,
          behind |-> FALSE]    \* history: what it shows changed unknown to it
  /\ actions = 0

(***************************************************************************)
(* The log and the search.                                                 *)
(***************************************************************************)
indexing ==
  /\ \E n \in {0} \cup nbLines + 1..Cardinality(Lines) : nbLines' = n /\ n # nbLines
  /\ r' = [r EXCEPT !.outlived = @ \/ (nbLines' = 0 /\ r.marks # <<>>)]
  /\ UNCHANGED <<o, actions>>

loadingFinished == o' = overviewUpdateData /\ UNCHANGED <<nbLines, r, actions>>

fileTruncated ==
  LET cleared == clearMarks(r)
  IN  /\ r' = IF r.searched THEN updateData(clearSearch(cleared))
                            ELSE cleared
      /\ o' = [o EXCEPT !.behind = ~o.dirty]
      /\ UNCHANGED <<nbLines, actions>>

(* The matches so far; the views and the overview are told if their number is
   new (module FilteredSearch), and the end of a search from the first line
   restores the selection, unless the log is followed. *)
handleSearchProgressed ==
  \E lines \in Matching, processed \in 0..nbLines, changed, restores \in BOOLEAN :
    LET found == SetToSortSeq(lines \cap 0..processed - 1, <)
        taken == [invalidateCache(r) EXCEPT !.matches = found]
        told == IF changed THEN updateData(taken) ELSE taken
    IN  /\ r.searched
        /\ r' = IF restores THEN restoreSelection(told) ELSE told
        /\ o' = IF changed THEN overviewUpdateData ELSE [o EXCEPT !.behind = ~o.dirty]
        /\ UNCHANGED <<nbLines, actions>>

(* It is drawn. *)
overviewUpdateView(height) ==
  LET read == regenerateFilteredItemsCache(r)
  IN  /\ o.visible_
      /\ height # o.height \/ o.dirty
      /\ r' = read
      /\ o' = recalculatesLines([o EXCEPT !.height = height], read)
      /\ UNCHANGED <<nbLines, actions>>

(***************************************************************************)
(* What the user does.                                                     *)
(***************************************************************************)
UserActs ==
  /\ actions < MaxActions
  /\ actions' = actions + 1
  /\ UNCHANGED nbLines

startNewSearch ==
  /\ r' = [updateData(clearSearch(r)) EXCEPT !.searched = TRUE]
  /\ o' = overviewUpdateData
  /\ UNCHANGED <<nbLines, actions>>

reload ==
  /\ UserActs
  /\ r' = [updateData(clearMarks(clearSearch(r))) EXCEPT !.searched = FALSE]
  /\ o' = [o EXCEPT !.behind = ~o.dirty]

(* Both views and the overview are told of marks. *)
Marked(w) == r' = updateData(w) /\ o' = overviewUpdateData

markLineFromMain(line) ==
  /\ UserActs
  /\ line < nbLines
  /\ Marked(IF isLineMarked(r, line) THEN deleteMark(r, line) ELSE addMark(r, line))

markLineFromFiltered(index) ==
  LET w == regenerateFilteredItemsCache(r)
      line == findLogDataLine(w, index)
  IN  /\ UserActs
      /\ index < Len(Shown(w))
      /\ \E type \in filteredLineTypeByIndex(w, index) :
           Marked(IF type = "Mark" THEN deleteMark(w, line) ELSE addMark(w, line))

(* m and M.  Where only marks are shown, each that is taken back moves those
   after it. *)
markOne(filtered, add, before, index) ==
  LET w == regenerateFilteredItemsCache(before.w)
      line == IF filtered THEN findLogDataLine(w, index) ELSE index
      marked == isLineMarked(w, line)
  IN  CASE marked /\ ~add -> [w |-> deleteMarkInBulk(w, line),
                              recalc |-> before.recalc \/ NeedsRecalc(w, line)]
        [] ~marked /\ add -> [before EXCEPT !.w = addMark(w, line)]
        [] OTHER          -> [before EXCEPT !.w = w]

(* Bug: the cache is left as it was. *)
rangeMarked_KeepCache(start, end, filtered, add) ==
  LET upTo[i \in start..end] ==
        IF i = start THEN [w |-> r, recalc |-> FALSE]
                     ELSE markOne(filtered, add, upTo[i - 1], i - 1)
  IN  IF upTo[end].recalc THEN recalcMaxLengthMarks(upTo[end].w) ELSE upTo[end].w

rangeMarked(start, end, filtered, add) ==
  LET upTo[i \in start..end] ==
        IF i = start THEN [w |-> r, recalc |-> FALSE]
                     ELSE markOne(filtered, add, upTo[i - 1], i - 1)
  IN  invalidateCache(IF upTo[end].recalc THEN recalcMaxLengthMarks(upTo[end].w)
                                          ELSE upTo[end].w)

markLines(start, end, filtered, add) ==
  UserActs /\ Marked(rangeMarked(start, end, filtered, add))

changeFilteredViewVisibility(visibility) ==
  /\ UserActs
  /\ visibility # r.visibility
  /\ r' = restoreSelection(updateData([r EXCEPT !.visibility = visibility]))
  /\ o' = [o EXCEPT !.behind = ~o.dirty]

(* A click on a line of the main view, and of the filtered one. *)
selectInMain(line) ==
  /\ UserActs
  /\ line < nbLines
  /\ r' = [r EXCEPT !.currentLineNumber_ = line]
  /\ UNCHANGED o

selectInFiltered(index) ==
  LET read == regenerateFilteredItemsCache(r)
  IN  /\ UserActs
      /\ index < Len(Shown(read))
      /\ r' = selectAndDisplayLine(read, index)
      /\ UNCHANGED o

(* [ and ] in the main view, from the line selected or the middle one. *)
displayMark(position, forwards) ==
  LET there == {l \in ToSet(r.marks) : IF forwards THEN l > position ELSE l < position}
  IN  /\ UserActs
      /\ there # {}
      /\ r' = [r EXCEPT !.currentLineNumber_ = IF forwards THEN Min(there) ELSE Max(there)]
      /\ UNCHANGED o

(* The same in the filtered view, whose selection may be past its end. *)
displayFilteredMark(middle, forwards) ==
  LET w == regenerateFilteredItemsCache(r)
      position == IF w.selected # NoLine THEN w.selected ELSE middle
      from == IF forwards THEN position + 1..Len(Shown(w)) - 1 ELSE 0..position - 1
      Between(i) == IF forwards THEN position + 1..i - 1 ELSE i + 1..position - 1
  IN  /\ UserActs
      /\ \E i \in from :
           /\ "Mark" \in filteredLineTypeByIndex(w, i)
           /\ \A j \in Between(i) : "Match" \in filteredLineTypeByIndex(w, j)
           /\ r' = selectAndDisplayLine(w, i)
      /\ UNCHANGED o

overviewSetVisible(visible) ==
  /\ UserActs
  /\ o' = [o EXCEPT !.visible_ = visible, !.dirty = visible, !.behind = FALSE,
                    !.matchLines = <<>>, !.markLines = <<>>]
  /\ UNCHANGED r

UserAction ==
  \/ reload
  \/ \E line \in Lines :
       \/ markLineFromMain(line) \/ markLineFromFiltered(line)
       \/ selectInMain(line) \/ selectInFiltered(line)
       \/ \E end \in line + 1..nbLines, filtered, add \in BOOLEAN :
            markLines(line, end, filtered, add)
       \/ \E forwards \in BOOLEAN :
            displayMark(line, forwards) \/ displayFilteredMark(line, forwards)
  \/ \E visibility \in Visibilities : changeFilteredViewVisibility(visibility)
  \/ \E visible \in BOOLEAN : overviewSetVisible(visible)

Next ==
  \/ indexing \/ loadingFinished \/ fileTruncated
  \/ startNewSearch \/ handleSearchProgressed
  \/ \E height \in Heights : overviewUpdateView(height)
  \/ UserAction

Spec == Init /\ [][Next]_vars

-----------------------------------------------------------------------------
(***************************************************************************)
(* Properties.                                                             *)
(***************************************************************************)
(* The values of the variables. *)
TypeOK ==
  /\ nbLines \in 0..Cardinality(Lines)
  /\ r.visibility \in Visibilities
  /\ ToSet(r.matches) \cup ToSet(r.marks) \subseteq Lines
  /\ r.selected \in {NoLine} \cup Lines
  /\ r.currentLineNumber_ \in {NoLine} \cup Lines
  /\ o.linesInFile \in 0..Cardinality(Lines)
  /\ o.height \in {0} \cup Heights

(* "Marks are combined with matches and showed in the filtered window": after
   any marking and unmarking, of one line or of many and in either view, any
   search and any change of what is shown, the list that is read is that of the
   lines, each once and in order, marks before matches. *)
FilteredIsMerge ==
  LET marks == ToSet(r.marks)
      lines == SetToSortSeq(marks \cup ToSet(r.matches), <)
  IN  /\ r.marks = SetToSortSeq(marks, <)
      /\ ~r.dirty => r.cache = [i \in DOMAIN lines |->
                                  Item(lines[i], IF lines[i] \in marks THEN "Mark" ELSE "Match")]

(* "Now update the max length if needed": how far the marks can be scrolled is
   the length of the longest, as long as no mark outlived its line. *)
WidestMark ==
  ~r.outlived => r.widest = Max({0} \cup {Length[l] : l \in ToSet(r.marks)})

(* "They also appear as blue lines in the match overview": once drawn, and
   until it is told of a change, there is a pixel for each mark and each match
   that is shown, the darker for being many's; but for a change of what is
   shown, a reload, a truncation and a search that finds as many lines as the
   one before, which it is not told of. *)
OverviewIsCurrent ==
  LET Pixels(type) ==
        LET lines == {findLogDataLine(r, i) : i \in
                        {j \in 0..Len(Shown(r)) - 1 : type \in filteredLineTypeByIndex(r, j)}}
            At(y) == {l \in lines : yFromFileLine(o, l) = y}
        IN  {[position |-> y, weight |-> Min({Cardinality(At(y)) - 1, 2})] :
               y \in {yFromFileLine(o, l) : l \in lines}}
  IN  o.visible_ /\ ~o.dirty /\ ~o.behind /\ o.linesInFile > 0 =>
        /\ ToSet(o.matchLines) = Pixels("Match")
        /\ ToSet(o.markLines) = Pixels("Mark")

(* "Mark selected lines" and "unmark selected lines": of the lines of a range,
   whatever is marked and shown, all are to be marked, or none, and the others
   as they were; but where lines are unmarked among marks only. *)
RangeIsMarked ==
  \A start \in Lines, filtered, add \in BOOLEAN : \A end \in start + 1..nbLines :
    LET w == regenerateFilteredItemsCache(r)
        lines == IF filtered THEN {findLogDataLine(w, i) : i \in start..end - 1}
                             ELSE start..end - 1
    IN  \/ filtered /\ ~add /\ r.visibility = "MarksOnly"
        \/ ToSet(rangeMarked(start, end, filtered, add).marks) =
             IF add THEN ToSet(r.marks) \cup (lines \cap 0..nbLines - 1)
                    ELSE ToSet(r.marks) \ lines
=============================================================================
