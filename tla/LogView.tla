------------------------------ MODULE LogView ------------------------------
(***************************************************************************)
(* AbstractLogView: the scroll bars, the lines on the screen, the          *)
(* selection, the following of the end of the log, and the pixmap that is  *)
(* drawn again only where it is out of date.                               *)
(*                                                                         *)
(* The log changes in the indexing thread at any moment; the view is told  *)
(* with updateData().  The view is one record, so that the functions that  *)
(* call one another compose.  Of a search only its result is here (module  *)
(* QuickFind).  A column stands for a screenful of them.                   *)
(***************************************************************************)
EXTENDS Integers, FiniteSetsExt

CONSTANTS
  Heights,    \* the numbers of lines the viewport may have room for
  Patterns,   \* what QuickFind may look for
  MaxColumn,  \* bound on the columns
  MaxLines,   \* bound on the lines of the log
  MaxActions  \* bound on what the user does

VARIABLES
  nbLines,  \* logData->getNbLine()
  v,        \* the view
  drawing,  \* the lines paintEvent() is about to draw
  dead,     \* it asked for a line that there is not
  actions

vars == <<nbLines, v, drawing, dead, actions>>

(***************************************************************************)
(* Selection.                                                              *)
(***************************************************************************)
NoSelection == [kind |-> "none"]
selectLine(line) ==
  IF line < 0 THEN NoSelection ELSE [kind |-> "line", line |-> line]
selectPortion(line) == [kind |-> "portion", line |-> line]
selectRange(from, to) ==
  [kind |-> "range", start |-> Min({from, to}), end |-> Max({from, to}), first |-> from]

selectRangeFromPrevious(s, line) ==
  CASE s.kind \in {"line", "portion"} -> selectRange(s.line, line)
    [] s.kind = "range"               -> selectRange(s.first, line)
    [] s.kind = "none"                -> selectRange(0, line)

(* Bug: the start of a range is left where it was. *)
crop_EndOnly(s, last) ==
  CASE s.kind \in {"line", "portion"} /\ s.line > last -> NoSelection
    [] s.kind = "range" -> [s EXCEPT !.end = Min({@, last})]
    [] OTHER -> s

crop(s, last) ==
  CASE s.kind \in {"line", "portion"} /\ s.line > last -> NoSelection
    [] s.kind = "range" /\ (last < 0 \/ s.start < 0) -> NoSelection
    [] s.kind = "range" /\ last >= 0 /\ s.start >= 0 ->
         [s EXCEPT !.start = Min({@, last}), !.end = Min({@, last})]
    [] OTHER -> s

getLines(s) ==
  CASE s.kind \in {"line", "portion"} -> {s.line}
    [] s.kind = "range"               -> s.start..s.end
    [] s.kind = "none"                -> {}

selectedLine(s) == IF s.kind = "line" THEN s.line ELSE -1

(***************************************************************************)
(* Scrolling.                                                              *)
(***************************************************************************)
(* With the line that is cut at the bottom. *)
visibleLineRange(w) == w.firstLine..w.firstLine + w.visible - 1

update(w) == [w EXCEPT !.repaint = TRUE]
invalidate(w) == [w EXCEPT !.invalid_ = TRUE]

(* "The user is going further than the last line, we need to lock the last
   line at the bottom". *)
beyond(w) == nbLines - w.visible > 0 /\ w.value > nbLines - w.visible

topLine(w) == IF beyond(w) THEN nbLines - w.visible ELSE w.value

scrollContentsBy(w) ==
  update([w EXCEPT !.firstLine = topLine(w), !.lastLineAligned = beyond(w),
                   !.tail = FALSE, !.asked = -1])

(* firstLine is not where the scroll bar is, for the log and the viewport there
   are: nothing has scrolled since they changed. *)
Detached(w) == w.firstLine # topLine(w)

(* QScrollBar::setValue(): the view is told of new values only. *)
setValue(w, value) ==
  LET bounded == Max({0, Min({value, w.maximum})})
  IN  IF bounded = w.value THEN w ELSE scrollContentsBy([w EXCEPT !.value = bounded])

setColumn(w, column) ==
  IF column = w.firstCol THEN w ELSE scrollContentsBy([w EXCEPT !.firstCol = column])

updateScrollBars(w) ==
  LET wide == [w EXCEPT !.maximum = Max({0, nbLines - w.visible + 1})]
  IN  setValue(wide, wide.value)

jumpToBottom(w) == update(setValue(w, Max({nbLines - w.visible + 1, 0})))

(* The end is meant to be on the screen from here on. *)
follow(w) == IF w.followMode_ THEN [jumpToBottom(w) EXCEPT !.tail = TRUE] ELSE w

(* Bug: a whole screen is left above the line. *)
jumpToLine_Above(w, line) == setValue(w, Max({line - w.visible, 0}))

jumpToLine(w, line) == setValue(w, Max({line - w.visible \div 2, 0}))

(* The cache is relied on to be another page's, which it is not when the view
   is back, before it is painted, where it was last painted. *)
jumpAndSelect(w, line) == [jumpToLine(w, line) EXCEPT !.unseen = TRUE]

(* Bug: the cache is kept for a line that is on the screen. *)
displayLine_KeepCache(w, line) ==
  IF line \in visibleLineRange(w) THEN update(w) ELSE jumpAndSelect(w, line)

displayLine(w, line) ==
  IF line \in visibleLineRange(w) THEN update(invalidate(w)) ELSE jumpAndSelect(w, line)

(* The target is unsigned and "no scroll" is -1: half a screen and one more
   line from the top, it is the one taken for the other. *)
displayRangeInLine(w, line, column) ==
  LET newLine == line - w.visible \div 2
      scrolled == IF line \notin visibleLineRange(w) /\ newLine # -1
                    THEN setValue(w, IF newLine < 0 THEN w.maximum ELSE newLine)
                    ELSE w
  IN  update(invalidate(setColumn(scrolled, column)))

(* What the user asked to see, unless the scroll bar may not go there yet. *)
Asked(w, line) ==
  [w EXCEPT !.asked = IF w.changed \/ Detached(w) \/ line >= nbLines THEN -1 ELSE line]

(***************************************************************************)
(* Following.  The window's action is told, and tells all views: that is   *)
(* followSet().                                                            *)
(***************************************************************************)
followSet(w, checked) ==
  follow(update([w EXCEPT !.followMode_ = checked, !.hooked_ = checked]))

followModeChanged(w, enabled) ==
  IF enabled = w.followMode_ THEN w ELSE followSet(w, enabled)

disableFollow(w) == [followModeChanged(w, FALSE) EXCEPT !.hooked_ = FALSE]

selectAndDisplayLine(w, line) ==
  Asked(displayLine([disableFollow(w) EXCEPT !.selection = selectLine(line)], line),
        line)

-----------------------------------------------------------------------------
(***************************************************************************)
(* What is drawn.                                                          *)
(***************************************************************************)
Drawn(w, lines) ==
  LET selected == getLines(w.selection) \cap visibleLineRange(w) \cap 0..lines - 1
  IN  [first |-> w.firstLine, col |-> w.firstCol, nb |-> lines, pattern |-> w.pattern,
       selected |-> selected, portion |-> selected # {} /\ w.selection.kind = "portion"]

NotDrawn == [first |-> -1, col |-> -1, rows |-> 0, lines |-> 0]

Init ==
  /\ nbLines = 0
  /\ v = [visible |-> Max(Heights), value |-> 0, maximum |-> 0,
          firstLine |-> 0, lastLineAligned |-> FALSE, firstCol |-> 0,
          selection |-> NoSelection, pattern |-> CHOOSE p \in Patterns : TRUE,
          followMode_ |-> FALSE, hooked_ |-> FALSE,
          selectionStarted_ |-> FALSE, selectionStartPos_ |-> 0,
          markingClickLine_ |-> -1,
          repaint |-> TRUE, invalid_ |-> TRUE, screen |-> NotDrawn,
          \* History: the log has changed since the last updateData(); drawn
          \* from a cache that is out of date; the end, or a line, is to be
          \* shown.
          changed |-> FALSE, unseen |-> FALSE, tail |-> FALSE, asked |-> -1]
  /\ drawing = NotDrawn
  /\ dead = FALSE
  /\ actions = 0

(* The GUI thread handles an event. *)
Handle == drawing = NotDrawn /\ ~dead /\ UNCHANGED <<nbLines, drawing, dead>>

(***************************************************************************)
(* The log.                                                                *)
(***************************************************************************)
logChanges ==
  /\ ~dead
  /\ \E n \in {0} \cup nbLines + 1..MaxLines : nbLines' = n /\ n # nbLines
  /\ v' = [v EXCEPT !.changed = TRUE, !.asked = -1]
  /\ UNCHANGED <<drawing, dead, actions>>

updated(w) ==
  LET told == [w EXCEPT !.changed = FALSE]
      inRange == IF w.firstLine >= nbLines
                   THEN setValue([told EXCEPT !.firstLine = 0, !.firstCol = 0], 0) ELSE told
      cropped == [inRange EXCEPT !.selection = crop(@, nbLines - 1)]
  IN  update(invalidate(follow(updateScrollBars(cropped))))

updateData == Handle /\ v' = updated(v) /\ UNCHANGED actions

(***************************************************************************)
(* Drawing: what there is to draw, and then, the log going on to change,   *)
(* its lines.                                                              *)
(***************************************************************************)
paintEvent ==
  LET current == v.screen.first = v.firstLine /\ v.screen.col = v.firstCol
      first == IF v.firstLine > nbLines THEN Max({nbLines - 1, 0}) ELSE v.firstLine
  IN  /\ drawing = NotDrawn /\ ~dead
      /\ v.repaint
      /\ IF ~v.invalid_ /\ current
           THEN v' = [v EXCEPT !.repaint = FALSE] /\ UNCHANGED drawing
           ELSE /\ v' = [v EXCEPT !.firstLine = first, !.repaint = FALSE,
                                  !.tail = @ /\ first = v.firstLine,
                                  !.asked = IF first = v.firstLine THEN @ ELSE -1]
                /\ drawing' = [first |-> first, lines |-> nbLines,
                               rows |-> Min({v.visible, nbLines - first})]
      /\ UNCHANGED <<nbLines, dead, actions>>

drawTextArea ==
  /\ drawing # NotDrawn /\ ~dead
  /\ IF drawing.rows # 0 /\ drawing.first + drawing.rows > nbLines
       THEN dead' = TRUE /\ UNCHANGED v
       ELSE /\ v' = [v EXCEPT !.invalid_ = FALSE, !.unseen = FALSE,
                              !.screen = Drawn(v, drawing.lines)]
            /\ UNCHANGED dead
  /\ drawing' = NotDrawn
  /\ UNCHANGED <<nbLines, actions>>

(***************************************************************************)
(* The mouse.                                                              *)
(***************************************************************************)
UserActs ==
  /\ Handle
  /\ actions < MaxActions
  /\ actions' = actions + 1

convertCoordToLine(row) == v.firstLine + row
convertCoordToFilePos(row) == Max({0, Min({convertCoordToLine(row), nbLines - 1})})

(* In the margin, with shift, or on the text. *)
mousePressEvent(row, where) ==
  LET line == convertCoordToLine(row)
      start == convertCoordToFilePos(row)
      begun == [v EXCEPT !.selectionStarted_ = TRUE, !.selectionStartPos_ = start]
  IN  /\ UserActs
      /\ v' = invalidate(
           CASE where = "shift" ->
                  update([v EXCEPT !.selection = selectRangeFromPrevious(@, line)])
             [] where = "margin" -> [v EXCEPT !.markingClickLine_ = line]
             [] where = "text" /\ line < nbLines ->
                  update([begun EXCEPT !.selection = selectLine(line)])
             [] where = "text" /\ line >= nbLines -> begun)

(* Dragged to a row, within the line or not; past the edge of the viewport a
   timer scrolls on. *)
mouseMoveEvent(row, within) ==
  LET end == convertCoordToFilePos(row)
      selected == IF end # v.selectionStartPos_ THEN selectRange(v.selectionStartPos_, end)
                  ELSE IF within THEN selectPortion(end) ELSE selectLine(end)
  IN  /\ UserActs
      /\ v.selectionStarted_
      /\ v' = update(invalidate([v EXCEPT !.selection = selected]))

timerEvent(step) ==
  /\ UserActs
  /\ v.selectionStarted_
  /\ v' = setValue(v, v.value + step)

(* The line is marked or no longer marked, and both views are told. *)
mouseReleaseEvent(row) ==
  LET line == convertCoordToLine(row)
      released == [v EXCEPT !.markingClickLine_ = -1]
  IN  /\ UserActs
      /\ v' = IF v.markingClickLine_ = -1 THEN [v EXCEPT !.selectionStarted_ = FALSE]
              ELSE IF line # v.markingClickLine_ THEN released
              ELSE IF line < nbLines THEN updated(released) ELSE invalidate(released)

mouseDoubleClickEvent(row) ==
  /\ UserActs
  /\ nbLines # 0
  /\ v' = update(invalidate(
            [v EXCEPT !.selection = selectPortion(convertCoordToFilePos(row))]))

(* The wheel: past the end it pulls the hook, which ends up hooked or not. *)
wheelEvent(step, hook) ==
  LET bottom == IF v.followMode_ THEN follow(v) ELSE v
      pulls == bottom.value = bottom.maximum
      pulled == IF pulls /\ hook # bottom.hooked_
                  THEN followModeChanged([bottom EXCEPT !.hooked_ = hook], hook)
                  ELSE bottom
  IN  /\ UserActs
      /\ v' = update(IF pulled.hooked_ THEN pulled
                     ELSE setValue(pulled, pulled.value + step))

(***************************************************************************)
(* The keyboard.                                                           *)
(***************************************************************************)
scrollTo(value) == UserActs /\ v' = setValue(v, value)

(* h, l, 0, $, Home, End, the arrows. *)
scrollColumns(column) == UserActs /\ v' = setColumn(v, column)

(* m and M. *)
markLines == UserActs /\ v' = updated(v)

(* j and k, after digits. *)
moveSelection(delta) ==
  LET lines == getLines(v.selection) \cup (IF getLines(v.selection) = {} THEN {-1} ELSE {})
      from == (IF delta < 0 THEN Min(lines) ELSE Max(lines)) + delta
      line == IF from < 0 THEN 0 ELSE IF from >= nbLines THEN nbLines - 1 ELSE from
  IN  /\ UserActs
      /\ v' = selectAndDisplayLine(v, line)

(* g after digits, and the lines that other widgets ask for. *)
displayAndSelect(line) == UserActs /\ v' = selectAndDisplayLine(v, line)

(* G and Ctrl+End: what is selected is not drawn if nothing scrolls. *)
selectLastLine ==
  LET selected == [disableFollow(v) EXCEPT !.selection = selectLine(nbLines - 1)]
  IN  /\ UserActs
      /\ v' = [jumpToBottom(selected) EXCEPT !.unseen = TRUE]

(***************************************************************************)
(* What else tells the view to change.                                     *)
(***************************************************************************)
resizeEvent(visible) ==
  /\ UserActs
  /\ v' = update(invalidate(follow(updateScrollBars(
             [v EXCEPT !.visible = visible, !.asked = -1]))))

followSetByUser(checked) ==
  /\ UserActs
  /\ checked # v.followMode_
  /\ v' = followSet(v, checked)

(* A QuickFind that finds, and one that does not; an incremental one then
   clears the selection, and its end may restore it. *)
searchFound(line, column) ==
  LET w == displayRangeInLine([disableFollow(v) EXCEPT !.selection = selectPortion(line)],
                              line, column)
  IN  /\ UserActs
      /\ v' = IF line - v.visible \div 2 < 0 \/ Detached(v) THEN w ELSE Asked(w, line)

searchNotFound(incremental) ==
  LET w == disableFollow(v)
  IN  /\ UserActs
      /\ v' = IF incremental /\ w.selection.kind # "range"
                THEN [w EXCEPT !.selection = NoSelection, !.unseen = TRUE] ELSE w

incrementalSearchEnds(selection) ==
  /\ UserActs
  /\ v' = [v EXCEPT !.selection = selection, !.unseen = TRUE]

handlePatternUpdated(pattern) ==
  /\ UserActs
  /\ v' = update([v EXCEPT !.pattern = pattern, !.unseen = TRUE])

selectAll ==
  /\ UserActs
  /\ nbLines # 0
  /\ v' = update(invalidate([v EXCEPT !.selection = selectRange(0, nbLines - 1)]))

(* The colours change. *)
forceRefresh == UserActs /\ v' = update(invalidate(v))

UserAction ==
  \/ \E row \in 0..v.visible - 1 :
       \/ \E where \in {"text", "shift", "margin"} : mousePressEvent(row, where)
       \/ mouseReleaseEvent(row)
       \/ mouseDoubleClickEvent(row)
  \/ \E row \in -1..v.visible, within \in BOOLEAN : mouseMoveEvent(row, within)
  \/ \E step \in {-1, 1} :
       \/ timerEvent(step)
       \/ \E hook \in BOOLEAN : wheelEvent(step, hook)
       \/ moveSelection(step)
  \/ \E value \in {0, v.value - v.visible, v.value + v.visible} : scrollTo(value)
  \/ \E column \in 0..MaxColumn : scrollColumns(column)
  \/ \E line \in 0..nbLines - 1 :
       \/ displayAndSelect(line)
       \/ \E column \in 0..MaxColumn : searchFound(line, column)
       \/ incrementalSearchEnds(selectLine(line))
  \/ selectLastLine
  \/ \E visible \in Heights : resizeEvent(visible)
  \/ \E b \in BOOLEAN : followSetByUser(b) \/ searchNotFound(b)
  \/ \E p \in Patterns : handlePatternUpdated(p)
  \/ selectAll \/ markLines \/ forceRefresh

Next == logChanges \/ updateData \/ paintEvent \/ drawTextArea \/ UserAction

Spec == Init /\ [][Next]_vars

-----------------------------------------------------------------------------
(***************************************************************************)
(* Properties.                                                             *)
(***************************************************************************)
(* The scroll bar is within its range and, once the view is told of the    *)
(* log, so are the first line and the selection. *)
TypeOK ==
  /\ v.value \in 0..v.maximum
  /\ v.firstLine \in 0..MaxLines
  /\ v.firstCol \in 0..MaxColumn
  /\ v.visible \in Heights
  /\ v.hooked_ \in BOOLEAN /\ v.lastLineAligned \in BOOLEAN
  /\ v.selection.kind = "range" => v.selection.start <= v.selection.end

(* "Invalidate our cache": when nothing is left to draw, the screen shows  *)
(* the lines, the selection and the matches there are now, whatever was    *)
(* clicked, typed, found or loaded; but for G at the bottom, a pattern or  *)
(* a selection that only QuickFind changes, and a jump back to the page    *)
(* painted last. *)
ScreenIsCurrent ==
  ~v.repaint /\ ~v.changed /\ ~v.unseen /\ ~dead /\ drawing = NotDrawn /\ ~v.invalid_ =>
    v.screen = Drawn(v, nbLines)

(* "Activate 'follow' mode, which keep the display as the tail of the file": *)
(* the last line is on the screen when it is turned on, when the log has   *)
(* grown, shrunk or been read again and when the window is resized, but    *)
(* where the first line was left apart from the scroll bar. *)
TailIsShown ==
  v.followMode_ /\ v.tail /\ ~v.changed /\ ~Detached(v) =>
    v.firstLine + v.visible >= nbLines

(* "Makes the widget adjust itself to display the passed line": it is on   *)
(* the screen until something else scrolls or the log changes. *)
AskedIsVisible == v.asked # -1 => v.asked \in visibleLineRange(v)
=============================================================================
