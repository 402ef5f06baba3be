------------------------------- MODULE Window -------------------------------
(***************************************************************************)
(* The main windows of one process: the tabs of each, the crawler widget   *)
(* behind each tab, the session that owns the open files, and what is      *)
(* dragged from a tab bar to another.                                      *)
(*                                                                         *)
(* All of it runs in the GUI thread, and a handler calls the others        *)
(* directly, through signals: a handler is a function from the state g of  *)
(* the windows to the state it leaves, an action applies one to an event.  *)
(* What interleaves is the events: those of the user, who sees one tab of  *)
(* each window, and those of the loads and searches of every crawler,      *)
(* shown or not, during a drag too (it runs an event loop of its own).     *)
(***************************************************************************)
EXTENDS Integers, Sequences, FiniteSets, SequencesExt, Lists

CONSTANTS
  Files,       \* the names of the files
  MaxWindows,  \* bound on the windows of the process
  MaxCrawlers, \* bound on the open files, duplicates included
  MaxActions   \* bound on what the user and the files do

VARIABLES
  g,           \* the windows
  actions      \* what the user and the files did, counted

vars == <<g, actions>>

Windows == 1 .. MaxWindows
Crawlers == 1 .. MaxCrawlers
NoFile == "no file"
NoCrawler == 0
NoDrag == [from |-> 0, index |-> 0]

(* openFiles_ of the session: the crawlers that have a file.               *)
openFiles(s) == {c \in Crawlers : s.file[c] # NoFile}

(* The positions of the tabs count from 1, 0 stands for -1 in the code.    *)
currentCrawlerWidget(s, w) ==
  IF s.current[w] = 0 THEN NoCrawler ELSE s.tabs[w][s.current[w]]

WindowsShowing(s, c) == {w \in s.listeners[c] : currentCrawlerWidget(s, w) = c}

-----------------------------------------------------------------------------
(* Follow mode: the check mark of a window's menu is sent to the crawler   *)
(* the window shows, and a crawler's views uncheck that of every window    *)
(* that listens to them.                                                   *)
changeFollowMode(s, ws, enabled) ==
  LET changed == {w \in ws : s.followAction[w] # enabled}
      told == {currentCrawlerWidget(s, w) : w \in changed}
  IN  [s EXCEPT !.followAction =
                  [w \in Windows |-> IF w \in changed THEN enabled ELSE @[w]],
                !.follow = [c \in Crawlers |-> IF c \in told THEN enabled ELSE @[c]]]

followModeChanged(s, c, enabled) == changeFollowMode(s, s.listeners[c], enabled)

(* The end of a load, told to the windows that show the crawler.           *)
handleLoadingFinished(s, ws, c) ==
  [s EXCEPT !.info = [w \in Windows |-> IF w \in ws THEN s.file[c] ELSE @[w]]]

sendAllStateSignals(s, c) ==
  IF s.loading[c] THEN s ELSE handleLoadingFinished(s, WindowsShowing(s, c), c)

(* Bug: the menu keeps the follow mode of the tab shown before.            *)
currentTabChanged_KeepMenu(s, w) ==
  LET c == currentCrawlerWidget(s, w)
  IN  IF c = NoCrawler
      THEN [s EXCEPT !.title[w] = NoFile, !.info[w] = NoFile]
      ELSE [sendAllStateSignals(s, c) EXCEPT !.title[w] = s.file[c]]

currentTabChanged(s, w) ==
  LET c == currentCrawlerWidget(s, w)
  IN  IF c = NoCrawler
      THEN [s EXCEPT !.title[w] = NoFile, !.info[w] = NoFile]
      ELSE [sendAllStateSignals(s, c) EXCEPT !.title[w] = s.file[c],
                                             !.followAction[w] = s.follow[c]]

-----------------------------------------------------------------------------
(* The tab bar.                                                            *)
setCurrentIndex(s, w, i) ==
  IF i = s.current[w] \/ i \notin 1 .. Len(s.tabs[w]) THEN s
  ELSE currentTabChanged([s EXCEPT !.current[w] = i], w)

(* The tab bar with the new tab, current only when it is the only one.     *)
(* The handler of its data status keeps the index it is given here.        *)
inserted(s, w, i, c) ==
  LET n == Len(s.tabs[w])
  IN  [s EXCEPT
        !.tabs[w] = InsertAt(@, i, c),
        !.current[w] = IF n = 0 THEN 1 ELSE IF i <= @ THEN @ + 1 ELSE @,
        !.moved = @ \/ i <= n,
        !.pinned[c] = FALSE, !.icon[c] = "old", !.handler[c] = <<w, i>>]

(* The crawler of a new tab is connected to the window last.               *)
insertTab(s, w, i, c, setCurrent) ==
  LET shifted == inserted(s, w, i, c)
      shown == IF Len(s.tabs[w]) = 0 THEN currentTabChanged(shifted, w) ELSE shifted
  IN  [IF setCurrent THEN setCurrentIndex(shown, w, i) ELSE shown
         EXCEPT !.listeners[c] = @ \cup {w}]

(* The tab on the right becomes current in place of the one removed.       *)
removeTab(s, w, i) ==
  LET n == Len(s.tabs[w])
      removed == [s EXCEPT
        !.tabs[w] = RemoveAt(@, i),
        !.current[w] = IF (i < @) \/ (@ = n) THEN @ - 1 ELSE @,
        !.moved = @ \/ i < n]
  IN  IF i =< s.current[w] THEN currentTabChanged(removed, w) ELSE removed

(* QTabBar does nothing unless there are tabs at both indices; no signal   *)
(* tells of a new index of the current tab.                                *)
moveTab(s, w, from, to) ==
  LET tabs == s.tabs[w]
      rest == InsertAt(RemoveAt(tabs, from), to, tabs[from])
  IN  IF from = to \/ ~({from, to} \subseteq 1 .. Len(tabs)) THEN s
      ELSE [s EXCEPT !.tabs[w] = rest,
                     !.current[w] = CHOOSE k \in 1 .. Len(rest) : rest[k] = tabs[@],
                     !.moved = TRUE]

setTabDataStatus(s, handler, status) ==
  LET tabs == s.tabs[handler[1]]
  IN  IF handler[2] \in 1 .. Len(tabs)
      THEN [s EXCEPT !.icon[tabs[handler[2]]] = status] ELSE s

changeDataStatus(s, c, status) ==
  IF status = s.status[c] \/ <<s.status[c], status>> = <<"filtered", "new">> THEN s
  ELSE setTabDataStatus([s EXCEPT !.status[c] = status], s.handler[c], status)

-----------------------------------------------------------------------------
(* The session.                                                            *)
saveSession(s, w) ==
  [s EXCEPT !.saved = [k \in 1 .. Len(s.tabs[w]) |->
                         LET c == s.tabs[w][k]
                         IN  [file |-> s.file[c], follow |-> s.follow[c]]],
            !.savedBy = w]

openAlways(s, c, file, follow) ==
  [s EXCEPT !.file[c] = file, !.follow[c] = follow, !.loading[c] = TRUE,
            !.indexing[c] = TRUE, !.firstLoadDone[c] = FALSE,
            !.status[c] = "old", !.searching[c] = FALSE, !.listeners[c] = {},
            !.dropped = @ \ {c}]

(* The crawler is deleted: nothing it does is heard of any more.           *)
close(s, c) ==
  [s EXCEPT !.file[c] = NoFile, !.listeners[c] = {}, !.loading[c] = FALSE,
            !.indexing[c] = FALSE, !.searching[c] = FALSE]

closeTab(s, w, i) == saveSession(close(removeTab(s, w, i), s.tabs[w][i]), w)

closeAll(s, w) ==
  LET f[t \in 0 .. Len(s.tabs[w])] == IF t = 0 THEN s ELSE closeTab(f[t - 1], w, 1)
  IN  f[Len(s.tabs[w])]

(* Bug: the tab that took the place of a closed one is skipped.            *)
closeTabs_Skip(s, w, begin, end) ==
  LET f[t \in 0 .. end - begin] ==
        IF t = 0 THEN [s |-> s, index |-> begin]
        ELSE LET r == f[t - 1]
             IN  IF r.index > Len(r.s.tabs[w]) \/ r.s.pinned[r.s.tabs[w][r.index]]
                 THEN [r EXCEPT !.index = @ + 1]
                 ELSE [s |-> closeTab(r.s, w, r.index), index |-> r.index + 1]
  IN  f[end - begin].s

(* The tabs begin .. end - 1 are closed, the pinned ones aside: as many    *)
(* steps as there are tabs, the index moves past the pinned ones only.     *)
closeTabs(s, w, begin, end) ==
  LET f[t \in 0 .. end - begin] ==
        IF t = 0 THEN [s |-> s, index |-> begin]
        ELSE LET r == f[t - 1]
             IN  IF r.s.pinned[r.s.tabs[w][r.index]]
                 THEN [r EXCEPT !.index = @ + 1]
                 ELSE [r EXCEPT !.s = closeTab(r.s, w, r.index)]
  IN  f[end - begin].s

(* An open file is shown again, if it is in this window, instead of opened *)
(* anew; any of its crawlers may be found.  The crawlers have bounds.      *)
loadFile(s, w, file, i, allowDuplicate) ==
  LET existing == {c \in Crawlers : s.file[c] = file}
      free == Crawlers \ openFiles(s)
      opened(c) ==
        saveSession(setCurrentIndex(
          insertTab(openAlways(s, c, file, FALSE), w, i, c, FALSE), w, i), w)
      Index(c) == CHOOSE k \in 1 .. Len(s.tabs[w]) : s.tabs[w][k] = c
  IN  IF existing # {} /\ ~allowDuplicate
      THEN {IF Contains(s.tabs[w], c) THEN setCurrentIndex(s, w, Index(c)) ELSE s :
              c \in existing}
      ELSE IF free = {} THEN {} ELSE {opened(Min(free))}

(* A process that starts: one window, no tab.                              *)
Empty(saved) ==
  [windows |-> {1}, tabs |-> [w \in Windows |-> <<>>],
   current |-> [w \in Windows |-> 0], title |-> [w \in Windows |-> NoFile],
   info |-> [w \in Windows |-> NoFile], followAction |-> [w \in Windows |-> FALSE],
   file |-> [c \in Crawlers |-> NoFile], follow |-> [c \in Crawlers |-> FALSE],
   loading |-> [c \in Crawlers |-> FALSE], indexing |-> [c \in Crawlers |-> FALSE],
   firstLoadDone |-> [c \in Crawlers |-> FALSE],
   status |-> [c \in Crawlers |-> "old"], searching |-> [c \in Crawlers |-> FALSE],
   pinned |-> [c \in Crawlers |-> FALSE], icon |-> [c \in Crawlers |-> "old"],
   handler |-> [c \in Crawlers |-> <<1, 0>>], listeners |-> [c \in Crawlers |-> {}],
   saved |-> saved, savedBy |-> 1, drag |-> NoDrag,
   moved |-> FALSE, dropped |-> {}]

(* The views of the saved session are all made, then given their tabs.     *)
reloadSession(saved) ==
  LET restore[k \in 0 .. Len(saved)] ==
        IF k = 0 THEN Empty(saved)
        ELSE openAlways(restore[k - 1], k, saved[k].file, saved[k].follow)
      insert[k \in 0 .. Len(saved)] ==
        IF k = 0 THEN restore[Len(saved)]
        ELSE insertTab(insert[k - 1], 1, Len(insert[k - 1].tabs[1]) + 1, k, FALSE)
  IN  insert[Len(saved)]

-----------------------------------------------------------------------------
Init ==
  /\ g = Empty(<<>>)
  /\ actions = 0

(* The user acts on a window unless a drag is under way.                   *)
Acts ==
  /\ actions < MaxActions
  /\ actions' = actions + 1

UserActs == Acts /\ g.drag = NoDrag

Happens == UNCHANGED actions

newWindow ==
  /\ UserActs
  /\ Cardinality(g.windows) < MaxWindows
  /\ g' = [g EXCEPT !.windows = @ \cup {Cardinality(@) + 1}]

(* From the dialog, the recent files, a dropped name; or asked by another  *)
(* process, at any time.                                                   *)
open(w, file) ==
  /\ Acts
  /\ g' \in loadFile(g, w, file, Len(g.tabs[w]) + 1, FALSE)

onDuplicateTab(w, i) ==
  /\ UserActs
  /\ g' \in loadFile(g, w, g.file[g.tabs[w][i]], Len(g.tabs[w]) + 1, TRUE)

tabCloseRequested(w, i) ==
  /\ UserActs
  /\ g' = closeTab(g, w, i)

closeAllTabs(w) ==
  /\ UserActs
  /\ g' = closeAll(g, w)

closeSomeTabs(w, begin, end) ==
  /\ UserActs
  /\ g' = closeTabs(g, w, begin, end)

setPinned(w, i, pinned) ==
  /\ UserActs
  /\ g' = [g EXCEPT !.pinned[g.tabs[w][i]] = pinned]

(* "Move to start" and "Move to end", which asks for the index count().    *)
moveToStart(w, i) == UserActs /\ g' = moveTab(g, w, i, 1)
moveToEnd(w, i) == UserActs /\ g' = moveTab(g, w, i, Len(g.tabs[w]) + 1)

selectTab(w, i) ==
  /\ UserActs
  /\ g' = setCurrentIndex(g, w, i)

followFile(w, checked) ==
  /\ UserActs
  /\ g.followAction[w] # checked
  /\ g' = changeFollowMode(g, {w}, checked)

(* Scrolling up and pulling down past the end, in the views that are shown. *)
hooked(w, enabled) ==
  /\ UserActs
  /\ g.current[w] # 0
  /\ g' = followModeChanged(g, currentCrawlerWidget(g, w), enabled)

activityDetected(w) ==
  /\ UserActs
  /\ g.current[w] # 0
  /\ g' = changeDataStatus(g, currentCrawlerWidget(g, w), "old")

startNewSearch(w) ==
  /\ UserActs
  /\ g.current[w] # 0
  /\ g' = [g EXCEPT !.searching[currentCrawlerWidget(g, w)] = TRUE]

quitAndStart ==
  /\ UserActs
  /\ g' = reloadSession(g.saved)

-----------------------------------------------------------------------------
(* Dragging a tab: pressing the button has made it the current one.  What  *)
(* is dragged is the tab bar and the index.                                *)
onTabDragStarted(w, i) ==
  /\ UserActs
  /\ g' = [setCurrentIndex(g, w, i) EXCEPT !.drag = [from |-> w, index |-> i]]

dragCancelled ==
  /\ g.drag # NoDrag
  /\ g' = [g EXCEPT !.drag = NoDrag]
  /\ Happens

(* In the bar the tab comes from: neither place beside it is offered.      *)
dropInSameBar(i) ==
  LET w == g.drag.from
      from == g.drag.index
  IN  /\ g.drag # NoDrag
      /\ i \in (1 .. Len(g.tabs[w]) + 1) \ {from, from + 1}
      /\ g' = [moveTab(g, w, from, IF from < i THEN i - 1 ELSE i)
                 EXCEPT !.drag = NoDrag]
      /\ Happens

(* Bug: the session is not saved.                                          *)
onTabDragAndDrop_NoSave(s, w, i) ==
  LET from == s.drag.from
      c == s.tabs[from][s.drag.index]
  IN  insertTab([removeTab(s, from, s.drag.index) EXCEPT !.dropped = @ \cup {c}],
                w, i, c, TRUE)

onTabDragAndDrop(s, w, i) ==
  LET from == s.drag.from
      c == s.tabs[from][s.drag.index]
  IN  saveSession(
        insertTab([removeTab(s, from, s.drag.index) EXCEPT !.dropped = @ \cup {c}],
                  w, i, c, TRUE), w)

(* In another window of the process.  The assertion that there is a tab    *)
(* where it was ends the process when there is none.                       *)
dropInOtherWindow(w, i) ==
  /\ g.drag # NoDrag /\ w # g.drag.from
  /\ i \in 1 .. Len(g.tabs[w]) + 1
  /\ g' = IF g.drag.index \in 1 .. Len(g.tabs[g.drag.from])
          THEN [onTabDragAndDrop(g, w, i) EXCEPT !.drag = NoDrag]
          ELSE reloadSession(g.saved)
  /\ Happens

(* A tab dropped here by another process is loaded as a file.              *)
dropFromOtherProcess(w, i, file) ==
  /\ UserActs
  /\ g' \in loadFile(g, w, file, i, FALSE)

-----------------------------------------------------------------------------
(* The loads and the searches of the crawlers.                             *)
fileGrew(c) ==
  /\ Acts
  /\ c \in openFiles(g) /\ ~g.indexing[c]
  /\ g' = [g EXCEPT !.indexing[c] = TRUE]

(* A load that failed or was stopped closes the tab, if it is shown.       *)
loadingFinished(c, successful) ==
  LET w == Min(WindowsShowing(g, c))
      loaded == [g EXCEPT !.loading[c] = FALSE, !.indexing[c] = FALSE]
      told == handleLoadingFinished(loaded, WindowsShowing(g, c), c)
      final(s) == IF g.firstLoadDone[c] THEN changeDataStatus(s, c, "new")
                  ELSE [s EXCEPT !.firstLoadDone[c] = TRUE]
  IN  /\ g.indexing[c]
      /\ g' = IF successful THEN final(told)
              ELSE IF WindowsShowing(g, c) = {} THEN final(loaded)
              ELSE closeTab(loaded, w, g.current[w])
      /\ Happens

(* The auto-refreshed search finds matches in what was added.              *)
newMatches(c) ==
  /\ c \in openFiles(g) /\ ~g.indexing[c] /\ ~g.searching[c] /\ g.firstLoadDone[c]
  /\ g' = changeDataStatus(g, c, "filtered")
  /\ Happens

(* A full search ends: unless the crawler follows its file the selection   *)
(* of its filtered view is restored, which disables the follow mode.       *)
searchFinished(c) ==
  /\ g.searching[c]
  /\ g' = [IF g.follow[c] THEN g ELSE followModeChanged(g, c, FALSE)
             EXCEPT !.searching[c] = FALSE]
  /\ Happens

-----------------------------------------------------------------------------
OnTab(w, i) ==
  \/ onDuplicateTab(w, i) \/ tabCloseRequested(w, i)
  \/ \E pinned \in BOOLEAN : setPinned(w, i, pinned)
  \/ moveToStart(w, i) \/ moveToEnd(w, i) \/ selectTab(w, i)
  \/ onTabDragStarted(w, i)
  \/ closeSomeTabs(w, 1, i) \/ closeSomeTabs(w, i + 1, Len(g.tabs[w]) + 1)

OnWindow(w) ==
  \/ \E file \in Files : open(w, file)
  \/ closeAllTabs(w)
  \/ closeSomeTabs(w, 1, Len(g.tabs[w]) + 1)
  \/ \E b \in BOOLEAN : followFile(w, b) \/ hooked(w, b)
  \/ activityDetected(w) \/ startNewSearch(w)
  \/ \E i \in 1 .. Len(g.tabs[w]) + 1 :
       \/ dropInOtherWindow(w, i)
       \/ \E file \in Files : dropFromOtherProcess(w, i, file)

User ==
  \/ newWindow \/ quitAndStart \/ dragCancelled
  \/ \E i \in 1 .. MaxCrawlers + 1 : dropInSameBar(i)
  \/ \E w \in g.windows : OnWindow(w) \/ \E i \in 1 .. Len(g.tabs[w]) : OnTab(w, i)

Crawler(c) ==
  \/ fileGrew(c) \/ newMatches(c) \/ searchFinished(c)
  \/ \E successful \in BOOLEAN : loadingFinished(c, successful)

Next == User \/ \E c \in Crawlers : Crawler(c)

Spec == Init /\ [][Next]_vars

-----------------------------------------------------------------------------
(* The values of the variables. *)
TypeOK ==
  /\ g.windows \subseteq Windows
  /\ g.tabs \in [Windows -> BoundedSeq(Crawlers, MaxCrawlers)]
  /\ \A w \in Windows : g.current[w] \in 0 .. Len(g.tabs[w])
  /\ \A w \in Windows : (g.current[w] = 0) <=> (g.tabs[w] = <<>>)
  /\ g.title \in [Windows -> Files \cup {NoFile}]
  /\ g.file \in [Crawlers -> Files \cup {NoFile}]
  /\ g.status \in [Crawlers -> {"old", "new", "filtered"}]

(* The session knows every view that has a tab (its at() would throw), and *)
(* an open file has one tab, in one window: whatever was dragged where,    *)
(* and whichever loads failed meanwhile.                                   *)
SessionKnowsTabs ==
  \A c \in Crawlers :
    Cardinality({at \in Windows \X (1 .. MaxCrawlers) :
                   at[2] <= Len(g.tabs[at[1]]) /\ g.tabs[at[1]][at[2]] = c})
      = IF c \in openFiles(g) THEN 1 ELSE 0

(* A window shows its current tab: its title, the check mark of its follow *)
(* action and, once the file is loaded, its info line are those of the     *)
(* crawler, however it became current.  (A crawler that comes from another *)
(* window is not connected yet when it is shown there.)                    *)
WindowShowsCurrent ==
  \A w \in Windows :
    LET c == currentCrawlerWidget(g, w)
    IN  IF c = NoCrawler THEN g.title[w] = NoFile
        ELSE /\ g.title[w] = g.file[c]
             /\ g.followAction[w] = g.follow[c]
             /\ g.loading[c] \/ c \in g.dropped \/ g.info[w] = g.file[c]

(* The saved session is what is open in the window that saved it last,     *)
(* after any opening, closing and dragging: a tab of that window does not  *)
(* come or go without the session being saved again.                       *)
SessionIsSaved ==
  LET tabs == g.tabs[g.savedBy]
  IN  \A file \in Files :
        Cardinality({k \in DOMAIN tabs : g.file[tabs[k]] = file})
          = Cardinality({k \in DOMAIN g.saved : g.saved[k].file = file})

(* Closing a range of tabs closes those that are not pinned and no other,  *)
(* although each tab closed shifts the ones after it.                      *)
PinnedAreKept ==
  \A w \in Windows : \A begin, end \in 1 .. Len(g.tabs[w]) + 1 :
    LET tabs == g.tabs[w]
    IN  begin <= end =>
          closeTabs(g, w, begin, end).tabs[w] =
            SubSeq(tabs, 1, begin - 1)
              \o Kept(SubSeq(tabs, begin, end - 1), {c \in Crawlers : g.pinned[c]})
              \o SubSeq(tabs, end, Len(tabs))

(* The icon of a tab tells the data status of its crawler, as long as no   *)
(* tab was moved, nor inserted or removed before another: the handler of   *)
(* the status knows its tab by the index it had.  (The tab of a crawler    *)
(* that comes from another window starts with the icon of old data.)       *)
StatusIsShown ==
  ~g.moved => \A c \in openFiles(g) \ g.dropped : g.icon[c] = g.status[c]
=============================================================================
