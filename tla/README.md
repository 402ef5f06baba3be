# glogg: a verification development

glogg shows log files that may be huge and that may be written while they are
looked at. It reads a file once to find where its lines end, keeps only those
positions, and reads the lines of the page on the screen again from the file.
A thread indexes the file, another one searches it, a third one watches it on
disk, and the GUI thread starts, stops and combines what they do. What can go
wrong is mostly in those combinations, in the compressed list of line ends
they share, and in what a window keeps of things that change under it: a
pixmap, a merged list, a menu, a saved session. This directory holds TLA+
models of them, the TLC configurations that check the models, and theorems
with proofs checked by TLAPS.

All source paths below are relative to `src/` of the repository, except where
they begin with `doc/` or `tests/`. `PROJECT.json` maps every definition to the
lines it stands for.

## 1. Inventory

### LogData and its indexing worker (`data/logdata*`, `data/logdataworkerthread*`)

State: the attached file (an open handle, which keeps following the file when
it is renamed), the current operation and *one* slot for the next, the flag
`fileChangedOnDisk_`; in the worker a requested operation, an interruption flag
written without a lock, and `IndexingData` (line ends, size, longest line)
shared under a mutex. Operations: attach, reload, interrupt, "file changed",
"indexing finished", destruction; in the worker full and partial indexing,
block by block. Callers: `CrawlerWidget`, the file watcher's signal and the
worker's signal, both through the event queue. Hard: the order of
notifications, requests and ends; the file changing under the indexing; a size
read twice; the fake line feed put after a last line without one; interruption
at any point; memory that runs out. Correct when operations neither get lost
nor freeze the window, the index is that of a prefix of the file, and all of it
once everything is quiet.

### Line end storage (`data/compressedlinestorage*`, `data/linepositionarray.h`, `data/threadprivatestore.h`)

State: blocks of delta coded positions in two tables (32 and 64 bits), the
pointer where the next one goes, the pointer before the last one, a read cache
per thread. Operations: append, take back the last (fake) line end, read, move.
Hard: entries of three widths that are rewritten, blocks shrunk when full and
reopened, blocks that move, caches that survive all that. Correct when it
behaves as the vector it stands for.

### Encoding (`encodingspeculator*`, the codec of `crawlerwidget.cpp`)

State: an automaton over the bytes that are read, which lives as long as the
log's worker thread; the guess stored with the index; the codec of the views;
the encoding chosen in the menu. Operations: a byte, an indexing, its end, a
choice. Hard: characters cut by the end of a block or of an indexing, the
smallest and largest code points of a length, what is left over from a file
that was replaced. Correct when a text in UTF-8 is shown as such.

### Search (`data/logfiltereddata*`, `data/logfiltereddataworkerthread*`) and `CrawlerWidget`

State: in the window the search line, `SearchState`, what the filtered view was
last told; in `LogFilteredData` a copy of the matches and of how far the search
got; in the worker the operation, the flag, and `SearchData`, the original of
that copy. Operations: search, update, interrupt, clear; handlers of the ends
of loadings, of truncations, of progress, of every button. Hard: handlers that
block on the worker, and one that runs the event loop inside itself; results of
an old search still in the queue; a position read before a wait and used after
it; the log growing, losing its last line or being read again during the
search. Correct when the matches are those of the log and the view shows them.

### Results: marks, the filtered list and the overview (`marks.*`, `data/logfiltereddata.cpp`, `overview.*`)

State: the sorted marks and their longest line, the matches, a cache of their
merge with a dirty flag, what is to be shown, the line selected in both views,
the pixels of the overview. Operations: mark, unmark, toggle, one line or a
range, from either view; search results; visibility. Hard: each change has to
invalidate the cache and tell the views and the overview; a range is given by
lines of the list that is changed by it. Correct when the list read is the
sorted union, and the overview shows what it was told of.

### A view (`abstractlogview.*`, `viewtools.*`, `selection.*`, `logmainview.*`, `filteredview.*`)

State: scroll bars with a range, the first line and column, the selection,
follow mode with its elastic hook, the pixmap painted last with what it was
painted for. Operations: keys, mouse, wheel, jumps, resizing, the update by the
log, painting. Hard: the log changes in another thread before the view is told;
whatever changes what is drawn must invalidate the pixmap. Correct when the
screen shows what there is, and what was asked for is on it.

### QuickFind (`quickfind*`)

State: the pattern, the limits past which there is no match, the incremental
search's start, a state that turns re-entrant searches away. Operations: search
forward, backward, incrementally; a new pattern; new lines. Hard: the search
sends a notification that handles events, so that it is re-entered from itself,
with another pattern and a longer log. Correct when it finds the nearest match
of what was asked last, and ends.

### Colours (`colorizer.*`, `highlights.*`, `syntax.*`, `struct_config*`, `color_scheme.*`)

State: of a line, a sorted list of tokens, to which the layers are added from
the highest to the lowest; of the process, a store of schemes read from files,
with the current one, and a menu per window. Operations: add a token; reload,
choose, paint, a new window. Hard: a token cut by several others; a message box
that runs events in the middle of a reload; menus that outlive what they were
made of. Correct when each column has the colour of its highest layer, and the
current scheme is there.

### Windows, tabs and session (`mainwindow.*`, `tabbedcrawlerwidget.*`, `tab_bar.*`, `session*`)

State: per window its tabs, the current one, the title, the information line and
the check marks of its menu; per crawler its file, what it is doing and who
listens to it; the saved session. Operations: open, close one or many, pin, move,
drag to another window, the end or failure of a loading. Hard: events of
crawlers that are not shown, an index that is captured, a drag that runs
events; tabs that shift while a range is closed. Correct when a window shows its
current tab, pinned tabs are kept and the saved session is what is open.

### Processes (`main.cpp`, `*externalcom*`, `savedsearches.*`, `recentfiles.*`, `persistentinfo.*`)

State: the name of the server, taken or not; the settings file with the history of
searches, those pinned and the recent files; a copy per process. Operations:
start, leave the files to another and end, listen, add a search or a file, pin,
unpin, clear. Hard: two that start together; lists that are read, changed and
saved in separate steps. Correct when one process runs and no list holds
anything twice.

### WatchTower, ObservedFileList and the drivers (`watchtower*.h`, `inotifywatchtowerdriver.*`, `kqueuewatchtowerdriver.*`, `winwatchtowerdriver.*`, `platformfilewatcher.*`, `qtfilewatcher.*`)

State: the observed files with their callbacks, watch descriptors and
directories; the kernel's watches and its queue of events. Operations: register
and drop a callback (GUI thread), treat events, watch again, notify (the
tower's thread), destruction. Hard: the lock is dropped in `poll()`; the file
system changes between any two system calls; a descriptor belongs to an inode,
a registration to a name. Correct when every observed name ends up watched,
every change is announced, and nothing stays behind.

### The rest

Configuration and its dialog, the parsing of YAML files, logging: read, written
or printed as they are. `FiltersDialog` is compiled but nothing opens it;
`versionchecker.cpp`, `qtfilewatcher.cpp` and `winwatchtowerdriver.cpp` are not
in the build, the kqueue driver only on macOS.

### How they interact

The file system tells the driver, the driver `WatchTower`, `WatchTower` the GUI
thread (a queued signal), `LogData` its worker (a request under a mutex), the
worker `LogData` (a queued signal), `LogData` `CrawlerWidget` (a direct one),
which asks `LogFilteredData` to search again, updates its views and overview,
chooses the codec and tells its tab and its window. Requests to a worker block
the GUI thread until the worker is idle; two notifications (of QuickFind and of
a new search), a drag and a message box run events inside a handler.

## 2. Plan

1. `LogData` and its proofs: what everything else waits for. *Done.*
2. `LinePosition` (what a list of line ends promises, with proofs) and
   `LineStorage`, shown to implement it. *Done.*
3. `FilteredSearch`: the search worker, `LogFilteredData` and the widget
   together, over an abstract log. *Done.*
4. `WatchTower` with the inotify driver. *Done* for plain files.
5. The window: `QuickFind` with its re-entrance, `LogView`, `Results`, `Window`,
   `Instances`, `Encoding`, `Colorizer` within `LineColors`, `ColorSchemes`; and
   `Gui`, which puts them side by side. *Done.*
6. Proofs that the automaton of the encoding recognises every text, that the
   merging of colours is right for any line, that the current scheme is there for
   any number of windows, and that the tower's list, watches and pointers stay
   consistent. *Done.*
7. Proofs of all the invariants of `FilteredSearch`; that a log that grows is
   indexed to its last line once all is quiet; and that the tower, in one
   directory, watches every file and tells every change. *Done.*
8. The proof that the block storage implements the list of line ends, for blocks
   and entries of any size. *Done.*
9. Proofs about the view: that a search of text finds the nearest match however
   handlers nest, that the cache of what is painted is right, and that the lines
   that should be on the screen are. *Done.*
10. Proofs about what is kept in lists: the searches and files of any processes,
   and the tabs of any windows. *Done.*

Left, in this order: a thread that reads lines (`doGetLine*`) against the
indexing worker; symbolic links, hard links and polling of the tower; several
views under one multiplexer of QuickFind; an abstract "loading service" (each
change announced ends in one end of loading) implemented by `LogData`, over
which `FilteredSearch` would be composed.

Modules to be proved about hold no RECURSIVE operator; recursive functions and
the folds of the community modules are used instead.

## 3. Modules

### `LogData` (with `MCLogData`, `LogDataProofs`)

Files are sequences of bytes that are a line feed or not (`content`), the log's
name stands for one of them (`named`), `attached_file_` and `opFile` are the
handles of the GUI thread and of the operation, so truncation, rotation and
removal under an open handle are what they are on Linux. `guiPc` is where the
GUI thread is within a handler that spans several steps (opening the file
again, starting an operation, registering with the watcher, waiting for the
worker's end); `workerPc` is where the worker is in `run()` and `doIndex()`.
`guiQueue` is the event queue. One action per handler:
`attachFile`, `interruptLoading`, `reload`, `beginFileChanged`/`endFileChanged`,
the ends of an indexing, `close`; in the worker `startFull`, `startPartial`,
`readBlock`, `indexBlock`, `addFakeFinalLF`, `emitFinished` and so on.
`IndexingData` is `lines` (the set of the real line ends), `fakeLF`,
`indexedSize_` and `maxLength_`.

`MCLogData` adds the symmetry of the inodes, used where there are two.

### `LinePosition`, `LinePositionProofs`, `LineStorage` (with `MCLineStorage`, `LineStorageProofs`)

`LinePosition` is the list over a plain vector, with the fake final line end.
`LineStorage` is `CompressedLinePositionStorage`: a block is a record of its
entries, each with its width and whether it is inside what was allocated; a
pointer is a block and an offset; sizes and the limits of the widths are
constants. `Decoded` is the refinement mapping, and `EmulatesVector` says that
the storage implements `LinePosition` ("It emulates the interface of a
vector"), reads included. `MCLineStorage` chooses one of three uses at the start.
Two are of the same storage, with fake line ends and with reads; the third is
of another one, with constants of its own, whose blocks move and which is
emptied.

### `FilteredSearch` (with `MCFilteredSearch`, `FilteredSearchProofs`)

The log is what `LogData` makes of it: a sequence of lines, each the set of
expressions it matches, with a last one that may be unterminated, operations
that change it block by block, and the signals it sends. Handlers that block or
run the event loop are a `stack` of frames: `interrupt()` pushes a frame that
goes on when the worker is idle; `replaceCurrentSearch()` then becomes the
frame "events", in which events are handled, other handlers nested, until the
queue is empty. The worker is `doSearch()` at the grain of its accesses to
shared data: number of lines, one chunk, publication, end. What a chunk adds is
given by what it holds and its order (`Lists`: the one list of these lines in
order), not by how the loop over its lines makes it.

`MCFilteredSearch` has two uses, with the bounds of each: a log that only grows,
and a shorter one with truncations.

### `WatchTower` (with `MCWatchTower`, `WatchTowerProofs`)

Names, inodes and directories; `wd` is the kernel's watch of each inode or
directory (a watch that exists is found again by `inotify_add_watch()`, and
descriptors are not used again); `events` its queue, of which `read()` takes
any part. `observers_mutex_` is implicit: the thread holds it unless it is at
"poll", the GUI thread while "adding", and actions of the other are disabled
then; the file system's are not. A file whose last name goes may be gone or
kept by a handle that is still open (glogg's own), in which case inotify tells
nothing; a removal then counts as unnoticed by nobody.

### The parts of the window, and `Gui` (with `MCGui`, `GuiProofs`, `ViewProofs`)

All of these run in the GUI thread; what interleaves is events. Where functions
of the code call one another, they are operators from one state of the
component to the next (a record), and an action applies one to an event.

* `QuickFind`: `stack` holds the searches begun, innermost last; each line
  searched, each notification and each event handled in it is a step. The state
  and the direction, which no constructor initialises, start as any.
* `LogView`: the view is the record `v`; `drawing` is where `drawTextArea()` is
  between its two looks at the log. `screen` is what the pixmap holds.
* `Results`: `r` is `LogFilteredData` with what `CrawlerWidget` keeps, `o` the
  overview. Matches come as a search may bring them.
* `Window`: `g` is all the windows, their tabs, the crawlers and the session.
  During a drag only events that need no user go on.
  Each handler is a function of it, `closeTabs()` and `reloadSession()` over as many
  tabs as there are.
* `Lists`: a list without some of its elements, as `Instances` prunes the recent
  files and as `PinnedAreKept` says what a range leaves.
* `Instances`: `proc` is each process with its copy of the lists, `stored` the
  settings file, `server` who has the name; over the socket or D-Bus.
* `Encoding`: the worker, the automaton `s` and the codec; `decoder` is a
  reference decoder of UTF-8 that reads the same bytes.
* `Colorizer`: `addLowerToken()` with one turn of its loop per step; the list is
  what is before and after its iterator. `LineColors` is an instance of it, with
  the layers of `drawTextArea()`, the rules of a syntax applied to the groups
  they match, and what `drawColorizedText()` draws.
* `ColorSchemes`: the store, each window's menu and views, the message box.

`Gui` instantiates each, most constants being its own; `use` chooses one at the
start, and the variables of the others stay `Unused`. It is a sum, not a
product: what the parts tell one another (a log that changes, the result of a
search, a crawler's signal) is an action of the part that is told. `MCGui` gives
the constants that `Gui.cfg` cannot write.

## 4. What is checked

Deadlock is not checked in any run: a program that waits for its user, with
every bound on the environment used up, has no next step.

| run | what it shows | bounds |
| --- | --- | --- |
| `LogData_rotate` | `TypeOK`; `OperationTracked`: an operation is current exactly while it is handed over, running, or its end is in the queue; `StartNeverWaitsForIndexing`; `PositionsIncrease`, the unchecked precondition of `append_list()` | a log that is appended to, truncated, rotated and removed: 2 inodes, 2 bytes in blocks of 1, 2 changes, 1 user action, allocation failures |
| `LogData_append` | `IndexedPrefix`, `QuietMeansUpToDate`, `QuietMeansLastLineShown`, `CutShortMeansReplaced` | one file that only grows, to 3 bytes in blocks of 2, 3 changes, 2 user actions |
| `LogData_live` | `FileChangedThenFinished`, `ClosingEnds`, `GuiResponds`, under weak fairness of the threads | one file truncated, removed and created again, of 1 byte, 2 changes, 1 user action, allocation failures |
| `LogData_growth` (violation) | "The log is automatically updated when it grows" is not so for data that arrives before the watcher is registered, or while an update runs | 2 bytes in blocks of 1, 2 changes |
| `LineStorage` | `EmulatesVector`: with fake line ends put and taken back, and with two threads reading; `ReadyToAppend`: nothing is written outside a block, and what `pop_back()` goes by is right; `BlocksOwnedThroughout`: with blocks that move, lists emptied and three threads as well, no block leaks or is freed twice | blocks of 3 (2 for the last use), widths up to 2 and 3, the 32 bits limit at 5 (4 for the last use), up to 8, 6 and 4 lines |
| `LineStorage_single_line` (violation) | taking back the only line end reads block -1: "remove it when more data are added" kills the program | |
| `FilteredSearch` | `TypeOK`, `FoundIsPrefix`, `QuietMeansShown`, `QuietMeansRefreshed`, `InterruptionIsWaitedFor`, `QuietMeansRestarted`, and `GuiResponds` under weak fairness of the two threads | a log that grows up to 3 lines, in chunks of 2, one loading caused by the file and one by the user, 2 user actions of 5 kinds; one of up to 2 lines, with truncations and stopped loadings |
| `FilteredSearch_order` (violation) | "listed in order in the results": an update asked for while a search runs lists lines twice | |
| `WatchTower` | `Consistent` (types, no watch left behind, no dangling pointer), `QuietMeansWatched`, `QuietMeansNotified`, `TowerStops` | two names in one directory, 3 inodes, 3 changes of the files, 2 registrations |
| `Gui` | the properties below, one or two of each part | `Gui.cfg` and the definitions of `MCGui` |
| `Encoding_reload` (violation) | "Reads UTF-8 and ISO-8859-1 files": not a UTF-8 file that is read again after it held something else | 3 bytes, 1 change |
| `ColorSchemes_reload` (violation) | the assertion of `setColorScheme()`: another window's menu offers a scheme that is gone | 2 windows, 2 schemes, 4 actions |

The properties of `Gui`:

* `FoundIsNearest`, `SearchReturns` (`QuickFind`; three lines of three kinds, two
  patterns, two requests, three handlers deep): the nearest match of what was
  looked for, no search turned away for nothing, and an end to it under weak
  fairness of the handlers.
* `ScreenIsCurrent`, `LinesAreVisible` (`LogView`; two heights, three lines, two
  actions of the user and any change of the log): nothing stale is on the
  screen; the tail when it is followed, and the line asked for, are.
* `FilteredIsMerge`, `RangeIsMarked` (`Results`; three lines, two that match).
* `WindowShowsCurrent`, `SessionIsSaved`, `PinnedAreKept` (`Window`; two windows,
  three tabs, two files, four actions).
* `InstancesAgree` (`Instances`; two processes, three actions, two searches in a
  history of two, a menu of one file).
* `Utf8Recognised`, `GrownFileIsRead` (`Encoding`; up to four of five bytes, which
  make characters of one to four bytes, the smallest of two and of four).
* `UpperIsKept` (`LineColors`; three columns, two on the screen, three rules).
* `SchemeIsThere` (`ColorSchemes`; two windows, two schemes, six actions).
* `TypeOK` of all of them, the scroll bar, the first line and the selection
  within their ranges among others.

Why the bounds are enough. The blocks are smaller than the file, so an indexing
has a first block, a later one and a short one; with growth alone, three
changes suffice for a change during an operation, one during the operation that
follows it and one after. For the storage, the block sizes and limits are the
smallest at which each table has a full block and an open one, each width
occurs at the start, within and at the end of a block, and the two tables meet.
For the search, 3 lines are a full chunk and a short one, and two user actions
with one loading nest handlers two deep. For the tower, three changes rename a
file over an observed one and create the first again, with the events of each
read together or apart. In QuickFind a search within the notification of one
within the notification of a third is three deep; a view of two lines over
three scrolls, and one of three does not; two windows and three tabs leave one
tab to drag between neighbours; two processes can read the same lists before
either saves them; a reload, an edit and a choice in each of two windows are
six actions. A token over two others with a gap is cut in three pieces, for
which three columns suffice; the theorem covers the rest.

What the properties leave out, by name: `QuietMeansUpToDate` supposes that no
change fell into a window without notifications (the run `LogData_growth` shows
what happens there); `FoundIsPrefix` and `QuietMeansRefreshed` suppose that no
update began elsewhere than the search was ("stale", shown by
`FilteredSearch_order`) and that the log was not read again from the start;
`QuietMeansRestarted` that the truncation came with a message in the info line
and outside nested handlers ("unseen"); the two properties of `WatchTower` that
no name was replaced between the watch of the file and that of its directory
(`missed`); `ScreenIsCurrent` the four places that forget to invalidate
(`unseen`, listed in section 6); `LinesAreVisible` a first line that is not where
the scroll bar is, nothing having scrolled since the log or the viewport changed
(`Detached`); `OverviewIsCurrent`
the changes the overview is not told of (`behind`); `RangeIsMarked` unmarking in a
list of marks only; `StatusIsShown` tabs that moved; `OneRuns` two processes started
before either listens (`raced`).

Fairness. `LogData` and `FilteredSearch` assume weak fairness of the GUI thread
as a whole (Qt handles the events in its queue and returns from waits that are
over), and of the worker (a thread that is runnable runs). `WatchTower` assumes
it of its thread, and of the rest of an `addFile()` and a `join()` that have
begun. `Gui` assumes it of a search of `QuickFind` that has begun: a handler
of the GUI thread returns. Nothing is assumed of users, files or other programs.

## 5. What is proved

`LogDataProofs`, for any files, sizes, numbers of changes and user actions,
from `ConstantsAssumption` (sizes and bounds are naturals, the block size is
positive):

* `TypeCorrect`: the type invariant is inductive as it stands, except that the
  sizes computed by subtraction need the next one.
* `ControlCorrect`: `ControlInv`, which relates `guiPc`, `workerPc`, the
  requested operation and the queue. `OperationTracked` alone is not inductive:
  one has to know that a worker that reports has its operation still, and that
  nobody starts one while the GUI thread is within a handler.
  `OperationsTracked` and `WindowNeverFreezes` follow; `ReloadsEndWhole` with a
  history of what was stopped.
* `PositionsCorrect`: `PositionInv`, the place of the worker in the file against
  the positions published; `FakeLFLast` and `PositionsOnlyIncrease` follow.
* `PrefixIndexed`: under `AppendOnly`, `GrowthInv` adds that what the worker has
  in its hands is what the file holds there.

`LinePositionProofs`, for any bounds: `LinesSorted` and `FakeLineThere`. They hold
of the storage as well, which is proved to implement that list:

`LineStorageProofs`, for blocks of any number of lines from two on, any limits of
the widths, any 32 bits limit, any positions and any number of lines (below the
number that stands for "no long line", `ConstantsAssumption`):
`AlwaysReadyToAppend`, `BlocksAlwaysOwned`, `StorageEmulatesVector` (the
refinement) and `StorageTypeOK`.
The invariant, `IInv`, is that two functions exist that give the bytes their
meaning: `e`, the offset in its block where the entry of each line of each table
ends, and `v`, the position that it codes. Its parts:

* `Shape`: `Indexed` (as many blocks as the lines need), `Chained` (entries follow
  one another from the start of each block, each within its width), `Roomy` (a
  block has its whole size, or room for one absolute entry after its last but one
  line: what `FinishBlock` leaves for a `pop_back()`), `Owned`, `Fitting`.
* `Coded`: each entry codes `v`, from the one before it or by itself; a walk along a
  block therefore comes to it (`WalkIsRight`). `Long`: what is past UINT32_MAX is
  all that the second table holds.
* `Pointing`, `Current`: where the next entry goes, and the origin of its delta.
  `Poppable`, when the last line is fake: where its own entry went, or null.
* `Cached`: the slots of the threads point to the entries of lines that stay, those
  before a fake last line. `pop_back()` reads through them, so nothing of the above
  would be inductive without it.

One lemma for each thing that happens to blocks (`MadeIsRight`, `WroteIsRight`,
`FinishIsRight`, `ShorterIsRight`), then for `append()`, `pop_back()`, `at()`, and for
a list by induction over the positions added. A finished block that is reopened
and then written anew with an entry of another width is where they meet.

What is assumed besides is `Undisturbed`: if logs may end without a line feed,
nothing makes a cache stale between a fake line end and the `pop_back()` that takes
it back (no reading thread, no block moved by `realloc()`, no list emptied), and no
fake line end is the first past UINT32_MAX. If all lines are terminated nothing is
assumed for the first two theorems: blocks may move and lists be emptied under any
readers. The other two need `ReadsHold`, that what the readers' caches point to
stays. Without these the code does read wrong positions (section 6), so they are
not a weakness of the proof. The runs take the same cases, and check the ownership of
blocks outside of them too.

`GuiProofs`, about the parts of `Gui` one at a time (a step of `Gui` is a step of the
part in use, or changes nothing of it). For any set of bytes and any bounds of the
encoding, `AgreementInductive` relates
the automaton to the reference decoder, state by state (`Agree`): how many
continuation bytes are left, and how large the code point is already, which is
what `min_value_` is compared with at the end; lemmas for a first byte, a
continuation byte and the last one. `EveryTextRecognised` follows. The model
checker reaches four bytes of five values, the theorem all of them.
`GrownFileIsShown` takes a second invariant, `GrownInv`: while the log has only
grown, the decoder is the one that has read all that was indexed, and once the end
of an indexing is handled the codec is that of the automaton's guess.

In the same module, for any windows and schemes: `SchemeStaysThere`. `SchemeIsThere`
says nothing while a message box is open, so that the invariant tells the two boxes
apart: one about files that could not be loaded leaves the store alone, and the
promise must hold all through it; one about a scheme that is gone breaks it, is the
box of the window that reloaded last, and its closing restores it.

In the same module, for any number of processes, with lists of any bounded length
(`ProcessesAssumption`: `"none"` is no process, the bounds are naturals):
`ListsStayRight`. A process saves its searches over what others saved, then its files,
and reads the searches again before it adds one: `ListsRight` is asked of each set of
lists, stored or kept, so that it holds of one made of the searches of a set and the
files of another. A search is pinned only after it left the history, since nothing
looks for it there later. That one process runs needs, while no two were starting at
the same time, that at most one is starting (`OneStarts`), that none listens when it
has found itself alone, and that the one listening has not quit (`ServerRuns`). What
the lists are built with is recursive: `Recursion` says that such a function exists,
by induction, and each property of its values is one induction more.

In the same module, for any number of windows, files and crawlers, and any number of
actions (`WindowsAssumption`: there is room for one window, and `"no file"` is no
file): `CurrentIsShown`, `OpenIsSaved` and `ClosedAsAsked`, from `TabsInductive`.
A handler passes through states in which the properties do not hold, between
`openAlways()` and the end of `insertTab()`, or after a tab was taken out of a window
and before it is in another. `TabsGood(g, X)` therefore has the open files without a
tab as a parameter, `X`, which is empty between two events, and each function of the
tab bar and the session is shown to lead from one `X` to another; a handler follows
by composition. Its parts:

* `Placed`: each open file that is not in `X` has one tab, in one window, which
  listens to it. Without the listening a window that shows a crawler would not hear
  the end of its loading, nor of its follow mode.
* `ShowsTab`, of each window, what `WindowShowsCurrent` says. A loading that failed is
  where it does not hold, until the tab is closed: the lemmas on the removal of a
  tab ask it of the other windows only, or of a current tab that stays.
* `IconsRight`: as long as no tab was moved, the handler of each status knows the
  place of its tab, which `StatusIsShown` alone does not say.
* `SessionSaved`: an order exists of the tabs that the window that saved last has,
  which is what was saved. A tab that is moved changes theirs, not that one. That as
  many tabs as entries have each file follows by a bijection.

That `closeTabs()` leaves the pinned tabs is proved with the position of its index:
before it are the tabs before the range and those kept, behind it the rest (`Closing`).
A restart opens all files, then inserts all tabs (`Restored`, `Reinserted`); there are
crawlers enough because no two tabs have the same one (`DistinctShort`).

`ColorizerProofs`, for a line of any length and any tokens: `FirstTokenShows`. Its
invariant adds to `UpperIsKept` where the loop stands: what is before the iterator
ends by `lower_start` or before it, and the columns of the token up to there are
given to somebody; a turn of the loop that goes on, returns, cuts or ends is a
lemma each.

`ViewProofs`, about the view of a log and the searches through it. Two assumptions
are made of constants: a pattern matches a line at finitely many columns
(`LinesAssumption`), and the viewport has room for one line at least
(`HeightsAssumption`: `getNbVisibleLines()` adds one to the lines that fit).

* `NearestIsFound`, for any log, any patterns, and handlers nested as deep as they
  may be. `FoundIsNearest` speaks of a search that is over, so that `FindInv` says
  of each loop on the stack that the lines it has passed hold no match of the
  pattern, for as long as it has looked for one pattern only (`asked`): a
  notification may run another search, type another pattern, or let the log grow
  past where the loop ends. What is selected and where an incremental search began
  are in the log, since searches begin there; a log that grows changes no line that
  a loop has read; and once a forward search has gone past the end (`looped`), the
  state is other than idle only while a forward loop is on the stack
  (`ForwardUnderWay`): without it a search could be found over that never ended.
* `ScreenIsShown`, for a log and a viewport of any size. `ScreenIsCurrent` says
  nothing while there is something to paint, but the cache that a paint will find
  must be right then: the view may scroll away and back before it is painted. So
  `Painted` says that the cache is the page it was taken from, as it would be drawn
  now. It is not proved action by action from the definitions: `KeepsCache` relates
  a view to one after it (either the cache is thrown away, or nothing it shows has
  changed and what scrolled will be painted), it is transitive, and each function of
  `AbstractLogView` is shown to keep it, so that a handler does by composition.
* `LinesAreShown`: `Wide`, the range of the scroll bar is that of the log once the
  view was told of it, and `Tailed`, its value is at the end while the end is
  followed, give the last line; `SeenThere`, that half a page above a line is where
  the line can be seen, even where the scroll bar stops, gives the line asked for.

These two were first refuted: the invariant is not inductive if the view may jump
and scroll back before it is painted, or jump to where the scroll bar is already
after the window was made smaller. Both need one action more than the run takes,
and both are what the code does (section 6): the properties now leave them out by
name, with `unseen` and `Detached`, and hold of any number of actions.

`FilteredSearchProofs`, for a log of any length with any lines, chunks of any size
and any number of loadings, truncations and actions of the user, handlers nested
as deep as they may be: all six invariants of the run. `ConstantsAssumption` says
that a chunk holds at least one line, and that the search line that is empty or
invalid is no expression. Each invariant is proved from those before it:

* `TypeInv`: the types, and that only "events" and "loaded" have frames above
  them; that a search under way counts what it has found. `TypeCorrect` and
  `WaitedForCorrect` need no more.
* `LoadingInv`: an operation of the log that ended is either a signal in the queue,
  once, or a handler on the stack, once (`FinishInv`, `LoadedInv`); and a widget that
  waits for a truncated log to be read again has a loading to wait for. It says that
  the handler at the end of a loading is the only one that starts the next.
* `RestartInv`: while a search is active, no loading from scratch is running or
  waiting, and the log was not read again since the search began, unless a full
  search is requested and not begun. `RestartCorrect` follows.
* `ShownInv`: what is shown is not right until the events on their way are handled.
  `Ends`: after each event there is one, that event or a later one, with the number of
  matches that there are. `Shows`: the view has that number already, or an event that
  is not sent yet will bring another than the one the widget knows, which matters
  because the view is updated when the number changes only (`MatchesChanged`). The
  copies of the matches, of how far the search got and of its expression are right
  when no event is left. `ShownCorrect` follows.
* `FoundInv`: between chunks, what was found is the matches before the next line to
  be searched; at an end or an interruption, those of all lines searched but the
  last; an update is asked for where the search ended. It needs how far the lines
  stay as they are when the log grows (`NbStable`), which is past the last line
  searched. `FoundCorrect` follows; the steps are `deleteMatch()` (the last
  line may have been completed) and a chunk, with lemmas on lists in order.
* `ExactInv`: a search that is active, and was told of each change of the log, is
  in a pass up to the log's last line or has found all of it. `RefreshedCorrect`
  follows with `ShownInv` and `FoundInv`.

`WatchTowerProofs`, for any clients, names, directories and inodes, and any changes
of the files by other programs: `TowerConsistent`. `Consistent` is not inductive:
`Apart` adds that no descriptor kept in the list is a directory's, or else watching
a replaced file again would end the watch of its directory; `Turns`, that the only
file whose directory is not watched is the one `addFile()` is at, and that the
thread keeps no pointer while it is in `poll()`. One lemma per action, and two for
what addition and removal do to the list and the watches together.

For files of one directory (`SameDirectory`, an assumption of the two theorems, any
number of files in it), `TowerWatches` and `TowerNotifies` rest on `QuietInv`:

* `WatchedInv`: each observed file that exists has the descriptor its entry holds,
  or its name is in the thread's hands (`Kept`) or in an event not read yet (`Told`).
* `StaleInv`: an entry may hold a descriptor that a rename gave to another file.
  The thread gives it up when it watches the entry again (`inotify_rm_watch()`),
  and so does a client that closes the log; the file that has it loses its watch.
  It gets it back because it is behind that entry in the thread's hands or in the
  events (`Later`): the kernel tells of the old name before the new one, and the
  thread keeps the order of events.
* `SeenInv`: a change not told is in the thread's hands, or an event of the name
  or of the file is on its way; the event of a file leads to its name because no
  other entry holds its descriptor (`Alone`), or else `StaleInv` has one for the name.
* `OneEach`: names stand for different files, with different descriptors.

The assumption is needed: with two directories both properties fail, when a file is
moved into a directory that is not watched (section 6).

Only model-checked: liveness (out of TLAPS's reach here); the ownership of the
storage's blocks when stale caches are read through; of the window, `TypeOK`, the
properties of `Results` (lists that are sorted and merged by operators about which
nothing is proved), and `UpperIsKept` of a line's layers beyond what
`ColorizerProofs` says of their merging.

## 6. Observations that no run states

Loading, searching, watching:

* A partial indexing enqueued by a notification replaces a waiting full one
  (`data/logdata.cpp:179`), so a reload may do less than "Throw away all the
  file data and reload/reindex".
* An interrupted loading leaves the blocks read so far, not "a null file"
  (`data/logdata.h:64`).
* The fake line feed is put with length 0, so an unterminated last line never
  counts as the longest; and it may be put after bytes that were never read,
  line feeds included (`data/logdataworkerthread.cpp:276`).
* Taking back a fake line end that is the first past UINT32_MAX, and caches that
  survive `pop_back()`, `operator=` and a moved block, give wrong positions
  (`data/compressedlinestorage.cpp:227`, `:305`, `:402`); the passing runs of
  `LineStorage` keep those apart with constants named for them.
* `reload()` and a truncation clear the search without interrupting the worker,
  whose next event brings the old matches back (`crawlerwidget.cpp:208`, `:552`).
* A file renamed or created between its watch and its directory's is not
  watched again; a file moved to a directory not yet watched shares its
  descriptor with its old name, and closing that one ends the watch of both
  (`TwoDirectories` of `MCWatchTower` shows it in nine steps).
* A removed file that glogg still holds open sends no event.
* The automaton accepts a byte below 128 within a character, surrogates and code
  points past 0x10FFFF, and compares a character of four bytes with 0x800
  (`encodingspeculator.cpp:69`).

The views:

* The pixmap is not invalidated by G or Ctrl+End when the view is at the bottom
  already, by a new pattern, by an incremental search that finds nothing or that
  ends, or by a jump to a line that is followed, before anything is painted, by
  scrolling back: `displayLine()` invalidates it only when the line is on the
  screen (`abstractlogview.cpp:1241`), and the page is taken for the one painted
  last, with the selection of then.
* When the window is made smaller at the end of a log, the scroll bar keeps its
  value and the first line stays; a jump to a line for which the scroll bar is
  there already scrolls nothing, and the line stays off the screen.
* `displayRangeInLine()` subtracts half a page from an unsigned line number
  (`abstractlogview.cpp:1263`).
* Unmarking a range in a list of marks only unmarks every other line
  (`crawlerwidget.cpp:425`); a line past the last one is looked up as the number
  of the first, used as an index (`utils.h:124`); `[` and `]` in the filtered view
  read past the end of the marks.
* The overview is not told of a change of visibility, a reload, a truncation, or
  a search that finds as many lines as the one before.
* QuickFind's second search, forward, within a notification leaves the state idle while the
  first goes on; a limit set after the log grew hides new lines until the next
  update (`quickfind.cpp:314`); a search backward skips a match that touches the
  one found.

Windows and processes:

* The handler of a tab's data status keeps the index the tab had
  (`tabbedcrawlerwidget.cpp:93`); a crawler dragged to another window stays
  connected to the old one, and follow mode is changed by crawlers that are not shown
  (`mainwindow.cpp:166`).
* The end of a failed loading deletes the crawler within its own signal; a
  loading that fails in a tab that is not shown leaves its tab.
* Moves within a tab bar and new names of tabs are not saved until something
  else saves the session.
* Unpinning a search may leave 51 of them (`savedsearches.cpp:64`); an entry added by
  one process between the reading and the saving of another is lost; two
  processes started together may both run (`main.cpp:226`).
* While the box "no longer exists" is open, painting throws
  (`struct_config_store.cpp:96`); a scheme that inherits from itself is read for ever
  (`color_scheme.cpp:195`).

## 7. What is not modelled

The reads of lines from disk against a reload: their outcome is a text shown
until the next update. Links and polling of the tower, and the other drivers.
Layout, geometry, dialogs, shortcuts, menus other than those of follow mode and
schemes: no state that others depend on. The parsing of YAML files, of regular
expressions and of the command line: input without concurrency, taken as what
it may give. Memory that runs out is modelled while indexing only. Data races on
single words (the interruption flags, `IndexingData::clear`) are taken as atomic
accesses in any order. The composition of the parts of the window with each
other and with the workers beyond `FilteredSearch` and `LineColors` is out of the
model checker's reach; each part takes the others' steps as they may come.
