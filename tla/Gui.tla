--------------------------------- MODULE Gui ---------------------------------
(***************************************************************************)
(* The parts of the graphical interface, side by side; one of them is      *)
(* chosen at the start, and the variables of the others keep the value     *)
(* Unused:                                                                 *)
(*   quickfind  QuickFind       view       LogView                         *)
(*   results    Results         windows    Window                          *)
(*   instances  Instances       encoding   Encoding                        *)
(*   colors     LineColors      schemes    ColorSchemes                    *)
(***************************************************************************)
EXTENDS Integers, Sequences, FiniteSets

CONSTANTS
  MaxActions,  \* of each part, a bound on what its user does
  MaxLines,    \* bound on the lines of a log
  \* QuickFind, LogView
  Patterns, NoPattern, LogLines, MaxDepth, ViewHeights, MaxColumn,
  \* Results
  Length, Matching, OverviewHeights,
  \* Window, Instances, ColorSchemes
  Files, MaxWindows, MaxCrawlers,
  Processes, Texts, maxNumberOfRecentSearches, MAX_NUMBER_OF_FILES,
  Schemes,
  \* Encoding
  Bytes, MaxSize, MaxChanges,
  \* LineColors
  LineLength, Screen, Selections, PatternMatches, highlightScope, Rules,
  SchemeScopes

(* A pattern matches a line at some of its columns. *)
ASSUME LinesAssumption ==
  /\ NoPattern \notin Patterns
  /\ \A l \in LogLines : /\ l \in [Patterns -> SUBSET Nat]
                      /\ \A p \in Patterns : IsFiniteSet(l[p])

(* The viewport has room for one line at least. *)
ASSUME HeightsAssumption ==
  IsFiniteSet(ViewHeights) /\ ViewHeights # {} /\ ViewHeights \subseteq Nat \ {0}

(* "none" is no process; the lengths of the lists are bounded. *)
ASSUME ProcessesAssumption ==
  /\ "none" \notin Processes
  /\ maxNumberOfRecentSearches \in Nat /\ MAX_NUMBER_OF_FILES \in Nat

(* There is room for one window; "no file" is no name of a file. *)
ASSUME WindowsAssumption ==
  /\ MaxWindows \in Nat \ {0} /\ MaxCrawlers \in Nat
  /\ "no file" \notin Files

VARIABLES
  use, actions,
  nbLines,  \* of the log of the view, and of that of the results
  log, pattern, currentDirection_, selection, lastMatch, firstMatch,
  incremental, searchState, stack, looped, found,
  v, drawing, dead,
  r, o,
  g,
  transport, server, stored, proc, exists, raced,
  file, operation, indexed, encoding, s, setting, codec, decoder, grown,
  fresh, changes,
  before, after, lower, lower_start, adding, given, layer, next, pending,
  kept, groups, tokens, layers,
  files, installed, saved, config_, colorSchemeName_, everRead, window, box,
  changedBy, thrown

Unused == <<>>

quickfindVars == <<log, pattern, currentDirection_, selection, lastMatch,
                   firstMatch, incremental, searchState, stack, looped, found>>
viewVars == <<v, drawing, dead>>
resultsVars == <<r, o>>
windowsVars == <<g>>
instancesVars == <<transport, server, stored, proc, exists, raced>>
encodingVars == <<file, operation, indexed, encoding, s, setting, codec,
                  decoder, grown, fresh, changes>>
colorsVars == <<before, after, lower, lower_start, adding, given, layer, next,
                pending, kept, groups, tokens, layers>>
schemesVars == <<files, installed, saved, config_, colorSchemeName_, everRead,
                 window, box, changedBy, thrown>>

vars == <<use, actions, nbLines, quickfindVars, viewVars, resultsVars,
          windowsVars, instancesVars, encodingVars, colorsVars, schemesVars>>

Find == INSTANCE QuickFind WITH
  Lines <- LogLines, MaxActions <- MaxActions["quickfind"]

View == INSTANCE LogView WITH
  Heights <- ViewHeights, MaxActions <- MaxActions["view"]

Listed == INSTANCE Results WITH
  Heights <- OverviewHeights, MaxActions <- MaxActions["results"]

Tabs == INSTANCE Window WITH MaxActions <- MaxActions["windows"]

Run == INSTANCE Instances WITH MaxActions <- MaxActions["instances"]

Read == INSTANCE Encoding

Colors == INSTANCE LineColors WITH
  Length <- LineLength, Matches <- PatternMatches, found <- tokens

Store == INSTANCE ColorSchemes WITH
  MaxActions <- MaxActions["schemes"], setting <- saved

NoFind == /\ log = Unused /\ pattern = Unused /\ currentDirection_ = Unused
          /\ selection = Unused /\ lastMatch = Unused /\ firstMatch = Unused
          /\ incremental = Unused /\ searchState = Unused /\ stack = Unused
          /\ looped = Unused /\ found = Unused
NoView == v = Unused /\ drawing = Unused /\ dead = Unused
NoListed == r = Unused /\ o = Unused
NoTabs == g = Unused
NoRun == /\ transport = Unused /\ server = Unused /\ stored = Unused
         /\ proc = Unused /\ exists = Unused /\ raced = Unused
NoRead == /\ file = Unused /\ operation = Unused /\ indexed = Unused
          /\ encoding = Unused /\ s = Unused /\ setting = Unused
          /\ codec = Unused /\ decoder = Unused /\ grown = Unused
          /\ fresh = Unused /\ changes = Unused
NoColors == /\ before = Unused /\ after = Unused /\ lower = Unused
            /\ lower_start = Unused /\ adding = Unused /\ given = Unused
            /\ layer = Unused /\ next = Unused /\ pending = Unused
            /\ kept = Unused /\ groups = Unused /\ tokens = Unused
            /\ layers = Unused
NoSchemes == /\ files = Unused /\ installed = Unused /\ saved = Unused
             /\ config_ = Unused /\ colorSchemeName_ = Unused
             /\ everRead = Unused /\ window = Unused /\ box = Unused
             /\ changedBy = Unused /\ thrown = Unused

Init ==
  \/ /\ use = "quickfind" /\ Find!Init
     /\ NoView /\ NoListed /\ NoTabs /\ NoRun /\ NoRead
     /\ NoColors /\ NoSchemes
     /\ nbLines = 0
  \/ /\ use = "view" /\ View!Init
     /\ NoFind /\ NoListed /\ NoTabs /\ NoRun /\ NoRead
     /\ NoColors /\ NoSchemes
  \/ /\ use = "results" /\ Listed!Init
     /\ NoFind /\ NoView /\ NoTabs /\ NoRun /\ NoRead
     /\ NoColors /\ NoSchemes
  \/ /\ use = "windows" /\ Tabs!Init
     /\ NoFind /\ NoView /\ NoListed /\ NoRun /\ NoRead
     /\ NoColors /\ NoSchemes
     /\ nbLines = 0
  \/ /\ use = "instances" /\ Run!Init
     /\ NoFind /\ NoView /\ NoListed /\ NoTabs /\ NoRead
     /\ NoColors /\ NoSchemes
     /\ nbLines = 0
  \/ /\ use = "encoding" /\ Read!Init
     /\ NoFind /\ NoView /\ NoListed /\ NoTabs /\ NoRun
     /\ NoColors /\ NoSchemes
     /\ nbLines = 0 /\ actions = 0
  \/ /\ use = "colors" /\ Colors!Init
     /\ NoFind /\ NoView /\ NoListed /\ NoTabs /\ NoRun /\ NoRead
     /\ NoSchemes
     /\ nbLines = 0 /\ actions = 0
  \/ /\ use = "schemes" /\ Store!Init
     /\ NoFind /\ NoView /\ NoListed /\ NoTabs /\ NoRun /\ NoRead
     /\ NoColors
     /\ nbLines = 0

(* An action of one part leaves the others alone. *)
InFind(action) == use = "quickfind" /\ action
  /\ UNCHANGED <<use, viewVars, resultsVars, windowsVars, instancesVars,
                  encodingVars, colorsVars, schemesVars, nbLines>>
InView(action) == use = "view" /\ action
  /\ UNCHANGED <<use, quickfindVars, resultsVars, windowsVars, instancesVars,
                  encodingVars, colorsVars, schemesVars>>
InListed(action) == use = "results" /\ action
  /\ UNCHANGED <<use, quickfindVars, viewVars, windowsVars, instancesVars,
                  encodingVars, colorsVars, schemesVars>>
InTabs(action) == use = "windows" /\ action
  /\ UNCHANGED <<use, quickfindVars, viewVars, resultsVars, instancesVars,
                  encodingVars, colorsVars, schemesVars, nbLines>>
InRun(action) == use = "instances" /\ action
  /\ UNCHANGED <<use, quickfindVars, viewVars, resultsVars, windowsVars,
                  encodingVars, colorsVars, schemesVars, nbLines>>
InRead(action) == use = "encoding" /\ action
  /\ UNCHANGED <<use, quickfindVars, viewVars, resultsVars, windowsVars,
                  instancesVars, colorsVars, schemesVars, nbLines, actions>>
InColors(action) == use = "colors" /\ action
  /\ UNCHANGED <<use, quickfindVars, viewVars, resultsVars, windowsVars,
                  instancesVars, encodingVars, schemesVars, nbLines, actions>>
InSchemes(action) == use = "schemes" /\ action
  /\ UNCHANGED <<use, quickfindVars, viewVars, resultsVars, windowsVars,
                  instancesVars, encodingVars, colorsVars, nbLines>>

Next ==
  \/ InFind(Find!Search)
  \/ InFind(Find!UserAction)
  \/ InFind(\E l \in LogLines : Find!updateData(l))
  \/ InView(View!logChanges)
  \/ InView(View!updateData)
  \/ InView(View!paintEvent)
  \/ InView(View!drawTextArea)
  \/ InView(View!UserAction)
  \/ InListed(Listed!indexing)
  \/ InListed(Listed!loadingFinished)
  \/ InListed(Listed!fileTruncated)
  \/ InListed(Listed!startNewSearch)
  \/ InListed(Listed!handleSearchProgressed)
  \/ InListed(\E h \in OverviewHeights : Listed!overviewUpdateView(h))
  \/ InListed(Listed!UserAction)
  \/ InTabs(Tabs!User)
  \/ InTabs(\E c \in 1..MaxCrawlers : Tabs!Crawler(c))
  \/ InRun(\E p \in Processes : Run!Step(p))
  \/ InRun(\E p \in Processes : Run!User(p))
  \/ InRun(\E name \in Files : Run!removeFile(name))
  \/ InRead(Read!doIndex)
  \/ InRead(Read!loadingFinishedHandler)
  \/ InRead(Read!fileChangedOnDisk)
  \/ InRead(Read!reload)
  \/ InRead(Read!truncate)
  \/ InRead(\E b \in Bytes : Read!append(b))
  \/ InRead(\E chosen \in {"AUTO", "Other"} : Read!setEncoding(chosen))
  \/ InColors(Colors!Add)
  \/ InColors(Colors!Layer)
  \/ InSchemes(Store!Next)

Spec == Init /\ [][Next]_vars

(* Handlers do return; the user and the log owe nothing. *)
FairSpec == Spec /\ WF_vars(InFind(Find!Search))

-----------------------------------------------------------------------------
(* The values of the variables of each part, the first line, the scroll    *)
(* bar and the selection of the view among them, which are kept in their   *)
(* ranges separately. *)
TypeOK ==
  /\ use = "quickfind" => Find!TypeOK
  /\ use = "view" => View!TypeOK
  /\ use = "results" => Listed!TypeOK
  /\ use = "windows" => Tabs!TypeOK
  /\ use = "instances" => Run!TypeOK
  /\ use = "encoding" => Read!TypeOK
  /\ use = "schemes" => Store!TypeOK

(* A search finds the nearest match, whatever was typed meanwhile and      *)
(* however often it began again; it is only turned away while another one  *)
(* is under way. *)
FoundIsNearest == use = "quickfind" => Find!FoundIsNearest /\ Find!NoSearchLost

(* A search ends, those that are asked to begin again included. *)
SearchReturns == use = "quickfind" /\ stack # <<>> ~> stack = <<>>

(* When nothing is left to draw, the screen shows the lines, the selection *)
(* and the matches there are. *)
ScreenIsCurrent == use = "view" => View!ScreenIsCurrent

(* The lines that should be on the screen are: the last one when the log   *)
(* is followed, and the one that was asked for. *)
LinesAreVisible == use = "view" => View!TailIsShown /\ View!AskedIsVisible

(* The list of the filtered view is the lines marked and those found, each *)
(* once and in order, and the widest mark is known; the overview shows the *)
(* marks and the matches it was told of. *)
FilteredIsMerge ==
  use = "results" => /\ Listed!FilteredIsMerge /\ Listed!WidestMark
                     /\ Listed!OverviewIsCurrent

(* Marking a range marks its lines and no other, in both views. *)
RangeIsMarked == use = "results" => Listed!RangeIsMarked

(* A window shows the title, the follow mode and the information of its    *)
(* current tab, and the icons of its tabs the status of their data. *)
WindowShowsCurrent == use = "windows" => Tabs!WindowShowsCurrent /\ Tabs!StatusIsShown

(* Every tab is known to the session, and the session saved is what is     *)
(* open in the window that saved it. *)
SessionIsSaved == use = "windows" => Tabs!SessionKnowsTabs /\ Tabs!SessionIsSaved

(* Closing a range of tabs closes those that are not pinned. *)
PinnedAreKept == use = "windows" => Tabs!PinnedAreKept

(* No search or file is listed twice, whichever process changes the lists  *)
(* while another does; and one process runs. *)
InstancesAgree == use = "instances" => Run!ListsAreSets /\ Run!OneRuns

(* A text in UTF-8 is recognised whatever its characters. *)
Utf8Recognised == use = "encoding" => Read!Utf8Recognised

(* A file in UTF-8 that has only grown is shown as such once indexed,      *)
(* wherever the indexing was cut. *)
GrownFileIsRead == use = "encoding" => Read!GrownFileIsRead

(* Each column of a line is drawn once, in the colour of the highest of    *)
(* the layers that cover it, at every stage of their merging. *)
UpperIsKept == use = "colors" => Colors!UpperIsKept /\ Colors!LineIsColoured

(* The current colour scheme is one that was read, once a reload is over,  *)
(* and it is the one that the window it was changed by shows. *)
SchemeIsThere == use = "schemes" => Store!SchemeIsThere
=============================================================================
