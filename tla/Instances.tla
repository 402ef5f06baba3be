------------------------------ MODULE Instances ------------------------------
(***************************************************************************)
(* The processes of glogg on one desktop.  One that starts looks for       *)
(* another that listens under the server name, leaves it the files to open *)
(* and ends, or listens itself and runs.  Those that run, for there may be *)
(* several, share the settings file: the history of searches, those pinned *)
(* on top of it, and the recent files, each read again before it is        *)
(* changed, "in case another glogg changed it", then saved.                *)
(*                                                                         *)
(* Reading and saving lock the file, what is between them does not.        *)
(***************************************************************************)
EXTENDS Integers, Sequences, FiniteSets, SequencesExt, Lists

CONSTANTS
  Processes,
  Files,                        \* the names of the files
  Texts,                        \* what is searched for
  maxNumberOfRecentSearches,
  MAX_NUMBER_OF_FILES,
  MaxActions                    \* bound on the starts and on the user's actions

VARIABLES
  transport, \* "dbus" or "socket", as built
  server,    \* the process that is reached under the server name
  stored,    \* the lists in the settings file
  proc,      \* the processes
  exists,    \* the files that exist
  raced,     \* whether two processes were starting at the same time
  actions    \* the starts and the actions of the user, counted

vars == <<transport, server, stored, proc, exists, raced, actions>>

None == "none"
NoLists == [recent |-> <<>>, pinned |-> <<>>, files |-> <<>>]

removeAll(list, text) == Kept(list, Range(list) \ {text})
Trimmed(list, max) == SubSeq(list, 1, IF Len(list) < max THEN Len(list) ELSE max)

-----------------------------------------------------------------------------
addRecentSearch(lists, text) ==
  IF Contains(lists.pinned, text)
  THEN [lists EXCEPT !.pinned = <<text>> \o removeAll(@, text)]
  ELSE [lists EXCEPT !.recent = Trimmed(<<text>> \o removeAll(@, text),
                                        maxNumberOfRecentSearches)]

(* Bug: a search that is pinned stays in the history.                      *)
pinOrUnpinSearch_KeepRecent(lists, text) ==
  IF Contains(lists.pinned, text)
  THEN [lists EXCEPT !.pinned = removeAll(@, text), !.recent = <<text>> \o @]
  ELSE [lists EXCEPT !.pinned = <<text>> \o @]

(* Unpinning does not trim the history.                                    *)
pinOrUnpinSearch(lists, text) ==
  IF Contains(lists.pinned, text)
  THEN [lists EXCEPT !.pinned = removeAll(@, text), !.recent = <<text>> \o @]
  ELSE [lists EXCEPT !.recent = removeAll(@, text), !.pinned = <<text>> \o @]

addRecentFile(lists, name) ==
  LET pruned == Kept(lists.files, exists)
  IN  [lists EXCEPT !.files = Trimmed(<<name>> \o removeAll(pruned, name),
                                      MAX_NUMBER_OF_FILES)]

-----------------------------------------------------------------------------
Starting == {"started", "alone"}

Init ==
  /\ transport \in {"dbus", "socket"}
  /\ server = None
  /\ stored = NoLists
  /\ proc = [p \in Processes |-> [pc |-> "off", lists |-> NoLists, inbox |-> <<>>,
                                  opened |-> {}, volatile |-> FALSE]]
  /\ exists = Files
  /\ raced = FALSE
  /\ actions = 0

Acts ==
  /\ actions < MaxActions
  /\ actions' = actions + 1

start(p, names, volatile) ==
  /\ Acts
  /\ proc[p].pc = "off"
  /\ proc' = [proc EXCEPT ![p] = [pc |-> "started", lists |-> NoLists, inbox |-> names,
                                  opened |-> {}, volatile |-> volatile]]
  /\ raced' = (raced \/ \E q \in Processes : proc[q].pc \in Starting)
  /\ UNCHANGED <<transport, server, stored, exists>>

(* Over a socket the names are written one after the other, with nothing   *)
(* between them, and read as one name: no file, if there are several.      *)
Received(names) ==
  IF transport = "dbus" \/ Len(names) = 1 THEN names ELSE <<>>

otherInstance(p) ==
  /\ proc[p].pc = "started"
  /\ proc' = IF server = None THEN [proc EXCEPT ![p].pc = "alone"]
             ELSE [proc EXCEPT ![p].pc = "off", ![p].inbox = <<>>,
                               ![server].inbox = @ \o Received(proc[p].inbox)]
  /\ UNCHANGED <<transport, server, stored, exists, raced, actions>>

(* Registering a D-Bus name that is taken fails silently; the name of a    *)
(* socket is taken over.  Then the lists are read for the first time.      *)
startListening(p) ==
  /\ proc[p].pc = "alone"
  /\ server' = IF transport = "dbus" /\ server # None THEN server ELSE p
  /\ proc' = [proc EXCEPT ![p].pc = "runs", ![p].lists = stored]
  /\ UNCHANGED <<transport, stored, exists, raced, actions>>

(* The files of the command line, and those other processes ask for.       *)
loadFile(p) ==
  LET name == Head(proc[p].inbox)
  IN  /\ proc[p].pc = "runs" /\ proc[p].inbox # <<>>
      /\ proc' = [proc EXCEPT
           ![p].inbox = Tail(@),
           ![p].opened = IF name \in exists THEN @ \cup {name} ELSE @,
           ![p].pc = IF name \in exists THEN "saveFiles" ELSE @,
           ![p].lists = IF name \in exists
                        THEN addRecentFile([@ EXCEPT !.files = stored.files], name)
                        ELSE @]
      /\ UNCHANGED <<transport, server, stored, exists, raced, actions>>

retrieveSearches(p) ==
  [proc[p].lists EXCEPT !.recent = stored.recent, !.pinned = stored.pinned]

startNewSearch(p, text) ==
  /\ Acts
  /\ proc[p].pc = "runs"
  /\ proc' = [proc EXCEPT ![p].lists = addRecentSearch(retrieveSearches(p), text),
                          ![p].pc = "saveSearches"]
  /\ UNCHANGED <<transport, server, stored, exists, raced>>

pinButtonClicked(p, text) ==
  /\ Acts
  /\ proc[p].pc = "runs"
  /\ proc' = [proc EXCEPT ![p].lists = pinOrUnpinSearch(retrieveSearches(p), text),
                          ![p].pc = "saveSearches"]
  /\ UNCHANGED <<transport, server, stored, exists, raced>>

save(p) ==
  LET lists == proc[p].lists
  IN  /\ proc[p].pc \in {"saveSearches", "saveFiles"}
      /\ proc' = [proc EXCEPT ![p].pc = "runs"]
      /\ stored' = IF proc[p].volatile THEN stored
                   ELSE IF proc[p].pc = "saveFiles"
                   THEN [stored EXCEPT !.files = lists.files]
                   ELSE [lists EXCEPT !.files = stored.files]
      /\ UNCHANGED <<transport, server, exists, raced, actions>>

(* Closing a socket's server removes the name, whoever listens under it.   *)
quit(p) ==
  /\ proc[p].pc = "runs"
  /\ proc' = [proc EXCEPT ![p].pc = "off", ![p].inbox = <<>>]
  /\ server' = IF transport = "socket" \/ server = p THEN None ELSE server
  /\ UNCHANGED <<transport, stored, exists, raced, actions>>

removeFile(name) ==
  /\ Acts
  /\ name \in exists
  /\ exists' = exists \ {name}
  /\ UNCHANGED <<transport, server, stored, proc, raced>>

-----------------------------------------------------------------------------
Step(p) == otherInstance(p) \/ startListening(p) \/ loadFile(p) \/ save(p) \/ quit(p)

User(p) ==
  \/ \E names \in BoundedSeq(Files, 2), volatile \in BOOLEAN : start(p, names, volatile)
  \/ \E text \in Texts : startNewSearch(p, text) \/ pinButtonClicked(p, text)

Next ==
  \/ \E p \in Processes : Step(p) \/ User(p)
  \/ \E name \in Files : removeFile(name)

Spec == Init /\ [][Next]_vars

-----------------------------------------------------------------------------
Lists == {stored} \cup {proc[p].lists : p \in Processes}

(* The values of the variables. *)
TypeOK ==
  /\ server \in Processes \cup {None}
  /\ \A l \in Lists : {Range(l.recent), Range(l.pinned)} \subseteq SUBSET Texts
  /\ \A l \in Lists : Range(l.files) \subseteq Files
  /\ \A p \in Processes :
       proc[p].pc \in Starting \cup {"off", "runs", "saveSearches", "saveFiles"}

(* No search is listed twice, in the history, among the pinned ones or in  *)
(* both, nor is a file; the recent files are as many as the menu has room  *)
(* for: in the settings and in every process, whichever processes change   *)
(* the lists between the reading and the saving of another.                *)
ListsAreSets ==
  \A l \in Lists :
    /\ IsInjective(l.recent \o l.pinned)
    /\ IsInjective(l.files)
    /\ Len(l.files) <= MAX_NUMBER_OF_FILES

(* One process runs, and the name is its, unless two were started before   *)
(* either listened ("FIXME: there is a race condition here").              *)
OneRuns ==
  LET running == {p \in Processes : proc[p].pc \notin Starting \cup {"off"}}
  IN  ~raced => running = IF server = None THEN {} ELSE {server}
=============================================================================
