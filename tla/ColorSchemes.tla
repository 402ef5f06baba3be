---------------------------- MODULE ColorSchemes ----------------------------
(***************************************************************************)
(* The colour scheme of the views: struct_config_store.cpp keeps, for all  *)
(* the windows, the schemes read from the files and the name of the        *)
(* current one; each window has a menu of its own, made when the window    *)
(* last reloaded the files.                                                *)
(*                                                                         *)
(* A reload that misses the current scheme says so in a message box before *)
(* it goes back to the default scheme.  The box runs an event loop: the    *)
(* user can do nothing but close it, and the windows go on painting.       *)
(***************************************************************************)
EXTENDS Integers, FiniteSets

CONSTANTS
  Schemes,    \* the names that files may define
  MaxWindows, \* bound on the windows
  MaxActions  \* bound on what the user does

VARIABLES
  files,            \* the schemes that the files define now
  installed,        \* the installation root is found
  setting,          \* COLOR_SCHEME_SETTING, as last saved
  config_,          \* the schemes read, those of abstract schemes left out
  colorSchemeName_,
  everRead,         \* the store has read the files since it was created
  window,           \* of each window, its menu and what it shows
  box,              \* the message box, and the window whose reload shows it
  changedBy,        \* the window that chose a scheme or reloaded last
  thrown,           \* the exception that ended the program
  actions

store == <<config_, colorSchemeName_, everRead>>
vars == <<files, installed, setting, store, window, box, changedBy, thrown, actions>>

DEFAULT_COLOR_SCHEME == "default"

Windows == 1..MaxWindows
NoWindow == [open |-> FALSE, menu |-> {}, checked |-> DEFAULT_COLOR_SCHEME,
             shown |-> DEFAULT_COLOR_SCHEME, update |-> FALSE]
NoBox == [about |-> "nothing", by |-> 0]

Names == Schemes \cup {DEFAULT_COLOR_SCHEME}
Offered(schemes) == schemes \cup {DEFAULT_COLOR_SCHEME}

(* The schemes of the store before main() opens the first window. *)
Init ==
  /\ files \in SUBSET Schemes /\ installed = TRUE
  /\ setting \in Names
  /\ config_ = {} /\ colorSchemeName_ = DEFAULT_COLOR_SCHEME /\ everRead = FALSE
  /\ window = [w \in Windows |-> NoWindow]
  /\ box = NoBox /\ changedBy = 0 /\ thrown = "nothing" /\ actions = 0

-----------------------------------------------------------------------------
Running == thrown = "nothing"
UserActs == Running /\ box = NoBox /\ actions < MaxActions /\ actions' = actions + 1

(* The menu is made again, with a check at the current scheme. *)
populated(wd, schemes, name) ==
  [wd EXCEPT !.open = TRUE, !.menu = Offered(schemes),
             !.checked = IF name \in Offered(schemes) THEN name ELSE @,
             !.update = TRUE]

(* reload() and what follows in the window, from a store whose current     *)
(* scheme is name. *)
reloadStructConfig(w, name) ==
  /\ \/ /\ installed /\ changedBy' = w
        /\ config_' = files /\ colorSchemeName_' = name /\ everRead' = TRUE
        /\ IF name \in Offered(files)
             THEN /\ box' = NoBox
                  /\ window' = [window EXCEPT ![w] = populated(@, files, name)]
           ELSE /\ box' = [about |-> "no longer exists", by |-> w]
                /\ window' = window
     \/ /\ ~installed /\ changedBy' = changedBy
        /\ colorSchemeName_' = name
        /\ box' = [about |-> "could not load", by |-> w]
        /\ window' = window
  /\ UNCHANGED <<files, installed, setting, thrown>>

(* The first window, or one more, which creates the store anew. *)
newWindow(w) ==
  /\ UserActs /\ ~window[w].open
  /\ \A u \in 1..(w - 1) : window[u].open
  /\ reloadStructConfig(w, setting)
  /\ ~installed => config_' = {} /\ everRead' = FALSE

reload(w) ==
  /\ UserActs /\ window[w].open
  /\ reloadStructConfig(w, colorSchemeName_)
  /\ ~installed => UNCHANGED <<config_, everRead>>

(* The user closes the box: reload() goes on where it was. *)
boxClosed_KeepName ==
  /\ Running /\ box # NoBox
  /\ box' = NoBox
  /\ window' = [window EXCEPT ![box.by] =
       IF box.about = "no longer exists"
         THEN populated(@, config_, DEFAULT_COLOR_SCHEME)
       ELSE [@ EXCEPT !.open = TRUE, !.update = TRUE]]
  /\ UNCHANGED <<files, installed, setting, config_, colorSchemeName_, everRead,
                 changedBy, thrown, actions>>
boxClosed ==
  /\ Running /\ box # NoBox
  /\ box' = NoBox
  /\ colorSchemeName_' = IF box.about = "no longer exists"
                           THEN DEFAULT_COLOR_SCHEME ELSE colorSchemeName_
  /\ window' = [window EXCEPT ![box.by] =
       IF box.about = "no longer exists"
         THEN populated(@, config_, DEFAULT_COLOR_SCHEME)
       ELSE [@ EXCEPT !.open = TRUE, !.update = TRUE]]
  /\ UNCHANGED <<files, installed, setting, config_, everRead, changedBy, thrown, actions>>

(* A scheme of a window's menu: setColorScheme() throws for one that the   *)
(* store does not have, and only this window is painted again. *)
setColorScheme(w, name) ==
  /\ UserActs /\ window[w].open /\ name \in window[w].menu
  /\ IF name \in Offered(config_)
       THEN /\ colorSchemeName_' = name /\ changedBy' = w
            /\ window' = [window EXCEPT ![w].checked = name, ![w].update = TRUE]
            /\ thrown' = thrown
     ELSE /\ thrown' = "not found"
          /\ UNCHANGED <<colorSchemeName_, changedBy, window>>
  /\ UNCHANGED <<files, installed, setting, config_, everRead, box>>

(* A view of the window is drawn, because it was asked to be or because    *)
(* its log changed: colorScheme() is config_.colorSchemes().at(name). *)
paint(w) ==
  /\ Running /\ window[w].open
  /\ IF colorSchemeName_ \in Offered(config_)
       THEN /\ window' = [window EXCEPT ![w].shown = colorSchemeName_,
                                        ![w].update = FALSE]
            /\ thrown' = thrown
     ELSE thrown' = "out of range" /\ window' = window
  /\ UNCHANGED <<files, installed, setting, store, box, changedBy, actions>>

(* A window is closed (it is kept, and may be drawn again), or a default   *)
(* of the searches is changed. *)
writeSettings ==
  /\ UserActs
  /\ setting' = colorSchemeName_
  /\ UNCHANGED <<files, installed, store, window, box, changedBy, thrown>>

filesEdited ==
  /\ UserActs
  /\ \/ files' \in SUBSET Schemes /\ installed' = TRUE
     \/ files' = files /\ installed' = FALSE
  /\ UNCHANGED <<setting, store, window, box, changedBy, thrown>>

Next ==
  \/ \E w \in Windows : newWindow(w)
  \/ \E w \in Windows : reload(w)
  \/ boxClosed
  \/ \E w \in Windows, name \in Names : setColorScheme(w, name)
  \/ \E w \in Windows : paint(w)
  \/ writeSettings
  \/ filesEdited

Spec == Init /\ [][Next]_vars

-----------------------------------------------------------------------------
(* The values of the variables. *)
TypeOK ==
  /\ files \subseteq Schemes /\ config_ \subseteq Schemes
  /\ setting \in Names /\ colorSchemeName_ \in Names
  /\ installed \in BOOLEAN /\ everRead \in BOOLEAN
  /\ window \in [Windows -> [open : BOOLEAN, menu : SUBSET Names, checked : Names,
                             shown : Names, update : BOOLEAN]]
  /\ box.about \in {"nothing", "no longer exists", "could not load"}
  /\ box.by \in 0..MaxWindows /\ changedBy \in 0..MaxWindows
  /\ thrown \in {"nothing", "not found", "out of range"}
  /\ actions \in 0..MaxActions

(* Once the message box of reload() is closed, the current scheme is one   *)
(* that was read, although it was chosen before the files were edited or   *)
(* saved by another run of the program; the window that changed it last    *)
(* offers the schemes read, its check is at the current one, and its view  *)
(* has its colours. *)
SchemeIsThere ==
  Running /\ box = NoBox /\ everRead =>
    LET wd == window[changedBy]
    IN  /\ colorSchemeName_ \in Offered(config_)
        /\ colorSchemeName_ \in wd.menu
        /\ wd.checked = colorSchemeName_
        /\ ~wd.update => wd.shown = colorSchemeName_

(* "throw ASSERT_HERE << "Color scheme" << name << "not found"": the       *)
(* assertion of setColorScheme(), that a menu offers what there is. *)
OfferedIsFound == thrown # "not found"
=============================================================================
