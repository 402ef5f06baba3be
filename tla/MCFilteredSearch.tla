--------------------------- MODULE MCFilteredSearch ---------------------------
(***************************************************************************)
(* FilteredSearch for TLC, with bounds that depend on what it is used for, *)
(* which is chosen at the start:                                           *)
(*   grow      searches in a log that grows, line by line and in chunks;   *)
(*   truncate  shorter logs, that are truncated and reloaded, and whose    *)
(*             loading is stopped.                                         *)
(***************************************************************************)
EXTENDS FilteredSearch

VARIABLE use

MCvars == <<use, vars>>

MCInit ==
  /\ Init
  /\ \/ use = "grow"
     \/ use = "truncate" /\ Len(source) <= 2

In(name, action) == use = name /\ action /\ UNCHANGED use

(* A short log: two lines. *)
Short(action) == action /\ Len(source') <= 2

MCNext ==
  \/ In("grow", startFullIndexing)
  \/ In("grow", addAll)
  \/ In("grow", finishIndexing)
  \/ In("grow", fileGrew)
  \/ In("grow", startNewSearch)
  \/ In("grow", stopSearch)
  \/ In("grow", reload)
  \/ In("grow", searchRefreshChangedHandler)
  \/ In("grow", searchTextChangeHandler)
  \/ In("grow", Gui)
  \/ In("grow", Worker)
  \/ In("truncate", Short(Log))
  \/ In("truncate", User)
  \/ In("truncate", Gui)
  \/ In("truncate", Worker)

(* The event loop and the worker run. *)
MCSpec ==
  /\ MCInit /\ [][MCNext]_MCvars
  /\ WF_MCvars(Gui /\ UNCHANGED use) /\ WF_MCvars(Worker /\ UNCHANGED use)
=============================================================================
