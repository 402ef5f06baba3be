-------------------------------- MODULE MCGui --------------------------------
(***************************************************************************)
(* Gui for TLC: what Gui.cfg cannot say of its constants.  The lines that  *)
(* neither, one or both patterns match; three lines of results, of which   *)
(* two match and one is short; three columns, two of them on the screen,   *)
(* two colours of the user, a syntax of three rules.                       *)
(***************************************************************************)
EXTENDS Gui

ActionsOf == [quickfind |-> 2, view |-> 2, results |-> 2, windows |-> 4,
              instances |-> 3, schemes |-> 6]

SomeLines ==
  {[p |-> {}, q |-> {}], [p |-> {0, 2}, q |-> {}], [p |-> {1}, q |-> {0}]}

LengthOf == [l \in 0..2 |-> IF l = 1 THEN 1 ELSE 2]

Part(a, b) == [start |-> a, end |-> b]

ScreenColumns == Part(1, 3)

SomeSelections == {Part(0, 1), Part(1, 2)}

SomeMatches == {<<Part(0, 1), Part(2, 3)>>, <<Part(1, 3)>>}

UserScopes == <<"highlight1", "highlight2">>

(* The line, a part of it that the first rule finds, and what two others   *)
(* find in that part. *)
SomeRules ==
  << [group |-> "LINE", searchType |-> "match", captures |-> {"g"},
      colorize |-> [LINE |-> "a"]],
     [group |-> "g", searchType |-> "all", captures |-> {},
      colorize |-> [MATCH |-> "b"]],
     [group |-> "g", searchType |-> "match", captures |-> {"h"},
      colorize |-> [GROUP |-> "c"]] >>
=============================================================================
