----------------------------- MODULE LineColors -----------------------------
(***************************************************************************)
(* The colours of one line of a view, as drawTextArea() composes them from *)
(* the highest layer to the lowest: the selection, the matches of the      *)
(* quick find, the patterns highlighted by the user, the syntax, the text. *)
(* Colorizer adds their tokens.  Regular expressions are abstract: what    *)
(* they match is any part of what they are given.                          *)
(***************************************************************************)
EXTENDS Integers, Sequences, SequencesExt

CONSTANTS
  Length,          \* columns of the line
  Screen,            \* the columns on the screen
  Selections,      \* the parts of the line that may be selected
  Matches,         \* what a pattern may match: sequences of ranges
  highlightScope,  \* the scope of each colour of the user, in order
  Rules,           \* of the syntax, in order
  SchemeScopes     \* the scopes of the syntax that the colour scheme has

VARIABLES
  before, after, lower, lower_start, adding, given,  \* of Colorizer
  layer,   \* the one being added
  next,    \* its next pattern or rule
  pending, \* the tokens found and not added yet, in order
  kept,    \* the list of the line while the highlights have one of their own
  groups,  \* SyntaxParsingState::groups
  found,   \* SyntaxParsingState::tokens, and groups' once all rules applied
  layers   \* what each layer found, for the properties

Merging == INSTANCE Colorizer WITH
  Scopes <- SchemeScopes \cup ToSet(highlightScope)
              \cup {"selection", "quickFind", "text"}

list == <<before, after, lower, lower_start, adding, given>>
vars == <<list, layer, next, pending, kept, groups, found, layers>>

Span(a, b) == [start |-> a, end |-> b]
Token(r, scope) == [start |-> r.start, end |-> r.end, scope |-> scope]
Tokens(ranges, scope) == [i \in DOMAIN ranges |-> Token(ranges[i], scope)]
Columns(r) == r.start..(r.end - 1)

WholeLine == Span(0, Length)

NotKept == <<>>

Init ==
  /\ \E ranges \in {<<>>} \cup {<<r>> : r \in Selections} :
       /\ Merging!StartsWith(Tokens(ranges, "selection"))
       /\ layers = [selection |-> ranges, quickFind |-> <<>>,
                    highlights |-> <<>>, syntax |-> {}]
  /\ lower = Token(Span(0, 0), "text") /\ lower_start = 0
  /\ layer = "quickFind" /\ next = 1 /\ pending = <<>>
  /\ kept = NotKept
  /\ groups = [LINE |-> Token(WholeLine, "")] /\ found = {}

-----------------------------------------------------------------------------
Ready == ~adding /\ pending = <<>>

addPending ==
  /\ ~adding /\ pending # <<>>
  /\ Merging!addLowerToken(Head(pending))
  /\ pending' = Tail(pending)
  /\ UNCHANGED <<layer, next, kept, groups, found, layers>>

Loop ==
  /\ Merging!Loop
  /\ UNCHANGED <<layer, next, pending, kept, groups, found, layers>>

OnScreen(r) == r.end > Screen.start /\ r.start < Screen.end

(* The matches of the quick find, but those that are out of the screen. *)
matchLine ==
  /\ Ready /\ layer = "quickFind"
  /\ \E ranges \in Matches :
       /\ pending' = Tokens(SelectSeq(ranges, OnScreen), "quickFind")
       /\ layers' = [layers EXCEPT !.quickFind = ranges]
  /\ layer' = "highlights"
  /\ UNCHANGED <<list, next, kept, groups, found>>

(* Highlights::colorize() makes a list of its own. *)
colorize ==
  /\ Ready /\ layer = "highlights" /\ kept = NotKept
  /\ kept' = [tokens |-> after, given |-> given]
  /\ after' = <<>> /\ given' = <<>>
  /\ UNCHANGED <<before, lower, lower_start, adding, layer, next, pending,
                 groups, found, layers>>

(* The patterns of one of its colours. *)
globalMatch ==
  /\ Ready /\ kept # NotKept /\ next <= Len(highlightScope)
  /\ \E ranges \in Matches :
       /\ pending' = Tokens(ranges, highlightScope[next])
       /\ layers' = [layers EXCEPT !.highlights = Append(@, ranges)]
  /\ next' = next + 1
  /\ UNCHANGED <<list, layer, kept, groups, found>>

(* mergeSyntaxTokens() takes the tokens from the last to the first. *)
mergeHighlights ==
  /\ Ready /\ kept # NotKept /\ next > Len(highlightScope)
  /\ pending' = Reverse(after)
  /\ after' = kept.tokens /\ given' = kept.given
  /\ kept' = NotKept
  /\ layer' = "syntax" /\ next' = 1
  /\ UNCHANGED <<before, lower, lower_start, adding, groups, found, layers>>

-----------------------------------------------------------------------------
(* The ranges within another. *)
Parts(r) == {part \in [start : 0..Length, end : 0..Length] :
               r.start <= part.start /\ part.start <= part.end /\ part.end <= r.end}
Null(r) == r.start = r.end

Rule == Rules[next]
Applicable == Rule.group \in DOMAIN groups
Subject == groups[Rule.group]

(* A group that is captured goes by its own name until it is given a       *)
(* colour.  A group captured by an earlier rule may be given one too. *)
Captured(captures) ==
  LET names == {g \in DOMAIN captures : ~Null(captures[g])}
  IN  [g \in DOMAIN groups \cup names |->
         IF g \in names THEN Token(captures[g], g) ELSE groups[g]]
Colorized(all) ==
  [g \in DOMAIN all |->
     LET name == IF g = Rule.group /\ "GROUP" \in DOMAIN Rule.colorize
                   THEN "GROUP" ELSE g
     IN  IF name \in DOMAIN Rule.colorize
           THEN Token(all[g], Rule.colorize[name]) ELSE all[g]]

applyMatch ==
  /\ Ready /\ layer = "syntax" /\ next <= Len(Rules)
  /\ Applicable /\ Rule.searchType = "match"
  /\ \E captures \in [Rule.captures -> Parts(Subject)] :
       groups' = Colorized(Captured(captures))
  /\ next' = next + 1
  /\ UNCHANGED <<list, layer, pending, kept, found, layers>>

(* matchAll colours what it finds, of which later rules know nothing. *)
applyAll ==
  /\ Ready /\ layer = "syntax" /\ next <= Len(Rules)
  /\ Applicable /\ Rule.searchType = "all"
  /\ \E first \in Parts(Subject) : \E second \in Parts(Subject) :
       /\ first.end <= second.start
       /\ found' = found \cup
            {[token |-> Token(r, Rule.colorize["MATCH"]), pushed |-> next] :
               r \in {m \in {first, second} : ~Null(m)}}
  /\ next' = next + 1
  /\ UNCHANGED <<list, layer, pending, kept, groups, layers>>

(* The group is not there, or the expression does not match. *)
applyNothing ==
  /\ Ready /\ layer = "syntax" /\ next <= Len(Rules)
  /\ next' = next + 1
  /\ UNCHANGED <<list, layer, pending, kept, groups, found, layers>>

(* The groups come after the tokens of matchAll, in the order of a hash;   *)
(* those of a scope that has no colour are left out. *)
parsed ==
  /\ Ready /\ layer = "syntax" /\ next > Len(Rules)
  /\ found' = {f \in found \cup {[token |-> groups[g], pushed |-> next] :
                                   g \in DOMAIN groups} :
                 f.token.scope \in SchemeScopes}
  /\ layers' = [layers EXCEPT !.syntax = {f.token : f \in found'}]
  /\ layer' = "merge"
  /\ UNCHANGED <<list, next, pending, kept, groups>>

(* The order of the sort, which is stable: f comes after h. *)
After(f, h) ==
  \/ f.token.start > h.token.start
  \/ f.token.start = h.token.start /\ f.token.end < h.token.end
  \/ /\ f.token.start = h.token.start /\ f.token.end = h.token.end
     /\ f.pushed > h.pushed

mergeSyntaxTokens ==
  /\ Ready /\ layer = "merge"
  /\ \E f \in found :
       /\ \A h \in found : ~After(h, f)
       /\ pending' = <<f.token>>
       /\ found' = found \ {f}
  /\ UNCHANGED <<list, layer, next, kept, groups, layers>>

(* The text is under all that, and the line is drawn. *)
addText ==
  /\ Ready /\ layer = "merge" /\ found = {}
  /\ pending' = <<Token(WholeLine, "text")>>
  /\ layer' = "drawn"
  /\ UNCHANGED <<list, next, kept, groups, found, layers>>

(* drawColorizedText() cuts the tokens to the screen and draws them one    *)
(* after the other, whatever their columns. *)
Cut(t) == [t EXCEPT !.start = IF @ < Screen.start THEN Screen.start ELSE @,
                    !.end = IF @ > Screen.end THEN Screen.end ELSE @]
Chunks ==
  LET shown == SelectSeq(after, OnScreen)
  IN  [i \in DOMAIN shown |-> Cut(shown[i])]
xPos(i) ==
  FoldSeq(LAMBDA t, x : x + t.end - t.start, 0, SubSeq(Chunks, 1, i - 1))

(* Adding a token, and what finds them. *)
Add == addPending \/ Loop
Layer ==
  \/ matchLine
  \/ colorize
  \/ globalMatch
  \/ mergeHighlights
  \/ applyMatch
  \/ applyAll
  \/ applyNothing
  \/ parsed
  \/ mergeSyntaxTokens
  \/ addText

Next == Add \/ Layer

Spec == Init /\ [][Next]_vars

-----------------------------------------------------------------------------
UpperIsKept == Merging!UpperIsKept

Drawn == layer = "drawn" /\ Ready

In(ranges, c) == \E i \in DOMAIN ranges : c \in Columns(ranges[i])

(* The scopes of the innermost parts of the syntax at a column.  Parts of  *)
(* the same range have no order: any of them may be shown. *)
Innermost(c) ==
  LET here == {t \in layers.syntax : c \in Columns(t)}
  IN  {t.scope : t \in {u \in here :
         \A o \in here : Columns(o) \subseteq Columns(u) => Columns(o) = Columns(u)}}

Expected(c) ==
  IF In(layers.selection, c) THEN {"selection"}
  ELSE IF In(layers.quickFind, c) THEN {"quickFind"}
  ELSE LET colours == {i \in DOMAIN highlightScope : In(layers.highlights[i], c)}
       IN  IF colours # {}
             THEN {highlightScope[CHOOSE i \in colours : \A j \in colours : i <= j]}
           ELSE IF Innermost(c) # {} THEN Innermost(c)
           ELSE {"text"}

(* Each column of the line on the screen is drawn once, at its place and   *)
(* in the colour of its highest layer; a part of the syntax shows on those *)
(* it is within; and what is drawn is not longer than the screen, which    *)
(* drawColorizedText() throws an error for. *)
LineIsColoured ==
  Drawn =>
    /\ \A c \in Columns(Screen) \cap Columns(WholeLine) :
         \E i \in DOMAIN Chunks :
           /\ c \in Columns(Chunks[i]) /\ Chunks[i].scope \in Expected(c)
           /\ xPos(i) = Chunks[i].start - Screen.start
           /\ \A j \in DOMAIN Chunks \ {i} : c \notin Columns(Chunks[j])
    /\ xPos(Len(Chunks) + 1) <= Screen.end - Screen.start
=============================================================================
