------------------------------ MODULE Colorizer ------------------------------
(***************************************************************************)
(* colorizer.cpp: the colours of a line as a list of tokens, each a range  *)
(* of columns and the scope its colour is looked up by.  The layers of a   *)
(* line are added from the highest to the lowest: addLowerToken() puts a   *)
(* token under those there are, in pieces where they do not cover it, and  *)
(* keeps the list sorted, which is all it relies on.                       *)
(*                                                                         *)
(* The list is kept as what comes before the iterator of the loop and what *)
(* comes from it on; between two calls all of it is after.  given is the   *)
(* history of the calls.                                                   *)
(***************************************************************************)
EXTENDS Integers, Sequences

CONSTANT Scopes

VARIABLES
  before, after,  \* upperTokens, on both sides of the iterator upper
  lower,          \* the token being added
  lower_start,
  adding,         \* within addLowerToken()
  given           \* the tokens added so far, the one being added included

list == <<before, after, lower, lower_start, adding, given>>

Token == [start : Nat, end : Nat, scope : Scopes]

Covers(t, c) == t.start <= c /\ c < t.end

(* The list a drawing starts from: the selection, if the line has any. *)
StartsWith(tokens) ==
  /\ before = <<>> /\ after = tokens /\ given = tokens
  /\ adding = FALSE

Init ==
  /\ \/ StartsWith(<<>>)
     \/ \E t \in Token : t.start < t.end /\ StartsWith(<<t>>)
  /\ lower \in Token
  /\ lower_start = 0

-----------------------------------------------------------------------------
(* upperTokens.begin() *)
addLowerToken(t) ==
  /\ ~adding
  /\ lower' = t /\ lower_start' = t.start
  /\ adding' = TRUE
  /\ given' = Append(given, t)
  /\ UNCHANGED <<before, after>>

Upper == Head(after)

Piece(end) == [start |-> lower_start, end |-> end, scope |-> lower.scope]

Above == adding /\ after # <<>> /\ Upper.start <= lower_start

Return(tokens) ==
  /\ before' = <<>> /\ after' = tokens
  /\ adding' = FALSE
  /\ UNCHANGED <<lower, lower_start, given>>

(* The rest of the token is under an upper one. *)
covered ==
  /\ Above /\ Upper.end >= lower.end
  /\ Return(before \o after)

(* The token, or its beginning, is past an upper one. *)
passed_Back ==
  /\ Above /\ Upper.end < lower.end
  /\ lower_start' = Upper.end
  /\ before' = Append(before, Upper) /\ after' = Tail(after)
  /\ UNCHANGED <<lower, adding, given>>
passed ==
  /\ Above /\ Upper.end < lower.end
  /\ lower_start' = IF Upper.end > lower_start THEN Upper.end ELSE lower_start
  /\ before' = Append(before, Upper) /\ after' = Tail(after)
  /\ UNCHANGED <<lower, adding, given>>

(* A piece of the token shows before the next upper one. *)
piece ==
  /\ adding /\ after # <<>>
  /\ Upper.start > lower_start /\ Upper.start < lower.end
  /\ before' = Append(Append(before, Piece(Upper.start)), Upper)
  /\ after' = Tail(after)
  /\ lower_start' = Upper.end
  /\ UNCHANGED <<lower, adding, given>>

(* What is left of it comes before all the upper tokens left. *)
rest ==
  /\ adding
  /\ after # <<>> => Upper.start > lower_start /\ Upper.start >= lower.end
  /\ Return(IF lower_start < lower.end
              THEN Append(before, Piece(lower.end)) \o after
            ELSE before \o after)

Loop == covered \/ passed \/ piece \/ rest

Next == Loop \/ \E t \in Token : t.start <= t.end /\ addLowerToken(t)

Spec == Init /\ [][Next]_list

-----------------------------------------------------------------------------
(* The list is sorted and its tokens are disjoint and not empty, as the    *)
(* loop over it and drawColorizedText() require. *)
Disjoint(q) ==
  \A i, j \in DOMAIN q : q[i].start < q[i].end /\ (i < j => q[i].end <= q[j].start)

Sorted ==
  /\ Disjoint(before) /\ Disjoint(after)
  /\ \A i \in DOMAIN before, j \in DOMAIN after : before[i].end <= after[j].start

(* Each column is given to the first token that covers it: once an upper   *)
(* token has a column no lower one takes it ... *)
FirstAt(c, s) ==
  \E i \in DOMAIN given :
    /\ Covers(given[i], c) /\ given[i].scope = s
    /\ \A j \in DOMAIN given : j < i => ~Covers(given[j], c)

FirstIn(q) ==
  \A i \in DOMAIN q : \A c \in q[i].start..(q[i].end - 1) : FirstAt(c, q[i].scope)

ShownIsFirst == FirstIn(before) /\ FirstIn(after)

(* ... and no column that is free is missed. *)
CoveredBy(q, c) == \E i \in DOMAIN q : Covers(q[i], c)

GivenIsShown ==
  ~adding =>
    \A i \in DOMAIN given : \A c \in given[i].start..(given[i].end - 1) :
      CoveredBy(after, c)

(* The colour of a column is that of the highest layer that covers it, at  *)
(* any moment while they are merged. *)
UpperIsKept == Sorted /\ ShownIsFirst /\ GivenIsShown
=============================================================================
