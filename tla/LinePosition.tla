---------------------------- MODULE LinePosition ----------------------------
(***************************************************************************)
(* LinePosition<Storage>: the list of the ends of the lines of a log, the  *)
(* last of which may be fake, over the plain vector (the template's        *)
(* SimpleLinePositionStorage).  It says what a storage promises: LineStorage *)
(* is shown to implement it.                                               *)
(***************************************************************************)
EXTENDS Integers, Sequences, SequencesExt

CONSTANTS
  Readers,  \* the threads that read the list
  MaxPos,   \* bound on a position
  MaxBatch  \* bound on the positions added by one append_list()

VARIABLES
  array,
  fakeFinalLF_,
  lastRead  \* what at() returned last to each reader (0 before that)

vars == <<array, fakeFinalLF_, lastRead>>

Increasing(list) ==
  \A i, j \in DOMAIN list : i < j => list[i] < list[j]

(* The lines that stay when others are added: all but a fake end of line.  *)
Kept == IF fakeFinalLF_ THEN Front(array) ELSE array

(* The lists append_list() is called with: increasing, past the lines that *)
(* stay (not always past a fake end of line, which is put where the file   *)
(* ends and not where its reading did), and a fake end of line comes alone. *)
Batches(fake) ==
  {list \in UNION {[1..n -> 1..MaxPos] : n \in 0..MaxBatch} :
     /\ Increasing(list)
     /\ fake => Len(list) = 1
     /\ list # <<>> /\ Kept # <<>> => list[1] > Last(Kept)}

TypeOK ==
  /\ array \in Seq(1..MaxPos)
  /\ fakeFinalLF_ \in BOOLEAN
  /\ lastRead \in [Readers -> Nat]

Init ==
  /\ array = <<>>
  /\ fakeFinalLF_ = FALSE
  /\ lastRead = [t \in Readers |-> 0]

append_list(list, fake) ==
  /\ array' = Kept \o list
  /\ fakeFinalLF_' = fake
  /\ UNCHANGED lastRead

(* The assignment of an empty list. *)
clear ==
  /\ array' = <<>>
  /\ fakeFinalLF_' = FALSE
  /\ UNCHANGED lastRead

at(t, i) ==
  /\ i \in DOMAIN array
  /\ lastRead' = [lastRead EXCEPT ![t] = array[i]]
  /\ UNCHANGED <<array, fakeFinalLF_>>

Next ==
  \/ \E fake \in BOOLEAN : \E list \in Batches(fake) : append_list(list, fake)
  \/ clear
  \/ \E t \in Readers, i \in DOMAIN array : at(t, i)

Spec == Init /\ [][Next]_vars

(* "Invariant: all pos in other must be greater than any pos in this":     *)
(* with callers that keep to it the list is sorted, so a line never ends   *)
(* before it begins, whatever fake ends of line came and went.             *)
Sorted == Increasing(array)

(* "Must be used after 'append'-ing a fake LF at the end": there always is *)
(* an end of line for the next append to take back.                        *)
FakeIsThere == fakeFinalLF_ => array # <<>>
=============================================================================
