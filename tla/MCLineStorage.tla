--------------------------- MODULE MCLineStorage ---------------------------
(***************************************************************************)
(* LineStorage for TLC, for three uses of it, one of which is chosen at    *)
(* the start:                                                              *)
(*   fakes   logs followed as they grow past UINT32_MAX, their last line   *)
(*           often unterminated;                                           *)
(*   reads   whole lines are added between the reads of two threads;       *)
(*   moving  blocks that move, lines taken back and lists emptied, with    *)
(*           three threads reading through stale caches: another storage,  *)
(*           with constants of its own, where only the ownership of blocks *)
(*           and the types are promised.                                   *)
(***************************************************************************)
EXTENDS LineStorage

VARIABLES use, moving, movingFakeLF, movingRead

mcVars == <<vars, use, moving, movingFakeLF, movingRead>>

Reads == INSTANCE LineStorage WITH
  MaxPos <- 8, MaxLines <- 6, MaxAllocated <- 12, FakeLines <- FALSE

Moving == INSTANCE LineStorage WITH
  BLOCK_SIZE <- 2, OneByte <- 1, TwoBytes <- 2, UINT32_MAX <- 4,
  MaxPos <- 5, MaxLines <- 4, MaxAllocated <- 5,
  ReallocMoves <- TRUE, Reloads <- TRUE,
  storage <- moving, fakeFinalLF_ <- movingFakeLF, lastRead <- movingRead

MCInit ==
  /\ use \in {"fakes", "reads", "moving"}
  /\ Init
  /\ Moving!Init

Uses(name, action) ==
  /\ use = name
  /\ action
  /\ UNCHANGED <<use, moving, movingFakeLF, movingRead>>

Moves(action) ==
  /\ use = "moving"
  /\ action
  /\ UNCHANGED <<vars, use>>

MCNext ==
  \/ Uses("fakes", append_list)
  \/ Uses("reads", Reads!append_list)
  \/ Uses("reads", Reads!getPosForLine)
  \/ Moves(Moving!append_list)
  \/ Moves(Moving!clear)
  \/ Moves(Moving!getPosForLine)

MCSpec == MCInit /\ [][MCNext]_mcVars

-----------------------------------------------------------------------------
(* No block leaks or is freed twice, and the slots of the caches, which    *)
(* three threads share in "moving", stay two.                              *)
BlocksOwnedThroughout ==
  /\ TypeOK /\ BlocksOwned
  /\ Moving!TypeOK /\ Moving!BlocksOwned
=============================================================================
