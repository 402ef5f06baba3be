----------------------------- MODULE LineStorage -----------------------------
(***************************************************************************)
(* CompressedLinePositionStorage, as used by LinePositionArray: the ends   *)
(* of the lines are coded in blocks of BLOCK_SIZE lines, those past        *)
(* UINT32_MAX in a table of their own, and a read starts from the last one *)
(* of its thread where it can (ThreadPrivateStore<Cache, 2>).              *)
(*                                                                         *)
(* The storage is one record, named as the class's members, so that the    *)
(* operations compose.  A block is the entries written at each offset (in  *)
(* bytes) from its start; a pointer is a block and an offset into it.      *)
(* What is read where no entry starts is Garbage.                          *)
(***************************************************************************)
EXTENDS Integers, Sequences, FiniteSets, SequencesExt

CONSTANTS
  BLOCK_SIZE,   \* lines per block (256)
  OneByte,      \* deltas below it take one byte (128)
  TwoBytes,     \* deltas below it take two bytes (16384)
  UINT32_MAX,   \* the last position the 32 bits table can hold
  Readers,      \* the threads that read the lines
  Worker,       \* the thread that adds them
  MaxPos,       \* bound on a position
  MaxBatch,     \* bound on the positions added at a time
  MaxLines,     \* bound on the lines stored
  MaxAllocated, \* bound on the blocks allocated over time
  ReallocMoves, \* realloc() moves the blocks it shrinks
  FakeLines,    \* logs may end with a line that has no line feed
  LongFakes,    \* ... even one that ends first past UINT32_MAX
  Reloads       \* the list is emptied, to index the log anew

VARIABLES
  storage,      \* the CompressedLinePositionStorage
  fakeFinalLF_, \* of the LinePosition around it
  lastRead      \* what at() returned last to each reader (0 before that)

vars == <<storage, fakeFinalLF_, lastRead>>

nullptr == [block |-> 0, offset |-> 0]
Garbage == -1
Unset == 1000000  \* UINT32_MAX as a number of lines: no first_long_line_
NoCache == [index |-> Unset, position |-> 0, ptr |-> nullptr]

(* A block has room for two lines at least, and lines are never as many as *)
(* the number that stands for none.                                        *)
ASSUME ConstantsAssumption ==
  /\ BLOCK_SIZE \in Nat /\ BLOCK_SIZE >= 2
  /\ OneByte \in Nat /\ TwoBytes \in Nat /\ UINT32_MAX \in Nat
  /\ MaxPos \in Nat /\ MaxBatch \in Nat
  /\ MaxLines \in Nat /\ MaxLines < Unset
  /\ FakeLines \in BOOLEAN /\ ReallocMoves \in BOOLEAN /\ Reloads \in BOOLEAN

(* The widths, in bytes, of the address a block of a table starts with and *)
(* of its absolute entries.                                                *)
header(table) == IF table = 32 THEN 4 ELSE 8
absolute(table) == IF table = 32 THEN 6 ELSE 10

Empty ==
  [index32 |-> <<>>, index64 |-> <<>>, blocks |-> <<>>,
   nb_lines_ |-> 0, current_pos_ |-> 0, first_long_line_ |-> Unset,
   block_pointer_ |-> nullptr, previous_block_pointer_ |-> nullptr,
   thread_ids_ |-> <<>>, last_read_ |-> <<NoCache, NoCache>>,
   dead |-> FALSE]

-----------------------------------------------------------------------------
(* Blocks.  blocks[b] is the b-th block allocated, its size in bytes (0    *)
(* once it is freed), the address it starts with and its entries.          *)

IndexOf(s, table) == IF table = 32 THEN s.index32 ELSE s.index64
WithIndex(s, table, index) ==
  IF table = 32 THEN [s EXCEPT !.index32 = index] ELSE [s EXCEPT !.index64 = index]

Freed == [size |-> 0, initial |-> Garbage, entries |-> <<>>]

(* block32_new(), block64_new() *)
NewBlock(s, table, pos) ==
  LET block == [size |-> header(table) + BLOCK_SIZE * absolute(table),
                initial |-> pos, entries |-> <<>>]
      b == Len(s.blocks) + 1
  IN  [WithIndex(s, table, Append(IndexOf(s, table), b)) EXCEPT
         !.blocks = Append(@, block),
         !.block_pointer_ = [block |-> b, offset |-> header(table)]]

(* block_add_one_byte_relative() and the others: the entry replaces what   *)
(* started within the bytes it takes.  "inside": it was written within its *)
(* block.                                                                  *)
Write(s, relative, value, width) ==
  LET p == s.block_pointer_
      old == s.blocks[p.block].entries
      kept == {o \in DOMAIN old : o < p.offset \/ o >= p.offset + width}
      entry == [relative |-> relative, value |-> value, width |-> width,
                inside |-> p.offset + width <= s.blocks[p.block].size]
  IN  [s EXCEPT
         !.blocks[p.block].entries =
            [o \in kept \cup {p.offset} |-> IF o = p.offset THEN entry ELSE old[o]],
         !.block_pointer_.offset = @ + width]

(* block32_next_pos(), block64_next_pos() *)
next_pos(s, from) ==
  LET p == from.ptr
      known == /\ from.position # Garbage
               /\ p.block \in DOMAIN s.blocks
               /\ p.offset \in DOMAIN s.blocks[p.block].entries
      entry == s.blocks[p.block].entries[p.offset]
  IN  IF ~known
        THEN [position |-> Garbage, ptr |-> nullptr]
        ELSE [position |-> IF entry.relative THEN from.position + entry.value
                                             ELSE entry.value,
              ptr |-> [p EXCEPT !.offset = @ + entry.width]]

(* The entry of a line, from the start of its block. *)
Walk(s, table, line) ==
  LET b == IndexOf(s, table)[line \div BLOCK_SIZE + 1]
      walk[i \in 0 .. line % BLOCK_SIZE] ==
        IF i = 0
          THEN [position |-> s.blocks[b].initial,
                ptr |-> [block |-> b, offset |-> header(table)]]
          ELSE next_pos(s, walk[i - 1])
  IN  walk[line % BLOCK_SIZE]

TableOf(s, index) == IF index < s.first_long_line_ THEN 32 ELSE 64
LineInTable(s, index) ==
  IF TableOf(s, index) = 32 THEN index ELSE index - s.first_long_line_

(* What is stored for a line, the caches left aside. *)
Stored(s, index) == Walk(s, TableOf(s, index), LineInTable(s, index)).position

(* ThreadPrivateStore::threadIndex(): the slot of a thread, the first one  *)
(* for the threads that come after two others.                             *)
Registered(s, t) ==
  IF t \in ToSet(s.thread_ids_) \/ Len(s.thread_ids_) = 2
    THEN s ELSE [s EXCEPT !.thread_ids_ = Append(@, t)]
threadIndex(s, t) ==
  IF \E i \in DOMAIN s.thread_ids_ : s.thread_ids_[i] = t
    THEN CHOOSE i \in DOMAIN s.thread_ids_ : s.thread_ids_[i] = t ELSE 1

(* Bug: the cache is used at the start of a block too. *)
at_AcrossBlocks(s0, t, index) ==
  LET s == Registered(s0, t)
      i == threadIndex(s, t)
      last_read == s.last_read_[i]
      read == IF index = last_read.index + 1
                THEN next_pos(s, last_read)
                ELSE Walk(s, TableOf(s, index), LineInTable(s, index))
  IN  [s EXCEPT !.last_read_[i] =
         [index |-> index, position |-> read.position, ptr |-> read.ptr]]

(* at(), by thread t: the position read is that of its cache afterwards. *)
at(s0, t, index) ==
  LET s == Registered(s0, t)
      i == threadIndex(s, t)
      last_read == s.last_read_[i]
      line == LineInTable(s, index)
      read == IF index = last_read.index + 1 /\ line % BLOCK_SIZE # 0
                THEN next_pos(s, last_read)
                ELSE Walk(s, TableOf(s, index), line)
  IN  [s EXCEPT !.last_read_[i] =
         [index |-> index, position |-> read.position, ptr |-> read.ptr]]

LastReadBy(s, t) == s.last_read_[threadIndex(s, t)].position

-----------------------------------------------------------------------------
(* Adding and taking back.                                                 *)

(* Bug: no room is kept for an absolute element. *)
FinishBlock_NoRoom(s, table, nb) ==
  LET b == IndexOf(s, table)[nb \div BLOCK_SIZE]
  IN  [s EXCEPT !.blocks[b].size = s.block_pointer_.offset,
                !.block_pointer_ = nullptr]

(* "We have finished the block": it is shrunk to what is used, plus room   *)
(* for the last element to become an absolute one.  A block that moves     *)
(* leaves a freed one behind.                                              *)
FinishBlock(s, table, nb) ==
  LET b == IndexOf(s, table)[nb \div BLOCK_SIZE]
      new_size == s.previous_block_pointer_.offset + absolute(table)
      new == IF ReallocMoves THEN Len(s.blocks) + 1 ELSE b
      shrunk == [s.blocks[b] EXCEPT !.size = new_size]
      blocks == IF ReallocMoves
                  THEN Append([s.blocks EXCEPT ![b] = Freed], shrunk)
                  ELSE [s.blocks EXCEPT ![b] = shrunk]
  IN  [WithIndex(s, table, [IndexOf(s, table) EXCEPT ![nb \div BLOCK_SIZE] = new])
       EXCEPT !.blocks = blocks,
              !.block_pointer_ = nullptr,
              !.previous_block_pointer_.block = new]

(* "Save the pointer in case we need to 'pop_back'" *)
SavePointer(s) == [s EXCEPT !.previous_block_pointer_ = s.block_pointer_]

(* append() *)
append(s, pos) ==
  LET store_in_big == pos > UINT32_MAX
      table == IF store_in_big THEN 64 ELSE 32
      first_big == store_in_big /\ s.first_long_line_ = Unset
      saved == SavePointer(s)
      opened == IF first_big
                  THEN [saved EXCEPT !.first_long_line_ = s.nb_lines_,
                                     !.block_pointer_ = nullptr]
                  ELSE saved
      delta == pos - s.current_pos_
      added == IF opened.block_pointer_ = nullptr THEN NewBlock(opened, table, pos)
               ELSE IF delta < OneByte THEN Write(opened, TRUE, delta, 1)
               ELSE IF delta < TwoBytes THEN Write(opened, TRUE, delta, 2)
               ELSE Write(opened, FALSE, pos, absolute(table))
      result == [added EXCEPT !.current_pos_ = pos, !.nb_lines_ = @ + 1]
      nb == IF store_in_big THEN result.nb_lines_ - result.first_long_line_
                            ELSE result.nb_lines_
  IN  IF s.dead THEN s
      ELSE IF nb % BLOCK_SIZE = 0 THEN FinishBlock(result, table, nb) ELSE result

(* Bug: the block made for the line taken back is left in its table.       *)
pop_back_KeepBlock(s) ==
  LET table == IF s.first_long_line_ = Unset THEN 32 ELSE 64
      reverted == [s EXCEPT
        !.blocks = IF s.previous_block_pointer_ # nullptr THEN @
                   ELSE [@ EXCEPT ![Last(IndexOf(s, table))] = Freed],
        !.block_pointer_ = s.previous_block_pointer_,
        !.previous_block_pointer_ = nullptr,
        !.nb_lines_ = @ - 1]
      read == at(reverted, Worker, reverted.nb_lines_ - 1)
  IN  IF reverted.nb_lines_ = 0 THEN [s EXCEPT !.dead = TRUE]
      ELSE [read EXCEPT !.current_pos_ = LastReadBy(read, Worker)]

(* pop_back().  With no line left it reads one all the same, from an empty *)
(* vector: the program dies there.                                         *)
pop_back(s) ==
  LET table == IF s.first_long_line_ = Unset THEN 32 ELSE 64
      b == Last(IndexOf(s, table))
      reverted == IF s.previous_block_pointer_ # nullptr
                    THEN [s EXCEPT !.block_pointer_ = s.previous_block_pointer_]
                    ELSE [WithIndex(s, table, Front(IndexOf(s, table))) EXCEPT
                            !.blocks[b] = Freed, !.block_pointer_ = nullptr]
      shorter == [reverted EXCEPT !.previous_block_pointer_ = nullptr,
                                  !.nb_lines_ = @ - 1]
      read == at(shorter, Worker, shorter.nb_lines_ - 1)
  IN  IF shorter.nb_lines_ = 0 THEN [s EXCEPT !.dead = TRUE]
      ELSE [read EXCEPT !.current_pos_ = LastReadBy(read, Worker)]

(* append(), of the positions of a list in turn. *)
append_all(s, list) ==
  LET after[n \in 0 .. Len(list)] ==
        IF n = 0 THEN s ELSE append(after[n - 1], list[n])
  IN  after[Len(list)]

-----------------------------------------------------------------------------
TypeOK ==
  /\ DOMAIN storage = DOMAIN Empty
  /\ storage.nb_lines_ \in Nat
  /\ storage.first_long_line_ \in 0..MaxLines \cup {Unset}
  /\ DOMAIN storage.last_read_ = {1, 2}
  /\ ToSet(storage.index32) \cup ToSet(storage.index64) \subseteq DOMAIN storage.blocks
  /\ storage.thread_ids_ \in Seq(Readers \cup {Worker})
  /\ Len(storage.thread_ids_) <= 2
  /\ fakeFinalLF_ \in BOOLEAN
  /\ lastRead \in [Readers -> {Garbage} \cup 0..MaxPos]

Init ==
  /\ storage = Empty
  /\ fakeFinalLF_ = FALSE
  /\ lastRead = [t \in Readers |-> 0]

(* What the storage holds, as the vector it stands for. *)
Decoded == [i \in 1..storage.nb_lines_ |-> Stored(storage, i - 1)]

Vector == INSTANCE LinePosition WITH array <- Decoded

(* A position that is the first past UINT32_MAX. *)
StartsTable64(s, pos) == pos > UINT32_MAX /\ s.first_long_line_ = Unset

(* LinePosition::append_list(), in IndexingData::addAll() under its mutex. *)
append_list ==
  \E fake \in {FakeLines, FALSE} : \E list \in Vector!Batches(fake) :
    /\ ~storage.dead
    /\ storage.nb_lines_ + Len(list) <= MaxLines
    /\ Len(storage.blocks) + 2 * Len(list) <= MaxAllocated
    /\ LET kept == IF fakeFinalLF_ THEN pop_back(storage) ELSE storage
       IN  /\ fake /\ StartsTable64(kept, list[1]) => LongFakes
           /\ storage' = append_all(kept, list)
    /\ fakeFinalLF_' = IF storage'.dead THEN fakeFinalLF_ ELSE fake
    /\ UNCHANGED lastRead

(* IndexingData::clear(): an empty list is moved into this one.  The       *)
(* blocks are freed, the readers' caches stay what they are.               *)
clear ==
  /\ Reloads
  /\ ~storage.dead
  /\ storage' = [Empty EXCEPT
                   !.blocks = [b \in DOMAIN storage.blocks |-> Freed],
                   !.thread_ids_ = storage.thread_ids_,
                   !.last_read_ = storage.last_read_]
  /\ fakeFinalLF_' = FALSE
  /\ UNCHANGED lastRead

(* IndexingData::getPosForLine(), under the same mutex. *)
getPosForLine ==
  \E t \in Readers, index \in 0 .. storage.nb_lines_ - 1 :
    /\ ~storage.dead
    /\ storage' = at(storage, t, index)
    /\ lastRead' = [lastRead EXCEPT ![t] = LastReadBy(storage', t)]
    /\ UNCHANGED fakeFinalLF_

Next == append_list \/ clear \/ getPosForLine

Spec == Init /\ [][Next]_vars

-----------------------------------------------------------------------------
(* "It emulates the interface of a vector": what is stored and what is     *)
(* read is what was appended, blocks opened, finished, freed and shrunk,   *)
(* entries rewritten and tables changed on the way.                        *)
EmulatesVector == Vector!Spec

(* "We allocate extra space for the last element in case it is replaced by *)
(* an absolute value in the future (following a pop_back)": nothing is     *)
(* ever written past the end of a block, finished ones reopened by a       *)
(* pop_back() included, nor in one that was freed.                         *)
EntriesFit ==
  \A b \in DOMAIN storage.blocks : \A o \in DOMAIN storage.blocks[b].entries :
    storage.blocks[b].entries[o].inside

(* Every block allocated is in one of the tables until it is freed, and in *)
(* one place only: nothing leaks, nothing is freed twice.                  *)
BlocksOwned ==
  /\ \A b \in DOMAIN storage.blocks :
       storage.blocks[b].size # 0 <=>
         b \in ToSet(storage.index32) \cup ToSet(storage.index64)
  /\ IsInjective(storage.index32 \o storage.index64)

(* "Position of the end of the last line added" (current_pos_), the origin *)
(* of the next delta and what "Lines must be stored in order" is checked   *)
(* against: it is the last line's, lines taken back included.              *)
CurrentPosition ==
  ~storage.dead /\ storage.nb_lines_ # 0 =>
    storage.current_pos_ = Stored(storage, storage.nb_lines_ - 1)

(* "A null pointer here means pop_back need to free the block that has     *)
(* just been created", and the asserts of pop_back(): what it goes by is   *)
(* right for the line it would take back.                                  *)
ReadyToPop ==
  ~storage.dead /\ fakeFinalLF_ =>
    (storage.previous_block_pointer_ = nullptr <=>
       LineInTable(storage, storage.nb_lines_ - 1) % BLOCK_SIZE = 0)

(* What the next append() and pop_back() write and go by is right.         *)
ReadyToAppend == EntriesFit /\ CurrentPosition /\ ReadyToPop

(* LinePosition "can keep track of whether the final LF was added (for     *)
(* non-LF terminated files) and remove it when more data are added".       *)
FakeIsRemoved == ~storage.dead
=============================================================================
