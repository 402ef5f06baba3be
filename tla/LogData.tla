------------------------------- MODULE LogData -------------------------------
(***************************************************************************)
(* The loading of one log file: LogData (GUI thread), its                  *)
(* LogDataWorkerThread, the IndexingData they share, the file on disk and  *)
(* the notifications of the file watcher.                                  *)
(*                                                                         *)
(* The GUI thread runs one handler at a time and takes its events in order *)
(* from guiQueue (the queued Qt connections).  It blocks only where the    *)
(* code takes the worker's mutex_: the worker holds it from the moment it  *)
(* leaves its condition wait until it waits again, so "mutex_ is free" is  *)
(* workerPc = "wait".                                                      *)
(*                                                                         *)
(* A file is a sequence of bytes, of which only line feeds are told apart. *)
(* The line positions are strictly increasing, so the array is the SET     *)
(* lines of the positions of the line feeds read, and the position fakeLF  *)
(* of the fake final one (0 when there is none).                           *)
(***************************************************************************)
EXTENDS Integers, Sequences

CONSTANTS
  Inodes,         \* the files the log's name may come to stand for
  NoInode,        \* "no such file"
  ChunkSize,      \* IndexOperation::sizeChunk, in bytes
  MaxSize,        \* bound on the size of a file
  MaxDiskChanges, \* bound on the changes made to the disk
  MaxUserActions, \* bound on the reloads and the interruptions asked for
  AppendOnly,     \* the log only grows (no truncation, rotation, removal)
  MemoryFailures  \* allocations made while indexing may fail

ASSUME ConstantsAssumption ==
  /\ NoInode \notin Inodes
  /\ ChunkSize \in Nat \ {0}
  /\ MaxSize \in Nat
  /\ MaxDiskChanges \in Nat
  /\ MaxUserActions \in Nat
  /\ AppendOnly \in BOOLEAN
  /\ MemoryFailures \in BOOLEAN

VARIABLES
  (* The disk and the file watcher. *)
  content,            \* the bytes of each file
  named,              \* the file the log's name stands for, or NoInode
  watched,            \* the watcher holds a registration for the name
  dirty,              \* a change the watcher has not reported yet
  (* LogData, in the GUI thread. *)
  guiPc,              \* where the GUI thread is
  guiQueue,           \* the events posted to the GUI thread
  attached_file_,     \* "null", or the file it has open (NoInode: not open)
  currentOperation_,
  nextOperation_,
  fileChangedOnDisk_,
  seenSize,           \* the local file_size of fileChangedOnDisk()
  signal,             \* the last signal emitted to the clients
  (* LogDataWorkerThread. *)
  workerPc,
  operationRequested_,
  interruptRequested_,
  terminate_,
  opFile,             \* the file doIndex() has open
  filePos,            \* file.pos()
  pos,                \* the start of the current line
  blockEnd,           \* the end of the block read last
  line_positions,     \* the line feeds in it
  (* IndexingData. *)
  lines,
  fakeLF,
  indexedSize_,
  maxLength_,
  (* Bounds and history. *)
  diskChanges,
  userActions,
  history             \* what happened on the way: "missed", a change went by
                      \* that no notification will tell; "cutShort", an
                      \* operation on this index was; "stopped", by the user

diskVars == <<content, named, diskChanges>>
watchVars == <<watched, dirty>>
guiVars == <<guiPc, guiQueue, attached_file_, currentOperation_,
             nextOperation_, fileChangedOnDisk_, seenSize, signal>>
flagVars == <<operationRequested_, interruptRequested_, terminate_>>
blockVars == <<blockEnd, line_positions>>
scanVars == <<workerPc, opFile, filePos, pos, blockVars>>
indexVars == <<lines, fakeLF, indexedSize_, maxLength_>>
vars == <<diskVars, watchVars, guiVars, flagVars, scanVars, indexVars,
          userActions, history>>

Byte == {"x", "lf"}
OperationKind == {"Attach", "Full", "Partial"}
None == "none"
LoadingStatus == {"Successful", "Interrupted", "NoMemory"}
MonitoredFileStatus == {"Unchanged", "DataAdded", "Truncated"}
Changed == "fileChanged"
GuiEvent == LoadingStatus \cup {Changed}

SizeOf(f) == IF f = NoInode THEN 0 ELSE Len(content[f])

FlagsOK ==
  /\ watched \in BOOLEAN
  /\ dirty \in BOOLEAN
  /\ interruptRequested_ \in BOOLEAN
  /\ terminate_ \in BOOLEAN

(* The types of the variables. *)
TypeOK ==
  /\ FlagsOK
  /\ content \in [Inodes -> Seq(Byte)]
  /\ named \in Inodes \cup {NoInode}
  /\ guiPc \in {"loop", "changed", "rewatch", "start", "closing", "join", "closed"}
  /\ guiQueue \in Seq(GuiEvent)
  /\ attached_file_ \in Inodes \cup {NoInode, "null"}
  /\ currentOperation_ \in OperationKind \cup {None}
  /\ nextOperation_ \in OperationKind \cup {None}
  /\ fileChangedOnDisk_ \in MonitoredFileStatus
  /\ seenSize \in Nat
  /\ signal \in LoadingStatus \cup MonitoredFileStatus \cup {None}
  /\ workerPc \in {"wait", "scan", "block", "tail", "report", "clear", "dead"}
  /\ operationRequested_ \in OperationKind \cup {None}
  /\ opFile \in Inodes \cup {NoInode}
  /\ filePos \in Nat /\ pos \in Nat /\ blockEnd \in Nat
  /\ line_positions \subseteq Nat
  /\ lines \subseteq Nat
  /\ fakeLF \in Nat /\ indexedSize_ \in Nat /\ maxLength_ \in Nat
  /\ diskChanges \in Nat /\ userActions \in Nat
  /\ history \subseteq {"missed", "cutShort", "stopped"}

(* The constructor: an empty log.  fileChangedOnDisk_ is written before it *)
(* is first read, whatever it holds here.                                  *)
Init ==
  /\ content \in [Inodes -> UNION {[1..n -> Byte] : n \in 0..MaxSize}]
  /\ named \in Inodes \cup {NoInode}
  /\ watched = FALSE /\ dirty = FALSE
  /\ guiPc = "loop" /\ guiQueue = <<>>
  /\ attached_file_ = "null"
  /\ currentOperation_ = None /\ nextOperation_ = None
  /\ fileChangedOnDisk_ \in MonitoredFileStatus
  /\ seenSize = 0 /\ signal = None
  /\ workerPc = "wait"
  /\ operationRequested_ = None
  /\ interruptRequested_ = FALSE /\ terminate_ = FALSE
  /\ opFile = NoInode /\ filePos = 0 /\ pos = 0
  /\ blockEnd = 0 /\ line_positions = {}
  /\ lines = {} /\ fakeLF = 0 /\ indexedSize_ = 0 /\ maxLength_ = 0
  /\ diskChanges = 0 /\ userActions = 0
  /\ history = {}

-----------------------------------------------------------------------------
(* The disk and the watcher.                                               *)

(* Any change to what the log's name stands for is reported to a           *)
(* registered watcher; without a registration nobody will be told of it.   *)
DiskChange ==
  /\ diskChanges < MaxDiskChanges
  /\ diskChanges' = diskChanges + 1
  /\ dirty' = (dirty \/ watched)
  /\ history' = history \cup (IF watched THEN {} ELSE {"missed"})
  /\ UNCHANGED <<watched, guiVars, flagVars, scanVars, indexVars, userActions>>

(* The program that writes the log adds to it. *)
AppendToFile ==
  /\ named # NoInode
  /\ \E b \in Byte :
       /\ Len(content[named]) < MaxSize
       /\ content' = [content EXCEPT ![named] = Append(@, b)]
  /\ UNCHANGED named
  /\ DiskChange

(* The file is emptied in place. *)
TruncateFile ==
  /\ ~AppendOnly
  /\ named # NoInode
  /\ content' = [content EXCEPT ![named] = <<>>]
  /\ UNCHANGED named
  /\ DiskChange

(* The file is moved away or removed, another one takes its name. *)
RotateFile ==
  /\ ~AppendOnly
  /\ \E f \in Inodes \cup {NoInode} : f # named /\ named' = f
  /\ UNCHANGED content
  /\ DiskChange

(* The watch tower's thread reads its events and calls the observer, which *)
(* posts fileChanged to the GUI thread.                                    *)
Notify ==
  /\ dirty
  /\ dirty' = FALSE
  /\ guiQueue' = Append(guiQueue, Changed)
  /\ UNCHANGED <<diskVars, watched, guiPc, attached_file_, currentOperation_,
                 nextOperation_, fileChangedOnDisk_, seenSize, signal,
                 flagVars, scanVars, indexVars, userActions, history>>

-----------------------------------------------------------------------------
(* LogData, in the GUI thread.                                             *)

(* Bug: the operation is started without a look at the current one. *)
enqueueOperation_NoCheck(op) ==
  currentOperation_' = op /\ guiPc' = "start" /\ UNCHANGED nextOperation_

enqueueOperation(op) ==
  IF currentOperation_ = None
    THEN /\ currentOperation_' = op
         /\ guiPc' = "start"
         /\ UNCHANGED nextOperation_
    ELSE /\ nextOperation_' = op
         /\ guiPc' = "loop"
         /\ UNCHANGED currentOperation_

attachFile ==
  /\ guiPc = "loop"
  /\ attached_file_ = "null"
  /\ attached_file_' = named
  /\ enqueueOperation("Attach")
  /\ UNCHANGED <<diskVars, watchVars, guiQueue, fileChangedOnDisk_, seenSize,
                 signal, flagVars, scanVars, indexVars, userActions, history>>

UserAction ==
  /\ guiPc = "loop"
  /\ userActions < MaxUserActions
  /\ userActions' = userActions + 1

interruptLoading ==
  /\ UserAction
  /\ interruptRequested_' = TRUE
  /\ history' = history \cup {"stopped"}
  /\ UNCHANGED <<diskVars, watchVars, guiVars, operationRequested_, terminate_,
                 scanVars, indexVars>>

reload ==
  /\ attached_file_ # "null"
  /\ UserAction
  /\ interruptRequested_' = TRUE
  /\ attached_file_' = named
  /\ enqueueOperation("Full")
  /\ UNCHANGED <<diskVars, watchVars, guiQueue, fileChangedOnDisk_, seenSize,
                 signal, operationRequested_, terminate_, scanVars, indexVars,
                 history>>

(* Bug: the flag raised for the operation before is left up. *)
startOperation_KeepFlag ==
  /\ guiPc = "start"
  /\ workerPc = "wait"
  /\ operationRequested_ = None
  /\ operationRequested_' = currentOperation_
  /\ guiPc' = "loop"
  /\ UNCHANGED <<diskVars, watchVars, guiQueue, attached_file_,
                 currentOperation_, nextOperation_, fileChangedOnDisk_,
                 seenSize, signal, interruptRequested_, terminate_, scanVars,
                 indexVars, userActions, history>>

(* startOperation(): indexAll() or indexAdditionalLines(), which take      *)
(* mutex_ and wait for operationRequested_ to be NULL.                     *)
startOperation ==
  /\ guiPc = "start"
  /\ workerPc = "wait"
  /\ operationRequested_ = None
  /\ interruptRequested_' = FALSE
  /\ operationRequested_' = currentOperation_
  /\ guiPc' = "loop"
  /\ UNCHANGED <<diskVars, watchVars, guiQueue, attached_file_,
                 currentOperation_, nextOperation_, fileChangedOnDisk_,
                 seenSize, signal, terminate_, scanVars, indexVars,
                 userActions, history>>

(* fileChangedOnDisk(), up to the read of the indexed size: the worker may *)
(* go on indexing before the size is used.                                 *)
beginFileChanged ==
  /\ guiPc = "loop"
  /\ guiQueue # <<>> /\ Head(guiQueue) = Changed
  /\ guiQueue' = Tail(guiQueue)
  /\ seenSize' = indexedSize_
  /\ guiPc' = "changed"
  /\ UNCHANGED <<diskVars, watchVars, attached_file_, currentOperation_,
                 nextOperation_, fileChangedOnDisk_, signal, flagVars,
                 scanVars, indexVars, userActions, history>>

(* The rest of it.  Where the sizes of the open file and of the one at     *)
(* that name differ the file is reopened, so real_file_size is always the  *)
(* size of the file at that name.                                          *)
reopened ==
  IF SizeOf(named) # SizeOf(attached_file_) \/ attached_file_ = NoInode
    THEN named ELSE attached_file_

endFileChanged ==
  LET real_file_size == SizeOf(named)
  IN
  /\ guiPc = "changed"
  /\ attached_file_' = reopened
  /\ \/ /\ real_file_size < seenSize
        /\ fileChangedOnDisk_' = "Truncated"
        /\ signal' = "Truncated"
        /\ enqueueOperation("Full")
        /\ UNCHANGED history
     \/ /\ real_file_size > seenSize
        /\ fileChangedOnDisk_ # "DataAdded"
        /\ fileChangedOnDisk_' = "DataAdded"
        /\ signal' = "DataAdded"
        /\ enqueueOperation("Partial")
        /\ UNCHANGED history
     \/ /\ \/ real_file_size = seenSize
           \/ real_file_size > seenSize /\ fileChangedOnDisk_ = "DataAdded"
        /\ history' = history \cup
             (IF real_file_size > seenSize THEN {"missed"} ELSE {})
        /\ guiPc' = "loop"
        /\ UNCHANGED <<fileChangedOnDisk_, signal, currentOperation_,
                       nextOperation_>>
  /\ seenSize' = 0
  /\ UNCHANGED <<diskVars, watchVars, guiQueue, flagVars, scanVars, indexVars,
                 userActions>>

(* Bugs: the next operation is dropped, is made current but not started,   *)
(* or the finished one stays current when there is no next one.            *)
finishOperation_DropNext(status) ==
  /\ fileChangedOnDisk_' = "Unchanged"
  /\ signal' = status
  /\ currentOperation_' = None /\ nextOperation_' = None
  /\ guiPc' = "loop"

finishOperation_NoStart(status) ==
  /\ fileChangedOnDisk_' = "Unchanged"
  /\ signal' = status
  /\ currentOperation_' = nextOperation_ /\ nextOperation_' = None
  /\ guiPc' = "loop"

finishOperation_NoReset(status) ==
  /\ fileChangedOnDisk_' = "Unchanged"
  /\ signal' = status
  /\ nextOperation_' = None
  /\ IF nextOperation_ = None
       THEN guiPc' = "loop" /\ UNCHANGED currentOperation_
       ELSE guiPc' = "start" /\ currentOperation_' = nextOperation_

(* The end of indexingFinished(), the same whatever the status. *)
finishOperation(status) ==
  /\ fileChangedOnDisk_' = "Unchanged"
  /\ signal' = status
  /\ currentOperation_' = nextOperation_
  /\ nextOperation_' = None
  /\ guiPc' = IF nextOperation_ = None THEN "loop" ELSE "start"

indexingFailed ==
  /\ guiPc = "loop"
  /\ guiQueue # <<>> /\ Head(guiQueue) \in {"Interrupted", "NoMemory"}
  /\ guiQueue' = Tail(guiQueue)
  /\ finishOperation(Head(guiQueue))
  /\ UNCHANGED <<diskVars, watchVars, attached_file_, seenSize, flagVars,
                 scanVars, indexVars, userActions, history>>

(* FileWatcher::addFile() drops the registration and takes a new one: in   *)
(* between nothing is watched, and what the kernel had queued for the old  *)
(* one is ignored.                                                         *)
beginIndexingSucceeded ==
  /\ guiPc = "loop"
  /\ guiQueue # <<>> /\ Head(guiQueue) = "Successful"
  /\ guiQueue' = Tail(guiQueue)
  /\ fileChangedOnDisk_' = "Unchanged"
  /\ watched' = FALSE
  /\ dirty' = FALSE
  /\ history' = history \cup (IF dirty THEN {"missed"} ELSE {})
  /\ guiPc' = "rewatch"
  /\ UNCHANGED <<diskVars, attached_file_, currentOperation_, nextOperation_,
                 seenSize, signal, flagVars, scanVars, indexVars, userActions>>

endIndexingSucceeded ==
  /\ guiPc = "rewatch"
  /\ watched' = TRUE
  /\ finishOperation("Successful")
  /\ UNCHANGED <<diskVars, dirty, guiQueue, attached_file_, seenSize, flagVars,
                 scanVars, indexVars, userActions, history>>

(* ~LogData(): the watcher forgets the file, then ~LogDataWorkerThread()   *)
(* takes mutex_ to set terminate_, and joins the thread.                   *)
close ==
  /\ guiPc = "loop"
  /\ watched' = FALSE
  /\ dirty' = FALSE
  /\ guiPc' = "closing"
  /\ UNCHANGED <<diskVars, guiQueue, attached_file_, currentOperation_,
                 nextOperation_, fileChangedOnDisk_, seenSize, signal,
                 flagVars, scanVars, indexVars, userActions, history>>

(* Bug: the worker is joined without being told to stop. *)
requestTermination_NotSet ==
  /\ guiPc = "closing"
  /\ workerPc = "wait"
  /\ guiPc' = "join"
  /\ UNCHANGED <<diskVars, watchVars, guiQueue, attached_file_,
                 currentOperation_, nextOperation_, fileChangedOnDisk_,
                 seenSize, signal, flagVars, scanVars, indexVars, userActions,
                 history>>

requestTermination ==
  /\ guiPc = "closing"
  /\ workerPc = "wait"
  /\ terminate_' = TRUE
  /\ guiPc' = "join"
  /\ UNCHANGED <<diskVars, watchVars, guiQueue, attached_file_,
                 currentOperation_, nextOperation_, fileChangedOnDisk_,
                 seenSize, signal, operationRequested_, interruptRequested_,
                 scanVars, indexVars, userActions, history>>

join ==
  /\ guiPc = "join"
  /\ workerPc = "dead"
  /\ guiPc' = "closed"
  /\ guiQueue' = <<>>
  /\ UNCHANGED <<diskVars, watchVars, attached_file_, currentOperation_,
                 nextOperation_, fileChangedOnDisk_, seenSize, signal,
                 flagVars, scanVars, indexVars, userActions, history>>

-----------------------------------------------------------------------------
(* LogDataWorkerThread.                                                    *)

(* Bug: the fake line feed stays when others are added. *)
addAll_KeepFake(size, length, linePosition, newFake) ==
  /\ indexedSize_' = indexedSize_ + size
  /\ maxLength_' = IF length > maxLength_ THEN length ELSE maxLength_
  /\ lines' = lines \cup linePosition
  /\ fakeLF' = IF newFake = 0 THEN fakeLF ELSE newFake

(* IndexingData::addAll(): the fake final LF is dropped, the new positions *)
(* are added, the last of which may be a fake one.                         *)
addAll(size, length, linePosition, newFake) ==
  /\ indexedSize_' = indexedSize_ + size
  /\ maxLength_' = IF length > maxLength_ THEN length ELSE maxLength_
  /\ lines' = lines \cup linePosition
  /\ fakeLF' = newFake

(* Bug: the indexed size is left as it was. *)
clear_KeepSize ==
  maxLength_' = 0 /\ lines' = {} /\ fakeLF' = 0 /\ UNCHANGED indexedSize_

(* IndexingData::clear() *)
clear ==
  /\ indexedSize_' = 0
  /\ maxLength_' = 0
  /\ lines' = {}
  /\ fakeLF' = 0

(* Bug: the wait of run() only looks for an operation. *)
workerTerminates_NeedsOperation ==
  /\ workerPc = "wait"
  /\ terminate_ /\ operationRequested_ # None
  /\ workerPc' = "dead"
  /\ UNCHANGED <<diskVars, watchVars, guiVars, flagVars, opFile, filePos, pos,
                 blockVars, indexVars, userActions, history>>

workerTerminates ==
  /\ workerPc = "wait"
  /\ terminate_
  /\ workerPc' = "dead"
  /\ UNCHANGED <<diskVars, watchVars, guiVars, flagVars, opFile, filePos, pos,
                 blockVars, indexVars, userActions, history>>

(* FullIndexOperation::start() and PartialIndexOperation::start(), up to   *)
(* the first look at the file; a file that cannot be opened counts as an   *)
(* empty one.                                                              *)
beginOperation(initialPosition) ==
  /\ workerPc = "wait"
  /\ ~terminate_
  /\ opFile' = named
  /\ filePos' = initialPosition
  /\ pos' = initialPosition
  /\ blockEnd' = initialPosition /\ line_positions' = {}
  /\ workerPc' = IF named = NoInode THEN "report" ELSE "scan"
  /\ UNCHANGED <<diskVars, watchVars, guiVars, flagVars, userActions>>

(* Bugs: the index is not emptied first; the last byte is read again, even *)
(* when there is none.                                                     *)
startFull_NoClear ==
  /\ operationRequested_ \in {"Attach", "Full"}
  /\ beginOperation(0)
  /\ history' = history \ {"missed", "cutShort"}
  /\ UNCHANGED indexVars

startPartial_OneBack ==
  /\ operationRequested_ = "Partial"
  /\ beginOperation(indexedSize_ - 1)
  /\ history' = history \ {"missed"}
  /\ UNCHANGED indexVars

startFull ==
  /\ operationRequested_ \in {"Attach", "Full"}
  /\ beginOperation(0)
  /\ history' = history \ {"missed", "cutShort"}
  /\ clear

startPartial ==
  /\ operationRequested_ = "Partial"
  /\ beginOperation(indexedSize_)
  /\ history' = history \ {"missed"}
  /\ UNCHANGED indexVars

atEnd == filePos >= SizeOf(opFile)

(* The lengths of the lines that end in the block, the first of which      *)
(* starts at pos.                                                          *)
lineLengths ==
  {ps[1] - 1 - ps[2] : ps \in
     {ps \in line_positions \X (line_positions \cup {pos}) :
        /\ ps[2] < ps[1]
        /\ \A q \in line_positions : q <= ps[2] \/ ps[1] <= q}}

(* One turn of the loop of doIndex(): a look at the interruption flag and  *)
(* the read of a block, of which the line feeds are kept ...               *)
readBlock ==
  /\ workerPc = "scan"
  /\ ~atEnd
  /\ ~interruptRequested_
  /\ blockEnd' = IF filePos + ChunkSize < SizeOf(opFile)
                   THEN filePos + ChunkSize ELSE SizeOf(opFile)
  /\ line_positions' = {p \in filePos + 1 .. blockEnd' : content[opFile][p] = "lf"}
  /\ workerPc' = "block"
  /\ UNCHANGED <<diskVars, watchVars, guiVars, flagVars, opFile, filePos, pos,
                 indexVars, userActions, history>>

(* ... then the update of the shared index. *)
indexBlock ==
  /\ workerPc = "block"
  /\ \E max_length \in lineLengths \cup {0} :
       /\ \A l \in lineLengths : l <= max_length
       /\ addAll(blockEnd - filePos, max_length, line_positions, 0)
  /\ \/ line_positions = {} /\ pos' = pos
     \/ \E p \in line_positions : (\A q \in line_positions : q <= p) /\ pos' = p
  /\ filePos' = blockEnd
  /\ line_positions' = {}
  /\ workerPc' = "scan"
  /\ UNCHANGED <<diskVars, watchVars, guiVars, flagVars, opFile, blockEnd,
                 userActions, history>>

endOfLoop ==
  /\ workerPc = "scan"
  /\ atEnd \/ interruptRequested_
  /\ workerPc' = "tail"
  /\ UNCHANGED <<diskVars, watchVars, guiVars, flagVars, opFile, filePos, pos,
                 blockVars, indexVars, userActions, history>>

(* "Check if there is a non LF terminated line at the end of the file":    *)
(* the size is read again, the file may have grown since the loop ended.   *)
addFakeFinalLF ==
  /\ workerPc = "tail"
  /\ IF ~interruptRequested_ /\ SizeOf(opFile) > pos
       THEN addAll(0, 0, {}, SizeOf(opFile) + 1)
       ELSE UNCHANGED indexVars
  /\ workerPc' = "report"
  /\ UNCHANGED <<diskVars, watchVars, guiVars, flagVars, opFile, filePos, pos,
                 blockVars, userActions, history>>

emitFinished(status) ==
  /\ guiQueue' = Append(guiQueue, status)
  /\ history' = history \cup (IF status = "Successful" THEN {} ELSE {"cutShort"})
  /\ workerPc' = "clear"
  /\ UNCHANGED <<diskVars, watchVars, guiPc, attached_file_, currentOperation_,
                 nextOperation_, fileChangedOnDisk_, seenSize, signal,
                 flagVars, opFile, filePos, pos, blockVars, indexVars, userActions>>

reportStatus ==
  /\ workerPc = "report"
  /\ emitFinished(IF interruptRequested_ THEN "Interrupted" ELSE "Successful")

(* bad_alloc, which may come from any allocation made for the index. *)
runOutOfMemory ==
  /\ MemoryFailures
  /\ workerPc \in {"scan", "block", "tail"}
  /\ emitFinished("NoMemory")

clearOperation ==
  /\ workerPc = "clear"
  /\ operationRequested_' = None
  /\ workerPc' = "wait"
  /\ UNCHANGED <<diskVars, watchVars, guiVars, interruptRequested_, terminate_,
                 opFile, filePos, pos, blockVars, indexVars, userActions, history>>

-----------------------------------------------------------------------------
Disk == AppendToFile \/ TruncateFile \/ RotateFile

User == attachFile \/ interruptLoading \/ reload \/ close

Gui ==
  \/ startOperation
  \/ beginFileChanged \/ endFileChanged
  \/ indexingFailed \/ beginIndexingSucceeded \/ endIndexingSucceeded
  \/ requestTermination \/ join

Worker ==
  \/ workerTerminates
  \/ startFull \/ startPartial
  \/ readBlock \/ indexBlock \/ endOfLoop \/ addFakeFinalLF
  \/ reportStatus \/ runOutOfMemory \/ clearOperation

Next == Disk \/ Notify \/ User \/ Gui \/ Worker

(* The threads run: the GUI's event loop, the worker and the watch tower.  *)
(* Nothing obliges the user, or the program that writes the log, to act.   *)
Fairness == WF_vars(Gui) /\ WF_vars(Worker) /\ WF_vars(Notify)

Spec == Init /\ [][Next]_vars

FairSpec == Spec /\ Fairness

-----------------------------------------------------------------------------
(* What the loading promises.                                              *)

(* Where the operation LogData believes to be current actually is.         *)
FinishedEvents == {i \in DOMAIN guiQueue : guiQueue[i] \in LoadingStatus}
Running == operationRequested_ # None /\ workerPc # "clear"

(* The slots of LogData, the request of the worker and the event queue     *)
(* agree: there is a current operation exactly while one is about to be    *)
(* handed over, is with the worker, or has its indexingFinished still to   *)
(* be handled, and these exclude each other.  This is what the             *)
(* assert( currentOperation_ ) of indexingFinished() relies on, and why    *)
(* one slot for the next operation is enough.                              *)
OperationTracked ==
  /\ nextOperation_ # None => currentOperation_ # None
  /\ guiPc = "start" => currentOperation_ # None /\ FinishedEvents = {} /\ ~Running
  /\ Running => currentOperation_ # None /\ FinishedEvents = {}
  /\ FinishedEvents # {} => currentOperation_ # None
  /\ \A i, j \in FinishedEvents : i = j
  /\ guiPc = "rewatch" => /\ currentOperation_ # None
                          /\ FinishedEvents = {}
                          /\ ~Running
  /\ currentOperation_ # None =>
       \/ guiPc \in {"start", "rewatch", "closed"}
       \/ Running
       \/ FinishedEvents # {}

(* indexAll() and indexAdditionalLines() block the GUI thread until the    *)
(* worker is free ("If an operation is ongoing, we will block").  They are *)
(* only ever called when the worker has nothing left to index: the window  *)
(* does not freeze for the time of an indexing.                            *)
StartNeverWaitsForIndexing ==
  guiPc = "start" => workerPc \in {"wait", "clear"} /\ ~terminate_

(* "All pos in other must be greater than any pos in this (this is NOT     *)
(* checked!)", says LinePosition::append_list(): it is the callers' to     *)
(* ensure, whatever happens to the file while it is read.                  *)
PositionsIncrease ==
  [][\A n \in lines' \ lines : \A p \in lines \cap lines' : p < n]_vars

(* The fake line feed, of a last line that has none, is past all others.   *)
FakeLFIsLast == fakeLF # 0 => \A p \in lines : p < fakeLF

(* While the log only grows, the lines shown are those of the part of it   *)
(* that was indexed: chunks, operations resumed in the middle of a line,   *)
(* interruptions, failures and reloads neither lose a line feed nor make   *)
(* one up.                                                                 *)
LineFeeds(f, n) == {p \in 1..n : content[f][p] = "lf"}
IndexedPrefix ==
  indexedSize_ # 0 =>
    /\ named # NoInode
    /\ indexedSize_ <= Len(content[named])
    /\ lines = LineFeeds(named, indexedSize_)

(* Nothing is going on, and nothing is waiting to. *)
Quiescent ==
  guiPc = "loop" /\ guiQueue = <<>> /\ currentOperation_ = None /\ ~dirty

(* The last loading succeeded, all is quiet and no change went by in the   *)
(* windows where no notification tells of it: then all of the log is       *)
(* indexed, whatever was interrupted, or ran out of memory, on the way.    *)
QuietMeansUpToDate ==
  Quiescent /\ signal = "Successful" /\ "missed" \notin history
    => indexedSize_ = SizeOf(named)

(* ... and if no operation on this index was cut short, the line still     *)
(* being written is shown as well, ended by a fake line feed, which a      *)
(* finished one never has.                                                 *)
LastLineIsFake ==
  IF SizeOf(named) # 0 /\ content[named][SizeOf(named)] # "lf"
    THEN fakeLF = SizeOf(named) + 1
    ELSE fakeLF = 0
QuietMeansLastLineShown ==
  Quiescent /\ signal = "Successful" /\ {"missed", "cutShort"} \cap history = {}
    => LastLineIsFake

(* As long as interruptLoading() is not called, an operation that is cut   *)
(* short has another one behind it: the flag reload() raises stops what    *)
(* runs now, never what it asks for itself, so a reload leaves no partial  *)
(* index as the final word.                                                *)
CutShortMeansReplaced ==
  "stopped" \notin history =>
  /\ Running /\ interruptRequested_ => nextOperation_ # None
  /\ \A i \in FinishedEvents : guiQueue[i] = "Interrupted" => nextOperation_ # None

(* "Sent when the file on disk has changed, will be followed by            *)
(* loadingProgressed if needed and then a loadingFinished" (fileChanged),  *)
(* unless the log is closed first.                                         *)
FileChangedThenFinished ==
  signal \in MonitoredFileStatus ~> signal \in LoadingStatus \/ guiPc = "closed"

(* Whatever is under way, closing a log ends: the worker's thread stops    *)
(* and is joined.                                                          *)
ClosingEnds == guiPc = "closing" ~> guiPc = "closed"

(* The GUI thread always comes back to its event loop. *)
GuiResponds == guiPc # "loop" ~> guiPc \in {"loop", "closed"}

-----------------------------------------------------------------------------
(* The inductive invariants the proofs rest on.                            *)

(* Control: what OperationTracked and StartNeverWaitsForIndexing need to   *)
(* know of the worker and of the end of the GUI thread.                    *)
ControlInv ==
  /\ OperationTracked
  /\ Running => guiPc \notin {"start", "rewatch"}
  /\ workerPc \in {"scan", "block", "tail", "report", "clear"} =>
       operationRequested_ # None
  /\ workerPc \in {"scan", "block", "tail", "report", "clear"} => ~terminate_
  /\ workerPc = "dead" => terminate_
  /\ terminate_ => guiPc \in {"join", "closed"}

(* Positions: what is read is past what was read before. *)
PositionInv ==
  /\ FakeLFIsLast
  /\ lines \subseteq 1..indexedSize_
  /\ workerPc \in {"scan", "block", "tail"} =>
       /\ filePos = indexedSize_
       /\ pos <= filePos
       /\ \A p \in lines : p <= pos
  /\ workerPc = "block" =>
       /\ filePos <= blockEnd
       /\ line_positions \subseteq filePos + 1 .. blockEnd

(* Growth: while the log only grows, the worker reads the file at that     *)
(* name, and what it has in hand is still what the file holds there.       *)
GrowthInv ==
  /\ named = NoInode => indexedSize_ = 0
  /\ indexedSize_ <= SizeOf(named)
  /\ indexedSize_ # 0 => lines = LineFeeds(named, indexedSize_)
  /\ workerPc \in {"scan", "block", "tail"} => opFile = named /\ named # NoInode
  /\ workerPc = "block" =>
       /\ blockEnd <= SizeOf(named)
       /\ line_positions =
            {p \in filePos + 1 .. blockEnd : content[named][p] = "lf"}

(* Up to date: what is not indexed is about to be, or was announced, or    *)
(* was left by an operation that did not succeed.                          *)
Posted(events) == \E i \in DOMAIN guiQueue : guiQueue[i] \in events
Coming ==
  \/ guiPc = "start" \/ nextOperation_ # None
  \/ operationRequested_ # None /\ workerPc \in {"wait", "scan", "block"}
Told ==
  \/ dirty
  \/ Posted({Changed})
  \/ guiPc = "changed" /\ seenSize < SizeOf(named)
Failing ==
  \/ workerPc \in {"tail", "report"} /\ interruptRequested_
  \/ Posted({"Interrupted", "NoMemory"})
  \/ currentOperation_ = None /\ signal # "Successful"
Closing == guiPc \in {"closing", "join", "closed"}
UpToDateInv ==
  /\ seenSize <= SizeOf(named)
  /\ indexedSize_ # SizeOf(named) /\ "missed" \notin history =>
       Coming \/ Told \/ Failing \/ Closing

(* The last line: unless an operation was cut short, the fake line feed is *)
(* that of the bytes indexed, or past bytes that came meanwhile and are    *)
(* still to be read; or the worker is within a line, and will add it.      *)
FakeLFRight ==
  LET n == indexedSize_
  IN  \/ n < SizeOf(named) /\ fakeLF > n + 1
      \/ IF n # 0 /\ n \notin lines THEN fakeLF = n + 1 ELSE fakeLF = 0
LastLineInv ==
  /\ workerPc = "block" => filePos < blockEnd
  /\ "cutShort" \notin history =>
       \/ FakeLFRight
       \/ workerPc \in {"scan", "block", "tail"} /\ pos < filePos /\ fakeLF = 0
       \/ workerPc = "report" /\ interruptRequested_

-----------------------------------------------------------------------------
(* What the documentation says, and the code does not do.                  *)

(* "The log is automatically updated when it grows" (documentation): what  *)
(* was added to a watched log ends up indexed.                             *)
GrowthIsShown == watched ~> indexedSize_ = SizeOf(named) \/ guiPc = "closed"
=============================================================================
