---------------------------- MODULE LogDataProofs ----------------------------
(* What holds of LogData for every size of block, file and queue.          *)
EXTENDS LogData, TLAPS, SequenceTheorems

(* A block ends where it begins, or after.  Without it the indexed size    *)
(* could not be seen to be a natural number.                               *)
BlockOrdered == workerPc = "block" => filePos <= blockEnd
TypeInv == TypeOK /\ BlockOrdered

LEMMA SizeType == ASSUME TypeOK, NEW f \in Inodes \cup {NoInode}
                  PROVE  SizeOf(f) \in Nat
  BY ConstantsAssumption DEF TypeOK, SizeOf

LEMMA FlagsStep == FlagsOK /\ [Next]_vars => FlagsOK'
<1> SUFFICES ASSUME FlagsOK, [Next]_vars PROVE FlagsOK'
  OBVIOUS
<1> USE DEF FlagsOK, diskVars, watchVars, guiVars, flagVars, scanVars,
      blockVars, indexVars
<1>1. CASE Disk \/ Notify
  BY <1>1 DEF Disk, AppendToFile, TruncateFile, RotateFile, DiskChange, Notify
<1>2. CASE User
  BY <1>2 DEF User, attachFile, interruptLoading, reload, close, UserAction
<1>3. CASE Gui
  BY <1>3 DEF Gui, startOperation, beginFileChanged, endFileChanged,
     indexingFailed, beginIndexingSucceeded, endIndexingSucceeded,
     requestTermination, join
<1>4. CASE Worker
  BY <1>4 DEF Worker, workerTerminates, startFull, startPartial,
     beginOperation, readBlock, indexBlock, endOfLoop, addFakeFinalLF,
     reportStatus, runOutOfMemory, emitFinished, clearOperation
<1>5. CASE UNCHANGED vars
  BY <1>5 DEF vars
<1> QED
  BY <1>1, <1>2, <1>3, <1>4, <1>5 DEF Next

LEMMA TypeInit == Init => TypeInv
<1> SUFFICES ASSUME Init PROVE TypeInv
  OBVIOUS
<1>1. content \in [Inodes -> Seq(Byte)]
  BY DEF Init
<1>2. FlagsOK
  BY DEF Init, FlagsOK
<1> QED
  BY <1>1, <1>2 DEF Init, TypeInv, TypeOK, BlockOrdered, None, MonitoredFileStatus,
              OperationKind

LEMMA TypeStep == TypeInv /\ [Next]_vars => TypeInv'
<1> SUFFICES ASSUME TypeInv, [Next]_vars PROVE TypeInv'
  OBVIOUS
<1>0. FlagsOK'
  BY FlagsStep DEF TypeInv, TypeOK
<1> USE <1>0, ConstantsAssumption DEF TypeInv, TypeOK, BlockOrdered, diskVars,
      watchVars, guiVars, flagVars, scanVars, blockVars, indexVars
<1>1. CASE AppendToFile
  BY <1>1 DEF AppendToFile, DiskChange
<1>2. CASE TruncateFile
  BY <1>2 DEF TruncateFile, DiskChange
<1>3. CASE RotateFile
  BY <1>3 DEF RotateFile, DiskChange
<1>4. CASE Notify
  BY <1>4 DEF Notify, GuiEvent, Changed
<1>5. CASE attachFile
  BY <1>5 DEF attachFile, enqueueOperation, OperationKind
<1>6. CASE interruptLoading
  BY <1>6 DEF interruptLoading, UserAction
<1>7. CASE reload
  BY <1>7 DEF reload, UserAction, enqueueOperation, OperationKind
<1>8. CASE close
  BY <1>8 DEF close
<1>9. CASE startOperation
  BY <1>9 DEF startOperation
<1>10. CASE beginFileChanged
  BY <1>10 DEF beginFileChanged
<1>11. CASE endFileChanged
  <2>1. history' \subseteq {"missed", "cutShort", "stopped"}
    BY <1>11 DEF endFileChanged
  <2> QED
    BY <1>11, <2>1 DEF endFileChanged, reopened, enqueueOperation,
                       OperationKind, MonitoredFileStatus
<1>12. CASE indexingFailed
  BY <1>12 DEF indexingFailed, finishOperation, MonitoredFileStatus,
               LoadingStatus
<1>13. CASE beginIndexingSucceeded
  BY <1>13 DEF beginIndexingSucceeded, MonitoredFileStatus
<1>14. CASE endIndexingSucceeded
  BY <1>14 DEF endIndexingSucceeded, finishOperation, MonitoredFileStatus,
               LoadingStatus, None
<1>15. CASE requestTermination
  BY <1>15 DEF requestTermination
<1>16. CASE join
  BY <1>16 DEF join
<1>17. CASE workerTerminates
  BY <1>17 DEF workerTerminates
<1>18. CASE startFull
  BY <1>18 DEF startFull, beginOperation, clear
<1>19. CASE startPartial
  BY <1>19 DEF startPartial, beginOperation
<1>20. CASE readBlock
  BY <1>20, SizeType DEF readBlock, atEnd
<1>21. CASE indexBlock
  <2>1. lineLengths \subseteq Nat
    <3> SUFFICES ASSUME NEW ps \in line_positions \X (line_positions \cup {pos}),
                        ps[2] < ps[1]
                 PROVE  ps[1] - 1 - ps[2] \in Nat
      BY DEF lineLengths
    <3>1. ps[1] \in Nat /\ ps[2] \in Nat
      OBVIOUS
    <3> QED
      BY <3>1
  <2>2. blockEnd - filePos \in Nat
    BY <1>21 DEF indexBlock
  <2> QED
    BY <1>21, <2>1, <2>2 DEF indexBlock, addAll
<1>22. CASE endOfLoop
  BY <1>22 DEF endOfLoop
<1>23. CASE addFakeFinalLF
  <2>1. SizeOf(opFile) \in Nat
    BY SizeType
  <2>2. /\ lines' \subseteq Nat
        /\ fakeLF' \in Nat /\ indexedSize_' \in Nat /\ maxLength_' \in Nat
    <3>1. CASE UNCHANGED indexVars
      BY <3>1
    <3>2. CASE addAll(0, 0, {}, SizeOf(opFile) + 1)
      BY <2>1, <3>2 DEF addAll
    <3> QED
      BY <1>23, <3>1, <3>2 DEF addFakeFinalLF
  <2> QED
    BY <1>23, <2>2 DEF addFakeFinalLF
<1>24. CASE reportStatus
  BY <1>24 DEF reportStatus, emitFinished, GuiEvent, LoadingStatus
<1>25. CASE runOutOfMemory
  BY <1>25 DEF runOutOfMemory, emitFinished, GuiEvent, LoadingStatus
<1>26. CASE clearOperation
  BY <1>26 DEF clearOperation
<1>27. CASE UNCHANGED vars
  BY <1>27 DEF vars
<1> QED
  BY <1>1, <1>2, <1>3, <1>4, <1>5, <1>6, <1>7, <1>8, <1>9, <1>10, <1>11,
     <1>12, <1>13, <1>14, <1>15, <1>16, <1>17, <1>18, <1>19, <1>20, <1>21,
     <1>22, <1>23, <1>24, <1>25, <1>26, <1>27
  DEF Next, Disk, User, Gui, Worker

(* Every variable keeps to its type: positions and sizes never go below    *)
(* zero, the event queue holds events only.                                *)
THEOREM TypeCorrect == Spec => []TypeOK
<1>1. TypeInv => TypeOK
  BY DEF TypeInv
<1> QED
  BY <1>1, TypeInit, TypeStep, PTL DEF Spec

-----------------------------------------------------------------------------
(* The event queue.                                                        *)

LEMMA EventsKept == ASSUME guiQueue' = guiQueue
                    PROVE  FinishedEvents' = FinishedEvents
  BY DEF FinishedEvents

LEMMA ChangePosted ==
  ASSUME TypeOK, guiQueue' = Append(guiQueue, Changed)
  PROVE  FinishedEvents' = FinishedEvents
<1>1. guiQueue \in Seq(GuiEvent) /\ Changed \notin LoadingStatus
  BY DEF TypeOK, Changed, LoadingStatus
<1> QED
  BY <1>1 DEF FinishedEvents

LEMMA FinishPosted ==
  ASSUME TypeOK, NEW s \in LoadingStatus, guiQueue' = Append(guiQueue, s)
  PROVE  FinishedEvents' = FinishedEvents \cup {Len(guiQueue) + 1}
<1>1. guiQueue \in Seq(GuiEvent)
  BY DEF TypeOK
<1> QED
  BY <1>1 DEF FinishedEvents

LEMMA EventTaken ==
  ASSUME TypeOK, guiQueue # <<>>, guiQueue' = Tail(guiQueue)
  PROVE  /\ \A i \in FinishedEvents' : i + 1 \in FinishedEvents
         /\ \A i \in FinishedEvents : i # 1 => i - 1 \in FinishedEvents'
         /\ Head(guiQueue) \in LoadingStatus => 1 \in FinishedEvents
         /\ Head(guiQueue) \notin LoadingStatus => 1 \notin FinishedEvents
         /\ FinishedEvents' \subseteq Nat \ {0}
         /\ FinishedEvents \subseteq Nat \ {0}
<1>1. guiQueue \in Seq(GuiEvent) /\ Len(guiQueue) \in Nat \ {0}
  BY DEF TypeOK
<1>2. /\ Len(Tail(guiQueue)) = Len(guiQueue) - 1
      /\ \A i \in 1 .. Len(guiQueue) - 1 : Tail(guiQueue)[i] = guiQueue[i + 1]
      /\ Head(guiQueue) = guiQueue[1]
      /\ DOMAIN guiQueue = 1 .. Len(guiQueue)
      /\ DOMAIN Tail(guiQueue) = 1 .. Len(guiQueue) - 1
  BY <1>1
<1> QED
  BY <1>1, <1>2 DEF FinishedEvents

LEMMA ChangeTaken ==
  ASSUME TypeOK, guiQueue # <<>>, Head(guiQueue) = Changed,
         guiQueue' = Tail(guiQueue)
  PROVE  /\ FinishedEvents = {} <=> FinishedEvents' = {}
         /\ (\A i, j \in FinishedEvents : i = j) =>
              (\A i, j \in FinishedEvents' : i = j)
<1>1. Head(guiQueue) \notin LoadingStatus
  BY DEF Changed, LoadingStatus
<1> QED
  BY <1>1, EventTaken

LEMMA FinishTaken ==
  ASSUME TypeOK, guiQueue # <<>>, Head(guiQueue) \in LoadingStatus,
         guiQueue' = Tail(guiQueue), \A i, j \in FinishedEvents : i = j
  PROVE  FinishedEvents # {} /\ FinishedEvents' = {}
  BY EventTaken

-----------------------------------------------------------------------------
(* Control.                                                                *)

LEMMA ControlInit == Init => ControlInv
  BY DEF Init, ControlInv, OperationTracked, Running, FinishedEvents, None

LEMMA ControlStep == TypeOK /\ ControlInv /\ [Next]_vars => ControlInv'
<1> SUFFICES ASSUME TypeOK, ControlInv, [Next]_vars PROVE ControlInv'
  OBVIOUS
<1> USE DEF ControlInv, OperationTracked, Running, diskVars, watchVars,
      guiVars, flagVars, scanVars, blockVars, indexVars, None
<1>1. CASE Disk
  <2>1. UNCHANGED <<guiVars, flagVars, scanVars>>
    BY <1>1 DEF Disk, AppendToFile, TruncateFile, RotateFile, DiskChange
  <2> QED
    BY <2>1, EventsKept
<1>2. CASE Notify
  BY <1>2, ChangePosted DEF Notify
<1>3. CASE attachFile
  BY <1>3, EventsKept DEF attachFile, enqueueOperation
<1>4. CASE interruptLoading
  BY <1>4, EventsKept DEF interruptLoading, UserAction
<1>5. CASE reload
  BY <1>5, EventsKept DEF reload, UserAction, enqueueOperation
<1>6. CASE close
  BY <1>6, EventsKept DEF close
<1>7. CASE startOperation
  BY <1>7, EventsKept DEF startOperation
<1>8. CASE beginFileChanged
  BY <1>8, ChangeTaken DEF beginFileChanged
<1>9. CASE endFileChanged
  BY <1>9, EventsKept DEF endFileChanged, enqueueOperation
<1>10. CASE indexingFailed
  <2>1. FinishedEvents # {} /\ FinishedEvents' = {}
    BY <1>10, FinishTaken DEF indexingFailed, LoadingStatus
  <2> QED
    BY <1>10, <2>1 DEF indexingFailed, finishOperation
<1>11. CASE beginIndexingSucceeded
  <2>1. FinishedEvents # {} /\ FinishedEvents' = {}
    BY <1>11, FinishTaken DEF beginIndexingSucceeded, LoadingStatus
  <2> QED
    BY <1>11, <2>1 DEF beginIndexingSucceeded
<1>12. CASE endIndexingSucceeded
  BY <1>12, EventsKept DEF endIndexingSucceeded, finishOperation
<1>13. CASE requestTermination
  BY <1>13, EventsKept DEF requestTermination
<1>14. CASE join
  <2>1. FinishedEvents' = {}
    BY <1>14 DEF join, FinishedEvents
  <2> QED
    BY <1>14, <2>1 DEF join
<1>15. CASE workerTerminates
  BY <1>15, EventsKept DEF workerTerminates
<1>16. CASE startFull \/ startPartial
  BY <1>16, EventsKept DEF startFull, startPartial, beginOperation
<1>17. CASE readBlock \/ indexBlock \/ endOfLoop \/ addFakeFinalLF
  BY <1>17, EventsKept DEF readBlock, indexBlock, endOfLoop, addFakeFinalLF
<1>18. CASE reportStatus \/ runOutOfMemory
  <2>1. PICK s \in LoadingStatus : emitFinished(s)
    BY <1>18 DEF reportStatus, runOutOfMemory, LoadingStatus
  <2>2. FinishedEvents' = FinishedEvents \cup {Len(guiQueue) + 1}
    BY <2>1, FinishPosted DEF emitFinished
  <2>3. workerPc \in {"scan", "block", "tail", "report"}
    BY <1>18 DEF reportStatus, runOutOfMemory
  <2> QED
    BY <2>1, <2>2, <2>3 DEF emitFinished
<1>19. CASE clearOperation
  BY <1>19, EventsKept DEF clearOperation
<1>20. CASE UNCHANGED vars
  BY <1>20, EventsKept DEF vars
<1> QED
  BY <1>1, <1>2, <1>3, <1>4, <1>5, <1>6, <1>7, <1>8, <1>9, <1>10, <1>11,
     <1>12, <1>13, <1>14, <1>15, <1>16, <1>17, <1>18, <1>19, <1>20
  DEF Next, User, Gui, Worker

(* The slots of LogData, the worker's request and pc, and the event queue  *)
(* keep the relations that make the hand-over of operations safe.          *)
THEOREM ControlCorrect == Spec => []ControlInv
  BY ControlInit, ControlStep, TypeCorrect, PTL DEF Spec

(* assert( currentOperation_ ) in indexingFinished() never fails, and one  *)
(* slot each for the current and the next operation, one request and one   *)
(* event is all there ever is, however long the queue.                     *)
THEOREM OperationsTracked == Spec => []OperationTracked
<1>1. ControlInv => OperationTracked
  BY DEF ControlInv
<1> QED
  BY <1>1, ControlCorrect, PTL

(* The GUI thread never blocks for as long as an indexing takes. *)
THEOREM WindowNeverFreezes == Spec => []StartNeverWaitsForIndexing
<1>1. TypeOK /\ ControlInv => StartNeverWaitsForIndexing
  BY DEF TypeOK, ControlInv, OperationTracked, Running,
         StartNeverWaitsForIndexing
<1> QED
  BY <1>1, TypeCorrect, ControlCorrect, PTL

(* An operation is cut short by reload() only when another waits behind it *)
(* (the interruption flag raised by reload() is down again when that one   *)
(* starts), until interruptLoading() is called.                            *)
CutShortInv == ControlInv /\ CutShortMeansReplaced

LEMMA StopIsRemembered == [Next]_vars /\ "stopped" \in history => "stopped" \in history'
<1> SUFFICES ASSUME [Next]_vars, "stopped" \in history PROVE "stopped" \in history'
  OBVIOUS
<1>1. CASE Disk \/ Notify
  BY <1>1 DEF Disk, AppendToFile, TruncateFile, RotateFile, DiskChange, Notify
<1>2. CASE User
  BY <1>2 DEF User, attachFile, interruptLoading, reload, close
<1>3. CASE Gui
  BY <1>3 DEF Gui, startOperation, beginFileChanged, endFileChanged,
     indexingFailed, beginIndexingSucceeded, endIndexingSucceeded,
     requestTermination, join
<1>4. CASE Worker
  BY <1>4 DEF Worker, workerTerminates, startFull, startPartial, readBlock,
     indexBlock, endOfLoop, addFakeFinalLF, reportStatus, runOutOfMemory,
     emitFinished, clearOperation
<1>5. CASE UNCHANGED vars
  BY <1>5 DEF vars
<1> QED
  BY <1>1, <1>2, <1>3, <1>4, <1>5 DEF Next

LEMMA CutShortStep ==
  TypeOK /\ CutShortInv /\ ControlInv' /\ [Next]_vars => CutShortInv'
<1> SUFFICES ASSUME TypeOK, CutShortInv, ControlInv', [Next]_vars,
                    "stopped" \notin history'
             PROVE  CutShortMeansReplaced'
  BY DEF CutShortInv, CutShortMeansReplaced
<1>0. "stopped" \notin history
  BY StopIsRemembered
<1> USE <1>0 DEF CutShortInv, CutShortMeansReplaced, ControlInv, OperationTracked,
      Running, diskVars, watchVars, guiVars, flagVars, scanVars, blockVars,
      indexVars, None
<1>1. CASE Disk
  <2>1. UNCHANGED <<guiVars, flagVars, scanVars>>
    BY <1>1 DEF Disk, AppendToFile, TruncateFile, RotateFile, DiskChange
  <2> QED
    BY <2>1, EventsKept
<1>2. CASE Notify
  <2>1. \A i \in FinishedEvents : guiQueue'[i] = guiQueue[i]
    BY <1>2 DEF Notify, FinishedEvents, TypeOK
  <2> QED
    BY <1>2, <2>1, ChangePosted DEF Notify
<1>3. CASE attachFile
  BY <1>3, EventsKept DEF attachFile, enqueueOperation
<1>4. CASE interruptLoading
  BY <1>4 DEF interruptLoading
<1>5. CASE reload
  BY <1>5, EventsKept DEF reload, UserAction, enqueueOperation, OperationKind
<1>6. CASE close
  BY <1>6, EventsKept DEF close
<1>7. CASE startOperation
  BY <1>7, EventsKept DEF startOperation
<1>8. CASE beginFileChanged
  <2>1. ASSUME NEW i \in FinishedEvents', guiQueue'[i] = "Interrupted"
        PROVE  nextOperation_ # None
    <3>1. i + 1 \in FinishedEvents
      BY <1>8, <2>1, EventTaken DEF beginFileChanged
    <3>2. guiQueue'[i] = guiQueue[i + 1]
      BY <1>8, <2>1 DEF beginFileChanged, FinishedEvents, TypeOK
    <3> QED
      BY <2>1, <3>1, <3>2
  <2> QED
    BY <1>8, <2>1 DEF beginFileChanged
<1>9. CASE endFileChanged
  BY <1>9, EventsKept DEF endFileChanged, enqueueOperation
<1>10. CASE indexingFailed
  <2>1. FinishedEvents # {} /\ FinishedEvents' = {}
    BY <1>10, FinishTaken DEF indexingFailed, LoadingStatus
  <2> QED
    BY <1>10, <2>1 DEF indexingFailed, finishOperation
<1>11. CASE beginIndexingSucceeded
  <2>1. FinishedEvents # {} /\ FinishedEvents' = {}
    BY <1>11, FinishTaken DEF beginIndexingSucceeded, LoadingStatus
  <2> QED
    BY <1>11, <2>1 DEF beginIndexingSucceeded
<1>12. CASE endIndexingSucceeded
  BY <1>12, EventsKept DEF endIndexingSucceeded, finishOperation
<1>13. CASE requestTermination
  BY <1>13, EventsKept DEF requestTermination
<1>14. CASE join
  <2>1. FinishedEvents' = {}
    BY <1>14 DEF join, FinishedEvents
  <2> QED
    BY <1>14, <2>1 DEF join
<1>15. CASE workerTerminates
  BY <1>15, EventsKept DEF workerTerminates
<1>16. CASE startFull \/ startPartial
  BY <1>16, EventsKept DEF startFull, startPartial, beginOperation
<1>17. CASE readBlock \/ indexBlock \/ endOfLoop \/ addFakeFinalLF
  BY <1>17, EventsKept DEF readBlock, indexBlock, endOfLoop, addFakeFinalLF
<1>18. CASE reportStatus \/ runOutOfMemory
  <2>1. PICK s \in LoadingStatus :
           emitFinished(s) /\ (s = "Interrupted" => interruptRequested_)
    <3>1. CASE reportStatus
      <4>1. CASE interruptRequested_
        BY <3>1, <4>1 DEF reportStatus, LoadingStatus
      <4>2. CASE ~interruptRequested_
        BY <3>1, <4>2 DEF reportStatus, LoadingStatus
      <4> QED
        BY <4>1, <4>2
    <3>2. CASE runOutOfMemory
      BY <3>2 DEF runOutOfMemory, LoadingStatus
    <3> QED
      BY <1>18, <3>1, <3>2
  <2>2. /\ FinishedEvents' = FinishedEvents \cup {Len(guiQueue) + 1}
        /\ guiQueue'[Len(guiQueue) + 1] = s
        /\ \A i \in FinishedEvents : guiQueue'[i] = guiQueue[i]
    BY <2>1, FinishPosted DEF emitFinished, FinishedEvents, TypeOK
  <2>3. workerPc \in {"scan", "block", "tail", "report"}
    BY <1>18 DEF reportStatus, runOutOfMemory
  <2>4. s = "Interrupted" => nextOperation_ # None
    BY <2>1, <2>3
  <2> QED
    BY <2>1, <2>2, <2>3, <2>4 DEF emitFinished
<1>19. CASE clearOperation
  BY <1>19, EventsKept DEF clearOperation
<1>20. CASE UNCHANGED vars
  BY <1>20, EventsKept DEF vars
<1> QED
  BY <1>1, <1>2, <1>3, <1>4, <1>5, <1>6, <1>7, <1>8, <1>9, <1>10, <1>11,
     <1>12, <1>13, <1>14, <1>15, <1>16, <1>17, <1>18, <1>19, <1>20
  DEF Next, User, Gui, Worker

(* Until somebody calls interruptLoading(), an operation reload() cuts     *)
(* short is always followed by another: no reload ends on a partial index. *)
THEOREM ReloadsEndWhole == Spec => []CutShortMeansReplaced
<1>1. Init => CutShortInv
  BY ControlInit DEF Init, CutShortInv, CutShortMeansReplaced, Running,
     FinishedEvents, None
<1>2. CutShortInv => CutShortMeansReplaced
  BY DEF CutShortInv
<1> QED
  BY <1>1, <1>2, CutShortStep, TypeCorrect, ControlCorrect, PTL DEF Spec

-----------------------------------------------------------------------------
(* Positions.                                                              *)

LEMMA PositionInit == Init => PositionInv
  BY DEF Init, PositionInv, FakeLFIsLast

LEMMA PositionStep == TypeInv /\ PositionInv /\ [Next]_vars => PositionInv'
<1> SUFFICES ASSUME TypeInv, PositionInv, [Next]_vars PROVE PositionInv'
  OBVIOUS
<1> USE DEF PositionInv, FakeLFIsLast, diskVars, watchVars, guiVars, flagVars,
      scanVars, blockVars, indexVars, TypeInv, TypeOK, BlockOrdered
<1>1. CASE UNCHANGED <<scanVars, indexVars>>
  BY <1>1
<1>2. CASE startFull
  BY <1>2 DEF startFull, beginOperation, clear
<1>3. CASE startPartial
  BY <1>3 DEF startPartial, beginOperation
<1>4. CASE readBlock
  <2>1. SizeOf(opFile) \in Nat
    BY SizeType
  <2>2. filePos <= blockEnd'
    BY <1>4, <2>1, ConstantsAssumption DEF readBlock, atEnd
  <2>3. line_positions' \subseteq filePos + 1 .. blockEnd'
    BY <1>4 DEF readBlock
  <2> QED
    BY <1>4, <2>2, <2>3 DEF readBlock
<1>5. CASE indexBlock
  <2>1. /\ indexedSize_' = blockEnd /\ filePos' = blockEnd
        /\ lines' = lines \cup line_positions /\ fakeLF' = 0
        /\ workerPc = "block" /\ workerPc' = "scan"
    BY <1>5 DEF indexBlock, addAll
  <2>2. pos' <= blockEnd /\ \A p \in lines' : p <= pos'
    <3>1. CASE line_positions = {}
      BY <1>5, <2>1, <3>1 DEF indexBlock
    <3>2. CASE line_positions # {}
      <4>1. PICK p \in line_positions :
               (\A q \in line_positions : q <= p) /\ pos' = p
        BY <1>5, <3>2 DEF indexBlock
      <4>2. p \in Nat /\ filePos < p /\ p <= blockEnd
        BY <2>1
      <4>3. \A q \in lines : q <= p
        BY <2>1, <4>2
      <4> QED
        BY <2>1, <4>1, <4>2, <4>3
    <3> QED
      BY <3>1, <3>2
  <2>3. lines' \subseteq 1 .. indexedSize_'
    BY <2>1
  <2> QED
    BY <2>1, <2>2, <2>3
<1>6. CASE endOfLoop
  BY <1>6 DEF endOfLoop
<1>7. CASE addFakeFinalLF
  <2>1. SizeOf(opFile) \in Nat
    BY SizeType
  <2>2. CASE ~interruptRequested_ /\ SizeOf(opFile) > pos
    <3>1. /\ lines' = lines /\ indexedSize_' = indexedSize_
          /\ fakeLF' = SizeOf(opFile) + 1 /\ workerPc' = "report"
          /\ workerPc = "tail"
      BY <1>7, <2>2 DEF addFakeFinalLF, addAll
    <3>2. \A p \in lines : p < SizeOf(opFile) + 1
      BY <2>1, <2>2, <3>1
    <3> QED
      BY <3>1, <3>2
  <2>3. CASE ~(~interruptRequested_ /\ SizeOf(opFile) > pos)
    BY <1>7, <2>3 DEF addFakeFinalLF
  <2> QED
    BY <2>2, <2>3
<1>8. CASE workerTerminates \/ reportStatus \/ runOutOfMemory \/ clearOperation
  BY <1>8 DEF workerTerminates, reportStatus, runOutOfMemory, emitFinished,
     clearOperation
<1>9. CASE Disk \/ Notify \/ User \/ Gui \/ UNCHANGED vars
  <2>1. UNCHANGED <<scanVars, indexVars>>
    BY <1>9 DEF Disk, AppendToFile, TruncateFile, RotateFile, DiskChange,
       Notify, User, attachFile, interruptLoading, reload, close, UserAction,
       Gui, startOperation, beginFileChanged, endFileChanged, indexingFailed,
       beginIndexingSucceeded, endIndexingSucceeded, requestTermination, join,
       vars
  <2> QED
    BY <1>1, <2>1
<1> QED
  BY <1>2, <1>3, <1>4, <1>5, <1>6, <1>7, <1>8, <1>9 DEF Next, Worker

(* Line positions, their bound by the indexed size, and the worker's       *)
(* cursor in the file keep in step.                                        *)
THEOREM PositionsCorrect == Spec => [](TypeInv /\ PositionInv)
  BY TypeInit, TypeStep, PositionInit, PositionStep, PTL DEF Spec

(* The fake final line feed is past all the real ones. *)
THEOREM FakeLFLast == Spec => []FakeLFIsLast
<1>1. PositionInv => FakeLFIsLast
  BY DEF PositionInv
<1> QED
  BY <1>1, PositionsCorrect, PTL

(* append_list()'s unchecked precondition holds at every call: what is     *)
(* added comes after everything that stays.                                *)
THEOREM PositionsOnlyIncrease == Spec => PositionsIncrease
<1> DEFINE Increase ==
      \A n \in lines' \ lines : \A p \in lines \cap lines' : p < n
<1>1. TypeInv /\ PositionInv /\ [Next]_vars => [Increase]_vars
  <2> SUFFICES ASSUME TypeInv, PositionInv, Next PROVE Increase
    OBVIOUS
  <2>1. CASE indexBlock
    BY <2>1 DEF indexBlock, addAll, PositionInv, TypeInv, TypeOK
  <2>2. CASE ~indexBlock
    <3>1. lines' = lines \/ lines' = {}
      BY <2>2 DEF Next, Disk, AppendToFile, TruncateFile, RotateFile,
         DiskChange, Notify, User, attachFile, interruptLoading, reload, close,
         UserAction, Gui, startOperation, beginFileChanged, endFileChanged,
         indexingFailed, beginIndexingSucceeded, endIndexingSucceeded,
         requestTermination, join, Worker, workerTerminates, startFull, clear,
         startPartial, beginOperation, readBlock, endOfLoop, addFakeFinalLF,
         addAll, reportStatus, runOutOfMemory, emitFinished, clearOperation,
         indexVars
    <3> QED
      BY <3>1
  <2> QED
    BY <2>1, <2>2
<1> QED
  BY <1>1, PositionsCorrect, PTL DEF Spec, PositionsIncrease

-----------------------------------------------------------------------------
(* A log that only grows.                                                  *)

LEMMA GrowthInit == Init => GrowthInv
  BY DEF Init, GrowthInv, SizeOf, TypeOK

LEMMA GrowthStep ==
  ASSUME AppendOnly
  PROVE  TypeInv /\ PositionInv /\ GrowthInv /\ [Next]_vars => GrowthInv'
<1> SUFFICES ASSUME TypeInv, PositionInv, GrowthInv, [Next]_vars
             PROVE  GrowthInv'
  OBVIOUS
<1> USE DEF diskVars, watchVars, guiVars, flagVars, scanVars, blockVars,
      indexVars, TypeInv, TypeOK, BlockOrdered
<1>1. CASE UNCHANGED <<diskVars, scanVars, indexVars>>
  BY <1>1 DEF GrowthInv, SizeOf, LineFeeds
<1>2. CASE AppendToFile
  <2>1. PICK b \in Byte : content' = [content EXCEPT ![named] = Append(@, b)]
    BY <1>2 DEF AppendToFile
  <2>2. /\ named # NoInode /\ named \in Inodes /\ named' = named
        /\ UNCHANGED <<scanVars, indexVars>>
    BY <1>2 DEF AppendToFile, DiskChange
  <2>3. /\ Len(content'[named]) = Len(content[named]) + 1
        /\ \A p \in 1 .. Len(content[named]) :
             content'[named][p] = content[named][p]
        /\ Len(content[named]) \in Nat
    BY <2>1, <2>2
  <2>4. \A n \in Nat : n <= Len(content[named]) =>
          {p \in 1 .. n : content'[named][p] = "lf"} =
          {p \in 1 .. n : content[named][p] = "lf"}
    BY <2>3
  <2>5. workerPc = "block" =>
          {p \in filePos + 1 .. blockEnd : content'[named][p] = "lf"} =
          {p \in filePos + 1 .. blockEnd : content[named][p] = "lf"}
    BY <2>2, <2>3 DEF GrowthInv, SizeOf
  <2> QED
    BY <2>2, <2>3, <2>4, <2>5 DEF GrowthInv, SizeOf, LineFeeds
<1>3. CASE TruncateFile \/ RotateFile
  BY <1>3 DEF TruncateFile, RotateFile
<1>4. CASE startFull
  BY <1>4, SizeType DEF startFull, beginOperation, clear, GrowthInv, SizeOf
<1>5. CASE startPartial
  BY <1>5 DEF startPartial, beginOperation, GrowthInv, SizeOf, LineFeeds
<1>6. CASE readBlock
  <2>1. SizeOf(opFile) \in Nat
    BY SizeType
  <2>2. blockEnd' <= SizeOf(opFile)
    BY <1>6, <2>1, ConstantsAssumption DEF readBlock, atEnd
  <2>3. line_positions' =
          {p \in filePos + 1 .. blockEnd' : content[opFile][p] = "lf"}
    BY <1>6 DEF readBlock
  <2> QED
    BY <1>6, <2>2, <2>3 DEF readBlock, GrowthInv, SizeOf, LineFeeds
<1>7. CASE indexBlock
  <2>1. /\ indexedSize_' = blockEnd /\ filePos = indexedSize_
        /\ lines' = lines \cup line_positions
        /\ workerPc = "block" /\ workerPc' = "scan" /\ opFile' = opFile
        /\ UNCHANGED diskVars
    BY <1>7 DEF indexBlock, addAll, PositionInv
  <2>2. lines = LineFeeds(named, indexedSize_)
    <3>1. CASE indexedSize_ = 0
      BY <3>1 DEF PositionInv, LineFeeds
    <3>2. CASE indexedSize_ # 0
      BY <3>2 DEF GrowthInv
    <3> QED
      BY <3>1, <3>2
  <2>3. /\ line_positions =
             {p \in indexedSize_ + 1 .. blockEnd : content[named][p] = "lf"}
        /\ indexedSize_ <= blockEnd /\ blockEnd <= SizeOf(named)
        /\ opFile = named /\ named # NoInode
    BY <2>1 DEF GrowthInv
  <2>4. lines' = LineFeeds(named, blockEnd)
    BY <2>1, <2>2, <2>3 DEF LineFeeds
  <2> QED
    BY <2>1, <2>3, <2>4 DEF GrowthInv, SizeOf, LineFeeds
<1>8. CASE endOfLoop
  BY <1>8 DEF endOfLoop, GrowthInv, SizeOf, LineFeeds
<1>9. CASE addFakeFinalLF
  <2>1. /\ lines' = lines /\ indexedSize_' = indexedSize_
        /\ workerPc' = "report" /\ UNCHANGED diskVars
    <3>1. CASE ~interruptRequested_ /\ SizeOf(opFile) > pos
      BY <1>9, <3>1 DEF addFakeFinalLF, addAll
    <3>2. CASE ~(~interruptRequested_ /\ SizeOf(opFile) > pos)
      BY <1>9, <3>2 DEF addFakeFinalLF
    <3> QED
      BY <3>1, <3>2
  <2> QED
    BY <2>1 DEF GrowthInv, SizeOf, LineFeeds
<1>10. CASE workerTerminates \/ reportStatus \/ runOutOfMemory \/ clearOperation
  BY <1>10 DEF workerTerminates, reportStatus, runOutOfMemory, emitFinished,
     clearOperation, GrowthInv, SizeOf, LineFeeds
<1>11. CASE Notify \/ User \/ Gui \/ UNCHANGED vars
  <2>1. UNCHANGED <<diskVars, scanVars, indexVars>>
    BY <1>11 DEF Notify, User, attachFile, interruptLoading, reload, close,
       UserAction, Gui, startOperation, beginFileChanged, endFileChanged,
       indexingFailed, beginIndexingSucceeded, endIndexingSucceeded,
       requestTermination, join, vars
  <2> QED
    BY <1>1, <2>1
<1> QED
  BY <1>2, <1>3, <1>4, <1>5, <1>6, <1>7, <1>8, <1>9, <1>10, <1>11
  DEF Next, Disk, Worker

(* While the log only grows, the index is always that of a part of it from *)
(* its beginning: whatever the size of the blocks, and however often       *)
(* loading is interrupted, fails or starts again.                          *)
THEOREM PrefixIndexed == ASSUME AppendOnly PROVE Spec => []IndexedPrefix
<1>1. GrowthInv => IndexedPrefix
  BY DEF GrowthInv, IndexedPrefix, SizeOf
<1> QED
  BY <1>1, PositionsCorrect, GrowthInit, GrowthStep, PTL DEF Spec
-----------------------------------------------------------------------------
(* Nothing of a log that only grows is forgotten.                          *)

(* An event put at the end of the queue. *)
LEMMA PostedMore ==
  ASSUME TypeOK, NEW e \in GuiEvent, NEW S, guiQueue' = Append(guiQueue, e)
  PROVE  Posted(S)' <=> Posted(S) \/ e \in S
<1>1. guiQueue \in Seq(GuiEvent)
  BY DEF TypeOK
<1>2. /\ DOMAIN guiQueue = 1 .. Len(guiQueue) /\ Len(guiQueue) \in Nat
      /\ DOMAIN guiQueue' = 1 .. Len(guiQueue) + 1
      /\ \A i \in 1 .. Len(guiQueue) : guiQueue'[i] = guiQueue[i]
      /\ guiQueue'[Len(guiQueue) + 1] = e
  BY <1>1
<1> QED
  BY <1>2 DEF Posted

(* The first event taken: the others are there still. *)
LEMMA PostedLess ==
  ASSUME TypeOK, NEW S, guiQueue # <<>>, guiQueue' = Tail(guiQueue), Posted(S)
  PROVE  Posted(S)' \/ Head(guiQueue) \in S
<1>1. guiQueue \in Seq(GuiEvent)
  BY DEF TypeOK
<1>2. /\ Len(guiQueue) \in Nat \ {0}
      /\ DOMAIN guiQueue = 1 .. Len(guiQueue)
      /\ DOMAIN guiQueue' = 1 .. Len(guiQueue) - 1
      /\ \A i \in 1 .. Len(guiQueue) - 1 : guiQueue'[i] = guiQueue[i + 1]
      /\ Head(guiQueue) = guiQueue[1]
  BY <1>1
<1>3. PICK i \in 1 .. Len(guiQueue) : guiQueue[i] \in S
  BY <1>2 DEF Posted
<1>4. CASE i = 1
  BY <1>2, <1>3, <1>4
<1>5. CASE i # 1
  <2>1. i - 1 \in DOMAIN guiQueue' /\ guiQueue'[i - 1] \in S
    BY <1>2, <1>3, <1>5
  <2> QED
    BY <2>1 DEF Posted
<1> QED
  BY <1>4, <1>5

LEMMA PostedKept == ASSUME NEW S, guiQueue' = guiQueue PROVE Posted(S)' <=> Posted(S)
  BY DEF Posted

LEMMA UpToDateInit == Init => UpToDateInv
<1> SUFFICES ASSUME Init PROVE UpToDateInv
  OBVIOUS
<1>1. SizeOf(named) \in Nat
  BY TypeInit, SizeType DEF TypeInv, TypeOK
<1> QED
  BY <1>1 DEF Init, UpToDateInv, Failing, None

(* What a log that only grows has besides what it had. *)
LEMMA Grown ==
  ASSUME AppendOnly, TypeInv, AppendToFile
  PROVE  /\ SizeOf(named) \in Nat /\ SizeOf(named') = SizeOf(named)
         /\ SizeOf(named)' = SizeOf(named) + 1
  BY DEF AppendToFile, TypeInv, TypeOK, SizeOf

LEMMA UpToDateStep ==
  ASSUME AppendOnly
  PROVE  /\ TypeInv /\ ControlInv /\ PositionInv /\ GrowthInv /\ UpToDateInv
         /\ [Next]_vars
         => UpToDateInv'
<1> SUFFICES ASSUME TypeInv, ControlInv, PositionInv, GrowthInv, UpToDateInv,
                    [Next]_vars
             PROVE  UpToDateInv'
  OBVIOUS
<1>type. TypeOK
  BY DEF TypeInv
<1>size. SizeOf(named) \in Nat /\ indexedSize_ <= SizeOf(named)
  BY <1>type, SizeType DEF TypeOK, GrowthInv
<1> USE DEF diskVars, watchVars, guiVars, flagVars, scanVars, blockVars,
      indexVars, UpToDateInv, Coming, Told, Failing, Closing
<1>disk. UNCHANGED diskVars => SizeOf(named)' = SizeOf(named)
  BY DEF SizeOf
<1>1. CASE AppendToFile
  <2>1. SizeOf(named)' = SizeOf(named) + 1
    BY <1>1, Grown
  <2>2. "missed" \in history' \/ dirty'
    BY <1>1, <1>type DEF AppendToFile, DiskChange, TypeOK, FlagsOK
  <2>3. seenSize' = seenSize /\ seenSize \in Nat
    BY <1>1, <1>type DEF AppendToFile, DiskChange, TypeOK
  <2> QED
    BY <2>1, <2>2, <2>3, <1>size
<1>2. CASE TruncateFile \/ RotateFile
  BY <1>2 DEF TruncateFile, RotateFile
<1>3. CASE Notify
  <2>1. Posted({Changed})'
    BY <1>3, <1>type, PostedMore DEF Notify, GuiEvent
  <2> QED
    BY <1>3, <1>disk, <2>1 DEF Notify
<1>4. CASE attachFile \/ reload
  BY <1>4, <1>disk, PostedKept DEF attachFile, reload, UserAction, enqueueOperation, None
<1>5. CASE interruptLoading
  BY <1>5, <1>disk, PostedKept DEF interruptLoading, UserAction
<1>6. CASE close \/ requestTermination \/ join
  BY <1>6, <1>disk DEF close, requestTermination, join
<1>7. CASE startOperation
  <2>1. operationRequested_' # None /\ workerPc' = "wait"
    BY <1>7 DEF startOperation, ControlInv, OperationTracked
  <2> QED
    BY <1>7, <1>disk, <2>1 DEF startOperation
<1>8. CASE beginFileChanged
  <2>1. UNCHANGED <<diskVars, workerPc, operationRequested_, nextOperation_, currentOperation_,
                    signal, interruptRequested_, dirty, history, indexedSize_>>
        /\ guiPc' = "changed" /\ seenSize' = indexedSize_ /\ guiPc = "loop"
    BY <1>8 DEF beginFileChanged
  <2>2. Posted({"Interrupted", "NoMemory"}) => Posted({"Interrupted", "NoMemory"})'
    BY <1>8, <1>type, PostedLess DEF beginFileChanged, Changed
  <2>3. indexedSize_ # SizeOf(named) => indexedSize_ < SizeOf(named)
    BY <1>size, <1>type DEF TypeOK
  <2> QED
    BY <2>1, <2>2, <2>3, <1>disk, <1>size
<1>9. CASE endFileChanged
  <2>1. UNCHANGED <<diskVars, workerPc, operationRequested_, guiQueue, interruptRequested_,
                    dirty, indexedSize_>>
        /\ seenSize' = 0 /\ guiPc = "changed"
    BY <1>9 DEF endFileChanged
  <2>2. CASE guiPc' = "start" \/ nextOperation_' # None
    BY <1>disk, <1>size, <2>1, <2>2
  <2>3. CASE ~(guiPc' = "start" \/ nextOperation_' # None)
    <3>1. /\ \/ SizeOf(named) = seenSize
             \/ SizeOf(named) > seenSize /\ fileChangedOnDisk_ = "DataAdded"
          /\ history' = history \cup
               (IF SizeOf(named) > seenSize THEN {"missed"} ELSE {})
          /\ UNCHANGED <<signal, currentOperation_, nextOperation_>>
      BY <1>9, <2>3 DEF endFileChanged, enqueueOperation, None
    <3>2. SizeOf(named) = seenSize \/ "missed" \in history'
      BY <3>1
    <3>3. seenSize \in Nat
      BY <1>type DEF TypeOK
    <3>4. Posted({Changed})' = Posted({Changed})
          /\ Posted({"Interrupted", "NoMemory"})' = Posted({"Interrupted", "NoMemory"})
      BY <2>1 DEF Posted
    <3> QED
      BY <1>disk, <1>size, <2>1, <3>1, <3>2, <3>3, <3>4
  <2> QED
    BY <2>2, <2>3
<1>10. CASE indexingFailed
  <2>1. /\ UNCHANGED <<diskVars, dirty, seenSize, history, indexedSize_>>
        /\ finishOperation(Head(guiQueue)) /\ Head(guiQueue) # "Successful"
    BY <1>10 DEF indexingFailed
  <2>2. CASE nextOperation_ = None
    BY <1>disk, <2>1, <2>2 DEF finishOperation
  <2>3. CASE nextOperation_ # None
    BY <1>disk, <2>1, <2>3 DEF finishOperation
  <2> QED
    BY <2>2, <2>3
<1>11. CASE beginIndexingSucceeded
  <2>1. /\ UNCHANGED <<diskVars, workerPc, operationRequested_, currentOperation_, nextOperation_,
                       signal, interruptRequested_, seenSize, indexedSize_>>
        /\ guiPc' = "rewatch" /\ guiPc = "loop"
        /\ history' = history \cup (IF dirty THEN {"missed"} ELSE {})
    BY <1>11 DEF beginIndexingSucceeded
  <2>2. /\ Posted({Changed}) => Posted({Changed})'
        /\ Posted({"Interrupted", "NoMemory"}) => Posted({"Interrupted", "NoMemory"})'
    BY <1>11, <1>type, PostedLess DEF beginIndexingSucceeded, Changed
  <2> QED
    BY <1>disk, <2>1, <2>2
<1>12. CASE endIndexingSucceeded
  <2>1. /\ UNCHANGED <<diskVars, dirty, guiQueue, workerPc, operationRequested_,
                       interruptRequested_, seenSize, history, indexedSize_>>
        /\ finishOperation("Successful") /\ guiPc = "rewatch"
    BY <1>12 DEF endIndexingSucceeded
  <2>2. CASE nextOperation_ # None
    BY <1>disk, <2>1, <2>2 DEF finishOperation
  <2>3. CASE nextOperation_ = None
    <3>1. currentOperation_ # None /\ FinishedEvents = {} /\ ~Running
      BY <2>1 DEF ControlInv, OperationTracked
    <3>2. ~Posted({"Interrupted", "NoMemory"})
      BY <3>1 DEF Posted, FinishedEvents, LoadingStatus
    <3>3. workerPc \notin {"scan", "block", "tail", "report"}
          /\ ~(operationRequested_ # None /\ workerPc = "wait")
      BY <3>1 DEF Running, ControlInv
    <3>4. Posted({Changed})' = Posted({Changed})
      BY <2>1 DEF Posted
    <3> QED
      BY <1>disk, <2>1, <2>3, <3>1, <3>2, <3>3, <3>4
  <2> QED
    BY <2>2, <2>3
<1>13. CASE workerTerminates
  <2>1. Closing
    BY <1>13 DEF workerTerminates, ControlInv
  <2> QED
    BY <1>13, <1>disk, <2>1 DEF workerTerminates
<1>14. CASE startFull \/ startPartial
  <2>1. /\ UNCHANGED <<diskVars, watchVars, guiVars, flagVars>>
        /\ workerPc' = IF named = NoInode THEN "report" ELSE "scan"
        /\ operationRequested_ # None
    BY <1>14 DEF startFull, startPartial, beginOperation, None
  <2>2. CASE named = NoInode
    <3>1. SizeOf(named)' = 0 /\ indexedSize_' = 0
      BY <1>14, <1>disk, <2>1, <2>2 DEF startFull, startPartial, clear, GrowthInv, SizeOf
    <3> QED
      BY <1>disk, <2>1, <3>1
  <2>3. CASE named # NoInode
    BY <1>disk, <2>1, <2>3
  <2> QED
    BY <2>2, <2>3
<1>15. CASE readBlock \/ indexBlock
  <2>1. /\ UNCHANGED <<diskVars, seenSize, operationRequested_>>
        /\ workerPc \in {"scan", "block"} /\ workerPc' \in {"scan", "block"}
    BY <1>15 DEF readBlock, indexBlock
  <2>2. operationRequested_' # None
    BY <2>1 DEF ControlInv
  <2> QED
    BY <1>disk, <2>1, <2>2
<1>16. CASE endOfLoop
  <2>1. /\ UNCHANGED <<diskVars, watchVars, guiVars, flagVars, indexVars, history>>
        /\ workerPc = "scan" /\ workerPc' = "tail"
        /\ atEnd \/ interruptRequested_
    BY <1>16 DEF endOfLoop
  <2>2. CASE interruptRequested_
    BY <1>disk, <2>1, <2>2
  <2>3. CASE atEnd
    <3>1. indexedSize_ = SizeOf(named)
      BY <1>size, <1>type, <2>1, <2>3 DEF atEnd, PositionInv, GrowthInv, TypeOK
    <3> QED
      BY <1>disk, <2>1, <3>1
  <2> QED
    BY <2>1, <2>2, <2>3
<1>17. CASE addFakeFinalLF
  <2>1. UNCHANGED <<diskVars, watchVars, guiVars, flagVars, history>>
        /\ workerPc = "tail" /\ workerPc' = "report"
    BY <1>17 DEF addFakeFinalLF
  <2>2. indexedSize_' = indexedSize_
    BY <1>17, <1>type DEF addFakeFinalLF, addAll, TypeOK
  <2> QED
    BY <1>disk, <2>1, <2>2, PostedKept
<1>18. CASE reportStatus \/ runOutOfMemory
  <2>1. PICK s \in LoadingStatus : emitFinished(s)
    BY <1>18 DEF reportStatus, runOutOfMemory, LoadingStatus
  <2>2. /\ UNCHANGED <<diskVars, watchVars, guiPc, currentOperation_, nextOperation_, seenSize,
                       signal, flagVars, indexVars>>
        /\ workerPc' = "clear"
        /\ history \subseteq history' /\ ("missed" \in history' => "missed" \in history)
    BY <2>1 DEF emitFinished
  <2>3. \A S : Posted(S) => Posted(S)'
    BY <1>type, <2>1, PostedMore DEF emitFinished, GuiEvent
  <2>4. CASE reportStatus /\ ~interruptRequested_
    <3>1. workerPc = "report"
      BY <2>4 DEF reportStatus
    <3> QED
      BY <1>disk, <2>2, <2>3, <2>4, <3>1
  <2>5. CASE ~(reportStatus /\ ~interruptRequested_)
    <3>1. emitFinished("Interrupted") \/ emitFinished("NoMemory")
      BY <1>18, <2>5 DEF reportStatus, runOutOfMemory
    <3>2. Posted({"Interrupted", "NoMemory"})'
      BY <1>type, <2>1, <3>1, PostedMore DEF emitFinished, GuiEvent, LoadingStatus
    <3> QED
      BY <1>disk, <2>2, <3>2
  <2> QED
    BY <2>4, <2>5
<1>19. CASE clearOperation
  <2>1. /\ UNCHANGED <<diskVars, watchVars, guiVars, interruptRequested_, indexVars, history>>
        /\ workerPc = "clear"
    BY <1>19 DEF clearOperation
  <2> QED
    BY <1>disk, <2>1, PostedKept
<1>20. CASE UNCHANGED vars
  <2>1. UNCHANGED <<diskVars, watchVars, guiVars, flagVars, scanVars, indexVars, history>>
    BY <1>20 DEF vars
  <2> QED
    BY <1>disk, <2>1, PostedKept
<1> QED
  BY <1>1, <1>2, <1>3, <1>4, <1>5, <1>6, <1>7, <1>8, <1>9, <1>10, <1>11, <1>12, <1>13,
     <1>14, <1>15, <1>16, <1>17, <1>18, <1>19, <1>20
  DEF Next, Disk, User, Gui, Worker

(* What was added to a log that only grows is indexed once all is quiet    *)
(* and the last loading succeeded, unless it was added where no            *)
(* notification tells of it.                                               *)
THEOREM LogUpToDate == ASSUME AppendOnly PROVE Spec => []QuietMeansUpToDate
<1>1. ControlInv /\ UpToDateInv => QuietMeansUpToDate
  BY DEF ControlInv, OperationTracked, Running, UpToDateInv, Coming, Told, Failing, Closing,
         Posted, QuietMeansUpToDate, Quiescent
<1> QED
  BY <1>1, ControlCorrect, PositionsCorrect, GrowthInit, GrowthStep, UpToDateInit,
     UpToDateStep, PTL DEF Spec

LEMMA LastLineInit == Init => LastLineInv
  BY DEF Init, LastLineInv, FakeLFRight

(* Steps that leave the index and the worker where they were, the end of   *)
(* an operation aside. *)
LEMMA LastLineKept ==
  ASSUME LastLineInv, UNCHANGED <<indexVars, scanVars>>,
         SizeOf(named)' = SizeOf(named), history \subseteq history',
         interruptRequested_ => interruptRequested_'
  PROVE  LastLineInv'
  BY DEF LastLineInv, FakeLFRight, indexVars, scanVars, blockVars

LEMMA LastLineStep ==
  ASSUME AppendOnly
  PROVE  /\ TypeInv /\ ControlInv /\ PositionInv /\ GrowthInv /\ LastLineInv
         /\ [Next]_vars
         => LastLineInv'
<1> SUFFICES ASSUME TypeInv, ControlInv, PositionInv, GrowthInv, LastLineInv,
                    [Next]_vars
             PROVE  LastLineInv'
  OBVIOUS
<1>type. TypeOK
  BY DEF TypeInv
<1>size. /\ SizeOf(named) \in Nat /\ SizeOf(opFile) \in Nat
         /\ indexedSize_ \in Nat /\ indexedSize_ <= SizeOf(named)
  BY <1>type, SizeType DEF TypeOK, GrowthInv
<1> USE DEF diskVars, watchVars, guiVars, flagVars, scanVars, blockVars, indexVars
<1>disk. UNCHANGED diskVars => SizeOf(named)' = SizeOf(named)
  BY DEF SizeOf
<1>1. CASE AppendToFile
  <2>1. SizeOf(named)' = SizeOf(named) + 1
    BY <1>1, Grown
  <2>2. UNCHANGED <<flagVars, scanVars, indexVars>> /\ history \subseteq history'
    BY <1>1 DEF AppendToFile, DiskChange
  <2> QED
    BY <1>size, <2>1, <2>2 DEF LastLineInv, FakeLFRight
<1>2. CASE TruncateFile \/ RotateFile
  BY <1>2 DEF TruncateFile, RotateFile
<1>3. CASE Notify \/ User
  <2>1. UNCHANGED <<diskVars, scanVars, indexVars>>
    BY <1>3 DEF Notify, User, attachFile, interruptLoading, reload, close, UserAction
  <2>2. history \subseteq history' /\ (interruptRequested_ => interruptRequested_')
    BY <1>3 DEF Notify, User, attachFile, interruptLoading, reload, close, UserAction
  <2> QED
    BY <1>disk, <2>1, <2>2, LastLineKept
<1>4. CASE startOperation
  <2>1. UNCHANGED <<diskVars, scanVars, indexVars, history>> /\ workerPc = "wait"
    BY <1>4 DEF startOperation
  <2> QED
    BY <1>disk, <2>1 DEF LastLineInv, FakeLFRight
<1>5. CASE Gui /\ ~startOperation
  <2>1. UNCHANGED <<diskVars, scanVars, indexVars, interruptRequested_>>
    BY <1>5 DEF Gui, beginFileChanged, endFileChanged, indexingFailed,
       beginIndexingSucceeded, endIndexingSucceeded, requestTermination, join
  <2>2. history \subseteq history'
    BY <1>5 DEF Gui, beginFileChanged, endFileChanged, indexingFailed,
       beginIndexingSucceeded, endIndexingSucceeded, requestTermination, join
  <2> QED
    BY <1>disk, <2>1, <2>2, LastLineKept
<1>6. CASE workerTerminates \/ clearOperation
  <2>1. UNCHANGED <<diskVars, indexVars, interruptRequested_, history>>
        /\ workerPc \in {"wait", "clear"} /\ workerPc' \in {"wait", "dead"}
    BY <1>6 DEF workerTerminates, clearOperation
  <2> QED
    BY <1>disk, <2>1 DEF LastLineInv, FakeLFRight
<1>7. CASE startFull
  <2>1. indexedSize_' = 0 /\ fakeLF' = 0 /\ workerPc' # "block"
    BY <1>7 DEF startFull, beginOperation, clear
  <2> QED
    BY <2>1 DEF LastLineInv, FakeLFRight
<1>8. CASE startPartial
  <2>1. UNCHANGED <<diskVars, indexVars>> /\ workerPc = "wait" /\ workerPc' # "block"
        /\ ("cutShort" \notin history' => "cutShort" \notin history)
    BY <1>8 DEF startPartial, beginOperation
  <2> QED
    BY <1>disk, <2>1 DEF LastLineInv, FakeLFRight
<1>9. CASE readBlock
  <2>1. /\ UNCHANGED <<diskVars, indexVars, filePos, pos, history>>
        /\ workerPc = "scan" /\ workerPc' = "block"
        /\ filePos < SizeOf(opFile)
    BY <1>9, <1>type, <1>size DEF readBlock, atEnd, TypeOK
  <2>2. filePos < blockEnd'
    BY <1>9, <1>type, <1>size, <2>1, ConstantsAssumption DEF readBlock, TypeOK
  <2> QED
    BY <1>disk, <2>1, <2>2 DEF LastLineInv, FakeLFRight
<1>10. CASE indexBlock
  <2>1. /\ UNCHANGED <<diskVars, history>>
        /\ indexedSize_' = blockEnd /\ filePos' = blockEnd /\ fakeLF' = 0
        /\ lines' = lines \cup line_positions
        /\ workerPc = "block" /\ workerPc' = "scan"
    BY <1>10, <1>type DEF indexBlock, addAll, PositionInv, TypeOK
  <2>2. /\ filePos < blockEnd /\ pos <= filePos
        /\ filePos \in Nat /\ pos \in Nat /\ blockEnd \in Nat
        /\ line_positions \subseteq filePos + 1 .. blockEnd
    BY <1>type, <2>1 DEF LastLineInv, PositionInv, TypeOK
  <2>3. CASE line_positions = {}
    <3>1. pos' < filePos'
      BY <1>10, <2>1, <2>2, <2>3 DEF indexBlock
    <3> QED
      BY <2>1, <3>1 DEF LastLineInv
  <2>4. CASE line_positions # {}
    <3>1. pos' \in line_positions
      BY <1>10, <2>4 DEF indexBlock
    <3>2. CASE pos' < blockEnd
      BY <2>1, <3>2 DEF LastLineInv
    <3>3. CASE pos' = blockEnd
      <4>1. indexedSize_' \in lines'
        BY <2>1, <3>1, <3>3
      <4> QED
        BY <2>1, <4>1 DEF LastLineInv, FakeLFRight
    <3> QED
      BY <2>2, <3>1, <3>2, <3>3
  <2> QED
    BY <2>3, <2>4
<1>11. CASE endOfLoop
  <2>1. UNCHANGED <<diskVars, indexVars, filePos, pos, interruptRequested_, history>>
        /\ workerPc = "scan" /\ workerPc' = "tail"
    BY <1>11 DEF endOfLoop
  <2> QED
    BY <1>disk, <2>1 DEF LastLineInv, FakeLFRight
<1>12. CASE addFakeFinalLF
  <2>1. /\ UNCHANGED <<diskVars, interruptRequested_, history>>
        /\ workerPc = "tail" /\ workerPc' = "report"
        /\ lines' = lines /\ indexedSize_' = indexedSize_
    BY <1>12, <1>type DEF addFakeFinalLF, addAll, TypeOK
  <2>2. opFile = named /\ filePos = indexedSize_ /\ pos <= filePos /\ pos \in Nat
        /\ \A p \in lines : p <= pos
    BY <1>type, <2>1 DEF GrowthInv, PositionInv, TypeOK
  <2>3. CASE interruptRequested_
    BY <2>1, <2>3 DEF LastLineInv
  <2>4. CASE ~interruptRequested_ /\ SizeOf(opFile) > pos
    <3>1. fakeLF' = SizeOf(named) + 1
      BY <1>12, <2>2, <2>4 DEF addFakeFinalLF, addAll
    <3>2. CASE indexedSize_ < SizeOf(named)
      BY <1>disk, <1>size, <2>1, <3>1, <3>2 DEF LastLineInv, FakeLFRight
    <3>3. CASE indexedSize_ = SizeOf(named)
      <4>1. indexedSize_ # 0 /\ indexedSize_ \notin lines
        BY <1>size, <2>2, <2>4, <3>3
      <4> QED
        BY <2>1, <3>1, <3>3, <4>1 DEF LastLineInv, FakeLFRight
    <3> QED
      BY <1>size, <3>2, <3>3
  <2>5. CASE ~interruptRequested_ /\ ~(SizeOf(opFile) > pos)
    <3>1. fakeLF' = fakeLF
      BY <1>12, <2>5 DEF addFakeFinalLF
    <3>2. ~(pos < filePos)
      BY <1>size, <2>2, <2>5
    <3> QED
      BY <1>disk, <2>1, <3>1, <3>2 DEF LastLineInv, FakeLFRight
  <2> QED
    BY <2>3, <2>4, <2>5
<1>13. CASE reportStatus \/ runOutOfMemory
  <2>1. /\ UNCHANGED <<diskVars, indexVars>> /\ workerPc' = "clear"
        /\ history \subseteq history'
    BY <1>13 DEF reportStatus, runOutOfMemory, emitFinished
  <2>2. CASE reportStatus /\ ~interruptRequested_
    <3>1. workerPc = "report"
      BY <2>2 DEF reportStatus
    <3> QED
      BY <1>disk, <2>1, <2>2, <3>1 DEF LastLineInv, FakeLFRight
  <2>3. CASE ~(reportStatus /\ ~interruptRequested_)
    <3>1. "cutShort" \in history'
      BY <1>13, <2>3 DEF reportStatus, runOutOfMemory, emitFinished
    <3> QED
      BY <2>1, <3>1 DEF LastLineInv
  <2> QED
    BY <2>2, <2>3
<1>14. CASE UNCHANGED vars
  <2>1. UNCHANGED <<diskVars, scanVars, indexVars, interruptRequested_, history>>
    BY <1>14 DEF vars
  <2> QED
    BY <1>disk, <2>1, LastLineKept
<1> QED
  BY <1>1, <1>2, <1>3, <1>4, <1>5, <1>6, <1>7, <1>8, <1>9, <1>10, <1>11, <1>12, <1>13,
     <1>14
  DEF Next, Disk, Worker

(* ... and its last line, still being written or not, is ended as it       *)
(* should be: by a fake line feed past its last byte, or by its own.       *)
THEOREM LastLineShown == ASSUME AppendOnly PROVE Spec => []QuietMeansLastLineShown
<1>1. /\ TypeInv /\ ControlInv /\ GrowthInv /\ LastLineInv /\ QuietMeansUpToDate
      => QuietMeansLastLineShown
  <2> SUFFICES ASSUME TypeInv, ControlInv, GrowthInv, LastLineInv, QuietMeansUpToDate,
                      Quiescent, signal = "Successful",
                      {"missed", "cutShort"} \cap history = {}
               PROVE  LastLineIsFake
    BY DEF QuietMeansLastLineShown
  <2>1. SizeOf(named) \in Nat /\ indexedSize_ = SizeOf(named)
    BY SizeType DEF TypeInv, TypeOK, QuietMeansUpToDate
  <2>2. workerPc \notin {"scan", "block", "tail", "report"}
    BY DEF Quiescent, ControlInv, OperationTracked, Running
  <2>3. IF SizeOf(named) # 0 /\ SizeOf(named) \notin lines
          THEN fakeLF = SizeOf(named) + 1 ELSE fakeLF = 0
    BY <2>1, <2>2 DEF LastLineInv, FakeLFRight
  <2>4. SizeOf(named) # 0 =>
          (SizeOf(named) \in lines <=> content[named][SizeOf(named)] = "lf")
    BY <2>1 DEF GrowthInv, LineFeeds
  <2> QED
    BY <2>3, <2>4 DEF LastLineIsFake
<1>2. Spec => [](TypeInv /\ ControlInv /\ PositionInv /\ GrowthInv)
  BY ControlCorrect, PositionsCorrect, GrowthInit, GrowthStep, PTL DEF Spec
<1> QED
  BY <1>1, <1>2, LogUpToDate, LastLineInit, LastLineStep, PTL DEF Spec
=============================================================================
