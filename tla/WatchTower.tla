------------------------------ MODULE WatchTower ------------------------------
(***************************************************************************)
(* The file watching of Linux: WatchTower, its thread, its                 *)
(* ObservedFileList, INotifyWatchTowerDriver and the kernel behind it.     *)
(*                                                                         *)
(* The windows that follow a log register a callback for its name and drop *)
(* it again; other programs write, create, remove and rename the files     *)
(* meanwhile.  observers_mutex_ is held by whoever is past the first step  *)
(* of an operation: the thread outside poll(), the GUI thread within       *)
(* addFile().  Neither is protected from what happens to the files.        *)
(***************************************************************************)
EXTENDS Integers, SequencesExt

CONSTANTS
  Tabs,          \* the clients, each with at most one registration
  Names,         \* the paths of the files
  Dirs,
  DirOf,         \* the directory of each name
  Inodes,
  MaxFileOps,    \* bound on what happens to the files
  MaxRegisters   \* bound on the registrations

VARIABLES
  (* The file system and inotify. *)
  inode,         \* the inode of each name, or None
  wd,            \* the watch descriptor of each inode and directory, or -1
  nextWd,
  events,        \* those not read yet
  (* WatchTower. *)
  observed_files_,
  running_,
  breakingPipe,  \* a byte was written to it
  towerPc,
  files_needing_readding,
  files_to_notify,
  guiPc,         \* "idle", "adding" within addFile(), "closing", "closed"
  (* Bounds and history. *)
  fileOps,
  registers,
  unseen,        \* names that changed and whose observers were not called since
  missed         \* a name was replaced while its directory was about to be
                 \* watched

kernelVars == <<inode, wd, nextWd, events>>
towerVars == <<towerPc, files_needing_readding, files_to_notify>>
vars == <<kernelVars, observed_files_, running_, breakingPipe, towerVars, guiPc,
          fileOps, registers, unseen, missed>>

ASSUME NamesAssumption ==
  /\ DirOf \in [Names -> Dirs] /\ Inodes \cap Dirs = {}
  /\ \E f \in [Names -> Inodes] : IsInjective(f)

None == "none"
Observed == {observed_files_[k].name : k \in DOMAIN observed_files_}
ObservedFile ==
  [name : Names, callbacks : (SUBSET Tabs) \ {{}}, file_id : Int, dir_ : BOOLEAN]

TypeOK ==
  /\ inode \in [Names -> Inodes \cup {None}]
  /\ wd \in [Inodes \cup Dirs -> -1 .. nextWd - 1]
  /\ \A e \in ToSet(events) : e.wd \in 1 .. nextWd - 1
  /\ observed_files_ \in Seq(ObservedFile)
  /\ IsInjective([k \in DOMAIN observed_files_ |-> observed_files_[k].name])
  /\ towerPc \in {"poll", "readd", "stopped"}
  /\ guiPc \in {"idle", "adding", "closing", "closed"}
  /\ unseen \subseteq Observed /\ missed \in BOOLEAN

(* Some of the files exist, each with an inode of its own. *)
FirstInode == CHOOSE f \in [Names -> Inodes] : IsInjective(f)
Init ==
  /\ \E existing \in SUBSET Names :
       inode = [n \in Names |-> IF n \in existing THEN FirstInode[n] ELSE None]
  /\ wd = [w \in Inodes \cup Dirs |-> -1] /\ nextWd = 1
  /\ events = <<>>
  /\ observed_files_ = <<>>
  /\ running_ = TRUE /\ breakingPipe = FALSE
  /\ towerPc = "poll"
  /\ files_needing_readding = <<>> /\ files_to_notify = {}
  /\ guiPc = "idle"
  /\ fileOps = 0 /\ registers = 0
  /\ unseen = {} /\ missed = FALSE

-----------------------------------------------------------------------------
(* What other programs do to the files, and what inotify tells of it.      *)

NamesOf(i) == {n \in Names : inode[n] = i}

SelfEvent(i) ==
  IF wd[i] = -1 THEN <<>> ELSE <<[is |-> "self", wd |-> wd[i]]>>

DirEvent(n) ==
  IF wd[DirOf[n]] = -1 THEN <<>>
  ELSE <<[is |-> "dir", wd |-> wd[DirOf[n]], name |-> n]>>

(* One that is the same as the last is dropped by the kernel. *)
Queue(new) ==
  events' = IF new # <<>> /\ events # <<>> /\ Last(events) = Head(new)
              THEN events \o Tail(new) ELSE events \o new

FileOp == fileOps < MaxFileOps /\ fileOps' = fileOps + 1

(* Those of names are other files now, and their observers are to know. *)
Replaced(names) ==
  /\ unseen' = unseen \cup (names \cap Observed)
  /\ missed' = (missed \/ \E n \in names \cap Observed : wd[DirOf[n]] = -1)

Modify(n) ==
  /\ inode[n] # None
  /\ Queue(SelfEvent(inode[n]))
  /\ unseen' = unseen \cup (NamesOf(inode[n]) \cap Observed)
  /\ UNCHANGED <<inode, wd, missed>>

Create(n) ==
  LET free == {i \in Inodes : NamesOf(i) = {} /\ wd[i] = -1}
  IN
  /\ inode[n] = None
  /\ free # {}
  /\ inode' = [inode EXCEPT ![n] = CHOOSE i \in free : TRUE]
  /\ Queue(DirEvent(n))
  /\ Replaced({n})
  /\ UNCHANGED wd

(* A file without a name is gone, and its watch with it, unless a program  *)
(* (glogg itself: LogData's attached_file_) still holds it open.           *)
Gone(i) ==
  \/ /\ Queue(SelfEvent(i))
     /\ wd' = [wd EXCEPT ![i] = -1]
     /\ unseen' = unseen \cup (NamesOf(i) \cap Observed)
  \/ UNCHANGED <<events, wd, unseen>>

Delete(n) ==
  /\ inode[n] # None
  /\ inode' = [inode EXCEPT ![n] = None]
  /\ Gone(inode[n])
  /\ UNCHANGED missed

Rename(m, n) ==
  /\ m # n /\ inode[m] # None
  /\ inode' = [inode EXCEPT ![n] = inode[m], ![m] = None]
  /\ \E gone \in {FALSE, inode[n] # None} :
       /\ Queue(DirEvent(m) \o DirEvent(n)
                \o (IF gone THEN SelfEvent(inode[n]) ELSE <<>>)
                \o SelfEvent(inode[m]))
       /\ wd' = IF gone THEN [wd EXCEPT ![inode[n]] = -1] ELSE wd
  /\ Replaced({m, n})

ChangeFiles ==
  /\ FileOp
  /\ \E m, n \in Names : Modify(n) \/ Create(n) \/ Delete(n) \/ Rename(m, n)
  /\ UNCHANGED <<nextWd, observed_files_, running_, breakingPipe, towerVars,
                 guiPc, registers>>

(* inotify_add_watch(): a watch that exists is found again. *)
WatchedId(w) == IF wd[w] = -1 THEN nextWd ELSE wd[w]
add_watch(w, wds) ==
  /\ wd' = [wds EXCEPT ![w] = IF @ = -1 THEN nextWd ELSE @]
  /\ nextWd' = IF wds[w] = -1 THEN nextWd + 1 ELSE nextWd

(* inotify_rm_watch() of a descriptor that there may not be any more. *)
rm_watch(id) == [w \in DOMAIN wd |-> IF id # -1 /\ wd[w] = id THEN -1 ELSE wd[w]]

-----------------------------------------------------------------------------
(* The clients: WatchTower::addFile() and the end of a Registration.       *)

Locked == towerPc # "poll" \/ guiPc = "adding"
Registered(t) == \E k \in DOMAIN observed_files_ : t \in observed_files_[k].callbacks
IndexOf(name) == CHOOSE k \in DOMAIN observed_files_ : observed_files_[k].name = name
DirWatched(d) ==
  \E k \in DOMAIN observed_files_ :
    observed_files_[k].dir_ /\ DirOf[observed_files_[k].name] = d

Register(t) ==
  /\ guiPc = "idle" /\ ~Locked
  /\ ~Registered(t)
  /\ registers < MaxRegisters /\ registers' = registers + 1

addCallback(t, n) ==
  /\ Register(t)
  /\ n \in Observed
  /\ observed_files_' = [observed_files_ EXCEPT ![IndexOf(n)].callbacks = @ \cup {t}]
  /\ UNCHANGED <<kernelVars, running_, breakingPipe, towerVars, guiPc, fileOps,
                 unseen, missed>>

(* addFileToDriver() and addNewObservedFile(), then the directory if it is *)
(* watched already.                                                        *)
addFile(t, n) ==
  LET file(id) == [name |-> n, callbacks |-> {t}, file_id |-> id,
                   dir_ |-> DirWatched(DirOf[n])]
  IN
  /\ Register(t)
  /\ n \notin Observed
  /\ IF inode[n] = None
       THEN /\ observed_files_' = <<file(-1)>> \o observed_files_
            /\ UNCHANGED <<wd, nextWd>>
       ELSE /\ observed_files_' = <<file(WatchedId(inode[n]))>> \o observed_files_
            /\ add_watch(inode[n], wd)
  /\ guiPc' = IF DirWatched(DirOf[n]) THEN "idle" ELSE "adding"
  /\ UNCHANGED <<inode, events, running_, breakingPipe, towerVars, fileOps,
                 unseen, missed>>

(* The rest of addFile(): addWatchedDirectoryForFile() and addDir(). *)
addDir ==
  /\ guiPc = "adding"
  /\ add_watch(DirOf[observed_files_[1].name], wd)
  /\ observed_files_' = [observed_files_ EXCEPT ![1].dir_ = TRUE]
  /\ guiPc' = "idle"
  /\ UNCHANGED <<inode, events, running_, breakingPipe, towerVars, fileOps,
                 registers, unseen, missed>>

(* Bug: the lock is not taken. *)
removeNotification_NoLock(t) ==
  LET k == CHOOSE j \in DOMAIN observed_files_ : t \in observed_files_[j].callbacks
      file == observed_files_[k]
      left == RemoveAt(observed_files_, k)
      shared == \E j \in DOMAIN left : DirOf[left[j].name] = DirOf[file.name]
  IN
  /\ guiPc = "idle"
  /\ Registered(t)
  /\ IF file.callbacks = {t}
       THEN /\ observed_files_' = left
            /\ wd' = [rm_watch(file.file_id) EXCEPT
                        ![DirOf[file.name]] = IF shared THEN @ ELSE -1]
            /\ unseen' = unseen \ {file.name}
       ELSE /\ observed_files_' = [observed_files_ EXCEPT ![k].callbacks = @ \ {t}]
            /\ UNCHANGED <<wd, unseen>>
  /\ UNCHANGED <<inode, nextWd, events, running_, breakingPipe, towerVars, guiPc,
                 fileOps, registers, missed>>

(* Removing the last callback of a file removes its watch, and that of the *)
(* directory when its last file goes.                                      *)
removeNotification(t) ==
  LET k == CHOOSE j \in DOMAIN observed_files_ : t \in observed_files_[j].callbacks
      file == observed_files_[k]
      left == RemoveAt(observed_files_, k)
      shared == \E j \in DOMAIN left : DirOf[left[j].name] = DirOf[file.name]
  IN
  /\ guiPc = "idle" /\ ~Locked
  /\ Registered(t)
  /\ IF file.callbacks = {t}
       THEN /\ observed_files_' = left
            /\ wd' = [rm_watch(file.file_id) EXCEPT
                        ![DirOf[file.name]] = IF shared THEN @ ELSE -1]
            /\ unseen' = unseen \ {file.name}
       ELSE /\ observed_files_' = [observed_files_ EXCEPT ![k].callbacks = @ \ {t}]
            /\ UNCHANGED <<wd, unseen>>
  /\ UNCHANGED <<inode, nextWd, events, running_, breakingPipe, towerVars, guiPc,
                 fileOps, registers, missed>>

(* Bug: the thread is told to end but not woken. *)
close_NoInterrupt ==
  /\ guiPc = "idle"
  /\ running_' = FALSE
  /\ guiPc' = "closing"
  /\ UNCHANGED <<kernelVars, observed_files_, breakingPipe, towerVars, fileOps,
                 registers, unseen, missed>>

(* ~WatchTower(), and its join(). *)
close ==
  /\ guiPc = "idle"
  /\ running_' = FALSE
  /\ breakingPipe' = TRUE
  /\ guiPc' = "closing"
  /\ UNCHANGED <<kernelVars, observed_files_, towerVars, fileOps, registers,
                 unseen, missed>>

join ==
  /\ guiPc = "closing" /\ towerPc = "stopped"
  /\ guiPc' = "closed"
  /\ UNCHANGED <<kernelVars, observed_files_, running_, breakingPipe, towerVars,
                 fileOps, registers, unseen, missed>>

-----------------------------------------------------------------------------
(* The thread: run(), and waitAndProcessEvents() within it.                *)

(* searchByFileOrSymlinkWd() and searchByDirWdAndName() *)
FileOf(e) ==
  IF e.is = "self"
    THEN {observed_files_[k].name : k \in
            {j \in DOMAIN observed_files_ :
               /\ observed_files_[j].file_id = e.wd
               /\ \A i \in 1 .. j - 1 : observed_files_[i].file_id # e.wd}}
    ELSE {e.name} \cap Observed \cap
           {n \in Names : DirWatched(DirOf[n]) /\ wd[DirOf[n]] = e.wd}

FilesToNotify(read) == UNION {FileOf(e) : e \in ToSet(read)}

(* Bug: a name that comes back is not watched again. *)
FilesNeedingReadding_None(read) == <<>>

(* The names that may be other files now, in the order of their events. *)
FilesNeedingReadding(read) ==
  [k \in {j \in DOMAIN read : read[j].is = "dir" /\ FileOf(read[j]) # {}} |->
     read[k].name]

(* Bug: the callbacks are called before the files are watched again. *)
waitAndProcessEvents_NotifyFirst ==
  /\ towerPc = "poll" /\ guiPc # "adding"
  /\ \E n \in 0 .. Len(events) :
       /\ n = 0 => breakingPipe
       /\ breakingPipe' \in (IF n = 0 THEN {FALSE} ELSE {FALSE, breakingPipe})
       /\ files_needing_readding' = FilesNeedingReadding(SubSeq(events, 1, n))
       /\ unseen' = unseen \ FilesToNotify(SubSeq(events, 1, n))
       /\ events' = SubSeq(events, n + 1, Len(events))
  /\ towerPc' = "readd"
  /\ UNCHANGED <<inode, wd, nextWd, observed_files_, running_, guiPc, fileOps,
                 registers, missed, files_to_notify>>

(* poll() returns, and the lock is taken again. *)
waitAndProcessEvents ==
  /\ towerPc = "poll" /\ guiPc # "adding"
  /\ \E n \in 0 .. Len(events) :
       /\ n = 0 => breakingPipe
       /\ breakingPipe' \in (IF n = 0 THEN {FALSE} ELSE {FALSE, breakingPipe})
       /\ files_needing_readding' = FilesNeedingReadding(SubSeq(events, 1, n))
       /\ files_to_notify' = FilesToNotify(SubSeq(events, 1, n))
       /\ events' = SubSeq(events, n + 1, Len(events))
  /\ towerPc' = "readd"
  /\ UNCHANGED <<inode, wd, nextWd, observed_files_, running_, guiPc, fileOps,
                 registers, unseen, missed>>

readd ==
  LET first == Min(DOMAIN files_needing_readding)
      n == files_needing_readding[first]
      left == rm_watch(observed_files_[IndexOf(n)].file_id)
  IN
  /\ towerPc = "readd" /\ DOMAIN files_needing_readding # {}
  /\ IF inode[n] = None
       THEN /\ observed_files_' = [observed_files_ EXCEPT ![IndexOf(n)].file_id = -1]
            /\ wd' = left
            /\ UNCHANGED nextWd
       ELSE /\ add_watch(inode[n], left)
            /\ observed_files_' =
                 [observed_files_ EXCEPT ![IndexOf(n)].file_id = wd'[inode[n]]]
  /\ files_needing_readding' =
       Restrict(files_needing_readding, DOMAIN files_needing_readding \ {first})
  /\ UNCHANGED <<inode, events, running_, breakingPipe, towerPc, files_to_notify,
                 guiPc, fileOps, registers, unseen, missed>>

(* The callbacks are called, and the loop begun again. *)
notify ==
  /\ towerPc = "readd" /\ DOMAIN files_needing_readding = {}
  /\ unseen' = unseen \ files_to_notify
  /\ files_to_notify' = {}
  /\ towerPc' = IF running_ THEN "poll" ELSE "stopped"
  /\ UNCHANGED <<kernelVars, observed_files_, running_, breakingPipe,
                 files_needing_readding, guiPc, fileOps, registers, missed>>

-----------------------------------------------------------------------------
Client ==
  \/ \E t \in Tabs, n \in Names : addCallback(t, n) \/ addFile(t, n)
  \/ \E t \in Tabs : removeNotification(t)
  \/ addDir \/ close \/ join

Tower == waitAndProcessEvents \/ readd \/ notify

Next == ChangeFiles \/ Client \/ Tower

Spec == Init /\ [][Next]_vars
FairSpec == Spec /\ WF_vars(Tower) /\ WF_vars(addDir) /\ WF_vars(join)

-----------------------------------------------------------------------------
Idle == towerPc = "poll" /\ guiPc = "idle" /\ events = <<>>

(* Every name that is observed and exists has its inode watched, under the *)
(* descriptor that leads back to it, once all events are treated: renames  *)
(* and removals that come between and within the passes over the files are *)
(* made up for, also where two names had the same inode for a moment.      *)
WatchedUnder(n) ==
  wd[inode[n]] # -1 /\ wd[inode[n]] = observed_files_[IndexOf(n)].file_id
QuietMeansWatched ==
  Idle /\ ~missed => \A n \in Observed : inode[n] # None => WatchedUnder(n)

(* "It will be notified to any change (creation/deletion/modification) on  *)
(* those files": no change is left unannounced.                            *)
QuietMeansNotified == Idle /\ ~missed => unseen = {}

(* What is watched in the kernel is what somebody observes: closing logs   *)
(* leaves no watch behind, whatever happened to the files meanwhile.       *)
WatchesOwned ==
  /\ \A i \in Inodes : wd[i] # -1 =>
       \E k \in DOMAIN observed_files_ : observed_files_[k].file_id = wd[i]
  /\ \A d \in Dirs : wd[d] # -1 <=> DirWatched(d)

(* The files the thread is about to watch again or to notify for are still *)
(* in the list: the pointers it keeps to them across its steps are good.   *)
PointersAlive == Range(files_needing_readding) \cup files_to_notify \subseteq Observed

(* What the threads share stays consistent between their turns with the    *)
(* lock: the list of files, the watches of the kernel and the pointers.    *)
Consistent == TypeOK /\ WatchesOwned /\ PointersAlive

(* The thread ends when the tower is destroyed, whatever it was at. *)
TowerStops == guiPc = "closing" ~> guiPc = "closed"
=============================================================================
