--------------------------- MODULE WatchTowerProofs ---------------------------
(***************************************************************************)
(* What the threads share stays consistent, for any clients, files,        *)
(* directories and inodes, and whatever happens to the files.              *)
(*                                                                         *)
(* Consistent is not inductive.  A descriptor taken from a file that was   *)
(* replaced must not be that of a directory, or else watching the file     *)
(* again would end the watch of the directory (Apart).  And the list is    *)
(* complete whenever the lock is free: the one file whose directory is not *)
(* watched yet is the one that addFile() is at (Turns).                    *)
(*                                                                         *)
(* For files of one directory, moreover, every file is watched and every   *)
(* change is told once all is treated (QuietInv).  A descriptor that the   *)
(* list has for one name may be another file's by a rename; giving it up   *)
(* does no harm only because that file is watched again later, and this is *)
(* so because the event of the name that a file is renamed from comes      *)
(* before that of the name it is renamed to (StaleInv).                    *)
(***************************************************************************)
EXTENDS WatchTower, TLAPS, WellFoundedInduction

EventBelow(n) ==
  [is : {"self"}, wd : 1 .. n - 1] \cup [is : {"dir"}, wd : 1 .. n - 1, name : Names]

Kernel ==
  /\ inode \in [Names -> Inodes \cup {None}]
  /\ nextWd \in Nat \ {0}
  /\ wd \in [Inodes \cup Dirs -> {-1} \cup 1 .. nextWd - 1]
  /\ events \in Seq(EventBelow(nextWd))

List ==
  /\ observed_files_ \in Seq(ObservedFile)
  /\ \A j, k \in DOMAIN observed_files_ :
       observed_files_[j].name = observed_files_[k].name => j = k
  /\ \A k \in DOMAIN observed_files_ :
       observed_files_[k].file_id \in {-1} \cup 1 .. nextWd - 1

Apart ==
  \A d \in Dirs : wd[d] # -1 =>
    /\ \A i \in Inodes : wd[i] # wd[d]
    /\ \A k \in DOMAIN observed_files_ : observed_files_[k].file_id # wd[d]

Turns ==
  /\ towerPc \in {"poll", "readd", "stopped"}
  /\ guiPc \in {"idle", "adding", "closing", "closed"}
  /\ DOMAIN files_needing_readding \subseteq Nat
  /\ towerPc # "readd" => DOMAIN files_needing_readding = {} /\ files_to_notify = {}
  /\ guiPc # "adding" => \A k \in DOMAIN observed_files_ : observed_files_[k].dir_
  /\ guiPc = "adding" =>
       /\ towerPc = "poll" /\ 1 \in DOMAIN observed_files_
       /\ \A k \in DOMAIN observed_files_ : k # 1 => observed_files_[k].dir_
       /\ ~DirWatched(DirOf[observed_files_[1].name])

History == unseen \subseteq Observed /\ missed \in BOOLEAN

IInv == /\ Kernel /\ List /\ Apart /\ Turns /\ History
        /\ WatchesOwned /\ PointersAlive

-----------------------------------------------------------------------------
(* What is to be shown holds at the beginning and follows from IInv.       *)

(* An empty list, no watches, and no pointers kept: the tower as it is created. *)
LEMMA Initially == Init => IInv
<1> SUFFICES ASSUME Init PROVE IInv
  OBVIOUS
<1>1. FirstInode \in [Names -> Inodes]
  BY NamesAssumption DEF FirstInode
<1>2. Kernel
  <2>1. inode \in [Names -> Inodes \cup {None}]
    BY <1>1 DEF Init
  <2>2. events \in Seq(EventBelow(nextWd))
    BY DEF Init
  <2> QED
    BY <2>1, <2>2 DEF Init, Kernel
<1>0. List /\ Apart
  BY DEF Init, List, Apart
<1>3. Turns
  <2>1. /\ towerPc = "poll" /\ guiPc = "idle" /\ files_to_notify = {}
        /\ DOMAIN files_needing_readding = {} /\ DOMAIN observed_files_ = {}
    BY DEF Init
  <2> QED
    BY <2>1 DEF Turns
<1>5. History
  BY DEF Init, History
<1>6. PointersAlive
  <2>1. DOMAIN files_needing_readding = {} /\ files_to_notify = {}
    BY DEF Init
  <2> QED
    BY <2>1 DEF PointersAlive, Range
<1>4. WatchesOwned
  BY DEF Init, WatchesOwned, DirWatched
<1> QED
  BY <1>0, <1>2, <1>3, <1>4, <1>5, <1>6 DEF IInv

(* Consistent is the part of the invariant that is about the tower. *)
LEMMA Suffices == IInv => Consistent
<1> SUFFICES ASSUME IInv PROVE Consistent
  OBVIOUS
<1>1. \A e \in ToSet(events) : e.wd \in 1 .. nextWd - 1
  BY DEF IInv, Kernel, EventBelow, ToSet
<1>2. IsInjective([k \in DOMAIN observed_files_ |-> observed_files_[k].name])
  BY DEF IInv, List, IsInjective
<1>3. wd \in [Inodes \cup Dirs -> -1 .. nextWd - 1]
  BY DEF IInv, Kernel
<1> QED
  BY <1>1, <1>2, <1>3 DEF IInv, Kernel, List, Turns, History, TypeOK, Consistent

-----------------------------------------------------------------------------
(* A set of numbers that is not empty has a smallest. *)
LEMMA MinIsIn ==
  ASSUME NEW S \in SUBSET Nat, S # {}
  PROVE  Min(S) \in S /\ \A y \in S : Min(S) <= y
<1> DEFINE R == OpToRel(<, Nat)
<1>1. \A x, y \in Nat : <<y, x>> \in R <=> y < x
  BY DEF OpToRel
<1>2. IsWellFoundedOn(R, Nat)
  BY NatLessThanWellFounded
<1> HIDE DEF R
<1>3. PICK x \in S : \A y \in S : ~(<<y, x>> \in R)
  BY <1>2, WFMin, Zenon
<1>4. ASSUME NEW y \in S PROVE x <= y
  <2>1. x \in Nat /\ y \in Nat
    OBVIOUS
  <2>2. ~(y < x)
    BY <1>1, <1>3, <2>1, Zenon
  <2> QED
    BY <2>1, <2>2
<1> QED
  BY <1>4 DEF Min

(* A list without its element at k. *)
LEMMA RemovedAt ==
  ASSUME NEW S, NEW s \in Seq(S), NEW k \in DOMAIN s
  PROVE  /\ RemoveAt(s, k) \in Seq(S)
         /\ Len(RemoveAt(s, k)) = Len(s) - 1
         /\ \A j \in 1 .. Len(s) - 1 :
              RemoveAt(s, k)[j] = IF j < k THEN s[j] ELSE s[j + 1]
<1>1. k \in 1 .. Len(s)
  OBVIOUS
<1> DEFINE l == SubSeq(s, 1, k - 1)
           r == SubSeq(s, k + 1, Len(s))
<1>2. l \in Seq(S) /\ Len(l) = k - 1 /\ \A j \in 1 .. k - 1 : l[j] = s[j]
  BY <1>1
<1>3. r \in Seq(S) /\ Len(r) = Len(s) - k /\ \A j \in 1 .. Len(s) - k : r[j] = s[j + k]
  BY <1>1
<1>4. RemoveAt(s, k) = l \o r
  BY DEF RemoveAt
<1> HIDE DEF l, r
<1>5. l \o r \in Seq(S) /\ Len(l \o r) = Len(s) - 1
  BY <1>2, <1>3
<1>6. ASSUME NEW j \in 1 .. Len(s) - 1
      PROVE  (l \o r)[j] = IF j < k THEN s[j] ELSE s[j + 1]
  <2>1. (l \o r)[j] = IF j <= Len(l) THEN l[j] ELSE r[j - Len(l)]
    BY <1>1, <1>2, <1>3, SMTT(30)
  <2>2. CASE j < k
    BY <1>1, <1>2, <2>1, <2>2
  <2>3. CASE ~(j < k)
    <3>1. j - (k - 1) \in 1 .. Len(s) - k /\ (j - (k - 1)) + k = j + 1
      BY <1>1, <2>3
    <3>2. ~(j <= Len(l)) /\ ~(j < k) /\ j - Len(l) = j - (k - 1)
      BY <1>1, <1>2, <2>3
    <3>3. r[j - (k - 1)] = s[j + 1]
      BY <1>3, <3>1
    <3> QED
      BY <2>1, <3>2, <3>3
  <2> QED
    BY <2>2, <2>3
<1> QED
  BY <1>4, <1>5, <1>6

(* Each name that is observed is in the list, at its index. *)
LEMMA IndexOfName ==
  ASSUME NEW n \in Observed
  PROVE  IndexOf(n) \in DOMAIN observed_files_ /\ observed_files_[IndexOf(n)].name = n
BY DEF Observed, IndexOf

(* More descriptors, and the events of those there were. *)
LEMMA EventsStay ==
  ASSUME NEW m \in Nat, NEW n \in Nat, m <= n, NEW s \in Seq(EventBelow(m))
  PROVE  s \in Seq(EventBelow(n))
<1>1. EventBelow(m) \subseteq EventBelow(n)
  BY DEF EventBelow
<1> QED
  BY <1>1

-----------------------------------------------------------------------------
(* What other programs do: the kernel ends watches of inodes only.         *)

(* A watch may end and events may come while the list stays as it is. *)
LEMMA KernelChanges ==
  ASSUME IInv, inode' \in [Names -> Inodes \cup {None}],
         events' \in Seq(EventBelow(nextWd)), nextWd' = nextWd,
         wd' = wd \/ \E i \in Inodes : wd' = [wd EXCEPT ![i] = -1],
         unseen' \subseteq Observed, missed' \in BOOLEAN,
         UNCHANGED <<observed_files_, towerVars, guiPc>>
  PROVE  IInv'
<1>1. /\ wd' \in [Inodes \cup Dirs -> {-1} \cup 1 .. nextWd - 1]
      /\ \A d \in Dirs : wd'[d] = wd[d]
      /\ \A i \in Inodes : wd'[i] \in {wd[i], -1}
  BY NamesAssumption DEF IInv, Kernel
<1>2. Kernel'
  BY <1>1 DEF IInv, Kernel, EventBelow
<1>3. List' /\ Observed' = Observed
  BY DEF IInv, List, Observed
<1>4. Apart'
  BY <1>1 DEF IInv, Apart, Kernel
<1>5. \A d : DirWatched(d)' <=> DirWatched(d)
  BY DEF DirWatched
<1>6. Turns'
  BY <1>5 DEF IInv, Turns, towerVars
<1>7. WatchesOwned'
  BY <1>1, <1>5 DEF IInv, WatchesOwned
<1>8. PointersAlive' /\ History'
  BY <1>3 DEF IInv, PointersAlive, History, towerVars
<1> QED
  BY <1>2, <1>3, <1>4, <1>6, <1>7, <1>8 DEF IInv

(* The events of a file and of a name are of watches there are. *)
LEMMA NewEvents ==
  ASSUME Kernel
  PROVE  /\ \A i \in Inodes : SelfEvent(i) \in Seq(EventBelow(nextWd))
         /\ \A n \in Names : DirEvent(n) \in Seq(EventBelow(nextWd))
<1> DEFINE E == EventBelow(nextWd)
<1>1. ASSUME NEW i \in Inodes
      PROVE  SelfEvent(i) \in Seq(E)
  <2>1. wd[i] # -1 => [is |-> "self", wd |-> wd[i]] \in E
    BY DEF Kernel, EventBelow
  <2> HIDE DEF E
  <2> QED
    BY <2>1 DEF SelfEvent
<1>2. ASSUME NEW n \in Names
      PROVE  DirEvent(n) \in Seq(E)
  <2>1. DirOf[n] \in Dirs
    BY NamesAssumption
  <2>2. wd[DirOf[n]] # -1 => [is |-> "dir", wd |-> wd[DirOf[n]], name |-> n] \in E
    BY <2>1 DEF Kernel, EventBelow
  <2> HIDE DEF E
  <2> QED
    BY <2>2 DEF DirEvent
<1> QED
  BY <1>1, <1>2

(* The events queued are of watches there are, also when some are dropped. *)
LEMMA Queued ==
  ASSUME Kernel, NEW new \in Seq(EventBelow(nextWd)), Queue(new)
  PROVE  events' \in Seq(EventBelow(nextWd))
<1> DEFINE E == EventBelow(nextWd)
<1>1. events \in Seq(E)
  BY DEF Kernel
<1> HIDE DEF E
<1>2. new \in Seq(E)
  BY DEF E
<1>3. CASE new # <<>> /\ events # <<>> /\ Last(events) = Head(new)
  <2>1. events' = events \o Tail(new)
    BY <1>3 DEF Queue
  <2>2. Tail(new) \in Seq(E)
    BY <1>2, <1>3
  <2> QED
    BY <1>1, <2>1, <2>2 DEF E
<1>4. CASE ~(new # <<>> /\ events # <<>> /\ Last(events) = Head(new))
  <2>1. events' = events \o new
    BY <1>4 DEF Queue
  <2> QED
    BY <1>1, <1>2, <2>1 DEF E
<1> QED
  BY <1>3, <1>4

(* Files created, written, replaced or removed by other programs. *)
LEMMA FilesChange == IInv /\ ChangeFiles => IInv'
<1> SUFFICES ASSUME IInv, ChangeFiles PROVE IInv'
  OBVIOUS
<1>0. Kernel /\ History
  BY DEF IInv
<1>1. PICK m \in Names, n \in Names : Modify(n) \/ Create(n) \/ Delete(n) \/ Rename(m, n)
  BY DEF ChangeFiles
<1>2. nextWd' = nextWd /\ UNCHANGED <<observed_files_, towerVars, guiPc>>
  BY DEF ChangeFiles
<1>3. CASE Modify(n)
  <2>1. inode[n] \in Inodes
    BY <1>0, <1>3 DEF Modify, Kernel
  <2>2. events' \in Seq(EventBelow(nextWd))
    BY <1>0, <1>3, <2>1, NewEvents, Queued DEF Modify
  <2> QED
    BY <1>0, <1>2, <1>3, <2>2, KernelChanges DEF Modify, Kernel, History
<1>4. CASE Create(n)
  <2> DEFINE free == {i \in Inodes : NamesOf(i) = {} /\ wd[i] = -1}
  <2>1. inode' = [inode EXCEPT ![n] = CHOOSE i \in free : TRUE] /\ free # {}
    BY <1>4 DEF Create
  <2>2. inode' \in [Names -> Inodes \cup {None}]
    BY <1>0, <2>1 DEF Kernel
  <2>3. events' \in Seq(EventBelow(nextWd))
    BY <1>0, <1>4, NewEvents, Queued DEF Create
  <2>4. wd' = wd /\ unseen' \subseteq Observed /\ missed' \in BOOLEAN
    BY <1>0, <1>4 DEF Create, Replaced, History
  <2> QED
    BY <1>2, <2>2, <2>3, <2>4, KernelChanges
<1>5. CASE Delete(n)
  <2>1. inode[n] \in Inodes /\ inode' \in [Names -> Inodes \cup {None}]
    BY <1>0, <1>5 DEF Delete, Kernel
  <2>2. events' \in Seq(EventBelow(nextWd))
    BY <1>0, <1>5, <2>1, NewEvents, Queued DEF Delete, Gone, Kernel
  <2>3. /\ wd' = wd \/ wd' = [wd EXCEPT ![inode[n]] = -1]
        /\ unseen' \subseteq Observed /\ missed' \in BOOLEAN
    BY <1>0, <1>5 DEF Delete, Gone, History
  <2> QED
    BY <1>2, <2>1, <2>2, <2>3, KernelChanges
<1>6. CASE Rename(m, n)
  <2>1. /\ inode[m] \in Inodes /\ inode[n] \in Inodes \cup {None}
        /\ inode' \in [Names -> Inodes \cup {None}]
    BY <1>0, <1>6 DEF Rename, Kernel
  <2>2. PICK gone \in {FALSE, inode[n] # None} :
          /\ Queue(DirEvent(m) \o DirEvent(n)
                   \o (IF gone THEN SelfEvent(inode[n]) ELSE <<>>)
                   \o SelfEvent(inode[m]))
          /\ wd' = IF gone THEN [wd EXCEPT ![inode[n]] = -1] ELSE wd
    BY <1>6 DEF Rename
  <2>3. gone => inode[n] \in Inodes
    BY <2>1, <2>2
  <2> DEFINE new == DirEvent(m) \o DirEvent(n)
                    \o (IF gone THEN SelfEvent(inode[n]) ELSE <<>>)
                    \o SelfEvent(inode[m])
  <2>4. new \in Seq(EventBelow(nextWd))
    <3> DEFINE a == DirEvent(m)
               b == DirEvent(n)
               c == IF gone THEN SelfEvent(inode[n]) ELSE <<>>
               e == SelfEvent(inode[m])
               E == EventBelow(nextWd)
    <3>1. a \in Seq(E) /\ b \in Seq(E) /\ e \in Seq(E) /\ c \in Seq(E)
      BY <1>0, <2>1, <2>3, NewEvents
    <3> HIDE DEF a, b, c, e, E
    <3>2. a \o b \o c \o e \in Seq(E)
      BY <3>1
    <3> QED
      BY <3>2 DEF a, b, c, e, E
  <2>5. events' \in Seq(EventBelow(nextWd))
    BY <1>0, <2>2, <2>4, Queued
  <2>6. wd' = wd \/ \E i \in Inodes : wd' = [wd EXCEPT ![i] = -1]
    BY <2>2, <2>3
  <2>7. unseen' \subseteq Observed /\ missed' \in BOOLEAN
    BY <1>0, <1>6 DEF Rename, Replaced, History
  <2> QED
    BY <1>2, <2>1, <2>5, <2>6, <2>7, KernelChanges
<1> QED
  BY <1>1, <1>3, <1>4, <1>5, <1>6

-----------------------------------------------------------------------------
(* The clients.                                                            *)

(* Changes of the callbacks only. *)
LEMMA CallbacksChange ==
  ASSUME IInv, NEW k \in DOMAIN observed_files_, NEW c \in (SUBSET Tabs) \ {{}},
         observed_files_' = [observed_files_ EXCEPT ![k].callbacks = c],
         UNCHANGED <<kernelVars, towerVars, guiPc, unseen, missed>>
  PROVE  IInv'
<1> DEFINE f == [observed_files_[k] EXCEPT !.callbacks = c]
<1>a. observed_files_ \in Seq(ObservedFile)
  BY DEF IInv, List
<1>b. /\ f \in ObservedFile
      /\ f.name = observed_files_[k].name
      /\ f.file_id = observed_files_[k].file_id
      /\ f.dir_ = observed_files_[k].dir_
  <2>1. observed_files_[k] \in ObservedFile
    BY <1>a
  <2> QED
    BY <2>1 DEF ObservedFile
<1>c. observed_files_' = [observed_files_ EXCEPT ![k] = f]
  OBVIOUS
<1> HIDE DEF f
<1>1. /\ observed_files_' \in Seq(ObservedFile)
      /\ DOMAIN observed_files_' = DOMAIN observed_files_
      /\ \A j \in DOMAIN observed_files_ :
           /\ observed_files_'[j].name = observed_files_[j].name
           /\ observed_files_'[j].file_id = observed_files_[j].file_id
           /\ observed_files_'[j].dir_ = observed_files_[j].dir_
  BY <1>a, <1>b, <1>c
<1>2. Kernel' /\ List' /\ Apart'
  BY <1>1 DEF IInv, Kernel, EventBelow, List, Apart, kernelVars
<1>3. Observed' = Observed
  BY <1>1 DEF Observed
<1>4. \A d : DirWatched(d)' <=> DirWatched(d)
  BY <1>1, Zenon DEF DirWatched
<1>5. Turns'
  BY <1>1, <1>4, Zenon DEF IInv, Turns, towerVars
<1>6. WatchesOwned'
  <2>1. wd' = wd
    BY DEF kernelVars
  <2>2. \A i \in Inodes : wd[i] # -1 =>
          \E j \in DOMAIN observed_files_' : observed_files_'[j].file_id = wd[i]
    <3> TAKE i \in Inodes
    <3> HAVE wd[i] # -1
    <3>1. PICK j \in DOMAIN observed_files_ : observed_files_[j].file_id = wd[i]
      BY Zenon DEF IInv, WatchesOwned
    <3> QED
      BY <1>1, <3>1, Zenon
  <2> QED
    BY <1>4, <2>1, <2>2, Zenon DEF IInv, WatchesOwned
<1>7. PointersAlive' /\ History'
  BY <1>3 DEF IInv, PointersAlive, History, towerVars
<1> QED
  BY <1>2, <1>5, <1>6, <1>7 DEF IInv

(* addFile() of a name that is observed already. *)
LEMMA CallbackAdded ==
  ASSUME IInv, NEW t \in Tabs, NEW n \in Names, addCallback(t, n)
  PROVE  IInv'
<1> DEFINE k == IndexOf(n)
           c == observed_files_[k].callbacks \cup {t}
<1>1. k \in DOMAIN observed_files_
  BY IndexOfName DEF addCallback
<1>2. observed_files_' = [observed_files_ EXCEPT ![k].callbacks = c]
  BY DEF addCallback
<1>3. c \in (SUBSET Tabs) \ {{}}
  <2>1. observed_files_[k] \in ObservedFile
    BY <1>1 DEF IInv, List
  <2> QED
    BY <2>1 DEF ObservedFile
<1> HIDE DEF k, c
<1> QED
  BY <1>1, <1>2, <1>3, CallbacksChange DEF addCallback

(* A list with one more file in front. *)
LEMMA InFront ==
  ASSUME NEW S, NEW s \in Seq(S), NEW e \in S
  PROVE  /\ <<e>> \o s \in Seq(S)
         /\ DOMAIN (<<e>> \o s) = 1 .. Len(s) + 1
         /\ (<<e>> \o s)[1] = e
         /\ \A j \in DOMAIN s : j + 1 \in DOMAIN (<<e>> \o s) /\ (<<e>> \o s)[j + 1] = s[j]
         /\ \A j \in DOMAIN (<<e>> \o s) :
              j = 1 \/ (j - 1 \in DOMAIN s /\ (<<e>> \o s)[j] = s[j - 1])
OBVIOUS

(* A new file in front of the list, watched under id or not at all, and    *)
(* what becomes of the watches. *)
LEMMA FileAdded ==
  ASSUME IInv, guiPc = "idle", towerPc = "poll",
         NEW f \in ObservedFile, f.name \notin Observed,
         observed_files_' = <<f>> \o observed_files_,
         f.dir_ <=> DirWatched(DirOf[f.name]),
         nextWd' \in Nat, nextWd <= nextWd',
         wd' \in [Inodes \cup Dirs -> {-1} \cup 1 .. nextWd' - 1],
         \A d \in Dirs : wd'[d] = wd[d],
         \A i \in Inodes : wd'[i] = wd[i] \/ wd'[i] = f.file_id,
         f.file_id \in {-1} \cup 1 .. nextWd' - 1,
         f.file_id \in {-1, nextWd} \cup {wd[i] : i \in Inodes},
         guiPc' = IF f.dir_ THEN "idle" ELSE "adding",
         UNCHANGED <<inode, events, towerVars, unseen, missed>>
  PROVE  IInv'
<1> DEFINE new == <<f>> \o observed_files_
<1>1. /\ new \in Seq(ObservedFile) /\ DOMAIN new = 1 .. Len(observed_files_) + 1
      /\ new[1] = f /\ 1 \in DOMAIN new
      /\ \A j \in DOMAIN observed_files_ : j + 1 \in DOMAIN new /\ new[j + 1] = observed_files_[j]
      /\ \A j \in DOMAIN new :
           j = 1 \/ (j - 1 \in DOMAIN observed_files_ /\ new[j] = observed_files_[j - 1])
  BY InFront DEF IInv, List
<1>2. observed_files_' = new
  OBVIOUS
<1> HIDE DEF new
<1>3. Kernel'
  BY EventsStay DEF IInv, Kernel
<1>4. Observed' = Observed \cup {f.name}
  BY <1>1, <1>2 DEF Observed
<1>5. List'
  <2>1. \A j \in DOMAIN observed_files_ : observed_files_[j].name # f.name
    BY DEF Observed
  <2>2. \A j, k \in DOMAIN new : new[j].name = new[k].name => j = k
    <3> SUFFICES ASSUME NEW j \in DOMAIN new, NEW k \in DOMAIN new,
                        new[j].name = new[k].name
                 PROVE  j = k
      OBVIOUS
    <3>1. ASSUME NEW i \in DOMAIN new, i # 1 PROVE new[i].name # f.name
      <4>1. i - 1 \in DOMAIN observed_files_ /\ new[i] = observed_files_[i - 1]
        BY <1>1, <3>1
      <4> QED
        BY <2>1, <4>1
    <3>2. CASE j = 1
      BY <1>1, <3>1, <3>2
    <3>3. CASE k = 1
      BY <1>1, <3>1, <3>3
    <3>4. CASE j # 1 /\ k # 1
      <4>1. /\ j - 1 \in DOMAIN observed_files_ /\ new[j] = observed_files_[j - 1]
            /\ k - 1 \in DOMAIN observed_files_ /\ new[k] = observed_files_[k - 1]
        BY <1>1, <3>4
      <4>2. j - 1 = k - 1
        BY <4>1 DEF IInv, List
      <4> QED
        BY <1>1, <4>2
    <3> QED
      BY <3>2, <3>3, <3>4
  <2>3. \A k \in DOMAIN new : new[k].file_id \in {-1} \cup 1 .. nextWd' - 1
    <3> TAKE k \in DOMAIN new
    <3>1. CASE k = 1
      BY <1>1, <3>1, Zenon
    <3>2. CASE k # 1
      <4>1. new[k].file_id \in {-1} \cup 1 .. nextWd - 1
        BY <1>1, <3>2, Zenon DEF IInv, List
      <4> QED
        BY <4>1 DEF IInv, Kernel
    <3> QED
      BY <3>1, <3>2
  <2> QED
    BY <1>1, <1>2, <2>2, <2>3 DEF List
<1>6. Apart'
  <2> SUFFICES ASSUME NEW d \in Dirs, wd[d] # -1
               PROVE  /\ \A i \in Inodes : wd'[i] # wd[d]
                      /\ \A k \in DOMAIN new : new[k].file_id # wd[d]
    BY <1>2 DEF Apart
  <2>1. f.file_id # wd[d]
    BY DEF IInv, Apart, Kernel
  <2>2. /\ \A i \in Inodes : wd[i] # wd[d]
        /\ \A k \in DOMAIN observed_files_ : observed_files_[k].file_id # wd[d]
    BY DEF IInv, Apart
  <2>3. \A i \in Inodes : wd'[i] # wd[d]
    BY <2>1, <2>2, Zenon
  <2>4. ASSUME NEW k \in DOMAIN new PROVE new[k].file_id # wd[d]
    <3>1. CASE k = 1
      BY <1>1, <2>1, <3>1
    <3>2. CASE k # 1
      <4>1. k - 1 \in DOMAIN observed_files_ /\ new[k] = observed_files_[k - 1]
        BY <1>1, <3>2
      <4> QED
        BY <2>2, <4>1
    <3> QED
      BY <3>1, <3>2
  <2> QED
    BY <2>3, <2>4
<1>7. \A d : DirWatched(d)' <=> DirWatched(d)
  <2> SUFFICES ASSUME NEW d PROVE DirWatched(d)' <=> DirWatched(d)
    OBVIOUS
  <2>1. ASSUME DirWatched(d) PROVE DirWatched(d)'
    <3>1. PICK j \in DOMAIN observed_files_ :
            observed_files_[j].dir_ /\ DirOf[observed_files_[j].name] = d
      BY <2>1 DEF DirWatched
    <3>2. j + 1 \in DOMAIN observed_files_' /\ observed_files_'[j + 1] = observed_files_[j]
      BY <1>1, <1>2
    <3> QED
      BY <3>1, <3>2, Zenon DEF DirWatched
  <2>2. ASSUME DirWatched(d)' PROVE DirWatched(d)
    <3>1. PICK j \in DOMAIN new : new[j].dir_ /\ DirOf[new[j].name] = d
      BY <1>2, <2>2 DEF DirWatched
    <3>2. CASE j = 1
      BY <1>1, <3>1, <3>2, Zenon
    <3>3. CASE j # 1
      BY <1>1, <3>1, <3>3, Zenon DEF DirWatched
    <3> QED
      BY <3>2, <3>3
  <2> QED
    BY <2>1, <2>2
<1>8. Turns'
  <2>1. \A k \in DOMAIN new : k # 1 => new[k].dir_
    BY <1>1, Zenon DEF IInv, Turns
  <2>2. CASE f.dir_
    <3>1. guiPc' = "idle" /\ \A k \in DOMAIN new : new[k].dir_
      BY <1>1, <2>1, <2>2, Zenon
    <3> QED
      BY <1>2, <3>1 DEF IInv, Turns, towerVars
  <2>3. CASE ~f.dir_
    <3>1. guiPc' = "adding"
      BY <2>3
    <3>2. ~DirWatched(DirOf[f.name])'
      BY <1>7, <2>3
    <3>3. ~DirWatched(DirOf[observed_files_[1].name])'
      BY <1>1, <1>2, <3>2, Zenon
    <3> QED
      BY <1>1, <1>2, <2>1, <3>1, <3>3 DEF IInv, Turns, towerVars
  <2> QED
    BY <2>2, <2>3
<1>9. WatchesOwned'
  <2>1. ASSUME NEW i \in Inodes, wd'[i] # -1
        PROVE  \E k \in DOMAIN new : new[k].file_id = wd'[i]
    <3>1. CASE wd'[i] = f.file_id
      BY <1>1, <3>1, Zenon
    <3>2. CASE wd'[i] = wd[i]
      <4>1. PICK j \in DOMAIN observed_files_ : observed_files_[j].file_id = wd[i]
        BY <2>1, <3>2 DEF IInv, WatchesOwned
      <4>2. j + 1 \in DOMAIN new /\ new[j + 1] = observed_files_[j]
        BY <1>1
      <4> QED
        BY <3>2, <4>1, <4>2
    <3> QED
      BY <3>1, <3>2
  <2>2. \A d \in Dirs : wd'[d] # -1 <=> DirWatched(d)'
    BY <1>7, Zenon DEF IInv, WatchesOwned
  <2> QED
    BY <1>2, <2>1, <2>2, Zenon DEF WatchesOwned
<1>10. PointersAlive' /\ History'
  BY <1>4 DEF IInv, PointersAlive, History, towerVars
<1> QED
  BY <1>3, <1>5, <1>6, <1>8, <1>9, <1>10 DEF IInv

(* addFile() of a new name, up to the watch of its directory. *)
LEMMA FileIsAdded ==
  ASSUME IInv, NEW t \in Tabs, NEW n \in Names, addFile(t, n)
  PROVE  IInv'
<1> DEFINE id == IF inode[n] = None THEN -1 ELSE WatchedId(inode[n])
           f == [name |-> n, callbacks |-> {t}, file_id |-> id,
                 dir_ |-> DirWatched(DirOf[n])]
<1>1. /\ guiPc = "idle" /\ towerPc = "poll" /\ n \notin Observed
      /\ guiPc' = (IF DirWatched(DirOf[n]) THEN "idle" ELSE "adding")
      /\ UNCHANGED <<inode, events, towerVars, unseen, missed>>
  BY DEF addFile, Register, Locked
<1>2. observed_files_' = <<f>> \o observed_files_
  BY DEF addFile
<1>3. /\ id \in {-1} \cup 1 .. nextWd /\ nextWd' \in {nextWd, nextWd + 1}
      /\ id = nextWd => nextWd' = nextWd + 1
      /\ id \in {-1, nextWd} \cup {wd[i] : i \in Inodes}
      /\ wd' \in [Inodes \cup Dirs -> {-1} \cup 1 .. nextWd' - 1]
      /\ \A d \in Dirs : wd'[d] = wd[d]
      /\ \A i \in Inodes : wd'[i] = wd[i] \/ wd'[i] = id
  <2>1. CASE inode[n] = None
    BY <2>1 DEF addFile, IInv, Kernel
  <2>2. CASE inode[n] # None
    <3>1. inode[n] \in Inodes
      BY <2>2 DEF IInv, Kernel
    <3>2. /\ wd' = [wd EXCEPT ![inode[n]] = id]
          /\ id = IF wd[inode[n]] = -1 THEN nextWd ELSE wd[inode[n]]
          /\ nextWd' = IF wd[inode[n]] = -1 THEN nextWd + 1 ELSE nextWd
      BY <2>2, <3>1 DEF addFile, add_watch, WatchedId, IInv, Kernel
    <3> HIDE DEF id
    <3> QED
      BY <3>1, <3>2, NamesAssumption DEF IInv, Kernel
  <2> QED
    BY <2>1, <2>2
<1>4. /\ f.name = n /\ f.file_id = id
      /\ f.dir_ <=> DirWatched(DirOf[n])
      /\ f \in ObservedFile
  <2>1. DirWatched(DirOf[n]) \in BOOLEAN
    BY DEF DirWatched
  <2>2. id \in Int
    BY <1>3 DEF IInv, Kernel
  <2> HIDE DEF id
  <2> QED
    BY <2>1, <2>2 DEF ObservedFile
<1>5. nextWd \in Nat /\ nextWd' \in Nat /\ nextWd <= nextWd'
      /\ id \in {-1} \cup 1 .. nextWd' - 1
  BY <1>3 DEF IInv, Kernel
<1>6. guiPc' = IF f.dir_ THEN "idle" ELSE "adding"
  BY <1>1, <1>4
<1> HIDE DEF f, id
<1> QED
  BY <1>1, <1>2, <1>3, <1>4, <1>5, <1>6, FileAdded

(* addFile() goes on to watch the directory of the new name. *)
LEMMA DirIsAdded ==
  ASSUME IInv, addDir
  PROVE  IInv'
<1> DEFINE f == [observed_files_[1] EXCEPT !.dir_ = TRUE]
<1>1. /\ observed_files_ \in Seq(ObservedFile) /\ 1 \in DOMAIN observed_files_
      /\ observed_files_[1] \in ObservedFile /\ towerPc = "poll"
      /\ ~DirWatched(DirOf[observed_files_[1].name])
  BY DEF IInv, List, Turns, addDir
<1>2. PICK d \in Dirs : d = DirOf[observed_files_[1].name]
  BY <1>1, NamesAssumption DEF ObservedFile
<1>3. wd[d] = -1
  BY <1>1, <1>2 DEF IInv, WatchesOwned
<1>4. f \in ObservedFile /\ f.dir_ = TRUE /\ f.name = observed_files_[1].name
      /\ f.file_id = observed_files_[1].file_id
  BY <1>1 DEF ObservedFile
<1>5. /\ wd' = [wd EXCEPT ![d] = nextWd] /\ nextWd' = nextWd + 1 /\ guiPc' = "idle"
      /\ observed_files_' = [observed_files_ EXCEPT ![1] = f]
      /\ UNCHANGED <<inode, events, towerVars, unseen, missed>>
  BY <1>2, <1>3 DEF addDir, add_watch, IInv, Kernel
<1> HIDE DEF f
<1>6. /\ observed_files_' \in Seq(ObservedFile)
      /\ DOMAIN observed_files_' = DOMAIN observed_files_
      /\ \A j \in DOMAIN observed_files_ :
           /\ observed_files_'[j].name = observed_files_[j].name
           /\ observed_files_'[j].file_id = observed_files_[j].file_id
           /\ j # 1 => observed_files_'[j] = observed_files_[j]
      /\ observed_files_'[1].dir_ = TRUE
  BY <1>1, <1>4, <1>5
<1>7. /\ \A i \in Inodes : wd'[i] = wd[i]
      /\ wd'[d] = nextWd /\ \A e \in Dirs : e # d => wd'[e] = wd[e]
  BY <1>2, <1>5, NamesAssumption DEF IInv, Kernel
<1>8. Kernel'
  <2>1. wd' \in [Inodes \cup Dirs -> {-1} \cup 1 .. nextWd' - 1]
    BY <1>2, <1>5 DEF IInv, Kernel
  <2> QED
    BY <1>5, <2>1, EventsStay DEF IInv, Kernel
<1>9. List' /\ Observed' = Observed
  BY <1>5, <1>6 DEF IInv, Kernel, List, Observed
<1>10. Apart'
  <2>1. \A i \in Inodes : wd[i] # nextWd
    BY DEF IInv, Kernel
  <2>2. \A k \in DOMAIN observed_files_ : observed_files_[k].file_id # nextWd
    BY DEF IInv, List, Kernel
  <2> QED
    BY <1>6, <1>7, <2>1, <2>2 DEF IInv, Apart
<1>11. \A k \in DOMAIN observed_files_' : observed_files_'[k].dir_ = TRUE
  <2>1. \A k \in DOMAIN observed_files_ : k # 1 => observed_files_[k].dir_ = TRUE
    BY <1>1 DEF IInv, Turns, addDir, ObservedFile
  <2> QED
    BY <1>6, <2>1
<1>12. Turns'
  BY <1>1, <1>5, <1>11 DEF IInv, Turns, towerVars
<1>13. \A e \in Dirs : DirWatched(e)' <=> DirWatched(e) \/ e = d
  <2> SUFFICES ASSUME NEW e \in Dirs PROVE DirWatched(e)' <=> DirWatched(e) \/ e = d
    OBVIOUS
  <2>1. ASSUME DirWatched(e) PROVE DirWatched(e)'
    <3>1. PICK j \in DOMAIN observed_files_ : DirOf[observed_files_[j].name] = e
      BY <2>1 DEF DirWatched
    <3> QED
      BY <1>6, <1>11, <3>1 DEF DirWatched
  <2>2. DirWatched(d)'
    BY <1>1, <1>2, <1>6, <1>11 DEF DirWatched
  <2>3. ASSUME DirWatched(e)', e # d PROVE DirWatched(e)
    <3>1. PICK j \in DOMAIN observed_files_ : DirOf[observed_files_[j].name] = e
      BY <1>6, <2>3 DEF DirWatched
    <3>2. j # 1
      BY <1>2, <2>3, <3>1
    <3> QED
      BY <3>1, <3>2, Zenon DEF DirWatched, IInv, Turns, addDir
  <2>4. CASE e = d
    BY <2>2, <2>4, Zenon
  <2>5. CASE e # d
    BY <2>1, <2>3, <2>5, Zenon
  <2> QED
    BY <2>4, <2>5
<1>14. WatchesOwned'
  <2>1. ASSUME NEW i \in Inodes, wd'[i] # -1
        PROVE  \E k \in DOMAIN observed_files_' : observed_files_'[k].file_id = wd'[i]
    <3>1. PICK j \in DOMAIN observed_files_ : observed_files_[j].file_id = wd[i]
      BY <1>7, <2>1 DEF IInv, WatchesOwned
    <3> QED
      BY <1>6, <1>7, <3>1
  <2>2. \A e \in Dirs : wd'[e] # -1 <=> DirWatched(e)'
    <3> TAKE e \in Dirs
    <3>1. CASE e = d
      <4>1. wd'[e] # -1
        BY <1>7, <3>1 DEF IInv, Kernel
      <4> QED
        BY <1>13, <3>1, <4>1
    <3>2. CASE e # d
      BY <1>7, <1>13, <3>2 DEF IInv, WatchesOwned
    <3> QED
      BY <3>1, <3>2
  <2> QED
    BY <2>1, <2>2 DEF WatchesOwned
<1>15. PointersAlive' /\ History'
  BY <1>5, <1>9 DEF IInv, PointersAlive, History, towerVars
<1> QED
  BY <1>8, <1>9, <1>10, <1>12, <1>14, <1>15 DEF IInv

(* A file leaves the list with its last callback: its descriptor is given  *)
(* up, and the directory's with the last file in it. *)
LEMMA FileRemoved ==
  ASSUME IInv, towerPc = "poll", guiPc = "idle",
         NEW k \in DOMAIN observed_files_,
         observed_files_' = RemoveAt(observed_files_, k),
         LET file == observed_files_[k]
             left == RemoveAt(observed_files_, k)
             shared == \E j \in DOMAIN left : DirOf[left[j].name] = DirOf[file.name]
         IN  /\ wd' = [rm_watch(file.file_id) EXCEPT
                         ![DirOf[file.name]] = IF shared THEN @ ELSE -1]
             /\ unseen' = unseen \ {file.name},
         UNCHANGED <<inode, nextWd, events, towerVars, guiPc, missed>>
  PROVE  IInv'
<1> DEFINE f == observed_files_[k]
           d == DirOf[f.name]
           left == RemoveAt(observed_files_, k)
           shared == \E j \in DOMAIN left : DirOf[left[j].name] = d
<1>1. /\ observed_files_ \in Seq(ObservedFile) /\ f \in ObservedFile
      /\ f.name \in Names /\ d \in Dirs /\ f.file_id \in {-1} \cup 1 .. nextWd - 1
  <2>1. observed_files_ \in Seq(ObservedFile) /\ f.file_id \in {-1} \cup 1 .. nextWd - 1
    BY DEF IInv, List
  <2>2. f \in ObservedFile
    BY <2>1
  <2>3. f.name \in Names
    BY <2>2 DEF ObservedFile
  <2> QED
    BY <2>1, <2>2, <2>3, NamesAssumption
<1>2. /\ left \in Seq(ObservedFile) /\ DOMAIN left = 1 .. Len(observed_files_) - 1
      /\ \A j \in DOMAIN left :
           left[j] = IF j < k THEN observed_files_[j] ELSE observed_files_[j + 1]
  <2>1. /\ left \in Seq(ObservedFile) /\ Len(left) = Len(observed_files_) - 1
        /\ \A j \in 1 .. Len(observed_files_) - 1 :
             left[j] = IF j < k THEN observed_files_[j] ELSE observed_files_[j + 1]
    BY <1>1, RemovedAt
  <2> HIDE DEF left
  <2> QED
    BY <2>1
<1> HIDE DEF f, left
<1>3. \A j \in DOMAIN left : \E i \in DOMAIN observed_files_ :
        i # k /\ left[j] = observed_files_[i] /\ i = IF j < k THEN j ELSE j + 1
  BY <1>1, <1>2
<1>4. \A i \in DOMAIN observed_files_ : i # k =>
        \E j \in DOMAIN left : left[j] = observed_files_[i]
  <2> SUFFICES ASSUME NEW i \in DOMAIN observed_files_, i # k
               PROVE  \E j \in DOMAIN left : left[j] = observed_files_[i]
    OBVIOUS
  <2>1. CASE i < k
    BY <1>1, <1>2, <2>1
  <2>2. CASE i > k
    <3>1. i - 1 \in DOMAIN left /\ ~(i - 1 < k) /\ (i - 1) + 1 = i
      BY <1>1, <1>2, <2>2
    <3> QED
      BY <1>2, <3>1
  <2> QED
    BY <1>1, <2>1, <2>2
<1>5. observed_files_' = left /\ wd' = [rm_watch(f.file_id) EXCEPT ![d] = IF shared THEN @ ELSE -1]
      /\ unseen' = unseen \ {f.name}
  BY DEF f, left
<1>6. /\ wd' \in [Inodes \cup Dirs -> {-1} \cup 1 .. nextWd - 1]
      /\ \A i \in Inodes : wd'[i] = IF f.file_id # -1 /\ wd[i] = f.file_id THEN -1 ELSE wd[i]
      /\ \A e \in Dirs : e # d => wd'[e] = wd[e]
      /\ wd'[d] = IF shared THEN wd[d] ELSE -1
  <2> DEFINE rest == rm_watch(f.file_id)
  <2>2. rest = [w \in Inodes \cup Dirs |->
                  IF f.file_id # -1 /\ wd[w] = f.file_id THEN -1 ELSE wd[w]]
    BY DEF rm_watch, IInv, Kernel
  <2>3. wd' = [rest EXCEPT ![d] = IF shared THEN rest[d] ELSE -1]
    BY <1>5
  <2> HIDE DEF d, shared, rest
  <2>1. \A e \in Dirs : wd[e] # -1 => f.file_id # wd[e]
    BY DEF IInv, Apart, f
  <2> QED
    <3>1. /\ rest \in [Inodes \cup Dirs -> {-1} \cup 1 .. nextWd - 1]
          /\ \A e \in Dirs : rest[e] = wd[e]
      BY <2>1, <2>2 DEF IInv, Kernel
    <3>2. /\ wd' \in [Inodes \cup Dirs -> {-1} \cup 1 .. nextWd - 1]
          /\ wd'[d] = IF shared THEN rest[d] ELSE -1
          /\ \A w \in Inodes \cup Dirs : w # d => wd'[w] = rest[w]
      BY <1>1, <2>3, <3>1
    <3>3. \A i \in Inodes : i # d
      BY <1>1, NamesAssumption
    <3>4. \A i \in Inodes :
            wd'[i] = IF f.file_id # -1 /\ wd[i] = f.file_id THEN -1 ELSE wd[i]
      BY <2>2, <3>2, <3>3
    <3> QED
      BY <1>1, <3>1, <3>2, <3>4
<1>7. Kernel'
  BY <1>6 DEF IInv, Kernel, EventBelow
<1>8. List'
  <2>1. \A i, j \in DOMAIN left : left[i].name = left[j].name => i = j
    BY <1>2, <1>3, SMTT(30) DEF IInv, List
  <2>2. \A j \in DOMAIN left : left[j].file_id \in {-1} \cup 1 .. nextWd - 1
    BY <1>3, Zenon DEF IInv, List
  <2> QED
    BY <1>2, <1>5, <2>1, <2>2 DEF List
<1>9. Apart'
  <2> SUFFICES ASSUME NEW e \in Dirs, wd'[e] # -1
               PROVE  /\ \A i \in Inodes : wd'[i] # wd'[e]
                      /\ \A j \in DOMAIN left : left[j].file_id # wd'[e]
    BY <1>5 DEF Apart
  <2>1. wd'[e] = wd[e]
    BY <1>6
  <2>2. /\ \A i \in Inodes : wd[i] # wd[e]
        /\ \A i \in DOMAIN observed_files_ : observed_files_[i].file_id # wd[e]
    BY <2>1 DEF IInv, Apart
  <2>3. \A i \in Inodes : wd'[i] # wd'[e]
    BY <1>6, <2>1, <2>2
  <2>4. \A j \in DOMAIN left : left[j].file_id # wd'[e]
    BY <1>3, <2>1, <2>2, Zenon
  <2> QED
    BY <2>3, <2>4
<1>10. \A i \in DOMAIN observed_files_ : observed_files_[i].dir_
  BY DEF IInv, Turns
<1>11. \A j \in DOMAIN left : left[j].dir_
  BY <1>3, <1>10, Zenon
<1>12. Turns'
  BY <1>5, <1>11 DEF IInv, Turns, towerVars
<1>13. WatchesOwned'
  <2>1. ASSUME NEW i \in Inodes, wd'[i] # -1
        PROVE  \E j \in DOMAIN left : left[j].file_id = wd'[i]
    <3>1. wd'[i] = wd[i] /\ wd[i] # f.file_id
      BY <1>6, <2>1
    <3>2. PICK m \in DOMAIN observed_files_ : observed_files_[m].file_id = wd[i]
      BY <2>1, <3>1 DEF IInv, WatchesOwned
    <3>3. m # k
      BY <3>1, <3>2 DEF f
    <3> QED
      BY <1>4, <3>1, <3>2, <3>3, Zenon
  <2>2. ASSUME NEW e \in Dirs
        PROVE  wd'[e] # -1 <=> DirWatched(e)'
    <3>1. DirWatched(e)' <=> \E j \in DOMAIN left : DirOf[left[j].name] = e
      BY <1>5, <1>11, Zenon DEF DirWatched
    <3>2. DirWatched(e) <=> \E i \in DOMAIN observed_files_ : DirOf[observed_files_[i].name] = e
      BY <1>10, Zenon DEF DirWatched
    <3>3. wd[e] # -1 <=> DirWatched(e)
      BY DEF IInv, WatchesOwned
    <3>4. CASE e = d
      <4>1. wd[e] # -1
        BY <3>2, <3>3, <3>4, Zenon DEF f
      <4>2. wd'[e] # -1 <=> shared
        BY <1>6, <3>4, <4>1
      <4> QED
        BY <3>1, <3>4, <4>2, Zenon
    <3>5. CASE e # d
      <4>1. wd'[e] = wd[e]
        BY <1>6, <3>5
      <4>2. DirWatched(e)' => DirWatched(e)
        BY <1>3, <3>1, <3>2, Zenon
      <4>3. ASSUME DirWatched(e) PROVE DirWatched(e)'
        <5>1. PICK i \in DOMAIN observed_files_ : DirOf[observed_files_[i].name] = e
          BY <3>2, <4>3
        <5>2. i # k
          BY <3>5, <5>1 DEF f
        <5> QED
          BY <1>4, <3>1, <5>1, <5>2, Zenon
      <4> QED
        BY <3>3, <4>1, <4>2, <4>3
    <3> QED
      BY <3>4, <3>5
  <2> QED
    BY <1>5, <2>1, <2>2, Zenon DEF WatchesOwned
<1>14. Observed \ {f.name} \subseteq Observed'
  BY <1>4, <1>5 DEF Observed, f
<1>15. PointersAlive' /\ History'
  <2>1. DOMAIN files_needing_readding' = {} /\ files_to_notify' = {}
    BY DEF IInv, Turns, towerVars
  <2>2. PointersAlive'
    BY <2>1 DEF PointersAlive, Range
  <2> QED
    BY <1>5, <1>14, <2>2 DEF IInv, History
<1> QED
  BY <1>7, <1>8, <1>9, <1>12, <1>13, <1>15 DEF IInv

(* removeNotification(): one callback less, or the file with its last one. *)
LEMMA NotificationRemoved ==
  ASSUME IInv, NEW t \in Tabs, removeNotification(t)
  PROVE  IInv'
<1> DEFINE k == CHOOSE j \in DOMAIN observed_files_ : t \in observed_files_[j].callbacks
<1>1. k \in DOMAIN observed_files_ /\ t \in observed_files_[k].callbacks
  BY DEF removeNotification, Registered
<1>2. /\ towerPc = "poll" /\ guiPc = "idle"
      /\ UNCHANGED <<inode, nextWd, events, towerVars, guiPc, missed>>
  BY DEF removeNotification, Locked
<1>3. CASE observed_files_[k].callbacks = {t}
  <2>1. observed_files_' = RemoveAt(observed_files_, k)
    BY <1>3 DEF removeNotification
  <2>2. LET file == observed_files_[k]
            left == RemoveAt(observed_files_, k)
            shared == \E j \in DOMAIN left : DirOf[left[j].name] = DirOf[file.name]
        IN  /\ wd' = [rm_watch(file.file_id) EXCEPT
                        ![DirOf[file.name]] = IF shared THEN @ ELSE -1]
            /\ unseen' = unseen \ {file.name}
    BY <1>3 DEF removeNotification
  <2> HIDE DEF k
  <2> QED
    BY <1>1, <1>2, <2>1, <2>2, FileRemoved
<1>4. CASE observed_files_[k].callbacks # {t}
  <2> DEFINE c == observed_files_[k].callbacks \ {t}
  <2>1. observed_files_' = [observed_files_ EXCEPT ![k].callbacks = c]
        /\ UNCHANGED <<wd, unseen>>
    BY <1>4 DEF removeNotification
  <2> HIDE DEF k
  <2>2. c \in (SUBSET Tabs) \ {{}}
    <3>1. observed_files_[k] \in ObservedFile
      BY <1>1 DEF IInv, List
    <3> QED
      BY <1>1, <1>4, <3>1 DEF ObservedFile
  <2> HIDE DEF c
  <2> QED
    BY <1>1, <1>2, <2>1, <2>2, CallbacksChange DEF kernelVars
<1> QED
  BY <1>3, <1>4

(* The tower is destroyed: nothing that the invariant is about changes. *)
LEMMA TowerIsClosed ==
  ASSUME IInv, close \/ join
  PROVE  IInv'
<1>1. /\ guiPc # "adding" /\ guiPc' \in {"closing", "closed"}
      /\ UNCHANGED <<kernelVars, observed_files_, towerVars, unseen, missed>>
  BY DEF close, join
<1>2. Kernel' /\ List' /\ Apart' /\ Observed' = Observed
  BY <1>1 DEF IInv, Kernel, EventBelow, List, Apart, Observed, kernelVars
<1>3. \A d : DirWatched(d)' <=> DirWatched(d)
  BY <1>1 DEF DirWatched
<1>4. Turns' /\ WatchesOwned'
  BY <1>1, <1>3 DEF IInv, Turns, WatchesOwned, kernelVars, towerVars
<1>5. PointersAlive' /\ History'
  BY <1>1, <1>2 DEF IInv, PointersAlive, History, towerVars
<1> QED
  BY <1>2, <1>4, <1>5 DEF IInv

-----------------------------------------------------------------------------
(* The thread.                                                             *)

(* Events lead to files that are observed. *)
LEMMA FilesOfEvents ==
  \A e : FileOf(e) \subseteq Observed
BY DEF FileOf, Observed

(* What was read names files that are in the list while the lock is held. *)
LEMMA EventsAreProcessed ==
  ASSUME IInv, waitAndProcessEvents
  PROVE  IInv'
<1>1. PICK n \in 0 .. Len(events) :
        /\ files_needing_readding' = FilesNeedingReadding(SubSeq(events, 1, n))
        /\ files_to_notify' = FilesToNotify(SubSeq(events, 1, n))
        /\ events' = SubSeq(events, n + 1, Len(events))
  BY DEF waitAndProcessEvents
<1> DEFINE read == SubSeq(events, 1, n)
<1>2. /\ towerPc' = "readd" /\ guiPc # "adding"
      /\ UNCHANGED <<inode, wd, nextWd, observed_files_, guiPc, unseen, missed>>
  BY DEF waitAndProcessEvents
<1>3. read \in Seq(EventBelow(nextWd)) /\ events' \in Seq(EventBelow(nextWd))
  <2> DEFINE E == EventBelow(nextWd)
  <2>1. events \in Seq(E)
    BY DEF IInv, Kernel
  <2> HIDE DEF E
  <2>2. SubSeq(events, 1, n) \in Seq(E) /\ SubSeq(events, n + 1, Len(events)) \in Seq(E)
    BY <2>1
  <2> QED
    BY <1>1, <2>2 DEF E
<1>4. Kernel' /\ List' /\ Apart' /\ Observed' = Observed
  BY <1>2, <1>3 DEF IInv, Kernel, EventBelow, List, Apart, Observed
<1>5. \A d : DirWatched(d)' <=> DirWatched(d)
  BY <1>2 DEF DirWatched
<1> HIDE DEF read
<1>6. DOMAIN files_needing_readding' \subseteq Nat
  BY <1>1, <1>3 DEF FilesNeedingReadding, read
<1>7. Turns' /\ WatchesOwned'
  BY <1>2, <1>5, <1>6 DEF IInv, Turns, WatchesOwned
<1>8. Range(files_needing_readding)' \subseteq Observed
  <2> SUFFICES ASSUME NEW k \in DOMAIN read, read[k].is = "dir", FileOf(read[k]) # {}
               PROVE  read[k].name \in Observed
    BY <1>1 DEF FilesNeedingReadding, Range, read
  <2> QED
    BY DEF FileOf
<1>9. files_to_notify' \subseteq Observed
  BY <1>1, FilesOfEvents DEF FilesToNotify
<1>10. PointersAlive' /\ History'
  BY <1>2, <1>4, <1>8, <1>9 DEF IInv, PointersAlive, History
<1> QED
  BY <1>4, <1>7, <1>10 DEF IInv

(* The observers are called and the lock is given up: no pointer is kept. *)
LEMMA ObserversAreNotified ==
  ASSUME IInv, notify
  PROVE  IInv'
<1>1. /\ towerPc' \in {"poll", "stopped"} /\ guiPc # "adding" /\ guiPc' = guiPc
      /\ files_to_notify' = {} /\ DOMAIN files_needing_readding' = {}
      /\ unseen' \subseteq unseen
      /\ UNCHANGED <<kernelVars, observed_files_, missed>>
  BY DEF notify, IInv, Turns
<1>2. Kernel' /\ List' /\ Apart' /\ Observed' = Observed
  BY <1>1 DEF IInv, Kernel, EventBelow, List, Apart, Observed, kernelVars
<1>3. \A d : DirWatched(d)' <=> DirWatched(d)
  BY <1>1 DEF DirWatched
<1>4. Turns' /\ WatchesOwned'
  BY <1>1, <1>3 DEF IInv, Turns, WatchesOwned, kernelVars
<1>5. PointersAlive' /\ History'
  BY <1>1, <1>2 DEF IInv, PointersAlive, History, Range
<1> QED
  BY <1>2, <1>4, <1>5 DEF IInv

(* The file at k is watched under id, or not at all, and is not to be      *)
(* watched again any more. *)
Readded(k, id) ==
  /\ nextWd' \in Nat /\ nextWd <= nextWd'
  /\ id \in {-1} \cup 1 .. nextWd' - 1
  /\ id \in {-1, nextWd} \cup {wd[i] : i \in Inodes}
  /\ observed_files_' = [observed_files_ EXCEPT ![k].file_id = id]
  /\ wd' \in [Inodes \cup Dirs -> {-1} \cup 1 .. nextWd' - 1]
  /\ \A d \in Dirs : wd'[d] = wd[d]
  /\ \A i \in Inodes : \/ wd'[i] \in {id, -1}
                       \/ wd'[i] = wd[i] /\ wd[i] # observed_files_[k].file_id
  /\ DOMAIN files_needing_readding' \subseteq DOMAIN files_needing_readding
  /\ Range(files_needing_readding)' \subseteq Range(files_needing_readding)
  /\ UNCHANGED <<inode, events, towerPc, files_to_notify, guiPc, unseen, missed>>

(* A file of the list is watched again: a descriptor of its own, or none. *)
LEMMA FileWatched ==
  ASSUME IInv, towerPc = "readd",
         NEW k \in DOMAIN observed_files_, NEW id, Readded(k, id)
  PROVE  IInv'
<1> USE DEF Readded
<1> DEFINE f == [observed_files_[k] EXCEPT !.file_id = id]
<1>1. observed_files_ \in Seq(ObservedFile) /\ observed_files_[k] \in ObservedFile
  BY DEF IInv, List
<1>2. /\ f \in ObservedFile /\ f.file_id = id
      /\ f.name = observed_files_[k].name /\ f.dir_ = observed_files_[k].dir_
  <2>1. id \in Int
    OBVIOUS
  <2> QED
    BY <1>1, <2>1 DEF ObservedFile
<1>3. observed_files_' = [observed_files_ EXCEPT ![k] = f]
  OBVIOUS
<1> HIDE DEF f
<1>4. /\ observed_files_' \in Seq(ObservedFile)
      /\ DOMAIN observed_files_' = DOMAIN observed_files_
      /\ observed_files_'[k].file_id = id
      /\ \A j \in DOMAIN observed_files_ :
           /\ observed_files_'[j].name = observed_files_[j].name
           /\ observed_files_'[j].dir_ = observed_files_[j].dir_
           /\ j # k => observed_files_'[j].file_id = observed_files_[j].file_id
  BY <1>1, <1>2, <1>3
<1>5. Kernel'
  BY EventsStay DEF IInv, Kernel
<1>6. List'
  <2>1. \A i, j \in DOMAIN observed_files_' :
          observed_files_'[i].name = observed_files_'[j].name => i = j
    BY <1>4 DEF IInv, List
  <2>2. \A j \in DOMAIN observed_files_' :
          observed_files_'[j].file_id \in {-1} \cup 1 .. nextWd' - 1
    BY <1>4 DEF IInv, List, Kernel
  <2> QED
    BY <1>4, <2>1, <2>2 DEF List
<1>7. Observed' = Observed
  BY <1>4 DEF Observed
<1>8. \A d : DirWatched(d)' <=> DirWatched(d)
  BY <1>4, Zenon DEF DirWatched
<1>9. Turns'
  <2>1. \A j \in DOMAIN observed_files_' : observed_files_'[j].dir_
    BY <1>4, Zenon DEF IInv, Turns
  <2>2. guiPc # "adding" /\ DOMAIN files_needing_readding' \subseteq Nat
    BY DEF IInv, Turns
  <2> QED
    BY <2>1, <2>2 DEF IInv, Turns
<1>10. Apart'
  <2> SUFFICES ASSUME NEW d \in Dirs, wd[d] # -1
               PROVE  /\ \A i \in Inodes : wd'[i] # wd[d]
                      /\ \A j \in DOMAIN observed_files_ : observed_files_'[j].file_id # wd[d]
    BY <1>4 DEF Apart
  <2>1. /\ \A i \in Inodes : wd[i] # wd[d]
        /\ \A j \in DOMAIN observed_files_ : observed_files_[j].file_id # wd[d]
    BY DEF IInv, Apart
  <2>2. id # wd[d]
    BY <2>1 DEF IInv, Kernel
  <2>3. \A i \in Inodes : wd'[i] # wd[d]
    BY <2>1, <2>2
  <2>4. \A j \in DOMAIN observed_files_ : observed_files_'[j].file_id # wd[d]
    BY <1>4, <2>1, <2>2, Zenon
  <2> QED
    BY <2>3, <2>4
<1>11. WatchesOwned'
  <2>1. ASSUME NEW i \in Inodes, wd'[i] # -1
        PROVE  \E j \in DOMAIN observed_files_' : observed_files_'[j].file_id = wd'[i]
    <3>1. CASE wd'[i] = id
      BY <1>4, <3>1, Zenon
    <3>2. CASE wd'[i] # id
      <4>1. wd'[i] = wd[i] /\ wd[i] # observed_files_[k].file_id
        BY <2>1, <3>2
      <4>2. PICK j \in DOMAIN observed_files_ : observed_files_[j].file_id = wd[i]
        BY <2>1, <4>1 DEF IInv, WatchesOwned
      <4> QED
        BY <1>4, <4>1, <4>2, Zenon
    <3> QED
      BY <3>1, <3>2
  <2>2. \A d \in Dirs : wd'[d] # -1 <=> DirWatched(d)'
    BY <1>8, Zenon DEF IInv, WatchesOwned
  <2> QED
    BY <2>1, <2>2, Zenon DEF WatchesOwned
<1>12. PointersAlive' /\ History'
  BY <1>7 DEF IInv, PointersAlive, History
<1> QED
  BY <1>5, <1>6, <1>9, <1>10, <1>11, <1>12 DEF IInv

(* The thread watches again the first of the files that may have been replaced. *)
LEMMA FileIsReadded ==
  ASSUME IInv, readd
  PROVE  IInv'
<1> DEFINE first == Min(DOMAIN files_needing_readding)
           n == files_needing_readding[first]
<1>1. first \in DOMAIN files_needing_readding /\ towerPc = "readd"
  BY MinIsIn DEF readd, IInv, Turns
<1>2. n \in Observed
  BY <1>1 DEF IInv, PointersAlive, Range
<1>3. PICK k \in DOMAIN observed_files_ :
        k = IndexOf(n) /\ observed_files_[k].name = n /\ n \in Names
  <2>1. IndexOf(n) \in DOMAIN observed_files_ /\ observed_files_[IndexOf(n)].name = n
    BY <1>2, IndexOfName
  <2>2. observed_files_[IndexOf(n)] \in ObservedFile
    BY <2>1 DEF IInv, List
  <2> QED
    BY <2>1, <2>2 DEF ObservedFile
<1> DEFINE old == observed_files_[k].file_id
           left == rm_watch(old)
<1>4. /\ DOMAIN files_needing_readding' \subseteq DOMAIN files_needing_readding
      /\ Range(files_needing_readding)' \subseteq Range(files_needing_readding)
      /\ UNCHANGED <<inode, events, towerPc, files_to_notify, guiPc, unseen, missed>>
  BY DEF readd, Restrict, Range
<1>5. /\ left \in [Inodes \cup Dirs -> {-1} \cup 1 .. nextWd - 1]
      /\ \A d \in Dirs : left[d] = wd[d]
      /\ \A i \in Inodes : left[i] = -1 \/ (left[i] = wd[i] /\ wd[i] # old)
  <2>1. left = [w \in Inodes \cup Dirs |-> IF old # -1 /\ wd[w] = old THEN -1 ELSE wd[w]]
    BY DEF rm_watch, IInv, Kernel
  <2>2. \A d \in Dirs : wd[d] # -1 => old # wd[d]
    BY <1>3 DEF IInv, Apart
  <2> HIDE DEF left, old
  <2> QED
    BY <2>1, <2>2 DEF IInv, Kernel
<1>6. nextWd \in Nat \ {0} /\ inode[n] \in Inodes \cup {None}
  BY <1>3 DEF IInv, Kernel
<1>7. CASE inode[n] = None
  <2>1. /\ observed_files_' = [observed_files_ EXCEPT ![k].file_id = -1]
        /\ wd' = left /\ nextWd' = nextWd
    BY <1>3, <1>7 DEF readd
  <2> HIDE DEF left
  <2>2. /\ wd' \in [Inodes \cup Dirs -> {-1} \cup 1 .. nextWd' - 1]
        /\ \A d \in Dirs : wd'[d] = wd[d]
        /\ \A i \in Inodes : \/ wd'[i] = -1
                             \/ wd'[i] = wd[i] /\ wd[i] # observed_files_[k].file_id
        /\ nextWd' \in Nat /\ nextWd <= nextWd'
    BY <1>5, <1>6, <2>1
  <2>3. -1 \in {-1} \cup 1 .. nextWd' - 1 /\ -1 \in {-1, nextWd} \cup {wd[i] : i \in Inodes}
    OBVIOUS
  <2>4. Readded(k, -1)
    BY <1>4, <2>1, <2>2, <2>3 DEF Readded
  <2> QED
    BY <1>1, <2>4, FileWatched
<1>8. CASE inode[n] # None
  <2>2. PICK i \in Inodes : i = inode[n]
    BY <1>6, <1>8
  <2>0. PICK id : id = IF left[i] = -1 THEN nextWd ELSE left[i]
    OBVIOUS
  <2>1. /\ wd' = [left EXCEPT ![i] = id]
        /\ nextWd' = IF left[i] = -1 THEN nextWd + 1 ELSE nextWd
        /\ observed_files_' = [observed_files_ EXCEPT ![k].file_id = wd'[i]]
    BY <1>3, <1>8, <2>0, <2>2 DEF readd, add_watch
  <2> HIDE DEF left
  <2>3. /\ nextWd' \in Nat /\ nextWd <= nextWd' /\ id \in {-1} \cup 1 .. nextWd' - 1
        /\ id \in {-1, nextWd} \cup {wd[j] : j \in Inodes}
    BY <1>5, <1>6, <2>0, <2>1, <2>2
  <2>4. /\ wd' \in [Inodes \cup Dirs -> {-1} \cup 1 .. nextWd' - 1]
        /\ wd'[i] = id /\ \A d \in Dirs : wd'[d] = wd[d]
        /\ \A j \in Inodes : j # i => wd'[j] = left[j]
    BY <1>5, <1>6, <2>1, <2>2, <2>3, NamesAssumption
  <2>5. \A j \in Inodes : \/ wd'[j] \in {id, -1}
                          \/ wd'[j] = wd[j] /\ wd[j] # observed_files_[k].file_id
    BY <1>5, <2>4
  <2>6. observed_files_' = [observed_files_ EXCEPT ![k].file_id = id]
    BY <2>1, <2>4
  <2>7. Readded(k, id)
    BY <1>4, <2>3, <2>4, <2>5, <2>6 DEF Readded
  <2> QED
    BY <1>1, <2>7, FileWatched
<1> QED
  BY <1>7, <1>8

(* Whoever takes the next step. *)
LEMMA InvariantKept == IInv /\ [Next]_vars => IInv'
<1> SUFFICES ASSUME IInv, [Next]_vars PROVE IInv'
  OBVIOUS
<1>1. CASE ChangeFiles
  BY <1>1, FilesChange
<1>2. CASE Client
  BY <1>2, CallbackAdded, FileIsAdded, NotificationRemoved, DirIsAdded, TowerIsClosed
     DEF Client
<1>3. CASE Tower
  BY <1>3, EventsAreProcessed, FileIsReadded, ObserversAreNotified DEF Tower
<1>4. CASE UNCHANGED vars
  BY <1>4, KernelChanges DEF vars, kernelVars, IInv, Kernel, History
<1> QED
  BY <1>1, <1>2, <1>3, <1>4 DEF Next

-----------------------------------------------------------------------------
(* The list of files, the watches of the kernel and the pointers the       *)
(* thread keeps across its steps are consistent whenever one of the        *)
(* threads has the lock, whatever other programs do to the files. *)
THEOREM TowerConsistent == Spec => []Consistent
<1>1. Init => IInv
  BY Initially
<1>2. IInv /\ [Next]_vars => IInv'
  BY InvariantKept
<1>3. IInv => Consistent
  BY Suffices
<1> QED
  BY <1>1, <1>2, <1>3, PTL DEF Spec

-----------------------------------------------------------------------------
(* Files of one directory.  With several, a file may be renamed into one   *)
(* that is not watched: no event tells of its new name, and the old one    *)
(* takes its watch with it.                                                *)

SameDirectory == \A m, n \in Names : DirOf[m] = DirOf[n]

(* The descriptor of each name of a list, and of the list there is. *)
IdsOf(list) ==
  [n \in {list[k].name : k \in DOMAIN list} |->
     list[CHOOSE k \in DOMAIN list : list[k].name = n].file_id]
Ids == IdsOf(observed_files_)

(* A name is to be watched again: the thread has it in hand, or will be    *)
(* told of it by an event.                                                 *)
Kept(n) ==
  \E p \in DOMAIN files_needing_readding : files_needing_readding[p] = n
Tells(e, n) == e.is = "dir" /\ e.wd = wd[DirOf[n]] /\ e.name = n
Told(n) == \E p \in DOMAIN events : Tells(events[p], n)

(* k will be watched again, and then m, if anybody observes it. *)
Later(k, m) ==
  \/ Kept(k) /\ (Told(m) \/ m \notin Observed)
  \/ \E p, q \in DOMAIN files_needing_readding :
       p < q /\ files_needing_readding[p] = k /\ files_needing_readding[q] = m
  \/ \E p, q \in DOMAIN events :
       p < q /\ Tells(events[p], k) /\ Tells(events[q], m)

(* Names stand for different files, which have different descriptors. *)
OneEach ==
  /\ \A m, n \in Names : inode[m] = inode[n] /\ inode[m] # None => m = n
  /\ \A i, j \in Inodes : wd[i] = wd[j] /\ wd[i] # -1 => i = j

(* Giving up a descriptor that is another file's by now does no harm: that *)
(* file is watched again after it.                                         *)
Stale(k, m) ==
  m # k /\ inode[m] # None /\ wd[inode[m]] # -1 /\ wd[inode[m]] = Ids[k]
StaleInv == \A k \in Observed, m \in Names : Stale(k, m) => Later(k, m)

(* Each name that exists is watched, or will be. *)
WatchedInv ==
  \A n \in Observed : inode[n] # None =>
    \/ wd[inode[n]] # -1 /\ wd[inode[n]] = Ids[n]
    \/ Kept(n) \/ Told(n)

(* An event of the file is on its way, and leads to its name. *)
Alone(n) == \A k \in Observed : Ids[k] = Ids[n] => k = n
Reported(n) ==
  /\ \E p \in DOMAIN events : events[p].is = "self" /\ events[p].wd = Ids[n]
  /\ Alone(n)
SeenInv == \A n \in unseen : n \in files_to_notify \/ Told(n) \/ Reported(n)

KeptInv == \A n \in Names : Kept(n) => n \in files_to_notify

QuietInv == OneEach /\ KeptInv /\ (~missed => StaleInv /\ WatchedInv /\ SeenInv)

(* The descriptors, one by one. *)
LEMMA IdsAre ==
  ASSUME NEW list,
         \A j, k \in DOMAIN list : list[j].name = list[k].name => j = k,
         NEW k \in DOMAIN list
  PROVE  IdsOf(list)[list[k].name] = list[k].file_id
<1>1. (CHOOSE j \in DOMAIN list : list[j].name = list[k].name) = k
  OBVIOUS
<1> QED
  BY <1>1 DEF IdsOf

LEMMA IdsType ==
  ASSUME IInv, NEW n \in Observed
  PROVE  n \in Names /\ Ids[n] \in {-1} \cup 1 .. nextWd - 1
<1>1. PICK k \in DOMAIN observed_files_ : observed_files_[k].name = n
  BY DEF Observed
<1>2. Ids[n] = observed_files_[k].file_id
  BY <1>1, IdsAre DEF Ids, IInv, List
<1>3. observed_files_[k] \in ObservedFile
  BY DEF IInv, List
<1> QED
  BY <1>1, <1>2, <1>3 DEF IInv, List, ObservedFile

(* Where a name is in the list, what it is watched under. *)
LEMMA WatchedAs ==
  ASSUME IInv, NEW n \in Observed
  PROVE  Ids[n] = observed_files_[IndexOf(n)].file_id
BY IndexOfName, IdsAre DEF Ids, IInv, List

(* Lists with the same names and descriptors. *)
LEMMA SameIds ==
  ASSUME IInv, IInv', DOMAIN observed_files_' = DOMAIN observed_files_,
         \A k \in DOMAIN observed_files_ :
           /\ observed_files_'[k].name = observed_files_[k].name
           /\ observed_files_'[k].file_id = observed_files_[k].file_id
  PROVE  Observed' = Observed /\ \A n \in Observed : Ids'[n] = Ids[n]
<1>1. Observed' = Observed
  BY DEF Observed
<1>2. ASSUME NEW n \in Observed PROVE Ids'[n] = Ids[n]
  <2>1. PICK k \in DOMAIN observed_files_ : observed_files_[k].name = n
    BY DEF Observed
  <2>2. Ids[n] = observed_files_[k].file_id
    BY <2>1, IdsAre DEF Ids, IInv, List
  <2>3. \A i, j \in DOMAIN observed_files_' :
          observed_files_'[i].name = observed_files_'[j].name => i = j
    BY DEF IInv, List
  <2>4. k \in DOMAIN observed_files_' /\ observed_files_'[k].name = n
    BY <2>1
  <2>5. Ids'[n] = observed_files_'[k].file_id
    BY <2>3, <2>4, IdsAre DEF Ids
  <2> QED
    BY <2>2, <2>5
<1> QED
  BY <1>1, <1>2

(* Events are added, and nothing that a name waits for is taken from it. *)
More == \A p \in DOMAIN events : p \in DOMAIN events' /\ events'[p] = events[p]

LEMMA Monotone ==
  ASSUME More, \A d \in Dirs : wd'[d] = wd[d], UNCHANGED files_needing_readding,
         Observed' = Observed, NEW k \in Names, NEW m \in Names
  PROVE  /\ Told(k) => Told(k)'
         /\ Kept(k) => Kept(k)'
         /\ Later(k, m) => Later(k, m)'
<1>1. \A n \in Names : wd'[DirOf[n]] = wd[DirOf[n]]
  BY NamesAssumption
<1>2. \A p \in DOMAIN events, n \in Names :
        Tells(events[p], n) => p \in DOMAIN events' /\ Tells(events[p], n)'
  BY <1>1 DEF Tells, More
<1>3. ASSUME NEW n \in Names, Told(n) PROVE Told(n)'
  BY <1>2, <1>3 DEF Told
<1>4. Kept(k) => Kept(k)'
  BY DEF Kept
<1>5. Later(k, m) => Later(k, m)'
  <2>1. CASE Kept(k) /\ (Told(m) \/ m \notin Observed)
    BY <1>3, <1>4, <2>1 DEF Later
  <2>2. CASE \E p, q \in DOMAIN files_needing_readding :
               p < q /\ files_needing_readding[p] = k /\ files_needing_readding[q] = m
    BY <2>2 DEF Later
  <2>3. CASE \E p, q \in DOMAIN events :
               p < q /\ Tells(events[p], k) /\ Tells(events[q], m)
    <3>1. PICK p \in DOMAIN events, q \in DOMAIN events :
            p < q /\ Tells(events[p], k) /\ Tells(events[q], m)
      BY <2>3
    <3>2. /\ p \in DOMAIN events' /\ Tells(events[p], k)'
          /\ q \in DOMAIN events' /\ Tells(events[q], m)'
      BY <1>2, <3>1
    <3> QED
      BY <3>1, <3>2 DEF Later
  <2> QED
    BY <2>1, <2>2, <2>3 DEF Later
<1> QED
  BY <1>3, <1>4, <1>5

(* What will be watched again is pending, in a directory that is watched. *)
LEMMA LaterPending ==
  ASSUME NEW k, NEW m, Later(k, m)
  PROVE  /\ Kept(k) \/ Told(k)
         /\ m \in Observed => Kept(m) \/ Told(m)
BY DEF Later, Kept, Told

(* In one directory: what is pending is so because the directory is        *)
(* watched. *)
LEMMA PendingWatched ==
  ASSUME SameDirectory, IInv, NEW n \in Observed, Kept(n) \/ Told(n)
  PROVE  wd[DirOf[n]] # -1 /\ guiPc # "adding"
<1>0. n \in Names /\ DirOf[n] \in Dirs
  BY IdsType, NamesAssumption
<1>1. CASE Told(n)
  <2>1. PICK p \in DOMAIN events : Tells(events[p], n)
    BY <1>1 DEF Told
  <2>2. events[p].wd # -1
    <3>1. events[p] \in EventBelow(nextWd)
      BY DEF IInv, Kernel
    <3> QED
      BY <3>1 DEF EventBelow
  <2>3. wd[DirOf[n]] # -1
    BY <2>1, <2>2 DEF Tells
  <2>4. ASSUME guiPc = "adding" PROVE FALSE
    <3>1. 1 \in DOMAIN observed_files_ /\ ~DirWatched(DirOf[observed_files_[1].name])
      BY <2>4 DEF IInv, Turns
    <3>2. observed_files_[1].name \in Names
      <4>1. observed_files_[1] \in ObservedFile
        BY <3>1 DEF IInv, List
      <4> QED
        BY <4>1 DEF ObservedFile
    <3>3. DirWatched(DirOf[n])
      BY <1>0, <2>3 DEF IInv, WatchesOwned
    <3> QED
      BY <1>0, <3>1, <3>2, <3>3 DEF SameDirectory
  <2> QED
    BY <2>3, <2>4
<1>2. CASE Kept(n)
  <2>1. guiPc # "adding"
    BY <1>2 DEF Kept, IInv, Turns
  <2>2. PICK k \in DOMAIN observed_files_ : observed_files_[k].name = n
    BY DEF Observed
  <2>3. DirWatched(DirOf[n])
    BY <2>1, <2>2, Zenon DEF IInv, Turns, DirWatched
  <2> QED
    BY <1>0, <2>1, <2>3 DEF IInv, WatchesOwned
<1> QED
  BY <1>1, <1>2

(* A file is watched under a descriptor that no other name has in the      *)
(* list, or its name is pending. *)
LEMMA WatchedAlone ==
  ASSUME IInv, QuietInv, ~missed, NEW n \in Observed, inode[n] # None
  PROVE  \/ n \in files_to_notify \/ Told(n)
         \/ wd[inode[n]] # -1 /\ wd[inode[n]] = Ids[n] /\ Alone(n)
<1>0. n \in Names
  BY IdsType
<1>1. \/ wd[inode[n]] # -1 /\ wd[inode[n]] = Ids[n]
      \/ Kept(n) \/ Told(n)
  BY DEF QuietInv, WatchedInv
<1>2. Kept(n) => n \in files_to_notify
  BY <1>0 DEF QuietInv, KeptInv
<1>3. ASSUME wd[inode[n]] # -1, wd[inode[n]] = Ids[n], ~Alone(n)
      PROVE  Kept(n) \/ Told(n)
  <2>1. PICK k \in Observed : Ids[k] = Ids[n] /\ k # n
    BY <1>3 DEF Alone
  <2>2. Stale(k, n)
    BY <1>3, <2>1 DEF Stale
  <2>3. Later(k, n)
    BY <1>0, <2>2 DEF QuietInv, StaleInv
  <2> QED
    BY <2>3, LaterPending
<1> QED
  BY <1>1, <1>2, <1>3

(* Where the events queued are found. *)
LEMMA QueueAdds ==
  ASSUME Kernel, NEW new \in Seq(EventBelow(nextWd)), Queue(new)
  PROVE  /\ More
         /\ \E c \in {0, 1} : \A q \in DOMAIN new :
              Len(events) + q - c \in DOMAIN events' /\ events'[Len(events) + q - c] = new[q]
<1> DEFINE E == EventBelow(nextWd)
<1>1. events \in Seq(E) /\ new \in Seq(E)
  BY DEF Kernel
<1> HIDE DEF E
<1>2. CASE new # <<>> /\ events # <<>> /\ Last(events) = Head(new)
  <2>1. events' = events \o Tail(new)
    BY <1>2 DEF Queue
  <2>2. Tail(new) \in Seq(E) /\ Len(Tail(new)) = Len(new) - 1
        /\ \A q \in 1 .. Len(new) - 1 : Tail(new)[q] = new[q + 1]
    BY <1>1, <1>2
  <2>3. Len(events) # 0 /\ events[Len(events)] = new[1]
    BY <1>1, <1>2 DEF Last
  <2>4. PICK tail : tail = Tail(new)
    OBVIOUS
  <2>5. /\ events \o tail \in Seq(E) /\ Len(events \o tail) = Len(events) + Len(new) - 1
        /\ \A p \in 1 .. Len(events) : (events \o tail)[p] = events[p]
        /\ \A q \in 1 .. Len(new) - 1 : (events \o tail)[Len(events) + q] = tail[q]
    BY <1>1, <2>2, <2>4
  <2>6. \A q \in 1 .. Len(new) :
          Len(events) + q - 1 \in 1 .. Len(events) + Len(new) - 1
          /\ (events \o tail)[Len(events) + q - 1] = new[q]
    <3> TAKE q \in 1 .. Len(new)
    <3>1. Len(events) \in Nat /\ Len(new) \in Nat
      BY <1>1
    <3>2. CASE q = 1
      BY <2>3, <2>5, <3>1, <3>2
    <3>3. CASE q # 1
      <4>1. q - 1 \in 1 .. Len(new) - 1 /\ (q - 1) + 1 = q
            /\ Len(events) + q - 1 = Len(events) + (q - 1)
            /\ Len(events) + q - 1 \in 1 .. Len(events) + Len(new) - 1
        BY <3>1, <3>3
      <4>2. tail[q - 1] = new[q]
        BY <2>2, <2>4, <4>1
      <4>3. (events \o tail)[Len(events) + (q - 1)] = tail[q - 1]
        BY <2>5, <4>1
      <4> QED
        BY <4>1, <4>2, <4>3
    <3> QED
      BY <3>2, <3>3
  <2>7. events' = events \o tail
    BY <2>1, <2>4
  <2>8. /\ DOMAIN events' = 1 .. Len(events) + Len(new) - 1
        /\ DOMAIN events = 1 .. Len(events) /\ DOMAIN new = 1 .. Len(new)
        /\ Len(events) \in Nat /\ Len(new) \in Nat /\ Len(new) >= 1
    BY <1>1, <1>2, <2>5, <2>7
  <2>9. More
    BY <2>5, <2>7, <2>8 DEF More
  <2>10. \A q \in DOMAIN new :
           Len(events) + q - 1 \in DOMAIN events' /\ events'[Len(events) + q - 1] = new[q]
    BY <2>6, <2>7, <2>8
  <2> QED
    BY <2>9, <2>10
<1>3. CASE ~(new # <<>> /\ events # <<>> /\ Last(events) = Head(new))
  <2>1. events' = events \o new
    BY <1>3 DEF Queue
  <2>2. More
    BY <1>1, <2>1 DEF More
  <2>3. \A q \in DOMAIN new :
           Len(events) + q - 0 \in DOMAIN events' /\ events'[Len(events) + q - 0] = new[q]
    BY <1>1, <2>1
  <2> QED
    BY <2>2, <2>3
<1> QED
  BY <1>2, <1>3

(* Events come, and watches of inodes end: what that must preserve of      *)
(* each name. *)
LEMMA MoreEvents ==
  ASSUME IInv, QuietInv, More, \A d \in Dirs : wd'[d] = wd[d],
         UNCHANGED <<files_needing_readding, files_to_notify>>,
         Observed' = Observed, \A n \in Observed : Ids'[n] = Ids[n],
         OneEach', missed => missed',
         ~missed' => \A n \in Names :
           \/ inode'[n] = None
           \/ inode'[n] = inode[n] /\ wd'[inode[n]] = wd[inode[n]]
           \/ /\ n \in Observed => Told(n)'
              /\ \A k \in Observed : Stale(k, n)' => Later(k, n)',
         ~missed' => \A n \in unseen' :
           n \in unseen \/ n \in files_to_notify \/ Told(n)' \/ Reported(n)',
         unseen \subseteq Observed
  PROVE  QuietInv'
<1>1. ASSUME NEW k \in Names, NEW n \in Names
      PROVE  /\ Told(k) => Told(k)'
             /\ Kept(k) => Kept(k)'
             /\ Later(k, n) => Later(k, n)'
  BY Monotone
<1>2. Observed \subseteq Names
  BY IdsType
<1>3. KeptInv'
  BY DEF QuietInv, KeptInv, Kept
<1>4. ASSUME ~missed' PROVE StaleInv'
  <2> SUFFICES ASSUME NEW k \in Observed, NEW n \in Names, Stale(k, n)'
               PROVE  Later(k, n)'
    BY DEF StaleInv
  <2>1. CASE inode'[n] = inode[n] /\ wd'[inode[n]] = wd[inode[n]]
    <3>1. Stale(k, n)
      BY <2>1 DEF Stale
    <3> QED
      BY <1>1, <1>2, <1>4, <3>1 DEF QuietInv, StaleInv
  <2>2. inode'[n] # None
    BY DEF Stale
  <2> QED
    BY <1>4, <2>1, <2>2
<1>5. ASSUME ~missed' PROVE WatchedInv'
  <2> SUFFICES ASSUME NEW n \in Observed, inode'[n] # None
               PROVE  \/ wd'[inode'[n]] # -1 /\ wd'[inode'[n]] = Ids'[n]
                      \/ Kept(n)' \/ Told(n)'
    BY DEF WatchedInv
  <2>1. CASE inode'[n] = inode[n] /\ wd'[inode[n]] = wd[inode[n]]
    <3>1. \/ wd[inode[n]] # -1 /\ wd[inode[n]] = Ids[n]
          \/ Kept(n) \/ Told(n)
      BY <1>5, <2>1 DEF QuietInv, WatchedInv
    <3> QED
      BY <1>1, <1>2, <2>1, <3>1
  <2> QED
    BY <1>2, <1>5, <2>1
<1>6. ASSUME ~missed' PROVE SeenInv'
  <2> SUFFICES ASSUME NEW n \in unseen'
               PROVE  n \in files_to_notify \/ Told(n)' \/ Reported(n)'
    BY DEF SeenInv
  <2>1. CASE n \in unseen
    <3>1. n \in Observed /\ n \in Names
      BY <1>2, <2>1
    <3>2. CASE Reported(n)
      <4>1. Alone(n)'
        BY <3>1, <3>2 DEF Reported, Alone
      <4>2. PICK p \in DOMAIN events : events[p].is = "self" /\ events[p].wd = Ids[n]
        BY <3>2 DEF Reported
      <4>3. p \in DOMAIN events' /\ events'[p].is = "self" /\ events'[p].wd = Ids'[n]
        BY <3>1, <4>2 DEF More
      <4> QED
        BY <4>1, <4>3 DEF Reported
    <3>3. n \in files_to_notify \/ Told(n) \/ Reported(n)
      BY <1>6, <2>1 DEF QuietInv, SeenInv
    <3> QED
      BY <1>1, <3>1, <3>2, <3>3
  <2> QED
    BY <1>6, <2>1
<1> QED
  BY <1>3, <1>4, <1>5, <1>6 DEF QuietInv

(* An event of a file that is not pending leads to its name. *)
LEMMA SelfReported ==
  ASSUME IInv, QuietInv, ~missed, NEW n \in Observed, inode[n] # None,
         NEW new \in Seq(EventBelow(nextWd)), Queue(new),
         wd[inode[n]] # -1 =>
           \E q \in DOMAIN new : new[q].is = "self" /\ new[q].wd = wd[inode[n]],
         UNCHANGED observed_files_, \A d \in Dirs : wd'[d] = wd[d]
  PROVE  n \in files_to_notify \/ Told(n)' \/ Reported(n)'
<1>0. n \in Names /\ Kernel
  BY IdsType DEF IInv
<1>1. More
  BY <1>0, QueueAdds
<1>2. CASE Told(n)
  <2>1. wd'[DirOf[n]] = wd[DirOf[n]]
    BY <1>0, NamesAssumption
  <2> QED
    BY <1>1, <1>2, <2>1 DEF More, Told, Tells
<1>3. CASE wd[inode[n]] # -1 /\ wd[inode[n]] = Ids[n] /\ Alone(n)
  <2>1. PICK q \in DOMAIN new : new[q].is = "self" /\ new[q].wd = wd[inode[n]]
    BY <1>3
  <2>0. PICK c \in {0, 1} :
          Len(events) + q - c \in DOMAIN events' /\ events'[Len(events) + q - c] = new[q]
    BY <1>0, QueueAdds
  <2>2. PICK p \in DOMAIN events' : events'[p] = new[q]
    BY <2>0
  <2>3. Ids' = Ids /\ Observed' = Observed
    BY DEF Ids, IdsOf, Observed
  <2>4. Alone(n)'
    BY <1>3, <2>3 DEF Alone
  <2> QED
    BY <1>3, <2>1, <2>2, <2>3, <2>4 DEF Reported
<1> QED
  BY <1>2, <1>3, WatchedAlone

(* A name whose directory is watched: the event of its file is queued. *)
LEMMA DirTold ==
  ASSUME Kernel, NEW n \in Names, wd[DirOf[n]] # -1,
         NEW new \in Seq(EventBelow(nextWd)), Queue(new),
         NEW q \in DOMAIN new, new[q] = DirEvent(n)[1],
         \A d \in Dirs : wd'[d] = wd[d]
  PROVE  \E c \in {0, 1} : \E p \in DOMAIN events' :
           p = Len(events) + q - c /\ Tells(events[p], n)'
<1>1. wd'[DirOf[n]] = wd[DirOf[n]]
  BY NamesAssumption
<1>2. new[q] = [is |-> "dir", wd |-> wd[DirOf[n]], name |-> n]
  BY DEF DirEvent
<1>3. PICK c \in {0, 1} :
        Len(events) + q - c \in DOMAIN events' /\ events'[Len(events) + q - c] = new[q]
  BY QueueAdds
<1>4. PICK p \in DOMAIN events' : p = Len(events) + q - c /\ events'[p] = new[q]
  BY <1>3
<1>5. Tells(events[p], n)'
  BY <1>1, <1>2, <1>4 DEF Tells
<1> QED
  BY <1>4, <1>5

(* What every operation of other programs leaves alone. *)
LEMMA FilesKeep ==
  ASSUME IInv, ChangeFiles
  PROVE  /\ UNCHANGED <<observed_files_, files_needing_readding, files_to_notify>>
         /\ Observed' = Observed /\ Ids' = Ids
         /\ Kernel /\ unseen \subseteq Observed
BY DEF ChangeFiles, towerVars, Observed, Ids, IdsOf, IInv, History

(* A file is written to. *)
LEMMA ModifyKeeps ==
  ASSUME IInv, QuietInv, ChangeFiles, NEW n \in Names, Modify(n)
  PROVE  QuietInv'
<1>0. /\ inode[n] # None /\ Queue(SelfEvent(inode[n]))
      /\ unseen' = unseen \cup (NamesOf(inode[n]) \cap Observed)
      /\ UNCHANGED <<inode, wd, missed>>
  BY DEF Modify
<1>1. inode[n] \in Inodes /\ SelfEvent(inode[n]) \in Seq(EventBelow(nextWd))
  BY <1>0, FilesKeep, NewEvents DEF Kernel
<1>2. More
  BY <1>0, <1>1, FilesKeep, QueueAdds
<1>3. ASSUME ~missed, NEW x \in unseen', x \notin unseen
      PROVE  x \in files_to_notify \/ Told(x)' \/ Reported(x)'
  <2>1. x = n /\ n \in Observed
    BY <1>0, <1>3 DEF NamesOf, QuietInv, OneEach
  <2>2. wd[inode[n]] # -1 =>
          \E q \in DOMAIN SelfEvent(inode[n]) :
            /\ SelfEvent(inode[n])[q].is = "self"
            /\ SelfEvent(inode[n])[q].wd = wd[inode[n]]
    BY DEF SelfEvent
  <2> QED
    BY <1>0, <1>1, <1>3, <2>1, <2>2, FilesKeep, SelfReported
<1>4. OneEach'
  BY <1>0 DEF QuietInv, OneEach
<1> QED
  BY <1>0, <1>2, <1>3, <1>4, FilesKeep, MoreEvents

(* A file is created. *)
LEMMA CreateKeeps ==
  ASSUME IInv, QuietInv, ChangeFiles, NEW n \in Names, Create(n)
  PROVE  QuietInv'
<1> DEFINE free == {i \in Inodes : NamesOf(i) = {} /\ wd[i] = -1}
<1>0. /\ free # {} /\ Queue(DirEvent(n)) /\ Replaced({n}) /\ wd' = wd
      /\ inode' = [inode EXCEPT ![n] = CHOOSE i \in free : TRUE]
  BY DEF Create
<1>1. PICK i \in free : inode' = [inode EXCEPT ![n] = i]
  BY <1>0
<1>2. DirEvent(n) \in Seq(EventBelow(nextWd)) /\ More
  BY <1>0, FilesKeep, NewEvents, QueueAdds
<1>3. /\ i \in Inodes /\ wd[i] = -1 /\ \A x \in Names : inode[x] # i
      /\ inode'[n] = i /\ \A x \in Names : x # n => inode'[x] = inode[x]
  BY <1>1, FilesKeep DEF NamesOf, Kernel
<1>4. ASSUME ~missed', n \in Observed PROVE Told(n)'
  <2>1. wd[DirOf[n]] # -1
    BY <1>0, <1>4 DEF Replaced
  <2>2. 1 \in DOMAIN DirEvent(n)
    BY <2>1 DEF DirEvent
  <2>3. DirEvent(n)[1] = DirEvent(n)[1]
    OBVIOUS
  <2>4. \E p \in DOMAIN events' : Tells(events[p], n)'
    BY <1>0, <1>2, <2>1, <2>2, <2>3, FilesKeep, DirTold
  <2> QED
    BY <2>4 DEF Told
<1>5. OneEach'
  <2>1. \A a, b \in Names : inode'[a] = inode'[b] /\ inode'[a] # None => a = b
    <3> SUFFICES ASSUME NEW a \in Names, NEW b \in Names,
                        inode'[a] = inode'[b], inode'[a] # None
                 PROVE  a = b
      OBVIOUS
    <3>1. CASE a = n \/ b = n
      BY <1>3, <3>1
    <3>2. CASE a # n /\ b # n
      <4>1. inode[a] = inode[b] /\ inode[a] # None
        BY <1>3, <3>2
      <4> QED
        BY <4>1 DEF QuietInv, OneEach
    <3> QED
      BY <3>1, <3>2
  <2>2. wd' = wd
    BY <1>0
  <2>3. \A h, j \in Inodes : wd'[h] = wd'[j] /\ wd'[h] # -1 => h = j
    BY <2>2 DEF QuietInv, OneEach
  <2> QED
    BY <2>1, <2>3 DEF OneEach
<1>6. missed => missed'
  BY <1>0 DEF Replaced
<1>7. ASSUME ~missed', NEW x \in unseen' PROVE x \in unseen \/ Told(x)'
  BY <1>0, <1>4, <1>7 DEF Replaced
<1>8. ASSUME NEW x \in Names
      PROVE  \/ inode'[x] = inode[x] /\ wd'[inode[x]] = wd[inode[x]]
             \/ x = n /\ \A k : ~Stale(k, x)'
  BY <1>0, <1>3 DEF Stale
<1> QED
  BY <1>0, <1>2, <1>4, <1>5, <1>6, <1>7, <1>8, FilesKeep, MoreEvents

(* A file is removed. *)
LEMMA DeleteKeeps ==
  ASSUME IInv, QuietInv, ChangeFiles, NEW n \in Names, Delete(n)
  PROVE  QuietInv'
<1> PICK i : i = inode[n]
  OBVIOUS
<1>0. /\ i # None /\ inode' = [inode EXCEPT ![n] = None]
      /\ Gone(i) /\ missed' = missed
  BY DEF Delete
<1>1. i \in Inodes /\ SelfEvent(i) \in Seq(EventBelow(nextWd))
  BY <1>0, FilesKeep, NewEvents DEF Kernel
<1>2. inode'[n] = None /\ \A x \in Names : x # n => inode'[x] = inode[x] /\ inode[x] # i
  BY <1>0, FilesKeep DEF Kernel, QuietInv, OneEach
<1>3. CASE UNCHANGED <<events, wd, unseen>>
  <2>1. More /\ OneEach'
    BY <1>2, <1>3 DEF More, QuietInv, OneEach
  <2> QED
    BY <1>0, <1>2, <1>3, <2>1, FilesKeep, MoreEvents
<1>4. CASE /\ Queue(SelfEvent(i)) /\ wd' = [wd EXCEPT ![i] = -1]
           /\ unseen' = unseen \cup (NamesOf(i) \cap Observed)
  <2>1. /\ \A j \in Inodes : j # i => wd'[j] = wd[j]
        /\ \A d \in Dirs : wd'[d] = wd[d] /\ wd'[i] = -1
    BY <1>1, <1>4, FilesKeep, NamesAssumption DEF Kernel
  <2>2. More
    BY <1>1, <1>4, FilesKeep, QueueAdds
  <2>3. OneEach'
    BY <1>1, <1>2, <1>4, FilesKeep DEF Kernel, QuietInv, OneEach
  <2>4. ASSUME ~missed, NEW x \in unseen', x \notin unseen
        PROVE  x \in files_to_notify \/ Told(x)' \/ Reported(x)'
    <3>1. x = n /\ n \in Observed
      BY <1>2, <1>4, <2>4 DEF NamesOf
    <3>2. wd[i] # -1 =>
            \E q \in DOMAIN SelfEvent(i) :
              SelfEvent(i)[q].is = "self" /\ SelfEvent(i)[q].wd = wd[i]
      BY DEF SelfEvent
    <3> QED
      BY <1>0, <1>1, <1>4, <2>1, <2>4, <3>1, <3>2, FilesKeep, SelfReported
  <2>5. \A x \in Names :
          \/ inode'[x] = None
          \/ inode'[x] = inode[x] /\ wd'[inode[x]] = wd[inode[x]]
    <3> TAKE x \in Names
    <3>1. CASE x # n /\ inode[x] # None
      <4>1. inode[x] \in Inodes
        BY <3>1, FilesKeep DEF Kernel
      <4> QED
        BY <1>2, <2>1, <3>1, <4>1
    <3> QED
      BY <1>2, <3>1
  <2> QED
    BY <1>0, <2>1, <2>2, <2>3, <2>4, <2>5, FilesKeep, MoreEvents
<1> QED
  BY <1>0, <1>3, <1>4 DEF Gone

(* A sequence in front of another. *)
LEMMA Joined ==
  ASSUME NEW S, NEW s \in Seq(S), NEW t \in Seq(S)
  PROVE  /\ s \o t \in Seq(S) /\ Len(s \o t) = Len(s) + Len(t)
         /\ \A q \in 1 .. Len(s) : (s \o t)[q] = s[q]
         /\ \A q \in 1 .. Len(t) : (s \o t)[Len(s) + q] = t[q]
OBVIOUS

(* A sequence of S that begins with u and v. *)
Begins(S, s, u, v) == s \in Seq(S) /\ Len(s) >= 2 /\ s[1] = u /\ s[2] = v

(* One is put in front of another: with one element each, they come first. *)
LEMMA BothBegin ==
  ASSUME NEW S, NEW s \in Seq(S), NEW t \in Seq(S), Len(s) = 1, Len(t) = 1
  PROVE  Begins(S, s \o t, s[1], t[1])
<1>1. s \o t \in Seq(S) /\ Len(s \o t) = Len(s) + Len(t)
  BY Joined, Zenon
<1>2. \A q \in 1 .. Len(s) : (s \o t)[q] = s[q]
  BY Joined, Zenon
<1>3. \A q \in 1 .. Len(t) : (s \o t)[Len(s) + q] = t[q]
  BY Joined
<1>4. 1 \in 1 .. Len(s) /\ 1 \in 1 .. Len(t)
  OBVIOUS
<1>5. (s \o t)[1] = s[1] /\ (s \o t)[Len(s) + 1] = t[1]
  BY <1>2, <1>3, <1>4, Zenon
<1>6. Len(s) + 1 = 2 /\ Len(s) + Len(t) = 2
  OBVIOUS
<1>7. (s \o t)[2] = t[1]
  BY <1>5, <1>6, Zenon
<1>8. Len(s \o t) >= 2
  BY <1>1, <1>6
<1> QED
  BY <1>1, <1>5, <1>7, <1>8, Zenon DEF Begins

(* Whatever is put behind. *)
LEMMA StillBegins ==
  ASSUME NEW S, NEW s, NEW t \in Seq(S), NEW u, NEW v, Begins(S, s, u, v)
  PROVE  Begins(S, s \o t, u, v)
BY DEF Begins

(* The events of two directories come first. *)
LEMMA FirstTwo ==
  ASSUME NEW S, NEW a \in Seq(S), NEW b \in Seq(S), NEW c \in Seq(S), NEW e \in Seq(S),
         Len(a) = 1, Len(b) = 1
  PROVE  Begins(S, a \o b \o c \o e, a[1], b[1])
BY BothBegin, StillBegins, Zenon

(* A file takes the place of another, or a name that was free. *)
LEMMA RenameKeeps ==
  ASSUME SameDirectory, IInv, QuietInv, ChangeFiles,
         NEW m \in Names, NEW n \in Names, Rename(m, n)
  PROVE  QuietInv'
<1> PICK i : i = inode[m]
  OBVIOUS
<1> PICK o : o = inode[n]
  OBVIOUS
<1>0. /\ m # n /\ i # None /\ Replaced({m, n})
      /\ inode' = [inode EXCEPT ![n] = i, ![m] = None]
  BY DEF Rename
<1>1. PICK gone \in {FALSE, o # None} :
        /\ Queue(DirEvent(m) \o DirEvent(n)
                 \o (IF gone THEN SelfEvent(o) ELSE <<>>) \o SelfEvent(i))
        /\ wd' = IF gone THEN [wd EXCEPT ![o] = -1] ELSE wd
  BY DEF Rename
<1>2. i \in Inodes /\ o \in Inodes \cup {None} /\ (o # None => o # i)
  BY <1>0, FilesKeep DEF Kernel, QuietInv, OneEach
<1> DEFINE a == DirEvent(m)
           b == DirEvent(n)
           c == IF gone THEN SelfEvent(o) ELSE <<>>
           e == SelfEvent(i)
           new == a \o b \o c \o e
           E == EventBelow(nextWd)
<1>3. a \in Seq(E) /\ b \in Seq(E) /\ c \in Seq(E) /\ e \in Seq(E)
  <2>1. a \in Seq(E) /\ b \in Seq(E) /\ e \in Seq(E)
    BY <1>2, FilesKeep, NewEvents
  <2>2. gone => o \in Inodes
    BY <1>1, <1>2
  <2>3. gone => SelfEvent(o) \in Seq(E)
    BY <2>2, FilesKeep, NewEvents
  <2>4. c \in Seq(E)
    <3> HIDE DEF E
    <3> QED
      BY <2>3
  <2> QED
    BY <2>1, <2>4
<1>4. new \in Seq(E)
  <2> HIDE DEF a, b, c, e, E
  <2> QED
    BY <1>3
<1>5. Queue(new)
  BY <1>1
<1>6. More
  BY <1>4, <1>5, FilesKeep, QueueAdds
<1>7. /\ inode'[n] = i /\ inode'[m] = None
      /\ \A x \in Names : x # m /\ x # n => inode'[x] = inode[x]
  BY <1>0, FilesKeep DEF Kernel
<1>8. /\ \A j \in Inodes : j # o => wd'[j] = wd[j]
      /\ \A j \in Inodes : wd'[j] \in {wd[j], -1}
      /\ \A d \in Dirs : wd'[d] = wd[d]
  BY <1>1, <1>2, FilesKeep, NamesAssumption DEF Kernel
<1>9. OneEach'
  <2>1. \A x, y \in Names : inode[x] = inode[y] /\ inode[x] # None => x = y
    BY DEF QuietInv, OneEach
  <2>2. ASSUME NEW x \in Names, NEW y \in Names, inode'[x] = inode'[y], inode'[x] # None
        PROVE  x = y
    <3>1. x # m /\ y # m
      BY <1>7, <2>2
    <3>2. CASE x # n /\ y # n
      BY <1>7, <2>1, <2>2, <3>1, <3>2
    <3>3. ASSUME NEW z \in Names, z # m, z # n PROVE inode'[z] # i
      BY <1>0, <1>7, <2>1, <3>3
    <3> QED
      BY <1>7, <2>2, <3>1, <3>2, <3>3
  <2>3. \A j, k \in Inodes : wd'[j] = wd'[k] /\ wd'[j] # -1 => j = k
    BY <1>8 DEF QuietInv, OneEach
  <2> QED
    BY <2>2, <2>3 DEF OneEach
<1>10. wd[DirOf[m]] = wd[DirOf[n]]
  BY DEF SameDirectory
<1>11. ASSUME wd[DirOf[n]] # -1
       PROVE  \E p, q \in DOMAIN events' :
                /\ p < q /\ Tells(events[p], m)' /\ Tells(events[q], n)'
                /\ \A r \in DOMAIN events : r < q
  <2>1. Len(a) = 1 /\ Len(b) = 1
    BY <1>10, <1>11 DEF DirEvent
  <2>2. 1 \in DOMAIN new /\ 2 \in DOMAIN new /\ new[1] = a[1] /\ new[2] = b[1]
    <3>1. Begins(E, new, a[1], b[1])
      <4> HIDE DEF a, b, c, e, E
      <4> QED
        BY <1>3, <2>1, FirstTwo, Zenon
    <3> HIDE DEF new, a, b, E
    <3> QED
      BY <3>1 DEF Begins
  <2> HIDE DEF new
  <2>3. PICK z \in {0, 1} : \A q \in DOMAIN new :
          Len(events) + q - z \in DOMAIN events' /\ events'[Len(events) + q - z] = new[q]
    BY <1>4, <1>5, FilesKeep, QueueAdds
  <2>4. PICK p \in DOMAIN events' : p = Len(events) + 1 - z /\ events'[p] = a[1]
    BY <2>2, <2>3
  <2>5. PICK q \in DOMAIN events' : q = Len(events) + 2 - z /\ events'[q] = b[1]
    BY <2>2, <2>3
  <2>6. Tells(events[p], m)' /\ Tells(events[q], n)'
    BY <1>8, <1>10, <1>11, <2>4, <2>5, NamesAssumption DEF DirEvent, Tells
  <2>7. Len(events) \in Nat /\ DOMAIN events = 1 .. Len(events)
    BY FilesKeep DEF Kernel
  <2>8. p < q /\ \A r \in DOMAIN events : r < q
    BY <2>4, <2>5, <2>7
  <2> QED
    BY <2>6, <2>8
<1>12. ASSUME ~missed', NEW x \in {m, n}, x \in Observed PROVE Told(x)'
  <2>1. wd[DirOf[n]] # -1
    BY <1>0, <1>10, <1>12 DEF Replaced
  <2> QED
    BY <1>11, <2>1 DEF Told
<1>13. missed => missed'
  BY <1>0 DEF Replaced
<1>14. ASSUME ~missed', NEW k \in Observed, Stale(k, n)' PROVE Later(k, n)'
  <2>1. k # n /\ wd[i] # -1 /\ wd[i] = Ids[k]
    BY <1>2, <1>7, <1>8, <1>14, FilesKeep DEF Stale
  <2>2. k \in Names
    BY IdsType
  <2>3. k # m => Later(k, m)
    <3> SUFFICES ASSUME k # m PROVE Later(k, m)
      OBVIOUS
    <3>1. Stale(k, m)
      BY <1>0, <2>1 DEF Stale
    <3> QED
      BY <1>13, <1>14, <3>1 DEF QuietInv, StaleInv
  <2>4. wd[DirOf[n]] # -1
    <3>1. CASE k = m
      BY <1>0, <1>10, <1>14, <3>1 DEF Replaced
    <3>2. CASE k # m
      <4>1. wd[DirOf[k]] # -1
        BY <2>3, <3>2, LaterPending, PendingWatched
      <4> QED
        BY <2>2, <4>1 DEF SameDirectory
    <3> QED
      BY <3>1, <3>2
  <2>5. PICK p \in DOMAIN events', q \in DOMAIN events' :
          /\ p < q /\ Tells(events[p], m)' /\ Tells(events[q], n)'
          /\ \A r \in DOMAIN events : r < q
    BY <1>11, <2>4
  <2>6. CASE k = m
    BY <2>5, <2>6 DEF Later
  <2>7. CASE k # m /\ Kept(k)
    <3>1. Kept(k)'
      BY <2>7, FilesKeep DEF Kept
    <3>2. Told(n)'
      BY <2>5 DEF Told
    <3> QED
      BY <3>1, <3>2 DEF Later
  <2>8. CASE k # m /\ Told(k)
    <3>1. PICK r \in DOMAIN events : Tells(events[r], k)
      BY <2>8 DEF Told
    <3>2. r \in DOMAIN events' /\ Tells(events[r], k)'
      BY <1>6, <1>8, <2>2, <3>1, NamesAssumption DEF More, Tells
    <3>3. r < q
      BY <2>5
    <3> QED
      BY <2>5, <3>2, <3>3 DEF Later
  <2> QED
    BY <2>3, <2>6, <2>7, <2>8, LaterPending
<1>15. ASSUME ~missed', NEW x \in unseen' PROVE x \in unseen \/ Told(x)'
  BY <1>0, <1>12, <1>15 DEF Replaced
<1>16. ASSUME NEW x \in Names, x # m, x # n, inode[x] # None
       PROVE  inode'[x] = inode[x] /\ wd'[inode[x]] = wd[inode[x]]
  <2>1. inode[x] \in Inodes /\ inode[x] # o
    BY <1>16, FilesKeep DEF Kernel, QuietInv, OneEach
  <2> QED
    BY <1>7, <1>8, <1>16, <2>1
<1>17. \A x \in Names : \/ inode'[x] = None
                        \/ inode'[x] = inode[x] /\ wd'[inode[x]] = wd[inode[x]]
                        \/ x = n
  BY <1>7, <1>16
<1> HIDE DEF new, a, b, c, e, E
<1> QED
  BY <1>6, <1>8, <1>9, <1>12, <1>13, <1>14, <1>15, <1>17, FilesKeep, MoreEvents

(* Other programs do not break it. *)
LEMMA FilesChangeKeeps ==
  ASSUME SameDirectory, IInv, QuietInv, ChangeFiles
  PROVE  QuietInv'
<1>1. PICK m \in Names, n \in Names : Modify(n) \/ Create(n) \/ Delete(n) \/ Rename(m, n)
  BY DEF ChangeFiles
<1> QED
  BY <1>1, ModifyKeeps, CreateKeeps, DeleteKeeps, RenameKeeps

(* Nothing that the invariant is about changes. *)
LEMMA NothingChanges ==
  ASSUME IInv, IInv', QuietInv,
         UNCHANGED <<inode, wd, events, files_needing_readding, files_to_notify,
                     unseen, missed>>,
         DOMAIN observed_files_' = DOMAIN observed_files_,
         \A k \in DOMAIN observed_files_ :
           /\ observed_files_'[k].name = observed_files_[k].name
           /\ observed_files_'[k].file_id = observed_files_[k].file_id
  PROVE  QuietInv'
<1>1. Observed' = Observed /\ \A n \in Observed : Ids'[n] = Ids[n]
  BY SameIds
<1>2. More /\ OneEach' /\ unseen \subseteq Observed
  BY DEF More, QuietInv, OneEach, IInv, History
<1> QED
  BY <1>1, <1>2, MoreEvents

(* The callbacks of a file change. *)
LEMMA CallbacksKeep ==
  ASSUME IInv, IInv', QuietInv, NEW k \in DOMAIN observed_files_, NEW c,
         observed_files_' = [observed_files_ EXCEPT ![k].callbacks = c],
         UNCHANGED <<kernelVars, towerVars, unseen, missed>>
  PROVE  QuietInv'
<1>1. observed_files_[k] \in ObservedFile
  BY DEF IInv, List
<1>2. /\ DOMAIN observed_files_' = DOMAIN observed_files_
      /\ \A j \in DOMAIN observed_files_ :
           /\ observed_files_'[j].name = observed_files_[j].name
           /\ observed_files_'[j].file_id = observed_files_[j].file_id
  BY <1>1 DEF ObservedFile
<1> QED
  BY <1>2, NothingChanges DEF kernelVars, towerVars

(* addFile() goes on to the directory: nothing is pending in one that was  *)
(* not watched. *)
LEMMA DirKeeps ==
  ASSUME SameDirectory, IInv, IInv', QuietInv, addDir
  PROVE  QuietInv'
<1>1. /\ observed_files_ \in Seq(ObservedFile) /\ 1 \in DOMAIN observed_files_
      /\ observed_files_[1] \in ObservedFile
  BY DEF IInv, List, Turns, addDir
<1>2. /\ DOMAIN observed_files_' = DOMAIN observed_files_
      /\ \A j \in DOMAIN observed_files_ :
           /\ observed_files_'[j].name = observed_files_[j].name
           /\ observed_files_'[j].file_id = observed_files_[j].file_id
  BY <1>1 DEF addDir, ObservedFile
<1>3. Observed' = Observed /\ \A n \in Observed : Ids'[n] = Ids[n]
  BY <1>2, SameIds
<1>4. /\ guiPc = "adding"
      /\ UNCHANGED <<inode, events, files_needing_readding, files_to_notify, unseen, missed>>
  BY DEF addDir, towerVars
<1>5. \A i \in Inodes : wd'[i] = wd[i]
  <2>1. DirOf[observed_files_[1].name] \in Dirs
    BY <1>1, NamesAssumption DEF ObservedFile
  <2> QED
    BY <2>1, NamesAssumption DEF addDir, add_watch, IInv, Kernel
<1>6. \A n \in Observed : ~Kept(n) /\ ~Told(n)
  BY <1>4, PendingWatched
<1>7. \A n \in Names : inode[n] # None => inode[n] \in Inodes
  BY DEF IInv, Kernel
<1>8. OneEach' /\ KeptInv'
  BY <1>4, <1>5 DEF QuietInv, OneEach, KeptInv, Kept
<1>9. Observed \subseteq Names /\ unseen \subseteq Observed
  BY IdsType DEF IInv, History
<1>10. ASSUME ~missed PROVE StaleInv'
  <2> SUFFICES ASSUME NEW k \in Observed, NEW n \in Names, Stale(k, n)'
               PROVE  FALSE
    BY <1>3 DEF StaleInv
  <2>1. Stale(k, n)
    BY <1>3, <1>4, <1>5, <1>7 DEF Stale
  <2> QED
    BY <1>6, <1>10, <2>1, LaterPending DEF QuietInv, StaleInv
<1>11. ASSUME ~missed PROVE WatchedInv'
  <2> SUFFICES ASSUME NEW n \in Observed, inode[n] # None
               PROVE  wd'[inode[n]] # -1 /\ wd'[inode[n]] = Ids'[n]
    BY <1>3, <1>4 DEF WatchedInv
  <2> QED
    BY <1>3, <1>5, <1>6, <1>7, <1>9, <1>11 DEF QuietInv, WatchedInv
<1>12. ASSUME ~missed PROVE SeenInv'
  <2> SUFFICES ASSUME NEW n \in unseen
               PROVE  n \in files_to_notify \/ Reported(n)'
    BY <1>4 DEF SeenInv
  <2>1. n \in files_to_notify \/ Reported(n)
    BY <1>6, <1>9, <1>12 DEF QuietInv, SeenInv
  <2>2. Reported(n) => Reported(n)'
    BY <1>3, <1>4, <1>9 DEF Reported, Alone
  <2> QED
    BY <2>1, <2>2
<1> QED
  BY <1>4, <1>8, <1>10, <1>11, <1>12 DEF QuietInv

(* The descriptors when a file is put in front of the list. *)
LEMMA AddedIds ==
  ASSUME IInv, IInv', NEW f \in ObservedFile, f.name \notin Observed,
         observed_files_' = <<f>> \o observed_files_
  PROVE  /\ Observed' = Observed \cup {f.name}
         /\ Ids'[f.name] = f.file_id
         /\ \A n \in Observed : Ids'[n] = Ids[n]
<1>1. /\ DOMAIN observed_files_' = 1 .. Len(observed_files_) + 1 /\ observed_files_'[1] = f
      /\ \A j \in DOMAIN observed_files_ :
           j + 1 \in DOMAIN observed_files_' /\ observed_files_'[j + 1] = observed_files_[j]
      /\ \A j \in DOMAIN observed_files_' :
           j = 1 \/ (j - 1 \in DOMAIN observed_files_
                     /\ observed_files_'[j] = observed_files_[j - 1])
  BY InFront DEF IInv, List
<1>2. 1 \in DOMAIN observed_files_'
  <2>1. Len(observed_files_) \in Nat
    BY DEF IInv, List
  <2> QED
    BY <1>1, <2>1
<1> PICK new : new = observed_files_'
  OBVIOUS
<1>3. /\ \A j, k \in DOMAIN new : new[j].name = new[k].name => j = k
      /\ Ids' = IdsOf(new) /\ Observed' = {new[k].name : k \in DOMAIN new}
  BY DEF IInv, List, Ids, Observed
<1>4. /\ 1 \in DOMAIN new /\ new[1] = f
      /\ \A j \in DOMAIN observed_files_ :
           j + 1 \in DOMAIN new /\ new[j + 1] = observed_files_[j]
      /\ \A j \in DOMAIN new :
           j = 1 \/ (j - 1 \in DOMAIN observed_files_ /\ new[j] = observed_files_[j - 1])
  BY <1>1, <1>2
<1>5. Observed' = Observed \cup {f.name}
  <2>1. ASSUME NEW n \in Observed' PROVE n \in Observed \cup {f.name}
    <3>1. PICK k \in DOMAIN new : new[k].name = n
      BY <1>3
    <3>2. CASE k = 1
      BY <1>4, <3>1, <3>2
    <3>3. CASE k # 1
      BY <1>4, <3>1, <3>3, Zenon DEF Observed
    <3> QED
      BY <3>2, <3>3
  <2>2. f.name \in Observed'
    BY <1>3, <1>4
  <2>3. ASSUME NEW n \in Observed PROVE n \in Observed'
    <3>1. PICK j \in DOMAIN observed_files_ : observed_files_[j].name = n
      BY DEF Observed
    <3> QED
      BY <1>3, <1>4, <3>1
  <2> QED
    BY <2>1, <2>2, <2>3
<1>6. Ids'[f.name] = f.file_id
  <2>0. PICK k \in DOMAIN new : new[k] = f
    BY <1>4
  <2>1. IdsOf(new)[new[k].name] = new[k].file_id
    BY <1>3, IdsAre, Zenon
  <2> QED
    BY <1>3, <2>0, <2>1, Zenon
<1>7. ASSUME NEW n \in Observed PROVE Ids'[n] = Ids[n]
  <2>1. PICK j \in DOMAIN observed_files_ : observed_files_[j].name = n
    BY DEF Observed
  <2>2. Ids[n] = observed_files_[j].file_id
    BY <2>1, IdsAre DEF Ids, IInv, List
  <2>3. PICK k \in DOMAIN new : new[k] = observed_files_[j]
    BY <1>4, Zenon
  <2>4. IdsOf(new)[new[k].name] = new[k].file_id
    BY <1>3, IdsAre, Zenon
  <2> QED
    BY <1>3, <2>1, <2>2, <2>3, <2>4, Zenon
<1> QED
  BY <1>5, <1>6, <1>7

(* A new file is watched under a descriptor of its own. *)
LEMMA AddKeeps ==
  ASSUME IInv, IInv', QuietInv, NEW t \in Tabs, NEW n \in Names, addFile(t, n)
  PROVE  QuietInv'
<1> DEFINE id == IF inode[n] = None THEN -1 ELSE WatchedId(inode[n])
           f == [name |-> n, callbacks |-> {t}, file_id |-> id,
                 dir_ |-> DirWatched(DirOf[n])]
<1>1. /\ towerPc = "poll" /\ n \notin Observed
      /\ UNCHANGED <<inode, events, files_needing_readding, files_to_notify, unseen, missed>>
  BY DEF addFile, Register, Locked, towerVars
<1>2. observed_files_' = <<f>> \o observed_files_
  BY DEF addFile
<1>3. /\ inode[n] = None => id = -1 /\ wd' = wd
      /\ inode[n] # None =>
           /\ inode[n] \in Inodes /\ wd' = [wd EXCEPT ![inode[n]] = id]
           /\ id = IF wd[inode[n]] = -1 THEN nextWd ELSE wd[inode[n]]
  BY DEF addFile, add_watch, WatchedId, IInv, Kernel
<1>4. /\ nextWd \in Nat \ {0} /\ id \in {-1} \cup 1 .. nextWd
      /\ \A i \in Inodes : wd[i] \in {-1} \cup 1 .. nextWd - 1
  <2> HIDE DEF id
  <2> QED
    BY <1>3 DEF IInv, Kernel
<1>5. f \in ObservedFile /\ f.name = n /\ f.file_id = id
  <2>1. DirWatched(DirOf[n]) \in BOOLEAN
    BY DEF DirWatched
  <2> HIDE DEF id
  <2> QED
    BY <1>4, <2>1 DEF ObservedFile
<1> HIDE DEF f, id
<1>6. /\ Observed' = Observed \cup {n} /\ Ids'[n] = id
      /\ \A x \in Observed : Ids'[x] = Ids[x]
  BY <1>1, <1>2, <1>5, AddedIds
<1>7. \A x \in Names : ~Kept(x)
  BY <1>1 DEF Kept, IInv, Turns
<1>8. files_to_notify = {} /\ DOMAIN files_needing_readding = {}
  BY <1>1 DEF IInv, Turns
<1>9. /\ \A d \in Dirs : wd'[d] = wd[d]
      /\ \A i \in Inodes : i # inode[n] => wd'[i] = wd[i]
      /\ \A i \in Inodes : wd'[i] = wd[i] \/ (wd[i] = -1 /\ wd'[i] = nextWd)
      /\ inode[n] # None => wd'[inode[n]] = id /\ id # -1
  BY <1>3, <1>4, NamesAssumption DEF IInv, Kernel
<1>10. /\ \A x \in Names : inode[x] # None => inode[x] \in Inodes
       /\ Observed \subseteq Names /\ unseen \subseteq Observed
       /\ \A x \in Observed : Ids[x] \in {-1} \cup 1 .. nextWd - 1
  BY IdsType DEF IInv, Kernel, History
<1>11. OneEach'
  <2>1. \A i, j \in Inodes : wd[i] = wd[j] /\ wd[i] # -1 => i = j
    BY DEF QuietInv, OneEach
  <2>2. \A i, j \in Inodes : wd'[i] = wd'[j] /\ wd'[i] # -1 => i = j
    BY <1>4, <1>9, <2>1
  <2> QED
    BY <1>1, <2>2 DEF QuietInv, OneEach
<1>12. KeptInv'
  BY <1>1, <1>7 DEF KeptInv, Kept
<1>13. \A x \in Names : Told(x)' <=> Told(x)
  BY <1>1, <1>9, NamesAssumption DEF Told, Tells
<1>14. ASSUME NEW k \in Names, NEW x \in Names, Later(k, x)
       PROVE  Later(k, x)' /\ Told(x) /\ Told(k)
  <2>1. PICK p, q \in DOMAIN events : p < q /\ Tells(events[p], k) /\ Tells(events[q], x)
    BY <1>7, <1>8, <1>14 DEF Later
  <2>2. Tells(events[p], k)' /\ Tells(events[q], x)'
    BY <1>1, <1>9, <2>1, NamesAssumption DEF Tells
  <2>3. p \in DOMAIN events' /\ q \in DOMAIN events'
    BY <1>1
  <2> QED
    BY <2>1, <2>2, <2>3 DEF Later, Told
<1>15. ASSUME NEW k \in Observed, NEW i \in Inodes, wd'[i] # -1, wd'[i] = Ids[k]
       PROVE  wd[i] # -1 /\ wd[i] = Ids[k]
  BY <1>4, <1>9, <1>10, <1>15
<1>16. ASSUME ~missed PROVE StaleInv'
  <2> SUFFICES ASSUME NEW k \in Observed', NEW x \in Names, Stale(k, x)'
               PROVE  Later(k, x)'
    BY DEF StaleInv
  <2>1. /\ x # k /\ inode[x] \in Inodes /\ inode[x] # None
        /\ wd'[inode[x]] # -1 /\ wd'[inode[x]] = Ids'[k]
    BY <1>1, <1>10 DEF Stale
  <2>2. k # n
    <3> SUFFICES ASSUME k = n PROVE FALSE
      OBVIOUS
    <3>1. id = wd'[inode[x]] /\ id # -1 /\ inode[n] # None
      BY <1>3, <1>6, <2>1
    <3>2. inode[n] = inode[x]
      BY <1>3, <1>9, <1>11, <2>1, <3>1 DEF OneEach
    <3> QED
      BY <2>1, <3>2 DEF QuietInv, OneEach
  <2>3. k \in Observed
    BY <1>6, <2>2
  <2>4. Stale(k, x)
    BY <1>6, <1>15, <2>1, <2>3 DEF Stale
  <2> QED
    BY <1>10, <1>14, <1>16, <2>3, <2>4 DEF QuietInv, StaleInv
<1>17. ASSUME ~missed PROVE WatchedInv'
  <2> SUFFICES ASSUME NEW x \in Observed', inode[x] # None
               PROVE  (wd'[inode[x]] # -1 /\ wd'[inode[x]] = Ids'[x]) \/ Told(x)'
    BY <1>1 DEF WatchedInv
  <2>1. CASE x = n
    BY <1>6, <1>9, <2>1
  <2>2. CASE x # n
    <3>1. x \in Observed /\ x \in Names /\ inode[x] \in Inodes
      BY <1>6, <1>10, <2>2
    <3>2. (wd[inode[x]] # -1 /\ wd[inode[x]] = Ids[x]) \/ Told(x)
      BY <1>7, <1>17, <3>1 DEF QuietInv, WatchedInv
    <3> QED
      BY <1>6, <1>9, <1>13, <3>1, <3>2
  <2> QED
    BY <2>1, <2>2
<1>18. ASSUME ~missed PROVE SeenInv'
  <2> SUFFICES ASSUME NEW x \in unseen PROVE Told(x)' \/ Reported(x)'
    BY <1>1 DEF SeenInv
  <2>0. x \in Observed /\ x \in Names /\ x # n
    BY <1>1, <1>10
  <2>1. Told(x) \/ Reported(x)
    BY <1>8, <1>18 DEF QuietInv, SeenInv
  <2>2. ASSUME Reported(x), ~Told(x) PROVE Reported(x)'
    <3>1. PICK p \in DOMAIN events : events[p].is = "self" /\ events[p].wd = Ids[x]
      BY <2>2 DEF Reported
    <3>2. Ids[x] # -1
      <4>1. events[p] \in EventBelow(nextWd)
        BY DEF IInv, Kernel
      <4>2. events[p].wd # -1
        BY <4>1 DEF EventBelow
      <4> QED
        BY <3>1, <4>2
    <3>3. Ids'[n] # Ids'[x]
      <4> SUFFICES ASSUME id = Ids[x] PROVE FALSE
        BY <1>6, <2>0
      <4>1. inode[n] # None /\ inode[n] \in Inodes
        BY <1>3, <3>2
      <4>2. wd[inode[n]] # -1 /\ wd[inode[n]] = Ids[x]
        BY <1>9, <1>15, <2>0, <3>2, <4>1
      <4>3. Stale(x, n)
        BY <2>0, <4>1, <4>2 DEF Stale
      <4> QED
        BY <1>14, <1>18, <2>0, <2>2, <4>3 DEF QuietInv, StaleInv
    <3>4. Alone(x)'
      BY <1>6, <2>0, <2>2, <3>3 DEF Reported, Alone
    <3> QED
      BY <1>1, <1>6, <2>0, <3>1, <3>4 DEF Reported
  <2> QED
    BY <1>13, <2>0, <2>1, <2>2
<1> QED
  BY <1>1, <1>11, <1>12, <1>16, <1>17, <1>18 DEF QuietInv

(* The descriptors when a file leaves the list. *)
LEMMA RemovedIds ==
  ASSUME IInv, IInv', NEW k \in DOMAIN observed_files_,
         observed_files_' = RemoveAt(observed_files_, k)
  PROVE  /\ Observed' = Observed \ {observed_files_[k].name}
         /\ \A n \in Observed' : Ids'[n] = Ids[n]
<1> DEFINE s == observed_files_
           removed == RemoveAt(s, k)
<1>0. s \in Seq(ObservedFile)
  BY DEF IInv, List
<1>1. /\ Len(removed) = Len(s) - 1 /\ removed \in Seq(ObservedFile)
      /\ \A j \in 1 .. Len(s) - 1 : removed[j] = IF j < k THEN s[j] ELSE s[j + 1]
  BY <1>0, RemovedAt
<1> PICK left : left = removed
  OBVIOUS
<1>2. DOMAIN left = 1 .. Len(s) - 1 /\ DOMAIN s = 1 .. Len(s) /\ Len(s) \in Nat
  <2> HIDE DEF removed
  <2> QED
    BY <1>0, <1>1
<1>3. \A j \in DOMAIN left : left[j] = IF j < k THEN s[j] ELSE s[j + 1]
  BY <1>1, <1>2
<1>4. left = observed_files_'
  OBVIOUS
<1> HIDE DEF removed
<1>5. ASSUME NEW j \in DOMAIN left
      PROVE  \E i \in DOMAIN observed_files_ : i # k /\ left[j] = observed_files_[i]
  <2>1. CASE j < k
    BY <1>2, <1>3, <2>1
  <2>2. CASE ~(j < k)
    <3>1. j + 1 \in DOMAIN s /\ j + 1 # k /\ left[j] = s[j + 1]
      BY <1>2, <1>3, <2>2
    <3> QED
      BY <3>1
  <2> QED
    BY <2>1, <2>2
<1>6. ASSUME NEW i \in DOMAIN observed_files_, i # k
      PROVE  \E j \in DOMAIN left : left[j] = observed_files_[i]
  <2>1. CASE i < k
    BY <1>2, <1>3, <2>1
  <2>2. CASE i > k
    <3>1. i - 1 \in DOMAIN left /\ ~(i - 1 < k) /\ (i - 1) + 1 = i
      BY <1>2, <2>2
    <3> QED
      BY <1>3, <3>1
  <2> QED
    BY <1>2, <1>6, <2>1, <2>2
<1>7. \A i, j \in DOMAIN observed_files_ :
        observed_files_[i].name = observed_files_[j].name => i = j
  BY DEF IInv, List
<1>8. /\ \A i, j \in DOMAIN left : left[i].name = left[j].name => i = j
      /\ Ids' = IdsOf(left) /\ Observed' = {left[j].name : j \in DOMAIN left}
  BY <1>4 DEF IInv, List, Ids, Observed
<1> HIDE DEF s
<1>9. ASSUME NEW n \in Observed'
      PROVE  n \in Observed \ {observed_files_[k].name} /\ Ids'[n] = Ids[n]
  <2>1. PICK j \in DOMAIN left : left[j].name = n
    BY <1>8
  <2>2. PICK i \in DOMAIN observed_files_ : i # k /\ left[j] = observed_files_[i]
    BY <1>5
  <2>3. n \in Observed /\ n # observed_files_[k].name
    BY <1>7, <2>1, <2>2 DEF Observed
  <2>4. IdsOf(left)[left[j].name] = left[j].file_id
    BY <1>8, IdsAre, Zenon
  <2>5. IdsOf(observed_files_)[observed_files_[i].name] = observed_files_[i].file_id
    BY <1>7, IdsAre, Zenon
  <2> QED
    BY <1>8, <2>1, <2>2, <2>3, <2>4, <2>5, Zenon DEF Ids
<1>10. ASSUME NEW n \in Observed, n # observed_files_[k].name PROVE n \in Observed'
  <2>1. PICK i \in DOMAIN observed_files_ : observed_files_[i].name = n
    BY DEF Observed
  <2>2. PICK j \in DOMAIN left : left[j] = observed_files_[i]
    BY <1>6, <1>10, <2>1
  <2> QED
    BY <1>8, <2>1, <2>2, Zenon
<1> QED
  BY <1>9, <1>10

(* A file leaves the list: a descriptor given up with it that is another   *)
(* file's is got again, for that one is pending. *)
LEMMA RemovalKeeps ==
  ASSUME SameDirectory, IInv, IInv', QuietInv, towerPc = "poll",
         NEW k \in DOMAIN observed_files_,
         observed_files_' = RemoveAt(observed_files_, k),
         LET file == observed_files_[k]
             left == RemoveAt(observed_files_, k)
             shared == \E j \in DOMAIN left : DirOf[left[j].name] = DirOf[file.name]
         IN  /\ wd' = [rm_watch(file.file_id) EXCEPT
                         ![DirOf[file.name]] = IF shared THEN @ ELSE -1]
             /\ unseen' = unseen \ {file.name},
         UNCHANGED <<inode, nextWd, events, towerVars, guiPc, missed>>
  PROVE  QuietInv'
<1> PICK f : f = observed_files_[k]
  OBVIOUS
<1> PICK left : left = RemoveAt(observed_files_, k)
  OBVIOUS
<1> DEFINE d == DirOf[f.name]
           shared == \E j \in DOMAIN left : DirOf[left[j].name] = d
<1>1. /\ Observed' = Observed \ {f.name}
      /\ \A n \in Observed' : Ids'[n] = Ids[n]
  BY RemovedIds
<1>2. f.name \in Observed /\ f.name \in Names /\ d \in Dirs /\ Ids[f.name] = f.file_id
  <2>1. f.name \in Observed
    BY DEF Observed
  <2>2. f.name \in Names
    BY <2>1, IdsType
  <2>3. Ids[f.name] = f.file_id
    BY IdsAre DEF Ids, IInv, List
  <2> QED
    BY <2>1, <2>2, <2>3, NamesAssumption
<1>3. /\ wd' = [rm_watch(f.file_id) EXCEPT ![d] = IF shared THEN @ ELSE -1]
      /\ unseen' = unseen \ {f.name} /\ observed_files_' = left
  OBVIOUS
<1>4. /\ \A i \in Inodes : wd'[i] = IF f.file_id # -1 /\ wd[i] = f.file_id THEN -1 ELSE wd[i]
      /\ \A e \in Dirs : (e = d /\ ~shared) \/ wd'[e] = wd[e]
  <2>1. \A e \in Dirs : wd[e] # -1 => f.file_id # wd[e]
    BY DEF IInv, Apart
  <2>2. rm_watch(f.file_id) = [w \in Inodes \cup Dirs |->
                  IF f.file_id # -1 /\ wd[w] = f.file_id THEN -1 ELSE wd[w]]
    BY DEF rm_watch, IInv, Kernel
  <2> HIDE DEF shared, d
  <2>3. \A i \in Inodes : i # d
    BY <1>2, NamesAssumption
  <2>4. \A e \in Dirs : rm_watch(f.file_id)[e] = wd[e]
    BY <2>1, <2>2
  <2>5. \A w \in Inodes \cup Dirs :
          wd'[w] = IF w = d /\ ~shared THEN -1 ELSE rm_watch(f.file_id)[w]
    BY <1>2, <1>3, <2>2
  <2> QED
    BY <2>2, <2>3, <2>4, <2>5
<1>5. \A x \in Names : ~Kept(x)
  BY DEF Kept, IInv, Turns
<1>6. files_to_notify = {} /\ DOMAIN files_needing_readding = {}
  BY DEF IInv, Turns
<1>7. ASSUME Observed' # {} PROVE \A e \in Dirs : wd'[e] = wd[e]
  <2>1. PICK j \in DOMAIN left : left[j].name \in Observed'
    BY <1>3, <1>7 DEF Observed
  <2>2. left[j].name \in Names
    BY <1>1, <2>1, IdsType
  <2>3. shared
    BY <1>2, <2>2 DEF SameDirectory
  <2> QED
    BY <1>4, <2>3
<1> HIDE DEF d, shared
<1>8. /\ \A x \in Names : inode[x] # None => inode[x] \in Inodes
      /\ Observed \subseteq Names /\ unseen \subseteq Observed
  BY IdsType DEF IInv, Kernel, History
<1>9. OneEach'
  BY <1>4 DEF QuietInv, OneEach
<1>10. KeptInv'
  BY <1>5 DEF KeptInv, Kept, towerVars
<1>11. ASSUME Observed' # {} PROVE \A e, x : x \in Names => (Tells(e, x)' <=> Tells(e, x))
  BY <1>7, <1>11, NamesAssumption DEF Tells
<1>12. ASSUME Observed' # {}, NEW x \in Names, Told(x) PROVE Told(x)'
  BY <1>11, <1>12 DEF Told
<1>13. ASSUME Observed' # {}, NEW j \in Names, NEW x \in Names, Later(j, x)
       PROVE  Later(j, x)' /\ Told(x)
  <2>1. PICK p, q \in DOMAIN events : p < q /\ Tells(events[p], j) /\ Tells(events[q], x)
    BY <1>5, <1>6, <1>13 DEF Later
  <2>2. Tells(events[p], j)' /\ Tells(events[q], x)'
    BY <1>7, <1>13, <2>1, NamesAssumption DEF Tells
  <2>3. p \in DOMAIN events' /\ q \in DOMAIN events'
    OBVIOUS
  <2> QED
    BY <2>1, <2>2, <2>3 DEF Later, Told
<1>14. ASSUME ~missed PROVE StaleInv'
  <2> SUFFICES ASSUME NEW j \in Observed', NEW x \in Names, Stale(j, x)'
               PROVE  Later(j, x)'
    BY DEF StaleInv
  <2>1. j \in Observed /\ Stale(j, x)
    BY <1>1, <1>4, <1>8 DEF Stale
  <2> QED
    BY <1>8, <1>13, <1>14, <2>1 DEF QuietInv, StaleInv
<1>15. ASSUME ~missed PROVE WatchedInv'
  <2> SUFFICES ASSUME NEW x \in Observed', inode[x] # None
               PROVE  (wd'[inode[x]] # -1 /\ wd'[inode[x]] = Ids'[x]) \/ Told(x)'
    BY DEF WatchedInv
  <2>1. x \in Observed /\ x \in Names /\ x # f.name /\ inode[x] \in Inodes
    BY <1>1, <1>8
  <2>2. (wd[inode[x]] # -1 /\ wd[inode[x]] = Ids[x]) \/ Told(x)
    BY <1>5, <1>15, <2>1 DEF QuietInv, WatchedInv
  <2>3. CASE Told(x)
    BY <1>12, <2>1, <2>3
  <2>4. CASE wd[inode[x]] # -1 /\ wd[inode[x]] = Ids[x] /\ wd[inode[x]] = f.file_id
    <3>1. Stale(f.name, x)
      BY <1>2, <2>1, <2>4 DEF Stale
    <3>2. Later(f.name, x)
      BY <1>2, <1>15, <2>1, <3>1 DEF QuietInv, StaleInv
    <3> QED
      BY <1>2, <1>12, <1>13, <2>1, <3>2
  <2>5. CASE wd[inode[x]] # -1 /\ wd[inode[x]] = Ids[x] /\ wd[inode[x]] # f.file_id
    BY <1>1, <1>4, <2>1, <2>5
  <2> QED
    BY <2>2, <2>3, <2>4, <2>5
<1>16. ASSUME ~missed PROVE SeenInv'
  <2> SUFFICES ASSUME NEW x \in unseen, x # f.name PROVE Told(x)' \/ Reported(x)'
    BY <1>3 DEF SeenInv
  <2>1. x \in Observed' /\ x \in Names
    BY <1>1, <1>8
  <2>2. Told(x) \/ Reported(x)
    BY <1>6, <1>16 DEF QuietInv, SeenInv
  <2>3. Reported(x) => Reported(x)'
    BY <1>1, <2>1 DEF Reported, Alone
  <2> QED
    BY <1>12, <2>1, <2>2, <2>3
<1> QED
  BY <1>9, <1>10, <1>14, <1>15, <1>16 DEF QuietInv

(* A client goes. *)
LEMMA RemoveKeeps ==
  ASSUME SameDirectory, IInv, IInv', QuietInv, NEW t \in Tabs, removeNotification(t)
  PROVE  QuietInv'
<1> DEFINE k == CHOOSE j \in DOMAIN observed_files_ : t \in observed_files_[j].callbacks
<1>1. k \in DOMAIN observed_files_ /\ t \in observed_files_[k].callbacks
  BY DEF removeNotification, Registered
<1>2. /\ towerPc = "poll"
      /\ UNCHANGED <<inode, nextWd, events, towerVars, guiPc, missed>>
  BY DEF removeNotification, Locked
<1>3. CASE observed_files_[k].callbacks = {t}
  <2>1. observed_files_' = RemoveAt(observed_files_, k)
    BY <1>3 DEF removeNotification
  <2>2. LET file == observed_files_[k]
            left == RemoveAt(observed_files_, k)
            shared == \E j \in DOMAIN left : DirOf[left[j].name] = DirOf[file.name]
        IN  /\ wd' = [rm_watch(file.file_id) EXCEPT
                        ![DirOf[file.name]] = IF shared THEN @ ELSE -1]
            /\ unseen' = unseen \ {file.name}
    BY <1>3 DEF removeNotification
  <2> HIDE DEF k
  <2> QED
    BY <1>1, <1>2, <2>1, <2>2, RemovalKeeps
<1>4. CASE observed_files_[k].callbacks # {t}
  <2> DEFINE c == observed_files_[k].callbacks \ {t}
  <2>1. observed_files_' = [observed_files_ EXCEPT ![k].callbacks = c]
        /\ UNCHANGED <<wd, unseen>>
    BY <1>4 DEF removeNotification
  <2> HIDE DEF k, c
  <2> QED
    BY <1>1, <1>2, <2>1, CallbacksKeep DEF kernelVars
<1> QED
  BY <1>3, <1>4

(* A client comes for a file that is observed already. *)
LEMMA AddCallbackKeeps ==
  ASSUME IInv, IInv', QuietInv, NEW t \in Tabs, NEW n \in Names, addCallback(t, n)
  PROVE  QuietInv'
<1> DEFINE k == IndexOf(n)
           c == observed_files_[k].callbacks \cup {t}
<1>1. k \in DOMAIN observed_files_
  BY IndexOfName DEF addCallback
<1>2. observed_files_' = [observed_files_ EXCEPT ![k].callbacks = c]
  BY DEF addCallback
<1> HIDE DEF k, c
<1> QED
  BY <1>1, <1>2, CallbacksKeep DEF addCallback

(* What the thread reads leads to the names it is about: a name is in its  *)
(* hands, or still to be told of. *)
LEMMA ReadKeeps ==
  ASSUME IInv, IInv', QuietInv, waitAndProcessEvents
  PROVE  QuietInv'
<1>1. PICK z \in 0 .. Len(events) :
        /\ files_needing_readding' = FilesNeedingReadding(SubSeq(events, 1, z))
        /\ files_to_notify' = FilesToNotify(SubSeq(events, 1, z))
        /\ events' = SubSeq(events, z + 1, Len(events))
  BY DEF waitAndProcessEvents
<1>2. /\ towerPc = "poll" /\ guiPc # "adding"
      /\ UNCHANGED <<inode, wd, nextWd, observed_files_, unseen, missed>>
  BY DEF waitAndProcessEvents
<1>3. PICK read : read = SubSeq(events, 1, z)
  OBVIOUS
<1>4. /\ DOMAIN events = 1 .. Len(events) /\ Len(events) \in Nat
      /\ DOMAIN read = 1 .. z /\ \A p \in 1 .. z : read[p] = events[p]
      /\ DOMAIN events' = 1 .. Len(events) - z
      /\ \A p \in 1 .. Len(events) - z : events'[p] = events[p + z]
  <2> DEFINE E == EventBelow(nextWd)
  <2>1. events \in Seq(E)
    BY DEF IInv, Kernel
  <2> HIDE DEF E
  <2> QED
    BY <1>1, <1>3, <2>1
<1>5. Observed' = Observed /\ Ids' = Ids
  BY <1>2 DEF Observed, Ids, IdsOf
<1>6. /\ Observed \subseteq Names /\ unseen \subseteq Observed
      /\ files_to_notify = {} /\ \A n \in Names : ~Kept(n)
      /\ DOMAIN files_needing_readding = {}
  BY <1>2, IdsType DEF IInv, History, Turns, Kept
<1>7. \A n \in Observed : DirWatched(DirOf[n])
  <2> TAKE n \in Observed
  <2>1. PICK k \in DOMAIN observed_files_ : observed_files_[k].name = n
    BY DEF Observed
  <2> QED
    BY <1>2, <2>1, Zenon DEF DirWatched, IInv, Turns
<1>8. ASSUME NEW n \in Observed, NEW p \in 1 .. z, Tells(events[p], n)
      PROVE  FileOf(events[p]) = {n}
  BY <1>6, <1>7, <1>8 DEF Tells, FileOf
<1>9. ASSUME NEW n \in Observed, NEW p \in 1 .. z, Tells(events[p], n)
      PROVE  /\ p \in DOMAIN files_needing_readding' /\ files_needing_readding'[p] = n
             /\ n \in files_to_notify'
  <2>1. FileOf(read[p]) = {n} /\ read[p].is = "dir" /\ read[p].name = n
        /\ p \in DOMAIN read
    BY <1>4, <1>8, <1>9 DEF Tells
  <2>2. p \in DOMAIN files_needing_readding' /\ files_needing_readding'[p] = n
    BY <1>1, <1>3, <2>1 DEF FilesNeedingReadding
  <2>3. n \in files_to_notify'
    BY <1>1, <1>3, <2>1 DEF FilesToNotify, ToSet
  <2> QED
    BY <2>2, <2>3
<1>10. ASSUME NEW n \in Names, NEW p \in DOMAIN events, Tells(events[p], n), p > z
       PROVE  \E r \in DOMAIN events' : r = p - z /\ Tells(events[r], n)'
  <2>1. PICK r \in DOMAIN events' : r = p - z /\ events'[r] = events[p]
    <3>1. p - z \in 1 .. Len(events) - z /\ (p - z) + z = p
      BY <1>4, <1>10
    <3> QED
      BY <1>4, <3>1
  <2>2. Tells(events[r], n)'
    BY <1>2, <1>10, <2>1 DEF Tells
  <2> QED
    BY <2>1, <2>2
<1>11. ASSUME NEW n \in Observed, Told(n)
       PROVE  Told(n)' \/ (Kept(n)' /\ n \in files_to_notify')
  <2>1. PICK p \in DOMAIN events : Tells(events[p], n)
    BY <1>11 DEF Told
  <2>2. CASE p > z
    BY <1>6, <1>10, <2>1, <2>2 DEF Told
  <2>3. CASE ~(p > z)
    <3>1. p \in 1 .. z
      BY <1>4, <2>3
    <3> QED
      BY <1>9, <2>1, <3>1 DEF Kept
  <2> QED
    BY <2>2, <2>3
<1>12. OneEach'
  BY <1>2 DEF QuietInv, OneEach
<1>13. KeptInv'
  <2> SUFFICES ASSUME NEW n \in Names, NEW p \in DOMAIN files_needing_readding',
                      files_needing_readding'[p] = n
               PROVE  n \in files_to_notify'
    BY DEF KeptInv, Kept
  <2>1. p \in DOMAIN read /\ read[p].is = "dir" /\ FileOf(read[p]) # {} /\ read[p].name = n
    BY <1>1, <1>3 DEF FilesNeedingReadding
  <2>2. n \in FileOf(read[p])
    BY <2>1 DEF FileOf
  <2> QED
    BY <1>1, <1>3, <2>1, <2>2 DEF FilesToNotify, ToSet
<1>14. ASSUME ~missed PROVE StaleInv'
  <2> SUFFICES ASSUME NEW k \in Observed, NEW n \in Names, Stale(k, n)'
               PROVE  Later(k, n)'
    BY <1>5 DEF StaleInv
  <2>1. Stale(k, n)
    BY <1>2, <1>5 DEF Stale
  <2>2. Later(k, n)
    BY <1>14, <2>1 DEF QuietInv, StaleInv
  <2>3. PICK p \in DOMAIN events, q \in DOMAIN events :
          p < q /\ Tells(events[p], k) /\ Tells(events[q], n)
    BY <1>6, <2>2 DEF Later
  <2>4. CASE p > z
    <3>0. q > z
      BY <1>4, <2>3, <2>4
    <3>1. PICK r \in DOMAIN events' : r = p - z /\ Tells(events[r], k)'
      BY <1>6, <1>10, <2>3, <2>4
    <3>2. PICK s \in DOMAIN events' : s = q - z /\ Tells(events[s], n)'
      BY <1>10, <2>3, <3>0
    <3>3. r < s
      BY <1>4, <2>3, <3>1, <3>2
    <3> QED
      BY <3>1, <3>2, <3>3 DEF Later
  <2>5. CASE p \in 1 .. z
    <3>1. p \in DOMAIN files_needing_readding' /\ files_needing_readding'[p] = k /\ Kept(k)'
      BY <1>9, <2>3, <2>5 DEF Kept
    <3>2. CASE n \notin Observed
      BY <1>5, <3>1, <3>2 DEF Later
    <3>3. CASE n \in Observed /\ q > z
      <4>1. Told(n)'
        BY <1>10, <2>3, <3>3 DEF Told
      <4> QED
        BY <3>1, <4>1 DEF Later
    <3>4. CASE n \in Observed /\ q \in 1 .. z
      <4>1. q \in DOMAIN files_needing_readding' /\ files_needing_readding'[q] = n
        BY <1>9, <2>3, <3>4
      <4> QED
        BY <2>3, <3>1, <4>1 DEF Later
    <3> QED
      BY <1>4, <3>2, <3>3, <3>4
  <2> QED
    BY <1>4, <2>4, <2>5
<1>15. ASSUME ~missed PROVE WatchedInv'
  <2> SUFFICES ASSUME NEW n \in Observed, inode[n] # None
               PROVE  \/ wd[inode[n]] # -1 /\ wd[inode[n]] = Ids[n]
                      \/ Kept(n)' \/ Told(n)'
    BY <1>2, <1>5 DEF WatchedInv
  <2> QED
    BY <1>6, <1>11, <1>15 DEF QuietInv, WatchedInv
<1>16. ASSUME ~missed PROVE SeenInv'
  <2> SUFFICES ASSUME NEW n \in unseen
               PROVE  n \in files_to_notify' \/ Told(n)' \/ Reported(n)'
    BY <1>2 DEF SeenInv
  <2>0. n \in Observed
    BY <1>6
  <2>1. Told(n) \/ Reported(n)
    BY <1>6, <1>16 DEF QuietInv, SeenInv
  <2>2. ASSUME Reported(n)
        PROVE  n \in files_to_notify' \/ Reported(n)'
    <3>1. PICK p \in DOMAIN events : events[p].is = "self" /\ events[p].wd = Ids[n]
      BY <2>2 DEF Reported
    <3>2. CASE p > z
      <4>1. PICK r \in DOMAIN events' : events'[r] = events[p]
        <5>1. p - z \in 1 .. Len(events) - z /\ (p - z) + z = p
          BY <1>4, <3>2
        <5> QED
          BY <1>4, <5>1
      <4>2. Alone(n)'
        BY <1>5, <2>2 DEF Reported, Alone
      <4> QED
        BY <1>5, <3>1, <4>1, <4>2 DEF Reported
    <3>3. CASE p \in 1 .. z
      <4>1. PICK k \in DOMAIN observed_files_ : observed_files_[k].name = n
        BY <2>0 DEF Observed
      <4>2. \A j \in DOMAIN observed_files_ :
              observed_files_[j].name \in Observed
              /\ Ids[observed_files_[j].name] = observed_files_[j].file_id
        BY IdsAre DEF Ids, IInv, List, Observed
      <4>3. observed_files_[k].file_id = events[p].wd
        BY <3>1, <4>1, <4>2
      <4>4. \A j \in DOMAIN observed_files_ :
              observed_files_[j].file_id = events[p].wd => j = k
        <5> TAKE j \in DOMAIN observed_files_
        <5> HAVE observed_files_[j].file_id = events[p].wd
        <5>1. observed_files_[j].name = n
          BY <2>2, <3>1, <4>2 DEF Reported, Alone
        <5> QED
          BY <4>1, <5>1 DEF IInv, List
      <4>5. \A i \in 1 .. k - 1 : i \in DOMAIN observed_files_ /\ i # k
        BY DEF IInv, List
      <4>6. n \in FileOf(read[p])
        BY <1>4, <3>1, <3>3, <4>1, <4>3, <4>4, <4>5 DEF FileOf
      <4>7. p \in DOMAIN read
        BY <1>4, <3>3
      <4> QED
        BY <1>1, <1>3, <4>6, <4>7 DEF FilesToNotify, ToSet
    <3> QED
      BY <1>4, <3>2, <3>3
  <2> QED
    BY <1>11, <2>0, <2>1, <2>2
<1> QED
  BY <1>2, <1>12, <1>13, <1>14, <1>15, <1>16 DEF QuietInv

(* Those in its hands have been watched again, and the observers are       *)
(* called. *)
LEMMA NotifyKeeps ==
  ASSUME IInv, IInv', QuietInv, notify
  PROVE  QuietInv'
<1>1. /\ DOMAIN files_needing_readding = {} /\ files_to_notify' = {}
      /\ unseen' = unseen \ files_to_notify
      /\ UNCHANGED <<inode, wd, nextWd, events, observed_files_, files_needing_readding,
                     missed>>
  BY DEF notify, kernelVars
<1>2. Observed' = Observed /\ Ids' = Ids
  BY <1>1 DEF Observed, Ids, IdsOf
<1>3. \A n : ~Kept(n) /\ ~Kept(n)'
  BY <1>1 DEF Kept
<1>4. \A n : Told(n)' <=> Told(n)
  BY <1>1 DEF Told, Tells
<1>5. \A k, n : Stale(k, n)' => Stale(k, n)
  BY <1>1, <1>2 DEF Stale
<1>6. \A k, n : Later(k, n) => Later(k, n)'
  BY <1>1, <1>3 DEF Later, Tells
<1>7. \A n : Reported(n) => Reported(n)'
  BY <1>1, <1>2 DEF Reported, Alone
<1>8. OneEach' /\ KeptInv'
  BY <1>1, <1>3 DEF QuietInv, OneEach, KeptInv
<1>9. ASSUME ~missed PROVE StaleInv' /\ WatchedInv' /\ SeenInv'
  <2>1. StaleInv'
    BY <1>2, <1>5, <1>6, <1>9 DEF QuietInv, StaleInv
  <2>2. WatchedInv'
    BY <1>1, <1>2, <1>3, <1>4, <1>9 DEF QuietInv, WatchedInv
  <2>3. SeenInv'
    BY <1>1, <1>4, <1>7, <1>9 DEF QuietInv, SeenInv
  <2> QED
    BY <2>1, <2>2, <2>3
<1> QED
  BY <1>1, <1>8, <1>9 DEF QuietInv

(* The descriptors when the file of one name is watched again. *)
LEMMA ReaddedIds ==
  ASSUME IInv, IInv', NEW k \in DOMAIN observed_files_, NEW id,
         observed_files_' = [observed_files_ EXCEPT ![k].file_id = id]
  PROVE  /\ Observed' = Observed
         /\ Ids'[observed_files_[k].name] = id
         /\ \A n \in Observed : n # observed_files_[k].name => Ids'[n] = Ids[n]
<1>1. observed_files_ \in Seq(ObservedFile) /\ observed_files_[k] \in ObservedFile
  BY DEF IInv, List
<1> PICK list : list = observed_files_'
  OBVIOUS
<1>2. /\ DOMAIN list = DOMAIN observed_files_
      /\ list[k].file_id = id
      /\ \A j \in DOMAIN observed_files_ :
           /\ list[j].name = observed_files_[j].name
           /\ j # k => list[j].file_id = observed_files_[j].file_id
  BY <1>1 DEF ObservedFile
<1>3. /\ \A i, j \in DOMAIN list : list[i].name = list[j].name => i = j
      /\ Ids' = IdsOf(list) /\ Observed' = {list[j].name : j \in DOMAIN list}
      /\ \A i, j \in DOMAIN observed_files_ :
           observed_files_[i].name = observed_files_[j].name => i = j
  BY DEF IInv, List, Ids, Observed
<1>4. ASSUME NEW j \in DOMAIN list PROVE IdsOf(list)[list[j].name] = list[j].file_id
  <2>1. \A h, i \in DOMAIN list : list[h].name = list[i].name => h = i
    BY <1>3
  <2>2. (CHOOSE i \in DOMAIN list : list[i].name = list[j].name) = j
    BY <2>1
  <2> QED
    BY <2>2 DEF IdsOf
<1>5. \A j \in DOMAIN observed_files_ :
        IdsOf(observed_files_)[observed_files_[j].name] = observed_files_[j].file_id
  BY <1>3, IdsAre, Zenon
<1>6. Observed' = Observed
  BY <1>2, <1>3 DEF Observed
<1>7. Ids'[observed_files_[k].name] = id
  <2>1. k \in DOMAIN list /\ list[k].name = observed_files_[k].name
    BY <1>2
  <2>2. IdsOf(list)[list[k].name] = id
    BY <1>2, <1>4, <2>1
  <2> QED
    BY <1>3, <2>1, <2>2
<1>8. ASSUME NEW n \in Observed, n # observed_files_[k].name PROVE Ids'[n] = Ids[n]
  <2>1. PICK j \in DOMAIN observed_files_ : observed_files_[j].name = n
    BY DEF Observed
  <2>2. j # k
    BY <1>8, <2>1
  <2>3. j \in DOMAIN list /\ list[j].name = n
        /\ list[j].file_id = observed_files_[j].file_id
    BY <1>2, <2>1, <2>2
  <2>4. IdsOf(list)[n] = observed_files_[j].file_id
    BY <1>4, <2>3
  <2>5. IdsOf(observed_files_)[n] = observed_files_[j].file_id
    BY <1>5, <2>1
  <2> QED
    BY <1>3, <2>4, <2>5 DEF Ids
<1> QED
  BY <1>6, <1>7, <1>8

(* The first of the files in hand is watched again.  A file that had the   *)
(* descriptor given up is behind it in hand, or will be told of. *)
LEMMA ReaddKeeps ==
  ASSUME IInv, IInv', QuietInv, readd
  PROVE  QuietInv'
<1> PICK first : first = Min(DOMAIN files_needing_readding)
  OBVIOUS
<1> PICK n : n = files_needing_readding[first]
  OBVIOUS
<1>1. /\ first \in DOMAIN files_needing_readding
      /\ \A p \in DOMAIN files_needing_readding : first <= p
      /\ DOMAIN files_needing_readding \subseteq Nat
  BY MinIsIn DEF readd, IInv, Turns
<1>2. n \in Observed /\ n \in Names /\ n \in files_to_notify
  <2>1. n \in Observed
    BY <1>1 DEF IInv, PointersAlive, Range
  <2>2. n \in Names
    BY <2>1, IdsType
  <2> QED
    BY <1>1, <2>1, <2>2 DEF QuietInv, KeptInv, Kept
<1>3. PICK k \in DOMAIN observed_files_ : k = IndexOf(n) /\ observed_files_[k].name = n
  BY <1>2, IndexOfName
<1>4. PICK old : old = observed_files_[k].file_id /\ old = Ids[n]
  BY <1>2, <1>3, WatchedAs
<1> PICK left : left = rm_watch(old)
  OBVIOUS
<1>5. /\ files_needing_readding' =
           Restrict(files_needing_readding, DOMAIN files_needing_readding \ {first})
      /\ UNCHANGED <<inode, events, files_to_notify, unseen, missed>>
  BY DEF readd
<1>6. /\ DOMAIN left = Inodes \cup Dirs
      /\ \A i \in Inodes : left[i] = IF old # -1 /\ wd[i] = old THEN -1 ELSE wd[i]
      /\ \A d \in Dirs : left[d] = wd[d]
  <2>1. left = [w \in Inodes \cup Dirs |-> IF old # -1 /\ wd[w] = old THEN -1 ELSE wd[w]]
    BY DEF rm_watch, IInv, Kernel
  <2>2. \A d \in Dirs : wd[d] # -1 => old # wd[d]
    BY <1>4 DEF IInv, Apart
  <2> QED
    BY <2>1, <2>2
<1>7. /\ nextWd \in Nat \ {0} /\ \A i \in Inodes : wd[i] \in {-1} \cup 1 .. nextWd - 1
      /\ \A x \in Names : inode[x] # None => inode[x] \in Inodes
      /\ unseen \subseteq Observed /\ Observed \subseteq Names
      /\ \A x \in Observed : Ids[x] \in {-1} \cup 1 .. nextWd - 1
  BY IdsType DEF IInv, Kernel, History
<1>8. PICK id : observed_files_' = [observed_files_ EXCEPT ![k].file_id = id]
                /\ IF inode[n] = None THEN id = -1 /\ wd' = left
                   ELSE /\ id = IF left[inode[n]] = -1 THEN nextWd ELSE left[inode[n]]
                        /\ wd' = [left EXCEPT ![inode[n]] = id]
  <2>1. CASE inode[n] = None
    BY <1>3, <1>4, <2>1 DEF readd
  <2>2. CASE inode[n] # None
    <3>1. wd' = [left EXCEPT ![inode[n]] = IF left[inode[n]] = -1 THEN nextWd
                                            ELSE left[inode[n]]]
          /\ observed_files_' = [observed_files_ EXCEPT ![k].file_id = wd'[inode[n]]]
      BY <1>3, <1>4, <1>6, <1>7, <1>2, <2>2 DEF readd, add_watch
    <3>2. wd'[inode[n]] = IF left[inode[n]] = -1 THEN nextWd ELSE left[inode[n]]
      BY <1>2, <1>6, <1>7, <2>2, <3>1
    <3> QED
      BY <2>2, <3>1, <3>2
  <2> QED
    BY <2>1, <2>2
<1>9. Observed' = Observed /\ Ids'[n] = id /\ \A x \in Observed : x # n => Ids'[x] = Ids[x]
  <2>1. observed_files_' = [observed_files_ EXCEPT ![k].file_id = id]
    BY <1>8
  <2>2. /\ Observed' = Observed /\ Ids'[observed_files_[k].name] = id
        /\ \A x \in Observed : x # observed_files_[k].name => Ids'[x] = Ids[x]
    BY <2>1, ReaddedIds
  <2> QED
    BY <1>3, <2>2
<1>10. /\ \A d \in Dirs : wd'[d] = wd[d]
       /\ \A i \in Inodes : i # inode[n] => wd'[i] = left[i]
       /\ inode[n] # None => wd'[inode[n]] = id /\ id # -1
       /\ inode[n] = None => id = -1
  BY <1>2, <1>6, <1>7, <1>8, NamesAssumption
<1>11. \A i \in Inodes : wd'[i] \in {-1, nextWd} \/ wd'[i] = wd[i]
  BY <1>2, <1>6, <1>7, <1>8
<1>12. OneEach'
  <2>1. \A i, j \in Inodes : wd[i] = wd[j] /\ wd[i] # -1 => i = j
    BY DEF QuietInv, OneEach
  <2>2. \A i \in Inodes : i # inode[n] => wd'[i] \in {-1, wd[i]}
    BY <1>6, <1>10
  <2>3. \A i, j \in Inodes : wd'[i] = wd'[j] /\ wd'[i] # -1 => i = j
    BY <1>7, <1>11, <2>1, <2>2
  <2> QED
    BY <1>5, <2>3 DEF QuietInv, OneEach
<1>13. /\ DOMAIN files_needing_readding' = DOMAIN files_needing_readding \ {first}
       /\ \A p \in DOMAIN files_needing_readding' :
            files_needing_readding'[p] = files_needing_readding[p]
  BY <1>5 DEF Restrict
<1>14. KeptInv'
  BY <1>5, <1>13 DEF QuietInv, KeptInv, Kept
<1>15. ASSUME NEW x \in Names
       PROVE  /\ Told(x) => Told(x)'
              /\ x # n => (Kept(x) => Kept(x)')
  <2>1. Told(x) => Told(x)'
    BY <1>5, <1>10, NamesAssumption DEF Told, Tells
  <2>2. x # n => (Kept(x) => Kept(x)')
    BY <1>13 DEF Kept
  <2> QED
    BY <2>1, <2>2
<1>16. ASSUME NEW j \in Names, j # n, NEW x \in Names, Later(j, x)
       PROVE  Later(j, x)'
  <2>1. CASE Kept(j) /\ (Told(x) \/ x \notin Observed)
    BY <1>9, <1>15, <1>16, <2>1 DEF Later
  <2>2. CASE \E p, q \in DOMAIN files_needing_readding :
               p < q /\ files_needing_readding[p] = j /\ files_needing_readding[q] = x
    <3>1. PICK p \in DOMAIN files_needing_readding, q \in DOMAIN files_needing_readding :
            p < q /\ files_needing_readding[p] = j /\ files_needing_readding[q] = x
      BY <2>2
    <3>2. p # first /\ q # first
      BY <1>1, <1>16, <3>1
    <3> QED
      BY <1>13, <3>1, <3>2 DEF Later
  <2>3. CASE \E p, q \in DOMAIN events :
               p < q /\ Tells(events[p], j) /\ Tells(events[q], x)
    <3>1. PICK p \in DOMAIN events, q \in DOMAIN events :
            p < q /\ Tells(events[p], j) /\ Tells(events[q], x)
      BY <2>3
    <3>2. Tells(events[p], j)' /\ Tells(events[q], x)'
      BY <1>5, <1>10, <3>1, NamesAssumption DEF Tells
    <3>3. p \in DOMAIN events' /\ q \in DOMAIN events'
      BY <1>5
    <3> QED
      BY <3>1, <3>2, <3>3 DEF Later
  <2> QED
    BY <1>16, <2>1, <2>2, <2>3 DEF Later
<1>17. ASSUME NEW j \in Observed, NEW i \in Inodes, wd'[i] # -1, wd'[i] = Ids[j]
       PROVE  wd[i] = Ids[j]
  BY <1>7, <1>11, <1>17
<1>18. ASSUME ~missed PROVE StaleInv'
  <2> SUFFICES ASSUME NEW j \in Observed, NEW x \in Names, Stale(j, x)'
               PROVE  Later(j, x)'
    BY <1>9 DEF StaleInv
  <2>1. /\ x # j /\ inode[x] \in Inodes /\ inode[x] # None
        /\ wd'[inode[x]] # -1 /\ wd'[inode[x]] = Ids'[j]
    BY <1>5, <1>7 DEF Stale
  <2>2. j # n
    <3> SUFFICES ASSUME j = n PROVE FALSE
      OBVIOUS
    <3>1. id = wd'[inode[x]] /\ inode[n] # None
      BY <1>9, <1>10, <2>1
    <3>2. inode[n] = inode[x]
      BY <1>2, <1>7, <1>10, <1>12, <2>1, <3>1 DEF OneEach
    <3> QED
      BY <1>2, <2>1, <3>2 DEF QuietInv, OneEach
  <2>3. Stale(j, x)
    BY <1>9, <1>17, <2>1, <2>2 DEF Stale
  <2> QED
    BY <1>7, <1>16, <1>18, <2>2, <2>3 DEF QuietInv, StaleInv
<1>19. ASSUME ~missed PROVE WatchedInv'
  <2> SUFFICES ASSUME NEW x \in Observed, inode[x] # None
               PROVE  \/ wd'[inode[x]] # -1 /\ wd'[inode[x]] = Ids'[x]
                      \/ Kept(x)' \/ Told(x)'
    BY <1>5, <1>9 DEF WatchedInv
  <2>0. x \in Names /\ inode[x] \in Inodes
    BY <1>7
  <2>1. CASE x = n
    BY <1>9, <1>10, <2>1
  <2>2. CASE x # n /\ (Kept(x) \/ Told(x))
    BY <1>15, <2>0, <2>2
  <2>3. CASE x # n /\ wd[inode[x]] # -1 /\ wd[inode[x]] = Ids[x]
    <3>1. inode[x] # inode[n]
      BY <1>2, <2>0, <2>3 DEF QuietInv, OneEach
    <3>2. CASE wd[inode[x]] # old
      BY <1>6, <1>9, <1>10, <2>0, <2>3, <3>1, <3>2
    <3>3. CASE wd[inode[x]] = old
      <4>1. Stale(n, x)
        BY <1>4, <2>3, <3>3 DEF Stale
      <4>2. Kept(x) \/ Told(x)
        BY <1>2, <1>19, <2>0, <4>1, LaterPending DEF QuietInv, StaleInv
      <4> QED
        BY <1>15, <2>0, <2>3, <4>2
    <3> QED
      BY <3>2, <3>3
  <2> QED
    BY <1>19, <2>1, <2>2, <2>3 DEF QuietInv, WatchedInv
<1>20. ASSUME ~missed PROVE SeenInv'
  <2> SUFFICES ASSUME NEW x \in unseen
               PROVE  x \in files_to_notify \/ Told(x)' \/ Reported(x)'
    BY <1>5 DEF SeenInv
  <2>0. x \in Observed /\ x \in Names
    BY <1>7
  <2>1. x \in files_to_notify \/ Told(x) \/ Reported(x)
    BY <1>20 DEF QuietInv, SeenInv
  <2>2. ASSUME Reported(x), ~Told(x), x \notin files_to_notify PROVE Reported(x)'
    <3>0. x # n
      BY <1>2, <2>2
    <3>1. PICK p \in DOMAIN events : events[p].is = "self" /\ events[p].wd = Ids[x]
      BY <2>2 DEF Reported
    <3>2. Ids[x] # -1
      <4>1. events[p] \in EventBelow(nextWd)
        BY DEF IInv, Kernel
      <4>2. events[p].wd # -1
        BY <4>1 DEF EventBelow
      <4> QED
        BY <3>1, <4>2
    <3>3. Ids'[n] # Ids'[x]
      <4> SUFFICES ASSUME id = Ids[x] PROVE FALSE
        BY <1>9, <2>0, <3>0
      <4>1. inode[n] # None /\ inode[n] \in Inodes
        BY <1>2, <1>7, <1>10, <3>2
      <4>2. wd[inode[n]] # -1 /\ wd[inode[n]] = Ids[x]
        BY <1>10, <1>17, <2>0, <3>2, <4>1
      <4>3. Stale(x, n)
        BY <3>0, <4>1, <4>2 DEF Stale
      <4>4. Kept(x) \/ Told(x)
        BY <1>2, <1>20, <2>0, <4>3, LaterPending DEF QuietInv, StaleInv
      <4> QED
        BY <2>0, <2>2, <4>4 DEF QuietInv, KeptInv
    <3>4. Alone(x)'
      BY <1>9, <2>0, <2>2, <3>0, <3>3 DEF Reported, Alone
    <3> QED
      BY <1>5, <1>9, <2>0, <3>0, <3>1, <3>4 DEF Reported
  <2> QED
    BY <1>15, <2>0, <2>1, <2>2
<1> QED
  BY <1>5, <1>12, <1>14, <1>18, <1>19, <1>20 DEF QuietInv

-----------------------------------------------------------------------------
(* Nothing is watched or awaited at first. *)
LEMMA QuietInit == Init => QuietInv
<1> SUFFICES ASSUME Init PROVE QuietInv
  OBVIOUS
<1>1. \A m, n \in Names : FirstInode[m] = FirstInode[n] => m = n
  BY NamesAssumption DEF FirstInode, IsInjective
<1>2. OneEach
  BY <1>1, NamesAssumption DEF Init, OneEach, FirstInode
<1>3. Observed = {} /\ unseen = {} /\ DOMAIN files_needing_readding = {}
  BY DEF Init, Observed
<1> QED
  BY <1>2, <1>3 DEF QuietInv, KeptInv, Kept, StaleInv, WatchedInv, SeenInv

(* Every step keeps it, in one directory. *)
LEMMA QuietStep ==
  ASSUME SameDirectory, IInv, IInv', QuietInv, [Next]_vars
  PROVE  QuietInv'
<1>1. CASE ChangeFiles
  BY <1>1, FilesChangeKeeps
<1>2. CASE Client
  <2>1. CASE close \/ join
    <3>1. UNCHANGED <<kernelVars, observed_files_, towerVars, unseen, missed>>
      BY <2>1 DEF close, join
    <3> QED
      BY <3>1, NothingChanges DEF kernelVars, towerVars
  <2> QED
    BY <1>2, <2>1, AddCallbackKeeps, AddKeeps, RemoveKeeps, DirKeeps DEF Client
<1>3. CASE Tower
  BY <1>3, ReadKeeps, ReaddKeeps, NotifyKeeps DEF Tower
<1>4. CASE UNCHANGED vars
  BY <1>4, NothingChanges DEF vars, kernelVars, towerVars
<1> QED
  BY <1>1, <1>2, <1>3, <1>4 DEF Next

(* When all is idle nothing is pending any more. *)
LEMMA QuietSuffices == IInv /\ QuietInv => QuietMeansWatched /\ QuietMeansNotified
<1> SUFFICES ASSUME IInv, QuietInv, Idle, ~missed
             PROVE  /\ \A n \in Observed : inode[n] # None => WatchedUnder(n)
                    /\ unseen = {}
  BY DEF QuietMeansWatched, QuietMeansNotified
<1>1. /\ files_to_notify = {} /\ DOMAIN files_needing_readding = {}
      /\ DOMAIN events = {}
  BY DEF Idle, IInv, Turns
<1>2. \A n : ~Kept(n) /\ ~Told(n) /\ ~Reported(n)
  BY <1>1 DEF Kept, Told, Reported
<1>3. ASSUME NEW n \in Observed, inode[n] # None PROVE WatchedUnder(n)
  BY <1>2, <1>3, WatchedAs DEF QuietInv, WatchedInv, WatchedUnder
<1>4. unseen = {}
  BY <1>1, <1>2 DEF QuietInv, SeenInv
<1> QED
  BY <1>3, <1>4

(* For files of one directory: once all events are treated every name that *)
(* is observed and exists has its file watched, under the descriptor that  *)
(* leads back to it, however often files were created, removed and renamed *)
(* between and within the passes of the thread. *)
THEOREM TowerWatches ==
  ASSUME SameDirectory
  PROVE  Spec => []QuietMeansWatched
<1>1. Init => IInv /\ QuietInv
  BY Initially, QuietInit
<1>2. IInv /\ QuietInv /\ [Next]_vars => IInv' /\ QuietInv'
  BY InvariantKept, QuietStep
<1>3. IInv /\ QuietInv => QuietMeansWatched
  BY QuietSuffices
<1> QED
  BY <1>1, <1>2, <1>3, PTL DEF Spec

(* For files of one directory: once all events are treated no change of a  *)
(* file that is observed is left untold to those who observe it. *)
THEOREM TowerNotifies ==
  ASSUME SameDirectory
  PROVE  Spec => []QuietMeansNotified
<1>1. Init => IInv /\ QuietInv
  BY Initially, QuietInit
<1>2. IInv /\ QuietInv /\ [Next]_vars => IInv' /\ QuietInv'
  BY InvariantKept, QuietStep
<1>3. IInv /\ QuietInv => QuietMeansNotified
  BY QuietSuffices
<1> QED
  BY <1>1, <1>2, <1>3, PTL DEF Spec
=============================================================================
