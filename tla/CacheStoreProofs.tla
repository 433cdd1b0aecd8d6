------------------------- MODULE CacheStoreProofs -------------------------
(***************************************************************************)
(* Theorems about CacheStore for every set of processes and all settings.  *)
(***************************************************************************)
EXTENDS CacheStore, TLAPS

----------------------------------------------------------------------------
(* Types                                                                   *)

LEMMA NoFileType == NoFile \in Files
BY DEF NoFile, Files

LEMMA GotoType ==
    ASSUME TypeOK, NEW p \in Procs, NEW l \in PCs, Goto(p, l)
    PROVE  /\ pc' \in [Procs -> PCs]
           /\ pc'[p] = l
           /\ \A q \in Procs : q # p => pc'[q] = pc[q]
BY DEF TypeOK, Goto

LEMMA EnsureDirType ==
    ASSUME TypeOK, NEW p \in Procs, EnsureDir(p)
    PROVE  /\ ready' \in [Procs -> BOOLEAN]
           /\ tmp' \in Files /\ tmpOld' \in BOOLEAN
           /\ tmp' = tmp \/ tmp' = NoFile
BY NoFileType DEF TypeOK, EnsureDir

LEMMA GetKeepsType ==
    ASSUME TypeOK, NEW p \in Procs, GetBegin(p) \/ Get(p)
    PROVE  TypeOK'
<1> USE DEF PCs
<1>1. CASE GetBegin(p)
  BY <1>1, GotoType, EnsureDirType, NoFileType DEF GetBegin, TypeOK
<1>2. CASE GetLock(p)
  BY <1>2, GotoType, NoFileType DEF GetLock, Lock, TypeOK, memory
<1>3. CASE GetStat(p)
  BY <1>3, GotoType DEF GetStat, TypeOK, memory, Files
<1>4. CASE GetRead(p)
  BY <1>4, GotoType DEF GetRead, TypeOK, memory, Files
<1>5. CASE GetResume(p)
  <2>1. mem' \in [Procs -> Nat] /\ memMtime' \in [Procs -> Nat]
    <3>1. /\ mem \in [Procs -> Nat] /\ memMtime \in [Procs -> Nat]
          /\ got[p].val \in Nat /\ got[p].mtime \in Nat
      BY DEF TypeOK, Files
    <3>2. \/ UNCHANGED <<mem, memMtime>>
          \/ \E v, t \in Nat : mem' = [mem EXCEPT ![p] = v] /\ memMtime' = [memMtime EXCEPT ![p] = t]
      BY <1>5, <3>1 DEF GetResume
    <3> QED
      BY <3>1, <3>2
  <2> QED
    BY <1>5, <2>1, GotoType DEF GetResume, TypeOK, disk
<1> QED
  BY <1>1, <1>2, <1>3, <1>4, <1>5 DEF Get

LEMMA SetKeepsType ==
    ASSUME TypeOK, NEW p \in Procs, SetBegin(p) \/ Set(p)
    PROVE  TypeOK'
<1> USE DEF PCs
<1>1. CASE SetBegin(p)
  BY <1>1, GotoType, EnsureDirType DEF SetBegin, TypeOK
<1>2. CASE SetLock(p)
  BY <1>2, GotoType DEF SetLock, Lock, TypeOK, memory
<1>3. CASE SetOpen(p)
  <2>1. tmp' \in Files
    <3>1. writes + 1 \in Nat /\ clock \in Nat
      BY DEF TypeOK
    <3>2. tmp' = [val |-> writes + 1, mtime |-> clock, sound |-> FALSE]
      BY <1>3 DEF SetOpen
    <3> QED
      BY <3>1, <3>2 DEF Files
  <2>2. writes' \in Nat /\ mine' \in [Procs -> Nat]
    BY <1>3 DEF SetOpen, TypeOK
  <2> QED
    BY <1>3, <2>1, <2>2, GotoType DEF SetOpen, TypeOK, memory
<1>4. CASE SetFill(p)
  <2>1. clock' \in Nat
    BY <1>4 DEF SetFill, TypeOK
  <2>2. tmp' = NoFile \/ tmp' = [tmp EXCEPT !.mtime = clock', !.sound = TRUE]
    BY <1>4 DEF SetFill
  <2>3. tmp \in Files
    BY DEF TypeOK
  <2>4. tmp' \in Files
    BY <2>1, <2>2, <2>3, NoFileType DEF Files
  <2> QED
    BY <1>4, <2>1, <2>4, GotoType DEF SetFill, TypeOK, memory
<1>5. CASE SetReplace(p)
  BY <1>5, GotoType, NoFileType DEF SetReplace, TypeOK, memory
<1>6. CASE SetFail(p)
  BY <1>6, GotoType DEF SetFail, TypeOK, memory
<1>7. CASE SetResume(p)
  <2>1. mem' \in [Procs -> Nat] /\ memMtime' \in [Procs -> Nat]
    BY <1>7 DEF SetResume, TypeOK, Files
  <2> QED
    BY <1>7, <2>1, GotoType DEF SetResume, TypeOK, disk
<1> QED
  BY <1>1, <1>2, <1>3, <1>4, <1>5, <1>6, <1>7 DEF Set

LEMMA TypeInductive == TypeOK /\ [Next]_vars => TypeOK'
<1> SUFFICES ASSUME TypeOK, [Next]_vars PROVE TypeOK'
  OBVIOUS
<1>1. ASSUME NEW p \in Procs, GetBegin(p) \/ SetBegin(p) \/ Get(p) \/ Set(p)
      PROVE  TypeOK'
  BY <1>1, GetKeepsType, SetKeepsType
<1>2. ASSUME NEW p \in Procs, Crash(p)
      PROVE  TypeOK'
  BY <1>2, GotoType, NoFileType DEF Crash, TypeOK, PCs
<1>3. CASE Age
  BY <1>3 DEF Age, TypeOK, memory
<1>4. CASE Tamper
  <2>1. clock' \in Nat
    BY <1>4 DEF Tamper, TypeOK
  <2>2. file' = NoFile \/ file' = [file EXCEPT !.sound = FALSE, !.mtime = clock + 1]
    BY <1>4 DEF Tamper
  <2>3. file \in Files /\ clock + 1 \in Nat
    BY DEF TypeOK
  <2>4. file' \in Files
    BY <2>2, <2>3, NoFileType DEF Files
  <2> QED
    BY <1>4, <2>1, <2>4 DEF Tamper, TypeOK, memory
<1>5. CASE UNCHANGED vars
  BY <1>5 DEF vars, disk, memory, TypeOK
<1> QED
  BY <1>1, <1>2, <1>3, <1>4, <1>5 DEF Next

(* Type correctness.                                                       *)
THEOREM StoreTypes == Spec => []TypeOK
<1>1. Init => TypeOK
  <2> SUFFICES ASSUME Init PROVE TypeOK
    OBVIOUS
  <2>1. got \in [Procs -> Files] /\ file \in Files /\ tmp \in Files
    BY NoFileType DEF Init
  <2>2. pc \in [Procs -> PCs] /\ ready \in [Procs -> BOOLEAN]
    BY DEF Init, PCs
  <2> QED
    BY <2>1, <2>2 DEF Init, TypeOK
<1> QED
  BY <1>1, TypeInductive, PTL DEF Spec

----------------------------------------------------------------------------
(* The FileLock                                                            *)

(* A step of p that takes the lock as it enters the locked section and     *)
(* gives it back as it leaves keeps the lock exclusive.                    *)
LEMMA LockMoves ==
    ASSUME TypeOK, LockExclusive, NEW p \in Procs, NEW l \in PCs, Goto(p, l),
           \/ l \in Locked /\ fileLock' = p /\ fileLock \in {p, NoProc}
           \/ l \notin Locked /\ fileLock' = (IF fileLock = p THEN NoProc ELSE fileLock)
    PROVE  LockExclusive'
<1>1. p # NoProc
  BY ProcAssumption
<1>2. /\ pc'[p] = l
      /\ \A q \in Procs : q # p => pc'[q] = pc[q]
  BY GotoType
<1>3. \A q \in Procs : q # p => q # NoProc
  BY ProcAssumption
<1> QED
  BY <1>1, <1>2, <1>3 DEF LockExclusive

LEMMA LockInductive == TypeOK /\ LockExclusive /\ [Next]_vars => LockExclusive'
<1> SUFFICES ASSUME TypeOK, LockExclusive, [Next]_vars PROVE LockExclusive'
  OBVIOUS
<1> USE DEF PCs, Locked
<1>1. ASSUME NEW p \in Procs, GetBegin(p) \/ SetBegin(p)
      PROVE  LockExclusive'
  BY <1>1, LockMoves DEF GetBegin, SetBegin, LockExclusive
<1>2. ASSUME NEW p \in Procs, GetLock(p) \/ SetLock(p)
      PROVE  LockExclusive'
  BY <1>2, LockMoves DEF GetLock, SetLock, Lock
<1>3. ASSUME NEW p \in Procs, GetStat(p) \/ GetRead(p)
      PROVE  LockExclusive'
  BY <1>3, LockMoves DEF GetStat, GetRead, LockExclusive
<1>4. ASSUME NEW p \in Procs, GetResume(p) \/ SetResume(p)
      PROVE  LockExclusive'
  BY <1>4, LockMoves DEF GetResume, SetResume, LockExclusive, disk
<1>5. ASSUME NEW p \in Procs, SetOpen(p) \/ SetFill(p)
      PROVE  LockExclusive'
  BY <1>5, LockMoves DEF SetOpen, SetFill, LockExclusive
<1>6. ASSUME NEW p \in Procs, SetReplace(p) \/ SetFail(p)
      PROVE  LockExclusive'
  BY <1>6, LockMoves DEF SetReplace, SetFail, LockExclusive
<1>7. ASSUME NEW p \in Procs, Crash(p)
      PROVE  LockExclusive'
  BY <1>7, LockMoves DEF Crash
<1>8. CASE Age \/ Tamper
  BY <1>8 DEF Age, Tamper, LockExclusive
<1>9. CASE UNCHANGED vars
  BY <1>9 DEF vars, disk, LockExclusive
<1> QED
  BY <1>1, <1>2, <1>3, <1>4, <1>5, <1>6, <1>7, <1>8, <1>9 DEF Next, Get, Set

(* One process at a time is inside the FileLock, across crashes of the     *)
(* holder and failed writes.                                               *)
THEOREM LockIsExclusive == Spec => []LockExclusive
<1>1. Init => LockExclusive
  <2> SUFFICES ASSUME Init PROVE LockExclusive
    OBVIOUS
  <2>1. fileLock = NoProc /\ \A p \in Procs : pc[p] = "idle"
    BY DEF Init
  <2> QED
    BY <2>1, ProcAssumption DEF LockExclusive, Locked
<1> QED
  BY <1>1, StoreTypes, LockInductive, PTL DEF Spec

(* Nobody else is where the lock is needed.                                *)
LEMMA Alone ==
    ASSUME LockExclusive, NEW p \in Procs, pc[p] \in Locked
    PROVE  \A q \in Procs : q # p => pc[q] \notin Locked
BY DEF LockExclusive

----------------------------------------------------------------------------
(* The file                                                                *)

(* What is about to replace the file is whole or gone.                     *)
Filled == \A p \in Procs : pc[p] = "sreplace" => tmp = NoFile \/ tmp.sound

LEMMA WholeInductive ==
    TypeOK /\ LockExclusive /\ NeverTorn /\ Filled /\ [Next]_vars => NeverTorn' /\ Filled'
<1> SUFFICES ASSUME TypeOK, LockExclusive, NeverTorn, Filled, [Next]_vars
             PROVE  NeverTorn' /\ Filled'
  OBVIOUS
<1> USE DEF PCs
<1>1. ASSUME NEW p \in Procs, NEW l \in PCs \ {"sreplace"}, Goto(p, l),
             UNCHANGED <<setting, file>>, tmp' = tmp \/ tmp' = NoFile
      PROVE  NeverTorn' /\ Filled'
  BY <1>1, GotoType DEF NeverTorn, Filled
<1>2. ASSUME NEW p \in Procs, GetBegin(p) \/ SetBegin(p)
      PROVE  NeverTorn' /\ Filled'
  BY <1>1, <1>2, EnsureDirType DEF GetBegin, SetBegin
<1>3. ASSUME NEW p \in Procs, Get(p)
      PROVE  NeverTorn' /\ Filled'
  BY <1>1, <1>3 DEF Get, GetLock, GetStat, GetRead, GetResume, Lock, disk
<1>4. ASSUME NEW p \in Procs, SetLock(p) \/ SetFail(p) \/ SetResume(p) \/ Crash(p)
      PROVE  NeverTorn' /\ Filled'
  BY <1>1, <1>4 DEF SetLock, SetFail, SetResume, Crash, Lock, disk
<1>5. ASSUME NEW p \in Procs, SetOpen(p)
      PROVE  NeverTorn' /\ Filled'
  <2>1. pc[p] \in Locked
    BY <1>5 DEF SetOpen, Locked
  <2>2. \A q \in Procs : pc'[q] # "sreplace"
    BY <1>5, <2>1, Alone, GotoType DEF SetOpen, Locked
  <2> QED
    BY <1>5, <2>2 DEF SetOpen, NeverTorn, Filled
<1>6. ASSUME NEW p \in Procs, SetFill(p)
      PROVE  NeverTorn' /\ Filled'
  <2>1. tmp \in Files
    BY DEF TypeOK
  <2>2. tmp' = NoFile \/ tmp' = [tmp EXCEPT !.mtime = clock', !.sound = TRUE]
    BY <1>6 DEF SetFill
  <2>3. tmp' = NoFile \/ tmp'.sound
    BY <2>1, <2>2 DEF Files
  <2> QED
    BY <1>6, <2>3 DEF SetFill, NeverTorn, Filled
<1>7. ASSUME NEW p \in Procs, SetReplace(p)
      PROVE  NeverTorn' /\ Filled'
  <2>1. tmp' = NoFile
    BY <1>7 DEF SetReplace
  <2>2. file' = file \/ (file' = tmp /\ tmp # NoFile)
    BY <1>7 DEF SetReplace
  <2>3. pc[p] = "sreplace" /\ setting' = setting
    BY <1>7 DEF SetReplace
  <2> QED
    BY <2>1, <2>2, <2>3 DEF NeverTorn, Filled
<1>8. CASE Age
  BY <1>8 DEF Age, NeverTorn, Filled
<1>9. CASE Tamper
  BY <1>9 DEF Tamper, NeverTorn, Filled
<1>10. CASE UNCHANGED vars
  BY <1>10 DEF vars, disk, NeverTorn, Filled
<1> QED
  BY <1>2, <1>3, <1>4, <1>5, <1>6, <1>7, <1>8, <1>9, <1>10 DEF Next, Set

(* The cache file is never an incomplete write, whatever step of           *)
(* _write_file a crash, a failed write or a clean-up comes between.        *)
THEOREM FileIsWhole == Spec => []NeverTorn
<1>1. Init => NeverTorn /\ Filled
  BY DEF Init, NeverTorn, Filled
<1> QED
  BY <1>1, StoreTypes, LockIsExclusive, WholeInductive, PTL DEF Spec

----------------------------------------------------------------------------
(* The memory copies                                                       *)

(* Records are numbered in the order of the writes: none is newer than the *)
(* one on disk but the one being written.                                  *)
InOrder ==
    /\ file.val <= writes
    /\ \A p \in Procs :
        /\ mem[p] <= file.val
        /\ got[p].val <= file.val
        /\ pc[p] = "sresume" => mine[p] <= file.val
        /\ pc[p] \in {"sfill", "sreplace"} =>
                mine[p] = writes /\ (tmp = NoFile \/ tmp.val = writes)

Ordered == ~setting.tamper => InOrder

(* A step of p that reads or ends, and leaves what it does not say.        *)
LEMMA OrderKept ==
    ASSUME TypeOK, Ordered, NEW p \in Procs, NEW l \in PCs \ {"sresume", "sfill", "sreplace"},
           Goto(p, l), UNCHANGED <<setting, file, writes>>,
           tmp' = tmp \/ tmp' = NoFile,
           \A q \in Procs : q # p => mem'[q] = mem[q] /\ got'[q] = got[q] /\ mine'[q] = mine[q],
           ~setting.tamper => mem'[p] <= file.val /\ got'[p].val <= file.val
    PROVE  Ordered'
<1>1. /\ pc'[p] = l
      /\ \A q \in Procs : q # p => pc'[q] = pc[q]
  BY GotoType
<1> SUFFICES ASSUME ~setting.tamper PROVE InOrder'
  BY DEF Ordered
<1>2. InOrder
  BY DEF Ordered
<1>3. \A q \in Procs : mem'[q] <= file.val /\ got'[q].val <= file.val
  BY <1>2 DEF InOrder
<1>4. \A q \in Procs : q # p =>
        /\ pc'[q] = "sresume" => mine'[q] <= file.val
        /\ pc'[q] \in {"sfill", "sreplace"} =>
                mine'[q] = writes /\ (tmp' = NoFile \/ tmp'.val = writes)
  BY <1>1, <1>2 DEF InOrder
<1> QED
  BY <1>1, <1>2, <1>3, <1>4 DEF InOrder

LEMMA GetInOrder ==
    ASSUME TypeOK, Ordered, NEW p \in Procs, GetBegin(p) \/ Get(p)
    PROVE  Ordered'
<1> USE DEF PCs
<1>0. ~setting.tamper => mem[p] <= file.val /\ got[p].val <= file.val
  BY DEF Ordered, InOrder
<1>1. CASE GetBegin(p)
  <2>1. got'[p].val <= file.val
    BY <1>1 DEF GetBegin, TypeOK, NoFile, Files
  <2> QED
    BY <1>0, <1>1, <2>1, OrderKept, EnsureDirType DEF GetBegin, TypeOK
<1>2. CASE GetLock(p)
  BY <1>0, <1>2, OrderKept DEF GetLock, Lock, memory
<1>3. CASE GetStat(p)
  <2>1. got[p] \in Files
    BY DEF TypeOK
  <2>2. got'[p].val = got[p].val
    BY <1>3, <2>1 DEF GetStat, TypeOK, Files
  <2>3. \E l \in {"gresume", "gread"} : Goto(p, l)
    BY <1>3 DEF GetStat
  <2> QED
    BY <1>0, <1>3, <2>2, <2>3, OrderKept DEF GetStat, memory, TypeOK
<1>4. CASE GetRead(p)
  <2>1. got[p] \in Files /\ file \in Files
    BY DEF TypeOK
  <2>2. got'[p].val = file.val
    BY <1>4, <2>1 DEF GetRead, TypeOK, Files
  <2>3. file.val <= file.val
    BY <2>1 DEF Files
  <2> QED
    BY <1>0, <1>4, <2>2, <2>3, OrderKept DEF GetRead, memory, TypeOK
<1>5. CASE GetResume(p)
  <2>1. mem'[p] \in {0, mem[p], got[p].val}
    BY <1>5 DEF GetResume, TypeOK
  <2>2. \A q \in Procs : q # p => mem'[q] = mem[q]
    BY <1>5 DEF GetResume, TypeOK
  <2>3. 0 <= file.val
    BY DEF TypeOK, Files
  <2> QED
    BY <1>0, <1>5, <2>1, <2>2, <2>3, OrderKept DEF GetResume, disk
<1> QED
  BY <1>1, <1>2, <1>3, <1>4, <1>5 DEF Get

LEMMA SetInOrder ==
    ASSUME TypeOK, LockExclusive, Ordered, NEW p \in Procs, SetBegin(p) \/ Set(p)
    PROVE  Ordered'
<1> USE DEF PCs
<1>0. ~setting.tamper => InOrder
  BY DEF Ordered
<1>1. CASE SetBegin(p)
  BY <1>0, <1>1, OrderKept, EnsureDirType DEF SetBegin, InOrder
<1>2. CASE SetLock(p)
  BY <1>0, <1>2, OrderKept DEF SetLock, Lock, memory, InOrder
<1>3. CASE SetOpen(p)
  <2>1. pc[p] \in Locked /\ setting' = setting
    BY <1>3 DEF SetOpen, Locked
  <2>2. \A q \in Procs : q # p => pc'[q] = pc[q] /\ pc[q] \notin {"sfill", "sreplace"}
    BY <1>3, <2>1, Alone, GotoType DEF SetOpen, Locked
  <2>3. pc'[p] = "sfill" /\ mine'[p] = writes'
    BY <1>3, GotoType DEF SetOpen, TypeOK
  <2>4. \A q \in Procs : q # p => mine'[q] = mine[q]
    BY <1>3 DEF SetOpen, TypeOK
  <2>5. writes' = writes + 1 /\ tmp'.val = writes' /\ UNCHANGED <<file, mem, got>>
    BY <1>3 DEF SetOpen, memory
  <2>6. file.val \in Nat /\ writes \in Nat
    BY DEF TypeOK, Files
  <2> QED
    BY <1>0, <2>1, <2>2, <2>3, <2>4, <2>5, <2>6 DEF Ordered, InOrder
<1>4. CASE SetFill(p)
  <2>1. tmp \in Files
    BY DEF TypeOK
  <2>2. tmp' = NoFile \/ (tmp # NoFile /\ tmp' = [tmp EXCEPT !.mtime = clock', !.sound = TRUE])
    BY <1>4 DEF SetFill
  <2>3. tmp' = NoFile \/ (tmp # NoFile /\ tmp'.val = tmp.val)
    BY <2>1, <2>2 DEF Files
  <2>4. /\ pc[p] = "sfill" /\ pc'[p] = "sreplace"
        /\ \A q \in Procs : q # p => pc'[q] = pc[q]
    BY <1>4, GotoType DEF SetFill
  <2>5. UNCHANGED <<setting, file, writes, mem, mine, got>>
    BY <1>4 DEF SetFill, memory
  <2> QED
    BY <1>0, <2>3, <2>4, <2>5 DEF Ordered, InOrder
<1>5. CASE SetReplace(p) /\ tmp = NoFile
  BY <1>0, <1>5, OrderKept DEF SetReplace, memory, InOrder
<1>6. CASE SetReplace(p) /\ tmp # NoFile
  <2>1. /\ pc[p] = "sreplace" /\ pc'[p] = "sresume"
        /\ \A q \in Procs : q # p => pc'[q] = pc[q]
    BY <1>6, GotoType DEF SetReplace
  <2>2. \A q \in Procs : q # p => pc'[q] \notin {"sfill", "sreplace"}
    BY <2>1, Alone DEF Locked
  <2>3. file' = tmp /\ UNCHANGED <<setting, writes, mem, mine, got>>
    BY <1>6 DEF SetReplace, memory
  <2>4. /\ file.val \in Nat /\ writes \in Nat
        /\ \A q \in Procs : mem[q] \in Nat /\ got[q].val \in Nat /\ mine[q] \in Nat
    BY DEF TypeOK, Files
  <2> SUFFICES ASSUME ~setting.tamper PROVE InOrder'
    BY <2>3 DEF Ordered
  <2>5. file'.val = writes /\ mine[p] = writes
    BY <1>0, <1>6, <2>1, <2>3 DEF InOrder
  <2> QED
    BY <1>0, <2>1, <2>2, <2>3, <2>4, <2>5 DEF InOrder
<1>7. CASE SetFail(p)
  BY <1>0, <1>7, OrderKept DEF SetFail, memory, InOrder
<1>8. CASE SetResume(p)
  <2>1. pc[p] = "sresume" /\ mem'[p] \in {mem[p], mine[p]}
    BY <1>8 DEF SetResume, TypeOK
  <2>2. \A q \in Procs : q # p => mem'[q] = mem[q]
    BY <1>8 DEF SetResume, TypeOK
  <2>3. ~setting.tamper => mem'[p] <= file.val /\ got[p].val <= file.val
    BY <1>0, <2>1 DEF InOrder
  <2> QED
    BY <1>8, <2>2, <2>3, OrderKept DEF SetResume, disk
<1> QED
  BY <1>1, <1>2, <1>3, <1>4, <1>5, <1>6, <1>7, <1>8 DEF Set

LEMMA OrderInductive == TypeOK /\ LockExclusive /\ Ordered /\ [Next]_vars => Ordered'
<1> SUFFICES ASSUME TypeOK, LockExclusive, Ordered, [Next]_vars PROVE Ordered'
  OBVIOUS
<1>1. ASSUME NEW p \in Procs, Crash(p)
      PROVE  Ordered'
  <2>1. mem'[p] = 0 /\ got'[p].val = 0 /\ 0 <= file.val
    BY <1>1 DEF Crash, TypeOK, Files, NoFile
  <2>2. \A q \in Procs : q # p => mem'[q] = mem[q] /\ got'[q] = got[q] /\ mine'[q] = mine[q]
    BY <1>1 DEF Crash, TypeOK
  <2> QED
    BY <1>1, <2>1, <2>2, OrderKept DEF Crash, PCs
<1>2. CASE Age
  BY <1>2 DEF Age, Ordered, InOrder, memory
<1>3. CASE Tamper
  BY <1>3 DEF Tamper, Ordered
<1>4. CASE UNCHANGED vars
  BY <1>4 DEF vars, disk, memory, Ordered, InOrder
<1> QED
  BY <1>1, <1>2, <1>3, <1>4, GetInOrder, SetInOrder DEF Next

(* No process remembers a record that has not reached the disk, though the *)
(* write may fail half-way or lose its temporary file to a clean-up.       *)
THEOREM MemoryFollowsDisk == Spec => []MemoryReachedDisk
<1>1. Init => Ordered
  BY DEF Init, Ordered, InOrder, NoFile
<1>2. Ordered => MemoryReachedDisk
  BY DEF Ordered, InOrder, MemoryReachedDisk
<1> QED
  BY <1>1, <1>2, StoreTypes, LockIsExclusive, OrderInductive, PTL DEF Spec

----------------------------------------------------------------------------
(* Modification times                                                      *)

Setting == {"slock", "sopen", "sfill", "sreplace", "sresume"}

(* No modification time is ahead of the clock, and a get begins with       *)
(* nothing read.                                                           *)
Marks ==
    /\ file.mtime <= clock /\ tmp.mtime <= clock
    /\ \A p \in Procs :
        /\ memMtime[p] <= clock /\ got[p].mtime <= clock
        /\ pc[p] \in Setting => p \in setting.writers
        /\ pc[p] \in {"glock", "gstat", "gread"} => ~got[p].sound

(* A file that is not newer than t holds v.                                *)
Holds(f, v, t) == v # 0 /\ f.sound /\ f.mtime <= t => f.val = v

(* What is about to be published is newer than whatever was seen.          *)
WriterOK(q) ==
    /\ pc[q] \in {"sfill", "sreplace"} => tmp = NoFile \/ tmp.val = mine[q]
    /\ pc[q] = "sreplace" /\ tmp # NoFile =>
          \A p \in Procs : /\ mem[p] # 0 => memMtime[p] < tmp.mtime
                           /\ pc[p] = "gresume" => got[p].mtime < tmp.mtime
    /\ pc[q] = "sresume" /\ file.sound => file.val = mine[q]

(* A process in the middle of a get has read what stat() was about, and    *)
(* its memory copy goes with what it read.                                 *)
ReaderOK(p) ==
    /\ Holds(file, mem[p], memMtime[p])
    /\ pc[p] = "gread" /\ file.sound => got[p].mtime = file.mtime
    /\ pc[p] = "gresume" =>
          /\ Holds(got[p], mem[p], memMtime[p])
          /\ got[p].sound => Holds(file, got[p].val, got[p].mtime)
    /\ pc[p] \in {"idle"} \cup Setting => answer[p] = IF got[p].sound THEN got[p].val ELSE 0

OneWriter == (\A p, q \in setting.writers : p = q) /\ ~setting.coarse

CurrentInv == Marks /\ (OneWriter => \A p \in Procs : WriterOK(p) /\ ReaderOK(p))

LEMMA FileTypes ==
    ASSUME TypeOK
    PROVE  /\ clock \in Nat /\ file \in Files /\ tmp \in Files
           /\ file.mtime \in Nat /\ tmp.mtime \in Nat /\ file.val \in Nat
           /\ \A p \in Procs : /\ got[p] \in Files /\ got[p].mtime \in Nat /\ got[p].val \in Nat
                               /\ memMtime[p] \in Nat /\ mem[p] \in Nat
           /\ NoFile.mtime = 0 /\ ~NoFile.sound
BY DEF TypeOK, Files, NoFile

(* What a step of p has to show of its marks, if it changes those of no    *)
(* other.                                                                  *)
LEMMA MarksKept ==
    ASSUME TypeOK, TypeOK', Marks, NEW p \in Procs, NEW l \in PCs, Goto(p, l), UNCHANGED setting,
           file'.mtime <= clock', tmp'.mtime <= clock', clock <= clock',
           \A q \in Procs : q # p => memMtime'[q] = memMtime[q] /\ got'[q] = got[q],
           memMtime'[p] <= clock', got'[p].mtime <= clock',
           l \in Setting => p \in setting.writers,
           l \in {"glock", "gstat", "gread"} => ~got'[p].sound
    PROVE  Marks'
<1>1. pc'[p] = l /\ \A q \in Procs : q # p => pc'[q] = pc[q]
  BY GotoType
<1>2. /\ clock \in Nat /\ clock' \in Nat
      /\ \A q \in Procs : memMtime[q] \in Nat /\ got[q].mtime \in Nat
  BY FileTypes DEF TypeOK
<1>3. \A q \in Procs : memMtime'[q] <= clock' /\ got'[q].mtime <= clock'
  BY <1>2 DEF Marks
<1>4. \A q \in Procs : /\ pc'[q] \in Setting => q \in setting'.writers
                       /\ pc'[q] \in {"glock", "gstat", "gread"} => ~got'[q].sound
  BY <1>1 DEF Marks
<1> QED
  BY <1>3, <1>4 DEF Marks

LEMMA MarksInductive == TypeOK /\ TypeOK' /\ Marks /\ [Next]_vars => Marks'
<1> SUFFICES ASSUME TypeOK, TypeOK', Marks, [Next]_vars PROVE Marks'
  OBVIOUS
<1> USE FileTypes DEF PCs, Setting
<1>1. ASSUME NEW p \in Procs, GetBegin(p) PROVE Marks'
  <2>1. got'[p] = NoFile /\ \A q \in Procs : q # p => got'[q] = got[q]
    BY <1>1 DEF GetBegin, TypeOK
  <2>2. tmp'.mtime <= clock
    BY <1>1, EnsureDirType DEF GetBegin, Marks
  <2>3. got'[p].mtime <= clock /\ ~got'[p].sound
    BY <2>1
  <2>4. Goto(p, "glock") /\ UNCHANGED <<setting, file, clock, memMtime>>
    BY <1>1 DEF GetBegin
  <2> QED
    BY <2>1, <2>2, <2>3, <2>4, MarksKept DEF Marks
<1>2. ASSUME NEW p \in Procs, GetLock(p) PROVE Marks'
  BY <1>2, MarksKept DEF GetLock, Lock, memory, Marks
<1>3. ASSUME NEW p \in Procs, GetStat(p) PROVE Marks'
  <2>1. /\ got'[p].mtime = file.mtime /\ got'[p].sound = got[p].sound
        /\ \A q \in Procs : q # p => got'[q] = got[q]
    BY <1>3 DEF GetStat, Files, TypeOK
  <2> QED
    BY <1>3, <2>1, MarksKept DEF GetStat, memory, Marks
<1>4. ASSUME NEW p \in Procs, GetRead(p) PROVE Marks'
  <2>1. /\ got'[p].mtime = got[p].mtime
        /\ \A q \in Procs : q # p => got'[q] = got[q]
    BY <1>4 DEF GetRead, Files, TypeOK
  <2>2. Goto(p, "gresume") /\ UNCHANGED <<setting, file, tmp, clock, memMtime>>
    BY <1>4 DEF GetRead, memory
  <2> QED
    BY <2>1, <2>2, MarksKept DEF Marks
<1>5. ASSUME NEW p \in Procs, GetResume(p) PROVE Marks'
  <2>1. /\ memMtime'[p] \in {0, memMtime[p], got[p].mtime}
        /\ \A q \in Procs : q # p => memMtime'[q] = memMtime[q]
    BY <1>5 DEF GetResume, TypeOK
  <2>2. memMtime'[p] <= clock /\ got[p].mtime <= clock
    BY <2>1 DEF Marks
  <2> QED
    BY <1>5, <2>1, <2>2, MarksKept DEF GetResume, disk, Marks
<1>6. ASSUME NEW p \in Procs, SetBegin(p) \/ SetLock(p) \/ SetOpen(p) \/ SetReplace(p) \/ SetFail(p)
      PROVE  Marks'
  <2>1. /\ UNCHANGED <<memMtime, got, clock, setting>> /\ p \in setting.writers
        /\ \E l \in PCs : Goto(p, l) /\ l \notin {"glock", "gstat", "gread"}
    BY <1>6 DEF SetBegin, SetLock, Lock, SetOpen, SetReplace, SetFail, memory, Marks
  <2>2. file'.mtime <= clock /\ tmp'.mtime <= clock
    BY <1>6, EnsureDirType DEF SetBegin, SetLock, SetOpen, SetReplace, SetFail, Marks
  <2> QED
    BY <2>1, <2>2, MarksKept DEF Marks
<1>7. ASSUME NEW p \in Procs, SetFill(p) PROVE Marks'
  <2>1. clock' \in {clock, clock + 1} /\ clock <= clock' /\ file'.mtime <= clock'
    BY <1>7 DEF SetFill, Marks
  <2>3. tmp'.mtime <= clock'
    BY <1>7, <2>1 DEF SetFill, Files
  <2>2. memMtime[p] <= clock' /\ got[p].mtime <= clock'
    BY <2>1 DEF Marks
  <2> QED
    BY <1>7, <2>1, <2>2, <2>3, MarksKept DEF SetFill, memory, Marks
<1>8. ASSUME NEW p \in Procs, SetResume(p) PROVE Marks'
  <2>1. /\ memMtime'[p] \in {memMtime[p], file.mtime}
        /\ \A q \in Procs : q # p => memMtime'[q] = memMtime[q]
    BY <1>8 DEF SetResume, TypeOK
  <2>2. memMtime'[p] <= clock
    BY <2>1 DEF Marks
  <2> QED
    BY <1>8, <2>1, <2>2, MarksKept DEF SetResume, disk, Marks
<1>9. ASSUME NEW p \in Procs, Crash(p) PROVE Marks'
  <2>1. /\ memMtime'[p] = 0 /\ got'[p] = NoFile
        /\ \A q \in Procs : q # p => memMtime'[q] = memMtime[q] /\ got'[q] = got[q]
    BY <1>9 DEF Crash, TypeOK
  <2> QED
    BY <1>9, <2>1, MarksKept DEF Crash, Marks
<1>10. CASE Age \/ UNCHANGED vars
  BY <1>10 DEF Age, vars, disk, memory, Marks
<1>11. CASE Tamper
  <2>1. clock' \in {clock, clock + 1} /\ UNCHANGED <<setting, tmp, pc, memMtime, got>>
    BY <1>11 DEF Tamper, memory
  <2>3. file'.mtime <= clock' /\ tmp'.mtime <= clock'
    <3>1. file' = NoFile \/ (file' = [file EXCEPT !.sound = FALSE, !.mtime = clock + 1] /\ clock' = clock + 1)
      BY <1>11 DEF Tamper
    <3>2. file'.mtime = 0 \/ file'.mtime = clock'
      BY <3>1 DEF Files
    <3> QED
      BY <2>1, <3>2 DEF Marks
  <2>2. \A p \in Procs : memMtime[p] <= clock' /\ got[p].mtime <= clock'
    BY <2>1 DEF Marks
  <2> QED
    BY <2>1, <2>2, <2>3 DEF Marks
<1> QED
  BY <1>1, <1>2, <1>3, <1>4, <1>5, <1>6, <1>7, <1>8, <1>9, <1>10, <1>11 DEF Next, Get, Set

(* What a step of p has to show if it leaves the file and, but for         *)
(* clean-ups, the temporary file alone, and p is then in no write.         *)
LEMMA CurrentKept ==
    ASSUME TypeOK, \A q \in Procs : WriterOK(q) /\ ReaderOK(q),
           NEW p \in Procs, NEW l \in PCs \ {"sfill", "sreplace", "sresume"}, Goto(p, l),
           UNCHANGED file, tmp' = tmp \/ tmp' = NoFile,
           \A q \in Procs : q # p =>
               /\ mem'[q] = mem[q] /\ memMtime'[q] = memMtime[q] /\ got'[q] = got[q]
               /\ mine'[q] = mine[q] /\ answer'[q] = answer[q],
           \A q \in Procs : q # p /\ pc[q] = "sreplace" /\ tmp # NoFile =>
               /\ mem'[p] # 0 => memMtime'[p] < tmp.mtime
               /\ l = "gresume" => got'[p].mtime < tmp.mtime,
           ReaderOK(p)'
    PROVE  \A q \in Procs : WriterOK(q)' /\ ReaderOK(q)'
<1>1. pc'[p] = l /\ \A q \in Procs : q # p => pc'[q] = pc[q]
  BY GotoType
<1>2. ASSUME NEW q \in Procs, q # p PROVE ReaderOK(q)'
  <2>1. ReaderOK(q)
    OBVIOUS
  <2>2. /\ pc'[q] = pc[q] /\ mem'[q] = mem[q] /\ memMtime'[q] = memMtime[q] /\ got'[q] = got[q]
        /\ answer'[q] = answer[q]
    BY <1>1, <1>2
  <2> QED
    BY <2>1, <2>2 DEF ReaderOK, Holds
<1>3. WriterOK(p)'
  BY <1>1 DEF WriterOK
<1>4. ASSUME NEW q \in Procs, q # p PROVE WriterOK(q)'
  <2>1. WriterOK(q) /\ pc'[q] = pc[q] /\ mine'[q] = mine[q]
    BY <1>1, <1>4
  <2>2. ASSUME pc[q] = "sreplace", tmp' # NoFile, NEW r \in Procs
        PROVE  /\ mem'[r] # 0 => memMtime'[r] < tmp.mtime
               /\ pc'[r] = "gresume" => got'[r].mtime < tmp.mtime
    <3>1. CASE r = p
      BY <1>1, <1>4, <2>2, <3>1
    <3>2. CASE r # p
      BY <1>1, <2>1, <2>2, <3>2 DEF WriterOK
    <3> QED
      BY <3>1, <3>2
  <2> QED
    BY <2>1, <2>2 DEF WriterOK
<1> QED
  BY <1>2, <1>3, <1>4

LEMMA GetCurrent ==
    ASSUME TypeOK, TypeOK', LockExclusive, Marks, \A q \in Procs : WriterOK(q) /\ ReaderOK(q),
           NEW p \in Procs, GetBegin(p) \/ Get(p)
    PROVE  \A q \in Procs : WriterOK(q)' /\ ReaderOK(q)'
<1> USE DEF PCs
<1>0. WriterOK(p) /\ ReaderOK(p)
  OBVIOUS
<1>1. \A q \in Procs : q # p /\ pc[q] = "sreplace" /\ tmp # NoFile =>
        /\ mem[p] # 0 => memMtime[p] < tmp.mtime
        /\ pc[p] = "gresume" => got[p].mtime < tmp.mtime
  BY DEF WriterOK
<1>2. \A q \in Procs : q # p /\ pc[p] \in Locked => pc[q] # "sreplace"
  BY Alone DEF Locked
<1>3. CASE GetBegin(p)
  <2>1. /\ Goto(p, "glock") /\ pc'[p] = "glock" /\ UNCHANGED <<file, mem, memMtime, mine>>
        /\ \A q \in Procs : q # p => got'[q] = got[q] /\ answer'[q] = answer[q]
    BY <1>3, GotoType DEF GetBegin, TypeOK
  <2>2. ReaderOK(p)'
    BY <1>0, <2>1 DEF ReaderOK, Holds, Setting
  <2>3. tmp' = tmp \/ tmp' = NoFile
    BY <1>3, EnsureDirType DEF GetBegin
  <2> QED
    BY <1>1, <2>1, <2>2, <2>3, CurrentKept
<1>4. CASE GetLock(p)
  <2>1. Goto(p, "gstat") /\ pc'[p] = "gstat" /\ UNCHANGED <<file, mem, memMtime, mine, got, answer>>
    BY <1>4, GotoType DEF GetLock, Lock, memory
  <2>2. ReaderOK(p)'
    BY <1>0, <2>1 DEF ReaderOK, Holds, Setting
  <2>3. tmp' = tmp \/ tmp' = NoFile
    BY <1>4 DEF GetLock
  <2> QED
    BY <1>1, <2>1, <2>2, <2>3, CurrentKept
<1>5. CASE GetStat(p)
  <2>1. /\ got'[p].mtime = file.mtime /\ got'[p].sound = got[p].sound
        /\ \A q \in Procs : q # p => got'[q] = got[q]
        /\ UNCHANGED <<file, tmp, mem, memMtime, mine, answer>>
    BY <1>5 DEF GetStat, Files, TypeOK, memory
  <2>2. pc[p] = "gstat" /\ ~got[p].sound
    BY <1>5 DEF GetStat, Marks
  <2>3. PICK l \in {"gresume", "gread"} : Goto(p, l)
    BY <1>5 DEF GetStat
  <2>4. pc'[p] = l
    BY <2>3, GotoType
  <2>5. ReaderOK(p)'
    BY <1>0, <2>1, <2>2, <2>4 DEF ReaderOK, Holds, Setting
  <2> QED
    BY <1>1, <1>2, <2>1, <2>2, <2>3, <2>5, CurrentKept DEF Locked
<1>6. CASE GetRead(p)
  <2>1. /\ got'[p].val = file.val /\ got'[p].sound = file.sound /\ got'[p].mtime = got[p].mtime
        /\ \A q \in Procs : q # p => got'[q] = got[q]
        /\ UNCHANGED <<file, tmp, mem, memMtime, mine, answer>>
    BY <1>6 DEF GetRead, Files, TypeOK, memory
  <2>2. pc[p] = "gread" /\ Goto(p, "gresume") /\ pc'[p] = "gresume"
    BY <1>6, GotoType DEF GetRead
  <2>3. file.sound => got'[p].mtime = file.mtime
    BY <1>0, <2>1, <2>2 DEF ReaderOK
  <2>4. ReaderOK(p)'
    BY <1>0, <2>1, <2>2, <2>3 DEF ReaderOK, Holds, Setting
  <2> QED
    BY <1>1, <1>2, <2>1, <2>2, <2>4, CurrentKept DEF Locked
<1>7. CASE GetResume(p)
  <2>1. /\ pc[p] = "gresume" /\ Goto(p, "idle") /\ pc'[p] = "idle"
        /\ UNCHANGED <<file, tmp, got, mine>>
        /\ \A q \in Procs : q # p => mem'[q] = mem[q] /\ memMtime'[q] = memMtime[q] /\ answer'[q] = answer[q]
        /\ answer'[p] = mem'[p]
    BY <1>7, GotoType DEF GetResume, disk, TypeOK
  <2>2. \/ ~got[p].sound /\ mem'[p] = 0
        \/ got[p].sound /\ mem[p] # 0 /\ got[p].mtime <= memMtime[p] /\ mem'[p] = mem[p] /\ memMtime'[p] = memMtime[p]
        \/ got[p].sound /\ mem'[p] = got[p].val /\ memMtime'[p] = got[p].mtime
    BY <1>7 DEF GetResume, TypeOK
  <2>3. /\ Holds(got[p], mem[p], memMtime[p]) /\ Holds(file, mem[p], memMtime[p])
        /\ got[p].sound => Holds(file, got[p].val, got[p].mtime)
    BY <1>0, <2>1 DEF ReaderOK
  <2>4. answer'[p] = IF got[p].sound THEN got[p].val ELSE 0
    BY <2>1, <2>2, <2>3 DEF Holds
  <2>5. Holds(file, mem'[p], memMtime'[p])
    BY <2>2, <2>3 DEF Holds
  <2>6. ReaderOK(p)'
    BY <2>1, <2>4, <2>5 DEF ReaderOK, Holds
  <2>7. \A q \in Procs : q # p /\ pc[q] = "sreplace" /\ tmp # NoFile =>
            (mem'[p] # 0 => memMtime'[p] < tmp.mtime)
    BY <1>1, <2>1, <2>2
  <2> QED
    BY <2>1, <2>6, <2>7, CurrentKept
<1> QED
  BY <1>3, <1>4, <1>5, <1>6, <1>7 DEF Get

LEMMA SetCurrent ==
    ASSUME TypeOK, TypeOK', LockExclusive, Marks, OneWriter,
           \A q \in Procs : WriterOK(q) /\ ReaderOK(q),
           NEW p \in Procs, SetBegin(p) \/ Set(p)
    PROVE  \A q \in Procs : WriterOK(q)' /\ ReaderOK(q)'
<1> USE DEF PCs
<1>0. WriterOK(p) /\ ReaderOK(p)
  OBVIOUS
<1>1. \A q \in Procs : q # p /\ pc[q] = "sreplace" /\ tmp # NoFile =>
        (mem[p] # 0 => memMtime[p] < tmp.mtime)
  BY DEF WriterOK
<1>2. \A q \in Procs : q # p /\ pc[p] \in Locked =>
        pc[q] \notin {"gstat", "gread", "sopen", "sfill", "sreplace"}
  BY Alone DEF Locked
<1>3. \A q \in Procs : q # p /\ pc[p] \in Setting => pc[q] \notin Setting
  BY DEF Marks, OneWriter
<1>4. CASE SetBegin(p) \/ SetLock(p) \/ SetFail(p) \/ (SetReplace(p) /\ tmp = NoFile)
  <2>1. PICK l \in {"slock", "sopen", "idle"} : Goto(p, l)
    BY <1>4 DEF SetBegin, SetLock, Lock, SetFail, SetReplace
  <2>2. /\ pc[p] \in {"idle"} \cup Setting /\ pc'[p] \in {"slock", "sopen", "idle"}
        /\ UNCHANGED <<file, mem, memMtime, got, mine, answer>>
    BY <1>4, <2>1, GotoType DEF SetBegin, SetLock, Lock, SetFail, SetReplace, memory, Setting
  <2>3. tmp' = tmp \/ tmp' = NoFile
    BY <1>4, EnsureDirType DEF SetBegin, SetLock, SetFail, SetReplace
  <2>4. ReaderOK(p)'
    BY <1>0, <2>2 DEF ReaderOK, Holds, Setting
  <2> QED
    BY <1>1, <2>1, <2>2, <2>3, <2>4, CurrentKept
<1>5. CASE SetResume(p)
  <2>1. /\ pc[p] = "sresume" /\ Goto(p, "idle") /\ pc'[p] = "idle"
        /\ UNCHANGED <<file, tmp, got, mine, answer>>
        /\ \A q \in Procs : q # p => mem'[q] = mem[q] /\ memMtime'[q] = memMtime[q]
    BY <1>5, GotoType DEF SetResume, disk, TypeOK
  <2>2. \/ mem'[p] = mem[p] /\ memMtime'[p] = memMtime[p]
        \/ mem'[p] = mine[p] /\ memMtime'[p] = file.mtime
    BY <1>5 DEF SetResume, TypeOK
  <2>3. ReaderOK(p)'
    BY <1>0, <2>1, <2>2 DEF ReaderOK, WriterOK, Holds, Setting
  <2>4. \A q \in Procs : q # p => pc[q] # "sreplace"
    BY <1>3, <2>1 DEF Setting
  <2> QED
    BY <2>1, <2>3, <2>4, CurrentKept
<1>6. CASE SetOpen(p)
  <2>1. /\ pc[p] = "sopen" /\ pc'[p] = "sfill" /\ tmp'.val = mine'[p]
        /\ UNCHANGED <<file, mem, memMtime, got, answer>>
        /\ \A q \in Procs : q # p => pc'[q] = pc[q] /\ mine'[q] = mine[q]
    BY <1>6, GotoType DEF SetOpen, memory, TypeOK
  <2>2. \A q \in Procs : q # p => pc[q] \notin {"sfill", "sreplace"}
    BY <1>2, <2>1 DEF Locked
  <2>3. ASSUME NEW q \in Procs PROVE WriterOK(q)'
    <3>1. WriterOK(q)
      OBVIOUS
    <3> QED
      BY <2>1, <2>2, <3>1 DEF WriterOK
  <2>4. ASSUME NEW q \in Procs PROVE ReaderOK(q)'
    <3>1. ReaderOK(q)
      OBVIOUS
    <3> QED
      BY <2>1, <3>1 DEF ReaderOK, Holds, Setting
  <2> QED
    BY <2>3, <2>4
<1>7. CASE SetFill(p)
  <2>1. /\ pc[p] = "sfill" /\ pc'[p] = "sreplace" /\ clock' = clock + 1
        /\ UNCHANGED <<file, mem, memMtime, got, mine, answer>>
        /\ \A q \in Procs : q # p => pc'[q] = pc[q]
    BY <1>7, GotoType DEF SetFill, memory, OneWriter
  <2>2. tmp' = NoFile \/ (tmp # NoFile /\ tmp'.val = tmp.val /\ tmp'.mtime = clock')
    BY <1>7, FileTypes DEF SetFill, Files
  <2>3. \A q \in Procs : memMtime[q] < clock' /\ got[q].mtime < clock'
    BY <2>1, FileTypes DEF Marks
  <2>4. \A q \in Procs : q # p => pc[q] \notin {"sfill", "sreplace"}
    BY <1>2, <2>1 DEF Locked
  <2>5. ASSUME NEW q \in Procs PROVE WriterOK(q)'
    <3>1. WriterOK(q)
      OBVIOUS
    <3>2. CASE q = p
      BY <2>1, <2>2, <2>3, <3>1, <3>2 DEF WriterOK
    <3>3. CASE q # p
      BY <2>1, <2>4, <3>1, <3>3 DEF WriterOK
    <3> QED
      BY <3>2, <3>3
  <2>6. ASSUME NEW q \in Procs PROVE ReaderOK(q)'
    <3>1. ReaderOK(q)
      OBVIOUS
    <3> QED
      BY <2>1, <3>1 DEF ReaderOK, Holds, Setting
  <2> QED
    BY <2>5, <2>6
<1>8. CASE SetReplace(p) /\ tmp # NoFile
  <2>1. /\ pc[p] = "sreplace" /\ pc'[p] = "sresume" /\ file' = tmp /\ tmp' = NoFile
        /\ UNCHANGED <<mem, memMtime, got, mine, answer>>
        /\ \A q \in Procs : q # p => pc'[q] = pc[q]
    BY <1>8, GotoType DEF SetReplace, memory
  <2>2. /\ tmp.val = mine[p]
        /\ \A q \in Procs : /\ mem[q] # 0 => memMtime[q] < tmp.mtime
                            /\ pc[q] = "gresume" => got[q].mtime < tmp.mtime
    BY <1>0, <1>8, <2>1 DEF WriterOK
  <2>3. \A q \in Procs : q # p => pc[q] \notin Setting /\ pc[q] # "gread"
    BY <1>2, <1>3, <2>1 DEF Locked, Setting
  <2>4. ASSUME NEW q \in Procs PROVE WriterOK(q)'
    BY <2>1, <2>2, <2>3 DEF WriterOK, Setting
  <2>5. ASSUME NEW q \in Procs PROVE ReaderOK(q)'
    <3>1. ReaderOK(q) /\ tmp.mtime \in Nat /\ memMtime[q] \in Nat /\ got[q].mtime \in Nat
      BY FileTypes
    <3>2. /\ Holds(file', mem[q], memMtime[q])
          /\ pc[q] = "gresume" => Holds(file', got[q].val, got[q].mtime)
      BY <2>1, <2>2, <3>1 DEF Holds
    <3>3. CASE q = p
      BY <2>1, <3>1, <3>2, <3>3 DEF ReaderOK, Setting
    <3>4. CASE q # p
      BY <2>1, <2>3, <3>1, <3>2, <3>4 DEF ReaderOK
    <3> QED
      BY <3>3, <3>4
  <2> QED
    BY <2>4, <2>5
<1> QED
  BY <1>4, <1>5, <1>6, <1>7, <1>8 DEF Set

LEMMA CurrentInductive == TypeOK /\ TypeOK' /\ LockExclusive /\ CurrentInv /\ [Next]_vars => CurrentInv'
<1> SUFFICES ASSUME TypeOK, TypeOK', LockExclusive, CurrentInv, [Next]_vars PROVE CurrentInv'
  OBVIOUS
<1>1. setting' = setting
  BY DEF Next, GetBegin, SetBegin, Get, GetLock, GetStat, GetRead, GetResume, Set, SetLock, SetOpen,
         SetFill, SetReplace, SetFail, SetResume, Crash, Age, Tamper, vars
<1> SUFFICES ASSUME OneWriter PROVE \A q \in Procs : WriterOK(q)' /\ ReaderOK(q)'
  BY <1>1, MarksInductive DEF CurrentInv, OneWriter
<1>2. Marks /\ \A q \in Procs : WriterOK(q) /\ ReaderOK(q)
  BY DEF CurrentInv
<1>3. ASSUME NEW p \in Procs, Crash(p) PROVE \A q \in Procs : WriterOK(q)' /\ ReaderOK(q)'
  <2>1. /\ Goto(p, "idle") /\ pc'[p] = "idle" /\ UNCHANGED <<file, tmp>>
        /\ mem'[p] = 0 /\ answer'[p] = 0 /\ got'[p] = NoFile
        /\ \A q \in Procs : q # p =>
               /\ mem'[q] = mem[q] /\ memMtime'[q] = memMtime[q] /\ got'[q] = got[q]
               /\ mine'[q] = mine[q] /\ answer'[q] = answer[q]
    BY <1>3, GotoType DEF Crash, TypeOK, PCs
  <2>2. ReaderOK(p)'
    BY <2>1, FileTypes DEF ReaderOK, Holds
  <2> QED
    BY <1>2, <2>1, <2>2, CurrentKept DEF PCs
<1>4. CASE Age \/ UNCHANGED vars
  <2>1. UNCHANGED <<file, tmp, pc, mem, memMtime, got, mine, answer>>
    BY <1>4 DEF Age, vars, disk, memory
  <2> QED
    BY <1>2, <2>1 DEF WriterOK, ReaderOK, Holds
<1>5. CASE Tamper
  <2>1. UNCHANGED <<tmp, pc, mem, memMtime, got, mine, answer>>
    BY <1>5 DEF Tamper, memory
  <2>2. ~file'.sound
    <3>1. file' = NoFile \/ file' = [file EXCEPT !.sound = FALSE, !.mtime = clock + 1]
      BY <1>5 DEF Tamper
    <3> QED
      BY <3>1, FileTypes DEF Files
  <2> QED
    BY <1>2, <2>1, <2>2 DEF WriterOK, ReaderOK, Holds
<1> QED
  BY <1>2, <1>3, <1>4, <1>5, GetCurrent, SetCurrent DEF Next

(* As long as one process writes and no two writes get the same time, a    *)
(* get answers with what is on disk: the memory copy is served only if it  *)
(* is that, however reads, writes, crashes, clean-ups and tampering        *)
(* interleave (cache.py:199-259).                                          *)
THEOREM OneWriterIsSeen == Spec => []OneWriterReadsAreCurrent
<1>1. Init => CurrentInv
  <2> SUFFICES ASSUME Init PROVE CurrentInv
    OBVIOUS
  <2>1. /\ file = NoFile /\ tmp = NoFile /\ clock = 0
        /\ \A p \in Procs : /\ pc[p] = "idle" /\ mem[p] = 0 /\ memMtime[p] = 0
                            /\ got[p] = NoFile /\ answer[p] = 0
    BY DEF Init
  <2> QED
    BY <2>1 DEF CurrentInv, Marks, WriterOK, ReaderOK, Holds, NoFile, Setting
<1>2. CurrentInv => OneWriterReadsAreCurrent
  BY DEF CurrentInv, OneWriter, ReaderOK, OneWriterReadsAreCurrent, ReadsAreCurrent
<1> QED
  BY <1>1, <1>2, StoreTypes, LockIsExclusive, CurrentInductive, PTL DEF Spec
===========================================================================
