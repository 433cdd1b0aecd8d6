----------------------------- MODULE CacheStore -----------------------------
(***************************************************************************)
(* JsonSourceCacheStore for one source: the cache file, its temporary file *)
(* and its FileLock, shared by the processes that use the cache directory  *)
(* (the server and `mpm refresh`), and the copy each keeps in memory.      *)
(*                                                                         *)
(* Inside a process the asyncio lock of the source lets one get or set run *)
(* at a time, so a process is in at most one of them; what asyncio tasks   *)
(* do around it is in Refresher.  A record is the number of the write that *)
(* made it, 0 is no record.  A definition that says "Variant" is a fault   *)
(* put into the one after it; no other definition uses it.                 *)
(***************************************************************************)
EXTENDS Naturals

CONSTANTS
    Procs,     \* processes that use the cache directory
    NoProc,    \* the FileLock is free
    Settings   \* what may happen to them, see SettingAssumption

(* writers call set(); with coarse two writes may get the same             *)
(* modification time; with tamper someone may delete or garble the cache   *)
(* file; with slow a write may take longer than the age of a stale .tmp;   *)
(* limit is a bound: no set() starts after so many writes.                 *)
ASSUME ProcAssumption == NoProc \notin Procs
ASSUME SettingAssumption ==
    Settings \subseteq [writers: SUBSET Procs, coarse: BOOLEAN, tamper: BOOLEAN,
                       slow: BOOLEAN, limit: Nat]

VARIABLES
    setting,    \* the member of Settings this behaviour is about
    file,       \* <source>.json
    tmp,        \* <source>.json.tmp
    tmpOld,     \* its age exceeds the limit of the clean-ups
    fileLock,   \* holder of <source>.lock
    clock,      \* the file system's clock, as far as mtimes show it
    writes,     \* records written to a .tmp so far
    pc,         \* where the get or set of each process is
    ready,      \* _dir_created
    mem,        \* _memory
    memMtime,   \* _memory_mtime
    mine,       \* the record the set under way writes
    got,        \* what the get under way has read from disk
    answer      \* what the last get returned

disk == <<file, tmp, tmpOld, fileLock, clock>>
memory == <<ready, mem, memMtime>>
vars == <<setting, disk, writes, pc, memory, mine, got, answer>>

----------------------------------------------------------------------------
PCs == {"idle", "glock", "gstat", "gread", "gresume",
        "slock", "sopen", "sfill", "sreplace", "sresume"}

(* Steps of the worker thread inside `with FileLock(...)`.                 *)
Locked == {"gstat", "gread", "sopen", "sfill", "sreplace"}

(* sound is FALSE for a file whose JSON does not load as a record.         *)
Files == [val: Nat, mtime: Nat, sound: BOOLEAN]
NoFile == [val |-> 0, mtime |-> 0, sound |-> FALSE]

Goto(p, l) == pc' = [pc EXCEPT ![p] = l]

(* _ensure_dir: the first operation of a process removes stale .tmp files, *)
(* without the FileLock.                                                   *)
EnsureDir(p) ==
    /\ ready' = [ready EXCEPT ![p] = TRUE]
    /\ IF ~ready[p] /\ tmpOld
       THEN tmp' = NoFile /\ tmpOld' = FALSE
       ELSE UNCHANGED <<tmp, tmpOld>>

Lock(p, from, to) ==
    /\ pc[p] = from /\ fileLock = NoProc
    /\ fileLock' = p
    /\ Goto(p, to)

----------------------------------------------------------------------------
(* get()                                                                   *)

GetBegin(p) ==
    /\ pc[p] = "idle"
    /\ EnsureDir(p)
    /\ Goto(p, "glock")
    /\ got' = [got EXCEPT ![p] = NoFile]
    /\ answer' = [answer EXCEPT ![p] = 0]
    /\ UNCHANGED <<setting, file, fileLock, clock, writes, mem, memMtime, mine>>

GetLock(p) ==
    /\ Lock(p, "glock", "gstat")
    /\ IF tmpOld
       THEN tmp' = NoFile /\ tmpOld' = FALSE
       ELSE UNCHANGED <<tmp, tmpOld>>
    /\ UNCHANGED <<setting, file, clock, writes, memory, mine, got, answer>>

(* exists() and stat().                                                    *)
GetStat(p) ==
    /\ pc[p] = "gstat"
    /\ got' = [got EXCEPT ![p].mtime = file.mtime]
    /\ IF file = NoFile
       THEN Goto(p, "gresume") /\ fileLock' = NoProc
       ELSE Goto(p, "gread") /\ UNCHANGED fileLock
    /\ UNCHANGED <<setting, file, tmp, tmpOld, clock, writes, memory, mine, answer>>

(* The file may have been deleted since: a miss.                           *)
GetRead(p) ==
    /\ pc[p] = "gread"
    /\ got' = [got EXCEPT ![p].val = file.val, ![p].sound = file.sound]
    /\ fileLock' = NoProc
    /\ Goto(p, "gresume")
    /\ UNCHANGED <<setting, file, tmp, tmpOld, clock, writes, memory, mine, answer>>

\* Variant: the memory copy is served whenever there is one.
GetResumeNoStat(p) ==
    /\ pc[p] = "gresume"
    /\ IF ~got[p].sound
       THEN /\ mem' = [mem EXCEPT ![p] = 0]
            /\ memMtime' = [memMtime EXCEPT ![p] = 0]
       ELSE IF mem[p] # 0
       THEN UNCHANGED <<mem, memMtime>>
       ELSE /\ mem' = [mem EXCEPT ![p] = got[p].val]
            /\ memMtime' = [memMtime EXCEPT ![p] = got[p].mtime]
    /\ answer' = [answer EXCEPT ![p] = mem'[p]]
    /\ Goto(p, "idle")
    /\ UNCHANGED <<setting, disk, writes, ready, mine, got>>

\* Variant: a miss is noted with a modification time before all others.
GetResumeMinus(p) ==
    /\ pc[p] = "gresume"
    /\ IF ~got[p].sound
       THEN /\ mem' = [mem EXCEPT ![p] = 0]
            /\ memMtime' = [memMtime EXCEPT ![p] = 0 - 1]
       ELSE IF mem[p] # 0 /\ got[p].mtime <= memMtime[p]
       THEN UNCHANGED <<mem, memMtime>>
       ELSE /\ mem' = [mem EXCEPT ![p] = got[p].val]
            /\ memMtime' = [memMtime EXCEPT ![p] = got[p].mtime]
    /\ answer' = [answer EXCEPT ![p] = mem'[p]]
    /\ Goto(p, "idle")
    /\ UNCHANGED <<setting, disk, writes, ready, mine, got>>

(* The memory copy is dropped on a miss or a corrupt file, served when the *)
(* file is not newer, else replaced by what was read.                      *)
GetResume(p) ==
    /\ pc[p] = "gresume"
    /\ IF ~got[p].sound
       THEN /\ mem' = [mem EXCEPT ![p] = 0]
            /\ memMtime' = [memMtime EXCEPT ![p] = 0]
       ELSE IF mem[p] # 0 /\ got[p].mtime <= memMtime[p]
       THEN UNCHANGED <<mem, memMtime>>
       ELSE /\ mem' = [mem EXCEPT ![p] = got[p].val]
            /\ memMtime' = [memMtime EXCEPT ![p] = got[p].mtime]
    /\ answer' = [answer EXCEPT ![p] = mem'[p]]
    /\ Goto(p, "idle")
    /\ UNCHANGED <<setting, disk, writes, ready, mine, got>>

----------------------------------------------------------------------------
(* set()                                                                   *)

SetBegin(p) ==
    /\ pc[p] = "idle" /\ p \in setting.writers /\ writes < setting.limit
    /\ EnsureDir(p)
    /\ Goto(p, "slock")
    /\ UNCHANGED <<setting, file, fileLock, clock, writes, mem, memMtime, mine, got, answer>>

SetLock(p) ==
    /\ Lock(p, "slock", "sopen")
    /\ UNCHANGED <<setting, file, tmp, tmpOld, clock, writes, memory, mine, got, answer>>

\* Variant: write in place, with no temporary file.
SetOpenInPlace(p) ==
    /\ pc[p] = "sopen"
    /\ writes' = writes + 1
    /\ mine' = [mine EXCEPT ![p] = writes + 1]
    /\ file' = [val |-> writes + 1, mtime |-> clock, sound |-> FALSE]
    /\ tmp' = [val |-> writes + 1, mtime |-> clock, sound |-> FALSE]
    /\ tmpOld' = FALSE
    /\ Goto(p, "sfill")
    /\ UNCHANGED <<setting, fileLock, clock, memory, got, answer>>

(* unlink() and the creation of a new, still incomplete, temporary file.   *)
SetOpen(p) ==
    /\ pc[p] = "sopen"
    /\ writes' = writes + 1
    /\ mine' = [mine EXCEPT ![p] = writes + 1]
    /\ tmp' = [val |-> writes + 1, mtime |-> clock, sound |-> FALSE]
    /\ tmpOld' = FALSE
    /\ Goto(p, "sfill")
    /\ UNCHANGED <<setting, file, fileLock, clock, memory, got, answer>>

(* The last byte is written, unless a clean-up has unlinked the file.      *)
SetFill(p) ==
    /\ pc[p] = "sfill"
    /\ clock' \in IF setting.coarse THEN {clock, clock + 1} ELSE {clock + 1}
    /\ tmp' = IF tmp = NoFile THEN NoFile
              ELSE [tmp EXCEPT !.mtime = clock', !.sound = TRUE]
    /\ Goto(p, "sreplace")
    /\ UNCHANGED <<setting, file, tmpOld, fileLock, writes, memory, mine, got, answer>>

\* Variant: a temporary file that is gone is not an error.
SetReplaceIgnores(p) ==
    /\ pc[p] = "sreplace"
    /\ IF tmp = NoFile
       THEN UNCHANGED <<file, tmp, tmpOld>>
       ELSE file' = tmp /\ tmp' = NoFile /\ tmpOld' = FALSE
    /\ Goto(p, "sresume")
    /\ fileLock' = NoProc
    /\ UNCHANGED <<setting, clock, writes, memory, mine, got, answer>>

(* chmod() and os.replace(), which raise when the temporary file is gone.  *)
SetReplace(p) ==
    /\ pc[p] = "sreplace"
    /\ IF tmp = NoFile
       THEN Goto(p, "idle") /\ UNCHANGED <<file, tmp, tmpOld>>
       ELSE /\ file' = tmp
            /\ tmp' = NoFile /\ tmpOld' = FALSE
            /\ Goto(p, "sresume")
    /\ fileLock' = NoProc
    /\ UNCHANGED <<setting, clock, writes, memory, mine, got, answer>>

\* Variant: an exception leaves the FileLock held.
SetFailKeepsLock(p) ==
    /\ pc[p] \in {"sopen", "sfill"}
    /\ Goto(p, "idle")
    /\ UNCHANGED <<setting, disk, writes, memory, mine, got, answer>>

(* The write fails: the temporary file is left for the next one.           *)
SetFail(p) ==
    /\ pc[p] \in {"sopen", "sfill"}
    /\ fileLock' = NoProc
    /\ Goto(p, "idle")
    /\ UNCHANGED <<setting, file, tmp, tmpOld, clock, writes, memory, mine, got, answer>>

(* stat(), after the FileLock is released, and the update of the memory    *)
(* copy; stat() raises when the file is gone.                              *)
SetResume(p) ==
    /\ pc[p] = "sresume"
    /\ IF file = NoFile
       THEN UNCHANGED <<mem, memMtime>>
       ELSE /\ mem' = [mem EXCEPT ![p] = mine[p]]
            /\ memMtime' = [memMtime EXCEPT ![p] = file.mtime]
    /\ Goto(p, "idle")
    /\ UNCHANGED <<setting, disk, writes, ready, mine, got, answer>>

----------------------------------------------------------------------------
(* A process is killed and started again: the system drops its FileLock.   *)
Crash(p) ==
    /\ pc[p] # "idle"
    /\ fileLock' = IF fileLock = p THEN NoProc ELSE fileLock
    /\ Goto(p, "idle")
    /\ ready' = [ready EXCEPT ![p] = FALSE]
    /\ mem' = [mem EXCEPT ![p] = 0]
    /\ memMtime' = [memMtime EXCEPT ![p] = 0]
    /\ mine' = [mine EXCEPT ![p] = 0]
    /\ got' = [got EXCEPT ![p] = NoFile]
    /\ answer' = [answer EXCEPT ![p] = 0]
    /\ UNCHANGED <<setting, file, tmp, tmpOld, clock, writes>>

(* A temporary file grows old: one a crash has left, or a slow writer's.   *)
Age ==
    /\ tmp # NoFile /\ ~tmpOld
    /\ setting.slow \/ fileLock = NoProc
    /\ tmpOld' = TRUE
    /\ UNCHANGED <<setting, file, tmp, fileLock, clock, writes, pc, memory, mine, got, answer>>

Tamper ==
    /\ setting.tamper /\ file.sound
    /\ \/ file' = NoFile /\ UNCHANGED clock
       \/ /\ file' = [file EXCEPT !.sound = FALSE, !.mtime = clock + 1]
          /\ clock' = clock + 1
    /\ UNCHANGED <<setting, tmp, tmpOld, fileLock, writes, pc, memory, mine, got, answer>>

----------------------------------------------------------------------------
Init ==
    /\ setting \in Settings
    /\ file = NoFile /\ tmp = NoFile /\ tmpOld = FALSE
    /\ fileLock = NoProc /\ clock = 0 /\ writes = 0
    /\ pc = [p \in Procs |-> "idle"]
    /\ ready = [p \in Procs |-> FALSE]
    /\ mem = [p \in Procs |-> 0]
    /\ memMtime = [p \in Procs |-> 0]
    /\ mine = [p \in Procs |-> 0]
    /\ got = [p \in Procs |-> NoFile]
    /\ answer = [p \in Procs |-> 0]

Get(p) == GetLock(p) \/ GetStat(p) \/ GetRead(p) \/ GetResume(p)

Set(p) ==
    \/ SetLock(p) \/ SetOpen(p) \/ SetFill(p) \/ SetReplace(p) \/ SetFail(p)
    \/ SetResume(p)

Next ==
    \/ \E p \in Procs : GetBegin(p) \/ SetBegin(p) \/ Get(p) \/ Set(p) \/ Crash(p)
    \/ Age \/ Tamper

Spec == Init /\ [][Next]_vars

(* A worker thread runs; FileLock polls, so it gets a lock that is free    *)
(* again and again, not only one that stays free.                          *)
Fairness ==
    \A p \in Procs :
        /\ WF_vars(Get(p)) /\ WF_vars(Set(p))
        /\ SF_vars(GetLock(p)) /\ SF_vars(SetLock(p))

FairSpec == Spec /\ Fairness

----------------------------------------------------------------------------
TypeOK ==
    /\ setting \in Settings
    /\ file \in Files /\ tmp \in Files
    /\ tmpOld \in BOOLEAN
    /\ fileLock \in Procs \cup {NoProc}
    /\ clock \in Nat /\ writes \in Nat
    /\ pc \in [Procs -> PCs]
    /\ ready \in [Procs -> BOOLEAN]
    /\ mem \in [Procs -> Nat] /\ memMtime \in [Procs -> Nat]
    /\ mine \in [Procs -> Nat]
    /\ got \in [Procs -> Files]
    /\ answer \in [Procs -> Nat]

(* One process at a time is inside the FileLock, across crashes of the     *)
(* holder and failed writes (cache.py:314-321, 420-434).                   *)
LockExclusive == \A p \in Procs : pc[p] \in Locked <=> fileLock = p

(* The cache file is never an incomplete write: a crash between the steps  *)
(* of _write_file, a failed write or a clean-up of temporary files leaves  *)
(* a whole record or none (cache.py:406-435, 128-141).                     *)
NeverTorn == ~setting.tamper => file.sound \/ file = NoFile

(* A get answers with the record it found on disk, whatever is in memory:  *)
(* no record of another process is missed and none that is gone or corrupt *)
(* is served (cache.py:199-240).                                           *)
ReadsAreCurrent ==
    \A p \in Procs :
        pc[p] = "idle" => answer[p] = IF got[p].sound THEN got[p].val ELSE 0

(* As long as one process writes, no clean-up comes too early and the      *)
(* clock of the file system is fine, every get is current: what another    *)
(* process wrote, deleted or garbled is seen at once (cache.py:199-240).   *)
OneWriterReadsAreCurrent ==
    (\A p, q \in setting.writers : p = q) /\ ~setting.coarse /\ ~setting.slow =>
        ReadsAreCurrent

(* No process remembers a record that has not reached the disk, though the *)
(* write may fail half-way or lose its temporary file to a clean-up        *)
(* (cache.py:248-253, 419-435).                                            *)
MemoryReachedDisk == ~setting.tamper => \A p \in Procs : mem[p] <= file.val

(* Every get and set ends although the FileLock is shared with processes   *)
(* that may die while they hold it (cache.py:190-259).                     *)
OperationsEnd == \A p \in Procs : pc[p] # "idle" ~> pc[p] = "idle"
=============================================================================
