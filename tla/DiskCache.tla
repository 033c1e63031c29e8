----------------------------- MODULE DiskCache -----------------------------
(***************************************************************************)
(* The disk cache (internal/cache/disk).  Goroutines (Procs) call Get, Put *)
(* and Delete on one Disk.  A Put streams its blob into a temporary file   *)
(* without holding disk.mtx, then takes the mutex, evicts the oldest       *)
(* entries until the new one fits and renames the temporary file into the  *)
(* directory.  Get and Delete hold the mutex for their whole body.  Any    *)
(* system call may fail, the process may die at any step, and since no     *)
(* file is ever fsync'ed a power loss may leave any entry torn.  Get opens *)
(* a torn entry as long as its ZIP directory and its info are intact: the  *)
(* blob's checksum is verified only when a Read reaches the blob's end.    *)
(*                                                                         *)
(* Several steps of the code are one action only where the mutex is held   *)
(* throughout and nothing but the directory listing is touched.            *)
(***************************************************************************)
EXTENDS Naturals, FiniteSets, Sums

CONSTANTS
  Keys,        \* cache keys; path() hashes them, no two share a file name
  Objects,     \* metadata and blob of one Put
  Size,        \* Size[o]: bytes of the finished ZIP file that holds o
  Procs,       \* goroutines that call the cache
  Limits,      \* limits that a (re)start may be configured with
  NoFile,      \* no such file
  NoProc,      \* disk.mtx is not held
  NoKey,       \* the key of no call
  Broken,      \* what a file whose blob or ZIP directory is torn holds
  MaxTime,     \* bound on the clock
  MaxCrashes   \* bound on the restarts

ASSUME KeysFinite == IsFiniteSet(Keys)
ASSUME SizeType == Size \in [Objects -> Nat]
ASSUME LimitsType == Limits \subseteq Nat /\ Limits # {}
ASSUME BoundsType == MaxTime \in Nat /\ MaxCrashes \in Nat
ASSUME NullsApart == /\ NoFile \notin Objects \cup (Keys \X Objects)
                     /\ Broken \notin Objects \cup {NoFile}
                     /\ NoProc \notin Procs
                     /\ NoKey \notin Keys

Time == 0 .. MaxTime

(* A file: the object it was written for, its length, its modification     *)
(* time, and how much of it is there: all of it, all but (a part of) the   *)
(* blob, or so little that getInner finds no directory, info or blob.      *)
Contents == {"whole", "blob torn", "unreadable"}
File == [obj : Objects, size : Nat, content : Contents, mtime : Time]

ASSUME NoFileApart == NoFile \notin File

VARIABLES
  dir,         \* dir[k]: the file at disk.path(k), or NoFile
  limitBytes,  \* disk.limitBytes
  mtx,         \* the holder of disk.mtx, or NoProc
  now,         \* the system's clock
  pc,          \* pc[p]: where p is in its call
  key,         \* key[p]: the key of p's call, or NoKey
  tmp,         \* tmp[p]: the temporary file of p's Put, or NoFile
  entries,     \* entries[p]: what evict() listed and has not visited yet
  used,        \* used[p]: evict()'s usedBytes
  reader,      \* reader[p]: what the file behind p's Reader holds, or NoFile
  accessed,    \* history: when the entry was last read, or else written
  crashes      \* restarts so far

procVars == <<pc, key, tmp, entries, used, reader>>
vars == <<dir, limitBytes, mtx, now, accessed, crashes, procVars>>

Labels == {"idle", "get", "read", "eof", "delete", "copy", "accept", "evict", "cleanup"}

Dir == [Keys -> File \cup {NoFile}]
Empty == [k \in Keys |-> NoFile]

(* What is stored in a file. *)
Held(f) == IF f = NoFile THEN NoFile ELSE IF f.content = "whole" THEN f.obj ELSE Broken

FileSize(f) == IF f = NoFile THEN 0 ELSE f.size

UsedBytes(d) == SumBy([k \in Keys |-> FileSize(d[k])])

(* The names that can come first in d sorted by modification time: the     *)
(* sort is not stable, so any of the oldest.                               *)
Oldest(d) == {k \in Keys : /\ d[k] # NoFile
                           /\ \A j \in Keys : d[j] # NoFile =>
                                                d[k].mtime <= d[j].mtime}

Init == /\ dir = Empty
        /\ limitBytes \in Limits
        /\ mtx = NoProc
        /\ now = 0
        /\ pc = [p \in Procs |-> "idle"]
        /\ key = [p \in Procs |-> NoKey]
        /\ tmp = [p \in Procs |-> NoFile]
        /\ entries = [p \in Procs |-> Empty]
        /\ used = [p \in Procs |-> 0]
        /\ reader = [p \in Procs |-> NoFile]
        /\ accessed = [k \in Keys |-> 0]
        /\ crashes = 0
-----------------------------------------------------------------------------
Call(p, k, label) == /\ pc[p] = "idle"
                     /\ pc' = [pc EXCEPT ![p] = label]
                     /\ key' = [key EXCEPT ![p] = k]

Return(p) == /\ pc' = [pc EXCEPT ![p] = "idle"]
             /\ key' = [key EXCEPT ![p] = NoKey]

Goto(p, label) == /\ pc' = [pc EXCEPT ![p] = label]
                  /\ UNCHANGED key

(* p is at label, and disk.mtx is free for it to take. *)
Locked(p, label) == pc[p] = label /\ mtx = NoProc

(* Mutant: Get leaves the times of the file alone. *)
TouchNoChtimes(k) == /\ UNCHANGED dir
                     /\ accessed' = [accessed EXCEPT ![k] = now]

Touch(k) == /\ dir' = [dir EXCEPT ![k].mtime = now]
            /\ accessed' = [accessed EXCEPT ![k] = now]

Unlink(k) == /\ dir' = [dir EXCEPT ![k] = NoFile]
             /\ accessed' = [accessed EXCEPT ![k] = 0]

NoTouch == UNCHANGED <<dir, accessed>>

EnvUnchanged == UNCHANGED <<limitBytes, now, crashes>>
-----------------------------------------------------------------------------
(* Get holds disk.mtx from its first line to its return. *)

GetCall(p, k) == /\ Call(p, k, "get")
                 /\ NoTouch
                 /\ EnvUnchanged
                 /\ UNCHANGED <<mtx, tmp, entries, used, reader>>

(* The entry does not exist, or os.Open or os.Chtimes fails. *)
GetNothing(p) == /\ Locked(p, "get")
                 /\ Return(p)
                 /\ NoTouch
                 /\ EnvUnchanged
                 /\ UNCHANGED <<mtx, tmp, entries, used, reader>>

(* getInner fails, as it must on an unreadable file: the times are updated *)
(* first.                                                                  *)
GetReadFail(p) == /\ Locked(p, "get")
                  /\ dir[key[p]] # NoFile
                  /\ Touch(key[p])
                  /\ Return(p)
                  /\ EnvUnchanged
                  /\ UNCHANGED <<mtx, tmp, entries, used, reader>>

(* getInner reads the directory and the info, and of the blob only its     *)
(* header: a file whose blob is torn is handed out like a whole one.       *)
GetHit(p) == /\ Locked(p, "get")
             /\ dir[key[p]] # NoFile
             /\ dir[key[p]].content # "unreadable"
             /\ Touch(key[p])
             /\ reader' = [reader EXCEPT ![p] = Held(dir[key[p]])]
             /\ Goto(p, "read")
             /\ EnvUnchanged
             /\ UNCHANGED <<mtx, tmp, entries, used>>

(* Reader.Read returns io.EOF: archive/zip (external) compares the length  *)
(* and the checksum of what was read with the directory's first, and fails *)
(* on a torn blob.                                                         *)
ReadEOF(p) == /\ pc[p] = "read"
              /\ reader[p] # Broken
              /\ Goto(p, "eof")
              /\ NoTouch
              /\ EnvUnchanged
              /\ UNCHANGED <<mtx, tmp, entries, used, reader>>

(* Reader.Close, before or after the end of the blob, or after a Read that *)
(* failed.                                                                 *)
Close(p) == /\ pc[p] \in {"read", "eof"}
            /\ reader' = [reader EXCEPT ![p] = NoFile]
            /\ Return(p)
            /\ NoTouch
            /\ EnvUnchanged
            /\ UNCHANGED <<mtx, tmp, entries, used>>
-----------------------------------------------------------------------------
DeleteCall(p, k) == /\ Call(p, k, "delete")
                    /\ NoTouch
                    /\ EnvUnchanged
                    /\ UNCHANGED <<mtx, tmp, entries, used, reader>>

(* Mutant: Delete does not take disk.mtx. *)
DeleteDoUnlocked(p) == /\ pc[p] = "delete"
                       /\ Unlink(key[p])
                       /\ Return(p)
                       /\ EnvUnchanged
                       /\ UNCHANGED <<mtx, tmp, entries, used, reader>>

DeleteDo(p) == /\ Locked(p, "delete")
               /\ Unlink(key[p])
               /\ Return(p)
               /\ EnvUnchanged
               /\ UNCHANGED <<mtx, tmp, entries, used, reader>>

(* os.Remove fails. *)
DeleteFail(p) == /\ Locked(p, "delete")
                 /\ Return(p)
                 /\ NoTouch
                 /\ EnvUnchanged
                 /\ UNCHANGED <<mtx, tmp, entries, used, reader>>
-----------------------------------------------------------------------------
(* Put: os.CreateTemp, then the copy of the blob, without disk.mtx. *)
PutCall(p, k, o) ==
  /\ Call(p, k, "copy")
  /\ tmp' = [tmp EXCEPT ![p] = [obj |-> o, size |-> 0,
                                content |-> "unreadable", mtime |-> now]]
  /\ NoTouch
  /\ EnvUnchanged
  /\ UNCHANGED <<mtx, entries, used, reader>>

(* The blob and the ZIP directory are written and the file is closed. *)
PutCopied(p) ==
  /\ pc[p] = "copy"
  /\ tmp' = [tmp EXCEPT ![p] = [obj |-> @.obj, size |-> Size[@.obj],
                                content |-> "whole", mtime |-> now]]
  /\ Goto(p, "accept")
  /\ NoTouch
  /\ EnvUnchanged
  /\ UNCHANGED <<mtx, entries, used, reader>>

(* Mutant: Put goes on when the copy failed. *)
PutAbortAccepts(p) == /\ pc[p] = "copy"
                      /\ Goto(p, "accept")
                      /\ NoTouch
                      /\ EnvUnchanged
                      /\ UNCHANGED <<mtx, tmp, entries, used, reader>>

(* writeInfo, the copy, or a Close fails. *)
PutAbort(p) == /\ pc[p] = "copy"
               /\ Goto(p, "cleanup")
               /\ NoTouch
               /\ EnvUnchanged
               /\ UNCHANGED <<mtx, tmp, entries, used, reader>>

(* accept takes disk.mtx, evict checks the size and lists the directory. *)
AcceptBegin(p) == /\ Locked(p, "accept")
                  /\ tmp[p].size <= limitBytes
                  /\ mtx' = p
                  /\ entries' = [entries EXCEPT ![p] = dir]
                  /\ used' = [used EXCEPT ![p] = UsedBytes(dir)]
                  /\ Goto(p, "evict")
                  /\ NoTouch
                  /\ EnvUnchanged
                  /\ UNCHANGED <<tmp, reader>>

(* The entry is larger than the limit, or os.Stat or os.ReadDir fails. *)
AcceptFail(p) == /\ Locked(p, "accept")
                 /\ Goto(p, "cleanup")
                 /\ NoTouch
                 /\ EnvUnchanged
                 /\ UNCHANGED <<mtx, tmp, entries, used, reader>>

(* Mutant: the size of the new entry is left out. *)
FitsWithoutNew(p) == used[p] <= limitBytes

Fits(p) == used[p] + tmp[p].size <= limitBytes

(* Mutant: needBytes is subtracted instead of the entry's size. *)
EvictRemoveSubtractsNew(p, k) ==
  /\ pc[p] = "evict"
  /\ ~ Fits(p)
  /\ k \in Oldest(entries[p])
  /\ Unlink(k)
  /\ entries' = [entries EXCEPT ![p][k] = NoFile]
  /\ used' = [used EXCEPT ![p] = @ - tmp[p].size]
  /\ EnvUnchanged
  /\ UNCHANGED <<mtx, pc, key, tmp, reader>>

(* One iteration of evict's loop. *)
EvictRemove(p, k) ==
  /\ pc[p] = "evict"
  /\ ~ Fits(p)
  /\ k \in Oldest(entries[p])
  /\ dir[k] # NoFile
  /\ Unlink(k)
  /\ entries' = [entries EXCEPT ![p][k] = NoFile]
  /\ used' = [used EXCEPT ![p] = @ - FileSize(entries[p][k])]
  /\ EnvUnchanged
  /\ UNCHANGED <<mtx, pc, key, tmp, reader>>

(* evict and accept return: disk.mtx is released by accept's defer. *)
Unlock(p) == /\ mtx' = NoProc
             /\ entries' = [entries EXCEPT ![p] = Empty]
             /\ used' = [used EXCEPT ![p] = 0]

(* The loop ends, os.Rename succeeds and Put returns nil. *)
Rename(p) == /\ pc[p] = "evict"
             /\ Fits(p) \/ entries[p] = Empty
             /\ dir' = [dir EXCEPT ![key[p]] = tmp[p]]
             /\ accessed' = [accessed EXCEPT ![key[p]] = tmp[p].mtime]
             /\ tmp' = [tmp EXCEPT ![p] = NoFile]
             /\ Unlock(p)
             /\ Return(p)
             /\ EnvUnchanged
             /\ UNCHANGED reader

(* Mutant: the error path keeps disk.mtx. *)
EvictFailLocked(p) == /\ pc[p] = "evict"
                      /\ Goto(p, "cleanup")
                      /\ NoTouch
                      /\ EnvUnchanged
                      /\ UNCHANGED <<mtx, entries, used, tmp, reader>>

(* os.Remove of an old entry, or os.Rename, fails; what was evicted stays  *)
(* evicted.                                                                *)
EvictFail(p) == /\ pc[p] = "evict"
                /\ Unlock(p)
                /\ Goto(p, "cleanup")
                /\ NoTouch
                /\ EnvUnchanged
                /\ UNCHANGED <<tmp, reader>>

(* Put removes its temporary file and returns the error. *)
Cleanup(p) == /\ pc[p] = "cleanup"
              /\ tmp' = [tmp EXCEPT ![p] = NoFile]
              /\ Return(p)
              /\ NoTouch
              /\ EnvUnchanged
              /\ UNCHANGED <<mtx, entries, used, reader>>
-----------------------------------------------------------------------------
(* What may remain of a file after a power loss: pages that had not been   *)
(* written back read as zeros (the blob's, or those that getInner needs),  *)
(* or the file is empty.                                                   *)
Remains(f) ==
  IF f = NoFile THEN {NoFile}
  ELSE {f, [f EXCEPT !.content = "unreadable"],
        [f EXCEPT !.content = "unreadable", !.size = 0]}
       \cup (IF f.content = "unreadable" THEN {}
             ELSE {[f EXCEPT !.content = "blob torn"]})

(* The directories that may remain of d. *)
AfterLoss(d) == {e \in [Keys -> UNION {Remains(d[k]) : k \in Keys}] :
                   \A k \in Keys : e[k] \in Remains(d[k])}

(* The process dies and New opens what is left of the directory, perhaps   *)
(* with another limit.                                                     *)
Restart(left, limit) ==
  /\ crashes < MaxCrashes
  /\ crashes' = crashes + 1
  /\ dir' = left
  /\ limitBytes' = limit
  /\ mtx' = NoProc
  /\ pc' = [p \in Procs |-> "idle"]
  /\ key' = [p \in Procs |-> NoKey]
  /\ tmp' = [p \in Procs |-> NoFile]
  /\ entries' = [p \in Procs |-> Empty]
  /\ used' = [p \in Procs |-> 0]
  /\ reader' = [p \in Procs |-> NoFile]
  /\ UNCHANGED <<now, accessed>>

Tick == /\ now < MaxTime
        /\ now' = now + 1
        /\ NoTouch
        /\ UNCHANGED <<limitBytes, mtx, crashes, procVars>>

Present(d) == {k \in Keys : d[k] # NoFile}

CallStep(p) == \/ \E k \in Keys : GetCall(p, k) \/ DeleteCall(p, k)
               \/ \E k \in Keys, o \in Objects : PutCall(p, k, o)

(* The steps that end a wait for disk.mtx. *)
LockStep(p) == \/ GetNothing(p) \/ GetReadFail(p) \/ GetHit(p)
               \/ DeleteDo(p) \/ DeleteFail(p)
               \/ AcceptBegin(p) \/ AcceptFail(p)

(* The steps that need neither disk.mtx nor the blob's sender. *)
OwnStep(p) == \/ \E k \in Keys : EvictRemove(p, k)
              \/ Rename(p) \/ EvictFail(p) \/ Cleanup(p)

CopyStep(p) == PutCopied(p) \/ PutAbort(p)

Next == \/ \E p \in Procs : CallStep(p) \/ LockStep(p) \/ OwnStep(p)
                              \/ CopyStep(p) \/ ReadEOF(p) \/ Close(p)
        \/ \E left \in AfterLoss(dir), limit \in Limits : Restart(left, limit)
        \/ Tick

Spec == Init /\ [][Next]_vars

(* Go's sync.Mutex hands the lock to a waiter that starves, so a step that *)
(* is enabled again and again is taken; a goroutine that needs nobody else *)
(* proceeds.  Nothing makes a copy end or a reader be closed.              *)
Fairness == \A p \in Procs : SF_vars(LockStep(p)) /\ WF_vars(OwnStep(p))

FairSpec == Spec /\ Fairness
-----------------------------------------------------------------------------
(* Type correctness of the state. *)
TypeOK == /\ dir \in Dir
          /\ limitBytes \in Limits
          /\ mtx \in Procs \cup {NoProc}
          /\ now \in Time
          /\ pc \in [Procs -> Labels]
          /\ key \in [Procs -> Keys \cup {NoKey}]
          /\ tmp \in [Procs -> File \cup {NoFile}]
          /\ entries \in [Procs -> Dir]
          /\ used \in [Procs -> Nat]
          /\ reader \in [Procs -> Objects \cup {Broken, NoFile}]
          /\ accessed \in [Keys -> Time]
          /\ crashes \in 0 .. MaxCrashes

(* What evict() listed at its start stays the truth until it returns: the  *)
(* entries it has not visited are exactly the directory, usedBytes is      *)
(* exactly its size, and the new entry is complete and not too large,      *)
(* although Gets, Puts and Deletes of other goroutines are in progress.    *)
PlanIsCurrent ==
  \A p \in Procs : pc[p] = "evict" =>
    /\ mtx = p
    /\ entries[p] = dir
    /\ used[p] = UsedBytes(dir)
    /\ tmp[p].content = "whole" /\ tmp[p].size <= limitBytes

(* A call has its key; a Put, and nobody else, has a temporary file, which *)
(* is complete when accept() is called; a reader is open only between Get  *)
(* and Close, and comes only to the end of a whole blob; disk.mtx is held  *)
(* over several steps only by an evicting Put.                             *)
CallsAreSound ==
  /\ \A p \in Procs :
       /\ key[p] = NoKey <=> pc[p] = "idle"
       /\ tmp[p] = NoFile <=> pc[p] \notin {"copy", "accept", "evict", "cleanup"}
       /\ reader[p] = NoFile <=> pc[p] \notin {"read", "eof"}
       /\ pc[p] = "eof" => reader[p] # Broken
       /\ pc[p] = "accept" => tmp[p].content = "whole"
  /\ mtx # NoProc => pc[mtx] = "evict"

(* The modification time of an entry is the time of its last use. *)
MtimeIsLastUse == \A k \in Keys : dir[k] # NoFile => dir[k].mtime = accessed[k]

(* The inductive invariant. *)
Inv == TypeOK /\ CallsAreSound /\ PlanIsCurrent /\ MtimeIsLastUse

(* A step that makes the cache larger leaves it within the limit in force, *)
(* also when several Puts overlap, when an entry is replaced, and after a  *)
(* restart with a lower limit.                                             *)
GrowsOnlyWithinLimit ==
  [][UsedBytes(dir') > UsedBytes(dir) => UsedBytes(dir') <= limitBytes]_vars

(* accept() evicts an entry only while the new one does not fit beside     *)
(* what is stored, and then one that no other entry was used before.       *)
EvictsLeastRecentWhenFull ==
  [][\A p \in Procs, k \in Keys :
       /\ pc[p] = "evict" /\ pc'[p] = "evict"
       /\ dir[k] # NoFile /\ dir'[k] = NoFile
       => /\ UsedBytes(dir) + tmp[p].size > limitBytes
          /\ \A j \in Present(dir) : accessed[k] <= accessed[j]]_vars

(* A Get, a Delete and a Put that has its blob all end, whatever fails in  *)
(* them or in others and although other Puts may be copying for ever:      *)
(* disk.mtx is not held over a copy and every path releases it.            *)
CallsReturn ==
  \A p \in Procs : pc[p] \in {"get", "delete", "accept", "evict", "cleanup"}
                     ~> pc[p] \in {"idle", "read"}

(* What Cache sees of the files and the calls: the refinement mapping. *)
AbsStore == [k \in Keys |-> Held(dir[k])]
AbsPutting == [p \in Procs |-> IF tmp[p] = NoFile THEN NoFile
                               ELSE <<key[p], tmp[p].obj>>]
AbsReader == [p \in Procs |-> IF reader[p] = NoFile THEN NoFile
                              ELSE <<key[p], reader[p]>>]
AbsDelivered == [p \in Procs |-> IF pc[p] = "eof" THEN reader[p] ELSE NoFile]

Abs == INSTANCE Cache WITH None <- NoFile, store <- AbsStore,
                           putting <- AbsPutting, reader <- AbsReader,
                           delivered <- AbsDelivered

(* The disk cache implements Cache: a Put is atomic and stores its own     *)
(* object under its own key, a reader stays with what was stored when it   *)
(* was opened, only a power loss tears an entry, and a reader of a torn    *)
(* entry, which Get may hand out, never comes to its end without an error: *)
(* what a Get delivers completely is what one Put of that key stored.      *)
ImplementsCache == Abs!Spec
=============================================================================
