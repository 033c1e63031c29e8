-------------------------- MODULE DiskCacheProofs --------------------------
(***************************************************************************)
(* Proofs about DiskCache for every set of keys, objects and goroutines,   *)
(* every size and every limit.                                             *)
(***************************************************************************)
EXTENDS DiskCache, SumTheorems

(* The sizes of the files of a directory are natural numbers. *)
LEMMA SizesType ==
  ASSUME NEW d \in Dir
  PROVE  [k \in Keys |-> FileSize(d[k])] \in [Keys -> Nat]
BY DEF Dir, File, FileSize

(* The size of a directory is a natural number. *)
LEMMA UsedType ==
  ASSUME NEW d \in Dir
  PROVE  UsedBytes(d) \in Nat
BY SizesType, SumType, KeysFinite DEF UsedBytes

(* An empty directory uses no space. *)
LEMMA UsedEmpty == Empty \in Dir /\ UsedBytes(Empty) = 0
<1>1. Empty \in Dir
  BY DEF Empty, Dir
<1>2. \A k \in Keys : [j \in Keys |-> FileSize(Empty[j])][k] = 0
  BY DEF Empty, FileSize
<1> QED BY <1>1, <1>2, SizesType, SumZero, KeysFinite DEF UsedBytes

(* Replacing one file changes the size by the difference of the files. *)
LEMMA UsedUpdate ==
  ASSUME NEW d \in Dir, NEW k \in Keys, NEW f \in File \cup {NoFile}
  PROVE  /\ FileSize(d[k]) <= UsedBytes(d)
         /\ UsedBytes([d EXCEPT ![k] = f]) = (UsedBytes(d) - FileSize(d[k])) + FileSize(f)
<1> DEFINE sz == [j \in Keys |-> FileSize(d[j])]
           d2 == [d EXCEPT ![k] = f]
           sz2 == [j \in Keys |-> FileSize(d2[j])]
<1>1. sz \in [Keys -> Nat]
  BY SizesType
<1>2. FileSize(f) \in Nat
  BY DEF File, FileSize
<1>3. sz2 = [sz EXCEPT ![k] = FileSize(f)]
  BY DEF Dir
<1>4. sz[k] = FileSize(d[k])
  OBVIOUS
<1>5. UsedBytes(d) = SumBy(sz) /\ UsedBytes(d2) = SumBy(sz2)
  BY DEF UsedBytes
<1> HIDE DEF sz, sz2, d2
<1>6. /\ sz[k] <= SumBy(sz)
      /\ SumBy([sz EXCEPT ![k] = FileSize(f)]) = (SumBy(sz) - sz[k]) + FileSize(f)
  BY <1>1, <1>2, SumUpdate, KeysFinite
<1> QED BY <1>3, <1>4, <1>5, <1>6 DEF d2

(* Updating a file's times does not change the size. *)
LEMMA UsedTouch ==
  ASSUME NEW d \in Dir, NEW k \in Keys, d[k] # NoFile, NEW t \in Time
  PROVE  /\ [d EXCEPT ![k].mtime = t] \in Dir
         /\ UsedBytes([d EXCEPT ![k].mtime = t]) = UsedBytes(d)
<1> DEFINE f == [d[k] EXCEPT !.mtime = t]
<1>1. d[k] \in File
  BY DEF Dir
<1>2. f \in File /\ f.size = d[k].size
  BY <1>1 DEF File
<1>3. [d EXCEPT ![k].mtime = t] = [d EXCEPT ![k] = f]
  OBVIOUS
<1>4. f # NoFile
  BY <1>2, NoFileApart
<1>5. FileSize(f) = FileSize(d[k])
  BY <1>2, <1>4 DEF FileSize
<1> HIDE DEF f
<1>6. [d EXCEPT ![k] = f] \in Dir
  BY <1>2 DEF Dir
<1>7. UsedBytes([d EXCEPT ![k] = f]) = UsedBytes(d)
  <2>1. UsedBytes(d) \in Nat /\ FileSize(d[k]) \in Nat
    BY <1>1, UsedType DEF File, FileSize
  <2>2. UsedBytes([d EXCEPT ![k] = f]) = (UsedBytes(d) - FileSize(d[k])) + FileSize(f)
    BY <1>2, UsedUpdate
  <2> QED BY <1>5, <2>1, <2>2
<1> QED BY <1>3, <1>6, <1>7

(* Removing a file makes the directory smaller by its size. *)
LEMMA UsedRemove ==
  ASSUME NEW d \in Dir, NEW k \in Keys
  PROVE  /\ [d EXCEPT ![k] = NoFile] \in Dir
         /\ UsedBytes([d EXCEPT ![k] = NoFile]) = UsedBytes(d) - FileSize(d[k])
         /\ UsedBytes(d) - FileSize(d[k]) \in Nat
         /\ UsedBytes(d) - FileSize(d[k]) <= UsedBytes(d)
<1>1. [d EXCEPT ![k] = NoFile] \in Dir
  BY DEF Dir
<1>2. UsedBytes(d) \in Nat /\ FileSize(d[k]) \in Nat
  BY UsedType DEF Dir, File, FileSize
<1>3. FileSize(NoFile) = 0
  BY DEF FileSize
<1>4. /\ FileSize(d[k]) <= UsedBytes(d)
      /\ UsedBytes([d EXCEPT ![k] = NoFile]) = (UsedBytes(d) - FileSize(d[k])) + FileSize(NoFile)
  BY UsedUpdate
<1> QED BY <1>1, <1>2, <1>3, <1>4

(* A power loss makes no file larger. *)
LEMMA UsedTorn ==
  ASSUME NEW d \in Dir, NEW e \in Dir, \A k \in Keys : FileSize(e[k]) <= FileSize(d[k])
  PROVE  UsedBytes(e) <= UsedBytes(d)
<1> DEFINE sd == [k \in Keys |-> FileSize(d[k])]
           se == [k \in Keys |-> FileSize(e[k])]
<1>1. sd \in [Keys -> Nat] /\ se \in [Keys -> Nat]
  BY SizesType
<1>2. \A k \in Keys : se[k] <= sd[k]
  OBVIOUS
<1>3. UsedBytes(d) = SumBy(sd) /\ UsedBytes(e) = SumBy(se)
  BY DEF UsedBytes
<1> HIDE DEF sd, se
<1> QED BY <1>1, <1>2, <1>3, SumMonotone, KeysFinite
-----------------------------------------------------------------------------
(* The initial states satisfy the inductive invariant. *)
LEMMA InvInit == Init => Inv
<1> SUFFICES ASSUME Init PROVE Inv
  OBVIOUS
<1>1. TypeOK
  BY UsedEmpty, BoundsType DEF Init, TypeOK, Time, Labels
<1>2. CallsAreSound
  BY DEF Init, CallsAreSound
<1>3. PlanIsCurrent
  BY DEF Init, PlanIsCurrent
<1>4. MtimeIsLastUse
  BY DEF Init, MtimeIsLastUse, Empty
<1> QED BY <1>1, <1>2, <1>3, <1>4 DEF Inv
(* While disk.mtx is free nobody is evicting. *)
LEMMA FreeMeansNoEvict ==
  ASSUME Inv, mtx = NoProc
  PROVE  \A q \in Procs : pc[q] # "evict"
BY NullsApart DEF Inv, PlanIsCurrent

(* Whoever is in a call has a key. *)
LEMMA CallHasKey ==
  ASSUME Inv, NEW p \in Procs, pc[p] # "idle"
  PROVE  key[p] \in Keys
BY DEF Inv, TypeOK, CallsAreSound

(* What Chtimes does to the directory. *)
LEMMA TouchFacts ==
  ASSUME Inv, NEW k \in Keys, dir[k] # NoFile, Touch(k)
  PROVE  /\ dir' \in Dir
         /\ accessed' \in [Keys -> Time]
         /\ UsedBytes(dir') = UsedBytes(dir)
         /\ MtimeIsLastUse'
<1>1. dir \in Dir /\ now \in Time /\ accessed \in [Keys -> Time] /\ MtimeIsLastUse
  BY DEF Inv, TypeOK
<1>2. dir' \in Dir /\ UsedBytes(dir') = UsedBytes(dir)
  BY <1>1, UsedTouch DEF Touch
<1>3. accessed' \in [Keys -> Time]
  BY <1>1 DEF Touch
<1>4. MtimeIsLastUse'
  <2> SUFFICES ASSUME NEW j \in Keys, dir'[j] # NoFile
               PROVE  dir'[j].mtime = accessed'[j]
    BY DEF MtimeIsLastUse
  <2>1. CASE j = k
    <3>1. dir[k] \in File
      BY <1>1 DEF Dir
    <3>2. dir'[j] = [dir[k] EXCEPT !.mtime = now]
      BY <1>1, <2>1 DEF Touch, Dir
    <3> QED BY <1>1, <2>1, <3>1, <3>2 DEF Touch, File
  <2>2. CASE j # k
    BY <1>1, <2>2 DEF Touch, Dir, MtimeIsLastUse
  <2> QED BY <2>1, <2>2
<1> QED BY <1>2, <1>3, <1>4

(* What removing a file does to the directory. *)
LEMMA UnlinkFacts ==
  ASSUME Inv, NEW k \in Keys, Unlink(k)
  PROVE  /\ dir' \in Dir
         /\ accessed' \in [Keys -> Time]
         /\ UsedBytes(dir') = UsedBytes(dir) - FileSize(dir[k])
         /\ UsedBytes(dir') \in Nat
         /\ UsedBytes(dir') <= UsedBytes(dir)
         /\ MtimeIsLastUse'
<1>1. dir \in Dir /\ accessed \in [Keys -> Time] /\ MtimeIsLastUse
  BY DEF Inv, TypeOK
<1>2. dir' = [dir EXCEPT ![k] = NoFile]
  BY DEF Unlink
<1>3. /\ dir' \in Dir
      /\ UsedBytes(dir') = UsedBytes(dir) - FileSize(dir[k])
      /\ UsedBytes(dir') \in Nat
      /\ UsedBytes(dir') <= UsedBytes(dir)
  BY <1>1, <1>2, UsedRemove
<1>4. accessed' \in [Keys -> Time]
  BY <1>1, BoundsType DEF Unlink, Time
<1>5. MtimeIsLastUse'
  BY <1>1 DEF MtimeIsLastUse, Unlink, Dir
<1> QED BY <1>3, <1>4, <1>5

(* The temporary files of Put are files. *)
LEMMA TmpType ==
  ASSUME NEW o \in Objects, NEW t \in Time, NEW n \in Nat, NEW c \in Contents
  PROVE  /\ [obj |-> o, size |-> n, content |-> c, mtime |-> t] \in File
         /\ [obj |-> o, size |-> n, content |-> c, mtime |-> t] # NoFile
BY NoFileApart DEF File

(* GetCall keeps the invariant. *)
LEMMA GetCallInv ==
  ASSUME Inv, NEW p \in Procs, NEW k \in Keys, GetCall(p, k)
  PROVE  Inv'
<1> USE DEF Inv
<1>1. TypeOK'
  BY DEF GetCall, Call, NoTouch, EnvUnchanged, TypeOK, Labels
<1>2. CallsAreSound'
  BY NullsApart, NoFileApart DEF GetCall, Call, NoTouch, EnvUnchanged, CallsAreSound, TypeOK
<1>3. PlanIsCurrent'
  BY DEF GetCall, Call, NoTouch, EnvUnchanged, PlanIsCurrent, TypeOK
<1>4. MtimeIsLastUse'
  BY DEF GetCall, Call, NoTouch, EnvUnchanged, MtimeIsLastUse, TypeOK
<1> QED BY <1>1, <1>2, <1>3, <1>4

(* GetNothing keeps the invariant. *)
LEMMA GetNothingInv ==
  ASSUME Inv, NEW p \in Procs, GetNothing(p)
  PROVE  Inv'
<1> USE DEF Inv
<1>1. TypeOK'
  BY DEF GetNothing, Locked, Return, NoTouch, EnvUnchanged, TypeOK, Labels
<1>2. CallsAreSound'
  BY NullsApart, NoFileApart DEF GetNothing, Locked, Return, NoTouch, EnvUnchanged, CallsAreSound, TypeOK
<1>3. PlanIsCurrent'
  BY FreeMeansNoEvict DEF GetNothing, Locked, Return, NoTouch, EnvUnchanged, PlanIsCurrent, TypeOK
<1>4. MtimeIsLastUse'
  BY DEF GetNothing, Locked, Return, NoTouch, EnvUnchanged, MtimeIsLastUse, TypeOK
<1> QED BY <1>1, <1>2, <1>3, <1>4

(* GetReadFail keeps the invariant. *)
LEMMA GetReadFailInv ==
  ASSUME Inv, NEW p \in Procs, GetReadFail(p)
  PROVE  Inv'
<1> USE DEF Inv
<1>0. key[p] \in Keys
  BY CallHasKey DEF Locked, GetReadFail
<1>5. dir' \in Dir /\ accessed' \in [Keys -> Time] /\ MtimeIsLastUse'
  BY <1>0, TouchFacts DEF GetReadFail
<1>1. TypeOK'
  BY <1>5 DEF GetReadFail, Locked, Return, EnvUnchanged, TypeOK, Labels
<1>2. CallsAreSound'
  BY NullsApart, NoFileApart DEF GetReadFail, Locked, Return, Touch, EnvUnchanged, CallsAreSound, TypeOK
<1>3. PlanIsCurrent'
  BY FreeMeansNoEvict DEF GetReadFail, Locked, Return, Touch, EnvUnchanged, PlanIsCurrent, TypeOK
<1>4. MtimeIsLastUse'
  BY <1>5
<1> QED BY <1>1, <1>2, <1>3, <1>4

(* GetHit keeps the invariant. *)
LEMMA GetHitInv ==
  ASSUME Inv, NEW p \in Procs, GetHit(p)
  PROVE  Inv'
<1> USE DEF Inv
<1>0. key[p] \in Keys
  BY CallHasKey DEF Locked, GetHit
<1>5. dir' \in Dir /\ accessed' \in [Keys -> Time] /\ MtimeIsLastUse'
  BY <1>0, TouchFacts DEF GetHit
<1>6. Held(dir[key[p]]) \in Objects \cup {Broken}
  <2>1. dir[key[p]] \in File
    BY <1>0 DEF GetHit, TypeOK, Dir
  <2> QED BY <2>1 DEF GetHit, File, Held
<1>1. TypeOK'
  BY <1>5, <1>6 DEF GetHit, Locked, Goto, EnvUnchanged, TypeOK, Labels
<1>2. CallsAreSound'
  BY <1>0, <1>6, NullsApart DEF GetHit, Locked, Goto, EnvUnchanged, CallsAreSound, TypeOK
<1>3. PlanIsCurrent'
  BY FreeMeansNoEvict DEF GetHit, Locked, Goto, Touch, EnvUnchanged, PlanIsCurrent, TypeOK
<1>4. MtimeIsLastUse'
  BY <1>5
<1> QED BY <1>1, <1>2, <1>3, <1>4

(* Close keeps the invariant. *)
LEMMA CloseInv ==
  ASSUME Inv, NEW p \in Procs, Close(p)
  PROVE  Inv'
<1> USE DEF Inv
<1>1. TypeOK'
  BY DEF Close, Return, NoTouch, EnvUnchanged, TypeOK, Labels
<1>2. CallsAreSound'
  BY NullsApart, NoFileApart DEF Close, Return, NoTouch, EnvUnchanged, CallsAreSound, TypeOK
<1>3. PlanIsCurrent'
  BY DEF Close, Return, NoTouch, EnvUnchanged, PlanIsCurrent, TypeOK
<1>4. MtimeIsLastUse'
  BY DEF Close, Return, NoTouch, EnvUnchanged, MtimeIsLastUse, TypeOK
<1> QED BY <1>1, <1>2, <1>3, <1>4

(* ReadEOF keeps the invariant. *)
LEMMA ReadEOFInv ==
  ASSUME Inv, NEW p \in Procs, ReadEOF(p)
  PROVE  Inv'
<1> USE DEF Inv
<1>1. TypeOK'
  BY DEF ReadEOF, Goto, NoTouch, EnvUnchanged, TypeOK, Labels
<1>2. CallsAreSound'
  BY NullsApart, NoFileApart DEF ReadEOF, Goto, NoTouch, EnvUnchanged, CallsAreSound, TypeOK
<1>3. PlanIsCurrent'
  BY DEF ReadEOF, Goto, NoTouch, EnvUnchanged, PlanIsCurrent, TypeOK
<1>4. MtimeIsLastUse'
  BY DEF ReadEOF, Goto, NoTouch, EnvUnchanged, MtimeIsLastUse, TypeOK
<1> QED BY <1>1, <1>2, <1>3, <1>4

(* DeleteCall keeps the invariant. *)
LEMMA DeleteCallInv ==
  ASSUME Inv, NEW p \in Procs, NEW k \in Keys, DeleteCall(p, k)
  PROVE  Inv'
<1> USE DEF Inv
<1>1. TypeOK'
  BY DEF DeleteCall, Call, NoTouch, EnvUnchanged, TypeOK, Labels
<1>2. CallsAreSound'
  BY NullsApart, NoFileApart DEF DeleteCall, Call, NoTouch, EnvUnchanged, CallsAreSound, TypeOK
<1>3. PlanIsCurrent'
  BY DEF DeleteCall, Call, NoTouch, EnvUnchanged, PlanIsCurrent, TypeOK
<1>4. MtimeIsLastUse'
  BY DEF DeleteCall, Call, NoTouch, EnvUnchanged, MtimeIsLastUse, TypeOK
<1> QED BY <1>1, <1>2, <1>3, <1>4

(* DeleteDo keeps the invariant. *)
LEMMA DeleteDoInv ==
  ASSUME Inv, NEW p \in Procs, DeleteDo(p)
  PROVE  Inv'
<1> USE DEF Inv
<1>0. key[p] \in Keys
  BY CallHasKey DEF Locked, DeleteDo
<1>5. dir' \in Dir /\ accessed' \in [Keys -> Time] /\ MtimeIsLastUse'
  BY <1>0, UnlinkFacts DEF DeleteDo
<1>1. TypeOK'
  BY <1>5 DEF DeleteDo, Locked, Return, EnvUnchanged, TypeOK, Labels
<1>2. CallsAreSound'
  BY NullsApart, NoFileApart DEF DeleteDo, Locked, Return, Unlink, EnvUnchanged, CallsAreSound, TypeOK
<1>3. PlanIsCurrent'
  BY FreeMeansNoEvict DEF DeleteDo, Locked, Return, Unlink, EnvUnchanged, PlanIsCurrent, TypeOK
<1>4. MtimeIsLastUse'
  BY <1>5
<1> QED BY <1>1, <1>2, <1>3, <1>4

(* DeleteFail keeps the invariant. *)
LEMMA DeleteFailInv ==
  ASSUME Inv, NEW p \in Procs, DeleteFail(p)
  PROVE  Inv'
<1> USE DEF Inv
<1>1. TypeOK'
  BY DEF DeleteFail, Locked, Return, NoTouch, EnvUnchanged, TypeOK, Labels
<1>2. CallsAreSound'
  BY NullsApart, NoFileApart DEF DeleteFail, Locked, Return, NoTouch, EnvUnchanged, CallsAreSound, TypeOK
<1>3. PlanIsCurrent'
  BY FreeMeansNoEvict DEF DeleteFail, Locked, Return, NoTouch, EnvUnchanged, PlanIsCurrent, TypeOK
<1>4. MtimeIsLastUse'
  BY DEF DeleteFail, Locked, Return, NoTouch, EnvUnchanged, MtimeIsLastUse, TypeOK
<1> QED BY <1>1, <1>2, <1>3, <1>4

(* PutCall keeps the invariant. *)
LEMMA PutCallInv ==
  ASSUME Inv, NEW p \in Procs, NEW k \in Keys, NEW o \in Objects, PutCall(p, k, o)
  PROVE  Inv'
<1> USE DEF Inv
<1> DEFINE f == [obj |-> o, size |-> 0, content |-> "unreadable", mtime |-> now]
<1>5. f \in File /\ f # NoFile
  BY TmpType DEF TypeOK, Contents
<1>6. tmp' = [tmp EXCEPT ![p] = f]
  BY DEF PutCall
<1> HIDE DEF f
<1>1. TypeOK'
  BY <1>5, <1>6 DEF PutCall, Call, NoTouch, EnvUnchanged, TypeOK, Labels
<1>2. CallsAreSound'
  BY <1>5, <1>6, NullsApart DEF PutCall, Call, NoTouch, EnvUnchanged, CallsAreSound, TypeOK
<1>3. PlanIsCurrent'
  BY DEF PutCall, Call, NoTouch, EnvUnchanged, PlanIsCurrent, TypeOK
<1>4. MtimeIsLastUse'
  BY DEF PutCall, Call, NoTouch, EnvUnchanged, MtimeIsLastUse, TypeOK
<1> QED BY <1>1, <1>2, <1>3, <1>4

(* PutCopied keeps the invariant. *)
LEMMA PutCopiedInv ==
  ASSUME Inv, NEW p \in Procs, PutCopied(p)
  PROVE  Inv'
<1> USE DEF Inv
<1> DEFINE o == tmp[p].obj
           f == [obj |-> o, size |-> Size[o], content |-> "whole", mtime |-> now]
<1>0. o \in Objects /\ Size[o] \in Nat
  <2>1. tmp[p] \in File
    BY DEF PutCopied, TypeOK, CallsAreSound
  <2> QED BY <2>1, SizeType DEF File
<1>5. f \in File /\ f # NoFile /\ f.content = "whole"
  BY <1>0, TmpType DEF TypeOK, Contents
<1>6. tmp' = [tmp EXCEPT ![p] = f]
  BY DEF PutCopied, TypeOK
<1> HIDE DEF f
<1>1. TypeOK'
  BY <1>5, <1>6 DEF PutCopied, Goto, NoTouch, EnvUnchanged, TypeOK, Labels
<1>2. CallsAreSound'
  BY <1>5, <1>6, NullsApart DEF PutCopied, Goto, NoTouch, EnvUnchanged, CallsAreSound, TypeOK
<1>3. PlanIsCurrent'
  BY DEF PutCopied, Goto, NoTouch, EnvUnchanged, PlanIsCurrent, TypeOK
<1>4. MtimeIsLastUse'
  BY DEF PutCopied, Goto, NoTouch, EnvUnchanged, MtimeIsLastUse, TypeOK
<1> QED BY <1>1, <1>2, <1>3, <1>4

(* PutAbort keeps the invariant. *)
LEMMA PutAbortInv ==
  ASSUME Inv, NEW p \in Procs, PutAbort(p)
  PROVE  Inv'
<1> USE DEF Inv
<1>1. TypeOK'
  BY DEF PutAbort, Goto, NoTouch, EnvUnchanged, TypeOK, Labels
<1>2. CallsAreSound'
  BY NullsApart, NoFileApart DEF PutAbort, Goto, NoTouch, EnvUnchanged, CallsAreSound, TypeOK
<1>3. PlanIsCurrent'
  BY DEF PutAbort, Goto, NoTouch, EnvUnchanged, PlanIsCurrent, TypeOK
<1>4. MtimeIsLastUse'
  BY DEF PutAbort, Goto, NoTouch, EnvUnchanged, MtimeIsLastUse, TypeOK
<1> QED BY <1>1, <1>2, <1>3, <1>4

(* AcceptBegin keeps the invariant. *)
LEMMA AcceptBeginInv ==
  ASSUME Inv, NEW p \in Procs, AcceptBegin(p)
  PROVE  Inv'
<1> USE DEF Inv
<1>0. UsedBytes(dir) \in Nat
  BY UsedType DEF TypeOK
<1>5. \A q \in Procs : pc[q] # "evict"
  BY FreeMeansNoEvict DEF AcceptBegin, Locked
<1>6. tmp[p].content = "whole"
  BY DEF CallsAreSound, AcceptBegin, Locked
<1>1. TypeOK'
  BY <1>0 DEF AcceptBegin, Locked, Goto, NoTouch, EnvUnchanged, TypeOK, Labels
<1>2. CallsAreSound'
  BY NullsApart, NoFileApart DEF AcceptBegin, Locked, Goto, NoTouch, EnvUnchanged, CallsAreSound, TypeOK
<1>3. PlanIsCurrent'
  <2> SUFFICES ASSUME NEW q \in Procs, pc'[q] = "evict"
               PROVE  /\ mtx' = q /\ entries'[q] = dir' /\ used'[q] = UsedBytes(dir')
                      /\ tmp'[q].content = "whole" /\ tmp'[q].size <= limitBytes'
    BY DEF PlanIsCurrent
  <2>1. q = p
    BY <1>5 DEF AcceptBegin, Goto, TypeOK
  <2>2. dir' = dir /\ tmp' = tmp /\ limitBytes' = limitBytes
    BY DEF AcceptBegin, NoTouch, EnvUnchanged
  <2>3. mtx' = p /\ entries'[p] = dir /\ used'[p] = UsedBytes(dir)
    BY DEF AcceptBegin, TypeOK
  <2>4. tmp[p].size <= limitBytes
    BY DEF AcceptBegin
  <2> QED BY <1>6, <2>1, <2>2, <2>3, <2>4
<1>4. MtimeIsLastUse'
  BY DEF AcceptBegin, Locked, Goto, NoTouch, EnvUnchanged, MtimeIsLastUse, TypeOK
<1> QED BY <1>1, <1>2, <1>3, <1>4

(* AcceptFail keeps the invariant. *)
LEMMA AcceptFailInv ==
  ASSUME Inv, NEW p \in Procs, AcceptFail(p)
  PROVE  Inv'
<1> USE DEF Inv
<1>1. TypeOK'
  BY DEF AcceptFail, Locked, Goto, NoTouch, EnvUnchanged, TypeOK, Labels
<1>2. CallsAreSound'
  BY NullsApart, NoFileApart DEF AcceptFail, Locked, Goto, NoTouch, EnvUnchanged, CallsAreSound, TypeOK
<1>3. PlanIsCurrent'
  BY FreeMeansNoEvict DEF AcceptFail, Locked, Goto, NoTouch, EnvUnchanged, PlanIsCurrent, TypeOK
<1>4. MtimeIsLastUse'
  BY DEF AcceptFail, Locked, Goto, NoTouch, EnvUnchanged, MtimeIsLastUse, TypeOK
<1> QED BY <1>1, <1>2, <1>3, <1>4

(* EvictRemove keeps the invariant. *)
LEMMA EvictRemoveInv ==
  ASSUME Inv, NEW p \in Procs, NEW k \in Keys, EvictRemove(p, k)
  PROVE  Inv'
<1> USE DEF Inv
<1>0. /\ mtx = p /\ entries[p] = dir /\ used[p] = UsedBytes(dir)
      /\ tmp[p].content = "whole" /\ tmp[p].size <= limitBytes
  BY DEF EvictRemove, PlanIsCurrent
<1>5. /\ dir' \in Dir /\ accessed' \in [Keys -> Time] /\ MtimeIsLastUse'
      /\ UsedBytes(dir') = UsedBytes(dir) - FileSize(dir[k])
      /\ UsedBytes(dir') \in Nat
  BY UnlinkFacts DEF EvictRemove
<1>6. entries'[p] = dir' /\ used'[p] = UsedBytes(dir')
  BY <1>0, <1>5 DEF EvictRemove, Unlink, TypeOK, Dir
<1>7. \A q \in Procs : q # p => entries'[q] = entries[q] /\ used'[q] = used[q]
  BY DEF EvictRemove, TypeOK
<1>8. entries' \in [Procs -> Dir] /\ used' \in [Procs -> Nat]
  <2>1. DOMAIN entries' = Procs /\ DOMAIN used' = Procs
    BY DEF EvictRemove, TypeOK
  <2>2. \A q \in Procs : entries'[q] \in Dir /\ used'[q] \in Nat
    BY <1>5, <1>6, <1>7 DEF TypeOK
  <2>3. entries' = [q \in Procs |-> entries'[q]] /\ used' = [q \in Procs |-> used'[q]]
    BY <2>1 DEF EvictRemove, TypeOK
  <2> QED BY <2>2, <2>3
<1>1. TypeOK'
  BY <1>5, <1>8 DEF EvictRemove, EnvUnchanged, TypeOK
<1>2. CallsAreSound'
  BY NullsApart, NoFileApart DEF EvictRemove, Unlink, EnvUnchanged, CallsAreSound, TypeOK
<1>3. PlanIsCurrent'
  BY <1>0, <1>6, NullsApart DEF EvictRemove, EnvUnchanged, PlanIsCurrent
<1>4. MtimeIsLastUse'
  BY <1>5
<1> QED BY <1>1, <1>2, <1>3, <1>4

(* Rename keeps the invariant. *)
LEMMA RenameInv ==
  ASSUME Inv, NEW p \in Procs, Rename(p)
  PROVE  Inv'
<1> USE DEF Inv
<1>0. key[p] \in Keys /\ tmp[p] \in File
  BY CallHasKey DEF Rename, TypeOK, CallsAreSound
<1>5. dir' \in Dir /\ accessed' \in [Keys -> Time]
  BY <1>0 DEF Rename, TypeOK, Dir, File
<1>1. TypeOK'
  BY <1>5, UsedEmpty DEF Rename, Unlock, Return, EnvUnchanged, TypeOK, Labels
<1>2. CallsAreSound'
  BY NullsApart, NoFileApart DEF Rename, Unlock, Return, EnvUnchanged, CallsAreSound, TypeOK
<1>3. PlanIsCurrent'
  BY DEF Rename, Unlock, Return, EnvUnchanged, PlanIsCurrent, TypeOK
<1>4. MtimeIsLastUse'
  BY <1>0 DEF Rename, MtimeIsLastUse, TypeOK, Dir
<1> QED BY <1>1, <1>2, <1>3, <1>4

(* EvictFail keeps the invariant. *)
LEMMA EvictFailInv ==
  ASSUME Inv, NEW p \in Procs, EvictFail(p)
  PROVE  Inv'
<1> USE DEF Inv
<1>1. TypeOK'
  BY UsedEmpty DEF EvictFail, Unlock, Goto, NoTouch, EnvUnchanged, TypeOK, Labels
<1>2. CallsAreSound'
  BY NullsApart, NoFileApart DEF EvictFail, Unlock, Goto, NoTouch, EnvUnchanged, CallsAreSound, TypeOK
<1>3. PlanIsCurrent'
  BY DEF EvictFail, Unlock, Goto, NoTouch, EnvUnchanged, PlanIsCurrent, TypeOK
<1>4. MtimeIsLastUse'
  BY DEF EvictFail, Unlock, Goto, NoTouch, EnvUnchanged, MtimeIsLastUse, TypeOK
<1> QED BY <1>1, <1>2, <1>3, <1>4

(* Cleanup keeps the invariant. *)
LEMMA CleanupInv ==
  ASSUME Inv, NEW p \in Procs, Cleanup(p)
  PROVE  Inv'
<1> USE DEF Inv
<1>1. TypeOK'
  BY DEF Cleanup, Return, NoTouch, EnvUnchanged, TypeOK, Labels
<1>2. CallsAreSound'
  BY NullsApart, NoFileApart DEF Cleanup, Return, NoTouch, EnvUnchanged, CallsAreSound, TypeOK
<1>3. PlanIsCurrent'
  BY DEF Cleanup, Return, NoTouch, EnvUnchanged, PlanIsCurrent, TypeOK
<1>4. MtimeIsLastUse'
  BY DEF Cleanup, Return, NoTouch, EnvUnchanged, MtimeIsLastUse, TypeOK
<1> QED BY <1>1, <1>2, <1>3, <1>4

(* What remains of a file is no larger and has its times; unless it is the *)
(* file itself it is torn.                                                 *)
LEMMA RemainsFacts ==
  ASSUME NEW f \in File, NEW g \in Remains(f)
  PROVE  /\ g \in File
         /\ g.mtime = f.mtime
         /\ g.size <= f.size
         /\ Held(g) \in {Held(f), Broken}
<1>1. f # NoFile
  BY NoFileApart
<1>2. f.size \in Nat /\ 0 <= f.size /\ f.size <= f.size
  BY DEF File
<1>3. CASE g = f
  BY <1>2, <1>3
<1>4. ASSUME NEW c \in {"unreadable", "blob torn"}, g = [f EXCEPT !.content = c]
      PROVE  /\ g \in File /\ g.mtime = f.mtime /\ g.size <= f.size
             /\ g.content # "whole"
  BY <1>2, <1>4 DEF File, Contents
<1>5. ASSUME g = [f EXCEPT !.content = "unreadable", !.size = 0]
      PROVE  /\ g \in File /\ g.mtime = f.mtime /\ g.size <= f.size
             /\ g.content # "whole"
  BY <1>2, <1>5 DEF File, Contents
<1>6. g \in File /\ g.content # "whole" => Held(g) = Broken
  BY NoFileApart DEF Held
<1> QED BY <1>1, <1>3, <1>4, <1>5, <1>6 DEF Remains

(* A power loss leaves a directory, no larger, with the same times. *)
LEMMA RestartFacts ==
  ASSUME Inv, NEW left \in AfterLoss(dir), NEW limit \in Limits, Restart(left, limit)
  PROVE  /\ dir' \in Dir
         /\ \A k \in Keys : FileSize(dir'[k]) <= FileSize(dir[k])
         /\ MtimeIsLastUse'
         /\ \A k \in Keys : Held(dir'[k]) \in {Held(dir[k]), Broken}
         /\ \A k \in Keys : dir'[k] = NoFile <=> dir[k] = NoFile
<1>1. dir \in Dir /\ MtimeIsLastUse
  BY DEF Inv, TypeOK
<1>2. dir' = [k \in Keys |-> dir'[k]] /\ \A k \in Keys : dir'[k] \in Remains(dir[k])
  BY DEF Restart, AfterLoss
<1>3. ASSUME NEW k \in Keys, dir[k] = NoFile PROVE dir'[k] = NoFile
  BY <1>2, <1>3 DEF Remains
<1>4. ASSUME NEW k \in Keys, dir[k] # NoFile
      PROVE  /\ dir[k] \in File /\ dir'[k] \in File
             /\ dir'[k].mtime = dir[k].mtime
             /\ dir'[k].size <= dir[k].size
             /\ Held(dir'[k]) \in {Held(dir[k]), Broken}
  <2>1. dir[k] \in File
    BY <1>1, <1>4 DEF Dir
  <2> QED BY <1>2, <2>1, RemainsFacts
<1>5. dir' \in Dir
  <2>1. \A k \in Keys : dir'[k] \in File \cup {NoFile}
    BY <1>3, <1>4
  <2> QED BY <1>2, <2>1 DEF Dir
<1>6. ASSUME NEW k \in Keys PROVE FileSize(dir'[k]) <= FileSize(dir[k])
  <2>1. CASE dir[k] = NoFile
    BY <1>3, <2>1 DEF FileSize
  <2>2. CASE dir[k] # NoFile
    BY <1>4, <2>2, NoFileApart DEF FileSize
  <2> QED BY <2>1, <2>2
<1>7. MtimeIsLastUse'
  BY <1>1, <1>3, <1>4 DEF MtimeIsLastUse, Restart
<1>8. ASSUME NEW k \in Keys PROVE /\ Held(dir'[k]) \in {Held(dir[k]), Broken}
                                  /\ dir'[k] = NoFile <=> dir[k] = NoFile
  BY <1>3, <1>4, NoFileApart
<1> QED BY <1>5, <1>6, <1>7, <1>8

(* Restart keeps the invariant. *)
LEMMA RestartInv ==
  ASSUME Inv, NEW left \in AfterLoss(dir), NEW limit \in Limits, Restart(left, limit)
  PROVE  Inv'
<1> USE DEF Inv
<1>1. TypeOK'
  <2>1. dir' \in Dir
    BY RestartFacts
  <2>2. crashes' \in 0 .. MaxCrashes
    <3>1. crashes' = crashes + 1 /\ crashes < MaxCrashes
      BY DEF Restart
    <3>2. crashes \in 0 .. MaxCrashes
      BY DEF TypeOK
    <3> QED BY <3>1, <3>2, BoundsType
  <2>3. used' \in [Procs -> Nat] /\ entries' \in [Procs -> Dir]
    BY UsedEmpty DEF Restart
  <2>4. pc' \in [Procs -> Labels] /\ key' \in [Procs -> Keys \cup {NoKey}]
    BY DEF Restart, Labels
  <2> QED BY <2>1, <2>2, <2>3, <2>4 DEF Restart, TypeOK
<1>2. CallsAreSound'
  BY DEF Restart, CallsAreSound
<1>3. PlanIsCurrent'
  BY DEF Restart, PlanIsCurrent
<1>4. MtimeIsLastUse'
  BY RestartFacts
<1> QED BY <1>1, <1>2, <1>3, <1>4

(* The clock and stuttering steps keep the invariant. *)
LEMMA TickInv ==
  ASSUME Inv, Tick \/ UNCHANGED vars
  PROVE  Inv'
<1> USE DEF Inv
<1>1. /\ dir' = dir /\ limitBytes' = limitBytes /\ mtx' = mtx
      /\ accessed' = accessed /\ crashes' = crashes /\ pc' = pc /\ key' = key
      /\ tmp' = tmp /\ entries' = entries /\ used' = used /\ reader' = reader
  BY DEF Tick, NoTouch, vars, procVars
<1>2. now' \in Time
  BY BoundsType DEF Tick, vars, TypeOK, Time
<1>3. TypeOK'
  BY <1>1, <1>2 DEF TypeOK
<1>4. CallsAreSound' /\ PlanIsCurrent' /\ MtimeIsLastUse'
  BY <1>1 DEF CallsAreSound, PlanIsCurrent, MtimeIsLastUse
<1> QED BY <1>3, <1>4

(* Every step keeps the invariant. *)
LEMMA InvNext == Inv /\ [Next]_vars => Inv'
<1> SUFFICES ASSUME Inv, [Next]_vars PROVE Inv'
  OBVIOUS
<1>1. ASSUME NEW p \in Procs, CallStep(p) PROVE Inv'
  BY <1>1, GetCallInv, DeleteCallInv, PutCallInv DEF CallStep
<1>2. ASSUME NEW p \in Procs, LockStep(p) PROVE Inv'
  BY <1>2, GetNothingInv, GetReadFailInv, GetHitInv, DeleteDoInv, DeleteFailInv,
     AcceptBeginInv, AcceptFailInv DEF LockStep
<1>3. ASSUME NEW p \in Procs, OwnStep(p) PROVE Inv'
  BY <1>3, EvictRemoveInv, RenameInv, EvictFailInv, CleanupInv DEF OwnStep
<1>4. ASSUME NEW p \in Procs, CopyStep(p) \/ ReadEOF(p) \/ Close(p) PROVE Inv'
  BY <1>4, PutCopiedInv, PutAbortInv, ReadEOFInv, CloseInv DEF CopyStep
<1>5. ASSUME NEW left \in AfterLoss(dir), NEW limit \in Limits, Restart(left, limit)
      PROVE  Inv'
  BY <1>5, RestartInv
<1>6. CASE Tick \/ UNCHANGED vars
  BY <1>6, TickInv
<1> QED BY <1>1, <1>2, <1>3, <1>4, <1>5, <1>6 DEF Next

(* The invariant holds in every reachable state. *)
THEOREM Invariance == Spec => []Inv
<1>1. Init => Inv
  BY InvInit
<1>2. Inv /\ [Next]_vars => Inv'
  BY InvNext
<1> QED BY <1>1, <1>2, PTL DEF Spec

(* The state is always well typed; in particular evict()'s usedBytes never *)
(* goes below zero.                                                        *)
THEOREM TypeCorrect == Spec => []TypeOK
<1>1. Inv => TypeOK
  BY DEF Inv
<1> QED BY <1>1, Invariance, PTL

(* An evicting Put works on the truth: what evict() listed and added up is *)
(* the directory, whatever other goroutines do.                            *)
THEOREM PlanStaysCurrent == Spec => []PlanIsCurrent
<1>1. Inv => PlanIsCurrent
  BY DEF Inv
<1> QED BY <1>1, Invariance, PTL
-----------------------------------------------------------------------------
(* Only a rename can make the cache larger. *)
LEMMA RenameFits ==
  ASSUME Inv, NEW p \in Procs, Rename(p)
  PROVE  UsedBytes(dir') <= limitBytes
<1>1. /\ key[p] \in Keys /\ tmp[p] \in File /\ tmp[p] # NoFile
      /\ dir \in Dir /\ limitBytes \in Nat
  BY CallHasKey, LimitsType DEF Inv, Rename, TypeOK, CallsAreSound
<1>2. entries[p] = dir /\ used[p] = UsedBytes(dir) /\ tmp[p].size <= limitBytes
  BY DEF Inv, PlanIsCurrent, Rename
<1>3. tmp[p].size \in Nat /\ FileSize(tmp[p]) = tmp[p].size
  BY <1>1 DEF File, FileSize
<1>4. UsedBytes(dir) \in Nat /\ FileSize(dir[key[p]]) \in Nat
  BY <1>1, UsedType DEF Dir, File, FileSize
<1>5. /\ FileSize(dir[key[p]]) <= UsedBytes(dir)
      /\ UsedBytes(dir') = (UsedBytes(dir) - FileSize(dir[key[p]])) + tmp[p].size
  <2>1. dir' = [dir EXCEPT ![key[p]] = tmp[p]]
    BY DEF Rename
  <2>2. /\ FileSize(dir[key[p]]) <= UsedBytes(dir)
        /\ UsedBytes([dir EXCEPT ![key[p]] = tmp[p]])
             = (UsedBytes(dir) - FileSize(dir[key[p]])) + FileSize(tmp[p])
    BY <1>1, UsedUpdate
  <2> QED BY <1>3, <2>1, <2>2
<1>6. CASE Fits(p)
  BY <1>1, <1>2, <1>3, <1>4, <1>5, <1>6 DEF Fits
<1>7. CASE entries[p] = Empty
  <2>1. UsedBytes(dir) = 0
    BY <1>2, <1>7, UsedEmpty
  <2> QED BY <1>1, <1>2, <1>3, <1>4, <1>5, <2>1
<1> QED BY <1>6, <1>7 DEF Rename

(* What a step may do to the directory. *)
LEMMA DirStep ==
  ASSUME Inv, [Next]_vars
  PROVE  \/ dir' = dir
         \/ \E k \in Keys : dir[k] # NoFile /\ Touch(k)
         \/ \E p \in Procs : DeleteDo(p) \/ \E k \in Keys : EvictRemove(p, k)
         \/ \E p \in Procs : Rename(p)
         \/ \E left \in AfterLoss(dir), limit \in Limits : Restart(left, limit)
<1>1. ASSUME NEW p \in Procs, CallStep(p) \/ CopyStep(p) \/ ReadEOF(p) \/ Close(p)
      PROVE  dir' = dir
  BY <1>1 DEF CallStep, CopyStep, GetCall, DeleteCall, PutCall, PutCopied, PutAbort,
              ReadEOF, Close, NoTouch
<1>2. ASSUME NEW p \in Procs, GetReadFail(p) \/ GetHit(p)
      PROVE  \E k \in Keys : dir[k] # NoFile /\ Touch(k)
  BY <1>2, CallHasKey DEF GetReadFail, GetHit, Locked
<1>3. ASSUME NEW p \in Procs,
             GetNothing(p) \/ DeleteFail(p) \/ AcceptBegin(p) \/ AcceptFail(p)
               \/ EvictFail(p) \/ Cleanup(p)
      PROVE  dir' = dir
  BY <1>3 DEF GetNothing, DeleteFail, AcceptBegin, AcceptFail, EvictFail, Cleanup, NoTouch
<1>4. Tick \/ UNCHANGED vars => dir' = dir
  BY DEF Tick, NoTouch, vars
<1> QED BY <1>1, <1>2, <1>3, <1>4 DEF Next, LockStep, OwnStep

(* A step that makes the cache larger leaves it within the limit. *)
LEMMA GrowStep ==
  ASSUME Inv, [Next]_vars
  PROVE  UsedBytes(dir') > UsedBytes(dir) => UsedBytes(dir') <= limitBytes
<1>0. dir \in Dir /\ UsedBytes(dir) \in Nat
  BY UsedType DEF Inv, TypeOK
<1>1. CASE dir' = dir
  BY <1>0, <1>1
<1>2. ASSUME NEW k \in Keys, dir[k] # NoFile, Touch(k)
      PROVE  ~(UsedBytes(dir') > UsedBytes(dir))
  BY <1>0, <1>2, TouchFacts
<1>3. ASSUME NEW k \in Keys, Unlink(k) PROVE ~(UsedBytes(dir') > UsedBytes(dir))
  <2>1. UsedBytes(dir') \in Nat /\ UsedBytes(dir') <= UsedBytes(dir)
    BY <1>3, UnlinkFacts
  <2> QED BY <1>0, <2>1
<1>4. ASSUME NEW p \in Procs, DeleteDo(p) \/ \E k \in Keys : EvictRemove(p, k)
      PROVE  \E k \in Keys : Unlink(k)
  BY <1>4, CallHasKey DEF DeleteDo, Locked, EvictRemove
<1>5. ASSUME NEW p \in Procs, Rename(p) PROVE UsedBytes(dir') <= limitBytes
  BY <1>5, RenameFits
<1>6. ASSUME NEW left \in AfterLoss(dir), NEW limit \in Limits, Restart(left, limit)
      PROVE  ~(UsedBytes(dir') > UsedBytes(dir))
  <2>1. dir' \in Dir /\ \A k \in Keys : FileSize(dir'[k]) <= FileSize(dir[k])
    BY <1>6, RestartFacts
  <2>2. UsedBytes(dir') \in Nat /\ UsedBytes(dir') <= UsedBytes(dir)
    BY <1>0, <2>1, UsedTorn, UsedType
  <2> QED BY <1>0, <2>2
<1> QED BY <1>1, <1>2, <1>3, <1>4, <1>5, <1>6, DirStep

(* The cache grows only within its limit. *)
THEOREM GrowthIsLimited == Spec => GrowsOnlyWithinLimit
<1>1. Inv /\ [Next]_vars
        => [UsedBytes(dir') > UsedBytes(dir) => UsedBytes(dir') <= limitBytes]_vars
  BY GrowStep
<1> QED BY <1>1, Invariance, PTL DEF Spec, GrowsOnlyWithinLimit

(* accept() evicts the least recently used entry, and only when it must. *)
THEOREM EvictionIsLRU == Spec => EvictsLeastRecentWhenFull
<1> DEFINE Evicts(p, k) == /\ pc[p] = "evict" /\ pc'[p] = "evict"
                           /\ dir[k] # NoFile /\ dir'[k] = NoFile
           Justified(p, k) == /\ UsedBytes(dir) + tmp[p].size > limitBytes
                              /\ \A j \in Present(dir) : accessed[k] <= accessed[j]
<1>1. ASSUME Inv, [Next]_vars, NEW p \in Procs, NEW k \in Keys, Evicts(p, k)
      PROVE  Justified(p, k)
  <2>0. /\ entries[p] = dir /\ used[p] = UsedBytes(dir) /\ mtx = p /\ MtimeIsLastUse
        /\ tmp[p] \in File /\ UsedBytes(dir) \in Nat /\ limitBytes \in Nat
    BY <1>1, UsedType, LimitsType DEF Inv, PlanIsCurrent, TypeOK, CallsAreSound
  <2>1. ASSUME NEW j \in Keys, EvictRemove(p, j) PROVE Justified(p, k)
    <3>1. k = j
      BY <1>1, <2>1 DEF EvictRemove, Unlink, Inv, TypeOK, Dir
    <3>2. UsedBytes(dir) + tmp[p].size > limitBytes
      BY <2>0, <2>1 DEF EvictRemove, Fits, File
    <3>3. \A i \in Present(dir) : dir[k].mtime <= dir[i].mtime
      BY <2>0, <2>1, <3>1 DEF EvictRemove, Oldest, Present
    <3>4. \A i \in Present(dir) : accessed[k] <= accessed[i]
      BY <1>1, <2>0, <3>3 DEF MtimeIsLastUse, Present
    <3> QED BY <3>2, <3>4
  <2>2. ~ \E j \in Keys : dir[j] # NoFile /\ Touch(j)
    <3> SUFFICES ASSUME NEW j \in Keys, dir[j] # NoFile, Touch(j) PROVE FALSE
      OBVIOUS
    <3>1. dir \in Dir /\ now \in Time
      BY <1>1 DEF Inv, TypeOK
    <3>2. dir[j] \in File /\ dir'[j] = [dir[j] EXCEPT !.mtime = now]
      BY <3>1 DEF Touch, Dir
    <3>3. dir'[j] \in File
      BY <3>1, <3>2 DEF File
    <3>4. j # k
      BY <1>1, <3>3, NoFileApart
    <3>5. dir'[k] = dir[k]
      BY <3>1, <3>4 DEF Touch, Dir
    <3> QED BY <1>1, <3>5
  <2>3. ~ \E q \in Procs : DeleteDo(q)
    BY <2>0, NullsApart DEF DeleteDo, Locked
  <2>4. \A q \in Procs : Rename(q) \/ (\E j \in Keys : EvictRemove(q, j)) => q = p
    BY <1>1, <2>0 DEF Rename, EvictRemove, Inv, PlanIsCurrent
  <2>5. ~ Rename(p)
    BY <1>1 DEF Rename, Return, Inv, TypeOK
  <2>6. ~ \E left \in AfterLoss(dir), limit \in Limits : Restart(left, limit)
    BY <1>1 DEF Restart
  <2>7. dir' # dir
    BY <1>1
  <2> HIDE DEF Evicts, Justified
  <2> QED BY <1>1, <2>1, <2>2, <2>3, <2>4, <2>5, <2>6, <2>7, DirStep
<1>2. Inv /\ [Next]_vars
        => [\A p \in Procs, k \in Keys : Evicts(p, k) => Justified(p, k)]_vars
  <2> HIDE DEF Evicts, Justified
  <2> QED BY <1>1
<1> QED BY <1>2, Invariance, PTL DEF Spec, EvictsLeastRecentWhenFull
-----------------------------------------------------------------------------
(* Two files that hold the same and are as complete look the same. *)
LEMMA TouchUnseen ==
  ASSUME Inv, NEW k \in Keys, dir[k] # NoFile, Touch(k)
  PROVE  AbsStore' = AbsStore
<1>1. dir \in Dir /\ dir[k] \in File /\ now \in Time
  BY DEF Inv, TypeOK, Dir
<1>2. dir'[k] = [dir[k] EXCEPT !.mtime = now]
  BY <1>1 DEF Touch, Dir
<1>3. dir'[k] \in File /\ dir'[k].obj = dir[k].obj /\ dir'[k].content = dir[k].content
  BY <1>1, <1>2 DEF File
<1>4. Held(dir'[k]) = Held(dir[k])
  BY <1>1, <1>3, NoFileApart DEF Held
<1>5. \A j \in Keys : j # k => dir'[j] = dir[j]
  BY <1>1 DEF Touch, Dir
<1>6. \A j \in Keys : Held(dir'[j]) = Held(dir[j])
  BY <1>4, <1>5
<1> QED BY <1>6 DEF AbsStore

(* Removing a file drops the entry. *)
LEMMA UnlinkDrops ==
  ASSUME Inv, NEW k \in Keys, Unlink(k)
  PROVE  AbsStore' = [AbsStore EXCEPT ![k] = NoFile]
<1>1. dir' = [dir EXCEPT ![k] = NoFile] /\ dir \in Dir
  BY DEF Unlink, Inv, TypeOK
<1>2. \A j \in Keys : Held(dir'[j]) = IF j = k THEN NoFile ELSE Held(dir[j])
  BY <1>1 DEF Dir, Held
<1> QED BY <1>2 DEF AbsStore

(* What is delivered stays so while nobody comes to an end or closes. *)
LEMMA DeliveredUnseen ==
  ASSUME NEW p \in Procs, reader' = reader, pc[p] # "eof", pc'[p] # "eof",
         \A q \in Procs : q # p => pc'[q] = pc[q]
  PROVE  AbsDelivered' = AbsDelivered
<1>1. \A q \in Procs : pc'[q] = "eof" <=> pc[q] = "eof"
  OBVIOUS
<1> QED BY <1>1 DEF AbsDelivered

(* The call's variables of p's abstract calls when p is in neither. *)
LEMMA IdleUnseen ==
  ASSUME Inv, NEW p \in Procs, tmp' = tmp, reader' = reader,
         tmp[p] = NoFile, reader[p] = NoFile, pc'[p] # "eof",
         \A q \in Procs : q # p => key'[q] = key[q] /\ pc'[q] = pc[q]
  PROVE  AbsPutting' = AbsPutting /\ AbsReader' = AbsReader /\ AbsDelivered' = AbsDelivered
<1>1. AbsPutting' = AbsPutting /\ AbsReader' = AbsReader
  BY DEF AbsPutting, AbsReader
<1>2. AbsDelivered' = AbsDelivered
  BY DeliveredUnseen DEF Inv, CallsAreSound
<1> QED BY <1>1, <1>2

(* Starting a Get or a Delete, and ending one without a reader, is not     *)
(* visible to Cache.                                                       *)
LEMMA QuietSteps ==
  ASSUME Inv, NEW p \in Procs,
         \/ \E k \in Keys : GetCall(p, k) \/ DeleteCall(p, k)
         \/ GetNothing(p) \/ GetReadFail(p) \/ DeleteFail(p)
  PROVE  UNCHANGED Abs!vars
<1>1. tmp' = tmp /\ reader' = reader /\ tmp[p] = NoFile /\ reader[p] = NoFile
  BY DEF Inv, CallsAreSound, GetCall, DeleteCall, GetNothing, GetReadFail, DeleteFail,
         Call, Locked
<1>2. pc'[p] # "eof" /\ \A q \in Procs : q # p => key'[q] = key[q] /\ pc'[q] = pc[q]
  BY DEF Inv, TypeOK, GetCall, DeleteCall, GetNothing, GetReadFail, DeleteFail,
         Call, Return
<1>3. AbsStore' = AbsStore
  <2>1. CASE GetReadFail(p)
    BY <2>1, CallHasKey, TouchUnseen DEF GetReadFail, Locked
  <2>2. CASE ~ GetReadFail(p)
    BY <2>2 DEF GetCall, DeleteCall, GetNothing, DeleteFail, NoTouch, AbsStore
  <2> QED BY <2>1, <2>2
<1> QED BY <1>1, <1>2, <1>3, IdleUnseen DEF Abs!vars

(* Neither is what a Put does between its start and its end, except that   *)
(* it evicts.                                                              *)
LEMMA QuietPutSteps ==
  ASSUME Inv, NEW p \in Procs,
         PutCopied(p) \/ PutAbort(p) \/ AcceptBegin(p) \/ AcceptFail(p) \/ EvictFail(p)
  PROVE  UNCHANGED Abs!vars
<1>1. dir' = dir /\ reader' = reader /\ key' = key
  BY DEF PutCopied, PutAbort, AcceptBegin, AcceptFail, EvictFail, NoTouch, Goto
<1>4. AbsDelivered' = AbsDelivered
  <2>1. /\ pc[p] # "eof" /\ pc'[p] # "eof"
        /\ \A q \in Procs : q # p => pc'[q] = pc[q]
    BY DEF PutCopied, PutAbort, AcceptBegin, AcceptFail, EvictFail, Locked, Goto,
           Inv, TypeOK
  <2> QED BY <1>1, <2>1, DeliveredUnseen
<1>2. CASE tmp' = tmp
  BY <1>1, <1>2, <1>4 DEF Abs!vars, AbsStore, AbsPutting, AbsReader
<1>3. CASE PutCopied(p)
  <2>1. tmp[p] # NoFile /\ tmp[p] \in File /\ tmp \in [Procs -> File \cup {NoFile}]
    BY <1>3 DEF PutCopied, Inv, TypeOK, CallsAreSound
  <2>2. tmp'[p].obj = tmp[p].obj /\ tmp'[p] # NoFile
    <3>1. tmp'[p] = [obj |-> tmp[p].obj, size |-> Size[tmp[p].obj],
                     content |-> "whole", mtime |-> now]
      BY <1>3, <2>1 DEF PutCopied
    <3>2. tmp[p].obj \in Objects /\ Size[tmp[p].obj] \in Nat /\ now \in Time
      BY <2>1, SizeType DEF File, Inv, TypeOK
    <3>3. tmp'[p] # NoFile
      BY <3>1, <3>2, TmpType DEF Contents
    <3> QED BY <3>1, <3>3
  <2>3. \A q \in Procs : q # p => tmp'[q] = tmp[q]
    BY <1>3, <2>1 DEF PutCopied
  <2>4. AbsPutting' = AbsPutting
    BY <1>1, <2>1, <2>2, <2>3 DEF AbsPutting
  <2> QED BY <1>1, <1>4, <2>4 DEF Abs!vars, AbsStore, AbsReader
<1> QED BY <1>2, <1>3 DEF PutAbort, AcceptBegin, AcceptFail, EvictFail

(* A Get that finds its entry opens it, torn or not. *)
LEMMA GetHitOpens ==
  ASSUME Inv, NEW p \in Procs, GetHit(p)
  PROVE  Abs!Open(p, key[p])
<1>1. /\ key[p] \in Keys /\ dir[key[p]] # NoFile
      /\ reader[p] = NoFile /\ tmp[p] = NoFile
  BY CallHasKey DEF GetHit, Locked, Inv, CallsAreSound
<1>2. dir[key[p]] \in File
  BY <1>1 DEF Inv, TypeOK, Dir
<1>3. AbsStore[key[p]] = Held(dir[key[p]]) /\ Held(dir[key[p]]) # NoFile
  BY <1>1, <1>2, NullsApart DEF AbsStore, Held, File
<1>4. AbsStore' = AbsStore
  BY <1>1, TouchUnseen DEF GetHit
<1>5. AbsPutting' = AbsPutting
  BY DEF GetHit, Goto, AbsPutting
<1>6. AbsReader[p] = NoFile
  BY <1>1 DEF AbsReader
<1>7. AbsReader' = [AbsReader EXCEPT ![p] = <<key[p], AbsStore[key[p]]>>]
  <2>1. reader' = [reader EXCEPT ![p] = Held(dir[key[p]])] /\ key' = key
    BY DEF GetHit, Goto
  <2> QED BY <1>3, <2>1 DEF AbsReader, Inv, TypeOK
<1>8. AbsDelivered' = AbsDelivered
  <2>1. \A q \in Procs : pc'[q] = "eof" <=> pc[q] = "eof"
    BY DEF GetHit, Locked, Goto, Inv, TypeOK
  <2>2. \A q \in Procs : pc[q] = "eof" => reader'[q] = reader[q]
    BY DEF GetHit, Locked, Inv, TypeOK
  <2> QED BY <2>1, <2>2 DEF AbsDelivered
<1> QED BY <1>3, <1>4, <1>5, <1>6, <1>7, <1>8 DEF Abs!Open

(* Reading to the end delivers the object, which is whole. *)
LEMMA ReadEOFDelivers ==
  ASSUME Inv, NEW p \in Procs, ReadEOF(p)
  PROVE  Abs!Deliver(p)
<1>1. reader[p] \in Objects /\ reader[p] # NoFile
  BY NullsApart DEF ReadEOF, Inv, TypeOK, CallsAreSound
<1>2. key[p] \in Keys
  BY CallHasKey DEF ReadEOF
<1>3. AbsReader[p] = <<key[p], reader[p]>>
  BY <1>1 DEF AbsReader
<1>4. AbsReader[p] # NoFile /\ AbsReader[p][2] = reader[p]
  BY <1>1, <1>2, <1>3, NullsApart
<1>5. AbsDelivered' = [AbsDelivered EXCEPT ![p] = reader[p]]
  BY DEF ReadEOF, Goto, AbsDelivered, Inv, TypeOK
<1>6. AbsStore' = AbsStore /\ AbsPutting' = AbsPutting /\ AbsReader' = AbsReader
  BY DEF ReadEOF, Goto, NoTouch, AbsStore, AbsPutting, AbsReader
<1> QED BY <1>1, <1>4, <1>5, <1>6 DEF Abs!Deliver

(* Closing a reader. *)
LEMMA CloseCloses ==
  ASSUME Inv, NEW p \in Procs, Close(p)
  PROVE  Abs!Close(p)
<1>1. tmp[p] = NoFile
  BY DEF Inv, CallsAreSound, Close
<1>2. AbsStore' = AbsStore
  BY DEF Close, NoTouch, AbsStore
<1>3. AbsPutting' = AbsPutting
  BY <1>1 DEF Close, Return, AbsPutting, Inv, TypeOK
<1>4. AbsReader' = [AbsReader EXCEPT ![p] = NoFile]
  BY DEF Close, Return, AbsReader, Inv, TypeOK
<1>5. AbsDelivered' = [AbsDelivered EXCEPT ![p] = NoFile]
  BY DEF Close, Return, AbsDelivered, Inv, TypeOK
<1> QED BY <1>2, <1>3, <1>4, <1>5 DEF Abs!Close

(* Delete and evict drop an entry. *)
LEMMA RemovalDrops ==
  ASSUME Inv, NEW p \in Procs, NEW k \in Keys,
         (DeleteDo(p) /\ k = key[p]) \/ EvictRemove(p, k)
  PROVE  Abs!Drop(k)
<1>1. AbsStore' = [AbsStore EXCEPT ![k] = NoFile]
  BY UnlinkDrops DEF DeleteDo, EvictRemove
<1>2. AbsPutting' = AbsPutting /\ AbsReader' = AbsReader /\ AbsDelivered' = AbsDelivered
  <2>1. CASE DeleteDo(p)
    <3>1. tmp' = tmp /\ reader' = reader /\ tmp[p] = NoFile /\ reader[p] = NoFile
      BY <2>1 DEF DeleteDo, Locked, Inv, CallsAreSound
    <3>2. pc'[p] # "eof" /\ \A q \in Procs : q # p => key'[q] = key[q] /\ pc'[q] = pc[q]
      BY <2>1 DEF DeleteDo, Return, Inv, TypeOK
    <3> QED BY <3>1, <3>2, IdleUnseen
  <2>2. CASE EvictRemove(p, k)
    BY <2>2 DEF EvictRemove, AbsPutting, AbsReader, AbsDelivered
  <2> QED BY <2>1, <2>2
<1> QED BY <1>1, <1>2 DEF Abs!Drop

(* The start of a Put. *)
LEMMA PutCallBegins ==
  ASSUME Inv, NEW p \in Procs, NEW k \in Keys, NEW o \in Objects, PutCall(p, k, o)
  PROVE  Abs!PutBegin(p, k, o)
<1> DEFINE f == [obj |-> o, size |-> 0, content |-> "unreadable", mtime |-> now]
<1>1. tmp[p] = NoFile /\ reader[p] = NoFile
  BY DEF Inv, CallsAreSound, PutCall, Call
<1>2. f # NoFile /\ f.obj = o
  BY TmpType DEF Inv, TypeOK, Contents
<1>3. tmp' = [tmp EXCEPT ![p] = f] /\ key' = [key EXCEPT ![p] = k]
  BY DEF PutCall, Call
<1> HIDE DEF f
<1>4. AbsPutting[p] = NoFile /\ AbsPutting' = [AbsPutting EXCEPT ![p] = <<k, o>>]
  BY <1>1, <1>2, <1>3 DEF AbsPutting, Inv, TypeOK
<1>5. AbsStore' = AbsStore
  BY DEF PutCall, NoTouch, AbsStore
<1>6. AbsReader' = AbsReader
  BY <1>1, <1>3 DEF PutCall, AbsReader, Inv, TypeOK
<1>7. AbsDelivered' = AbsDelivered
  <2>1. /\ reader' = reader /\ pc[p] # "eof" /\ pc'[p] # "eof"
        /\ \A q \in Procs : q # p => pc'[q] = pc[q]
    BY DEF PutCall, Call, Inv, TypeOK
  <2> QED BY <2>1, DeliveredUnseen
<1> QED BY <1>4, <1>5, <1>6, <1>7 DEF Abs!PutBegin

(* The rename is the moment at which a Put takes effect. *)
LEMMA RenameCommits ==
  ASSUME Inv, NEW p \in Procs, Rename(p)
  PROVE  Abs!PutCommit(p)
<1>1. /\ key[p] \in Keys /\ tmp[p] \in File /\ tmp[p] # NoFile /\ tmp[p].content = "whole"
      /\ reader[p] = NoFile
  BY CallHasKey DEF Rename, Inv, TypeOK, CallsAreSound, PlanIsCurrent
<1>2. AbsPutting[p] = <<key[p], tmp[p].obj>> /\ tmp[p].obj \in Objects
  BY <1>1 DEF AbsPutting, File
<1>3. <<key[p], tmp[p].obj>> # NoFile
  BY <1>1, <1>2, NullsApart
<1>4. AbsStore' = [AbsStore EXCEPT ![key[p]] = tmp[p].obj]
  <2>1. dir' = [dir EXCEPT ![key[p]] = tmp[p]] /\ dir \in Dir
    BY DEF Rename, Inv, TypeOK
  <2>2. \A j \in Keys : Held(dir'[j]) = IF j = key[p] THEN tmp[p].obj ELSE Held(dir[j])
    BY <1>1, <2>1 DEF Dir, Held
  <2> QED BY <2>2 DEF AbsStore
<1>5. AbsPutting' = [AbsPutting EXCEPT ![p] = NoFile]
  BY DEF Rename, Return, AbsPutting, Inv, TypeOK
<1>6. AbsReader' = AbsReader
  BY <1>1 DEF Rename, Return, AbsReader, Inv, TypeOK
<1>7. AbsDelivered' = AbsDelivered
  <2>1. /\ reader' = reader /\ pc[p] # "eof" /\ pc'[p] # "eof"
        /\ \A q \in Procs : q # p => pc'[q] = pc[q]
    BY DEF Rename, Return, Inv, TypeOK
  <2> QED BY <2>1, DeliveredUnseen
<1> QED BY <1>2, <1>3, <1>4, <1>5, <1>6, <1>7 DEF Abs!PutCommit

(* A Put that failed. *)
LEMMA CleanupAborts ==
  ASSUME Inv, NEW p \in Procs, Cleanup(p)
  PROVE  Abs!PutAbort(p)
<1>1. reader[p] = NoFile
  BY DEF Cleanup, Inv, CallsAreSound
<1>2. AbsPutting' = [AbsPutting EXCEPT ![p] = NoFile]
  BY DEF Cleanup, Return, AbsPutting, Inv, TypeOK
<1>3. AbsReader' = AbsReader
  BY <1>1 DEF Cleanup, Return, AbsReader, Inv, TypeOK
<1>4. AbsStore' = AbsStore
  BY DEF Cleanup, NoTouch, AbsStore
<1>5. AbsDelivered' = AbsDelivered
  <2>1. /\ reader' = reader /\ pc[p] # "eof" /\ pc'[p] # "eof"
        /\ \A q \in Procs : q # p => pc'[q] = pc[q]
    BY DEF Cleanup, Return, Inv, TypeOK
  <2> QED BY <2>1, DeliveredUnseen
<1> QED BY <1>2, <1>3, <1>4, <1>5 DEF Abs!PutAbort

(* A restart breaks the entries that are torn after it. *)
LEMMA RestartBreaks ==
  ASSUME Inv, NEW left \in AfterLoss(dir), NEW limit \in Limits, Restart(left, limit)
  PROVE  \E B \in SUBSET {k \in Keys : AbsStore[k] # NoFile} : Abs!Restart(B)
<1> DEFINE B == {k \in Keys : Held(dir'[k]) = Broken}
<1>1. \A k \in Keys : dir'[k] = NoFile <=> dir[k] = NoFile
  BY RestartFacts
<1>2. B \in SUBSET {k \in Keys : AbsStore[k] # NoFile}
  <2> SUFFICES ASSUME NEW k \in B PROVE k \in Keys /\ AbsStore[k] # NoFile
    OBVIOUS
  <2>1. dir[k] # NoFile
    BY <1>1, NullsApart DEF Held
  <2>2. dir[k] \in File
    BY <2>1 DEF Inv, TypeOK, Dir
  <2> QED BY <2>1, <2>2, NullsApart DEF Held, AbsStore, File
<1>3. \A k \in Keys : Held(dir'[k]) = IF k \in B THEN Broken ELSE Held(dir[k])
  BY RestartFacts
<1>4. AbsPutting' = [p \in Procs |-> NoFile] /\ AbsReader' = [p \in Procs |-> NoFile]
  BY DEF Restart, AbsPutting, AbsReader
<1>5. AbsDelivered' = [p \in Procs |-> NoFile]
  BY DEF Restart, AbsDelivered
<1>6. AbsStore' = [k \in Keys |-> IF k \in B THEN Broken ELSE AbsStore[k]]
  BY <1>3 DEF AbsStore
<1> HIDE DEF B
<1>7. Abs!Restart(B)
  BY <1>4, <1>5, <1>6 DEF Abs!Restart, Abs!Nothing
<1> QED BY <1>2, <1>7

(* Every step of the disk cache is a step of Cache or leaves it alone. *)
LEMMA AbsNext == Inv /\ [Next]_vars => [Abs!Next]_(Abs!vars)
<1> SUFFICES ASSUME Inv, [Next]_vars PROVE Abs!Next \/ UNCHANGED Abs!vars
  OBVIOUS
<1>1. ASSUME NEW p \in Procs, CallStep(p) PROVE Abs!Next \/ UNCHANGED Abs!vars
  BY <1>1, QuietSteps, PutCallBegins DEF CallStep, Abs!Next
<1>2. ASSUME NEW p \in Procs, LockStep(p) PROVE Abs!Next \/ UNCHANGED Abs!vars
  <2>1. GetHit(p) \/ DeleteDo(p) => key[p] \in Keys
    BY CallHasKey DEF GetHit, DeleteDo, Locked
  <2> QED BY <1>2, <2>1, QuietSteps, QuietPutSteps, GetHitOpens, RemovalDrops
          DEF LockStep, Abs!Next
<1>3. ASSUME NEW p \in Procs, OwnStep(p) PROVE Abs!Next \/ UNCHANGED Abs!vars
  BY <1>3, RemovalDrops, RenameCommits, QuietPutSteps, CleanupAborts
     DEF OwnStep, Abs!Next
<1>4. ASSUME NEW p \in Procs, CopyStep(p) \/ ReadEOF(p) \/ Close(p)
      PROVE  Abs!Next \/ UNCHANGED Abs!vars
  BY <1>4, QuietPutSteps, ReadEOFDelivers, CloseCloses DEF CopyStep, Abs!Next
<1>5. ASSUME NEW left \in AfterLoss(dir), NEW limit \in Limits, Restart(left, limit)
      PROVE  Abs!Next
  BY <1>5, RestartBreaks DEF Abs!Next
<1>6. CASE Tick \/ UNCHANGED vars
  BY <1>6 DEF Tick, NoTouch, vars, procVars, Abs!vars, AbsStore, AbsPutting, AbsReader,
              AbsDelivered
<1> QED BY <1>1, <1>2, <1>3, <1>4, <1>5, <1>6 DEF Next

(* The disk cache implements the abstract cache: whatever is read to its   *)
(* end without an error is the whole object of one Put, although a torn    *)
(* entry may be opened.                                                    *)
THEOREM Refinement == Spec => ImplementsCache
<1>1. Init => Abs!Init
  BY DEF Init, Abs!Init, Abs!Nothing, AbsStore, AbsPutting, AbsReader, AbsDelivered,
         Held, Empty
<1>2. Inv /\ [Next]_vars => [Abs!Next]_(Abs!vars)
  BY AbsNext
<1> QED BY <1>1, <1>2, Invariance, PTL DEF Spec, ImplementsCache, Abs!Spec
=============================================================================
