------------------------------- MODULE Cache -------------------------------
(***************************************************************************)
(* What a cache.Cache (internal/cache/cache.go) promises the proxy: a map  *)
(* from keys to objects (a blob with its metadata).  A Put replaces the    *)
(* object of its own key by its own object in one step, or does nothing.   *)
(* Get hands out a reader of what is stored at that moment, and the reader *)
(* stays with it whatever happens to the map later.  An entry may          *)
(* disappear at any time.  A restart ends every call and, after a power    *)
(* loss, may leave entries Broken.  A broken entry may still be handed     *)
(* out, but its reader fails before the end: only a whole object is ever   *)
(* delivered.  DiskCache is shown to implement this.                       *)
(***************************************************************************)
CONSTANTS
  Keys,     \* cache keys
  Objects,  \* what one Put stores: a blob and its metadata
  Procs,    \* concurrent callers
  None,     \* no entry, no reader, no Put, nothing delivered
  Broken    \* an entry that a power loss left incomplete

VARIABLES
  store,    \* store[k]: the object stored under k, None or Broken
  putting,  \* putting[p]: <<key, object>> of p's running Put, or None
  reader,   \* reader[p]: <<key, object or Broken>> that p is reading, or None
  delivered \* delivered[p]: the object that p's reader read to the end, or None

vars == <<store, putting, reader, delivered>>

Nothing == [p \in Procs |-> None]

Init == /\ store = [k \in Keys |-> None]
        /\ putting = Nothing
        /\ reader = Nothing
        /\ delivered = Nothing

PutBegin(p, k, o) == /\ putting[p] = None
                     /\ putting' = [putting EXCEPT ![p] = <<k, o>>]
                     /\ UNCHANGED <<store, reader, delivered>>

PutCommit(p) == /\ putting[p] # None
                /\ store' = [store EXCEPT ![putting[p][1]] = putting[p][2]]
                /\ putting' = [putting EXCEPT ![p] = None]
                /\ UNCHANGED <<reader, delivered>>

PutAbort(p) == /\ putting' = [putting EXCEPT ![p] = None]
               /\ UNCHANGED <<store, reader, delivered>>

Drop(k) == /\ store' = [store EXCEPT ![k] = None]
           /\ UNCHANGED <<putting, reader, delivered>>

Open(p, k) == /\ reader[p] = None
              /\ store[k] # None
              /\ reader' = [reader EXCEPT ![p] = <<k, store[k]>>]
              /\ UNCHANGED <<store, putting, delivered>>

Deliver(p) == /\ reader[p] # None
              /\ reader[p][2] \in Objects
              /\ delivered' = [delivered EXCEPT ![p] = reader[p][2]]
              /\ UNCHANGED <<store, putting, reader>>

Close(p) == /\ reader' = [reader EXCEPT ![p] = None]
            /\ delivered' = [delivered EXCEPT ![p] = None]
            /\ UNCHANGED <<store, putting>>

Restart(B) == /\ store' = [k \in Keys |-> IF k \in B THEN Broken ELSE store[k]]
              /\ putting' = Nothing
              /\ reader' = Nothing
              /\ delivered' = Nothing

Next == \/ \E p \in Procs, k \in Keys : Open(p, k)
        \/ \E p \in Procs, k \in Keys, o \in Objects : PutBegin(p, k, o)
        \/ \E p \in Procs : PutCommit(p) \/ PutAbort(p) \/ Deliver(p) \/ Close(p)
        \/ \E k \in Keys : Drop(k)
        \/ \E B \in SUBSET {k \in Keys : store[k] # None} : Restart(B)

Spec == Init /\ [][Next]_vars
=============================================================================
