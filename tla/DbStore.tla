-------------------------------- MODULE DbStore --------------------------------
(***************************************************************************)
(* Storing records in the database with fine locking (db.lock.fine):       *)
(* db_store holds the lock of its hash chain throughout, writes the data   *)
(* record, the index record and last the head of the chain, and locks the  *)
(* end of a file while it appends.  Processes run it at once and may be    *)
(* killed between two writes.  Offsets are numbers of records.             *)
(* _db_find, _db_findfree and _db_dodelete are not in the repository.      *)
(***************************************************************************)
EXTENDS Integers, Sequences, FiniteSets

CONSTANTS
  Procs, Keys, Datas, Hash,         \* Hash[k] is a key's chain
  DatLen, DATLEN_MIN, DATLEN_MAX,   \* the length of a data record
  Flags,                            \* the bits of flag, a set of sets
  MaxCalls,                         \* bound: calls made in all
  NoProc, Absent, Pending, None

ASSUME DbAssumption ==
  /\ NoProc \notin Procs /\ Absent \notin Datas /\ Pending \notin {-1, 0, 1}
  /\ Flags \subseteq SUBSET {"insert", "replace"}
  /\ None \notin [key : Keys, data : Datas, flag : SUBSET {"insert", "replace"}]

VARIABLES
  idx,       \* index records [key, dat, len, ptr]
  dat,       \* data records
  chain,     \* the hash table
  free,      \* the free list
  chainlock, datlock, idxlock,
  db,        \* the locals and the DB structure of each process
  calls

files == <<idx, dat, chain, free>>
locks == <<chainlock, datlock, idxlock>>
dbVars == <<files, locks, db, calls>>

Chains == {Hash[k] : k \in Keys}
Blank == "blank"
Idle == [pc |-> "idle", key |-> None, data |-> None, flag |-> {}, ptrval |-> 0,
         datoff |-> 0, idxoff |-> 0, old |-> Absent, rc |-> Pending]

DbInit ==
  /\ idx = <<>> /\ dat = <<>> /\ chain = [h \in Chains |-> 0] /\ free = <<>>
  /\ chainlock = [h \in Chains |-> NoProc] /\ datlock = NoProc /\ idxlock = NoProc
  /\ db = [p \in Procs |-> Idle] /\ calls = 0

(* The records linked from record i on, by their distance; 0 is the end,   *)
(* which a walk that meets no record twice has reached.                    *)
Walk(file, i) ==
  LET walk[n \in 0 .. Len(file)] ==
        IF n = 0 THEN i ELSE IF walk[n - 1] = 0 THEN 0 ELSE file[walk[n - 1]].ptr
  IN  walk
Ends(file, i) == Walk(file, i)[Len(file)] = 0
Linked(file, i) == LET walk == Walk(file, i) IN {walk[n] : n \in 0 .. Len(file)} \ {0}
InChain(h) == Linked(idx, chain[h])
Free == {free[i] : i \in DOMAIN free}
Found(k) == {i \in InChain(Hash[k]) : idx[i].key = k}

Put(s, i, v) == IF i = Len(s) + 1 THEN Append(s, v) ELSE [s EXCEPT ![i] = v]
At(p, pc) == db[p].pc = pc
ChainOf(p) == Hash[db[p].key]
Goto(p, pc) == db' = [db EXCEPT ![p].pc = pc]
Done(p, n) == db' = [db EXCEPT ![p].pc = "unlock", ![p].rc = n]

-----------------------------------------------------------------------------
(* db_store                                                                *)

Call(p) ==
  /\ At(p, "idle") /\ calls < MaxCalls /\ calls' = calls + 1
  /\ \E k \in Keys, d \in Datas, f \in Flags :
       IF DatLen[d] < DATLEN_MIN \/ DatLen[d] > DATLEN_MAX
       THEN db' = [db EXCEPT ![p] = [Idle EXCEPT !.pc = "dead"]]
       ELSE db' = [db EXCEPT ![p] = [Idle EXCEPT !.pc = "find", !.key = k, !.data = d, !.flag = f]]
  /\ UNCHANGED <<files, locks>>

(* Seeded bug: the chain is not locked for a store.                        *)
LockChain_read(p) ==
  /\ UNCHANGED chainlock

(* _db_find locks the chain, whatever it finds.                            *)
LockChain(p) ==
  /\ chainlock[ChainOf(p)] = NoProc
  /\ chainlock' = [chainlock EXCEPT ![ChainOf(p)] = p]

(* A record of the same length takes its place, another is deleted first.  *)
FindRecord(p) ==
  /\ At(p, "find") /\ LockChain(p)
  /\ \E i \in Found(db[p].key) :
       IF "insert" \in db[p].flag THEN Done(p, 1)
       ELSE db' = [db EXCEPT ![p].pc = IF DatLen[db[p].data] # idx[i].len THEN "delete" ELSE "overwrite",
                             ![p].idxoff = i, ![p].datoff = idx[i].dat, ![p].old = dat[idx[i].dat]]
  /\ UNCHANGED <<files, datlock, idxlock, calls>>

FindNone(p) ==
  /\ At(p, "find") /\ LockChain(p) /\ Found(db[p].key) = {}
  /\ IF "replace" \in db[p].flag THEN Done(p, -1)
     ELSE db' = [db EXCEPT ![p].pc = "findfree", ![p].ptrval = chain[ChainOf(p)]]
  /\ UNCHANGED <<files, datlock, idxlock, calls>>

(* _db_findfree takes a record of the same lengths off the free list.      *)
FindFree(p) ==
  /\ At(p, "findfree")
  /\ LET fits == {i \in DOMAIN free : idx[free[i]].len = DatLen[db[p].data]}
     IN  \/ fits = {} /\ Goto(p, "lockdat") /\ UNCHANGED free
         \/ \E i \in fits :
              /\ \A j \in fits : i <= j
              /\ free' = SubSeq(free, 1, i - 1) \o SubSeq(free, i + 1, Len(free))
              /\ db' = [db EXCEPT ![p].pc = "reuse", ![p].idxoff = free[i], ![p].datoff = idx[free[i]].dat]
  /\ UNCHANGED <<idx, dat, chain, locks, calls>>

(* _db_dodelete blanks the record and moves it from its chain to the free  *)
(* list; then the head of the chain is read again.                         *)
Unlinked(i, h) ==
  /\ chain' = IF chain[h] = i THEN [chain EXCEPT ![h] = idx[i].ptr] ELSE chain
  /\ idx' = [j \in DOMAIN idx |->
       IF j = i THEN [idx[i] EXCEPT !.key = Blank]
       ELSE IF j \in InChain(h) /\ idx[j].ptr = i THEN [idx[j] EXCEPT !.ptr = idx[i].ptr] ELSE idx[j]]
Delete(p) ==
  /\ At(p, "delete") /\ Unlinked(db[p].idxoff, ChainOf(p))
  /\ dat' = [dat EXCEPT ![db[p].datoff] = Blank] /\ free' = <<db[p].idxoff>> \o free
  /\ db' = [db EXCEPT ![p].pc = "lockdat", ![p].ptrval = chain'[ChainOf(p)]]
  /\ UNCHANGED <<locks, calls>>
-----------------------------------------------------------------------------
(* _db_writedat, _db_writeidx and _db_writeptr.  Appending is lock and     *)
(* lseek, then writev and unlock.                                          *)

(* Seeded bug: the end of the data file is not locked.                     *)
LockDat_not(p) ==
  /\ At(p, "lockdat") /\ UNCHANGED datlock
  /\ db' = [db EXCEPT ![p].pc = "appenddat", ![p].datoff = Len(dat) + 1]
  /\ UNCHANGED <<files, chainlock, idxlock, calls>>

LockDat(p) ==
  /\ At(p, "lockdat") /\ datlock = NoProc /\ datlock' = p
  /\ db' = [db EXCEPT ![p].pc = "appenddat", ![p].datoff = Len(dat) + 1]
  /\ UNCHANGED <<files, chainlock, idxlock, calls>>

AppendDat(p) ==
  /\ At(p, "appenddat") /\ dat' = Put(dat, db[p].datoff, db[p].data)
  /\ datlock' = NoProc /\ Goto(p, "lockidx")
  /\ UNCHANGED <<idx, chain, free, chainlock, idxlock, calls>>

LockIdx(p) ==
  /\ At(p, "lockidx") /\ idxlock = NoProc /\ idxlock' = p
  /\ db' = [db EXCEPT ![p].pc = "appendidx", ![p].idxoff = Len(idx) + 1]
  /\ UNCHANGED <<files, chainlock, datlock, calls>>

Record(p) ==
  [key |-> db[p].key, dat |-> db[p].datoff, len |-> DatLen[db[p].data], ptr |-> db[p].ptrval]

AppendIdx(p) ==
  /\ At(p, "appendidx") /\ idx' = Put(idx, db[p].idxoff, Record(p))
  /\ idxlock' = NoProc /\ Goto(p, "writeptr")
  /\ UNCHANGED <<dat, chain, free, chainlock, datlock, calls>>

ReuseDat(p) ==
  /\ At(p, "reuse") /\ dat' = [dat EXCEPT ![db[p].datoff] = db[p].data]
  /\ Goto(p, "reuseidx") /\ UNCHANGED <<idx, chain, free, locks, calls>>

ReuseIdx(p) ==
  /\ At(p, "reuseidx") /\ idx' = [idx EXCEPT ![db[p].idxoff] = Record(p)]
  /\ Goto(p, "writeptr") /\ UNCHANGED <<dat, chain, free, locks, calls>>

WritePtr(p) ==
  /\ At(p, "writeptr") /\ chain' = [chain EXCEPT ![ChainOf(p)] = db[p].idxoff]
  /\ Done(p, 0) /\ UNCHANGED <<idx, dat, free, locks, calls>>

Overwrite(p) ==
  /\ At(p, "overwrite") /\ dat' = [dat EXCEPT ![db[p].datoff] = db[p].data]
  /\ Done(p, 0) /\ UNCHANGED <<idx, chain, free, locks, calls>>

(* doreturn                                                                *)
Unlock(p) ==
  /\ At(p, "unlock") /\ chainlock' = [chainlock EXCEPT ![ChainOf(p)] = NoProc]
  /\ db' = [db EXCEPT ![p] = Idle]
  /\ UNCHANGED <<files, datlock, idxlock, calls>>

(* A process that dies, err_dump included, loses its locks.                *)
Killed(p) ==
  /\ ~At(p, "idle") /\ ~At(p, "dead") /\ db' = [db EXCEPT ![p] = [Idle EXCEPT !.pc = "dead"]]
  /\ chainlock' = [h \in Chains |-> IF chainlock[h] = p THEN NoProc ELSE chainlock[h]]
  /\ datlock' = (IF datlock = p THEN NoProc ELSE datlock)
  /\ idxlock' = (IF idxlock = p THEN NoProc ELSE idxlock)
  /\ UNCHANGED <<files, calls>>

DbNext ==
  \E p \in Procs :
    \/ Call(p) \/ FindRecord(p) \/ FindNone(p) \/ FindFree(p) \/ Delete(p)
    \/ LockDat(p) \/ AppendDat(p) \/ LockIdx(p) \/ AppendIdx(p) \/ ReuseDat(p) \/ ReuseIdx(p)
    \/ WritePtr(p) \/ Overwrite(p) \/ Unlock(p) \/ Killed(p)

DbSpec == DbInit /\ [][DbNext]_dbVars

-----------------------------------------------------------------------------
(* Properties                                                              *)

(* _db_checkfree: the length of the free list, or -1 when a record on it   *)
(* is not blank.                                                           *)
checkfree ==
  IF \E i \in DOMAIN free : idx[free[i]].key # Blank \/ dat[idx[free[i]].dat] # Blank
  THEN -1 ELSE Len(free)

(* At every moment, also after processes died between any two writes,      *)
(* tstats finds no "corrupted free list", a record is on one list at most, *)
(* once, no two that are on a list share data, and no key has two records. *)
RecordsOwned ==
  LET Listed == Free \cup UNION {InChain(h) : h \in Chains}
  IN  /\ checkfree = Cardinality(Free)
      /\ \A h \in Chains : Ends(idx, chain[h]) /\ InChain(h) \cap Free = {}
      /\ \A h \in Chains : \A i \in InChain(h) : idx[i].key \in Keys /\ Hash[idx[i].key] = h
      /\ \A i, j \in Listed : idx[i].dat = idx[j].dat => i = j
      /\ \A k \in Keys : \A i, j \in Found(k) : i = j

(* Between a replaced record's deletion and the head of its chain, nobody  *)
(* else can look: the store still has the old one.                         *)
Replacing(p) == db[p].pc \in {"lockdat", "appenddat", "lockidx", "appendidx", "writeptr"}
storeBar ==
  [k \in Keys |->
     LET by == {p \in Procs : Replacing(p) /\ db[p].key = k}
         i == CHOOSE r \in Found(k) : TRUE
     IN  IF by # {} THEN db[CHOOSE p \in by : TRUE].old
         ELSE IF Found(k) = {} THEN Absent ELSE dat[idx[i].dat]]
opBar ==
  [p \in Procs |->
     IF db[p].pc \in {"idle", "dead"} THEN None
     ELSE [key |-> db[p].key, data |-> db[p].data, flag |-> db[p].flag]]
rcBar == [p \in Procs |-> db[p].rc]

(* Calls of db_store by any processes, interleaved at every write and lock *)
(* and killed anywhere, act like atomic ones.                              *)
Kv == INSTANCE KvStore WITH store <- storeBar, op <- opBar, rc <- rcBar
StoreIsAtomic == Kv!KvSpec
=============================================================================
