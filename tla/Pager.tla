-------------------------------- MODULE Pager --------------------------------
(***************************************************************************)
(* The pager of the storage server's SQLite, with a rollback journal in    *)
(* delete mode and the codec between the cache and the files: one          *)
(* connection, no savepoints, no write-ahead log.  Each entry point runs   *)
(* to its end before the next is called, so each is one step.              *)
(*                                                                         *)
(* A codec call that fails sets errCode and the ERROR state (through       *)
(* sqlite3pager_error) but returns a buffer of zeros, so the function that *)
(* called it goes on.  It returns NULL only if the key cannot be derived,  *)
(* and the key is there once page 1 has been read, before any write.       *)
(* An entry point that returns an error is answered by a rollback, as      *)
(* sqlite3VdbeHalt does where there is no savepoint.                       *)
(***************************************************************************)
EXTENDS PageCodec

CONSTANTS
  MaxPages,     \* bound: pages of the database
  Data,         \* contents of a page
  MaxLeaves,    \* bound: tags in the tree
  Faults,       \* faults of a codec call or a write that may occur
  SyncFaults,   \* calls of syncJournal and sqlite3PagerSync that may fail
  FaultSites    \* where they may: "journal", "counter", "write", "sync"

Page == 1..MaxPages

ASSUME PagerAssumption ==
  /\ MaxPages \in Nat \ {0}
  /\ Data \subseteq Nat \ {Zeros}
  /\ MaxLeaves \in 1..MT_AL_MAX_ELEMS
  /\ Faults \subseteq {"cipher", "leaf", "parent", "io", "open"}
  /\ SyncFaults \subseteq {"first", "second", "header", "file"}
  /\ FaultSites \subseteq {"journal", "counter", "write", "sync"}

VARIABLES
  codec,        \* the codec's tree and num_blocks
  eState,       \* Pager.eState
  errCode,      \* whether Pager.errCode is set
  rc,           \* what the last call returned to the layer above
  dbSize,       \* Pager.dbSize
  cache,        \* the page cache
  file,         \* the database file: its size and its stored pages
  jrnl,         \* the rollback journal
  image,        \* the contents as the layer above has written them
  committed,    \* the contents the last committed transaction left
  saved,        \* the file of the tree
  server,       \* whether the tree was read from that file: the server's run
  whole         \* whether the tree has had every tag under its number so far

vars == <<codec, eState, errCode, rc, dbSize, cache, file, jrnl, image, committed,
          saved, server, whole>>

(***************************************************************************)
(* A cached page, with its flags PGHDR_DIRTY, PGHDR_NEED_SYNC and          *)
(* PGHDR_WRITEABLE.  jrnl.magic says whether the first header has its      *)
(* magic number, which syncJournal writes; counted is the number of        *)
(* records the headers count, and synced the number before journalHdr;     *)
(* orig is dbOrigSize.                                                     *)
(***************************************************************************)
NotCached == [data |-> -1, dirty |-> FALSE, sync |-> FALSE, writeable |-> FALSE]
Clean(data) == [data |-> data, dirty |-> FALSE, sync |-> FALSE, writeable |-> FALSE]
EmptyCache == [p \in Page |-> NotCached]

NoJournal == [magic |-> FALSE, recs |-> <<>>, counted |-> 0, synced |-> 0, orig |-> 0]
NoTree == <<>>

Cached(p) == cache[p] # NotCached
Dirty(c) == {p \in Page : c[p].dirty}
MakeClean(c, p) == [c EXCEPT ![p] = Clean(c[p].data)]
CleanAll(c) == [p \in Page |-> IF c[p] = NotCached THEN NotCached ELSE Clean(c[p].data)]
ClearSyncFlags(c) == [p \in Page |-> [c[p] EXCEPT !.sync = FALSE]]

\* A fault happens at a site, or none does.
FaultAt(site) == {"none"} \cup IF site \in FaultSites THEN Faults ELSE {}
WriteFaults == FaultAt("write") \ {"open"}
SyncFaultAt(calls) ==
  {"none"} \cup IF "sync" \in FaultSites THEN SyncFaults \cap calls ELSE {}
CodecFault(fault) == IF fault \in {"io", "open"} THEN "none" ELSE fault

-----------------------------------------------------------------------------
(***************************************************************************)
(* Writing: the journal record of a page (pager_write), the sync of the    *)
(* journal, the dirty pages to the file.  st is the pager during the call. *)
(* st.rc is what the functions of it return.                               *)
(***************************************************************************)
Failed(st) == [st EXCEPT !.rc = "ERROR"]

\* The pager after an encryption with result e.
AfterCodec(st, e) ==
  [st EXCEPT !.codec = e.codec, !.errCode = @ \/ ~e.ok, !.eState = IF e.ok THEN @ ELSE "ERROR"]

\* A record that cannot be written is not counted, but its page needs a sync.
AddRecord(st, p, fault, e) ==
  IF fault = "io" THEN Failed([AfterCodec(st, e) EXCEPT !.cache[p].sync = TRUE])
  ELSE [AfterCodec(st, e) EXCEPT !.jrnl.recs = Append(@, [pgno |-> p, page |-> e.page]),
                                 !.cache[p].sync = TRUE]
pagerAddPageToRollbackJournal(st, p, fault) ==
  AddRecord(st, p, fault, Encrypt(st.codec, st.cache[p].data, CodecFault(fault)))

InJournal(st, p) == \E i \in DOMAIN st.jrnl.recs : st.jrnl.recs[i].pgno = p

pager_open_journal(st, fault) ==
  CASE st.eState # "WRITER_LOCKED" -> st
    [] st.eState = "WRITER_LOCKED" /\ fault = "open" -> Failed(st)
    [] OTHER -> [st EXCEPT !.jrnl = [NoJournal EXCEPT !.orig = st.dbSize],
                           !.eState = "WRITER_CACHEMOD"]

\* Only pages that were in the file when the transaction began are
\* journalled; a later page only has to wait until the journal is synced.
JournalledBelowLast(st, p, fault) ==
  IF ~InJournal(st, p) /\ p < st.jrnl.orig THEN pagerAddPageToRollbackJournal(st, p, fault)
  ELSE st

Journalled(st, p, fault) ==
  CASE InJournal(st, p) -> st
    [] ~InJournal(st, p) /\ p <= st.jrnl.orig -> pagerAddPageToRollbackJournal(st, p, fault)
    [] OTHER -> [st EXCEPT !.cache[p].sync = @ \/ st.eState # "WRITER_DBMOD"]

\* The page is dirty before it is journalled, and writeable only after that.
pager_write(st, p, fault) ==
  LET o == pager_open_journal(st, fault)
      j == Journalled([o EXCEPT !.cache[p].dirty = TRUE], p, fault)
  IN  CASE o.rc = "ERROR" -> o
        [] o.rc = "OK" /\ j.rc = "ERROR" -> j
        [] OTHER -> [j EXCEPT !.cache[p].writeable = TRUE, !.dbSize = Max({@, p})]

SyncedPast(recs) == Len(recs) + 1
Synced(recs) == Len(recs)

\* sqlite3PagerExclusiveLock returns errCode.  Then either the first sync or
\* the write of the header fails, or the second sync does, or, where it is
\* asked for, the write of the next header.
syncJournal(st, fault) ==
  LET counted == [st EXCEPT !.jrnl.magic = TRUE, !.jrnl.counted = Synced(st.jrnl.recs)]
      synced == [counted EXCEPT !.jrnl.synced = counted.jrnl.counted]
  IN  CASE st.errCode \/ fault = "first" -> Failed(st)
        [] ~st.errCode /\ fault = "second" -> Failed(counted)
        [] ~st.errCode /\ fault = "header" -> Failed(synced)
        [] OTHER -> [synced EXCEPT !.cache = ClearSyncFlags(@), !.eState = "WRITER_DBMOD"]

\* The turn of pager_write_pagelist for page p: a write that fails ends the
\* loop, an encryption that fails does not.
Written(st, p, fault, e) ==
  IF fault = "io" THEN Failed(AfterCodec(st, e))
  ELSE [AfterCodec(st, e) EXCEPT !.file.page[p] = e.page, !.file.size = Max({@, p})]
WritePage(st, p, fault) ==
  IF st.rc = "ERROR" THEN st
  ELSE Written(st, p, fault, Encrypt(st.codec, st.cache[p].data, CodecFault(fault)))

pager_write_pagelist(st, pages, fault) ==
  FoldLeft(LAMBDA s, p : WritePage(s, p, fault[p]), st, SetToSortSeq(pages, <))

-----------------------------------------------------------------------------
(***************************************************************************)
(* Playing back the journal.  The records hold the pages as they are       *)
(* stored in the file.                                                     *)
(***************************************************************************)
pager_truncate(f, n) ==
  [size |-> n, page |-> [p \in Page |-> IF p <= n THEN f.page[p] ELSE ZeroPage]]

Played(f, recs) ==
  FoldLeft(LAMBDA g, r : [size |-> Max({g.size, r.pgno}),
                          page |-> [g.page EXCEPT ![r.pgno] = r.page]], f, recs)

Restored(n) == Played(pager_truncate(file, jrnl.orig), SubSeq(jrnl.recs, 1, n))

\* The file once hasHotJournal has found a journal that begins with its magic
\* number, and the records its headers count have been played back.
HotPlayback == Restored(jrnl.counted)

\* What the pages of the database would be read as after that.
Lost == -1
Contents ==
  LET f == IF jrnl.magic THEN HotPlayback ELSE file
  IN  [p \in 1..f.size |-> LET d == Decrypt(codec, f.page[p]) IN IF d.ok THEN d.data ELSE Lost]

-----------------------------------------------------------------------------
(***************************************************************************)
(* The database after its first transaction, which put its pages into the  *)
(* file in order, with no reader left.                                     *)
(***************************************************************************)
Created(contents) ==
  FoldLeft(LAMBDA st, d :
             LET e == Encrypt(st.codec, d, "none")
             IN  [codec |-> e.codec,
                  file  |-> [size |-> st.file.size + 1,
                             page |-> [st.file.page EXCEPT ![st.file.size + 1] = e.page]]],
           [codec |-> codec_ctx_init(mt_create),
            file  |-> [size |-> 0, page |-> [p \in Page |-> ZeroPage]]],
           contents)

Init ==
  /\ image \in UNION {[1..n -> Data] : n \in Page}
  /\ committed = image
  /\ codec = Created(image).codec
  /\ file = Created(image).file
  /\ eState = "OPEN" /\ errCode = FALSE /\ rc = "OK"
  /\ dbSize = 0
  /\ cache = EmptyCache
  /\ jrnl = NoJournal
  /\ saved = NoTree /\ server = FALSE /\ whole = TRUE

\* Takes the shared lock; a hot journal is played back and deleted first.
sqlite3PagerSharedLock ==
  /\ eState = "OPEN"
  /\ eState' = "READER"
  /\ file' = IF jrnl.magic THEN HotPlayback ELSE file
  /\ cache' = IF jrnl.magic /\ jrnl.counted > 0 THEN EmptyCache ELSE cache
  /\ jrnl' = IF jrnl.magic THEN NoJournal ELSE jrnl
  /\ dbSize' = file'.size
  /\ UNCHANGED <<codec, errCode, rc, image, committed, saved, server, whole>>

\* getPageNormal for a page that is not in the cache.  A verification that
\* aborts ends the process, and no file has changed.
sqlite3PagerGet(p) ==
  LET d == Decrypt(codec, file.page[p])
  IN  /\ eState \notin {"OPEN", "ERROR", "WRITER_FINISHED"} /\ ~errCode /\ rc = "OK"
      /\ ~d.abort
      /\ p <= dbSize /\ ~Cached(p)
      /\ cache' = [cache EXCEPT ![p] = Clean(d.data)]
      /\ errCode' = ~d.ok
      /\ eState' = IF d.ok THEN eState ELSE "ERROR"
      /\ UNCHANGED <<codec, rc, dbSize, file, jrnl, image, committed, saved, server, whole>>

\* The cache lets go of a clean page to make room; page 1 is in use for as
\* long as the lock is held.
Recycle(p) ==
  /\ Cached(p) /\ ~cache[p].dirty
  /\ p = 1 => eState = "OPEN"
  /\ cache' = [cache EXCEPT ![p] = NotCached]
  /\ UNCHANGED <<codec, eState, errCode, rc, dbSize, file, jrnl, image, committed,
                 saved, server, whole>>

\* The server writes no page of the database: its tables are temporary.
sqlite3PagerBegin ==
  /\ eState = "READER" /\ ~errCode /\ Cached(1) /\ ~server
  /\ eState' = "WRITER_LOCKED"
  /\ UNCHANGED <<codec, errCode, rc, dbSize, cache, file, jrnl, image, committed,
                 saved, server, whole>>

\* The layer above makes page p writeable and changes it.  A new page is
\* fetched without content.  A fault that hits no call is none.
sqlite3PagerWrite(p, d, fault) ==
  LET st == [codec |-> codec, eState |-> eState, errCode |-> FALSE, rc |-> "OK", dbSize |-> dbSize,
             cache |-> [cache EXCEPT ![p] = IF Cached(p) THEN @ ELSE Clean(Zeros)],
             jrnl  |-> jrnl]
  IN  /\ eState \in {"WRITER_LOCKED", "WRITER_CACHEMOD", "WRITER_DBMOD", "ERROR"} /\ rc = "OK"
      /\ cache[p].writeable \/ (~errCode /\ (Cached(p) \/ p = dbSize + 1))
      /\ \E w \in {IF cache[p].writeable THEN [st EXCEPT !.errCode = errCode]
                  ELSE pager_write(st, p, fault)} :
           /\ fault # "none" => w.errCode # errCode \/ w.rc = "ERROR"
           /\ mt_get_size(w.codec.mt) <= MaxLeaves
           /\ codec' = w.codec /\ eState' = w.eState /\ errCode' = w.errCode /\ rc' = w.rc
           /\ dbSize' = w.dbSize /\ jrnl' = w.jrnl
           /\ \/ /\ w.rc = "OK"
                 /\ cache' = [w.cache EXCEPT ![p].data = d]
                 /\ image' = [q \in 1..Len(image) \cup {p} |-> IF q = p THEN d ELSE image[q]]
              \/ /\ w.rc = "ERROR"
                 /\ cache' = IF Cached(p) THEN w.cache ELSE cache
                 /\ image' = image
      /\ UNCHANGED <<file, committed, saved, server, whole>>

\* The cache is full: a dirty page that is not in use is written out.  An
\* error goes through pager_error.
pagerStress(p, sync, fault) ==
  LET st == [codec |-> codec, eState |-> eState, errCode |-> FALSE, rc |-> "OK",
             cache |-> cache, jrnl |-> jrnl, file |-> file]
      s  == IF cache[p].sync \/ eState = "WRITER_CACHEMOD" THEN syncJournal(st, sync) ELSE st
  IN  /\ eState \in {"WRITER_CACHEMOD", "WRITER_DBMOD"} /\ ~errCode /\ rc = "OK"
      /\ p # 1 /\ cache[p].dirty
      /\ sync # "none" => s.rc = "ERROR" /\ fault = "none"
      /\ \E w \in {IF s.rc = "ERROR" THEN s ELSE pager_write_pagelist(s, {p}, (p :> fault))} :
           /\ mt_get_size(w.codec.mt) <= MaxLeaves
           /\ codec' = w.codec /\ jrnl' = w.jrnl /\ file' = w.file /\ rc' = w.rc
           /\ errCode' = (w.errCode \/ w.rc = "ERROR")
           /\ eState' = IF w.rc = "ERROR" THEN "ERROR" ELSE w.eState
           /\ cache' = IF w.rc = "ERROR" THEN w.cache ELSE MakeClean(w.cache, p)
      /\ UNCHANGED <<dbSize, image, committed, saved, server, whole>>

\* pager_incr_changecounter makes page 1 writeable, the journal is synced, the
\* dirty pages are written and the file is synced.  Any of them may fail and
\* end the call; a codec call that fails in the writes does not, and the state
\* becomes WRITER_FINISHED whatever the codec has made of it.
sqlite3PagerCommitPhaseOne(counter, sync) ==
  LET st == [codec |-> codec, eState |-> eState, errCode |-> FALSE, rc |-> "OK",
             dbSize |-> dbSize, cache |-> cache, jrnl |-> jrnl, file |-> file]
  IN  /\ eState \in {"WRITER_CACHEMOD", "WRITER_DBMOD"} /\ ~errCode /\ rc = "OK"
      /\ \E c \in {IF cache[1].writeable THEN st ELSE pager_write(st, 1, counter)} :
         \E s \in {IF c.rc = "ERROR" THEN c ELSE syncJournal(c, sync)} :
           /\ counter # "none" => c.errCode \/ c.rc = "ERROR"
           /\ \E fault \in [IF s.rc = "ERROR" THEN {} ELSE Dirty(s.cache) -> WriteFaults] :
              \E w \in {pager_write_pagelist(s, DOMAIN fault, fault)} :
                /\ mt_get_size(w.codec.mt) <= MaxLeaves
                /\ codec' = w.codec /\ jrnl' = w.jrnl /\ file' = w.file
                /\ errCode' = w.errCode
                /\ cache' = IF w.rc = "ERROR" THEN w.cache ELSE CleanAll(w.cache)
                /\ rc' = IF sync = "file" THEN "ERROR" ELSE w.rc
                /\ eState' = IF rc' = "ERROR" THEN w.eState ELSE "WRITER_FINISHED"
      /\ UNCHANGED <<dbSize, image, committed, saved, server, whole>>

\* pager_end_transaction: the journal is deleted and the file cut to dbSize.
sqlite3PagerCommitPhaseTwo ==
  /\ eState \in {"WRITER_LOCKED", "WRITER_FINISHED"} /\ ~errCode /\ rc = "OK"
  /\ eState' = "READER"
  /\ jrnl' = NoJournal
  /\ cache' = CleanAll(cache)
  /\ committed' = image
  /\ UNCHANGED <<codec, errCode, rc, dbSize, file, image, saved, server, whole>>

\* Every record is played back into the cache, and the synced ones into the
\* file if pages of it have been written.
sqlite3PagerRollback ==
  LET written == eState \in {"WRITER_DBMOD", "WRITER_FINISHED"}
      recs == {jrnl.recs[i] : i \in DOMAIN jrnl.recs}
      old(p) == {Decrypt(codec, r.page) : r \in {r \in recs : r.pgno = p /\ Cached(p)}}
      played == eState # "WRITER_LOCKED"
  IN  /\ eState \in {"WRITER_LOCKED", "WRITER_CACHEMOD", "WRITER_DBMOD", "WRITER_FINISHED"}
      /\ played => \A p \in Page : \A d \in old(p) : ~d.abort
      /\ file' = IF written THEN Restored(jrnl.synced) ELSE file
      /\ dbSize' = IF played THEN jrnl.orig ELSE dbSize
      /\ cache' = [p \in Page |->
                     CASE ~Cached(p) \/ p > dbSize' -> NotCached
                       [] Cached(p) /\ p <= dbSize' /\ played /\ old(p) # {} ->
                            Clean((CHOOSE d \in old(p) : TRUE).data)
                       [] OTHER -> Clean(cache[p].data)]
      /\ errCode' = (errCode \/ (played /\ \E p \in Page : \E d \in old(p) : ~d.ok))
      /\ eState' = "READER" /\ rc' = "OK"
      /\ jrnl' = NoJournal
      /\ image' = committed
      /\ UNCHANGED <<codec, committed, saved, server, whole>>

\* pager_unlock empties the cache if there was an error.
UnlockedKept == cache
Unlocked == IF errCode THEN EmptyCache ELSE cache

\* The last page in use is released.  A transaction that ran into an error is
\* given up, and its journal left in place.
pagerUnlockAndRollback ==
  /\ eState \in {"READER", "ERROR"}
  /\ eState' = "OPEN"
  /\ cache' = Unlocked
  /\ errCode' = FALSE /\ rc' = "OK"
  /\ image' = IF eState = "ERROR" THEN committed ELSE image
  /\ UNCHANGED <<codec, dbSize, file, jrnl, committed, saved, server, whole>>

\* The program that fills the database saves its tree, between transactions.
SaveTree ==
  /\ eState = "OPEN" /\ ~server
  /\ saved' = serialize_mt(codec.mt)
  /\ UNCHANGED <<codec, eState, errCode, rc, dbSize, cache, file, jrnl, image, committed,
                 server, whole>>

\* That program has ended or stopped, wherever it was, and its tree is gone:
\* the server opens the database and reads the tree that was saved.
TagsNumbered == codec.num_blocks = mt_get_size(codec.mt)
Restart ==
  /\ saved # NoTree /\ ~server
  /\ server' = TRUE
  /\ codec' = codec_ctx_init(deserialize_init_mt(saved))
  /\ whole' = (TagsNumbered /\ saved = serialize_mt(codec.mt))
  /\ eState' = "OPEN" /\ errCode' = FALSE /\ rc' = "OK"
  /\ dbSize' = 0
  /\ cache' = EmptyCache
  /\ image' = committed
  /\ UNCHANGED <<file, jrnl, committed, saved>>

Next ==
  \/ sqlite3PagerSharedLock
  \/ \E p \in Page : sqlite3PagerGet(p)
  \/ \E p \in Page : Recycle(p)
  \/ sqlite3PagerBegin
  \/ \E p \in Page, d \in Data, fault \in FaultAt("journal") : sqlite3PagerWrite(p, d, fault)
  \/ \E p \in Page, sync \in SyncFaultAt({"first", "second", "header"}),
        fault \in WriteFaults : pagerStress(p, sync, fault)
  \/ \E counter \in FaultAt("counter"), sync \in SyncFaultAt({"first", "second", "file"}) :
       sqlite3PagerCommitPhaseOne(counter, sync)
  \/ sqlite3PagerCommitPhaseTwo
  \/ sqlite3PagerRollback
  \/ pagerUnlockAndRollback
  \/ SaveTree
  \/ Restart

Spec == Init /\ [][Next]_vars

-----------------------------------------------------------------------------
\* Every variable keeps its type; no header of the journal counts a record that
\* is not there (syncJournal, sec_sqlite3.c:60850).
TypeOK ==
  /\ codec.num_blocks \in 0..MaxLeaves /\ mt_get_size(codec.mt) <= MaxLeaves
  /\ eState \in {"OPEN", "READER", "WRITER_LOCKED", "WRITER_CACHEMOD", "WRITER_DBMOD",
                 "WRITER_FINISHED", "ERROR"}
  /\ errCode \in BOOLEAN /\ rc \in {"OK", "ERROR"}
  /\ server \in BOOLEAN /\ whole \in BOOLEAN
  /\ dbSize \in 0..MaxPages /\ file.size \in 0..MaxPages
  /\ \A p \in Page : cache[p].data \in Data \cup {Zeros, -1}
  /\ jrnl.synced <= jrnl.counted /\ jrnl.counted <= Len(jrnl.recs)

\* A page in the cache is what the layer above has written, through writing
\* out, reading back and rolling back (unless an error has been reported).
CacheExact ==
  ~errCode => \A p \in Page : Cached(p) =>
                p \in DOMAIN image /\ cache[p].data = image[p]

\* sec_sqlite3.c:56651, (7): whenever the pager stops, what a reader finds after
\* the journal has been rolled back is what the last transaction committed, as
\* long as the tree has every tag under its number.  When it has not (mt_add
\* failed half way, or the process stopped with a tree it had not saved) a page
\* may be refused, but none is read as anything else.
Durable ==
  LET contents == Contents
  IN  /\ DOMAIN contents = DOMAIN committed
      /\ \A p \in DOMAIN committed : contents[p] \in {committed[p], Lost}
      /\ whole /\ TagsNumbered => contents = committed

=============================================================================
