-------------------------- MODULE RollbackJournal --------------------------
(***************************************************************************)
(* The pager of the data store in rollback-journal mode: the database file *)
(* and its journal, and connections that read, write, commit, roll back,   *)
(* spill pages, fail, end, and play back the journal another one left.     *)
(* A step is what a connection does between two accesses to what it        *)
(* shares.  The locks on the database file are those DatabaseLock          *)
(* promises.  The journal is a row of slots of one size, a header or a     *)
(* page record in each.  What is not yet synced may be lost with the       *)
(* power, each slot and each page on its own.                              *)
(***************************************************************************)
EXTENDS Naturals, Sequences, FiniteSets, FiniteSetsExt

CONSTANTS Conn,
          NPage, MaxVer, MaxSlot,  \* bounds: pages, write transactions, slots of the journal
          Environments,            \* the settings and surroundings to look at
          None

ASSUME RollbackJournalAssumption ==
  /\ {NPage, MaxVer, MaxSlot} \subseteq Nat \ {0}
  /\ None \notin Conn /\ None \notin [1..NPage -> [ver : 0..MaxVer, ctr : 0..MaxVer]]
  /\ \A e \in Environments :
       /\ e.writers \cup e.crashes \subseteq e.conns /\ e.conns \subseteq Conn
       /\ e.journal \in {"DELETE", "TRUNCATE", "PERSIST"}
       /\ e.sync \in {"NORMAL", "FULL", "EXTRA"}
       /\ {e.same, e.spills, e.fails, e.losses} \subseteq BOOLEAN
       /\ e.pages \in 1..NPage /\ e.orig \in 1..e.pages
       /\ e.vers \in 1..MaxVer /\ e.slots \in 1..MaxSlot

VARIABLES
  env,            \* chosen at first: who is there (conns, writers), PRAGMA journal_mode
                  \* (journal) and synchronous (sync), whether the connections are threads
                  \* of one process (same), and what happens: spills, failing writes,
                  \* processes that end (crashes), losses of power; the pages there are at
                  \* first (orig); and bounds (pages, vers, slots)
  mode,           \* the lock each connection holds on the database file
  jrnl, jpend,    \* the journal: is it there and what is in it, what each slot may be on disk
  older,          \* what the disk may hold instead of this journal: one that was
                  \* deleted or truncated since, or none
  db, dpend,      \* the database file, what each page may be on disk
  pc,
  cache,          \* the pages in a connection's page cache
  vers,           \* Pager.dbFileVers, the change counter
  tx,             \* the write transaction or the playback of a connection
  found,          \* connections whose journal is open since they played it back, and
                  \* was not created by them
  draw,           \* the last write transaction there was
  past, pending   \* history: committed contents, unacknowledged commits

files == <<jrnl, jpend, older, db, dpend>>
journal == <<jrnl, jpend, older>>
own == <<cache, vers, tx, found>>
history == <<past, pending>>
vars == <<env, mode, files, pc, own, draw, history>>

L == INSTANCE DatabaseLock WITH File <- Conn

Page == 1..NPage
Slot == 1..MaxSlot
FullSync == env.sync # "NORMAL"             \* Pager.fullSync and Pager.extraSync
ExtraSync == env.sync = "EXTRA"
\* Where a commit that has returned cannot be undone by a loss of power.
Durable == CASE env.journal = "DELETE" -> ExtraSync
             [] env.journal = "TRUNCATE" -> FullSync
             [] OTHER -> TRUE

\* A page: the transaction that wrote it, and on page 1 the change counter.
NoPage == [ver |-> 0, ctr |-> 0]
TornPage == [ver |-> MaxVer + 2, ctr |-> 0]
First == [p \in Page |-> IF p > env.orig THEN NoPage
                         ELSE [ver |-> 1, ctr |-> IF p = 1 THEN 1 ELSE 0]]
Size(d) == Max({0} \cup {p \in Page : d[p] # NoPage})

Nothing == [kind |-> "none"]            \* behind the end of the file
Torn == [kind |-> "torn"]
Header(magic, n, salt, size) ==
  [kind |-> "hdr", magic |-> magic, n |-> n, salt |-> salt, size |-> size]
Record(p, v, salt) == [kind |-> "rec", pg |-> p, val |-> v, salt |-> salt]
NoFile == [on |-> FALSE, at |-> [s \in Slot |-> Nothing]]

NoTx == [ver |-> 0, dirty |-> {}, needSync |-> {}, inJournal |-> {}, size |-> 0,
         hdr |-> 0, off |-> 0, dbmod |-> FALSE, goal |-> "none", todo |-> {}]

Init ==
  /\ env \in Environments
  /\ L!Init
  /\ jrnl = NoFile
  /\ jpend = [s \in Slot |-> {Nothing}]
  /\ older = {}
  /\ db = First
  /\ dpend = [p \in Page |-> {First[p]}]
  /\ pc = [c \in Conn |-> "idle"]
  /\ cache = [c \in Conn |-> [p \in Page |-> NoPage]]
  /\ vers = [c \in Conn |-> 0]
  /\ tx = [c \in Conn |-> NoTx]
  /\ found = {}
  /\ draw = 1
  /\ past = <<First>>
  /\ pending = {}

(***************************************************************************)
(* What a playback of the journal restores.                                *)
(***************************************************************************)
IsHeader_NoMagic(v) == v.kind = "hdr"  \* mutant: the magic is not compared
IsHeader(v) == v.kind = "hdr" /\ v.magic

\* The slots of the records pager_playback restores from journal f: header after
\* header, each with its records, up to one that is no header or fails its
\* checksum.  For a rollback of its own (mine = journalHdr, else 0) the pager
\* does not compare the magic of its last header, and one that counts no records
\* yet stands for all that follow.
Played(f, mine) ==
  LET last == Max({0} \cup {s \in Slot : f.at[s].kind # "none"})
      play[s \in 1..MaxSlot + 1] ==
        IF s > last \/ ~(IsHeader(f.at[s]) \/ (s = mine /\ f.at[s].kind = "hdr"))
        THEN {}
        ELSE LET h == f.at[s]
                 n == IF h.n = 0 /\ s = mine THEN last - s ELSE h.n
                 bad == {i \in s + 1..Min({s + n, last}) :
                           f.at[i].kind # "rec" \/ f.at[i].salt # h.salt}
             IN IF bad # {} THEN s + 1..Min(bad) - 1
                ELSE IF s + n > last THEN s + 1..last
                ELSE (s + 1..s + n) \cup play[s + n + 1]
  IN play[1]

Truncated(d, size) == [p \in Page |-> IF p > size THEN NoPage ELSE d[p]]

\* The journal is hot: its first byte is the magic's.
Hot == jrnl.on /\ IsHeader(jrnl.at[1])

\* The content a database file and its journal stand for.
Restored(f, d) ==
  IF ~(f.on /\ IsHeader(f.at[1])) THEN d
  ELSE [p \in Page |->
          LET s == {i \in Played(f, 0) : f.at[i].pg = p}
          IN IF s = {} THEN Truncated(d, f.at[1].size)[p] ELSE f.at[Max(s)].val]

(***************************************************************************)
(* Reads, writes and syncs of the two files.                               *)
(***************************************************************************)
Goto(c, l) == pc' = [pc EXCEPT ![c] = l]
Lower(c, level) == mode' = [mode EXCEPT ![c] = level]

\* The slots of w are written with what w says.
WriteJournal(w) ==
  /\ jrnl' = [on |-> TRUE, at |-> [s \in Slot |-> IF s \in DOMAIN w THEN w[s] ELSE jrnl.at[s]]]
  /\ jpend' = [s \in Slot |-> IF s \in DOMAIN w THEN jpend[s] \cup {w[s], Torn} ELSE jpend[s]]

\* xSync of the journal; that it was created or deleted is for its directory to say.
SyncFile == /\ jpend' = [s \in Slot |-> {jrnl.at[s]}]
            /\ older' = IF env.journal = "TRUNCATE" THEN older \cap {None} ELSE older

\* The first sync of a journal that was opened to be written (O_CREAT) is one of its
\* directory too.
SyncJournal_File(c) == SyncFile /\ jrnl' = jrnl  \* mutant: the directory is not synced
SyncJournal(c) == /\ IF c \in found THEN SyncFile
                     ELSE jpend' = [s \in Slot |-> {jrnl.at[s]}] /\ older' = {}
                  /\ jrnl' = jrnl

WriteDb(p, v) == /\ db' = [db EXCEPT ![p] = v]
                 /\ dpend' = [dpend EXCEPT ![p] = @ \cup {v, TornPage}]
TruncateDb(size) ==
  /\ db' = Truncated(db, size)
  /\ dpend' = [p \in Page |-> IF p > size THEN dpend[p] \cup {NoPage} ELSE dpend[p]]
SyncDb_Never == dpend' = dpend  \* mutant: the database file is not synced
SyncDb == dpend' = [p \in Page |-> {db[p]}]

Forget(c) == cache' = [cache EXCEPT ![c] = [p \in Page |-> NoPage]]

\* What a connection in a read transaction sees.
Seen(c) == [p \in Page |-> IF cache[c][p] = NoPage THEN db[p] ELSE cache[c][p]]

(***************************************************************************)
(* sqlite3PagerSharedLock.                                                 *)
(***************************************************************************)
\* A commit whose process ended before it returned is found here: history only.
Settle ==
  LET x == Restored(jrnl, db) IN
  IF x = past[Len(past)] THEN UNCHANGED history
  ELSE past' = Append(past, x) /\ pending' = IF Durable THEN {} ELSE pending

Share(c) ==
  /\ pc[c] = "idle"
  /\ L!Shared(c)
  /\ Goto(c, "hot1")
  /\ Settle
  /\ UNCHANGED <<files, own, draw>>

\* hasHotJournal: xAccess, then xCheckReservedLock, then the first byte.
HotExists(c) ==
  /\ pc[c] = "hot1"
  /\ Goto(c, IF jrnl.on THEN "hot2" ELSE "validate")
  /\ UNCHANGED <<mode, files, own, draw, history>>

\* Of another process only the RESERVED byte shows, which who plays a hot journal
\* back never takes; of this process any lock above SHARED.
ReservedElsewhere(c) ==
  \E d \in Conn \ {c} : mode[d] > L!SHARED /\ (env.same \/ tx[d].ver # 0)

\* unixCheckReservedLock
CheckReservedLock(c) == ReservedElsewhere(c)

HotReserved(c) ==
  /\ pc[c] = "hot2"
  /\ Goto(c, IF CheckReservedLock(c) THEN "validate" ELSE "hot3")
  /\ UNCHANGED <<mode, files, own, draw, history>>

\* A journal that is gone meanwhile counts as hot: ticket #3883.
HotRead(c) ==
  /\ pc[c] = "hot3"
  /\ \E hot \in IF jrnl.at[1] = Torn THEN BOOLEAN ELSE {~jrnl.on \/ Hot} :
       Goto(c, IF hot THEN "hotlock" ELSE "validate")
  /\ UNCHANGED <<mode, files, own, draw, history>>

\* EXCLUSIVE straight from SHARED; whoever fails keeps PENDING until it unlocks.
HotLock(c) ==
  /\ pc[c] = "hotlock"
  /\ L!Exclusive(c)
  /\ Goto(c, "hotopen")
  /\ UNCHANGED <<files, own, draw, history>>

HotBusy(c) ==
  /\ pc[c] = "hotlock"
  /\ ~L!OthersAtMost(c, L!NO_LOCK)
  /\ L!Pending(c) \/ UNCHANGED mode
  /\ Goto(c, "backoff")
  /\ UNCHANGED <<files, own, draw, history>>

BackOff(c) ==
  /\ pc[c] = "backoff"
  /\ Lower(c, L!NO_LOCK)
  /\ Goto(c, "idle")
  /\ UNCHANGED <<files, own, draw, history>>

\* pagerSyncHotJournal, then pager_playback up to its first record.
HotOpen(c) ==
  LET todo == Played(jrnl, 0) IN
  /\ pc[c] = "hotopen"
  /\ IF ~jrnl.on
     THEN /\ Lower(c, L!SHARED) /\ Goto(c, "validate")
          /\ UNCHANGED <<files, own>>
     ELSE /\ SyncFile
          /\ IF Hot THEN TruncateDb(jrnl.at[1].size) ELSE UNCHANGED <<db, dpend>>
          /\ IF todo = {} THEN cache' = cache ELSE Forget(c)
          /\ tx' = [tx EXCEPT ![c] = [NoTx EXCEPT !.goal = "hot", !.todo = todo,
                      !.dbmod = TRUE, !.hdr = MaxSlot + 1, !.off = IF Hot THEN 1 ELSE 0]]
          /\ found' = found \cup {c}
          /\ Goto(c, "play")
          /\ UNCHANGED <<mode, jrnl, vers>>
  /\ UNCHANGED <<draw, history>>

\* The cache is dropped if the counter is not the one it goes with; page 1 is
\* read next.
CacheIsStale_Never(c) == FALSE  \* mutant: the change counter is not compared
CacheIsStale(c) == vers[c] # db[1].ctr

Validate(c) ==
  LET kept == IF CacheIsStale(c) THEN [p \in Page |-> NoPage] ELSE cache[c]
      read == kept[1] = NoPage
  IN
  /\ pc[c] = "validate"
  /\ cache' = [cache EXCEPT ![c] = IF read THEN [kept EXCEPT ![1] = db[1]] ELSE kept]
  /\ vers' = [vers EXCEPT ![c] = IF read THEN db[1].ctr ELSE @]
  /\ Goto(c, "read")
  /\ UNCHANGED <<mode, files, tx, found, draw, history>>

Read(c, p) ==
  /\ pc[c] \in {"read", "write"}
  /\ cache[c][p] = NoPage /\ db[p] # NoPage
  /\ cache' = [cache EXCEPT ![c][p] = db[p]]
  /\ UNCHANGED <<mode, files, pc, vers, tx, found, draw, history>>

\* pager_unlock closes the journal.
EndRead(c) ==
  /\ pc[c] = "read"
  /\ Lower(c, L!NO_LOCK)
  /\ Goto(c, "idle")
  /\ found' = found \ {c}
  /\ UNCHANGED <<files, cache, vers, tx, draw, history>>

(***************************************************************************)
(* A write transaction.                                                    *)
(***************************************************************************)
\* sqlite3PagerBegin
Reserve(c) ==
  /\ c \in env.writers /\ pc[c] = "read" /\ draw < env.vers
  /\ ~ReservedElsewhere(c) /\ L!Reserved(c)
  /\ draw' = draw + 1
  /\ tx' = [tx EXCEPT ![c] = [NoTx EXCEPT !.ver = draw', !.size = Size(db)]]
  /\ Goto(c, "write")
  /\ UNCHANGED <<files, cache, vers, found, history>>

\* The page was there before the transaction and is not in the journal yet.
Journals_Fits(t, p) == p < t.size /\ p \notin t.inJournal  \* mutant: not the last page
Journals(t, p) == p <= t.size /\ p \notin t.inJournal

NeedSync_Appended(t, p) == p > t.size /\ ~t.dbmod  \* mutant: a new record needs no sync
\* PGHDR_NEED_SYNC: the journal is synced before the page may be written out.
NeedSync(t, p) == Journals(t, p) \/ (p > t.size /\ ~t.dbmod)

\* pager_write: the first page opens the journal, and the original of a page that
\* was there before the transaction goes into it.
Opened(t) == IF t.hdr = 0 THEN [t EXCEPT !.hdr = 1, !.off = 1] ELSE t
Writable(t, p) ==
  LET record == Journals(t, p) IN
  [Opened(t) EXCEPT !.dirty = @ \cup {p},
                    !.off = IF record THEN @ + 1 ELSE @,
                    !.inJournal = IF record THEN @ \cup {p} ELSE @,
                    !.needSync = IF NeedSync(t, p) THEN @ \cup {p} ELSE @]
MakeWritable(c, p) ==
  LET t == tx[c]
      new == Writable(t, p)
      header == IF t.hdr = 0 THEN {1} ELSE {}
      record == IF Journals(t, p) THEN {new.off} ELSE {}
  IN
  /\ new.off <= env.slots
  /\ WriteJournal([s \in header \cup record |->
       IF s \in record THEN Record(p, cache[c][p], <<t.ver, new.hdr>>)
                       ELSE Header(FALSE, 0, <<t.ver, 1>>, t.size)])
  /\ older' = IF jrnl.on THEN older ELSE older \cup {None}

Modify(c, p) ==
  /\ pc[c] = "write" /\ p \in 1..env.pages \ tx[c].dirty
  /\ cache[c][p] # NoPage \/ p = Max({Size(db)} \cup tx[c].dirty) + 1
  /\ MakeWritable(c, p)
  /\ tx' = [tx EXCEPT ![c] = Writable(@, p)]
  /\ cache' = [cache EXCEPT ![c][p].ver = tx[c].ver]
  /\ UNCHANGED <<mode, db, dpend, pc, vers, found, draw, history>>

\* pagerStress: one dirty page is written out to make room; page 1 is pinned.
Spill(c, p) ==
  /\ env.spills /\ pc[c] = "write" /\ p \in tx[c].dirty \ {1}
  /\ LET sync == p \in tx[c].needSync \/ ~tx[c].dbmod IN
     /\ sync => tx[c].off < env.slots
     /\ Goto(c, IF sync THEN "excl" ELSE "store")
  /\ tx' = [tx EXCEPT ![c].goal = "spill", ![c].todo = {p}]
  /\ UNCHANGED <<mode, files, cache, vers, found, draw, history>>

\* sqlite3PagerCommitPhaseOne: the change counter makes page 1 dirty too.
Commit(c) ==
  /\ pc[c] = "write" /\ tx[c].hdr # 0
  /\ MakeWritable(c, 1)
  /\ tx' = [tx EXCEPT ![c] = [Writable(@, 1) EXCEPT !.goal = "commit",
                                                    !.todo = tx[c].dirty \cup {1}]]
  /\ cache' = [cache EXCEPT ![c][1].ctr = vers[c] + 1]
  /\ Goto(c, "excl")
  /\ UNCHANGED <<mode, db, dpend, vers, found, draw, history>>

(***************************************************************************)
(* syncJournal and pager_write_pagelist.                                   *)
(***************************************************************************)
Excl(c) ==
  /\ pc[c] = "excl"
  /\ L!Exclusive(c) \/ (mode[c] = L!EXCLUSIVE /\ UNCHANGED mode)
  /\ Goto(c, "next")
  /\ UNCHANGED <<files, own, draw, history>>

\* A commit or a spill that gets SQLITE_BUSY; the lock it has got so far stays.
ExclBusy(c) ==
  /\ pc[c] = "excl"
  /\ ~L!OthersAtMost(c, L!NO_LOCK)
  /\ L!Pending(c) \/ UNCHANGED mode
  /\ Goto(c, "write")
  /\ tx' = [tx EXCEPT ![c].goal = "none", ![c].todo = {}]
  /\ UNCHANGED <<files, cache, vers, found, draw, history>>

ZeroNext_Never(s) == <<>>  \* mutant: a header of an older transaction stays
\* One byte of a header left right behind the records is zeroed.
ZeroNext(s) == IF s \in Slot /\ IsHeader(jrnl.at[s])
               THEN [i \in {s} |-> [jrnl.at[s] EXCEPT !.magic = FALSE]] ELSE <<>>

ClearNext(c) ==
  /\ pc[c] = "next"
  /\ WriteJournal(ZeroNext(tx[c].off + 1))
  /\ Goto(c, IF FullSync THEN "fullsync" ELSE "nrec")
  /\ UNCHANGED <<mode, older, db, dpend, own, draw, history>>

FirstSync(c) ==
  /\ pc[c] = "fullsync"
  /\ SyncJournal(c)
  /\ Goto(c, "nrec")
  /\ UNCHANGED <<mode, db, dpend, own, draw, history>>

WriteNRec(c) ==
  LET t == tx[c] IN
  /\ pc[c] = "nrec"
  /\ WriteJournal([s \in {t.hdr} |-> [jrnl.at[s] EXCEPT !.magic = TRUE, !.n = t.off - s]])
  /\ Goto(c, "jsync")
  /\ UNCHANGED <<mode, older, db, dpend, own, draw, history>>

\* After a spill the journal goes on with a header of its own.
JournalSync(c) ==
  LET t == tx[c]
      more == t.goal = "spill"
  IN
  /\ pc[c] = "jsync"
  /\ SyncJournal(c)
  /\ tx' = [tx EXCEPT ![c] = [t EXCEPT !.hdr = t.off + 1, !.needSync = {}, !.dbmod = TRUE]]
  /\ Goto(c, IF more THEN "newhdr" ELSE "store")
  /\ UNCHANGED <<mode, db, dpend, cache, vers, found, draw, history>>

NewHeader(c) ==
  LET t == tx[c] IN
  /\ pc[c] = "newhdr"
  /\ WriteJournal([s \in {t.hdr} |-> Header(FALSE, 0, <<t.ver, s>>, t.size)])
  /\ tx' = [tx EXCEPT ![c].off = t.hdr]
  /\ Goto(c, "store")
  /\ UNCHANGED <<mode, older, db, dpend, cache, vers, found, draw, history>>

\* One page, in the order of their numbers.  A spilled page leaves the cache.
StorePage(c) ==
  LET t == tx[c]
      p == Min(t.todo)
      last == t.todo = {p}
  IN
  /\ pc[c] = "store"
  /\ WriteDb(p, cache[c][p])
  /\ vers' = [vers EXCEPT ![c] = IF p = 1 THEN cache[c][p].ctr ELSE @]
  /\ IF t.goal = "spill"
     THEN /\ cache' = [cache EXCEPT ![c][p] = NoPage]
          /\ tx' = [tx EXCEPT ![c].dirty = @ \ {p}, ![c].todo = {}, ![c].goal = "none"]
     ELSE /\ cache' = cache
          /\ tx' = [tx EXCEPT ![c].todo = @ \ {p}]
  /\ Goto(c, CASE ~last -> "store" [] last /\ t.goal = "spill" -> "write" [] OTHER -> "dbsync")
  /\ UNCHANGED <<mode, journal, found, draw, history>>

\* From here on the commit may be there after a crash.
DbSync(c) ==
  /\ pc[c] = "dbsync"
  /\ SyncDb
  /\ pending' = pending \cup {<<Len(past), db>>}
  /\ Goto(c, "final")
  /\ UNCHANGED <<mode, journal, db, own, draw, past>>

(***************************************************************************)
(* sqlite3PagerRollback and pager_playback.                                *)
(***************************************************************************)
StartRollback(c) ==
  LET t == tx[c] IN
  /\ tx' = [tx EXCEPT ![c].goal = "rollback", ![c].todo = Played(jrnl, t.hdr)]
  /\ IF t.dbmod THEN TruncateDb(t.size) ELSE UNCHANGED <<db, dpend>>
  /\ Goto(c, "play")
  /\ UNCHANGED <<mode, journal, cache, vers, found, draw, history>>

Rollback(c) ==
  /\ pc[c] = "write" /\ tx[c].hdr # 0
  /\ StartRollback(c)

\* A record whose header has not been synced goes into the cache alone.
IsSynced(t, s) == s < t.hdr

PlayPage(c) ==
  LET t == tx[c]
      s == Min(t.todo)
      p == jrnl.at[s].pg
      v == jrnl.at[s].val
      cached == cache[c][p] # NoPage
  IN
  /\ pc[c] = "play" /\ t.todo # {}
  /\ IF t.dbmod /\ IsSynced(t, s) THEN WriteDb(p, v) ELSE UNCHANGED <<db, dpend>>
  /\ cache' = IF cached THEN [cache EXCEPT ![c][p] = v] ELSE cache
  /\ vers' = [vers EXCEPT ![c] = IF cached /\ p = 1 THEN v.ctr ELSE @]
  /\ tx' = [tx EXCEPT ![c].todo = @ \ {s}]
  /\ UNCHANGED <<mode, journal, pc, found, draw, history>>

PlayEnd(c) ==
  /\ pc[c] = "play" /\ tx[c].todo = {}
  /\ IF tx[c].dbmod THEN SyncDb ELSE UNCHANGED dpend
  /\ Goto(c, "final")
  /\ UNCHANGED <<mode, journal, db, own, draw, history>>

(***************************************************************************)
(* pager_end_transaction: a commit is one when the journal is finalized.   *)
(***************************************************************************)
\* The locks go down to SHARED; pages behind the end of the file leave the cache.
\* A journal that is deleted has been closed.
EndTransaction(c) ==
  LET hot == tx[c].goal = "hot" IN
  /\ Lower(c, L!SHARED)
  /\ Goto(c, IF hot THEN "validate" ELSE "read")
  /\ tx' = [tx EXCEPT ![c] = NoTx]
  /\ found' = IF env.journal = "DELETE" THEN found \ {c} ELSE found
  /\ cache' = [cache EXCEPT ![c] = IF tx[c].goal = "rollback" THEN Truncated(@, tx[c].size) ELSE @]
  /\ IF tx[c].goal = "commit"
     THEN past' = Append(past, db) /\ pending' = IF Durable THEN {} ELSE pending
     ELSE UNCHANGED history

\* Nothing was written.
EndUnchanged(c) ==
  /\ pc[c] = "write" /\ tx[c].hdr = 0
  /\ EndTransaction(c)
  /\ UNCHANGED <<files, vers, draw>>

\* A journal deleted or truncated may still be on the disk as it was.
Removed(on) == /\ jrnl' = [NoFile EXCEPT !.on = on]
               /\ jpend' = [s \in Slot |-> {Nothing}]
               /\ older' = older \cup {jpend}
ZeroHeader == Header(FALSE, 0, <<0, 0>>, 0)

SyncsFinal_Never == FALSE  \* mutant: a finalized journal is not synced
\* Whether finalizing the journal ends with a sync.
SyncsFinal == Durable

Final(c) ==
  /\ pc[c] = "final"
  /\ CASE env.journal = "DELETE" -> Removed(FALSE)
       [] env.journal = "TRUNCATE" /\ tx[c].off # 0 -> Removed(TRUE)
       [] env.journal = "PERSIST" /\ tx[c].off # 0 -> WriteJournal([s \in {1} |-> ZeroHeader]) /\ older' = older
       [] OTHER -> UNCHANGED journal
  /\ IF SyncsFinal /\ (env.journal = "DELETE" \/ tx[c].off # 0)
     THEN Goto(c, "finsync") /\ UNCHANGED <<mode, cache, tx, found, history>>
     ELSE EndTransaction(c)
  /\ UNCHANGED <<db, dpend, vers, draw>>

FinSync(c) ==
  /\ pc[c] = "finsync"
  /\ IF env.journal = "DELETE" THEN older' = {} /\ UNCHANGED <<jrnl, jpend>>
                               ELSE SyncJournal(c)
  /\ EndTransaction(c)
  /\ UNCHANGED <<db, dpend, vers, draw>>

(***************************************************************************)
(* Failures, crashes, and the loss of power.                               *)
(***************************************************************************)
\* A commit that fails before its journal is finalized is rolled back.
CommitFails(c) ==
  /\ env.fails /\ tx[c].goal = "commit"
  /\ pc[c] \in {"next", "fullsync", "nrec", "jsync", "store", "dbsync"}
  /\ StartRollback(c)

\* Every other failure is an ERROR state; finalizing drops the lock to SHARED first.
Error(c) ==
  /\ env.fails
  /\ \/ tx[c].goal = "spill" /\ pc[c] \in {"next", "fullsync", "nrec", "jsync", "newhdr", "store"}
     \/ pc[c] \in {"hotopen", "play", "final", "finsync"}
  /\ IF pc[c] \in {"final", "finsync"} THEN Lower(c, L!SHARED) ELSE UNCHANGED mode
  /\ tx' = [tx EXCEPT ![c] = NoTx]
  /\ Goto(c, "error")
  /\ UNCHANGED <<files, cache, vers, found, draw, history>>

\* pager_unlock in the ERROR state.
Unlock(c) ==
  /\ pc[c] = "error"
  /\ Lower(c, L!NO_LOCK)
  /\ Forget(c)
  /\ found' = found \ {c}
  /\ Goto(c, "idle")
  /\ UNCHANGED <<files, vers, tx, draw, history>>

Ended(D) ==
  /\ mode' = [c \in Conn |-> IF c \in D THEN L!NO_LOCK ELSE mode[c]]
  /\ pc' = [c \in Conn |-> IF c \in D THEN "idle" ELSE pc[c]]
  /\ cache' = [c \in Conn |-> IF c \in D THEN [p \in Page |-> NoPage] ELSE cache[c]]
  /\ vers' = [c \in Conn |-> IF c \in D THEN 0 ELSE vers[c]]
  /\ tx' = [c \in Conn |-> IF c \in D THEN NoTx ELSE tx[c]]
  /\ found' = found \ D
  /\ draw' = draw

Crash(c) ==
  /\ c \in env.crashes /\ pc[c] # "idle"
  /\ Ended(IF env.same THEN Conn ELSE {c})
  /\ UNCHANGED <<files, history>>

\* What the disk may hold: any journal the directory may name, each slot and each
\* page as it may be.
Outcomes(f, n) ==
  LET seq[i \in 0..n] == IF i = 0 THEN {<<>>}
                         ELSE {Append(q, v) : q \in seq[i - 1], v \in f[i]}
  IN seq[n]
JournalsOnDisk ==
  UNION {IF f = None THEN {NoFile}
         ELSE {[on |-> TRUE, at |-> q] : q \in Outcomes(f, MaxSlot)} :
           f \in older \cup {IF jrnl.on THEN jpend ELSE None}}
PagesOnDisk == Outcomes(dpend, NPage)

\* The history that ends with content x: a prefix of the old one, or one more commit.
Reached(x) ==
  LET old == {n \in 1..Len(past) : past[n] = x}
      new == {n \in 1..Len(past) : <<n, x>> \in pending}
  IN IF old # {} THEN SubSeq(past, 1, Max(old))
     ELSE Append(IF new = {} THEN past ELSE SubSeq(past, 1, Max(new)), x)

PowerLoss ==
  /\ env.losses
  /\ \E f \in JournalsOnDisk, d \in PagesOnDisk :
       /\ jrnl' = f /\ db' = d
       /\ past' = Reached(Restored(f, d))
  /\ jpend' = [s \in Slot |-> {jrnl'.at[s]}]
  /\ dpend' = [p \in Page |-> {db'[p]}]
  /\ older' = {} /\ pending' = {}
  /\ Ended(Conn)

Step ==
  \/ \E c \in env.conns :
       \/ Share(c) \/ HotExists(c) \/ HotReserved(c) \/ HotRead(c) \/ HotLock(c)
       \/ HotBusy(c) \/ BackOff(c) \/ HotOpen(c) \/ Validate(c) \/ EndRead(c)
       \/ Reserve(c) \/ Commit(c) \/ Excl(c) \/ ExclBusy(c) \/ ClearNext(c)
       \/ FirstSync(c) \/ WriteNRec(c) \/ JournalSync(c) \/ NewHeader(c) \/ StorePage(c)
       \/ DbSync(c) \/ Rollback(c) \/ PlayPage(c) \/ PlayEnd(c) \/ EndUnchanged(c)
       \/ Final(c) \/ FinSync(c) \/ CommitFails(c) \/ Error(c) \/ Unlock(c) \/ Crash(c)
       \/ \E p \in Page : Read(c, p) \/ Modify(c, p) \/ Spill(c, p)
  \/ PowerLoss

Next == Step /\ UNCHANGED env

Spec == Init /\ [][Next]_vars

(***************************************************************************)
(* Properties.                                                             *)
(***************************************************************************)
Pages == [ver : 0..MaxVer + 2, ctr : 0..MaxVer + 2]
IsSlot(v) ==
  \/ v \in {Nothing, Torn}
  \/ v.kind = "hdr" /\ v.magic \in BOOLEAN /\ v.n \in 0..MaxSlot /\ v.size \in 0..NPage
  \/ v.kind = "rec" /\ v.pg \in Page /\ v.val \in Pages

\* Every variable is of its type; what a file holds is among what it may hold on
\* disk, and a transaction's offsets stay within the journal.
TypeOK ==
  /\ mode \in [Conn -> L!NO_LOCK..L!EXCLUSIVE]
  /\ jrnl.on \in BOOLEAN
  /\ \A s \in Slot : jrnl.at[s] \in jpend[s] /\ \A v \in jpend[s] : IsSlot(v)
  /\ db \in [Page -> Pages] /\ \A p \in Page : db[p] \in dpend[p] /\ dpend[p] \subseteq Pages
  /\ cache \in [Conn -> [Page -> Pages]]
  /\ vers \in [Conn -> 0..MaxVer + 2]
  /\ found \subseteq Conn
  /\ draw \in 1..MaxVer
  /\ \A c \in Conn :
       /\ tx[c].dirty \subseteq Page /\ tx[c].needSync \subseteq Page
       /\ tx[c].inJournal \subseteq 1..tx[c].size
       /\ tx[c].hdr \in 0..MaxSlot + 1 /\ tx[c].off \in 0..MaxSlot

Committed == {past[n] : n \in 1..Len(past)} \cup {t[2] : t \in pending}

\* Note (7) on the design of the pager: whatever part of the unsynced changes to
\* the journal is lost, playing it back gives a committed content, never a part of
\* a transaction.
JournalRollsBack ==
  \A f \in JournalsOnDisk, d \in PagesOnDisk : Restored(f, d) \in Committed

\* The same wherever power may be lost, and a commit that has returned lasts where
\* the mode promises it.
PowerSafe ==
  env.losses => \A f \in JournalsOnDisk, d \in PagesOnDisk :
    LET x == Restored(f, d) IN
    /\ x \in Committed
    /\ Durable => x = past[Len(past)] \/ <<Len(past), x>> \in pending

\* "Even if a read-transaction is not open, it is guaranteed that there is no
\* hot-journal": nobody reads a database a journal has yet to be played back into.
NoHotJournalWhileReading == \A c \in Conn : pc[c] = "read" => ~Hot

\* What holds between any two steps of the pagers: the types, and that.
PagerInvariant == TypeOK /\ NoHotJournalWhileReading

\* Notes (9) and (13): what a reader has in its page cache is what the database
\* file holds, however long ago it was read and whatever was rolled back since.
CacheIsCurrent ==
  \A c \in Conn, p \in Page :
    pc[c] = "read" /\ cache[c][p] # NoPage => cache[c][p] = db[p]

\* Note (1): a page of the database file is overwritten only when its original is
\* in a journal that is synced, or when it was not there before the transaction.
OverwritesOnlyJournalled ==
  [][\A p \in Page : db'[p] # db[p] /\ pc' # [c \in Conn |-> "idle"] =>
       \/ \A c \in Conn : tx[c].ver = 0 \/ tx[c].goal = "rollback"
       \/ \E c \in Conn : tx[c].ver # 0 /\ p > tx[c].size
       \/ \E s \in Played(jrnl, 0) : /\ jrnl.at[s].pg = p /\ jpend[s] = {jrnl.at[s]}]_vars

Content == {[p \in Page |-> [ver |-> v[p], ctr |-> IF p = 1 THEN n ELSE 0]] :
              v \in [Page -> 0..MaxVer], n \in 1..MaxVer}

\* What the pager promises as a whole: snapshots for readers, one writer at a time
\* that starts from the newest content, and commits that are whole or not at all
\* through crashes and losses of power.
Store == INSTANCE SnapshotStore WITH
  durable <- Durable,
  snap <- [c \in Conn |-> IF pc[c] = "read" THEN Seen(c) ELSE None],
  writer <- IF \E c \in Conn : tx[c].ver # 0
            THEN CHOOSE c \in Conn : tx[c].ver # 0 ELSE None
ImplementsSnapshotStore == Store!Spec
=============================================================================
