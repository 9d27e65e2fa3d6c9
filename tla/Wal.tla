-------------------------------- MODULE Wal --------------------------------
(***************************************************************************)
(* The write-ahead log of the data store: the wal file and the database    *)
(* file, the wal-index in shared memory, and connections, each a process   *)
(* of its own, that read, write, check the log out into the database and   *)
(* recover the wal-index.  A step is what a connection does between two    *)
(* accesses to what it shares.  The locks are those ShmLock promises: an   *)
(* exclusive lock excludes every other holder.  A page is a version        *)
(* number, a checksum the chain of the frames it covers.                   *)
(***************************************************************************)
EXTENDS Naturals, Sequences, FiniteSets, FiniteSetsExt

CONSTANTS Conn,
          Page,                    \* the pages, a set of numbers
          NReader,                 \* WAL_NREADER
          MaxFrame, MaxVer, MaxSalt,  \* bounds: frames, page versions, salts
          Environments,            \* the settings and surroundings to look at
          None

ASSUME WalAssumption ==
  /\ Page \subseteq Nat \ {0} /\ IsFiniteSet(Page) /\ Page # {}
  /\ NReader \in Nat /\ NReader >= 3
  /\ {MaxFrame, MaxVer, MaxSalt} \subseteq Nat
  /\ None \notin [Page -> 0..MaxVer] /\ None \notin Conn
  /\ \A e \in Environments :
       /\ e.writers \cup e.checkpointers \cup e.crashes \subseteq e.conns /\ e.conns \subseteq Conn
       /\ e.modes \subseteq {"PASSIVE", "FULL", "TRUNCATE"}
       /\ {e.full, e.spills, e.fails, e.losses} \subseteq BOOLEAN
       /\ e.frames \in 0..MaxFrame /\ e.vers \in 0..MaxVer /\ e.salts \in 0..MaxSalt

VARIABLES
  env,        \* chosen at first: who is there (conns, writers, checkpointers), the modes
              \* of checkpoints, synchronous=FULL (full), and what happens: spills, failing
              \* writes, processes that end (crashes), losses of power; and bounds
              \* (frames, vers, salts)
  head,       \* the two copies of the WalIndexHdr
  nBackfill, mark,    \* WalCkptInfo: nBackfill, aReadMark[1..]
  idx,        \* aPgno: the page of a frame, 0 for none
  wal, db,    \* the files as the system shows them: [salt, first, frame], page -> version
  disk,       \* the files as they last were synced: [wal, db]
  excl, slot, \* shm locks held exclusively, the read lock held shared
  pc, hdr, minFrame,  \* of a connection: where it is, pWal->hdr, pWal->minFrame
  cand,       \* walTryBeginRead: mxI and mxReadMark
  tx,         \* sqlite3WalFrames: its locals and pWal->iReCksum
  ck,         \* walCheckpoint: its locals
  content,    \* the pages as the pager of a connection has them
  fresh,      \* pWal->nCkpt = 0: no salt of this connection's own yet
  vers, salts,        \* the last version and the last random salt drawn
  past, pending       \* history: committed contents, unacknowledged commits

shm == <<head, nBackfill, mark, idx>>
files == <<wal, db, disk>>
locks == <<excl, slot>>
read == <<hdr, minFrame, cand>>
draws == <<fresh, vers, salts>>
history == <<past, pending>>
vars == <<env, shm, files, locks, pc, read, tx, ck, content, draws, history>>

Frames == 1..MaxFrame
Marks == 1..NReader - 1
NotUsed == MaxFrame + 1      \* READMARK_NOT_USED: above every frame
Idle == NReader              \* readLock = -1
WRITE == NReader + 1         \* WAL_WRITE_LOCK and WAL_CKPT_LOCK
CKPT == NReader + 2
Lock == {WRITE, CKPT} \cup 0..NReader - 1     \* 0.. are WAL_READ_LOCK(0)..
Content == [Page -> 0..MaxVer]

NoCksum == [salt |-> 0, chain |-> <<>>]
ZeroHdr == [init |-> FALSE, mx |-> 0, salt |-> 0, chg |-> 0, cksum |-> NoCksum]
NoFrame == [pg |-> 0, ver |-> 0, com |-> FALSE, cksum |-> NoCksum]
NoWal == [salt |-> 0, first |-> TRUE, frame |-> [i \in Frames |-> NoFrame]]
NoTx == [list |-> {}, com |-> FALSE, first |-> 0, app |-> <<>>, reck |-> 0]
NoCk == [mode |-> "PASSIVE", at |-> 0, seen |-> 0, safe |-> 0, base |-> 0,
         iter |-> [p \in Page |-> 0]]
NoCand == [i |-> 0, m |-> 0]

Init ==
  /\ env \in Environments
  /\ head = [k \in {0, 1} |-> ZeroHdr]
  /\ nBackfill = 0
  /\ mark = [i \in Marks |-> 0]
  /\ idx = [i \in Frames |-> 0]
  /\ wal = NoWal
  /\ db = [p \in Page |-> 0]
  /\ disk = [wal |-> NoWal, db |-> [p \in Page |-> 0]]
  /\ excl = [c \in Conn |-> {}]
  /\ slot = [c \in Conn |-> Idle]
  /\ pc = [c \in Conn |-> "idle"]
  /\ hdr = [c \in Conn |-> ZeroHdr]
  /\ minFrame = [c \in Conn |-> 0]
  /\ cand = [c \in Conn |-> NoCand]
  /\ tx = [c \in Conn |-> NoTx]
  /\ ck = [c \in Conn |-> NoCk]
  /\ content = [c \in Conn |-> None]
  /\ fresh = [c \in Conn |-> TRUE]
  /\ vers = 0
  /\ salts = 0
  /\ past = <<[p \in Page |-> 0]>>
  /\ pending = {}

(***************************************************************************)
(* Locks and the contents of the log.                                      *)
(***************************************************************************)
CanShare(c, i) == \A d \in Conn \ {c} : i \notin excl[d]
\* Not even the caller may hold one of the locks: unixShmLock asks them all.
CanExcl(c, L) == /\ L \cap excl[c] = {}
                 /\ \A d \in Conn \ {c} : L \cap excl[d] = {} /\ slot[d] \notin L
Readers == Marks             \* WAL_READ_LOCK(1), WAL_NREADER-1

HeadIsGood == head[0] = head[1] /\ head[0].init

\* What a checksum covers of a frame.
Entry(f) == <<f.pg, f.ver, f.com>>
Extend(s, f) == [s EXCEPT !.chain = Append(@, Entry(f))]
\* The checksum walDecodeFrame computes for frame n of the wal file.
CksumTo(w, n) ==
  [salt |-> w.salt, chain |-> [i \in 1..n |-> Entry(w.frame[i])]]
ValidTo(w, n) ==
  w.salt # 0 /\ \A i \in 1..n : w.frame[i].cksum = CksumTo(w, i)
LastCommit_Unchecked(w) ==  \* mutant: a frame left over from an older log counts
  Max({0} \cup {n \in Frames : w.frame[n].com /\ w.frame[1].pg # 0})

\* walIndexRecover: the last valid commit frame.
LastCommit(w) == Max({0} \cup {n \in Frames : w.frame[n].com /\ ValidTo(w, n)})
\* The content a recovery of these files finds.
Recovered(w, d) ==
  [p \in Page |->
     LET fs == {i \in 1..LastCommit(w) : w.frame[i].pg = p}
     IN IF fs = {} THEN d[p] ELSE w.frame[Max(fs)].ver]

\* sqlite3WalFindFrame
FindFrame(c, p) ==
  IF hdr[c].mx = 0 \/ slot[c] = 0 THEN 0
  ELSE Max({0} \cup {i \in minFrame[c]..hdr[c].mx : idx[i] = p})
\* What the connection reads from the files.
View(c) ==
  [p \in Page |-> IF FindFrame(c, p) = 0 THEN db[p]
                  ELSE wal.frame[FindFrame(c, p)].ver]

HeaderKept_Any(c) == TRUE  \* mutant: the header is not compared
\* memcmp: the header is the one the connection has read.
HeaderKept(c) == head[0] = hdr[c]

AllBackfilled_Less(c) == nBackfill <= hdr[c].mx  \* mutant: the wrong comparison
AllBackfilled(c) == nBackfill = hdr[c].mx

Goto(c, l) == pc' = [pc EXCEPT ![c] = l]
Release(c, L) == excl' = [excl EXCEPT ![c] = @ \ L]
Take(c, L) == CanExcl(c, L) /\ excl' = [excl EXCEPT ![c] = @ \cup L]

(***************************************************************************)
(* sqlite3WalBeginReadTransaction: walTryBeginRead until it succeeds.      *)
(***************************************************************************)
\* walIndexReadHdr finds two equal copies.
ReadHdr(c) ==
  /\ HeadIsGood
  /\ \/ pc[c] = "idle" /\ Goto(c, "choose")
     \/ pc[c] = "ckhdr" /\ Goto(c, "ckinfo")
  /\ hdr' = [hdr EXCEPT ![c] = head[0]]
  /\ UNCHANGED <<shm, files, locks, minFrame, cand, tx, ck, content, draws, history>>

\* Nothing of the log is needed when all of it has been backfilled.
Choose(c) ==
  /\ pc[c] = "choose"
  /\ Goto(c, IF AllBackfilled(c) THEN "lock0" ELSE "pick")
  /\ UNCHANGED <<shm, files, locks, read, tx, ck, content, draws, history>>

Lock0(c) ==
  /\ pc[c] = "lock0"
  /\ IF CanShare(c, 0)
     THEN slot' = [slot EXCEPT ![c] = 0] /\ Goto(c, "check0")
     ELSE slot' = slot /\ Goto(c, "pick")
  /\ UNCHANGED <<shm, files, excl, read, tx, ck, content, draws, history>>

\* A reader that got its lock, if the header has not changed since it was read.
\* A writer comes from walRestartLog and goes on with its frames.
Begun(c, same) ==
  LET writing == content[c] # None IN
  /\ slot' = [slot EXCEPT ![c] = IF same THEN @ ELSE Idle]
  /\ Goto(c, CASE same /\ writing -> "walhdr" [] same /\ ~writing -> "read"
               [] ~same /\ writing -> "pick" [] OTHER -> "idle")
  /\ content' = [content EXCEPT ![c] =
                   IF same /\ ~writing THEN past[Len(past)] ELSE @]

Check0(c) ==
  /\ pc[c] = "check0"
  /\ Begun(c, HeaderKept(c))
  /\ UNCHANGED <<shm, files, excl, read, tx, ck, draws, history>>

Fit(c) == {i \in Marks : mark[i] <= hdr[c].mx}

\* The largest mark not above the snapshot, the later one of two equal ones;
\* when it is below the snapshot, the first mark whose lock is free is raised.
Pick(c) ==
  LET mx == hdr[c].mx
      best == Max({0} \cup {mark[i] : i \in Fit(c)})
      at == Max({0} \cup {i \in Fit(c) : mark[i] = best})
      free == {i \in Marks : CanExcl(c, {i})}
  IN
  /\ pc[c] = "pick"
  /\ IF at # 0 /\ best >= mx
     THEN Goto(c, "share") /\ cand' = [cand EXCEPT ![c] = [i |-> at, m |-> best]] /\ excl' = excl
     ELSE IF free # {}
     THEN /\ Take(c, {Min(free)}) /\ Goto(c, "setmark")
          /\ cand' = [cand EXCEPT ![c] = [i |-> Min(free), m |-> mx]]
     ELSE /\ excl' = excl
          /\ IF at # 0
             THEN Goto(c, "share") /\ cand' = [cand EXCEPT ![c] = [i |-> at, m |-> best]]
             ELSE Goto(c, IF content[c] = None THEN "idle" ELSE "pick") /\ cand' = cand
  /\ UNCHANGED <<shm, files, slot, hdr, minFrame, tx, ck, content, draws, history>>

SetMark(c) ==
  /\ pc[c] = "setmark"
  /\ mark' = [mark EXCEPT ![cand[c].i] = cand[c].m]
  /\ Release(c, {cand[c].i})
  /\ Goto(c, "share")
  /\ UNCHANGED <<head, nBackfill, idx, files, slot, read, tx, ck, content, draws, history>>

\* minFrame is read after the lock is taken and before the header is compared.
Share(c) ==
  /\ pc[c] = "share"
  /\ IF CanShare(c, cand[c].i)
     THEN /\ slot' = [slot EXCEPT ![c] = cand[c].i]
          /\ minFrame' = [minFrame EXCEPT ![c] = nBackfill + 1]
          /\ Goto(c, "recheck")
     ELSE /\ Goto(c, IF content[c] = None THEN "idle" ELSE "pick")
          /\ UNCHANGED <<slot, minFrame>>
  /\ UNCHANGED <<shm, files, excl, hdr, cand, tx, ck, content, draws, history>>

Recheck(c) ==
  /\ pc[c] = "recheck"
  /\ Begun(c, mark[cand[c].i] = cand[c].m /\ HeaderKept(c))
  /\ cand' = [cand EXCEPT ![c] = NoCand]
  /\ UNCHANGED <<shm, files, excl, hdr, minFrame, tx, ck, draws, history>>

\* Nothing of a connection outside a transaction is read again.
Forget(c) ==
  /\ hdr' = [hdr EXCEPT ![c] = ZeroHdr]
  /\ minFrame' = [minFrame EXCEPT ![c] = 0]
  /\ cand' = [cand EXCEPT ![c] = NoCand]
  /\ tx' = [tx EXCEPT ![c] = NoTx]
  /\ ck' = [ck EXCEPT ![c] = NoCk]
  /\ content' = [content EXCEPT ![c] = None]
  /\ slot' = [slot EXCEPT ![c] = Idle]
  /\ excl' = [excl EXCEPT ![c] = {}]
  /\ Goto(c, "idle")

EndRead(c) ==
  /\ pc[c] = "read"
  /\ Forget(c)
  /\ UNCHANGED <<shm, files, draws, history>>

(***************************************************************************)
(* walIndexRecover, and the write of a header: copy 1, then copy 0.        *)
(***************************************************************************)
RecoverLocks_Writer == {WRITE, CKPT}  \* mutant: the readers are not kept out
\* WAL_WRITE_LOCK and WAL_ALL_BUT_WRITE
RecoverLocks == Lock

\* The header is torn or zero: every lock but those the caller holds.
RecoverLock(c) ==
  /\ pc[c] \in {"idle", "ckhdr"}
  /\ ~HeadIsGood
  /\ IF CKPT \in excl[c]
     THEN IF WRITE \in excl[c] \/ ~CanExcl(c, RecoverLocks \ {CKPT})
          THEN excl' = excl /\ Goto(c, "ckquit")      \* SQLITE_BUSY
          ELSE excl' = [excl EXCEPT ![c] = RecoverLocks] /\ Goto(c, "rec1")
     ELSE Take(c, RecoverLocks) /\ Goto(c, "rec1")
  /\ UNCHANGED <<shm, files, slot, read, tx, ck, content, draws, history>>

Rec1(c) ==
  LET n == LastCommit(wal)
      h == [init |-> TRUE, mx |-> n, salt |-> wal.salt, chg |-> 0,
            cksum |-> IF n = 0 THEN NoCksum ELSE CksumTo(wal, n)]
  IN
  /\ pc[c] = "rec1"
  /\ hdr' = [hdr EXCEPT ![c] = h]
  /\ head' = [head EXCEPT ![1] = h]
  \* walIndexAppend indexes every valid frame, the uncommitted ones too.
  /\ idx' = [i \in Frames |-> IF ValidTo(wal, i) THEN wal.frame[i].pg
                              ELSE IF ValidTo(wal, 1) THEN 0 ELSE idx[i]]
  /\ fresh' = [fresh EXCEPT ![c] = wal.first]
  /\ Goto(c, "rec2")
  /\ UNCHANGED <<nBackfill, mark, files, locks, minFrame, cand, tx, ck, content,
                 vers, salts, history>>

Rec2(c) ==
  /\ pc[c] = "rec2"
  /\ head' = [head EXCEPT ![0] = hdr[c]]
  /\ LET x == Recovered(wal, db) IN
     IF x = past[Len(past)] THEN UNCHANGED history
     ELSE /\ past' = Append(past, x)
          /\ pending' = IF env.full THEN {} ELSE pending
  /\ Goto(c, "rec3")
  /\ UNCHANGED <<nBackfill, mark, idx, files, locks, read, tx, ck, content, draws>>

Rec3(c) ==
  /\ pc[c] = "rec3"
  /\ nBackfill' = 0
  /\ mark' = [i \in Marks |-> IF i = 1 /\ hdr[c].mx > 0 THEN hdr[c].mx ELSE NotUsed]
  /\ IF CKPT \in excl[c] /\ ck[c].at = 1
     THEN excl' = [excl EXCEPT ![c] = {CKPT}] /\ Goto(c, "ckinfo")
     ELSE excl' = [excl EXCEPT ![c] = {}] /\ Goto(c, "choose")
  /\ UNCHANGED <<head, idx, files, slot, read, tx, ck, content, draws, history>>

(***************************************************************************)
(* A write transaction.                                                    *)
(***************************************************************************)
\* sqlite3WalBeginWriteTransaction; a stale snapshot is SQLITE_BUSY_SNAPSHOT.
BeginWrite(c) ==
  /\ c \in env.writers /\ pc[c] = "read"
  /\ HeaderKept(c)
  /\ Take(c, {WRITE})
  /\ Goto(c, "write")
  /\ UNCHANGED <<shm, files, slot, read, tx, ck, content, draws, history>>

\* sqlite3WalFrames is called with the pages of a commit or with a spilled one;
\* walRestartLog goes back to the start of the log if nobody reads from it.
WalFrames(c) ==
  /\ pc[c] = "write" /\ vers < env.vers
  /\ salts < env.salts \/ (slot[c] # 0 /\ hdr[c].mx > 0)
  /\ vers' = vers + 1
  /\ \E list \in (SUBSET Page) \ {{}}, com \in BOOLEAN :
       /\ com \/ (env.spills /\ Cardinality(list) = 1)
       /\ hdr[c].mx + Cardinality(list) <= env.frames
       /\ content' = [content EXCEPT ![c] = [p \in Page |-> IF p \in list THEN vers + 1 ELSE @[p]]]
       /\ tx' = [tx EXCEPT ![c] = [@ EXCEPT !.list = list, !.com = com,
                   !.first = IF HeaderKept(c) THEN 0 ELSE head[0].mx + 1]]
       /\ pending' = IF com THEN pending \cup {<<Len(past), content'[c]>>} ELSE pending
  /\ IF slot[c] # 0 THEN Goto(c, "walhdr") /\ UNCHANGED locks
     ELSE IF nBackfill > 0 /\ CanExcl(c, Readers)
     THEN slot' = slot /\ Take(c, Readers) /\ Goto(c, "rs1")
     ELSE slot' = [slot EXCEPT ![c] = Idle] /\ excl' = excl /\ Goto(c, "pick")
  /\ UNCHANGED <<shm, files, read, ck, fresh, salts, past>>

\* walRestartHdr, for a writer and for a TRUNCATE checkpoint.
Restart1(c) ==
  LET h == [hdr[c] EXCEPT !.mx = 0, !.salt = salts + 1] IN
  /\ pc[c] = "rs1"
  /\ salts' = salts + 1
  /\ fresh' = [fresh EXCEPT ![c] = FALSE]
  /\ hdr' = [hdr EXCEPT ![c] = h]
  /\ head' = [head EXCEPT ![1] = h]
  /\ Goto(c, "rs2")
  /\ UNCHANGED <<nBackfill, mark, idx, files, locks, minFrame, cand, tx, ck, content,
                 vers, history>>

Restart2(c) ==
  /\ pc[c] = "rs2"
  /\ head' = [head EXCEPT ![0] = hdr[c]]
  /\ Goto(c, "rs3")
  /\ UNCHANGED <<nBackfill, mark, idx, files, locks, read, tx, ck, content, draws, history>>

\* The WalCkptInfo of an empty log.
ResetInfo ==
  nBackfill' = 0 /\ mark' = [i \in Marks |-> IF i = 1 THEN 0 ELSE NotUsed]

Restart3(c) ==
  /\ pc[c] = "rs3"
  /\ ResetInfo
  /\ IF content[c] = None THEN UNCHANGED locks /\ Goto(c, "cktrunc")
     ELSE /\ Release(c, Readers)
          /\ slot' = [slot EXCEPT ![c] = Idle]
          /\ Goto(c, "pick")
  /\ UNCHANGED <<head, idx, files, read, tx, ck, content, draws, history>>

\* The header of the wal file goes before the first frame, and is synced.
WalHdr(c) ==
  /\ pc[c] = "walhdr"
  /\ IF hdr[c].mx > 0
     THEN Goto(c, "frame") /\ UNCHANGED <<hdr, wal, salts>>
     ELSE /\ salts' = IF fresh[c] THEN salts + 1 ELSE salts
          /\ LET s == IF fresh[c] THEN salts + 1 ELSE hdr[c].salt IN
             /\ wal' = [wal EXCEPT !.salt = s, !.first = fresh[c]]
             /\ hdr' = [hdr EXCEPT ![c] = [@ EXCEPT !.salt = s,
                          !.cksum = [salt |-> s, chain |-> <<>>]]]
          /\ Goto(c, "hdrsync")
  /\ UNCHANGED <<shm, db, disk, locks, minFrame, cand, tx, ck, content, fresh, vers, history>>

SyncWal_Never == disk' = disk  \* mutant: the log is not synced
SyncWal == disk' = [disk EXCEPT !.wal = wal]

SyncHdr(c) ==
  /\ pc[c] = "hdrsync"
  /\ SyncWal
  /\ Goto(c, "frame")
  /\ UNCHANGED <<shm, wal, db, locks, read, tx, ck, content, draws, history>>

ReckFrom_Never(t, old) == t.reck  \* mutant: frames keep the checksum of what they held
\* pWal->iReCksum: the earliest frame that was overwritten.
ReckFrom(t, old) == IF t.reck = 0 \/ old < t.reck THEN old ELSE t.reck

\* One page: over its frame of this transaction, or as a new frame.
WriteFrame(c) ==
  LET t == tx[c]
      p == Min(t.list)
      last == t.list = {p}
      old == FindFrame(c, p)
      over == t.first > 0 /\ (~last \/ ~t.com) /\ old >= t.first
      new == hdr[c].mx + Len(t.app) + 1
      f == [pg |-> p, ver |-> content[c][p], com |-> t.com /\ last, cksum |-> NoCksum]
      sum == Extend(hdr[c].cksum, f)
      reck == IF over THEN ReckFrom(t, old) ELSE t.reck
  IN
  /\ pc[c] = "frame"
  /\ new <= env.frames
  /\ IF over
     THEN wal' = [wal EXCEPT !.frame[old].ver = f.ver] /\ hdr' = hdr
     ELSE IF t.reck > 0 THEN wal' = [wal EXCEPT !.frame[new] = f] /\ hdr' = hdr
     ELSE /\ wal' = [wal EXCEPT !.frame[new] = [f EXCEPT !.cksum = sum]]
          /\ hdr' = [hdr EXCEPT ![c].cksum = sum]
  /\ tx' = [tx EXCEPT ![c] = [t EXCEPT !.list = @ \ {p}, !.reck = reck,
                                       !.app = IF over THEN @ ELSE Append(@, p)]]
  /\ Goto(c, CASE ~last -> "frame" [] last /\ t.com /\ reck > 0 -> "recksum"
               [] last /\ t.com /\ reck = 0 /\ env.full -> "sync" [] OTHER -> "index")
  /\ UNCHANGED <<shm, db, disk, locks, minFrame, cand, ck, content, draws, history>>

\* walRewriteChecksums, from the first frame that was overwritten.
Recksum(c) ==
  LET t == tx[c]
      from == IF t.reck = 1 THEN [salt |-> wal.salt, chain |-> <<>>]
              ELSE wal.frame[t.reck - 1].cksum
      upto == hdr[c].mx + Len(t.app)
      sum(i) == [from EXCEPT !.chain = @ \o
                   [k \in 1..i - t.reck + 1 |-> Entry(wal.frame[t.reck + k - 1])]]
  IN
  /\ pc[c] = "recksum"
  /\ wal' = [wal EXCEPT !.frame = [i \in Frames |->
               IF i \in t.reck..upto THEN [@[i] EXCEPT !.cksum = sum(i)] ELSE @[i]]]
  /\ hdr' = [hdr EXCEPT ![c].cksum = sum(upto)]
  /\ tx' = [tx EXCEPT ![c].reck = 0]
  /\ Goto(c, IF env.full THEN "sync" ELSE "index")
  /\ UNCHANGED <<shm, db, disk, locks, minFrame, cand, ck, content, draws, history>>

SyncCommit(c) ==
  /\ pc[c] = "sync"
  /\ SyncWal
  /\ Goto(c, "index")
  /\ UNCHANGED <<shm, wal, db, locks, read, tx, ck, content, draws, history>>

MxAfter_Commit(c) ==  \* mutant: a spill does not advance the private header
  IF tx[c].com THEN hdr[c].mx + Len(tx[c].app) ELSE hdr[c].mx
\* pWal->hdr.mxFrame after these frames.
MxAfter(c) == hdr[c].mx + Len(tx[c].app)

\* walIndexAppend for every new frame, the private header, a commit's copy 1.
Index(c) ==
  LET t == tx[c]
      mx == hdr[c].mx
      new == mx + Len(t.app)
      h == [hdr[c] EXCEPT !.mx = MxAfter(c), !.init = t.com \/ @, !.chg = IF t.com THEN @ + 1 ELSE @]
      rest == t.app # <<>> /\ (mx = 0 \/ \E i \in (mx + 1)..new : idx[i] # 0)
  IN
  /\ pc[c] = "index"
  /\ idx' = [i \in Frames |-> IF i <= mx THEN idx[i] ELSE IF i <= new THEN t.app[i - mx]
                              ELSE IF rest THEN 0 ELSE idx[i]]
  /\ hdr' = [hdr EXCEPT ![c] = h]
  /\ IF t.com THEN head' = [head EXCEPT ![1] = h] /\ Goto(c, "publish")
     ELSE head' = head /\ Goto(c, "write")
  /\ tx' = [tx EXCEPT ![c] = [NoTx EXCEPT !.reck = t.reck]]
  /\ UNCHANGED <<nBackfill, mark, files, locks, minFrame, cand, ck, content, draws, history>>

\* Copy 0 commits; sqlite3WalEndWriteTransaction follows.
Publish(c) ==
  /\ pc[c] = "publish"
  /\ head' = [head EXCEPT ![0] = hdr[c]]
  /\ past' = Append(past, content[c])
  /\ pending' = IF env.full THEN {} ELSE pending
  /\ Release(c, {WRITE})
  /\ tx' = [tx EXCEPT ![c] = NoTx]
  /\ Goto(c, "read")
  /\ UNCHANGED <<nBackfill, mark, idx, files, slot, read, ck, content, draws>>

\* A write to the log or a sync fails: the transaction can only be rolled back.
WriteFails(c) ==
  /\ env.fails
  /\ pc[c] \in {"walhdr", "hdrsync", "frame", "recksum", "sync"}
  /\ Goto(c, "abort")
  /\ UNCHANGED <<shm, files, locks, read, tx, ck, content, draws, history>>

\* sqlite3WalUndo with walCleanupHash, and sqlite3WalEndWriteTransaction.
Rollback(c) ==
  LET mx == head[0].mx IN
  /\ pc[c] \in {"write", "abort"}
  /\ hdr' = [hdr EXCEPT ![c] = head[0]]
  /\ idx' = [i \in Frames |-> IF hdr[c].mx # mx /\ mx > 0 /\ i > mx THEN 0 ELSE idx[i]]
  /\ tx' = [tx EXCEPT ![c] = NoTx]
  /\ content' = [content EXCEPT ![c] = past[Len(past)]]
  /\ Release(c, {WRITE})
  /\ Goto(c, "read")
  /\ UNCHANGED <<head, nBackfill, mark, files, slot, minFrame, cand, ck, draws, history>>

(***************************************************************************)
(* sqlite3WalCheckpoint.  The busy handler of this build asks for another  *)
(* try every time, so every mode but PASSIVE waits for its locks.          *)
(***************************************************************************)
Checkpoint(c) ==
  /\ c \in env.checkpointers /\ pc[c] = "idle"
  /\ Take(c, {CKPT})
  /\ \E m \in env.modes :
       /\ ck' = [ck EXCEPT ![c] = [@ EXCEPT !.mode = m, !.at = 1]]
       /\ Goto(c, IF m = "PASSIVE" THEN "ckhdr" ELSE "ckwrite")
  /\ UNCHANGED <<shm, files, slot, read, tx, content, draws, history>>

CkptWriteLock(c) ==
  /\ pc[c] = "ckwrite"
  /\ Take(c, {WRITE})
  /\ Goto(c, "ckhdr")
  /\ UNCHANGED <<shm, files, slot, read, tx, ck, content, draws, history>>

\* walCheckpoint: is there anything to copy?  walIteratorInit sorts the index.
CkptStart(c) ==
  /\ pc[c] = "ckinfo"
  /\ IF nBackfill < hdr[c].mx
     THEN /\ Goto(c, "ckmark")
          /\ ck' = [ck EXCEPT ![c] = [@ EXCEPT !.safe = hdr[c].mx,
                      !.iter = [p \in Page |-> Max({0} \cup {i \in 1..hdr[c].mx : idx[i] = p})]]]
     ELSE Goto(c, "ckend") /\ ck' = ck
  /\ UNCHANGED <<shm, files, locks, read, tx, content, draws, history>>

NextMark(c, k) ==
  /\ ck' = [ck EXCEPT ![c] = [k EXCEPT !.at = @ + 1]]
  /\ Goto(c, IF k.at + 1 = NReader THEN "ck0" ELSE "ckmark")

\* The mark is read without its lock.
CkptMark(c) ==
  LET k == ck[c] IN
  /\ pc[c] = "ckmark"
  /\ IF k.safe > mark[k.at]
     THEN Goto(c, "cklock") /\ ck' = [ck EXCEPT ![c].seen = mark[k.at]]
     ELSE NextMark(c, k)
  /\ UNCHANGED <<shm, files, locks, read, tx, content, draws, history>>

SafeBelow_Not(k) == k.safe  \* mutant: a mark in use limits nothing
\* mxSafeFrame when the lock of a mark is busy.
SafeBelow(k) == k.seen

\* A mark nobody uses is moved out of the way, one in use limits the checkpoint.
CkptLockMark(c) ==
  LET k == ck[c] IN
  /\ pc[c] = "cklock"
  /\ IF CanExcl(c, {k.at})
     THEN /\ mark' = [mark EXCEPT ![k.at] = IF k.at = 1 THEN k.safe ELSE NotUsed]
          /\ NextMark(c, k)
     ELSE /\ k.mode = "PASSIVE"
          /\ mark' = mark /\ NextMark(c, [k EXCEPT !.safe = SafeBelow(k)])
  /\ UNCHANGED <<head, nBackfill, idx, files, locks, read, tx, content, draws, history>>

CkptLock0(c) ==
  LET k == ck[c] IN
  /\ pc[c] = "ck0"
  /\ \/ /\ nBackfill < k.safe
        /\ Take(c, {0}) /\ Goto(c, "cksync")
        /\ ck' = [ck EXCEPT ![c].base = nBackfill]
     \/ /\ nBackfill < k.safe => k.mode = "PASSIVE" /\ ~CanExcl(c, {0})
        /\ UNCHANGED <<excl, ck>> /\ Goto(c, "ckend")
  /\ UNCHANGED <<shm, files, slot, read, tx, content, draws, history>>

CkptSync(c) ==
  /\ pc[c] = "cksync"
  /\ SyncWal
  /\ Goto(c, "ckcopy")
  /\ UNCHANGED <<shm, wal, db, locks, read, tx, ck, content, draws, history>>

\* walIteratorNext: the last frame of each page, if it is new and safe.
Left(c) == {p \in Page : ck[c].iter[p] > ck[c].base /\ ck[c].iter[p] <= ck[c].safe}

CkptCopy(c) ==
  LET p == Min(Left(c)) IN
  /\ pc[c] = "ckcopy" /\ Left(c) # {}
  /\ db' = [db EXCEPT ![p] = wal.frame[ck[c].iter[p]].ver]
  /\ ck' = [ck EXCEPT ![c].iter[p] = 0]
  /\ UNCHANGED <<shm, wal, disk, locks, pc, read, tx, content, draws, history>>

SyncedDb_Never(c) == disk  \* mutant: the database file is not synced
\* Only a database that has the whole log is synced.
SyncedDb(c) == IF ck[c].safe = head[0].mx THEN [disk EXCEPT !.db = db] ELSE disk

CkptDone(c) ==
  /\ pc[c] = "ckcopy" /\ Left(c) = {}
  /\ disk' = SyncedDb(c)
  /\ nBackfill' = ck[c].safe
  /\ Release(c, {0})
  /\ Goto(c, "ckend")
  /\ UNCHANGED <<head, mark, idx, wal, db, slot, read, tx, ck, content, draws, history>>

MayRestart(c) == nBackfill >= hdr[c].mx

\* RESTART and TRUNCATE wait until nobody reads from the log; TRUNCATE empties it.
CkptEnd(c) ==
  /\ pc[c] = "ckend"
  /\ \/ /\ ck[c].mode = "TRUNCATE" /\ MayRestart(c)
        /\ salts < env.salts
        /\ Take(c, Readers) /\ Goto(c, "rs1")
     \/ /\ ck[c].mode = "TRUNCATE" => ~MayRestart(c) \/ salts = env.salts
        /\ excl' = excl /\ Goto(c, "ckquit")
  /\ UNCHANGED <<shm, files, slot, read, tx, ck, content, draws, history>>

CkptTruncate(c) ==
  /\ pc[c] = "cktrunc"
  /\ wal' = NoWal
  /\ Release(c, Readers)
  /\ Goto(c, "ckquit")
  /\ UNCHANGED <<shm, db, disk, slot, read, tx, ck, content, draws, history>>

CkptQuit(c) ==
  /\ pc[c] = "ckquit"
  /\ Forget(c)
  /\ UNCHANGED <<shm, files, draws, history>>

(***************************************************************************)
(* The end of a process, and a loss of power.                              *)
(***************************************************************************)
Crash(c) ==
  /\ c \in env.crashes /\ pc[c] # "idle"
  /\ Forget(c)
  /\ fresh' = [fresh EXCEPT ![c] = TRUE]
  /\ UNCHANGED <<shm, files, vers, salts, history>>

\* A version no transaction wrote: half of a page that was being written.
Torn == MaxVer + 1

\* What was not synced is there, is not there, or is there in part.
PowerLoss ==
  LET F == {i \in Frames : wal.frame[i] # disk.wal.frame[i]}
      P == {p \in Page : db[p] # disk.db[p]}
      Fate == {"old", "new", "torn"}
  IN
  /\ env.losses
  /\ \E ff \in [F -> Fate], pf \in [P -> Fate],
        hf \in IF <<wal.salt, wal.first>> = <<disk.wal.salt, disk.wal.first>>
               THEN {"old"} ELSE Fate :
       LET w == [salt |-> CASE hf = "old" -> disk.wal.salt [] hf = "new" -> wal.salt
                            [] OTHER -> 0,
                 first |-> IF hf = "new" THEN wal.first ELSE disk.wal.first,
                 frame |-> [i \in Frames |->
                    IF i \notin F \/ ff[i] = "old" THEN disk.wal.frame[i]
                    ELSE IF ff[i] = "new" THEN wal.frame[i]
                    ELSE [wal.frame[i] EXCEPT !.ver = Torn]]]
           d == [p \in Page |-> IF p \notin P \/ pf[p] = "old" THEN disk.db[p]
                                ELSE IF pf[p] = "new" THEN db[p] ELSE Torn]
           x == Recovered(w, d)
           same == {n \in 1..Len(past) : past[n] = x}
           begun == {n \in 1..Len(past) : <<n, x>> \in pending}
       IN
       /\ wal' = w /\ db' = d /\ disk' = [wal |-> w, db |-> d]
       /\ past' = IF same # {} THEN SubSeq(past, 1, Max(same))
                  ELSE IF begun # {} THEN Append(SubSeq(past, 1, Max(begun)), x)
                  ELSE Append(past, x)
  /\ pending' = {}
  /\ head' = [k \in {0, 1} |-> ZeroHdr]
  /\ nBackfill' = 0
  /\ mark' = [i \in Marks |-> 0]
  /\ idx' = [i \in Frames |-> 0]
  /\ excl' = [c \in Conn |-> {}]
  /\ slot' = [c \in Conn |-> Idle]
  /\ pc' = [c \in Conn |-> "idle"]
  /\ hdr' = [c \in Conn |-> ZeroHdr]
  /\ minFrame' = [c \in Conn |-> 0]
  /\ cand' = [c \in Conn |-> NoCand]
  /\ tx' = [c \in Conn |-> NoTx]
  /\ ck' = [c \in Conn |-> NoCk]
  /\ content' = [c \in Conn |-> None]
  /\ fresh' = [c \in Conn |-> TRUE]
  /\ UNCHANGED <<vers, salts>>

Step ==
  \/ \E c \in env.conns :
       \/ ReadHdr(c) \/ Choose(c) \/ Lock0(c) \/ Check0(c) \/ Pick(c) \/ SetMark(c)
       \/ Share(c) \/ Recheck(c) \/ EndRead(c)
       \/ RecoverLock(c) \/ Rec1(c) \/ Rec2(c) \/ Rec3(c)
       \/ BeginWrite(c) \/ WalFrames(c) \/ Restart1(c) \/ Restart2(c) \/ Restart3(c)
       \/ WalHdr(c) \/ SyncHdr(c) \/ WriteFrame(c) \/ Recksum(c) \/ SyncCommit(c)
       \/ Index(c) \/ Publish(c) \/ WriteFails(c) \/ Rollback(c)
       \/ Checkpoint(c) \/ CkptWriteLock(c) \/ CkptStart(c) \/ CkptMark(c)
       \/ CkptLockMark(c) \/ CkptLock0(c) \/ CkptSync(c) \/ CkptCopy(c) \/ CkptDone(c)
       \/ CkptEnd(c) \/ CkptTruncate(c) \/ CkptQuit(c)
       \/ Crash(c)
  \/ PowerLoss

Next == Step /\ UNCHANGED env

Spec == Init /\ [][Next]_vars
(***************************************************************************)
(* Properties.                                                             *)
(***************************************************************************)
Headers == [init : BOOLEAN, mx : 0..MaxFrame, salt : 0..MaxSalt, chg : Nat,
            cksum : [salt : 0..MaxSalt, chain : Seq((Page \cup {0}) \X (0..Torn) \X BOOLEAN)]]

\* The shared state and every connection's copy of it have their types.
TypeOK ==
  /\ head \in [{0, 1} -> Headers] /\ hdr \in [Conn -> Headers]
  /\ nBackfill \in 0..MaxFrame
  /\ mark \in [Marks -> 0..NotUsed]
  /\ idx \in [Frames -> Page \cup {0}]
  /\ db \in [Page -> 0..Torn]
  /\ excl \in [Conn -> SUBSET Lock] /\ slot \in [Conn -> 0..Idle]
  /\ minFrame \in [Conn -> 0..MaxFrame + 1]
  /\ content \in [Conn -> Content \cup {None}]
  /\ pending \subseteq (1..Len(past)) \X Content

\* Every page a read transaction can read, from the log or from the database
\* file, is the page of the content that was committed when it began, whatever
\* is committed, checkpointed, restarted or recovered meanwhile
\* (walTryBeginRead, walCheckpoint: "will never overwrite a database page that a
\* concurrent reader might be using").
ReadersKeepTheirSnapshot ==
  \A c \in Conn : pc[c] = "read" => View(c) = content[c]

\* A write transaction reads back its own spilled pages, and around them the
\* content it started from (sqlite3WalFindFrame over frames not yet committed,
\* some of them overwritten in place, after walRestartLog changed its read lock).
WriterSeesItsWrites ==
  \A c \in Conn : pc[c] = "write" => View(c) = content[c]

\* A read lock holds back the checkpoint: the mark of a lock a reader holds is not
\* above what the reader sees (the comment of WalCkptInfo).
MarkWithinSnapshot ==
  \A c \in Conn : pc[c] = "read" /\ slot[c] \in Marks => mark[slot[c]] <= hdr[c].mx

\* A writer that reads the database file alone, and may start the log over, finds
\* the whole log backfilled (the assertion of walRestartLog).
RestartsBackfilledLog ==
  \A c \in Conn : pc[c] = "write" /\ slot[c] = 0 => nBackfill = hdr[c].mx

InHeader == \E c \in Conn : pc[c] \in {"rs2", "rs3", "rec2", "rec3", "publish"}

\* When all of the log counts as backfilled, so that its frames may be overwritten,
\* the newest committed content is in the database file and synced
\* (walCheckpoint syncs the file before it sets nBackfill).
BackfilledIsDurable ==
  HeadIsGood /\ ~InHeader /\ nBackfill = head[0].mx => disk.db = past[Len(past)]

\* What holds between any two steps, through restarts of the log, recoveries and
\* losses of power.
LogInvariant ==
  TypeOK /\ MarkWithinSnapshot /\ RestartsBackfilledLog /\ BackfilledIsDurable

\* "The nBackfill number is never greater than WalIndexHdr.mxFrame."
BackfillWithinLog ==
  HeadIsGood /\ ~InHeader => nBackfill <= head[0].mx

\* The log implements a store of snapshots: see SnapshotStore.  What a reader sees
\* is what it can read from the files; who has pages to write holds WRITE.
Snap == [c \in Conn |-> IF pc[c] = "read" THEN View(c) ELSE None]
IsWriter(c) == content[c] # None /\ WRITE \in excl[c]
Writer == IF \E c \in Conn : IsWriter(c) THEN CHOOSE c \in Conn : IsWriter(c) ELSE None

Snapshots == INSTANCE SnapshotStore WITH
  Content <- Content, durable <- env.full, snap <- Snap, writer <- Writer

ImplementsSnapshotStore == Snapshots!Spec
=============================================================================
