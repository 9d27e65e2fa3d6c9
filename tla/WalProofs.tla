----------------------------- MODULE WalProofs -----------------------------
(***************************************************************************)
(* Proofs about the write-ahead log, for every number of connections,      *)
(* pages, frames, versions and salts, and for every set of surroundings.   *)
(*                                                                         *)
(* CalmSpec is Spec without three kinds of step: a loss of power, a process *)
(* that ends while it writes the header (between its two copies, or before *)
(* nBackfill is cleared), and a restart of the log between a checkpoint's  *)
(* reading of the header and its look at nBackfill, with which a reader    *)
(* does lose its snapshot (the run wal_reset).  Processes may end anywhere *)
(* else.  OrderlyIsCalm gives surroundings whose every history is calm.    *)
(*                                                                         *)
(* The inductive invariant CalmInv is HeldInv, proved in WalHeldProofs, and *)
(* DataInv: what the index, the frames and the database file show to the   *)
(* next reader, to each reader and to the writer, and what a checkpoint    *)
(* has still to copy.                                                      *)
(***************************************************************************)
EXTENDS WalHeldProofs

USE DEF Plain, Pickers, Writes, Restarting, Recovering, Asking, Copying, Ckpts, PC, Filling, NoFrames,
        shm, files, locks, read, draws, history, Goto

(***************************************************************************)
(* Views of the log.  A view takes every page of P from its last frame     *)
(* among b + 1..n of the index x, or else from the database file d.        *)
(***************************************************************************)
Last(x, n, p, f) == f \in 1..n /\ x[f] = p /\ \A g \in f + 1..n : x[g] # p
Absent(x, b, n, p) == \A f \in b + 1..n : x[f] # p
Sees(v, d, x, b, n, P, k) ==
  \A p \in P :
    /\ \A f \in b + 1..n : Last(x, n, p, f) => v[f] = k[p]
    /\ Absent(x, b, n, p) => d[p] = k[p]
\* The same from whichever frame on, of those that have been backfilled.
Shown(v, d, m, x, n, P, k) == \A b \in 0..m : Sees(v, d, x, b, n, P, k)

LEMMA SeesKept ==
  ASSUME NEW v, NEW w, NEW d, NEW x, NEW y, NEW b \in Nat, NEW n \in Nat, NEW P, NEW k,
         Sees(v, d, x, b, n, P, k), \A i \in b + 1..n : x[i] = y[i] /\ v[i] = w[i]
  PROVE  Sees(w, d, y, b, n, P, k)
BY DEF Sees, Last, Absent

LEMMA ShownKept ==
  ASSUME NEW v, NEW w, NEW d, NEW x, NEW y, NEW m \in Nat, NEW n \in Nat, NEW P, NEW k,
         Shown(v, d, m, x, n, P, k), \A i \in 1..n : x[i] = y[i] /\ v[i] = w[i]
  PROVE  Shown(w, d, m, y, n, P, k)
BY DEF Shown, Sees, Last, Absent

\* A page may be copied into the file when the view takes it from the log.
LEMMA SeesCopied ==
  ASSUME NEW v, NEW d, NEW e, NEW x, NEW b \in Nat, NEW n \in Nat, NEW P, NEW k, NEW q,
         Sees(v, d, x, b, n, P, k), \A p \in P \ {q} : d[p] = e[p],
         NEW f \in b + 1..n, x[f] = q
  PROVE  Sees(v, e, x, b, n, P, k)
BY DEF Sees, Absent

\* The new frame of a page at the end of the log.
LEMMA SeesNew ==
  ASSUME NEW v, NEW w, NEW d, NEW x, NEW y, NEW b \in Nat, NEW n \in Nat, NEW P, NEW k, NEW q,
         Sees(v, d, x, b, n, P, k), b <= n,
         \A i \in b + 1..n : x[i] = y[i] /\ v[i] = w[i],
         y[n + 1] = q, w[n + 1] = k[q]
  PROVE  Sees(w, d, y, b, n + 1, P \cup {q}, k)
<1> SUFFICES ASSUME NEW p \in P \cup {q}
             PROVE  /\ \A f \in b + 1..n + 1 : Last(y, n + 1, p, f) => w[f] = k[p]
                    /\ Absent(y, b, n + 1, p) => d[p] = k[p]
  BY DEF Sees
<1>1. CASE p = q
  BY <1>1 DEF Last, Absent
<1>2. CASE p # q
  <2>1. ASSUME NEW f \in b + 1..n + 1, Last(y, n + 1, p, f) PROVE w[f] = k[p]
    <3>1. f \in b + 1..n /\ Last(x, n, p, f)
      BY <1>2, <2>1 DEF Last
    <3> QED BY <1>2, <3>1 DEF Sees
  <2>2. ASSUME Absent(y, b, n + 1, p) PROVE d[p] = k[p]
    <3>1. Absent(x, b, n, p)
      BY <2>2 DEF Absent
    <3> QED BY <1>2, <3>1 DEF Sees
  <2> QED BY <2>1, <2>2
<1> QED BY <1>1, <1>2

\* The last frame of a page, written over.
LEMMA SeesOver ==
  ASSUME NEW v, NEW w, NEW d, NEW x, NEW b \in Nat, NEW n \in Nat, NEW P, NEW k, NEW q, NEW o \in b + 1..n,
         Sees(v, d, x, b, n, P, k), Last(x, n, q, o), w[o] = k[q],
         \A i \in b + 1..n : i # o => v[i] = w[i]
  PROVE  Sees(w, d, x, b, n, P \cup {q}, k)
<1> SUFFICES ASSUME NEW p \in P \cup {q}
             PROVE  /\ \A f \in b + 1..n : Last(x, n, p, f) => w[f] = k[p]
                    /\ Absent(x, b, n, p) => d[p] = k[p]
  BY DEF Sees
<1>1. CASE p = q
  <2>1. \A f \in b + 1..n : Last(x, n, p, f) => f = o
    BY <1>1 DEF Last
  <2> QED BY <1>1, <2>1 DEF Last, Absent
<1>2. CASE p # q
  <2>1. \A f \in b + 1..n : Last(x, n, p, f) => f # o
    BY <1>2 DEF Last
  <2> QED BY <1>2, <2>1 DEF Sees
<1> QED BY <1>1, <1>2

\* What walIteratorNext has left to do: the last frame of a page, or none; a page
\* done has in the file what its last frame has, when that is a safe one.
Sorted(v, d, x, n, it, s) ==
  \A p \in Page :
    IF it[p] # 0 THEN Last(x, n, p, it[p])
    ELSE Absent(x, 0, n, p) \/ \E f \in 1..n : Last(x, n, p, f) /\ f <= s /\ d[p] = v[f]

\* When no frame between nBackfill and the safe one is left, all those count as backfilled.
LEMMA ShownDone ==
  ASSUME NEW v, NEW d, NEW m \in Nat, NEW s \in Nat, NEW z \in Nat, NEW n \in Nat, m < s, s <= z, z <= n,
         NEW x, NEW y, \A i \in 1..z : x[i] = y[i],
         NEW P \in SUBSET Page, NEW k, Shown(v, d, m, y, n, P, k),
         NEW it, Sorted(v, d, x, z, it, s), \A p \in Page : it[p] # 0 => it[p] <= m \/ it[p] > s
  PROVE  Shown(v, d, s, y, n, P, k)
<1> SUFFICES ASSUME NEW b \in 0..s, NEW p \in P
             PROVE  /\ \A f \in b + 1..n : Last(y, n, p, f) => v[f] = k[p]
                    /\ Absent(y, b, n, p) => d[p] = k[p]
  BY DEF Shown, Sees
<1>1. Sees(v, d, y, 0, n, P, k) /\ Sees(v, d, y, m, n, P, k)
  BY DEF Shown
<1>2. \A f \in b + 1..n : f \in 0 + 1..n
  OBVIOUS
<1>3. ASSUME Absent(y, b, n, p) PROVE d[p] = k[p]
  <2>1. CASE Absent(x, 0, z, p)
    <3>1. Absent(y, 0, n, p)
      BY <1>3, <2>1 DEF Absent
    <3> QED BY <1>1, <3>1 DEF Sees
  <2>2. ASSUME NEW f \in 1..z, Last(x, z, p, f), f <= m \/ f > s \/ (f <= s /\ d[p] = v[f])
        PROVE  d[p] = k[p]
    <3>1. f <= b
      BY <1>3, <2>2 DEF Absent, Last
    <3>2. Last(y, n, p, f)
      <4>1. ASSUME NEW g \in f + 1..n PROVE y[g] # p
        BY <1>3, <2>2 DEF Last, Absent
      <4> QED BY <2>2, <4>1 DEF Last
    <3>3. CASE f <= m
      <4>1. Absent(y, m, n, p)
        BY <3>2, <3>3 DEF Last, Absent
      <4> QED BY <1>1, <4>1 DEF Sees
    <3>4. CASE f <= s /\ d[p] = v[f]
      <4>1. f \in 0 + 1..n
        BY <2>2
      <4> QED BY <1>1, <3>2, <3>4, <4>1 DEF Sees
    <3> QED BY <2>2, <3>1, <3>3, <3>4
  <2> QED BY <2>1, <2>2 DEF Sorted, Last
<1> QED BY <1>1, <1>2, <1>3 DEF Sees

LEMMA SortedSame ==
  ASSUME NEW v, NEW w, NEW d, NEW x, NEW y, NEW n \in Nat, NEW it, NEW s,
         Sorted(v, d, x, n, it, s), \A i \in 1..n : x[i] = y[i] /\ v[i] = w[i]
  PROVE  Sorted(w, d, y, n, it, s)
<1> SUFFICES ASSUME NEW p \in Page
             PROVE  IF it[p] # 0 THEN Last(y, n, p, it[p])
                    ELSE Absent(y, 0, n, p) \/ \E f \in 1..n : Last(y, n, p, f) /\ f <= s /\ d[p] = w[f]
  BY DEF Sorted
<1>1. \A f : Last(x, n, p, f) => Last(y, n, p, f)
  BY DEF Last
<1>2. Absent(x, 0, n, p) => Absent(y, 0, n, p)
  BY DEF Absent
<1> QED BY <1>1, <1>2 DEF Sorted

(***************************************************************************)
(* What the log shows, to the next reader and to everybody in it.          *)
(***************************************************************************)
Ver == [i \in Frames |-> wal.frame[i].ver]

\* The last frame a connection counts on, and the mark that stands for it.
Base(c) == IF pc[c] = "read" THEN hdr[c].mx ELSE N
Reads(c) == content[c] # None /\ slot[c] \in Marks /\ pc[c] # "recheck"
From(c) == IF slot[c] = 0 THEN hdr[c].mx ELSE minFrame[c] - 1

ReadOf(c) ==
  /\ slot[c] \in Marks => minFrame[c] \in 1..nBackfill + 1
  /\ pc[c] \in {"setmark", "share", "recheck"} => cand[c].m <= hdr[c].mx
  /\ Reads(c) => mark[slot[c]] <= Base(c)
  /\ pc[c] = "read" => Sees(Ver, db, idx, From(c), hdr[c].mx, Page, content[c])
  /\ pc[c] = "read" /\ slot[c] \in Marks => hdr[c].mx <= N
  /\ pc[c] = "read" /\ hdr[c] = head[0] => content[c] = K

\* The index as it will be: with the frames of this call.
VIdx(c) == [i \in Frames |-> IF i <= hdr[c].mx THEN idx[i]
                             ELSE IF i <= Top(c) THEN tx[c].app[i - hdr[c].mx] ELSE 0]
Writing(c) == content[c] # None /\ pc[c] # "read"

WriteOf(c) ==
  Writing(c) =>
    /\ pc[c] \in Pickers \cup Restarting => tx[c].first = 0
    /\ pc[c] \in Filling => tx[c].first \in {0, N + 1}
    /\ pc[c] \in {"recksum", "sync", "index", "write", "publish"} => tx[c].list = {}
    /\ \A i \in 1..Len(tx[c].app) : tx[c].app[i] \notin tx[c].list
    /\ pc[c] # "abort" => Shown(Ver, db, nBackfill, VIdx(c), Top(c), Page \ tx[c].list, content[c])
    /\ \/ pc[c] = "publish"
       \/ tx[c].com /\ pc[c] \notin {"write", "abort"}
       => <<Len(past), content[c]>> \in pending

\* A checkpoint copies no frame that is not in every reader's snapshot.
Below(d) ==
  \A c \in Conn : Reads(c) =>
    /\ slot[c] < ck[d].at => ck[d].safe <= Base(c)
    /\ pc[d] = "cklock" /\ slot[c] = ck[d].at => ck[d].seen <= Base(c)
Done(d) == IF pc[d] = "ckcopy" THEN ck[d].safe ELSE 0
CkptOf(d) ==
  pc[d] \in Running => Sorted(Ver, db, idx, hdr[d].mx, ck[d].iter, Done(d)) /\ Below(d)

LogShown ==
  /\ Shown(Ver, db, nBackfill, idx, N, Page, K)
  /\ nBackfill >= N => disk.db = K

DataInv == LogShown /\ \A c \in Conn : ReadOf(c) /\ WriteOf(c) /\ CkptOf(c)

LEMMA InFrames ==
  ASSUME LockInv, NEW c \in Conn
  PROVE  /\ N \in 0..MaxFrame /\ hdr[c].mx \in 0..MaxFrame /\ Top(c) \in 0..MaxFrame
         /\ \A i \in 1..N : i \in Frames
         /\ \A i \in 1..hdr[c].mx : i \in Frames
         /\ \A i \in 1..Top(c) : i \in Frames
<1>1. hdr[c].mx \in 0..MaxFrame /\ Len(tx[c].app) \in Nat /\ Top(c) <= MaxFrame
  BY Here DEF Room
<1>2. head[0].mx \in 0..MaxFrame
  BY DEF LockInv, SharedType, Hdr
<1> QED BY <1>1, <1>2, Numbers DEF N, Top, Frames

LEMMA WriterHas ==
  ASSUME LockInv, NEW c \in Conn, Writing(c)
  PROVE  WRITE \in excl[c]
<1>1. pc[c] \in Pickers \cup Writes \cup Restarting
  BY Here DEF Writing, Phase
<1> QED BY <1>1, Here DEF Writing, HeldLocks, WriterLock

LEMMA CkptHas ==
  ASSUME LockInv, NEW d \in Conn, pc[d] \in Running
  PROVE  /\ CKPT \in excl[d] /\ slot[d] = Idle /\ content[d] = None /\ ~Reads(d)
         /\ pc[d] \in Copying => 0 \in excl[d]
BY Here, Locks DEF Running, HeldLocks, CkptLocks, HeldSlot, Phase, Reads

\* A view of a reader never looks below its first frame.
LEMMA ReaderFrom ==
  ASSUME LockInv, NEW c \in Conn, ReadOf(c), pc[c] = "read"
  PROVE  /\ From(c) \in Nat /\ (slot[c] = 0 \/ slot[c] \in Marks)
         /\ \A i \in From(c) + 1..hdr[c].mx : slot[c] \in Marks /\ i \in 1..N /\ i >= minFrame[c]
<1>1. slot[c] = 0 \/ slot[c] \in Marks
  BY Here, Numbers DEF HeldSlot, Marks
<1>2. minFrame[c] \in Nat /\ hdr[c].mx \in Nat /\ N \in Nat
  BY Here, Numbers, HdrNumbers
<1> QED BY <1>1, <1>2, Locks, HdrNumbers DEF ReadOf, From

(***************************************************************************)
(* A step that touches the end of the log at most, and leaves the          *)
(* database file alone.                                                    *)
(***************************************************************************)
Touches(c) ==
  /\ \A i \in Frames : i <= N \/ WRITE \notin excl[c] => idx'[i] = idx[i] /\ Ver'[i] = Ver[i]
  /\ db' = db /\ nBackfill' = nBackfill /\ disk'.db = disk.db /\ N' = N
  /\ past' = past /\ pending \subseteq pending'
  /\ head'[0] = head[0] \/ excl[c] = Lock
  /\ \A d \in Conn \ {c} : slot[d] \in Marks => mark'[slot[d]] = mark[slot[d]]

\* Who begins to read begins at the end of the log.
Joins(c) ==
  Reads(c)' => \/ Reads(c) /\ slot'[c] = slot[c] /\ Base(c)' >= Base(c)
               \/ Base(c)' >= N

LEMMA TailLog ==
  ASSUME HeldInv, DataInv, NEW c \in Conn, Touches(c)
  PROVE  LogShown'
<1>1. LockInv /\ LogShown
  BY DEF HeldInv, DataInv
<1>2. \A i \in 1..N : idx[i] = idx'[i] /\ Ver[i] = Ver'[i]
  BY <1>1, InFrames DEF Touches
<1>3. K' = K
  BY DEF Touches, K
<1>4. Shown(Ver, db, nBackfill, idx, N, Page, K)
  BY <1>1 DEF LogShown
<1>5. nBackfill \in Nat /\ N \in Nat
  BY <1>1, HdrNumbers
<1>6. Shown(Ver', db, nBackfill, idx', N, Page, K)
  <2> HIDE DEF Ver
  <2> QED BY <1>2, <1>4, <1>5, ShownKept
<1> QED BY <1>1, <1>3, <1>6 DEF LogShown, Touches

LEMMA TailReaders ==
  ASSUME HeldInv, DataInv, NEW c \in Conn, Still(c), Touches(c), NEW d \in Conn \ {c}
  PROVE  ReadOf(d)'
<1>1. LockInv /\ ReadOf(d)
  BY DEF HeldInv, DataInv
<1>2. /\ slot'[d] = slot[d] /\ pc'[d] = pc[d] /\ hdr'[d] = hdr[d] /\ minFrame'[d] = minFrame[d]
      /\ cand'[d] = cand[d] /\ content'[d] = content[d] /\ nBackfill' = nBackfill /\ N' = N
  BY DEF Still, Touches
<1>3. (Reads(d)' <=> Reads(d)) /\ Base(d)' = Base(d) /\ From(d)' = From(d)
  BY <1>2 DEF Reads, Base, From
<1>4. Reads(d) => mark'[slot[d]] = mark[slot[d]]
  BY DEF Reads, Touches
<1>5. pc[d] = "read" => Sees(Ver, db, idx, From(d), hdr[d].mx, Page, content[d])'
  <2> SUFFICES ASSUME pc[d] = "read" PROVE Sees(Ver', db, idx', From(d), hdr[d].mx, Page, content[d])
    BY <1>2, <1>3 DEF Touches
  <2>1. Sees(Ver, db, idx, From(d), hdr[d].mx, Page, content[d])
    BY <1>1 DEF ReadOf
  <2>2. \A i \in From(d) + 1..hdr[d].mx : idx[i] = idx'[i] /\ Ver[i] = Ver'[i]
    BY <1>1, ReaderFrom, InFrames DEF Touches
  <2>3. From(d) \in Nat /\ hdr[d].mx \in Nat
    BY <1>1, ReaderFrom, HdrNumbers
  <2> HIDE DEF Ver, From
  <2> QED BY <2>1, <2>2, <2>3, SeesKept
<1>6. pc[d] = "read" => head'[0] = head[0]
  <2>1. ASSUME pc[d] = "read" PROVE excl[c] # Lock
    <3>1. slot[d] \in Lock /\ slot[d] \notin excl[c]
      BY <1>1, <2>1, ReaderFrom, Locks DEF LockInv, Exclusion
    <3> QED BY <3>1
  <2> QED BY <2>1 DEF Touches
<1>7. K' = K
  BY DEF Touches, K
<1> QED BY <1>1, <1>2, <1>3, <1>4, <1>5, <1>6, <1>7 DEF ReadOf

LEMMA TailWriters ==
  ASSUME HeldInv, DataInv, NEW c \in Conn, Still(c), Touches(c), NEW d \in Conn \ {c}
  PROVE  WriteOf(d)'
<1>1. LockInv /\ WriteOf(d)
  BY DEF HeldInv, DataInv
<1>2. /\ pc'[d] = pc[d] /\ hdr'[d] = hdr[d] /\ tx'[d] = tx[d] /\ content'[d] = content[d]
      /\ N' = N /\ past' = past
  BY DEF Still, Touches
<1> SUFFICES ASSUME Writing(d) PROVE WriteOf(d)'
  BY <1>2 DEF WriteOf, Writing
<1>3. WRITE \notin excl[c]
  BY <1>1, WriterHas, Alone
<1>4. \A i \in Frames : idx'[i] = idx[i] /\ Ver'[i] = Ver[i]
  BY <1>3 DEF Touches
<1>5. VIdx(d)' = VIdx(d) /\ Ver' = Ver /\ Top(d)' = Top(d)
  BY <1>2, <1>4 DEF VIdx, Ver, Top
<1>6. <<Len(past), content[d]>> \in pending => <<Len(past), content[d]>> \in pending'
  BY DEF Touches
<1> QED BY <1>1, <1>2, <1>5, <1>6 DEF WriteOf, Writing, Touches

LEMMA TailCkpts ==
  ASSUME HeldInv, HeldInv', DataInv, NEW c \in Conn, Still(c), Touches(c), Joins(c), NEW d \in Conn \ {c}
  PROVE  CkptOf(d)'
<1>1. LockInv /\ CkptOf(d) /\ HdrOf(d)
  BY DEF HeldInv, DataInv, HdrInv
<1>2. pc'[d] = pc[d] /\ hdr'[d] = hdr[d] /\ ck'[d] = ck[d] /\ N' = N
  BY DEF Still, Touches
<1> SUFFICES ASSUME pc[d] \in Running PROVE CkptOf(d)'
  BY <1>2 DEF CkptOf
<1>3. hdr[d].mx <= N /\ ck[d].safe <= hdr[d].mx /\ (pc[d] = "cklock" => ck[d].seen < ck[d].safe)
  BY <1>1, Here DEF HdrOf, Phase
<1>4. Sorted(Ver, db, idx, hdr[d].mx, ck[d].iter, Done(d))'
  <2>1. Sorted(Ver, db, idx, hdr[d].mx, ck[d].iter, Done(d))
    BY <1>1 DEF CkptOf
  <2>2. Done(d)' = Done(d)
    BY <1>2 DEF Done
  <2>3. \A i \in 1..hdr[d].mx : idx[i] = idx'[i] /\ Ver[i] = Ver'[i]
    BY <1>1, <1>3, InFrames, HdrNumbers DEF Touches
  <2>4. Sorted(Ver', db, idx', hdr[d].mx, ck[d].iter, Done(d))
    <3>1. hdr[d].mx \in Nat
      BY <1>1, HdrNumbers
    <3> HIDE DEF Ver
    <3> QED BY <2>1, <2>3, <3>1, SortedSame
  <2> QED BY <1>2, <2>2, <2>4 DEF Touches
<1>5. Below(d)'
  <2>1. Below(d)
    BY <1>1 DEF CkptOf
  <2> SUFFICES ASSUME NEW e \in Conn, Reads(e)'
               PROVE  /\ slot'[e] < ck[d].at => ck[d].safe <= Base(e)'
                      /\ pc[d] = "cklock" /\ slot'[e] = ck[d].at => ck[d].seen <= Base(e)'
    BY <1>2 DEF Below
  <2>2. \/ Reads(e) /\ slot'[e] = slot[e] /\ Base(e)' >= Base(e)
        \/ Base(e)' >= N
    <3>1. CASE e = c
      BY <3>1 DEF Joins
    <3>2. CASE e # c
      <4>1. /\ slot'[e] = slot[e] /\ pc'[e] = pc[e] /\ hdr'[e] = hdr[e] /\ content'[e] = content[e]
        BY <3>2 DEF Still
      <4>2. Reads(e) /\ Base(e)' = Base(e)
        BY <1>2, <4>1 DEF Reads, Base
      <4>3. Base(e) \in Nat
        BY <1>1, HdrNumbers DEF Base
      <4> QED BY <4>1, <4>2, <4>3
    <3> QED BY <3>1, <3>2
  <2>3. /\ Base(e) \in Nat /\ ck[d].safe \in Nat /\ ck[d].seen \in Nat /\ N \in Nat /\ hdr[d].mx \in Nat
    BY <1>1, HdrNumbers, Here, Numbers DEF Base, Ck
  <2>4. Base(e)' \in Nat
    <3>1. hdr'[e].mx \in Nat
      <4>1. hdr'[e] \in Hdr
        BY DEF HeldInv, LockInv, ConnType
      <4> QED BY <4>1, Numbers DEF Hdr
    <3> QED BY <1>2, <2>3, <3>1 DEF Base
  <2> QED BY <1>3, <2>1, <2>2, <2>3, <2>4 DEF Below
<1> QED BY <1>2, <1>4, <1>5 DEF CkptOf

LEMMA TailStep ==
  ASSUME HeldInv, HeldInv', DataInv, NEW c \in Conn, Still(c), Touches(c), Joins(c),
         ReadOf(c)', WriteOf(c)', CkptOf(c)'
  PROVE  DataInv'
BY TailLog, TailReaders, TailWriters, TailCkpts DEF DataInv

\* A step that changes neither the log nor the header.
LEMMA QuietTail ==
  ASSUME HeldInv, NEW c \in Conn,
         UNCHANGED <<idx, nBackfill, past>>, wal'.frame = wal.frame, db' = db, disk'.db = disk.db,
         pending \subseteq pending', N' = N, head'[0] = head[0] \/ excl[c] = Lock,
         \A d \in Conn \ {c} : slot[d] \in Marks => mark'[slot[d]] = mark[slot[d]]
  PROVE  Touches(c)
BY DEF Touches, Ver

LEMMA CalmTail ==
  ASSUME HeldInv, NEW c \in Conn, UNCHANGED <<head, idx, nBackfill, mark, past, wal, db>>, disk'.db = disk.db,
         pending \subseteq pending'
  PROVE  Touches(c)
BY DEF Touches, Ver, N

\* A connection that has no snapshot and asks for none.
LEMMA NoSnapshot ==
  ASSUME HeldInv, NEW c \in Conn, content'[c] = None, slot'[c] \notin Marks,
         pc'[c] \notin {"read", "setmark", "share", "recheck"}
  PROVE  Joins(c) /\ ReadOf(c)' /\ WriteOf(c)'
BY DEF Joins, Reads, ReadOf, WriteOf, Writing

LEMMA NoCheckpoint ==
  ASSUME HeldInv, NEW c \in Conn, pc'[c] \notin Running
  PROVE  CkptOf(c)'
BY DEF CkptOf, Running

LEMMA Locked ==
  ASSUME HeldInv, NEW c \in Conn, excl[c] = Lock
  PROVE  \A d \in Conn \ {c} : slot[d] \notin Marks
BY Locks DEF HeldInv, LockInv, Exclusion

\* A reader that begins, at the end of the log.
LEMMA NewReader ==
  ASSUME HeldInv', LogShown', NEW c \in Conn, pc'[c] = "read", content'[c] = K', hdr'[c] = head'[0],
         \/ slot'[c] = 0 /\ nBackfill' = N'
         \/ slot'[c] \in Marks /\ minFrame'[c] \in 1..nBackfill' + 1 /\ mark'[slot'[c]] <= N'
  PROVE  ReadOf(c)' /\ WriteOf(c)' /\ Base(c)' = N'
<1>1. hdr'[c].mx = N' /\ Base(c)' = N'
  BY DEF N, Base
<1>2. N' \in Nat /\ nBackfill' \in Nat
  BY Numbers DEF HeldInv, LockInv, SharedType, N, Hdr
<1>3. From(c)' \in 0..nBackfill'
  BY <1>1, <1>2, Locks DEF From
<1>4. Sees(Ver, db, idx, From(c), hdr[c].mx, Page, content[c])'
  BY <1>1, <1>3 DEF LogShown, Shown
<1>5. N' <= N'
  BY <1>2
<1> QED BY <1>1, <1>2, <1>4, <1>5, Locks DEF ReadOf, WriteOf, Writing, Reads

\* A writer that goes on with the same frames.
LEMMA WriterMoves ==
  ASSUME HeldInv, DataInv, NEW c \in Conn,
         idx' = idx, Ver' = Ver, db' = db, nBackfill' = nBackfill, past' = past, N' = N, pending \subseteq pending',
         hdr'[c].mx = hdr[c].mx, content'[c] = content[c], tx'[c].list = tx[c].list,
         tx'[c].app = tx[c].app, tx'[c].first = tx[c].first, tx'[c].com = tx[c].com,
         Writing(c) => /\ pc[c] # "abort" /\ pc[c] # "write" /\ (pc'[c] = "publish" => pc[c] = "publish")
                       /\ pc'[c] \in Pickers \cup Restarting => tx[c].first = 0
                       /\ pc'[c] \in Filling => tx[c].first \in {0, N + 1}
                       /\ pc'[c] \in {"recksum", "sync", "index", "write", "publish"} => tx[c].list = {},
         content[c] # None => Writing(c)
  PROVE  WriteOf(c)'
<1>1. VIdx(c)' = VIdx(c) /\ Top(c)' = Top(c)
  BY DEF VIdx, Top
<1>2. WriteOf(c)
  BY DEF DataInv
<1> QED BY <1>1, <1>2 DEF WriteOf, Writing

\* Nothing is asked of a writer's reading but that its read lock stays.
LEMMA WriterReads ==
  ASSUME HeldInv, HeldInv', DataInv, NEW c \in Conn, Writing(c), pc[c] # "recheck",
         pc'[c] \in Writes \cup Restarting \cup {"pick"}, N' = N, nBackfill' = nBackfill,
         slot'[c] = slot[c] \/ slot'[c] = Idle, minFrame'[c] = minFrame[c], mark' = mark
  PROVE  ReadOf(c)' /\ Joins(c)
<1>1. ReadOf(c) /\ N \in Nat
  BY HdrNumbers DEF HeldInv, DataInv
<1>2. Base(c)' = N /\ Base(c) = N
  BY DEF Base, Writing
<1>3. slot'[c] \in Marks => slot'[c] = slot[c] /\ Reads(c)
  BY Locks DEF Reads, Writing
<1> QED BY <1>1, <1>2, <1>3 DEF ReadOf, Joins, Reads

LEMMA WritesHave ==
  ASSUME HeldInv, DataInv, NEW c \in Conn, pc[c] \in Writes
  PROVE  /\ LockInv /\ Writing(c) /\ WRITE \in excl[c] /\ WriteOf(c) /\ HdrOf(c) /\ HeldSlot(c) /\ Room(c)
         /\ tx[c] \in Tx /\ content[c] \in Content /\ hdr[c] \in Hdr
         /\ nBackfill \in Nat /\ N \in Nat /\ hdr[c].mx \in Nat /\ Top(c) \in Nat /\ Len(tx[c].app) \in Nat
<1>1. LockInv /\ WriteOf(c) /\ HdrOf(c)
  BY DEF HeldInv, DataInv, HdrInv
<1>2. Writing(c)
  BY <1>1, Here DEF Phase, Writing
<1>3. WRITE \in excl[c]
  BY <1>1, <1>2, WriterHas
<1>4. content[c] \in Content
  BY <1>1, <1>2, Here DEF Writing
<1> QED BY <1>1, <1>2, <1>3, <1>4, Here, HdrNumbers DEF Top

\* A checkpoint and who reads meanwhile.
LEMMA BelowKept ==
  ASSUME HeldInv, NEW d \in Conn, Still(d), content'[d] = None, N' = N,
         \A c \in Conn : Reads(c) /\ c # d =>
           /\ slot[c] < ck'[d].at => ck'[d].safe <= Base(c)
           /\ pc'[d] = "cklock" /\ slot[c] = ck'[d].at => ck'[d].seen <= Base(c)
  PROVE  Below(d)'
<1> SUFFICES ASSUME NEW c \in Conn, Reads(c)'
             PROVE  /\ slot'[c] < ck'[d].at => ck'[d].safe <= Base(c)'
                    /\ pc'[d] = "cklock" /\ slot'[c] = ck'[d].at => ck'[d].seen <= Base(c)'
  BY DEF Below
<1>1. c # d
  BY DEF Reads
<1>2. slot'[c] = slot[c] /\ pc'[c] = pc[c] /\ hdr'[c] = hdr[c] /\ content'[c] = content[c]
  BY <1>1 DEF Still
<1>3. Reads(c) /\ Base(c)' = Base(c)
  BY <1>2 DEF Reads, Base
<1> QED BY <1>1, <1>2, <1>3

LEMMA CkptNumbers ==
  ASSUME HeldInv, DataInv
  PROVE  /\ \A c \in Conn : /\ slot[c] \in Nat /\ Base(c) \in Nat /\ ck[c].at \in Nat /\ ck[c].safe \in Nat
                            /\ ck[c].seen \in Nat /\ hdr[c].mx \in Nat
         /\ \A c \in Conn : Reads(c) => mark[slot[c]] <= Base(c) /\ slot[c] \in Marks
         /\ \A i \in Marks : i \in Nat /\ i >= 1 /\ mark[i] \in Nat
         /\ nBackfill \in Nat /\ N \in Nat
<1>1. LockInv
  BY DEF HeldInv
<1>2. \A c \in Conn : slot[c] \in Nat /\ ck[c].at \in Nat /\ ck[c].seen \in Nat
  <2>1. \A c \in Conn : ck[c] \in Ck /\ slot[c] \in 0..Idle
    BY <1>1, Here
  <2> QED BY <2>1, Numbers DEF Ck
<1>3. \A c \in Conn : Base(c) \in Nat /\ hdr[c].mx \in Nat /\ ck[c].safe \in Nat
  BY <1>1, HdrNumbers DEF Base
<1>4. \A c \in Conn : Reads(c) => mark[slot[c]] <= Base(c) /\ slot[c] \in Marks
  BY DEF DataInv, ReadOf, Reads
<1>5. \A i \in Marks : i \in Nat /\ i >= 1 /\ mark[i] \in Nat
  BY <1>1, Numbers DEF Marks, LockInv, SharedType
<1> QED BY <1>1, <1>2, <1>3, <1>4, <1>5, HdrNumbers

\* A writer has at least the frames a checkpoint has.
LEMMA WriterAbove ==
  ASSUME HeldInv, NEW c \in Conn, pc[c] \in Running, NEW d \in Conn, Writing(d)
  PROVE  N <= hdr[d].mx
<1>1. LockInv /\ HdrOf(c) /\ HdrOf(d)
  BY DEF HeldInv, HdrInv
<1>2. nBackfill < N /\ N \in Nat /\ nBackfill \in Nat
  BY <1>1, HdrNumbers DEF HdrOf
<1>3. pc[d] \in Pickers \cup Writes \cup Restarting
  BY <1>1, Here DEF Writing, Phase
<1>4. CASE pc[d] \in Writes
  BY <1>1, <1>2, <1>4, HdrNumbers DEF HdrOf
<1>5. CASE pc[d] \in Pickers \cup {"rs1", "rs3"}
  BY <1>1, <1>2, <1>5 DEF HdrOf, Current, Writing, N
<1>6. CASE pc[d] = "rs2"
  BY <1>1, <1>2, <1>6 DEF HdrOf
<1> QED BY <1>3, <1>4, <1>5, <1>6

\* Nobody reads from a log that starts over.
LEMMA NobodyReads ==
  ASSUME HeldInv, NEW c \in Conn, pc[c] \in Restarting
  PROVE  /\ \A d \in Conn : slot[d] \notin Marks
         /\ WRITE \in excl[c] /\ \A d \in Conn \ {c} : ~Writing(d)
<1>1. LockInv /\ HeldLocks(c) /\ HeldSlot(c)
  BY Here DEF HeldInv
<1>2. \A d \in Conn \ {c} : slot[d] \notin Marks
  BY <1>1 DEF HeldLocks, LockInv, Exclusion, Readers
<1>3. slot[c] \notin Marks
  BY <1>1, Locks DEF HeldSlot
<1>4. WRITE \in excl[c]
  BY <1>1 DEF HeldLocks
<1> QED BY <1>1, <1>2, <1>3, <1>4, WriterHas, Alone

LEMMA ReadHdrData ==
  ASSUME HeldInv, DataInv, NEW c \in Conn, ReadHdr(c), HeldInv', Still(c)
  PROVE  DataInv'
<1>1. /\ LockInv /\ HeldLocks(c) /\ HeldSlot(c) /\ Phase(c) /\ HdrOf(c) /\ ReadOf(c) /\ WriteOf(c) /\ CkptOf(c)
      /\ pc \in [Conn -> PC] /\ slot \in [Conn -> 0..Idle] /\ content \in [Conn -> Content \cup {None}]
      /\ hdr \in [Conn -> Hdr] /\ ck \in [Conn -> Ck] /\ tx \in [Conn -> Tx] /\ cand \in [Conn -> Cand]
      /\ minFrame \in [Conn -> 0..MaxFrame + 1] /\ excl \in [Conn -> SUBSET Lock]
  BY Here DEF HeldInv, HdrInv, DataInv, LockInv, ConnType
<1>2. Touches(c)
  BY <1>1, CalmTail DEF ReadHdr, HeadIsGood
<1>3. Joins(c) /\ ReadOf(c)' /\ WriteOf(c)'
  <2>1. content'[c] = None /\ slot'[c] \notin Marks /\ pc'[c] \notin {"read", "setmark", "share", "recheck"}
    BY <1>1, Locks DEF ReadHdr, HeadIsGood, HeldSlot, Phase
  <2> QED BY <2>1, NoSnapshot
<1>4. CkptOf(c)'
  <2>1. pc'[c] \notin Running
    BY <1>1 DEF ReadHdr, HeadIsGood, Running
  <2> QED BY <2>1, NoCheckpoint
<1> QED BY <1>2, <1>3, <1>4, TailStep

LEMMA ChooseData ==
  ASSUME HeldInv, DataInv, NEW c \in Conn, Choose(c), HeldInv', Still(c)
  PROVE  DataInv'
<1>1. /\ LockInv /\ HeldLocks(c) /\ HeldSlot(c) /\ Phase(c) /\ HdrOf(c) /\ ReadOf(c) /\ WriteOf(c) /\ CkptOf(c)
      /\ pc \in [Conn -> PC] /\ slot \in [Conn -> 0..Idle] /\ content \in [Conn -> Content \cup {None}]
      /\ hdr \in [Conn -> Hdr] /\ ck \in [Conn -> Ck] /\ tx \in [Conn -> Tx] /\ cand \in [Conn -> Cand]
      /\ minFrame \in [Conn -> 0..MaxFrame + 1] /\ excl \in [Conn -> SUBSET Lock]
  BY Here DEF HeldInv, HdrInv, DataInv, LockInv, ConnType
<1>2. Touches(c)
  BY <1>1, CalmTail DEF Choose
<1>3. Joins(c) /\ ReadOf(c)' /\ WriteOf(c)'
  <2>1. content'[c] = None /\ slot'[c] \notin Marks /\ pc'[c] \notin {"read", "setmark", "share", "recheck"}
    BY <1>1, Locks DEF Choose, HeldSlot, Phase
  <2> QED BY <2>1, NoSnapshot
<1>4. CkptOf(c)'
  <2>1. pc'[c] \notin Running
    BY <1>1 DEF Choose, Running
  <2> QED BY <2>1, NoCheckpoint
<1> QED BY <1>2, <1>3, <1>4, TailStep

LEMMA Lock0Data ==
  ASSUME HeldInv, DataInv, NEW c \in Conn, Lock0(c), HeldInv', Still(c)
  PROVE  DataInv'
<1>1. /\ LockInv /\ HeldLocks(c) /\ HeldSlot(c) /\ Phase(c) /\ HdrOf(c) /\ ReadOf(c) /\ WriteOf(c) /\ CkptOf(c)
      /\ pc \in [Conn -> PC] /\ slot \in [Conn -> 0..Idle] /\ content \in [Conn -> Content \cup {None}]
      /\ hdr \in [Conn -> Hdr] /\ ck \in [Conn -> Ck] /\ tx \in [Conn -> Tx] /\ cand \in [Conn -> Cand]
      /\ minFrame \in [Conn -> 0..MaxFrame + 1] /\ excl \in [Conn -> SUBSET Lock]
  BY Here DEF HeldInv, HdrInv, DataInv, LockInv, ConnType
<1>2. Touches(c)
  BY <1>1, CalmTail DEF Lock0, CanShare
<1>3. Joins(c) /\ ReadOf(c)' /\ WriteOf(c)'
  <2>1. content'[c] = None /\ slot'[c] \notin Marks /\ pc'[c] \notin {"read", "setmark", "share", "recheck"}
    BY <1>1, Locks DEF Lock0, CanShare, HeldSlot, Phase
  <2> QED BY <2>1, NoSnapshot
<1>4. CkptOf(c)'
  <2>1. pc'[c] \notin Running
    BY <1>1 DEF Lock0, CanShare, Running
  <2> QED BY <2>1, NoCheckpoint
<1> QED BY <1>2, <1>3, <1>4, TailStep

LEMMA Check0Data ==
  ASSUME HeldInv, DataInv, NEW c \in Conn, Check0(c), HeldInv', Still(c)
  PROVE  DataInv'
<1>1. LockInv /\ pc[c] = "check0" /\ slot[c] = 0 /\ content[c] = None /\ HdrOf(c) /\ LogShown
  BY Here DEF Check0, HeldInv, HdrInv, DataInv, HeldSlot, Phase
<1>2. pc \in [Conn -> PC] /\ slot \in [Conn -> 0..Idle] /\ content \in [Conn -> Content \cup {None}]
  BY DEF HeldInv, LockInv, ConnType
<1>3. Touches(c)
  BY CalmTail DEF Check0
<1>4. CkptOf(c)'
  <2>1. pc'[c] \notin Running
    BY <1>1, <1>2 DEF Check0, Begun, Running
  <2> QED BY <2>1, NoCheckpoint
<1>5. CASE ~HeaderKept(c)
  <2>1. content'[c] = None /\ slot'[c] = Idle /\ pc'[c] = "idle"
    BY <1>1, <1>2, <1>5 DEF Check0, Begun
  <2> QED BY <1>3, <1>4, <2>1, Locks, NoSnapshot, TailStep
<1>6. CASE HeaderKept(c)
  <2>1. content'[c] = K /\ slot'[c] = 0 /\ pc'[c] = "read"
    BY <1>1, <1>2, <1>6 DEF Check0, Begun, K
  <2>2. hdr'[c] = head'[0] /\ nBackfill' = N' /\ K' = K
    BY <1>1, <1>6 DEF Check0, HeaderKept, HdrOf, AtEnd, K, N
  <2>3. LogShown'
    BY <1>3, TailLog
  <2>4. ReadOf(c)' /\ WriteOf(c)' /\ Base(c)' = N'
    BY <2>1, <2>2, <2>3, NewReader
  <2>5. Joins(c)
    BY <2>1, Locks DEF Joins, Reads
  <2> QED BY <1>3, <1>4, <2>4, <2>5, TailStep
<1> QED BY <1>5, <1>6

LEMMA PickData ==
  ASSUME HeldInv, DataInv, NEW c \in Conn, Pick(c), HeldInv', Still(c)
  PROVE  DataInv'
<1>1. /\ LockInv /\ pc[c] = "pick" /\ slot[c] = Idle /\ ReadOf(c) /\ WriteOf(c) /\ hdr[c].mx \in Nat
      /\ (content[c] = None => tx[c] = NoTx)
  BY Here, HdrNumbers DEF Pick, HeldInv, DataInv, HeldSlot, Room
<1>2. pc \in [Conn -> PC] /\ cand \in [Conn -> Cand]
  BY DEF HeldInv, LockInv, ConnType
<1>3. Touches(c)
  BY CalmTail DEF Pick
<1>4. /\ idx' = idx /\ Ver' = Ver /\ db' = db /\ nBackfill' = nBackfill /\ past' = past /\ N' = N /\ pending' = pending
      /\ hdr' = hdr /\ tx' = tx /\ slot' = slot /\ content' = content
  BY DEF Pick, Ver, N
<1>5. /\ pc'[c] \in {"share", "setmark", "pick", "idle"} /\ (pc'[c] = "idle" => content[c] = None)
      /\ pc'[c] \in {"share", "setmark"} => cand'[c].m <= hdr[c].mx
  <2>1. CASE \E i \in Marks, m \in 0..NotUsed :
               /\ pc' = [pc EXCEPT ![c] = "share"] /\ m <= hdr[c].mx
               /\ cand' = [cand EXCEPT ![c] = [i |-> i, m |-> m]] /\ excl' = excl
    BY <1>2, <2>1
  <2>2. CASE \E i \in Marks : /\ pc' = [pc EXCEPT ![c] = "setmark"] /\ CanExcl(c, {i})
                              /\ cand' = [cand EXCEPT ![c] = [i |-> i, m |-> hdr[c].mx]]
                              /\ excl' = [excl EXCEPT ![c] = @ \cup {i}]
    <3>1. pc'[c] = "setmark" /\ cand'[c].m = hdr[c].mx
      BY <1>2, <2>2
    <3> QED BY <1>1, <3>1
  <2>3. CASE pc' = [pc EXCEPT ![c] = IF content[c] = None THEN "idle" ELSE "pick"]
    BY <1>2, <2>3
  <2> QED BY <1>1, <2>1, <2>2, <2>3, PickMoves
<1>6. CkptOf(c)'
  <2>1. pc'[c] \notin Running
    BY <1>5 DEF Running
  <2> QED BY <2>1, NoCheckpoint
<1>7. WriteOf(c)'
  <2>1. content[c] # None => tx[c].first = 0
    BY <1>1 DEF WriteOf, Writing
  <2> QED BY <1>1, <1>4, <1>5, <2>1, WriterMoves DEF Writing
<1>8. ReadOf(c)' /\ Joins(c)
  BY <1>1, <1>4, <1>5, Locks DEF ReadOf, Joins, Reads
<1> QED BY <1>3, <1>6, <1>7, <1>8, TailStep

LEMMA SetMarkData ==
  ASSUME HeldInv, DataInv, NEW c \in Conn, SetMark(c), HeldInv', Still(c)
  PROVE  DataInv'
<1>1. /\ LockInv /\ pc[c] = "setmark" /\ slot[c] = Idle /\ ReadOf(c) /\ WriteOf(c) /\ cand[c].i \in excl[c]
      /\ cand[c].i \in Marks /\ (content[c] = None => tx[c] = NoTx)
  BY Here DEF SetMark, HeldInv, DataInv, HeldSlot, HeldLocks, Phase, Room
<1>2. pc \in [Conn -> PC]
  BY DEF HeldInv, LockInv, ConnType
<1>3. /\ idx' = idx /\ Ver' = Ver /\ db' = db /\ nBackfill' = nBackfill /\ past' = past /\ N' = N /\ pending' = pending
      /\ hdr' = hdr /\ tx' = tx /\ slot' = slot /\ content' = content /\ cand' = cand /\ wal' = wal /\ disk' = disk /\ head' = head
  BY DEF SetMark, Ver, N
<1>4. pc'[c] = "share"
  BY <1>2 DEF SetMark
<1>5. Touches(c)
  <2>1. \A d \in Conn \ {c} : slot[d] # cand[c].i
    BY <1>1 DEF LockInv, Exclusion
  <2>2. mark' = [mark EXCEPT ![cand[c].i] = cand[c].m]
    BY DEF SetMark
  <2>3. \A d \in Conn \ {c} : slot[d] \in Marks => mark'[slot[d]] = mark[slot[d]]
    BY <1>1, <2>1, <2>2 DEF LockInv, SharedType
  <2> QED BY <1>3, <2>3, QuietTail
<1>6. CkptOf(c)'
  <2>1. pc'[c] \notin Running
    BY <1>4 DEF Running
  <2> QED BY <2>1, NoCheckpoint
<1>7. WriteOf(c)'
  <2>1. content[c] # None => tx[c].first = 0
    BY <1>1 DEF WriteOf, Writing
  <2> QED BY <1>1, <1>3, <1>4, <2>1, WriterMoves DEF Writing
<1>8. ReadOf(c)' /\ Joins(c)
  BY <1>1, <1>3, <1>4, Locks DEF ReadOf, Joins, Reads
<1> QED BY <1>5, <1>6, <1>7, <1>8, TailStep

LEMMA ShareData ==
  ASSUME HeldInv, DataInv, NEW c \in Conn, Share(c), HeldInv', Still(c)
  PROVE  DataInv'
<1>1. /\ LockInv /\ pc[c] = "share" /\ slot[c] = Idle /\ ReadOf(c) /\ WriteOf(c) /\ nBackfill \in Nat
      /\ cand[c].i \in Marks /\ (content[c] = None => tx[c] = NoTx)
  BY Here, HdrNumbers DEF Share, HeldInv, DataInv, HeldSlot, Phase, Room
<1>2. pc \in [Conn -> PC] /\ slot \in [Conn -> 0..Idle] /\ minFrame \in [Conn -> 0..MaxFrame + 1]
  BY DEF HeldInv, LockInv, ConnType
<1>3. Touches(c)
  BY CalmTail DEF Share
<1>4. /\ idx' = idx /\ Ver' = Ver /\ db' = db /\ nBackfill' = nBackfill /\ past' = past /\ N' = N /\ pending' = pending
      /\ hdr' = hdr /\ tx' = tx /\ content' = content /\ cand' = cand
  BY DEF Share, Ver, N
<1>5. \/ pc'[c] = "recheck" /\ minFrame'[c] = nBackfill + 1
      \/ slot'[c] = Idle /\ minFrame' = minFrame /\ pc'[c] = IF content[c] = None THEN "idle" ELSE "pick"
  BY <1>1, <1>2 DEF Share
<1>6. CkptOf(c)'
  <2>1. pc'[c] \notin Running
    BY <1>5 DEF Running
  <2> QED BY <2>1, NoCheckpoint
<1>7. WriteOf(c)'
  <2>1. content[c] # None => tx[c].first = 0
    BY <1>1 DEF WriteOf, Writing
  <2> QED BY <1>1, <1>4, <1>5, <2>1, WriterMoves DEF Writing
<1>8. ReadOf(c)' /\ Joins(c)
  <2>1. ~Reads(c)'
    BY <1>4, <1>5, Locks DEF Reads
  <2> QED BY <1>1, <1>4, <1>5, <2>1, Locks DEF ReadOf, Joins
<1> QED BY <1>3, <1>6, <1>7, <1>8, TailStep

LEMMA RecheckData ==
  ASSUME HeldInv, DataInv, NEW c \in Conn, Recheck(c), HeldInv', Still(c)
  PROVE  DataInv'
<1>1. /\ LockInv /\ pc[c] = "recheck" /\ slot[c] = cand[c].i /\ slot[c] \in Marks /\ HdrOf(c) /\ LogShown
      /\ ReadOf(c) /\ WriteOf(c) /\ N \in Nat
  BY Here, HdrNumbers DEF Recheck, HeldInv, HdrInv, DataInv, HeldSlot, Phase
<1>2. /\ pc \in [Conn -> PC] /\ slot \in [Conn -> 0..Idle] /\ content \in [Conn -> Content \cup {None}]
  BY DEF HeldInv, LockInv, ConnType
<1>3. Touches(c)
  BY CalmTail DEF Recheck
<1>4. CkptOf(c)'
  <2>1. pc'[c] \notin Running
    BY <1>2 DEF Recheck, Begun, Running
  <2> QED BY <2>1, NoCheckpoint
<1> DEFINE same == mark[cand[c].i] = cand[c].m /\ HeaderKept(c)
<1>5. /\ idx' = idx /\ Ver' = Ver /\ db' = db /\ nBackfill' = nBackfill /\ past' = past /\ N' = N /\ pending' = pending
      /\ hdr' = hdr /\ tx' = tx /\ head' = head /\ minFrame' = minFrame /\ mark' = mark
  BY DEF Recheck, Ver, N
<1>6. CASE ~same /\ content[c] = None
  <2>1. content'[c] = None /\ slot'[c] = Idle /\ pc'[c] = "idle"
    BY <1>2, <1>6 DEF Recheck, Begun
  <2> QED BY <1>3, <1>4, <2>1, Locks, NoSnapshot, TailStep
<1>7. CASE same /\ content[c] = None
  <2>1. content'[c] = K /\ slot'[c] = slot[c] /\ pc'[c] = "read"
    BY <1>1, <1>2, <1>7 DEF Recheck, Begun, K
  <2>2. hdr'[c] = head'[0] /\ K' = K
    BY <1>5, <1>7 DEF HeaderKept, K
  <2>3. minFrame'[c] \in 1..nBackfill' + 1 /\ mark'[slot'[c]] <= N'
    BY <1>1, <1>5, <1>7, <2>1 DEF ReadOf, HeaderKept, N
  <2>4. LogShown'
    BY <1>3, TailLog
  <2>5. ReadOf(c)' /\ WriteOf(c)' /\ Base(c)' = N'
    BY <1>1, <2>1, <2>2, <2>3, <2>4, NewReader
  <2>6. Joins(c)
    BY <1>1, <1>5, <2>5 DEF Joins
  <2> QED BY <1>3, <1>4, <2>5, <2>6, TailStep
<1>8. CASE content[c] # None
  <2>1. content'[c] = content[c] /\ pc'[c] \in {"walhdr", "pick"} /\ slot'[c] \in {slot[c], Idle}
        /\ (slot'[c] # Idle => same /\ slot'[c] = slot[c])
    BY <1>1, <1>2, <1>8 DEF Recheck, Begun
  <2>2. WriteOf(c)'
    <3>1. tx[c].first = 0
      BY <1>1, <1>8 DEF WriteOf, Writing
    <3> QED BY <1>1, <1>5, <1>8, <2>1, <3>1, WriterMoves DEF Writing
  <2>3. Base(c)' = N
    BY <1>5, <2>1 DEF Base
  <2>4. hdr[c] = head[0]
    BY <1>1, <1>8 DEF HdrOf, Current
  <2>5. ReadOf(c)'
    <3>1. Reads(c)' => mark'[slot'[c]] <= Base(c)'
      <4>1. ASSUME Reads(c)' PROVE same /\ slot'[c] = slot[c]
        BY <2>1, <4>1, Locks DEF Reads
      <4> QED BY <1>1, <1>5, <2>3, <2>4, <4>1 DEF ReadOf, N
    <3> QED BY <1>1, <1>5, <2>1, <3>1, Locks DEF ReadOf
  <2>6. Joins(c)
    BY <1>1, <2>3 DEF Joins
  <2> QED BY <1>3, <1>4, <2>2, <2>5, <2>6, TailStep
<1> QED BY <1>6, <1>7, <1>8

LEMMA EndReadData ==
  ASSUME HeldInv, DataInv, NEW c \in Conn, EndRead(c), HeldInv', Still(c)
  PROVE  DataInv'
<1>1. /\ LockInv /\ HeldLocks(c) /\ HeldSlot(c) /\ Phase(c) /\ HdrOf(c) /\ ReadOf(c) /\ WriteOf(c) /\ CkptOf(c)
      /\ pc \in [Conn -> PC] /\ slot \in [Conn -> 0..Idle] /\ content \in [Conn -> Content \cup {None}]
      /\ hdr \in [Conn -> Hdr] /\ ck \in [Conn -> Ck] /\ tx \in [Conn -> Tx] /\ cand \in [Conn -> Cand]
      /\ minFrame \in [Conn -> 0..MaxFrame + 1] /\ excl \in [Conn -> SUBSET Lock]
  BY Here DEF HeldInv, HdrInv, DataInv, LockInv, ConnType
<1>2. Touches(c)
  BY <1>1, CalmTail DEF EndRead, Forget
<1>3. Joins(c) /\ ReadOf(c)' /\ WriteOf(c)'
  <2>1. content'[c] = None /\ slot'[c] \notin Marks /\ pc'[c] \notin {"read", "setmark", "share", "recheck"}
    BY <1>1, Locks DEF EndRead, Forget, HeldSlot, Phase
  <2> QED BY <2>1, NoSnapshot
<1>4. CkptOf(c)'
  <2>1. pc'[c] \notin Running
    BY <1>1 DEF EndRead, Forget, Running
  <2> QED BY <2>1, NoCheckpoint
<1> QED BY <1>2, <1>3, <1>4, TailStep

LEMMA RecoverLockData ==
  ASSUME HeldInv, DataInv, NEW c \in Conn, RecoverLock(c), HeldInv', Still(c)
  PROVE  DataInv'
<1>1. /\ LockInv /\ HeldLocks(c) /\ HeldSlot(c) /\ Phase(c) /\ HdrOf(c) /\ ReadOf(c) /\ WriteOf(c) /\ CkptOf(c)
      /\ pc \in [Conn -> PC] /\ slot \in [Conn -> 0..Idle] /\ content \in [Conn -> Content \cup {None}]
      /\ hdr \in [Conn -> Hdr] /\ ck \in [Conn -> Ck] /\ tx \in [Conn -> Tx] /\ cand \in [Conn -> Cand]
      /\ minFrame \in [Conn -> 0..MaxFrame + 1] /\ excl \in [Conn -> SUBSET Lock]
  BY Here DEF HeldInv, HdrInv, DataInv, LockInv, ConnType
<1>2. Touches(c)
  BY <1>1, CalmTail DEF RecoverLock, Take, CanExcl, RecoverLocks
<1>3. Joins(c) /\ ReadOf(c)' /\ WriteOf(c)'
  <2>1. content'[c] = None /\ slot'[c] \notin Marks /\ pc'[c] \notin {"read", "setmark", "share", "recheck"}
    BY <1>1, Locks DEF RecoverLock, Take, CanExcl, RecoverLocks, HeldSlot, Phase
  <2> QED BY <2>1, NoSnapshot
<1>4. CkptOf(c)'
  <2>1. pc'[c] \notin Running
    BY <1>1 DEF RecoverLock, Take, CanExcl, RecoverLocks, Running
  <2> QED BY <2>1, NoCheckpoint
<1> QED BY <1>2, <1>3, <1>4, TailStep

LEMMA Rec1Data ==
  ASSUME HeldInv, DataInv, NEW c \in Conn, Rec1(c), HeldInv', Still(c)
  PROVE  DataInv'
<1>1. /\ LockInv /\ HeldLocks(c) /\ HeldSlot(c) /\ Phase(c) /\ HdrOf(c) /\ ReadOf(c) /\ WriteOf(c) /\ CkptOf(c)
      /\ pc \in [Conn -> PC] /\ slot \in [Conn -> 0..Idle] /\ content \in [Conn -> Content \cup {None}]
      /\ hdr \in [Conn -> Hdr] /\ ck \in [Conn -> Ck] /\ tx \in [Conn -> Tx] /\ cand \in [Conn -> Cand]
      /\ minFrame \in [Conn -> 0..MaxFrame + 1] /\ excl \in [Conn -> SUBSET Lock]
  BY Here DEF HeldInv, HdrInv, DataInv, LockInv, ConnType
<1>2. Touches(c)
  <2>1. pc[c] = "rec1" /\ Unborn /\ excl[c] = Lock
    BY <1>1 DEF Rec1, HeldInv, HeadInv, HeadOf, HeldLocks
  <2>2. idx' = idx
    <3>1. idx' = [i \in Frames |-> idx[i]]
      BY <1>1, <2>1, NothingToRecover DEF Rec1, Unborn
    <3> QED BY <2>1, <3>1 DEF Unborn, Virgin
  <2>3. head'[0] = head[0] /\ N' = N
    BY <1>1 DEF Rec1, HeldInv, LockInv, SharedType, N
  <2> QED BY <2>1, <2>2, <2>3, Locked, QuietTail DEF Rec1
<1>3. Joins(c) /\ ReadOf(c)' /\ WriteOf(c)'
  <2>1. content'[c] = None /\ slot'[c] \notin Marks /\ pc'[c] \notin {"read", "setmark", "share", "recheck"}
    BY <1>1, Locks DEF Rec1, HeldSlot, Phase
  <2> QED BY <2>1, NoSnapshot
<1>4. CkptOf(c)'
  <2>1. pc'[c] \notin Running
    BY <1>1 DEF Rec1, Running
  <2> QED BY <2>1, NoCheckpoint
<1> QED BY <1>2, <1>3, <1>4, TailStep

LEMMA Rec2Data ==
  ASSUME HeldInv, DataInv, NEW c \in Conn, Rec2(c), HeldInv', Still(c)
  PROVE  DataInv'
<1>1. /\ LockInv /\ HeldLocks(c) /\ HeldSlot(c) /\ Phase(c) /\ HdrOf(c) /\ ReadOf(c) /\ WriteOf(c) /\ CkptOf(c)
      /\ pc \in [Conn -> PC] /\ slot \in [Conn -> 0..Idle] /\ content \in [Conn -> Content \cup {None}]
      /\ hdr \in [Conn -> Hdr] /\ ck \in [Conn -> Ck] /\ tx \in [Conn -> Tx] /\ cand \in [Conn -> Cand]
      /\ minFrame \in [Conn -> 0..MaxFrame + 1] /\ excl \in [Conn -> SUBSET Lock]
  BY Here DEF HeldInv, HdrInv, DataInv, LockInv, ConnType
<1>2. Touches(c)
  <2>1. pc[c] = "rec2" /\ Unborn /\ excl[c] = Lock /\ hdr[c] = H0
    BY <1>1 DEF Rec2, HeldInv, HeadInv, HeadOf, HeldLocks
  <2>2. UNCHANGED history
    BY <1>1, <2>1, NothingToRecover DEF Rec2, Unborn
  <2>3. head' = [head EXCEPT ![0] = H0] /\ head[0] = ZeroHdr
    BY <2>1 DEF Rec2, Unborn
  <2>4. N' = N
    BY <2>3 DEF HeldInv, LockInv, SharedType, N, H0, ZeroHdr
  <2> QED BY <2>1, <2>2, <2>4, Locked, QuietTail DEF Rec2
<1>3. Joins(c) /\ ReadOf(c)' /\ WriteOf(c)'
  <2>1. content'[c] = None /\ slot'[c] \notin Marks /\ pc'[c] \notin {"read", "setmark", "share", "recheck"}
    BY <1>1, Locks DEF Rec2, HeldSlot, Phase
  <2> QED BY <2>1, NoSnapshot
<1>4. CkptOf(c)'
  <2>1. pc'[c] \notin Running
    BY <1>1 DEF Rec2, Running
  <2> QED BY <2>1, NoCheckpoint
<1> QED BY <1>2, <1>3, <1>4, TailStep

LEMMA Rec3Data ==
  ASSUME HeldInv, DataInv, NEW c \in Conn, Rec3(c), HeldInv', Still(c)
  PROVE  DataInv'
<1>1. /\ LockInv /\ HeldLocks(c) /\ HeldSlot(c) /\ Phase(c) /\ HdrOf(c) /\ ReadOf(c) /\ WriteOf(c) /\ CkptOf(c)
      /\ pc \in [Conn -> PC] /\ slot \in [Conn -> 0..Idle] /\ content \in [Conn -> Content \cup {None}]
      /\ hdr \in [Conn -> Hdr] /\ ck \in [Conn -> Ck] /\ tx \in [Conn -> Tx] /\ cand \in [Conn -> Cand]
      /\ minFrame \in [Conn -> 0..MaxFrame + 1] /\ excl \in [Conn -> SUBSET Lock]
  BY Here DEF HeldInv, HdrInv, DataInv, LockInv, ConnType
<1>2. Touches(c)
  <2>1. pc[c] = "rec3" /\ nBackfill = 0 /\ excl[c] = Lock
    BY <1>1 DEF Rec3, HeldInv, HeadInv, HeadOf, HeldLocks, Virgin
  <2>2. head'[0] = head[0] /\ N' = N
    BY DEF Rec3, N
  <2> QED BY <2>1, <2>2, Locked, QuietTail DEF Rec3
<1>3. Joins(c) /\ ReadOf(c)' /\ WriteOf(c)'
  <2>1. content'[c] = None /\ slot'[c] \notin Marks /\ pc'[c] \notin {"read", "setmark", "share", "recheck"}
    BY <1>1, Locks DEF Rec3, HeldSlot, Phase
  <2> QED BY <2>1, NoSnapshot
<1>4. CkptOf(c)'
  <2>1. pc'[c] \notin Running
    BY <1>1 DEF Rec3, Running
  <2> QED BY <2>1, NoCheckpoint
<1> QED BY <1>2, <1>3, <1>4, TailStep

LEMMA BeginWriteData ==
  ASSUME HeldInv, DataInv, NEW c \in Conn, BeginWrite(c), HeldInv', Still(c)
  PROVE  DataInv'
<1>1. /\ LockInv /\ pc[c] = "read" /\ ReadOf(c) /\ LogShown /\ tx[c] = NoTx /\ hdr[c] = head[0] /\ content[c] = K
      /\ N \in Nat /\ (slot[c] = 0 \/ slot[c] \in Marks) /\ content[c] # None
  BY Here, HdrNumbers, ReaderFrom DEF BeginWrite, HeldInv, DataInv, Room, Phase, HeaderKept, ReadOf
<1>2. pc \in [Conn -> PC] /\ slot \in [Conn -> 0..Idle]
  BY DEF HeldInv, LockInv, ConnType
<1>3. Touches(c)
  BY CalmTail DEF BeginWrite
<1>4. /\ idx' = idx /\ Ver' = Ver /\ db' = db /\ nBackfill' = nBackfill /\ past' = past /\ N' = N /\ pending' = pending
      /\ hdr' = hdr /\ tx' = tx /\ content' = content /\ slot' = slot /\ minFrame' = minFrame /\ mark' = mark /\ pc'[c] = "write"
  BY <1>2 DEF BeginWrite, Ver, N
<1>5. CkptOf(c)'
  <2>1. pc'[c] \notin Running
    BY <1>4 DEF Running
  <2> QED BY <2>1, NoCheckpoint
<1>6. Top(c) = N /\ \A i \in 1..N : VIdx(c)[i] = idx[i]
  <2>1. Top(c) = N
    BY <1>1, EmptyTx DEF Top, N
  <2> QED BY <1>1, <2>1, InFrames DEF VIdx, N
<1>7. Shown(Ver, db, nBackfill, VIdx(c), Top(c), Page \ tx[c].list, content[c])
  <2>1. Shown(Ver, db, nBackfill, idx, N, Page, K) /\ nBackfill \in Nat
    BY <1>1, HdrNumbers DEF LogShown
  <2>2. Shown(Ver, db, nBackfill, VIdx(c), N, Page, K)
    BY <1>1, <1>6, <2>1, ShownKept
  <2> QED BY <1>1, <1>6, <2>2, EmptyTx
<1>8. WriteOf(c)'
  <2>1. VIdx(c)' = VIdx(c) /\ Top(c)' = Top(c)
    BY <1>4 DEF VIdx, Top
  <2> QED BY <1>1, <1>4, <1>7, <2>1, EmptyTx DEF WriteOf, Writing
<1>9. Base(c) = N /\ Base(c)' = N
  BY <1>1, <1>4 DEF Base, N
<1>10. ReadOf(c)' /\ Joins(c)
  BY <1>1, <1>4, <1>9 DEF ReadOf, Joins, Reads
<1> QED BY <1>3, <1>5, <1>8, <1>10, TailStep

LEMMA WalFramesData ==
  ASSUME HeldInv, DataInv, NEW c \in Conn, WalFrames(c), HeldInv', Still(c)
  PROVE  DataInv'
<1>1. /\ pc[c] = "write" /\ Writing(c) /\ tx[c].app = <<>> /\ tx[c].list = {} /\ WriteOf(c) /\ HdrOf(c) /\ LockInv
      /\ tx[c] \in Tx /\ content[c] \in Content /\ nBackfill \in Nat /\ N \in Nat /\ Top(c) \in Nat
  BY WritesHave DEF WalFrames, Room, WriteOf
<1>2. pc \in [Conn -> PC] /\ slot \in [Conn -> 0..Idle] /\ content \in [Conn -> Content \cup {None}] /\ tx \in [Conn -> Tx]
  BY DEF HeldInv, LockInv, ConnType
<1>3. /\ idx' = idx /\ Ver' = Ver /\ db' = db /\ nBackfill' = nBackfill /\ past' = past /\ N' = N
      /\ hdr' = hdr /\ minFrame' = minFrame /\ mark' = mark
  BY DEF WalFrames, Ver, N
<1>4. PICK list \in (SUBSET Page) \ {{}}, com \in BOOLEAN :
        /\ content' = [content EXCEPT ![c] = [p \in Page |-> IF p \in list THEN vers + 1 ELSE @[p]]]
        /\ tx' = [tx EXCEPT ![c] = [@ EXCEPT !.list = list, !.com = com,
                    !.first = IF HeaderKept(c) THEN 0 ELSE head[0].mx + 1]]
        /\ pending' = IF com THEN pending \cup {<<Len(past), content'[c]>>} ELSE pending
  BY DEF WalFrames
<1>5. /\ tx'[c].list = list /\ tx'[c].com = com /\ tx'[c].app = tx[c].app
      /\ tx'[c].first = IF HeaderKept(c) THEN 0 ELSE N + 1
  BY <1>1, <1>2, <1>4 DEF Tx, N
<1>6. \A p \in Page \ list : content'[c][p] = content[c][p]
  BY <1>1, <1>2, <1>4
<1>7. \/ slot[c] # 0 /\ pc'[c] = "walhdr" /\ slot'[c] = slot[c]
      \/ slot[c] = 0 /\ pc'[c] = "rs1" /\ slot'[c] = slot[c]
      \/ slot[c] = 0 /\ pc'[c] = "pick" /\ slot'[c] = Idle
  BY <1>2 DEF WalFrames
<1>8. Touches(c)
  BY <1>4, CalmTail DEF WalFrames
<1>9. CkptOf(c)'
  <2>1. pc'[c] \notin Running
    BY <1>7 DEF Running
  <2> QED BY <2>1, NoCheckpoint
<1>10. ReadOf(c)' /\ Joins(c)
  BY <1>1, <1>3, <1>7, WriterReads
<1>11. Shown(Ver, db, nBackfill, VIdx(c), Top(c), Page \ list, content'[c])
  <2>1. Shown(Ver, db, nBackfill, VIdx(c), Top(c), Page, content[c])
    BY <1>1 DEF WriteOf
  <2> HIDE DEF Ver, VIdx, Top
  <2> QED BY <1>1, <1>6, <2>1 DEF Shown, Sees
<1>12. slot[c] = 0 => HeaderKept(c)
  BY <1>1 DEF HdrOf, Current, HeaderKept
<1>13. VIdx(c)' = VIdx(c) /\ Top(c)' = Top(c)
  BY <1>3, <1>5 DEF VIdx, Top
<1>14. com => <<Len(past), content'[c]>> \in pending'
  BY <1>4
<1>15. Len(tx'[c].app) = 0
  BY <1>1, <1>5
<1>16. WriteOf(c)'
  BY <1>3, <1>5, <1>7, <1>11, <1>12, <1>13, <1>14, <1>15 DEF WriteOf
<1> QED BY <1>8, <1>9, <1>10, <1>16, TailStep

LEMMA Restart1Data ==
  ASSUME HeldInv, DataInv, NEW c \in Conn, Restart1(c), HeldInv', Still(c)
  PROVE  DataInv'
<1>1. /\ pc[c] = "rs1" /\ HdrOf(c) /\ HeldSlot(c) /\ Room(c) /\ LockInv /\ WriteOf(c) /\ N \in Nat /\ nBackfill \in Nat
      /\ tx[c].app = <<>> /\ hdr[c] \in Hdr /\ nBackfill = N /\ hdr[c] = head[0]
      /\ slot[c] = IF content[c] = None THEN Idle ELSE 0
  BY Here, HdrNumbers DEF Restart1, HeldInv, HdrInv, DataInv, Room, HdrOf, Current, HeldSlot
<1>2. pc \in [Conn -> PC] /\ hdr \in [Conn -> Hdr]
  BY DEF HeldInv, LockInv, ConnType
<1>3. /\ idx' = idx /\ Ver' = Ver /\ db' = db /\ nBackfill' = nBackfill /\ past' = past /\ N' = N /\ pending' = pending
      /\ tx' = tx /\ slot' = slot /\ content' = content /\ minFrame' = minFrame /\ mark' = mark
      /\ wal' = wal /\ disk' = disk /\ head'[0] = head[0]
  <2>1. head' = [head EXCEPT ![1] = [hdr[c] EXCEPT !.mx = 0, !.salt = salts + 1]]
    BY DEF Restart1
  <2>2. head'[0] = head[0]
    BY <1>1, <2>1 DEF LockInv, SharedType
  <2> QED BY <2>2 DEF Restart1, Ver, N
<1>4. pc'[c] = "rs2" /\ hdr'[c].mx = 0
  BY <1>1, <1>2 DEF Restart1, Hdr
<1>5. Touches(c)
  BY <1>3, QuietTail
<1>6. CkptOf(c)'
  <2>1. pc'[c] \notin Running
    BY <1>4 DEF Running
  <2> QED BY <2>1, NoCheckpoint
<1>7. ReadOf(c)' /\ Joins(c)
  <2>1. ~Reads(c)' /\ slot'[c] \notin Marks
    BY <1>1, <1>3, Locks DEF Reads
  <2> QED BY <1>4, <2>1 DEF ReadOf, Joins
<1>8. WriteOf(c)'
  <2> SUFFICES ASSUME content[c] # None PROVE WriteOf(c)'
    BY <1>3 DEF WriteOf, Writing
  <2>1. Shown(Ver, db, nBackfill, VIdx(c), Top(c), Page \ tx[c].list, content[c]) /\ tx[c].first = 0
        /\ (tx[c].com => <<Len(past), content[c]>> \in pending)
    BY <1>1 DEF WriteOf, Writing
  <2>2. Top(c) = N
    BY <1>1 DEF Top, N
  <2>3. \A p \in Page \ tx[c].list : db[p] = content[c][p]
    <3>1. nBackfill \in Nat /\ Top(c) <= nBackfill /\ Top(c) \in Nat
      BY <1>1, <2>2
    <3> DEFINE P == Page \ tx[c].list
    <3>2. Shown(Ver, db, nBackfill, VIdx(c), Top(c), P, content[c])
      BY <2>1
    <3> HIDE DEF Ver, VIdx, Top, P
    <3>3. \A p \in P : db[p] = content[c][p]
      BY <3>1, <3>2 DEF Shown, Sees, Absent
    <3> QED BY <3>3 DEF P
  <2>4. \A x : Shown(Ver, db, nBackfill, x, 0, Page \ tx[c].list, content[c])
    BY <1>1, <2>3 DEF Shown, Sees, Absent
  <2>5. Top(c)' = 0 /\ Len(tx[c].app) = 0
    BY <1>1, <1>3, <1>4 DEF Top
  <2>6. Shown(Ver, db, nBackfill, VIdx(c), Top(c), Page \ tx[c].list, content[c])'
    BY <1>3, <2>4, <2>5
  <2>7. tx'[c] = tx[c] /\ content'[c] = content[c] /\ past' = past /\ pending' = pending
    BY <1>3
  <2> HIDE DEF Ver, VIdx, Top
  <2> QED BY <1>4, <2>1, <2>5, <2>6, <2>7 DEF WriteOf
<1> QED BY <1>5, <1>6, <1>7, <1>8, TailStep

LEMMA Restart2Data ==
  ASSUME HeldInv, DataInv, NEW c \in Conn, Restart2(c), HeldInv', Still(c), \A d \in Conn : pc[d] # "ckinfo"
  PROVE  DataInv'
<1>1. /\ pc[c] = "rs2" /\ LockInv /\ HdrOf(c) /\ WriteOf(c) /\ LogShown /\ Older(head[0], hdr[c]) /\ hdr[c].mx = 0
      /\ nBackfill = N /\ N \in Nat /\ hdr[c] \in Hdr /\ Phase(c)
  BY Here, HdrNumbers DEF Restart2, HeldInv, HdrInv, DataInv, HdrOf
<1>2. pc \in [Conn -> PC] /\ head \in [{0, 1} -> Hdr]
  BY DEF HeldInv, LockInv, SharedType, ConnType
<1>3. /\ UNCHANGED <<nBackfill, mark, idx, files, slot, hdr, content, minFrame, cand, tx, ck, past, pending>>
      /\ Ver' = Ver /\ K' = K /\ head'[0] = hdr[c] /\ N' = 0 /\ pc'[c] = "rs3"
  BY <1>1, <1>2 DEF Restart2, Ver, N, K
<1>4. LogShown'
  <2>1. \A p \in Page : db[p] = K[p]
    <3>1. Shown(Ver, db, nBackfill, idx, N, Page, K)
      BY <1>1 DEF LogShown
    <3> HIDE DEF Ver, K
    <3> QED BY <1>1, <3>1 DEF Shown, Sees, Absent
  <2>2. Shown(Ver, db, nBackfill, idx, 0, Page, K)
    <3> HIDE DEF Ver, K
    <3> QED BY <1>1, <2>1 DEF Shown, Sees, Absent
  <2>3. disk.db = K
    BY <1>1 DEF LogShown
  <2> QED BY <1>3, <2>2, <2>3 DEF LogShown
<1>5. (\A d \in Conn : slot[d] \notin Marks) /\ (\A d \in Conn \ {c} : ~Writing(d))
  BY <1>1, NobodyReads
<1>6. ASSUME NEW d \in Conn \ {c} PROVE ReadOf(d)' /\ WriteOf(d)' /\ CkptOf(d)'
  <2>1. ReadOf(d) /\ HdrOf(d) /\ pc'[d] = pc[d] /\ hdr[d] \in Hdr /\ head[0] \in Hdr /\ hdr[d].mx \in Nat
    BY <1>1, HdrNumbers DEF HeldInv, HdrInv, DataInv, Still
  <2>2. CkptOf(d)'
    <3>1. pc[d] \notin Running
      BY <1>1, <2>1 DEF HdrOf
    <3> QED BY <2>1, <3>1, NoCheckpoint
  <2>3. WriteOf(d)'
    BY <1>3, <1>5, <2>1 DEF WriteOf, Writing
  <2>4. pc[d] = "read" => hdr[d] # head'[0]
    <3>1. pc[d] = "read" => hdr[d] = head[0] \/ Older(hdr[d], head[0])
      BY <2>1 DEF HdrOf, Follows, HasHdr
    <3> QED BY <1>1, <1>3, <2>1, <3>1, OlderOrder
  <2>5. ReadOf(d)'
    <3>1. ~Reads(d)' /\ From(d)' = From(d)
      BY <1>3, <1>5 DEF Reads, From
    <3> QED BY <1>3, <1>5, <2>1, <2>4, <3>1 DEF ReadOf
  <2> QED BY <2>2, <2>3, <2>5
<1>7. ReadOf(c)'
  <2>1. ~Reads(c)'
    BY <1>3, <1>5 DEF Reads
  <2> QED BY <1>3, <1>5, <2>1 DEF ReadOf
<1>8. WriteOf(c)'
  <2>1. VIdx(c)' = VIdx(c) /\ Top(c)' = Top(c)
    BY <1>3 DEF VIdx, Top
  <2> HIDE DEF Ver, VIdx, Top
  <2> QED BY <1>1, <1>3, <2>1 DEF WriteOf, Writing
<1>9. CkptOf(c)'
  BY <1>3, NoCheckpoint DEF Running
<1> QED BY <1>4, <1>6, <1>7, <1>8, <1>9 DEF DataInv

LEMMA Restart3Data ==
  ASSUME HeldInv, DataInv, NEW c \in Conn, Restart3(c), HeldInv', Still(c)
  PROVE  DataInv'
<1>1. /\ pc[c] = "rs3" /\ LockInv /\ HdrOf(c) /\ WriteOf(c) /\ LogShown /\ N = 0 /\ nBackfill \in Nat /\ HeldSlot(c)
  BY Here, HdrNumbers DEF Restart3, HeldInv, HdrInv, DataInv, HdrOf
<1>2. pc \in [Conn -> PC] /\ slot \in [Conn -> 0..Idle]
  BY DEF HeldInv, LockInv, ConnType
<1>3. /\ UNCHANGED <<head, idx, files, hdr, content, minFrame, cand, tx, ck, past, pending>>
      /\ Ver' = Ver /\ K' = K /\ N' = N /\ nBackfill' = 0
      /\ pc'[c] = (IF content[c] = None THEN "cktrunc" ELSE "pick") /\ slot'[c] = Idle
  BY <1>1, <1>2 DEF Restart3, ResetInfo, Ver, N, K, HeldSlot
<1>4. LogShown'
  <2>1. \A v, d, x, n, P, k : Shown(v, d, nBackfill, x, n, P, k) => Shown(v, d, 0, x, n, P, k)
    <3>1. 0..0 \subseteq 0..nBackfill
      BY <1>1
    <3> QED BY <3>1 DEF Shown
  <2>2. Shown(Ver, db, 0, idx, 0, Page, K) /\ disk.db = K
    <3> HIDE DEF Ver, K
    <3> QED BY <1>1, <2>1 DEF LogShown
  <2> QED BY <1>1, <1>3, <2>2 DEF LogShown
<1>5. (\A d \in Conn : slot[d] \notin Marks) /\ (\A d \in Conn \ {c} : ~Writing(d))
  BY <1>1, NobodyReads
<1>6. ASSUME NEW d \in Conn \ {c} PROVE ReadOf(d)' /\ WriteOf(d)' /\ CkptOf(d)'
  <2>1. ReadOf(d) /\ HdrOf(d) /\ pc'[d] = pc[d] /\ slot'[d] = slot[d] /\ hdr[d].mx \in Nat
    BY <1>1, HdrNumbers DEF HeldInv, HdrInv, DataInv, Still
  <2>2. CkptOf(d)'
    <3>1. pc[d] \notin Running
      BY <1>1, <2>1 DEF HdrOf
    <3> QED BY <2>1, <3>1, NoCheckpoint
  <2>3. WriteOf(d)'
    BY <1>3, <1>5, <2>1 DEF WriteOf, Writing
  <2>4. ReadOf(d)'
    <3>1. ~Reads(d)' /\ From(d)' = From(d)
      BY <1>3, <1>5, <2>1 DEF Reads, From
    <3> QED BY <1>3, <1>5, <2>1, <3>1 DEF ReadOf
  <2> QED BY <2>2, <2>3, <2>4
<1>7. ReadOf(c)'
  BY <1>3, Locks DEF ReadOf, Reads
<1>8. WriteOf(c)'
  <2>1. VIdx(c)' = VIdx(c) /\ Top(c)' = Top(c)
    BY <1>3 DEF VIdx, Top
  <2>2. Shown(Ver, db, nBackfill, VIdx(c), Top(c), Page \ tx[c].list, content[c])
        => Shown(Ver, db, 0, VIdx(c), Top(c), Page \ tx[c].list, content[c])
    <3>1. 0..0 \subseteq 0..nBackfill
      BY <1>1
    <3> QED BY <3>1 DEF Shown
  <2> HIDE DEF Ver, VIdx, Top
  <2> QED BY <1>1, <1>3, <2>1, <2>2 DEF WriteOf, Writing
<1>9. CkptOf(c)'
  BY <1>3, NoCheckpoint DEF Running
<1> QED BY <1>4, <1>6, <1>7, <1>8, <1>9 DEF DataInv

LEMMA WalHdrData ==
  ASSUME HeldInv, DataInv, NEW c \in Conn, WalHdr(c), HeldInv', Still(c)
  PROVE  DataInv'
<1>1. /\ pc[c] = "walhdr" /\ Writing(c) /\ WriteOf(c) /\ HdrOf(c) /\ LockInv
      /\ tx[c] \in Tx /\ slot[c] \in Marks
  BY WritesHave DEF WalHdr, HeldSlot
<1>2. pc \in [Conn -> PC] /\ hdr \in [Conn -> Hdr]
  BY DEF HeldInv, LockInv, ConnType
<1>3. /\ idx' = idx /\ db' = db /\ nBackfill' = nBackfill /\ past' = past /\ N' = N /\ pending' = pending
      /\ tx' = tx /\ slot' = slot /\ content' = content /\ minFrame' = minFrame /\ mark' = mark
      /\ disk' = disk /\ head' = head
  BY DEF WalHdr, N
<1>4. wal'.frame = wal.frame /\ Ver' = Ver
  <2>1. wal'.frame = wal.frame
    BY <1>1 DEF WalHdr, LockInv, SharedType, WalFile
  <2> QED BY <2>1 DEF Ver
<1>5. pc'[c] \in {"frame", "hdrsync"} /\ hdr'[c].mx = hdr[c].mx
  BY ZenonT(60), <1>1, <1>2 DEF WalHdr, Hdr
<1>6. Touches(c)
  BY <1>3, <1>4, QuietTail
<1>7. CkptOf(c)'
  <2>1. pc'[c] \notin Running
    BY <1>5 DEF Running
  <2> QED BY <2>1, NoCheckpoint
<1>8. ReadOf(c)' /\ Joins(c)
  BY <1>1, <1>3, <1>5, WriterReads
<1>9. WriteOf(c)'
  <2>1. tx[c].first \in {0, N + 1}
    BY <1>1 DEF WriteOf
  <2> QED BY <1>1, <1>3, <1>4, <1>5, <2>1, WriterMoves
<1> QED BY <1>6, <1>7, <1>8, <1>9, TailStep

LEMMA SyncHdrData ==
  ASSUME HeldInv, DataInv, NEW c \in Conn, SyncHdr(c), HeldInv', Still(c)
  PROVE  DataInv'
<1>1. /\ pc[c] = "hdrsync" /\ Writing(c) /\ WriteOf(c) /\ LockInv
  BY WritesHave DEF SyncHdr
<1>2. pc \in [Conn -> PC]
  BY DEF HeldInv, LockInv, ConnType
<1>3. /\ UNCHANGED <<head, idx, nBackfill, mark, past, wal, db, pending, hdr, tx, slot, content, minFrame>>
      /\ disk'.db = disk.db /\ Ver' = Ver /\ N' = N /\ pc'[c] = "frame"
  BY <1>1, <1>2 DEF SyncHdr, SyncWal, Ver, N, LockInv, SharedType
<1>4. Touches(c)
  BY <1>3, CalmTail
<1>5. CkptOf(c)'
  <2>1. pc'[c] \notin Running
    BY <1>3 DEF Running
  <2> QED BY <2>1, NoCheckpoint
<1>6. ReadOf(c)' /\ Joins(c)
  BY <1>1, <1>3, WriterReads
<1>7. WriteOf(c)'
  <2>1. tx[c].first \in {0, N + 1}
    BY <1>1 DEF WriteOf
  <2> QED BY <1>1, <1>3, <2>1, WriterMoves
<1> QED BY <1>4, <1>5, <1>6, <1>7, TailStep

LEMMA WriteFrameData ==
  ASSUME HeldInv, DataInv, NEW c \in Conn, WriteFrame(c), HeldInv', Still(c)
  PROVE  DataInv'
<1> DEFINE p == Min(tx[c].list)
           last == tx[c].list = {p}
           old == FindFrame(c, p)
           over == tx[c].first > 0 /\ (~last \/ ~tx[c].com) /\ old >= tx[c].first
           new == Top(c) + 1
<1>1. /\ pc[c] = "frame" /\ Writing(c) /\ WriteOf(c) /\ LockInv /\ HdrOf(c) /\ tx[c] \in Tx /\ hdr[c] \in Hdr
      /\ WRITE \in excl[c] /\ hdr[c].mx \in Nat /\ Len(tx[c].app) \in Nat /\ N \in Nat /\ N <= hdr[c].mx
      /\ Top(c) \in Nat /\ nBackfill \in Nat /\ tx[c].list # {}
  BY WritesHave DEF WriteFrame, HdrOf, Room, Writing
<1>2. /\ pc \in [Conn -> PC] /\ hdr \in [Conn -> Hdr] /\ tx \in [Conn -> Tx] /\ wal \in WalFile
  BY DEF HeldInv, LockInv, SharedType, ConnType
<1>3. /\ UNCHANGED <<head, idx, nBackfill, mark, past, db, disk, pending, slot, content, minFrame>>
      /\ N' = N /\ pc'[c] \in {"frame", "recksum", "sync", "index"} /\ (pc'[c] # "frame" => last)
  BY <1>1, <1>2 DEF WriteFrame, N
<1>4. p \in tx[c].list /\ p \in Page /\ tx[c].app \in Seq(Page)
  <2>1. tx[c].list \subseteq Nat /\ tx[c].list \subseteq Page /\ tx[c].app \in Seq(Page)
    BY <1>1, WalAssumption DEF Tx
  <2> QED BY <1>1, <2>1, MinOf
<1>5. /\ tx'[c].list = tx[c].list \ {p} /\ tx'[c].com = tx[c].com /\ tx'[c].first = tx[c].first
      /\ tx'[c].app = IF over THEN tx[c].app ELSE Append(tx[c].app, p)
  <2>1. \E r : tx' = [tx EXCEPT ![c] = [tx[c] EXCEPT !.list = @ \ {p}, !.reck = r,
                                          !.app = IF over THEN @ ELSE Append(@, p)]]
    BY DEF WriteFrame
  <2> QED BY <1>1, <1>2, <2>1 DEF Tx
<1>6. hdr'[c].mx = hdr[c].mx
  <2>1. hdr' = hdr \/ \E k : hdr' = [hdr EXCEPT ![c].cksum = k]
    BY DEF WriteFrame
  <2> QED BY <1>1, <1>2, <2>1 DEF Hdr
<1>7. new \in Frames
  <2>1. new <= env.frames /\ env.frames \in 0..MaxFrame
    BY WalAssumption DEF WriteFrame, Top, HeldInv, LockInv, SharedType
  <2> QED BY <1>1, <2>1, Numbers DEF Frames
<1>8. IF over THEN wal' = [wal EXCEPT !.frame[old].ver = content[c][p]]
      ELSE \E f : wal' = [wal EXCEPT !.frame[new] = f] /\ f.ver = content[c][p]
  <2>1. CASE over
    BY <2>1 DEF WriteFrame
  <2>2. CASE ~over
    <3> DEFINE f == [pg |-> p, ver |-> content[c][p], com |-> tx[c].com /\ last, cksum |-> NoCksum]
    <3>1. \/ wal' = [wal EXCEPT !.frame[new] = f]
          \/ wal' = [wal EXCEPT !.frame[new] = [f EXCEPT !.cksum = Extend(hdr[c].cksum, f)]]
      BY <2>2 DEF WriteFrame, Top
    <3>2. f.ver = content[c][p] /\ \A k : [f EXCEPT !.cksum = k].ver = content[c][p]
      OBVIOUS
    <3> HIDE DEF f, over, new
    <3>3. ASSUME NEW g, wal' = [wal EXCEPT !.frame[new] = g], g.ver = content[c][p]
          PROVE  \E h : wal' = [wal EXCEPT !.frame[new] = h] /\ h.ver = content[c][p]
      BY <3>3
    <3>4. \E h : wal' = [wal EXCEPT !.frame[new] = h] /\ h.ver = content[c][p]
      BY <3>1, <3>2, <3>3
    <3> QED BY <2>2, <3>4
  <2> QED BY <2>1, <2>2
<1>9. over => /\ old \in N + 1..hdr[c].mx /\ idx[old] = p
              /\ \A i \in old + 1..hdr[c].mx : idx[i] # p
  <2> SUFFICES ASSUME over PROVE /\ old \in N + 1..hdr[c].mx /\ idx[old] = p
                                 /\ \A i \in old + 1..hdr[c].mx : idx[i] # p
    OBVIOUS
  <2>1. tx[c].first = N + 1
    BY <1>1 DEF WriteOf
  <2>2. old \in 0..hdr[c].mx /\ old >= N + 1 /\ old # 0
    BY <1>1, <2>1, FrameFound
  <2>3. old >= minFrame[c] /\ idx[old] = p /\ \A i \in minFrame[c]..hdr[c].mx : idx[i] = p => i <= old
    BY <1>1, <2>2, FrameFound
  <2>4. minFrame[c] \in Nat
    BY <1>1, Here, Numbers
  <2> HIDE DEF old
  <2> QED BY <1>1, <2>2, <2>3, <2>4
<1>10. \A i \in Frames : Ver'[i] = IF i = (IF over THEN old ELSE new) THEN content[c][p] ELSE Ver[i]
  <2>1. over => old \in Frames
    <3>1. over => old \in 1..hdr[c].mx
      <4> HIDE DEF old, over
      <4> QED BY <1>1, <1>9
    <3> HIDE DEF old, over
    <3> QED BY <1>1, <3>1, InFrames
  <2> HIDE DEF old, over, new
  <2>2. CASE over
    BY <1>2, <1>8, <2>1, <2>2 DEF Ver, WalFile, Frame
  <2>3. CASE ~over
    BY <1>2, <1>7, <1>8, <2>3 DEF Ver, WalFile
  <2> QED BY <2>2, <2>3
<1>11. Touches(c)
  <2>1. \A i \in Frames : i <= N => Ver'[i] = Ver[i]
    <3>1. N < (IF over THEN old ELSE new)
      <4>1. N < new
        BY <1>1 DEF Top
      <4>2. over => N < old
        <5> HIDE DEF old, over
        <5> QED BY <1>1, <1>9
      <4> QED BY <4>1, <4>2
    <3>2. \A i \in Frames : i <= N => i # (IF over THEN old ELSE new)
      <4> DEFINE o == IF over THEN old ELSE new
      <4>1. o \in Nat
        <5>1. old \in Nat /\ new \in Nat
          BY <1>1, FrameFound
        <5> HIDE DEF old, over, new
        <5> QED BY <5>1
      <4>2. N < o
        BY <3>1
      <4> HIDE DEF o
      <4>3. \A i \in Frames : i <= N => i # o
        BY <1>1, <4>1, <4>2, Numbers DEF Frames
      <4> QED BY <4>3 DEF o
    <3> HIDE DEF old, over, new
    <3> QED BY <1>10, <3>2
  <2> QED BY <1>1, <1>3, <2>1 DEF Touches
<1>12. CkptOf(c)'
  <2>1. pc'[c] \notin Running
    BY <1>3 DEF Running
  <2> QED BY <2>1, NoCheckpoint
<1>13. ReadOf(c)' /\ Joins(c)
  BY <1>1, <1>3, WriterReads
<1>14. Shown(Ver, db, nBackfill, VIdx(c), Top(c), Page \ tx[c].list, content[c])'
  <2> DEFINE P == Page \ tx[c].list
             k == content[c]
  <2>1. Shown(Ver, db, nBackfill, VIdx(c), Top(c), P, k)
    BY <1>1 DEF WriteOf
  <2>2. Page \ tx'[c].list = P \cup {p}
    BY <1>4, <1>5
  <2>3. nBackfill <= N
    <3>1. \A d \in Conn : pc[d] # "rs3"
      <4>1. ASSUME NEW d \in Conn, pc[d] = "rs3" PROVE FALSE
        BY <1>1, <4>1, CurrentLock, Alone
      <4> QED BY <4>1
    <3> QED BY <3>1 DEF HeldInv, HdrInv, LogSize
  <2>4. SUFFICES ASSUME NEW b \in 0..nBackfill, Sees(Ver, db, VIdx(c), b, Top(c), P, k)
                 PROVE  Sees(Ver', db, VIdx(c)', b, Top(c)', P \cup {p}, k)
    BY <1>3, <2>1, <2>2 DEF Shown
  <2>5. b \in Nat /\ b <= N /\ Top(c) = hdr[c].mx + Len(tx[c].app)
    BY <1>1, <2>3 DEF Top
  <2>6. CASE over
    <3>1. VIdx(c)' = VIdx(c) /\ Top(c)' = Top(c)
      BY <1>3, <1>5, <1>6, <2>6 DEF VIdx, Top
    <3>2. old \in N + 1..hdr[c].mx /\ old \in Nat /\ old \in Frames
      <4>1. old \in N + 1..hdr[c].mx
        BY <1>9, <2>6
      <4> HIDE DEF old
      <4> QED BY <1>1, <4>1, InFrames
    <3>3. old \in b + 1..Top(c)
      <4> HIDE DEF old
      <4> QED BY <1>1, <2>5, <3>2
    <3>4. Last(VIdx(c), Top(c), p, old)
      <4>1. VIdx(c)[old] = p
        <5>1. old <= hdr[c].mx
          BY <1>1, <3>2
        <5> QED BY <1>9, <2>6, <3>2, <5>1 DEF VIdx
      <4>2. ASSUME NEW i \in old + 1..Top(c) PROVE VIdx(c)[i] # p
        <5>1. i \in Frames /\ i \in Nat
          <6> HIDE DEF old, Top
          <6>1. i \in 1..Top(c)
            BY <1>1, <3>2
          <6> QED BY <1>1, <6>1, InFrames
        <5>2. CASE i <= hdr[c].mx
          <6>1. i \in old + 1..hdr[c].mx
            <7> HIDE DEF old
            <7> QED BY <1>1, <3>2, <5>1, <5>2
          <6> QED BY <1>9, <2>6, <5>1, <5>2, <6>1 DEF VIdx
        <5>3. CASE i > hdr[c].mx
          <6>1. VIdx(c)[i] = tx[c].app[i - hdr[c].mx] /\ i - hdr[c].mx \in 1..Len(tx[c].app)
            <7>1. i <= Top(c) /\ ~(i <= hdr[c].mx)
              BY <1>1, <3>2, <5>1, <5>3
            <7> QED BY <1>1, <2>5, <5>1, <5>3, <7>1 DEF VIdx
          <6> QED BY <1>1, <1>4, <6>1 DEF WriteOf
        <5> QED BY <1>1, <5>1, <5>2, <5>3
      <4> HIDE DEF old, Top, VIdx
      <4>3. old \in 1..Top(c)
        BY <1>1, <3>2, <3>3, <2>5
      <4> QED BY <4>1, <4>2, <4>3 DEF Last
    <3>5. Ver'[old] = k[p] /\ \A i \in Frames : i # old => Ver[i] = Ver'[i]
      BY <1>10, <2>6, <3>2
    <3>6. \A i \in b + 1..Top(c) : i # old => Ver[i] = Ver'[i]
      <4>1. \A i \in b + 1..Top(c) : i \in 1..Top(c)
        BY <1>1, <2>5
      <4> QED BY <1>1, <3>5, <4>1, InFrames
    <3>7. Sees(Ver', db, VIdx(c), b, Top(c), P \cup {p}, k)
      <4> HIDE DEF Ver, VIdx, Top, old, p, P, k
      <4> QED BY <1>1, <2>4, <2>5, <3>3, <3>4, <3>5, <3>6, SeesOver
    <3> QED BY <3>1, <3>7
  <2>7. CASE ~over
    <3>1. Top(c)' = Top(c) + 1
      BY <1>1, <1>4, <1>5, <1>6, <2>7 DEF Top
    <3>2. \A i \in 1..Top(c) : VIdx(c)[i] = VIdx(c)'[i]
      <4>1. tx'[c].app = Append(tx[c].app, p) /\ idx' = idx /\ hdr'[c].mx = hdr[c].mx
        BY <1>3, <1>5, <1>6, <2>7
      <4>2. \A j \in 1..Len(tx[c].app) : tx'[c].app[j] = tx[c].app[j]
        BY <1>4, <4>1
      <4> SUFFICES ASSUME NEW i \in 1..Top(c) PROVE VIdx(c)[i] = VIdx(c)'[i]
        OBVIOUS
      <4>3. i \in Frames /\ i \in Nat /\ i <= Top(c) /\ i <= Top(c) + 1
        BY <1>1, InFrames
      <4>4. CASE i <= hdr[c].mx
        BY <4>1, <4>3, <4>4 DEF VIdx
      <4>5. CASE ~(i <= hdr[c].mx)
        <5>1. i - hdr[c].mx \in 1..Len(tx[c].app)
          BY SMTT(30), <1>1, <2>5, <4>3, <4>5
        <5>2. VIdx(c)[i] = tx[c].app[i - hdr[c].mx]
          BY <4>3, <4>5 DEF VIdx
        <5>3. VIdx(c)'[i] = tx'[c].app[i - hdr[c].mx]
          BY <3>1, <4>1, <4>3, <4>5 DEF VIdx
        <5> QED BY <4>2, <5>1, <5>2, <5>3
      <4> QED BY <4>4, <4>5
    <3>3. VIdx(c)'[Top(c) + 1] = p
      <4>1. tx'[c].app = Append(tx[c].app, p) /\ idx' = idx /\ hdr'[c].mx = hdr[c].mx
        BY <1>3, <1>5, <1>6, <2>7
      <4>2. Append(tx[c].app, p)[Len(tx[c].app) + 1] = p
        BY <1>4
      <4>3. (Top(c) + 1) - hdr[c].mx = Len(tx[c].app) + 1 /\ ~(Top(c) + 1 <= hdr[c].mx) /\ Top(c) + 1 <= Top(c) + 1
        BY <1>1, <2>5
      <4>4. VIdx(c)'[Top(c) + 1] = tx'[c].app[(Top(c) + 1) - hdr[c].mx]
        BY <1>7, <3>1, <4>1, <4>3 DEF VIdx
      <4> QED BY <4>1, <4>2, <4>3, <4>4
    <3>4. Ver'[Top(c) + 1] = k[p] /\ \A i \in Frames : i # Top(c) + 1 => Ver[i] = Ver'[i]
      BY <1>7, <1>10, <2>7
    <3>5. \A i \in b + 1..Top(c) : VIdx(c)[i] = VIdx(c)'[i] /\ Ver[i] = Ver'[i]
      <4>1. \A i \in b + 1..Top(c) : i \in 1..Top(c) /\ i # Top(c) + 1
        BY <1>1, <2>5
      <4> QED BY <1>1, <3>2, <3>4, <4>1, InFrames
    <3>6. b <= Top(c)
      BY <1>1, <2>5
    <3>7. Sees(Ver', db, VIdx(c)', b, Top(c) + 1, P \cup {p}, k)
      <4> HIDE DEF Ver, VIdx, Top, p, P, k
      <4> QED BY <1>1, <2>4, <2>5, <3>3, <3>4, <3>5, <3>6, SeesNew
    <3> QED BY <3>1, <3>7
  <2> QED BY <2>6, <2>7
<1>15. WriteOf(c)'
  <2>1. \A i \in 1..Len(tx'[c].app) : tx'[c].app[i] \notin tx'[c].list
    <3>1. \A i \in 1..Len(tx[c].app) : tx[c].app[i] \notin tx[c].list
      BY <1>1 DEF WriteOf
    <3>2. CASE over
      BY <1>5, <3>1, <3>2
    <3>3. CASE ~over
      <4>1. Len(tx'[c].app) = Len(tx[c].app) + 1
        BY <1>4, <1>5, <3>3
      <4>2. ASSUME NEW i \in 1..Len(tx'[c].app) PROVE tx'[c].app[i] \notin tx'[c].list
        <5>1. tx'[c].app[i] = p \/ (i \in 1..Len(tx[c].app) /\ tx'[c].app[i] = tx[c].app[i])
          BY <1>1, <1>4, <1>5, <3>3, <4>1
        <5> HIDE DEF p
        <5> QED BY <1>5, <3>1, <5>1
      <4> QED BY <4>2
    <3> QED BY <3>2, <3>3
  <2>2. pc'[c] # "frame" => tx'[c].list = {}
    BY <1>3, <1>5
  <2>3. tx[c].first \in {0, N + 1} /\ (tx[c].com => <<Len(past), content[c]>> \in pending)
    BY <1>1 DEF WriteOf
  <2>4. tx'[c].com = tx[c].com /\ tx'[c].first = tx[c].first
    BY <1>5
  <2> HIDE DEF Ver, VIdx, Top, p, old, over, last, new
  <2> QED BY <1>3, <1>14, <2>1, <2>2, <2>3, <2>4 DEF WriteOf
<1> QED BY <1>11, <1>12, <1>13, <1>15, TailStep

LEMMA RecksumData ==
  ASSUME HeldInv, DataInv, NEW c \in Conn, Recksum(c), HeldInv', Still(c)
  PROVE  DataInv'
<1>1. /\ pc[c] = "recksum" /\ Writing(c) /\ WriteOf(c) /\ LockInv /\ tx[c] \in Tx /\ hdr[c] \in Hdr
  BY WritesHave DEF Recksum
<1>2. pc \in [Conn -> PC] /\ hdr \in [Conn -> Hdr] /\ tx \in [Conn -> Tx]
  BY DEF HeldInv, LockInv, ConnType
<1>3. /\ UNCHANGED <<head, idx, nBackfill, mark, past, db, disk, pending, slot, content, minFrame>>
      /\ N' = N /\ pc'[c] \in {"sync", "index"}
  BY <1>1, <1>2 DEF Recksum, N
<1>4. Ver' = Ver
  <2>1. \E S, sum : wal' = [wal EXCEPT !.frame = [i \in Frames |->
                              IF i \in S THEN [@[i] EXCEPT !.cksum = sum[i]] ELSE @[i]]]
    <3> DEFINE S == tx[c].reck..(hdr[c].mx + Len(tx[c].app))
               from == IF tx[c].reck = 1 THEN [salt |-> wal.salt, chain |-> <<>>]
                       ELSE wal.frame[tx[c].reck - 1].cksum
               sum == [i \in S |-> [from EXCEPT !.chain = @ \o
                         [k \in 1..i - tx[c].reck + 1 |-> Entry(wal.frame[tx[c].reck + k - 1])]]]
    <3>1. wal' = [wal EXCEPT !.frame = [i \in Frames |->
                    IF i \in S THEN [@[i] EXCEPT !.cksum = sum[i]] ELSE @[i]]]
      BY DEF Recksum
    <3> HIDE DEF S, sum
    <3> QED BY <3>1
  <2>2. wal \in WalFile
    BY <1>1 DEF LockInv, SharedType
  <2>3. \A i \in Frames : wal'.frame[i].ver = wal.frame[i].ver
    BY <2>1, <2>2 DEF WalFile, Frame
  <2> QED BY <2>3 DEF Ver
<1>5. /\ hdr'[c].mx = hdr[c].mx /\ tx'[c].list = tx[c].list /\ tx'[c].app = tx[c].app
      /\ tx'[c].first = tx[c].first /\ tx'[c].com = tx[c].com
  <2>1. (\E k : hdr' = [hdr EXCEPT ![c].cksum = k]) /\ tx' = [tx EXCEPT ![c].reck = 0]
    BY DEF Recksum
  <2> QED BY <1>1, <1>2, <2>1 DEF Hdr, Tx
<1>6. Touches(c)
  BY <1>3, <1>4 DEF Touches
<1>7. CkptOf(c)'
  <2>1. pc'[c] \notin Running
    BY <1>3 DEF Running
  <2> QED BY <2>1, NoCheckpoint
<1>8. ReadOf(c)' /\ Joins(c)
  BY <1>1, <1>3, WriterReads
<1>9. WriteOf(c)'
  <2>1. tx[c].list = {}
    BY <1>1 DEF WriteOf
  <2> QED BY <1>1, <1>3, <1>4, <1>5, <2>1, WriterMoves
<1> QED BY <1>6, <1>7, <1>8, <1>9, TailStep

LEMMA SyncCommitData ==
  ASSUME HeldInv, DataInv, NEW c \in Conn, SyncCommit(c), HeldInv', Still(c)
  PROVE  DataInv'
<1>1. /\ pc[c] = "sync" /\ Writing(c) /\ WriteOf(c) /\ LockInv
  BY WritesHave DEF SyncCommit
<1>2. pc \in [Conn -> PC]
  BY DEF HeldInv, LockInv, ConnType
<1>3. /\ UNCHANGED <<head, idx, nBackfill, mark, past, wal, db, pending, hdr, tx, slot, content, minFrame>>
      /\ disk'.db = disk.db /\ Ver' = Ver /\ N' = N /\ pc'[c] = "index"
  BY <1>1, <1>2 DEF SyncCommit, SyncWal, Ver, N, LockInv, SharedType
<1>4. Touches(c)
  BY <1>3, CalmTail
<1>5. CkptOf(c)'
  <2>1. pc'[c] \notin Running
    BY <1>3 DEF Running
  <2> QED BY <2>1, NoCheckpoint
<1>6. ReadOf(c)' /\ Joins(c)
  BY <1>1, <1>3, WriterReads
<1>7. WriteOf(c)'
  <2>1. tx[c].list = {}
    BY <1>1 DEF WriteOf
  <2> QED BY <1>1, <1>3, <2>1, WriterMoves
<1> QED BY <1>4, <1>5, <1>6, <1>7, TailStep

LEMMA IndexData ==
  ASSUME HeldInv, DataInv, NEW c \in Conn, Index(c), HeldInv', Still(c)
  PROVE  DataInv'
<1>1. /\ pc[c] = "index" /\ Writing(c) /\ WriteOf(c) /\ LockInv /\ HdrOf(c) /\ tx[c] \in Tx /\ hdr[c] \in Hdr
      /\ WRITE \in excl[c] /\ hdr[c].mx \in Nat /\ Len(tx[c].app) \in Nat /\ N \in Nat /\ N <= hdr[c].mx
      /\ Top(c) \in Nat /\ nBackfill \in Nat
  BY WritesHave DEF Index, HdrOf
<1>2. pc \in [Conn -> PC] /\ hdr \in [Conn -> Hdr] /\ tx \in [Conn -> Tx]
  BY DEF HeldInv, LockInv, ConnType
<1>3. /\ UNCHANGED <<nBackfill, mark, past, wal, db, disk, pending, slot, content, minFrame>>
      /\ Ver' = Ver /\ pc'[c] \in {"publish", "write"} /\ (pc'[c] = "publish" <=> tx[c].com)
  BY <1>1, <1>2 DEF Index, Ver
<1>4. head'[0] = head[0] /\ N' = N
  <2>1. head' = head \/ \E h : head' = [head EXCEPT ![1] = h]
    BY DEF Index
  <2> QED BY <1>1, <2>1 DEF LockInv, SharedType, N
<1>5. hdr'[c].mx = Top(c)
  <2>1. \E i, n : hdr' = [hdr EXCEPT ![c] = [hdr[c] EXCEPT !.mx = MxAfter(c), !.init = i, !.chg = n]]
    BY DEF Index
  <2>2. MxAfter(c) = Top(c)
    BY DEF MxAfter, Top
  <2> QED BY <1>1, <1>2, <2>1, <2>2 DEF Hdr
<1>6. /\ tx'[c].list = {} /\ tx'[c].app = <<>> /\ tx'[c].com = FALSE /\ Len(<<>>) = 0
  BY <1>2 DEF Index, NoTx
<1>7. \A i \in Frames : i <= Top(c) => idx'[i] = VIdx(c)[i]
  BY DEF Index, VIdx, Top
<1>8. Touches(c)
  <2>1. \A i \in Frames : i <= N => idx'[i] = idx[i]
    <3>1. \A i \in Frames : i <= N => i <= hdr[c].mx
      BY <1>1, Numbers DEF Frames
    <3> QED BY <3>1 DEF Index
  <2> QED BY <1>1, <1>3, <1>4, <2>1 DEF Touches
<1>9. CkptOf(c)'
  <2>1. pc'[c] \notin Running
    BY <1>3 DEF Running
  <2> QED BY <2>1, NoCheckpoint
<1>10. ReadOf(c)' /\ Joins(c)
  BY <1>1, <1>3, <1>4, WriterReads
<1>11. Top(c)' = Top(c)
  <2>1. Top(c)' = Top(c) + 0
    BY <1>5, <1>6 DEF Top
  <2> QED BY <1>1, <2>1
<1>12. \A i \in 1..Top(c) : VIdx(c)'[i] = VIdx(c)[i]
  <2>1. \A i \in 1..Top(c) : i \in Frames
    BY <1>1, InFrames
  <2>2. \A i \in Frames : i <= Top(c) => VIdx(c)'[i] = idx'[i]
    BY <1>5 DEF VIdx
  <2>3. \A i \in 1..Top(c) : i <= Top(c)
    BY <1>1
  <2> QED BY <1>7, <2>1, <2>2, <2>3
<1>13. Shown(Ver, db, nBackfill, VIdx(c)', Top(c), Page, content[c])
  <2>1. tx[c].list = {}
    BY <1>1 DEF WriteOf
  <2>2. Shown(Ver, db, nBackfill, VIdx(c), Top(c), Page, content[c])
    BY <1>1, <2>1 DEF WriteOf
  <2> HIDE DEF Ver, VIdx, Top
  <2> QED BY <1>1, <1>12, <2>2, ShownKept
<1>14. WriteOf(c)'
  <2>1. tx[c].com => <<Len(past), content[c]>> \in pending
    BY <1>1 DEF WriteOf
  <2>2. Page \ {} = Page
    OBVIOUS
  <2> HIDE DEF Ver, VIdx, Top
  <2> QED BY <1>3, <1>6, <1>11, <1>13, <2>1, <2>2 DEF WriteOf
<1> QED BY <1>8, <1>9, <1>10, <1>14, TailStep

LEMMA PublishData ==
  ASSUME HeldInv, DataInv, NEW c \in Conn, Publish(c), HeldInv', Still(c)
  PROVE  DataInv'
<1>1. /\ pc[c] = "publish" /\ Writing(c) /\ WriteOf(c) /\ LockInv /\ HdrOf(c) /\ ReadOf(c) /\ LogShown
      /\ WRITE \in excl[c] /\ hdr[c].mx \in Nat /\ N \in Nat /\ nBackfill \in Nat /\ tx[c].app = <<>> /\ hdr[c] \in Hdr
      /\ slot[c] \in Marks /\ Older(head[0], hdr[c]) /\ hdr[c].mx > N /\ content[c] \in Content
  BY WritesHave DEF Publish, Room, HeldSlot, HdrOf, DataInv
<1>2. pc \in [Conn -> PC] /\ past \in Seq(Content) /\ head \in [{0, 1} -> Hdr]
  BY DEF HeldInv, LockInv, SharedType, ConnType
<1>3. /\ UNCHANGED <<nBackfill, mark, idx, wal, db, disk, slot, hdr, content, minFrame, cand, ck>> /\ Ver' = Ver
      /\ head'[0] = hdr[c] /\ N' = hdr[c].mx /\ pc'[c] = "read"
  BY <1>1, <1>2 DEF Publish, Ver, N
<1>4. K' = content[c]
  BY <1>1, <1>2 DEF Publish, K
<1>5. nBackfill <= N
  <2>1. \A d \in Conn : pc[d] # "rs3"
    <3>1. ASSUME NEW d \in Conn, pc[d] = "rs3" PROVE FALSE
      BY <1>1, <3>1, CurrentLock, Alone
    <3> QED BY <3>1
  <2> QED BY <2>1 DEF HeldInv, HdrInv, LogSize
<1>6. LogShown'
  <2>1. tx[c].list = {}
    BY <1>1 DEF WriteOf
  <2>2. Shown(Ver, db, nBackfill, VIdx(c), Top(c), Page, content[c])
    BY <1>1, <2>1 DEF WriteOf
  <2>3. Top(c) = hdr[c].mx
    BY <1>1 DEF Top
  <2>4. \A i \in 1..hdr[c].mx : VIdx(c)[i] = idx[i]
    BY <1>1, InFrames DEF VIdx
  <2>5. Shown(Ver, db, nBackfill, idx, hdr[c].mx, Page, content[c])
    <3> HIDE DEF Ver, VIdx, Top
    <3> QED BY <1>1, <2>2, <2>3, <2>4, ShownKept
  <2>6. ~(nBackfill >= hdr[c].mx)
    BY <1>1, <1>5
  <2> QED BY <1>3, <1>4, <2>5, <2>6 DEF LogShown
<1>7. ReadOf(c)' /\ WriteOf(c)' /\ Base(c)' = N'
  <2>1. Reads(c) /\ Base(c) = N
    BY <1>1 DEF Reads, Base, Writing
  <2>2. minFrame[c] \in 1..nBackfill + 1 /\ mark[slot[c]] <= N /\ mark[slot[c]] \in Nat
    BY <1>1, <2>1, CkptNumbers DEF ReadOf
  <2>3. mark[slot[c]] <= hdr[c].mx
    BY <1>1, <2>2
  <2>4. /\ content'[c] = K' /\ hdr'[c] = head'[0] /\ slot'[c] \in Marks
        /\ minFrame'[c] \in 1..nBackfill' + 1 /\ mark'[slot'[c]] <= N'
    BY <1>1, <1>3, <1>4, <2>2, <2>3
  <2> QED BY <1>3, <1>6, <2>4, NewReader
<1>8. ASSUME NEW d \in Conn PROVE Reads(d)' => Reads(d) /\ Base(d)' >= Base(d) /\ Base(d)' \in Nat
  <2>1. CASE d = c
    <3>1. Reads(c) /\ Base(c) = N
      BY <1>1 DEF Reads, Base, Writing
    <3> QED BY <1>1, <1>3, <1>7, <2>1, <3>1
  <2>2. CASE d # c
    <3>1. pc'[d] = pc[d] /\ hdr'[d] = hdr[d]
      BY <2>2 DEF Still
    <3>2. (Reads(d)' => Reads(d)) /\ hdr[d].mx \in Nat
      BY <1>1, <1>3, <3>1, HdrNumbers DEF Reads
    <3> QED BY <1>1, <1>3, <3>1, <3>2 DEF Base
  <2> QED BY <2>1, <2>2
<1>9. ASSUME NEW d \in Conn \ {c} PROVE ReadOf(d)' /\ WriteOf(d)' /\ CkptOf(d)'
  <2>1. /\ pc'[d] = pc[d] /\ hdr'[d] = hdr[d] /\ slot'[d] = slot[d] /\ minFrame'[d] = minFrame[d]
        /\ cand'[d] = cand[d] /\ content'[d] = content[d] /\ ck'[d] = ck[d] /\ tx'[d] = tx[d]
    BY DEF Still
  <2>2. ReadOf(d) /\ CkptOf(d) /\ HdrOf(d)
    BY DEF HeldInv, HdrInv, DataInv
  <2>3. WriteOf(d)'
    <3>1. ~Writing(d)
      BY <1>1, WriterHas, Alone
    <3> QED BY <2>1, <3>1 DEF WriteOf, Writing
  <2>4. CkptOf(d)'
    <3> SUFFICES ASSUME pc[d] \in Running PROVE CkptOf(d)'
      BY <2>1 DEF CkptOf
    <3>1. Sorted(Ver, db, idx, hdr[d].mx, ck[d].iter, Done(d)) /\ Below(d)
      BY <2>2 DEF CkptOf
    <3>2. Done(d)' = Done(d)
      BY <2>1 DEF Done
    <3>3. Below(d)'
      <4> SUFFICES ASSUME NEW e \in Conn, Reads(e)'
                   PROVE  /\ slot[e] < ck[d].at => ck[d].safe <= Base(e)'
                          /\ pc[d] = "cklock" /\ slot[e] = ck[d].at => ck[d].seen <= Base(e)'
        BY <1>3, <2>1 DEF Below
      <4>1. Reads(e) /\ Base(e)' >= Base(e) /\ Base(e)' \in Nat /\ Base(e) \in Nat /\ ck[d].safe \in Nat /\ ck[d].seen \in Nat
        BY <1>8, CkptNumbers
      <4> QED BY <3>1, <4>1 DEF Below
    <3> QED BY <1>3, <2>1, <3>1, <3>2, <3>3 DEF CkptOf
  <2>5. pc[d] = "read" => hdr[d] # head'[0]
    <3>1. pc[d] = "read" => hdr[d] = head[0] \/ Older(hdr[d], head[0])
      BY <2>2 DEF HdrOf, Follows, HasHdr
    <3>2. hdr[d] \in Hdr /\ head[0] \in Hdr
      BY <1>1, HdrNumbers
    <3> QED BY <1>1, <1>3, <3>1, <3>2, OlderOrder
  <2>6. ReadOf(d)'
    <3>1. From(d)' = From(d)
      BY <2>1 DEF From
    <3>2. Reads(d)' => mark[slot[d]] <= Base(d)'
      <4>1. Reads(d)' => Reads(d) /\ Base(d)' >= Base(d) /\ Base(d)' \in Nat /\ Base(d) \in Nat
        BY <1>8, CkptNumbers
      <4>2. Reads(d) => mark[slot[d]] <= Base(d) /\ mark[slot[d]] \in Nat
        BY CkptNumbers
      <4> QED BY <4>1, <4>2
    <3>3. pc[d] = "read" /\ slot[d] \in Marks => hdr[d].mx <= N'
      BY <1>1, <1>3, <2>2, HdrNumbers DEF ReadOf
    <3> QED BY <1>3, <2>1, <2>2, <2>5, <3>1, <3>2, <3>3 DEF ReadOf
  <2> QED BY <2>3, <2>4, <2>6
<1>10. CkptOf(c)'
  BY <1>3, NoCheckpoint DEF Running
<1> QED BY <1>6, <1>7, <1>9, <1>10 DEF DataInv

LEMMA WriteFailsData ==
  ASSUME HeldInv, DataInv, NEW c \in Conn, WriteFails(c), HeldInv', Still(c)
  PROVE  DataInv'
<1>1. /\ pc[c] \in Writes /\ Writing(c) /\ WriteOf(c) /\ LockInv
  BY WritesHave DEF WriteFails
<1>2. pc \in [Conn -> PC]
  BY DEF HeldInv, LockInv, ConnType
<1>3. /\ UNCHANGED <<head, idx, nBackfill, mark, past, wal, db, disk, pending, hdr, tx, slot, content, minFrame>>
      /\ N' = N /\ pc'[c] = "abort"
  BY <1>1, <1>2 DEF WriteFails, N
<1>4. Touches(c)
  BY <1>3, CalmTail
<1>5. CkptOf(c)'
  <2>1. pc'[c] \notin Running
    BY <1>3 DEF Running
  <2> QED BY <2>1, NoCheckpoint
<1>6. ReadOf(c)' /\ Joins(c)
  BY <1>1, <1>3, WriterReads
<1>7. WriteOf(c)'
  BY <1>1, <1>3 DEF WriteOf
<1> QED BY <1>4, <1>5, <1>6, <1>7, TailStep

LEMMA RollbackData ==
  ASSUME HeldInv, DataInv, NEW c \in Conn, Rollback(c), HeldInv', Still(c)
  PROVE  DataInv'
<1>1. /\ pc[c] \in {"write", "abort"} /\ Writing(c) /\ LockInv /\ HdrOf(c) /\ ReadOf(c)
      /\ WRITE \in excl[c] /\ N \in Nat /\ (slot[c] = 0 \/ slot[c] \in Marks)
  <2>1. slot[c] # Idle
    BY Here, Locks DEF Rollback, HeldInv, HeldSlot
  <2>2. slot[c] = 0 \/ slot[c] \in Marks
    BY <2>1, Here, Numbers DEF HeldInv, Marks
  <2> QED BY <2>2, WritesHave DEF Rollback, DataInv
<1>2. pc \in [Conn -> PC] /\ hdr \in [Conn -> Hdr] /\ content \in [Conn -> Content \cup {None}]
  BY DEF HeldInv, LockInv, ConnType
<1>3. /\ UNCHANGED <<head, nBackfill, mark, past, wal, db, disk, pending, slot, minFrame>>
      /\ Ver' = Ver /\ N' = N /\ K' = K
  BY DEF Rollback, Ver, N, K
<1>4. hdr'[c] = head[0] /\ content'[c] = K /\ pc'[c] = "read"
  BY <1>2 DEF Rollback, K
<1>5. Touches(c)
  <2>1. \A i \in Frames : i <= N => idx'[i] = idx[i]
    <3>1. \A i \in Frames : i <= N => ~(i > N)
      BY <1>1, Numbers DEF Frames
    <3> QED BY <3>1 DEF Rollback, N
  <2> QED BY <1>1, <1>3, <2>1 DEF Touches
<1>6. CkptOf(c)'
  <2>1. pc'[c] \notin Running
    BY <1>4 DEF Running
  <2> QED BY <2>1, NoCheckpoint
<1>7. LogShown'
  BY <1>5, TailLog
<1>8. \/ slot'[c] = 0 /\ nBackfill' = N'
      \/ slot'[c] \in Marks /\ minFrame'[c] \in 1..nBackfill' + 1 /\ mark'[slot'[c]] <= N'
  <2>1. CASE slot[c] = 0
    <3>1. pc[c] = "write"
      BY <1>1, <2>1, Here, Locks DEF HeldSlot
    <3> QED BY <1>1, <1>3, <2>1, <3>1 DEF HdrOf, Current, AtEnd
  <2>2. CASE slot[c] \in Marks
    <3>1. Reads(c) /\ Base(c) = N
      BY <1>1, <2>2 DEF Reads, Base, Writing
    <3> QED BY <1>1, <1>3, <2>2, <3>1 DEF ReadOf
  <2> QED BY <1>1, <2>1, <2>2
<1>9. ReadOf(c)' /\ WriteOf(c)' /\ Base(c)' = N'
  BY <1>3, <1>4, <1>7, <1>8, NewReader
<1>10. Joins(c)
  BY <1>1, <1>3, <1>9 DEF Joins
<1> QED BY <1>5, <1>6, <1>9, <1>10, TailStep

LEMMA CheckpointData ==
  ASSUME HeldInv, DataInv, NEW c \in Conn, Checkpoint(c), HeldInv', Still(c)
  PROVE  DataInv'
<1>1. /\ LockInv /\ HeldLocks(c) /\ HeldSlot(c) /\ Phase(c) /\ HdrOf(c) /\ ReadOf(c) /\ WriteOf(c) /\ CkptOf(c)
      /\ pc \in [Conn -> PC] /\ slot \in [Conn -> 0..Idle] /\ content \in [Conn -> Content \cup {None}]
      /\ hdr \in [Conn -> Hdr] /\ ck \in [Conn -> Ck] /\ tx \in [Conn -> Tx] /\ cand \in [Conn -> Cand]
      /\ minFrame \in [Conn -> 0..MaxFrame + 1] /\ excl \in [Conn -> SUBSET Lock]
  BY Here DEF HeldInv, HdrInv, DataInv, LockInv, ConnType
<1>2. Touches(c)
  BY <1>1, CalmTail DEF Checkpoint, Take, CanExcl
<1>3. Joins(c) /\ ReadOf(c)' /\ WriteOf(c)'
  <2>1. content'[c] = None /\ slot'[c] \notin Marks /\ pc'[c] \notin {"read", "setmark", "share", "recheck"}
    BY <1>1, Locks DEF Checkpoint, Take, CanExcl, HeldSlot, Phase
  <2> QED BY <2>1, NoSnapshot
<1>4. CkptOf(c)'
  <2>1. pc'[c] \notin Running
    BY <1>1 DEF Checkpoint, Take, CanExcl, Running
  <2> QED BY <2>1, NoCheckpoint
<1> QED BY <1>2, <1>3, <1>4, TailStep

LEMMA CkptWriteLockData ==
  ASSUME HeldInv, DataInv, NEW c \in Conn, CkptWriteLock(c), HeldInv', Still(c)
  PROVE  DataInv'
<1>1. /\ LockInv /\ HeldLocks(c) /\ HeldSlot(c) /\ Phase(c) /\ HdrOf(c) /\ ReadOf(c) /\ WriteOf(c) /\ CkptOf(c)
      /\ pc \in [Conn -> PC] /\ slot \in [Conn -> 0..Idle] /\ content \in [Conn -> Content \cup {None}]
      /\ hdr \in [Conn -> Hdr] /\ ck \in [Conn -> Ck] /\ tx \in [Conn -> Tx] /\ cand \in [Conn -> Cand]
      /\ minFrame \in [Conn -> 0..MaxFrame + 1] /\ excl \in [Conn -> SUBSET Lock]
  BY Here DEF HeldInv, HdrInv, DataInv, LockInv, ConnType
<1>2. Touches(c)
  BY <1>1, CalmTail DEF CkptWriteLock, Take, CanExcl
<1>3. Joins(c) /\ ReadOf(c)' /\ WriteOf(c)'
  <2>1. content'[c] = None /\ slot'[c] \notin Marks /\ pc'[c] \notin {"read", "setmark", "share", "recheck"}
    BY <1>1, Locks DEF CkptWriteLock, Take, CanExcl, HeldSlot, Phase
  <2> QED BY <2>1, NoSnapshot
<1>4. CkptOf(c)'
  <2>1. pc'[c] \notin Running
    BY <1>1 DEF CkptWriteLock, Take, CanExcl, Running
  <2> QED BY <2>1, NoCheckpoint
<1> QED BY <1>2, <1>3, <1>4, TailStep

LEMMA CkptStartData ==
  ASSUME HeldInv, DataInv, NEW c \in Conn, CkptStart(c), HeldInv', Still(c)
  PROVE  DataInv'
<1>1. /\ LockInv /\ HeldLocks(c) /\ HeldSlot(c) /\ Phase(c) /\ HdrOf(c) /\ ReadOf(c) /\ WriteOf(c) /\ CkptOf(c)
      /\ pc \in [Conn -> PC] /\ slot \in [Conn -> 0..Idle] /\ content \in [Conn -> Content \cup {None}]
      /\ hdr \in [Conn -> Hdr] /\ ck \in [Conn -> Ck] /\ tx \in [Conn -> Tx] /\ cand \in [Conn -> Cand]
      /\ minFrame \in [Conn -> 0..MaxFrame + 1] /\ excl \in [Conn -> SUBSET Lock]
  BY Here DEF HeldInv, HdrInv, DataInv, LockInv, ConnType
<1>2. Touches(c)
  BY <1>1, CalmTail DEF CkptStart
<1>3. Joins(c) /\ ReadOf(c)' /\ WriteOf(c)'
  <2>1. content'[c] = None /\ slot'[c] \notin Marks /\ pc'[c] \notin {"read", "setmark", "share", "recheck"}
    BY <1>1, Locks DEF CkptStart, HeldSlot, Phase
  <2> QED BY <2>1, NoSnapshot
<1>4. CkptOf(c)'
  <2>1. pc[c] = "ckinfo" /\ ck[c] \in Ck /\ ck[c].at = 1 /\ hdr[c].mx \in Nat /\ content'[c] = None /\ N' = N
    BY <1>1, Here, HdrNumbers DEF CkptStart, Phase, N
  <2>2. CASE pc'[c] = "ckend"
    BY <2>2, NoCheckpoint DEF Running
  <2>3. CASE pc'[c] # "ckend"
    <3> DEFINE it == [p \in Page |-> Max({0} \cup {i \in 1..hdr[c].mx : idx[i] = p})]
    <3>1. pc'[c] = "ckmark" /\ ck' = [ck EXCEPT ![c] = [@ EXCEPT !.safe = hdr[c].mx, !.iter = it]]
      BY <1>1, <2>3 DEF CkptStart
    <3>2. ck'[c].iter = it /\ ck'[c].at = 1
      <4> HIDE DEF it
      <4> QED BY <1>1, <2>1, <3>1 DEF Ck
    <3>3. ASSUME NEW p \in Page
          PROVE  IF it[p] # 0 THEN Last(idx, hdr[c].mx, p, it[p]) ELSE Absent(idx, 0, hdr[c].mx, p)
      <4> DEFINE S == {i \in 1..hdr[c].mx : idx[i] = p}
                 m == Max({0} \cup S)
      <4>1. S \subseteq 0..hdr[c].mx /\ (\A i \in S : i \in 1..hdr[c].mx /\ idx[i] = p)
        BY <2>1
      <4>2. \A i \in 1..hdr[c].mx : idx[i] = p => i \in S
        OBVIOUS
      <4>3. m \in {0} \cup S /\ (\A i \in S : i <= m) /\ m \in 0..hdr[c].mx
        <5> HIDE DEF S
        <5> QED BY <2>1, <4>1, MaxOf
      <4>4. IF m # 0 THEN Last(idx, hdr[c].mx, p, m) ELSE Absent(idx, 0, hdr[c].mx, p)
        <5> HIDE DEF S, m
        <5>1. CASE m # 0
          <6>1. m \in 1..hdr[c].mx /\ idx[m] = p
            BY <4>1, <4>3, <5>1
          <6>2. ASSUME NEW g \in m + 1..hdr[c].mx PROVE idx[g] # p
            BY <2>1, <4>2, <4>3, <6>1
          <6> QED BY <5>1, <6>1, <6>2 DEF Last
        <5>2. CASE m = 0
          <6>1. ASSUME NEW g \in 0 + 1..hdr[c].mx PROVE idx[g] # p
            BY <2>1, <4>2, <4>3, <5>2
          <6> QED BY <5>2, <6>1 DEF Absent
        <5> QED BY <5>1, <5>2
      <4> QED BY <4>4
    <3>4. Sorted(Ver, db, idx, hdr[c].mx, it, 0)
      <4> HIDE DEF it
      <4> QED BY <3>3 DEF Sorted
    <3>5. Below(c)'
      <4>1. \A d \in Conn : Reads(d) => ~(slot[d] < 1)
        BY CkptNumbers
      <4> QED BY <2>1, <3>1, <3>2, <4>1, BelowKept
    <3>6. Done(c)' = 0 /\ hdr' = hdr /\ Ver' = Ver /\ db' = db /\ idx' = idx
      BY <3>1 DEF CkptStart, Done, Ver
    <3> HIDE DEF it
    <3> QED BY <3>2, <3>4, <3>5, <3>6 DEF CkptOf
  <2> QED BY <2>2, <2>3
<1> QED BY <1>2, <1>3, <1>4, TailStep

LEMMA CkptMarkData ==
  ASSUME HeldInv, DataInv, NEW c \in Conn, CkptMark(c), HeldInv', Still(c)
  PROVE  DataInv'
<1>1. /\ LockInv /\ HeldLocks(c) /\ HeldSlot(c) /\ Phase(c) /\ HdrOf(c) /\ ReadOf(c) /\ WriteOf(c) /\ CkptOf(c)
      /\ pc \in [Conn -> PC] /\ slot \in [Conn -> 0..Idle] /\ content \in [Conn -> Content \cup {None}]
      /\ hdr \in [Conn -> Hdr] /\ ck \in [Conn -> Ck] /\ tx \in [Conn -> Tx] /\ cand \in [Conn -> Cand]
      /\ minFrame \in [Conn -> 0..MaxFrame + 1] /\ excl \in [Conn -> SUBSET Lock]
  BY Here DEF HeldInv, HdrInv, DataInv, LockInv, ConnType
<1>2. Touches(c)
  BY <1>1, CalmTail DEF CkptMark, NextMark
<1>3. Joins(c) /\ ReadOf(c)' /\ WriteOf(c)'
  <2>1. content'[c] = None /\ slot'[c] \notin Marks /\ pc'[c] \notin {"read", "setmark", "share", "recheck"}
    BY <1>1, Locks DEF CkptMark, NextMark, HeldSlot, Phase
  <2> QED BY <2>1, NoSnapshot
<1>4. CkptOf(c)'
  <2>1. /\ pc[c] = "ckmark" /\ ck[c] \in Ck /\ ck[c].at \in Marks /\ content'[c] = None /\ N' = N
        /\ Sorted(Ver, db, idx, hdr[c].mx, ck[c].iter, 0) /\ Below(c)
    BY <1>1, Here DEF CkptMark, NextMark, Phase, N, CkptOf, Running, Done
  <2>2. /\ pc'[c] \in {"ckmark", "cklock", "ck0"} /\ hdr' = hdr /\ Ver' = Ver /\ db' = db /\ idx' = idx
        /\ ck'[c].iter = ck[c].iter /\ ck'[c].safe = ck[c].safe
        /\ \/ pc'[c] = "cklock" /\ ck'[c].at = ck[c].at /\ ck'[c].seen = mark[ck[c].at]
           \/ pc'[c] # "cklock" /\ ck'[c].at = ck[c].at + 1 /\ ~(ck[c].safe > mark[ck[c].at])
    <3>1. \/ ck[c].safe > mark[ck[c].at] /\ ck' = [ck EXCEPT ![c].seen = mark[ck[c].at]] /\ pc' = [pc EXCEPT ![c] = "cklock"]
          \/ /\ ~(ck[c].safe > mark[ck[c].at]) /\ ck' = [ck EXCEPT ![c] = [ck[c] EXCEPT !.at = @ + 1]]
             /\ pc' = [pc EXCEPT ![c] = IF ck[c].at + 1 = NReader THEN "ck0" ELSE "ckmark"]
      BY <1>1 DEF CkptMark, NextMark
    <3>2. UNCHANGED <<hdr, wal, db, idx>>
      BY DEF CkptMark
    <3> QED BY <1>1, <2>1, <3>1, <3>2 DEF Ck, Ver
  <2>3. Below(c)'
    <3>1. \A d \in Conn : Reads(d) => (slot[d] < ck[c].at => ck[c].safe <= Base(d))
      BY <2>1 DEF Below
    <3>2. ASSUME NEW d \in Conn, Reads(d)
          PROVE  /\ slot[d] < ck'[c].at => ck'[c].safe <= Base(d)
                 /\ pc'[c] = "cklock" /\ slot[d] = ck'[c].at => ck'[c].seen <= Base(d)
      <4>1. /\ slot[d] \in Nat /\ Base(d) \in Nat /\ ck[c].at \in Nat /\ ck[c].safe \in Nat
            /\ mark[slot[d]] <= Base(d) /\ mark[slot[d]] \in Nat
        BY <3>2, CkptNumbers
      <4> QED BY <2>2, <3>1, <3>2, <4>1
    <3> QED BY <2>1, <3>2, BelowKept
  <2>4. Done(c)' = 0
    BY <2>2 DEF Done
  <2> QED BY <2>1, <2>2, <2>3, <2>4 DEF CkptOf
<1> QED BY <1>2, <1>3, <1>4, TailStep

LEMMA CkptLockMarkData ==
  ASSUME HeldInv, DataInv, NEW c \in Conn, CkptLockMark(c), HeldInv', Still(c)
  PROVE  DataInv'
<1>1. /\ LockInv /\ HeldLocks(c) /\ HeldSlot(c) /\ Phase(c) /\ HdrOf(c) /\ ReadOf(c) /\ WriteOf(c) /\ CkptOf(c)
      /\ pc \in [Conn -> PC] /\ slot \in [Conn -> 0..Idle] /\ content \in [Conn -> Content \cup {None}]
      /\ hdr \in [Conn -> Hdr] /\ ck \in [Conn -> Ck] /\ tx \in [Conn -> Tx] /\ cand \in [Conn -> Cand]
      /\ minFrame \in [Conn -> 0..MaxFrame + 1] /\ excl \in [Conn -> SUBSET Lock]
  BY Here DEF HeldInv, HdrInv, DataInv, LockInv, ConnType
<1>2. Touches(c)
  <2>1. ck[c].at \in Marks
    BY <1>1 DEF CkptLockMark, Phase
  <2>2. \/ CanExcl(c, {ck[c].at}) /\ \E v : mark' = [mark EXCEPT ![ck[c].at] = v]
        \/ mark' = mark
    BY DEF CkptLockMark
  <2>3. \A d \in Conn \ {c} : slot[d] \in Marks => mark'[slot[d]] = mark[slot[d]]
    BY <1>1, <2>1, <2>2 DEF CanExcl, LockInv, SharedType
  <2>4. UNCHANGED <<head, idx, nBackfill, past, wal, db, disk, pending>> /\ N' = N
    BY DEF CkptLockMark, N
  <2> QED BY <2>3, <2>4, QuietTail
<1>3. Joins(c) /\ ReadOf(c)' /\ WriteOf(c)'
  <2>1. content'[c] = None /\ slot'[c] \notin Marks
    BY <1>1, Locks DEF CkptLockMark, HeldSlot, Phase
  <2>2. pc'[c] \in {"ckmark", "ck0"}
    BY <1>1 DEF CkptLockMark, NextMark
  <2> QED BY <2>1, <2>2, NoSnapshot
<1>4. CkptOf(c)'
  <2>1. /\ pc[c] = "cklock" /\ ck[c] \in Ck /\ ck[c].at \in Marks /\ ck[c].seen < ck[c].safe /\ content'[c] = None /\ N' = N
        /\ Sorted(Ver, db, idx, hdr[c].mx, ck[c].iter, 0) /\ Below(c)
    BY <1>1, Here DEF CkptLockMark, NextMark, Phase, N, CkptOf, Running, Done
  <2>2. /\ pc'[c] \in {"ckmark", "ck0"} /\ hdr' = hdr /\ Ver' = Ver /\ db' = db /\ idx' = idx
        /\ ck'[c].iter = ck[c].iter /\ ck'[c].at = ck[c].at + 1
        /\ \/ CanExcl(c, {ck[c].at}) /\ ck'[c].safe = ck[c].safe
           \/ ck'[c].safe = ck[c].seen
    <3> DEFINE l == [ck[c] EXCEPT !.safe = SafeBelow(ck[c])]
    <3>1. \/ CanExcl(c, {ck[c].at}) /\ ck' = [ck EXCEPT ![c] = [ck[c] EXCEPT !.at = @ + 1]]
          \/ ck' = [ck EXCEPT ![c] = [l EXCEPT !.at = @ + 1]]
      BY DEF CkptLockMark, NextMark
    <3>2. l \in Ck /\ l.at = ck[c].at /\ l.safe = ck[c].seen /\ l.iter = ck[c].iter
      BY <2>1, LowerSafe
    <3>3. UNCHANGED <<hdr, wal, db, idx>> /\ pc'[c] \in {"ckmark", "ck0"}
      BY <1>1 DEF CkptLockMark, NextMark
    <3> HIDE DEF l
    <3> QED BY <1>1, <2>1, <3>1, <3>2, <3>3 DEF Ck, Ver
  <2>3. Below(c)'
    <3>1. \A d \in Conn : Reads(d) => /\ slot[d] < ck[c].at => ck[c].safe <= Base(d)
                                      /\ slot[d] = ck[c].at => ck[c].seen <= Base(d)
      BY <2>1 DEF Below
    <3>2. ASSUME NEW d \in Conn, Reads(d), d # c
          PROVE  slot[d] < ck'[c].at => ck'[c].safe <= Base(d)
      <4>1. /\ slot[d] \in Nat /\ Base(d) \in Nat /\ ck[c].at \in Nat /\ ck[c].safe \in Nat /\ ck[c].seen \in Nat
        BY CkptNumbers
      <4>2. CanExcl(c, {ck[c].at}) => slot[d] # ck[c].at
        BY <3>2 DEF CanExcl
      <4> QED BY <2>1, <2>2, <3>1, <3>2, <4>1, <4>2
    <3> QED BY <2>1, <2>2, <3>2, BelowKept
  <2>4. Done(c)' = 0
    BY <2>2 DEF Done
  <2> QED BY <2>1, <2>2, <2>3, <2>4 DEF CkptOf
<1> QED BY <1>2, <1>3, <1>4, TailStep

LEMMA CkptLock0Data ==
  ASSUME HeldInv, DataInv, NEW c \in Conn, CkptLock0(c), HeldInv', Still(c)
  PROVE  DataInv'
<1>1. /\ LockInv /\ HeldLocks(c) /\ HeldSlot(c) /\ Phase(c) /\ HdrOf(c) /\ ReadOf(c) /\ WriteOf(c) /\ CkptOf(c)
      /\ pc \in [Conn -> PC] /\ slot \in [Conn -> 0..Idle] /\ content \in [Conn -> Content \cup {None}]
      /\ hdr \in [Conn -> Hdr] /\ ck \in [Conn -> Ck] /\ tx \in [Conn -> Tx] /\ cand \in [Conn -> Cand]
      /\ minFrame \in [Conn -> 0..MaxFrame + 1] /\ excl \in [Conn -> SUBSET Lock]
  BY Here DEF HeldInv, HdrInv, DataInv, LockInv, ConnType
<1>2. Touches(c)
  BY <1>1, CalmTail DEF CkptLock0, Take, CanExcl
<1>3. Joins(c) /\ ReadOf(c)' /\ WriteOf(c)'
  <2>1. content'[c] = None /\ slot'[c] \notin Marks /\ pc'[c] \notin {"read", "setmark", "share", "recheck"}
    BY <1>1, Locks DEF CkptLock0, Take, CanExcl, HeldSlot, Phase
  <2> QED BY <2>1, NoSnapshot
<1>4. CkptOf(c)'
  <2>1. /\ pc[c] = "ck0" /\ ck[c] \in Ck /\ content'[c] = None /\ N' = N
        /\ Sorted(Ver, db, idx, hdr[c].mx, ck[c].iter, 0) /\ Below(c)
    BY <1>1, Here DEF CkptLock0, Phase, N, CkptOf, Running, Done
  <2>2. CASE pc'[c] = "ckend"
    BY <2>2, NoCheckpoint DEF Running
  <2>3. CASE pc'[c] # "ckend"
    <3>1. /\ pc'[c] = "cksync" /\ hdr' = hdr /\ Ver' = Ver /\ db' = db /\ idx' = idx
          /\ ck'[c].iter = ck[c].iter /\ ck'[c].safe = ck[c].safe /\ ck'[c].at = ck[c].at
      <4>1. pc'[c] = "cksync" /\ ck' = [ck EXCEPT ![c].base = nBackfill]
        BY <1>1, <2>3 DEF CkptLock0
      <4> QED BY <1>1, <2>1, <4>1 DEF CkptLock0, Ck, Ver
    <3>2. Below(c)'
      <4>1. \A d \in Conn : Reads(d) => (slot[d] < ck[c].at => ck[c].safe <= Base(d))
        BY <2>1 DEF Below
      <4> QED BY <2>1, <3>1, <4>1, BelowKept
    <3>3. Done(c)' = 0
      BY <3>1 DEF Done
    <3> QED BY <2>1, <3>1, <3>2, <3>3 DEF CkptOf
  <2> QED BY <2>2, <2>3
<1> QED BY <1>2, <1>3, <1>4, TailStep

LEMMA CkptSyncData ==
  ASSUME HeldInv, DataInv, NEW c \in Conn, CkptSync(c), HeldInv', Still(c)
  PROVE  DataInv'
<1>1. /\ LockInv /\ HeldLocks(c) /\ HeldSlot(c) /\ Phase(c) /\ HdrOf(c) /\ ReadOf(c) /\ WriteOf(c) /\ CkptOf(c)
      /\ pc \in [Conn -> PC] /\ slot \in [Conn -> 0..Idle] /\ content \in [Conn -> Content \cup {None}]
      /\ hdr \in [Conn -> Hdr] /\ ck \in [Conn -> Ck] /\ tx \in [Conn -> Tx] /\ cand \in [Conn -> Cand]
      /\ minFrame \in [Conn -> 0..MaxFrame + 1] /\ excl \in [Conn -> SUBSET Lock]
  BY Here DEF HeldInv, HdrInv, DataInv, LockInv, ConnType
<1>2. Touches(c)
  BY <1>1, CalmTail DEF CkptSync, SyncWal, LockInv, SharedType
<1>3. Joins(c) /\ ReadOf(c)' /\ WriteOf(c)'
  <2>1. content'[c] = None /\ slot'[c] \notin Marks /\ pc'[c] \notin {"read", "setmark", "share", "recheck"}
    BY <1>1, Locks DEF CkptSync, SyncWal, HeldSlot, Phase
  <2> QED BY <2>1, NoSnapshot
<1>4. CkptOf(c)'
  <2>1. /\ pc[c] = "cksync" /\ content'[c] = None /\ N' = N
        /\ Sorted(Ver, db, idx, hdr[c].mx, ck[c].iter, 0) /\ Below(c) /\ ck[c].safe \in Nat
    BY <1>1, CkptNumbers DEF CkptSync, Phase, N, CkptOf, Running, Done
  <2>2. /\ pc'[c] = "ckcopy" /\ UNCHANGED <<hdr, db, idx, ck>> /\ Ver' = Ver
    BY <1>1 DEF CkptSync, Ver
  <2>3. Below(c)'
    <3>1. \A d \in Conn : Reads(d) => (slot[d] < ck[c].at => ck[c].safe <= Base(d))
      BY <2>1 DEF Below
    <3> QED BY <2>1, <2>2, <3>1, BelowKept
  <2>4. Done(c)' = ck[c].safe
    BY <2>2 DEF Done
  <2>5. Sorted(Ver, db, idx, hdr[c].mx, ck[c].iter, ck[c].safe)
    BY <2>1 DEF Sorted
  <2> QED BY <2>1, <2>2, <2>3, <2>4, <2>5 DEF CkptOf
<1> QED BY <1>2, <1>3, <1>4, TailStep

LEMMA CkptCopyData ==
  ASSUME HeldInv, DataInv, NEW c \in Conn, CkptCopy(c), HeldInv', Still(c)
  PROVE  DataInv'
<1> DEFINE p == Min(Left(c))
           f == ck[c].iter[p]
<1>1. /\ pc[c] = "ckcopy" /\ pc[c] \in Running /\ LockInv /\ HdrOf(c) /\ CkptOf(c) /\ LogShown /\ ck[c] \in Ck /\ ck[c].at = NReader
      /\ CKPT \in excl[c] /\ 0 \in excl[c] /\ slot[c] = Idle /\ content[c] = None
      /\ nBackfill \in Nat /\ N \in Nat /\ hdr[c].mx \in Nat /\ ck[c].safe \in Nat
  BY Here, HdrNumbers, CkptHas DEF CkptCopy, HeldInv, HdrInv, DataInv, Running, Phase
<1>2. p \in Left(c) /\ p \in Page
  <2>1. Left(c) \subseteq Nat /\ Left(c) # {} /\ Left(c) \subseteq Page
    BY WalAssumption DEF CkptCopy, Left
  <2>2. Min(Left(c)) \in Left(c)
    BY <2>1, MinOf
  <2> QED BY <2>1, <2>2
<1>3. /\ f \in nBackfill + 1..ck[c].safe /\ f \in Nat /\ f # 0 /\ ck[c].safe <= hdr[c].mx /\ hdr[c].mx <= N
  <2>1. f > ck[c].base /\ f <= ck[c].safe /\ ck[c].base = nBackfill /\ ck[c].safe <= hdr[c].mx /\ hdr[c].mx <= N
    BY <1>1, <1>2 DEF Left, HdrOf
  <2>2. f \in Nat
    BY <1>1, <1>2, Numbers DEF Ck
  <2> HIDE DEF f
  <2> QED BY <1>1, <2>1, <2>2
<1>4. Last(idx, hdr[c].mx, p, f)
  <2>1. Sorted(Ver, db, idx, hdr[c].mx, ck[c].iter, ck[c].safe)
    BY <1>1 DEF CkptOf, Done
  <2> HIDE DEF p
  <2> QED BY <1>2, <1>3, <2>1 DEF Sorted
<1>5. /\ UNCHANGED <<head, nBackfill, mark, idx, wal, disk, slot, hdr, pc, content, minFrame, cand, tx, past, pending>>
      /\ Ver' = Ver /\ N' = N /\ K' = K
      /\ db' = [db EXCEPT ![p] = wal.frame[f].ver] /\ ck' = [ck EXCEPT ![c].iter[p] = 0]
  BY DEF CkptCopy, Ver, N, K
<1>6. idx[f] = p /\ f \in Frames /\ (\A q \in Page \ {p} : db'[q] = db[q]) /\ db'[p] = Ver[f]
  <2>1. f \in 1..N
    <3> HIDE DEF f
    <3> QED BY <1>1, <1>3
  <2>2. f \in Frames
    BY <1>1, <2>1, InFrames
  <2>3. db \in Content
    BY <1>1 DEF LockInv, SharedType
  <2> HIDE DEF f, p
  <2> QED BY <1>2, <1>4, <1>5, <2>2, <2>3 DEF Last, Ver, Content
<1>7. LogShown'
  <2>1. Shown(Ver, db', nBackfill, idx, N, Page, K)
    <3> SUFFICES ASSUME NEW b \in 0..nBackfill PROVE Sees(Ver, db', idx, b, N, Page, K)
      BY DEF Shown
    <3>1. Sees(Ver, db, idx, b, N, Page, K)
      BY <1>1 DEF LogShown, Shown
    <3>2. b \in Nat /\ f \in b + 1..N
      <4> HIDE DEF f
      <4> QED BY <1>1, <1>3
    <3>3. \A q \in Page \ {p} : db[q] = db'[q]
      BY <1>6
    <3> HIDE DEF f, p, Ver
    <3> QED BY <1>1, <1>6, <3>1, <3>2, <3>3, SeesCopied
  <2> QED BY <1>1, <1>5, <2>1 DEF LogShown
<1>8. ASSUME NEW d \in Conn \ {c} PROVE ReadOf(d)' /\ WriteOf(d)' /\ CkptOf(d)'
  <2>1. ReadOf(d) /\ WriteOf(d) /\ HdrOf(d) /\ ck'[d] = ck[d]
    BY DEF HeldInv, HdrInv, DataInv, Still
  <2>2. CkptOf(d)'
    <3>1. pc[d] \notin Running
      BY <1>1, CkptHas, Alone
    <3> QED BY <1>5, <3>1, NoCheckpoint
  <2>3. ReadOf(d)'
    <3>1. Reads(d)' = Reads(d) /\ Base(d)' = Base(d) /\ From(d)' = From(d)
      BY <1>5 DEF Reads, Base, From
    <3>2. pc[d] = "read" => Sees(Ver, db', idx, From(d), hdr[d].mx, Page, content[d])
      <4> SUFFICES ASSUME pc[d] = "read" PROVE Sees(Ver, db', idx, From(d), hdr[d].mx, Page, content[d])
        OBVIOUS
      <4>1. slot[d] # 0
        BY <1>1 DEF LockInv, Exclusion
      <4>2. slot[d] \in Marks /\ From(d) \in Nat /\ hdr[d].mx \in Nat
        BY <1>1, <2>1, <4>1, ReaderFrom, HdrNumbers
      <4>3. Reads(d) /\ Base(d) = hdr[d].mx
        BY <1>1, <4>2, Here DEF Reads, Base, Phase
      <4>4. ck[c].safe <= hdr[d].mx
        <5>1. slot[d] < ck[c].at
          BY <1>1, <4>2, Numbers DEF Marks
        <5> QED BY <1>1, <4>3, <5>1 DEF CkptOf, Below
      <4>5. From(d) <= nBackfill
        <5>1. minFrame[d] \in 1..nBackfill + 1
          BY <2>1, <4>2 DEF ReadOf
        <5> QED BY <1>1, <4>1, <5>1 DEF From
      <4>6. f \in From(d) + 1..hdr[d].mx
        <5> HIDE DEF f, From
        <5> QED BY <1>1, <1>3, <4>2, <4>4, <4>5
      <4>7. Sees(Ver, db, idx, From(d), hdr[d].mx, Page, content[d])
        BY <2>1 DEF ReadOf
      <4>8. \A q \in Page \ {p} : db[q] = db'[q]
        BY <1>6
      <4> HIDE DEF f, p, Ver, From
      <4> QED BY <1>6, <4>2, <4>6, <4>7, <4>8, SeesCopied
    <3> QED BY <1>5, <2>1, <3>1, <3>2 DEF ReadOf
  <2>4. WriteOf(d)'
    <3> SUFFICES ASSUME Writing(d) PROVE WriteOf(d)'
      BY <1>5 DEF WriteOf, Writing
    <3>1. N <= hdr[d].mx /\ Top(d) \in Nat /\ hdr[d].mx \in Nat /\ hdr[d].mx <= Top(d)
      <4>1. Len(tx[d].app) \in Nat /\ hdr[d].mx \in Nat
        BY <1>1, Here, HdrNumbers
      <4> QED BY <1>1, <4>1, WriterAbove DEF Top
    <3>2. VIdx(d)[f] = p
      <4>1. f <= hdr[d].mx
        <5> HIDE DEF f
        <5> QED BY <1>1, <1>3, <3>1
      <4> QED BY <1>6, <4>1 DEF VIdx
    <3>3. VIdx(d)' = VIdx(d) /\ Top(d)' = Top(d)
      BY <1>5 DEF VIdx, Top
    <3>4. Shown(Ver, db, nBackfill, VIdx(d), Top(d), Page \ tx[d].list, content[d])
          => Shown(Ver, db', nBackfill, VIdx(d), Top(d), Page \ tx[d].list, content[d])
      <4> DEFINE P == Page \ tx[d].list
      <4> SUFFICES ASSUME NEW b \in 0..nBackfill, Sees(Ver, db, VIdx(d), b, Top(d), P, content[d])
                   PROVE  Sees(Ver, db', VIdx(d), b, Top(d), P, content[d])
        BY DEF Shown
      <4>1. b \in Nat /\ f \in b + 1..Top(d)
        <5> HIDE DEF f
        <5> QED BY <1>1, <1>3, <3>1
      <4>2. \A q \in P \ {p} : db[q] = db'[q]
        BY <1>6
      <4> HIDE DEF f, p, Ver, VIdx, Top, P
      <4> QED BY <3>1, <3>2, <4>1, <4>2, SeesCopied
    <3> HIDE DEF Ver, VIdx, Top
    <3> QED BY <1>5, <2>1, <3>3, <3>4 DEF WriteOf, Writing
  <2> QED BY <2>2, <2>3, <2>4
<1>9. ReadOf(c)' /\ WriteOf(c)'
  <2>1. content'[c] = None /\ slot'[c] \notin Marks /\ pc'[c] \notin {"read", "setmark", "share", "recheck"}
    BY <1>1, <1>5, Locks
  <2> QED BY <2>1, NoSnapshot
<1>10. CkptOf(c)'
  <2>1. /\ ck'[c].safe = ck[c].safe /\ ck'[c].at = ck[c].at
        /\ ck'[c].iter = [ck[c].iter EXCEPT ![p] = 0]
    <3>1. ck \in [Conn -> Ck]
      BY <1>1 DEF LockInv, ConnType
    <3> HIDE DEF p
    <3> QED BY <1>1, <1>5, <3>1 DEF Ck
  <2>2. Sorted(Ver, db, idx, hdr[c].mx, ck[c].iter, ck[c].safe) /\ Below(c)
    BY <1>1 DEF CkptOf, Done
  <2>3. Sorted(Ver, db', idx, hdr[c].mx, ck'[c].iter, ck[c].safe)
    <3> SUFFICES ASSUME NEW q \in Page
                 PROVE  IF ck'[c].iter[q] # 0 THEN Last(idx, hdr[c].mx, q, ck'[c].iter[q])
                        ELSE Absent(idx, 0, hdr[c].mx, q)
                             \/ \E g \in 1..hdr[c].mx : Last(idx, hdr[c].mx, q, g) /\ g <= ck[c].safe /\ db'[q] = Ver[g]
      BY DEF Sorted
    <3>1. CASE q = p
      <4>1. ck'[c].iter[q] = 0
        <5>1. ck[c].iter \in [Page -> 0..MaxFrame]
          BY <1>1 DEF Ck
        <5> HIDE DEF p
        <5> QED BY <2>1, <3>1, <5>1
      <4>2. f \in 1..hdr[c].mx /\ f <= ck[c].safe
        <5> HIDE DEF f
        <5> QED BY <1>1, <1>3
      <4> HIDE DEF f, p, Ver
      <4> QED BY <1>4, <1>6, <3>1, <4>1, <4>2
    <3>2. CASE q # p
      <4>1. ck'[c].iter[q] = ck[c].iter[q] /\ db'[q] = db[q]
        <5>1. ck[c].iter \in [Page -> 0..MaxFrame]
          BY <1>1 DEF Ck
        <5> HIDE DEF p
        <5> QED BY <1>6, <2>1, <3>2, <5>1
      <4> HIDE DEF p, Ver
      <4> QED BY <2>2, <4>1 DEF Sorted
    <3> QED BY <3>1, <3>2
  <2>4. Below(c)'
    <3>1. \A d \in Conn : Reads(d) => (slot[d] < ck[c].at => ck[c].safe <= Base(d))
      BY <2>2 DEF Below
    <3> QED BY <1>1, <1>5, <2>1, <3>1, BelowKept
  <2>5. Done(c)' = ck[c].safe
    BY <1>1, <1>5, <2>1 DEF Done
  <2> QED BY <1>5, <2>3, <2>4, <2>5 DEF CkptOf
<1> QED BY <1>7, <1>8, <1>9, <1>10 DEF DataInv

LEMMA CkptDoneData ==
  ASSUME HeldInv, DataInv, NEW c \in Conn, CkptDone(c), HeldInv', Still(c)
  PROVE  DataInv'
<1>1. /\ pc[c] = "ckcopy" /\ pc[c] \in Running /\ LockInv /\ HdrOf(c) /\ CkptOf(c) /\ LogShown /\ ck[c] \in Ck
      /\ CKPT \in excl[c] /\ slot[c] = Idle /\ content[c] = None
      /\ nBackfill \in Nat /\ N \in Nat /\ hdr[c].mx \in Nat /\ ck[c].safe \in Nat
  BY Here, HdrNumbers, CkptHas DEF CkptDone, HeldInv, HdrInv, DataInv, Running
<1>2. /\ nBackfill < ck[c].safe /\ ck[c].base = nBackfill /\ ck[c].safe <= hdr[c].mx /\ hdr[c].mx <= N
      /\ Sorted(Ver, db, idx, hdr[c].mx, ck[c].iter, ck[c].safe)
  BY <1>1 DEF HdrOf, CkptOf, Done
<1>3. \A p \in Page : ck[c].iter[p] # 0 => ck[c].iter[p] <= nBackfill \/ ck[c].iter[p] > ck[c].safe
  <2>1. \A p \in Page : ck[c].iter[p] \in Nat
    BY <1>1, Numbers DEF Ck
  <2>2. \A p \in Page : ~(ck[c].iter[p] > nBackfill /\ ck[c].iter[p] <= ck[c].safe)
    BY <1>2 DEF CkptDone, Left
  <2> QED BY <1>1, <2>1, <2>2
<1>4. /\ UNCHANGED <<head, mark, idx, wal, db, slot, hdr, content, minFrame, cand, tx, ck, past, pending>>
      /\ Ver' = Ver /\ N' = N /\ K' = K /\ nBackfill' = ck[c].safe /\ pc'[c] = "ckend"
      /\ disk' = SyncedDb(c)
  BY <1>1 DEF CkptDone, Ver, N, K, LockInv, ConnType
<1>5. LogShown'
  <2>1. Shown(Ver, db, ck[c].safe, idx, N, Page, K)
    <3>1. Shown(Ver, db, nBackfill, idx, N, Page, K) /\ Page \in SUBSET Page
      BY <1>1 DEF LogShown
    <3> HIDE DEF Ver
    <3> QED BY <1>1, <1>2, <1>3, <3>1, ShownDone
  <2>2. ck[c].safe >= N => disk'.db = K
    <3> SUFFICES ASSUME ck[c].safe >= N PROVE disk'.db = K
      OBVIOUS
    <3>1. ck[c].safe = N
      BY <1>1, <1>2
    <3>2. disk'.db = db
      BY <1>1, <1>4, <3>1 DEF SyncedDb, N, LockInv, SharedType
    <3>3. \A p \in Page : db[p] = K[p]
      <4> HIDE DEF Ver, K
      <4> QED BY <1>1, <2>1, <3>1 DEF Shown, Sees, Absent
    <3>4. db \in [Page -> 0..MaxVer] /\ K \in [Page -> 0..MaxVer]
      BY <1>1, Newest DEF LockInv, SharedType, Content
    <3>5. db = K
      BY <3>3, <3>4
    <3> QED BY <3>2, <3>5
  <2> QED BY <1>4, <2>1, <2>2 DEF LogShown
<1>6. ASSUME NEW d \in Conn \ {c} PROVE ReadOf(d)' /\ WriteOf(d)' /\ CkptOf(d)'
  <2>1. ReadOf(d) /\ WriteOf(d) /\ HdrOf(d) /\ pc'[d] = pc[d]
    BY DEF HeldInv, HdrInv, DataInv, Still
  <2>2. CkptOf(d)'
    <3>1. pc[d] \notin Running
      BY <1>1, CkptHas, Alone
    <3> QED BY <2>1, <3>1, NoCheckpoint
  <2>3. ReadOf(d)'
    <3>1. Reads(d)' = Reads(d) /\ Base(d)' = Base(d) /\ From(d)' = From(d)
      BY <1>4, <2>1 DEF Reads, Base, From
    <3>2. slot[d] \in Marks => minFrame[d] \in 1..ck[c].safe + 1
      BY <1>1, <1>2, <2>1 DEF ReadOf
    <3> QED BY <1>4, <2>1, <3>1, <3>2 DEF ReadOf
  <2>4. WriteOf(d)'
    <3> SUFFICES ASSUME Writing(d) PROVE WriteOf(d)'
      BY <1>4, <2>1 DEF WriteOf, Writing
    <3>1. N <= hdr[d].mx /\ Top(d) \in Nat /\ hdr[d].mx \in Nat /\ hdr[d].mx <= Top(d)
      <4>1. Len(tx[d].app) \in Nat /\ hdr[d].mx \in Nat
        BY <1>1, Here, HdrNumbers
      <4> QED BY <1>1, <4>1, WriterAbove DEF Top
    <3>2. \A i \in 1..hdr[c].mx : idx[i] = VIdx(d)[i]
      <4>1. \A i \in 1..hdr[c].mx : i \in Frames /\ i <= hdr[d].mx
        BY <1>1, <1>2, <3>1, InFrames
      <4> QED BY <4>1 DEF VIdx
    <3>3. VIdx(d)' = VIdx(d) /\ Top(d)' = Top(d)
      BY <1>4 DEF VIdx, Top
    <3>4. Shown(Ver, db, nBackfill, VIdx(d), Top(d), Page \ tx[d].list, content[d])
          => Shown(Ver, db, ck[c].safe, VIdx(d), Top(d), Page \ tx[d].list, content[d])
      <4> DEFINE P == Page \ tx[d].list
      <4>1. P \in SUBSET Page /\ hdr[c].mx <= Top(d)
        BY <1>1, <1>2, <3>1
      <4> SUFFICES ASSUME Shown(Ver, db, nBackfill, VIdx(d), Top(d), P, content[d])
                   PROVE  Shown(Ver, db, ck[c].safe, VIdx(d), Top(d), P, content[d])
        OBVIOUS
      <4> HIDE DEF Ver, VIdx, Top, P
      <4> QED BY <1>1, <1>2, <1>3, <3>1, <3>2, <4>1, ShownDone
    <3> HIDE DEF Ver, VIdx, Top
    <3> QED BY <1>4, <2>1, <3>3, <3>4 DEF WriteOf, Writing
  <2> QED BY <2>2, <2>3, <2>4
<1>7. ReadOf(c)' /\ WriteOf(c)' /\ CkptOf(c)'
  <2>1. content'[c] = None /\ slot'[c] \notin Marks /\ pc'[c] \notin {"read", "setmark", "share", "recheck"}
    BY <1>1, <1>4, Locks
  <2> QED BY <1>4, <2>1, NoSnapshot, NoCheckpoint DEF Running
<1> QED BY <1>5, <1>6, <1>7 DEF DataInv

LEMMA CkptEndData ==
  ASSUME HeldInv, DataInv, NEW c \in Conn, CkptEnd(c), HeldInv', Still(c)
  PROVE  DataInv'
<1>1. /\ LockInv /\ HeldLocks(c) /\ HeldSlot(c) /\ Phase(c) /\ HdrOf(c) /\ ReadOf(c) /\ WriteOf(c) /\ CkptOf(c)
      /\ pc \in [Conn -> PC] /\ slot \in [Conn -> 0..Idle] /\ content \in [Conn -> Content \cup {None}]
      /\ hdr \in [Conn -> Hdr] /\ ck \in [Conn -> Ck] /\ tx \in [Conn -> Tx] /\ cand \in [Conn -> Cand]
      /\ minFrame \in [Conn -> 0..MaxFrame + 1] /\ excl \in [Conn -> SUBSET Lock]
  BY Here DEF HeldInv, HdrInv, DataInv, LockInv, ConnType
<1>2. Touches(c)
  BY <1>1, CalmTail DEF CkptEnd, Take, CanExcl
<1>3. Joins(c) /\ ReadOf(c)' /\ WriteOf(c)'
  <2>1. content'[c] = None /\ slot'[c] \notin Marks /\ pc'[c] \notin {"read", "setmark", "share", "recheck"}
    BY <1>1, Locks DEF CkptEnd, Take, CanExcl, HeldSlot, Phase
  <2> QED BY <2>1, NoSnapshot
<1>4. CkptOf(c)'
  <2>1. pc'[c] \notin Running
    BY <1>1 DEF CkptEnd, Take, CanExcl, Running
  <2> QED BY <2>1, NoCheckpoint
<1> QED BY <1>2, <1>3, <1>4, TailStep

LEMMA CkptTruncateData ==
  ASSUME HeldInv, DataInv, NEW c \in Conn, CkptTruncate(c), HeldInv', Still(c)
  PROVE  DataInv'
<1>1. /\ LockInv /\ HeldLocks(c) /\ HeldSlot(c) /\ Phase(c) /\ HdrOf(c) /\ ReadOf(c) /\ WriteOf(c) /\ CkptOf(c)
      /\ pc \in [Conn -> PC] /\ slot \in [Conn -> 0..Idle] /\ content \in [Conn -> Content \cup {None}]
      /\ hdr \in [Conn -> Hdr] /\ ck \in [Conn -> Ck] /\ tx \in [Conn -> Tx] /\ cand \in [Conn -> Cand]
      /\ minFrame \in [Conn -> 0..MaxFrame + 1] /\ excl \in [Conn -> SUBSET Lock]
  BY Here DEF HeldInv, HdrInv, DataInv, LockInv, ConnType
<1>2. Touches(c)
  <2>1. N = 0 /\ WRITE \in excl[c]
    BY <1>1 DEF CkptTruncate, HdrOf, HeldLocks
  <2>2. \A i \in Frames : ~(i <= N \/ WRITE \notin excl[c])
    BY <2>1 DEF Frames
  <2>3. N' = N
    BY DEF CkptTruncate, N
  <2>4. \A d \in Conn : mark'[slot[d]] = mark[slot[d]]
    BY DEF CkptTruncate
  <2> QED BY <2>2, <2>3, <2>4 DEF Touches, CkptTruncate
<1>3. Joins(c) /\ ReadOf(c)' /\ WriteOf(c)'
  <2>1. content'[c] = None /\ slot'[c] \notin Marks /\ pc'[c] \notin {"read", "setmark", "share", "recheck"}
    BY <1>1, Locks DEF CkptTruncate, Release, HeldSlot, Phase
  <2> QED BY <2>1, NoSnapshot
<1>4. CkptOf(c)'
  <2>1. pc'[c] \notin Running
    BY <1>1 DEF CkptTruncate, Release, Running
  <2> QED BY <2>1, NoCheckpoint
<1> QED BY <1>2, <1>3, <1>4, TailStep

LEMMA CkptQuitData ==
  ASSUME HeldInv, DataInv, NEW c \in Conn, CkptQuit(c), HeldInv', Still(c)
  PROVE  DataInv'
<1>1. /\ LockInv /\ HeldLocks(c) /\ HeldSlot(c) /\ Phase(c) /\ HdrOf(c) /\ ReadOf(c) /\ WriteOf(c) /\ CkptOf(c)
      /\ pc \in [Conn -> PC] /\ slot \in [Conn -> 0..Idle] /\ content \in [Conn -> Content \cup {None}]
      /\ hdr \in [Conn -> Hdr] /\ ck \in [Conn -> Ck] /\ tx \in [Conn -> Tx] /\ cand \in [Conn -> Cand]
      /\ minFrame \in [Conn -> 0..MaxFrame + 1] /\ excl \in [Conn -> SUBSET Lock]
  BY Here DEF HeldInv, HdrInv, DataInv, LockInv, ConnType
<1>2. Touches(c)
  BY <1>1, CalmTail DEF CkptQuit, Forget
<1>3. Joins(c) /\ ReadOf(c)' /\ WriteOf(c)'
  <2>1. content'[c] = None /\ slot'[c] \notin Marks /\ pc'[c] \notin {"read", "setmark", "share", "recheck"}
    BY <1>1, Locks DEF CkptQuit, Forget, HeldSlot, Phase
  <2> QED BY <2>1, NoSnapshot
<1>4. CkptOf(c)'
  <2>1. pc'[c] \notin Running
    BY <1>1 DEF CkptQuit, Forget, Running
  <2> QED BY <2>1, NoCheckpoint
<1> QED BY <1>2, <1>3, <1>4, TailStep

LEMMA CrashData ==
  ASSUME HeldInv, DataInv, NEW c \in Conn, Crash(c), HeldInv', Still(c), pc[c] \notin {"rs2", "rs3", "publish"}
  PROVE  DataInv'
<1>1. /\ LockInv /\ HeldLocks(c) /\ HeldSlot(c) /\ Phase(c) /\ HdrOf(c) /\ ReadOf(c) /\ WriteOf(c) /\ CkptOf(c)
      /\ pc \in [Conn -> PC] /\ slot \in [Conn -> 0..Idle] /\ content \in [Conn -> Content \cup {None}]
      /\ hdr \in [Conn -> Hdr] /\ ck \in [Conn -> Ck] /\ tx \in [Conn -> Tx] /\ cand \in [Conn -> Cand]
      /\ minFrame \in [Conn -> 0..MaxFrame + 1] /\ excl \in [Conn -> SUBSET Lock]
  BY Here DEF HeldInv, HdrInv, DataInv, LockInv, ConnType
<1>2. Touches(c)
  BY <1>1, CalmTail DEF Crash, Forget
<1>3. Joins(c) /\ ReadOf(c)' /\ WriteOf(c)'
  <2>1. content'[c] = None /\ slot'[c] \notin Marks /\ pc'[c] \notin {"read", "setmark", "share", "recheck"}
    BY <1>1, Locks DEF Crash, Forget, HeldSlot, Phase
  <2> QED BY <2>1, NoSnapshot
<1>4. CkptOf(c)'
  <2>1. pc'[c] \notin Running
    BY <1>1 DEF Crash, Forget, Running
  <2> QED BY <2>1, NoCheckpoint
<1> QED BY <1>2, <1>3, <1>4, TailStep

LEMMA DataNext ==
  ASSUME HeldInv, DataInv, NEW c \in Conn, Calm(c), HeldInv', Still(c)
  PROVE  DataInv'
<1>0. StepOf(c)
  BY DEF Calm
<1>1. CASE ReadHdr(c)
  BY <1>1, ReadHdrData
<1>2. CASE Choose(c)
  BY <1>2, ChooseData
<1>3. CASE Lock0(c)
  BY <1>3, Lock0Data
<1>4. CASE Check0(c)
  BY <1>4, Check0Data
<1>5. CASE Pick(c)
  BY <1>5, PickData
<1>6. CASE SetMark(c)
  BY <1>6, SetMarkData
<1>7. CASE Share(c)
  BY <1>7, ShareData
<1>8. CASE Recheck(c)
  BY <1>8, RecheckData
<1>9. CASE EndRead(c)
  BY <1>9, EndReadData
<1>10. CASE RecoverLock(c)
  BY <1>10, RecoverLockData
<1>11. CASE Rec1(c)
  BY <1>11, Rec1Data
<1>12. CASE Rec2(c)
  BY <1>12, Rec2Data
<1>13. CASE Rec3(c)
  BY <1>13, Rec3Data
<1>14. CASE BeginWrite(c)
  BY <1>14, BeginWriteData
<1>15. CASE WalFrames(c)
  BY <1>15, WalFramesData
<1>16. CASE Restart1(c)
  BY <1>16, Restart1Data
<1>17. CASE Restart2(c)
  <2>1. \A d \in Conn : pc[d] # "ckinfo"
    BY <1>17 DEF Calm
  <2> QED BY <1>17, <2>1, Restart2Data
<1>18. CASE Restart3(c)
  BY <1>18, Restart3Data
<1>19. CASE WalHdr(c)
  BY <1>19, WalHdrData
<1>20. CASE SyncHdr(c)
  BY <1>20, SyncHdrData
<1>21. CASE WriteFrame(c)
  BY <1>21, WriteFrameData
<1>22. CASE Recksum(c)
  BY <1>22, RecksumData
<1>23. CASE SyncCommit(c)
  BY <1>23, SyncCommitData
<1>24. CASE Index(c)
  BY <1>24, IndexData
<1>25. CASE Publish(c)
  BY <1>25, PublishData
<1>26. CASE WriteFails(c)
  BY <1>26, WriteFailsData
<1>27. CASE Rollback(c)
  BY <1>27, RollbackData
<1>28. CASE Checkpoint(c)
  BY <1>28, CheckpointData
<1>29. CASE CkptWriteLock(c)
  BY <1>29, CkptWriteLockData
<1>30. CASE CkptStart(c)
  BY <1>30, CkptStartData
<1>31. CASE CkptMark(c)
  BY <1>31, CkptMarkData
<1>32. CASE CkptLockMark(c)
  BY <1>32, CkptLockMarkData
<1>33. CASE CkptLock0(c)
  BY <1>33, CkptLock0Data
<1>34. CASE CkptSync(c)
  BY <1>34, CkptSyncData
<1>35. CASE CkptCopy(c)
  BY <1>35, CkptCopyData
<1>36. CASE CkptDone(c)
  BY <1>36, CkptDoneData
<1>37. CASE CkptEnd(c)
  BY <1>37, CkptEndData
<1>38. CASE CkptTruncate(c)
  BY <1>38, CkptTruncateData
<1>39. CASE CkptQuit(c)
  BY <1>39, CkptQuitData
<1>40. CASE Crash(c)
  <2>1. pc[c] \notin {"rs2", "rs3", "publish"}
    BY <1>40 DEF Calm
  <2> QED BY <1>40, <2>1, CrashData
<1> QED BY <1>0, <1>1, <1>2, <1>3, <1>4, <1>5, <1>6, <1>7, <1>8, <1>9, <1>10, <1>11, <1>12, <1>13, <1>14, <1>15, <1>16, <1>17, <1>18, <1>19, <1>20, <1>21, <1>22, <1>23, <1>24, <1>25, <1>26, <1>27, <1>28, <1>29, <1>30, <1>31, <1>32, <1>33, <1>34, <1>35, <1>36, <1>37, <1>38, <1>39, <1>40 DEF StepOf

(***************************************************************************)
(* The invariant of a calm history.                                        *)
(***************************************************************************)
LEMMA DataInit ==
  ASSUME Init
  PROVE  DataInv
<1>1. /\ nBackfill = 0 /\ N = 0 /\ K = [p \in Page |-> 0] /\ db = K /\ disk.db = K
      /\ \A c \in Conn : pc[c] = "idle" /\ slot[c] = Idle /\ content[c] = None
  BY DEF Init, N, K, ZeroHdr
<1>2. Shown(Ver, db, nBackfill, idx, N, Page, K)
  BY <1>1 DEF Shown, Sees, Last
<1>3. \A c \in Conn : ReadOf(c) /\ WriteOf(c) /\ CkptOf(c)
  BY <1>1, Locks DEF ReadOf, Reads, WriteOf, Writing, CkptOf, Running
<1> QED BY <1>1, <1>2, <1>3 DEF DataInv, LogShown

CalmInv == HeldInv /\ DataInv

LEMMA CalmStep ==
  ASSUME CalmInv, [Next /\ ~Disturbed]_vars
  PROVE  CalmInv'
<1>1. CASE UNCHANGED vars
  <2>1. LockInv' /\ HeadInv'
    <3>1. Exclusion' /\ SharedType' /\ ConnType'
      BY <1>1 DEF vars, CalmInv, HeldInv, LockInv, Exclusion, SharedType, ConnType
    <3>2. \A c \in Conn : (HeldLocks(c) /\ HeldSlot(c) /\ Phase(c) /\ Room(c))'
      <4> SUFFICES ASSUME NEW c \in Conn PROVE (HeldLocks(c) /\ HeldSlot(c) /\ Phase(c) /\ Room(c))'
        OBVIOUS
      <4>1. HeldLocks(c) /\ HeldSlot(c) /\ Phase(c) /\ Room(c)
        BY DEF CalmInv, HeldInv, LockInv
      <4>2. HeldLocks(c)'
        BY <1>1, <4>1 DEF vars, HeldLocks, WriterLock, CkptLocks
      <4>3. HeldSlot(c)' /\ Phase(c)'
        BY <1>1, <4>1 DEF vars, HeldSlot, Phase
      <4>4. Room(c)'
        BY <1>1, <4>1 DEF vars, Room, Top
      <4> QED BY <4>2, <4>3, <4>4
    <3>3. HeadInv'
      BY <1>1 DEF vars, CalmInv, HeldInv, HeadInv, HeadOf, Unborn, Virgin, HasHdr
    <3> QED BY <3>1, <3>2, <3>3 DEF LockInv
  <2>2. HdrInv' /\ SaltRoom'
    BY <1>1 DEF vars, CalmInv, HeldInv, HdrInv, HdrOf, LogSize, Current, Follows, AtEnd, HasHdr, N, SaltRoom, NeedsSalt
  <2>3. LogShown'
    BY <1>1 DEF vars, CalmInv, DataInv, LogShown, Ver, N, K
  <2>4. ASSUME NEW c \in Conn PROVE (ReadOf(c) /\ WriteOf(c) /\ CkptOf(c))'
    <3>1. Ver' = Ver /\ N' = N /\ K' = K /\ VIdx(c)' = VIdx(c) /\ Top(c)' = Top(c) /\ From(c)' = From(c)
      BY <1>1 DEF vars, Ver, N, K, VIdx, Top, From
    <3>2. (Reads(c)' <=> Reads(c)) /\ Base(c)' = Base(c)
      BY <1>1 DEF vars, Reads, Base, N
    <3>3. ReadOf(c)'
      BY <1>1, <3>1, <3>2 DEF vars, CalmInv, DataInv, ReadOf
    <3>4. WriteOf(c)'
      BY <1>1, <3>1 DEF vars, CalmInv, DataInv, WriteOf, Writing
    <3>5. CkptOf(c)'
      BY <1>1, <3>1 DEF vars, CalmInv, DataInv, CkptOf, Below, Done, Reads, Base, N
    <3> QED BY <3>3, <3>4, <3>5
  <2> QED BY <2>1, <2>2, <2>3, <2>4 DEF CalmInv, HeldInv, DataInv
<1>2. CASE Next /\ ~Disturbed
  <2>1. env \in Environments
    BY DEF CalmInv, HeldInv, LockInv, SharedType
  <2>2. PICK c \in Conn : Calm(c)
    BY <1>2, <2>1, CalmSteps
  <2>3. HeldInv' /\ Still(c)
    BY <2>2, HeldNext DEF CalmInv
  <2> QED BY <2>2, <2>3, DataNext DEF CalmInv
<1> QED BY <1>1, <1>2

\* The locks, the headers, the marks and the views of the log are as CalmInv says
\* after every step of a history without the disturbances.
THEOREM CalmInvariant == CalmSpec => []CalmInv
<1>1. Init => CalmInv
  BY HeldInit, DataInit DEF CalmInv
<1>2. CalmInv /\ [Next /\ ~Disturbed]_vars => CalmInv'
  BY CalmStep
<1> QED BY <1>1, <1>2, PTL DEF CalmSpec

(***************************************************************************)
(* What a connection reads from the files.                                 *)
(***************************************************************************)
LEMMA ViewIs ==
  ASSUME LockInv, NEW c \in Conn, NEW k \in Content, NEW b \in Nat,
         Sees(Ver, db, idx, b, hdr[c].mx, Page, k),
         \/ slot[c] = 0 /\ b >= hdr[c].mx
         \/ slot[c] # 0 /\ minFrame[c] = b + 1
  PROVE  View(c) = k
<1> SUFFICES ASSUME NEW p \in Page
             PROVE  (IF FindFrame(c, p) = 0 THEN db[p] ELSE wal.frame[FindFrame(c, p)].ver) = k[p]
  BY DEF View, Content
<1>1. hdr[c].mx \in Nat /\ FindFrame(c, p) \in 0..hdr[c].mx /\ \A i \in 1..hdr[c].mx : i \in Frames
  BY FrameFound, InFrames, HdrNumbers
<1>2. CASE FindFrame(c, p) = 0
  <2>1. Absent(idx, b, hdr[c].mx, p)
    <3>1. CASE slot[c] = 0
      BY <1>1, <3>1 DEF Absent
    <3>2. CASE slot[c] # 0
      <4>1. \A i \in b + 1..hdr[c].mx : idx[i] # p
        BY <1>1, <1>2, <3>2, FrameFound
      <4> QED BY <4>1 DEF Absent
    <3> QED BY <3>1, <3>2
  <2> QED BY <1>2, <2>1 DEF Sees
<1>3. CASE FindFrame(c, p) # 0
  <2> DEFINE f == FindFrame(c, p)
  <2>1. f \in b + 1..hdr[c].mx /\ idx[f] = p /\ \A g \in b + 1..hdr[c].mx : idx[g] = p => g <= f
    BY <1>1, <1>3, FrameFound
  <2>2. f \in Frames
    BY <1>1, <2>1
  <2> HIDE DEF f
  <2>3. Last(idx, hdr[c].mx, p, f)
    BY <1>1, <2>1 DEF Last
  <2>4. Ver[f] = wal.frame[f].ver
    BY <2>2 DEF Ver
  <2> HIDE DEF Ver
  <2>5. Ver[f] = k[p]
    BY <2>1, <2>3 DEF Sees
  <2> QED BY <1>3, <2>4, <2>5 DEF f
<1> QED BY <1>2, <1>3

LEMMA ReaderSees ==
  ASSUME CalmInv, NEW c \in Conn, pc[c] = "read"
  PROVE  View(c) = content[c] /\ content[c] \in Content
<1>1. LockInv /\ ReadOf(c)
  BY DEF CalmInv, HeldInv, DataInv
<1>2. content[c] \in Content /\ hdr[c].mx \in Nat /\ minFrame[c] \in Nat
  BY <1>1, Here, HdrNumbers, Numbers DEF Phase
<1>3. From(c) \in Nat /\ (slot[c] = 0 \/ slot[c] \in Marks)
  BY <1>1, ReaderFrom
<1>4. \/ slot[c] = 0 /\ From(c) >= hdr[c].mx
      \/ slot[c] # 0 /\ minFrame[c] = From(c) + 1
  BY <1>2, <1>3 DEF From
<1>5. Sees(Ver, db, idx, From(c), hdr[c].mx, Page, content[c])
  BY <1>1 DEF ReadOf
<1> HIDE DEF Ver, From
<1> QED BY <1>1, <1>2, <1>3, <1>4, <1>5, ViewIs

LEMMA WriterSees ==
  ASSUME CalmInv, NEW c \in Conn, pc[c] = "write"
  PROVE  View(c) = content[c] /\ (slot[c] = 0 => nBackfill = hdr[c].mx)
<1>1. LockInv /\ ReadOf(c) /\ WriteOf(c) /\ HdrOf(c) /\ Writing(c) /\ content[c] \in Content
      /\ nBackfill \in Nat /\ N \in Nat /\ hdr[c].mx \in Nat /\ HeldSlot(c) /\ Room(c)
  BY WritesHave DEF CalmInv, DataInv
<1>2. tx[c].list = {} /\ tx[c].app = <<>> /\ Top(c) = hdr[c].mx
  BY <1>1 DEF WriteOf, Room, Top
<1>3. Shown(Ver, db, nBackfill, idx, hdr[c].mx, Page, content[c])
  <2> DEFINE P == Page \ tx[c].list
  <2>1. P = Page /\ Shown(Ver, db, nBackfill, VIdx(c), hdr[c].mx, P, content[c])
    BY <1>1, <1>2 DEF WriteOf
  <2>2. \A i \in 1..hdr[c].mx : VIdx(c)[i] = idx[i]
    BY <1>1, InFrames DEF VIdx
  <2> HIDE DEF P, Ver, VIdx
  <2> QED BY <1>1, <2>1, <2>2, ShownKept
<1>4. slot[c] = 0 => nBackfill = hdr[c].mx
  BY <1>1 DEF HdrOf, Current, AtEnd, N
<1>5. slot[c] # 0 => slot[c] \in Marks
  BY <1>1, Here, Numbers DEF HeldSlot, Marks
<1>6. slot[c] \in Marks => minFrame[c] \in 1..nBackfill + 1
  BY <1>1 DEF ReadOf
<1> DEFINE b == IF slot[c] = 0 THEN nBackfill ELSE minFrame[c] - 1
<1>7. b \in 0..nBackfill /\ b \in Nat
  BY <1>1, <1>5, <1>6
<1>8. \/ slot[c] = 0 /\ b >= hdr[c].mx
      \/ slot[c] # 0 /\ minFrame[c] = b + 1
  BY <1>1, <1>4, <1>5, <1>6
<1> HIDE DEF b, Ver
<1>9. Sees(Ver, db, idx, b, hdr[c].mx, Page, content[c])
  BY <1>3, <1>7 DEF Shown
<1> QED BY <1>1, <1>4, <1>7, <1>8, <1>9, ViewIs

\* ReadersKeepTheirSnapshot for any number of connections, pages and frames: all
\* through a read transaction (walTryBeginRead to sqlite3WalEndReadTransaction) the
\* log and the database file give the content that was committed when it began.
THEOREM ReadersKeep == CalmSpec => []ReadersKeepTheirSnapshot
<1>1. CalmInv => ReadersKeepTheirSnapshot
  BY ReaderSees DEF ReadersKeepTheirSnapshot
<1> QED BY <1>1, CalmInvariant, PTL

\* WriterSeesItsWrites for any number of connections, pages and frames: between two
\* calls of sqlite3WalFrames a writer reads what it has written, after spills, frames
\* written over and a restart of the log.
THEOREM WriterSeesAll == CalmSpec => []WriterSeesItsWrites
<1>1. CalmInv => WriterSeesItsWrites
  BY WriterSees DEF WriterSeesItsWrites
<1> QED BY <1>1, CalmInvariant, PTL

\* LogInvariant for any number of connections, pages and frames: types, marks within
\* the snapshots they protect, a log that is restarted only when all of it has been
\* backfilled, and a backfilled log whose newest content is in the synced file.
THEOREM LogIsSound == CalmSpec => []LogInvariant
<1>1. ASSUME CalmInv PROVE TypeOK
  <2>1. SharedType /\ ConnType
    BY <1>1 DEF CalmInv, HeldInv, LockInv
  <2>2. Hdr = Headers
    BY DEF Hdr, Headers, Cksum
  <2>3. db \in [Page -> 0..Torn]
    BY <2>1, Numbers DEF SharedType, Content, Torn
  <2> HIDE DEF Hdr, Headers
  <2> QED BY <2>1, <2>2, <2>3 DEF SharedType, ConnType, TypeOK
<1>2. ASSUME CalmInv PROVE MarkWithinSnapshot
  <2> SUFFICES ASSUME NEW c \in Conn, pc[c] = "read", slot[c] \in Marks PROVE mark[slot[c]] <= hdr[c].mx
    BY DEF MarkWithinSnapshot
  <2>1. content[c] # None
    BY <1>2, Here DEF CalmInv, HeldInv, Phase
  <2> QED BY <1>2, <2>1 DEF CalmInv, DataInv, ReadOf, Reads, Base
<1>3. ASSUME CalmInv PROVE RestartsBackfilledLog
  BY <1>3, WriterSees DEF RestartsBackfilledLog
<1>4. ASSUME CalmInv PROVE BackfilledIsDurable
  <2>1. LogShown /\ N \in Nat
    BY <1>4, HdrNumbers DEF CalmInv, HeldInv, DataInv
  <2> QED BY <2>1 DEF BackfilledIsDurable, LogShown, N, K
<1>5. CalmInv => LogInvariant
  BY <1>1, <1>2, <1>3, <1>4 DEF LogInvariant
<1> QED BY <1>5, CalmInvariant, PTL

\* The comment of WalCkptInfo, "The nBackfill number is never greater than
\* WalIndexHdr.mxFrame", once walRestartHdr has run to its end.
THEOREM BackfillIsWithin == CalmSpec => []BackfillWithinLog
<1>1. CalmInv => BackfillWithinLog
  BY DEF CalmInv, HeldInv, HdrInv, LogSize, N, BackfillWithinLog, InHeader
<1> QED BY <1>1, CalmInvariant, PTL

(***************************************************************************)
(* The log implements SnapshotStore.                                       *)
(***************************************************************************)
LEMMA WriterHolds ==
  ASSUME LockInv, NEW c \in Conn
  PROVE  IsWriter(c) <=> Writing(c)
<1>1. pc[c] = "read" => WRITE \notin excl[c]
  BY Here DEF HeldLocks
<1> QED BY <1>1, WriterHas DEF IsWriter, Writing

LEMMA WriterIs ==
  ASSUME LockInv, NEW c \in Conn, Writing(c)
  PROVE  Writer = c /\ Writer # None
<1>1. IsWriter(c) /\ \A d \in Conn : IsWriter(d) => d = c
  BY WriterHolds, Alone DEF IsWriter
<1>2. c # None
  BY WalAssumption
<1> HIDE DEF IsWriter
<1> QED BY <1>1, <1>2 DEF Writer

LEMMA WriterNone ==
  ASSUME LockInv, \A c \in Conn : ~Writing(c)
  PROVE  Writer = None
BY WriterHolds DEF Writer

\* What a connection sees of the store.
Seen(c) == IF pc[c] = "read" THEN content[c] ELSE None

StoreIs ==
  /\ Snap = [c \in Conn |-> Seen(c)]
  /\ \A c \in Conn : Writing(c) => Writer = c
  /\ (\A c \in Conn : ~Writing(c)) => Writer = None

LEMMA StoreHas == CalmInv => StoreIs
<1> SUFFICES ASSUME CalmInv PROVE StoreIs
  OBVIOUS
<1>1. LockInv
  BY DEF CalmInv, HeldInv
<1> QED BY <1>1, ReaderSees, WriterIs, WriterNone DEF StoreIs, Snap, Seen

LEMMA StoreHasNext == CalmInv' => StoreIs'
BY StoreHas, PTL

\* A step of one connection changes its own snapshot, and the writer only if it
\* begins or ends to write.
LEMMA StoreMoves ==
  ASSUME CalmInv, CalmInv', NEW c \in Conn, Still(c)
  PROVE  /\ Snap[c] = Seen(c) /\ Snap' = [Snap EXCEPT ![c] = Seen(c)']
         /\ Writer # c <=> ~Writing(c)
         /\ Writer = c <=> Writing(c)
         /\ Writing(c)' => Writer' = c /\ (Writing(c) \/ Writer = None)
         /\ ~Writing(c)' => Writer' = IF Writing(c) THEN None ELSE Writer
<1>1. StoreIs /\ StoreIs'
  BY StoreHas, StoreHasNext
<1>2. Snap = [d \in Conn |-> Seen(d)] /\ Snap' = [d \in Conn |-> Seen(d)']
  BY <1>1 DEF StoreIs
<1>3. \A d \in Conn \ {c} : Seen(d)' = Seen(d) /\ (Writing(d)' <=> Writing(d))
  BY DEF Still, Seen, Writing
<1>4. \A d \in Conn : Writing(d) => Writer = d
  BY <1>1 DEF StoreIs
<1>5. (\A d \in Conn : ~Writing(d)) => Writer = None
  BY <1>1 DEF StoreIs
<1>6. \A d \in Conn : Writing(d)' => Writer' = d
  BY <1>1 DEF StoreIs
<1>7. (\A d \in Conn : ~Writing(d)') => Writer' = None
  BY <1>1 DEF StoreIs
<1>8. c # None
  BY WalAssumption
<1> HIDE DEF Seen, Writing, Writer, Snap, Still
<1>9. Snap' = [Snap EXCEPT ![c] = Seen(c)']
  BY <1>2, <1>3
<1>10. Writer = c <=> Writing(c)
  BY <1>4, <1>5, <1>8
<1>11. Writing(c)' => Writer' = c /\ (Writing(c) \/ Writer = None)
  <2> SUFFICES ASSUME Writing(c)' PROVE Writer' = c /\ (Writing(c) \/ Writer = None)
    OBVIOUS
  <2>1. \A d \in Conn : Writing(d)' => d = c
    BY <1>6
  <2> QED BY <1>3, <1>5, <1>6, <2>1
<1>12. ~Writing(c)' => Writer' = IF Writing(c) THEN None ELSE Writer
  <2> SUFFICES ASSUME ~Writing(c)' PROVE Writer' = IF Writing(c) THEN None ELSE Writer
    OBVIOUS
  <2>1. CASE \E d \in Conn \ {c} : Writing(d)
    BY <1>3, <1>4, <1>6, <2>1
  <2>2. CASE \A d \in Conn \ {c} : ~Writing(d)
    BY <1>3, <1>5, <1>7, <2>2
  <2> QED BY <2>1, <2>2
<1> QED BY <1>2, <1>9, <1>10, <1>11, <1>12

LEMMA StoreStutters ==
  ASSUME CalmInv, CalmInv', NEW c \in Conn, Still(c), UNCHANGED env, UNCHANGED history,
         Seen(c)' = Seen(c), Writing(c)' <=> Writing(c)
  PROVE  UNCHANGED Snapshots!vars
<1>1. Snap' = Snap
  <2>1. Snap[c] = Seen(c) /\ Snap' = [Snap EXCEPT ![c] = Seen(c)'] /\ Snap = [Snap EXCEPT ![c] = Snap[c]]
    BY StoreMoves DEF Snap
  <2> QED BY <2>1
<1>2. Writer' = Writer
  BY StoreMoves
<1> QED BY <1>1, <1>2 DEF Snapshots!vars

LEMMA BeginsStore ==
  ASSUME CalmInv, CalmInv', NEW c \in Conn, Still(c), UNCHANGED env, UNCHANGED history,
         content[c] = None, pc'[c] = "read", content'[c] = K, pc[c] # "read"
  PROVE  Snapshots!Next
<1>1. ~Writing(c) /\ ~Writing(c)' /\ Seen(c) = None /\ Seen(c)' = K
  BY DEF Writing, Seen
<1>2. Writer' = Writer /\ Snap[c] = None /\ Snap' = [Snap EXCEPT ![c] = K] /\ Writer # c
  BY <1>1, StoreMoves
<1>3. Snapshots!Begin(c)
  BY <1>2 DEF Snapshots!Begin, Snapshots!Current, K
<1> QED BY <1>3 DEF Snapshots!Next, Snapshots!Step

LEMMA Check0Store ==
  ASSUME CalmInv, CalmInv', NEW c \in Conn, Still(c), UNCHANGED env, Check0(c)
  PROVE  Snapshots!Next \/ UNCHANGED Snapshots!vars
<1>1. /\ pc \in [Conn -> PC] /\ content \in [Conn -> Content \cup {None}] /\ content[c] = None /\ pc[c] # "read"
  BY Here DEF Check0, Phase, CalmInv, HeldInv, LockInv, ConnType
<1>2. UNCHANGED history
  BY DEF Check0
<1>3. \/ pc'[c] = "read" /\ content'[c] = K
      \/ pc'[c] # "read" /\ content'[c] = content[c]
  BY <1>1 DEF Check0, Begun, K
<1>4. CASE pc'[c] = "read" /\ content'[c] = K
  BY <1>1, <1>2, <1>4, BeginsStore
<1>5. CASE pc'[c] # "read" /\ content'[c] = content[c]
  BY <1>1, <1>2, <1>5, StoreStutters DEF Seen, Writing
<1> QED BY <1>3, <1>4, <1>5

LEMMA RecheckStore ==
  ASSUME CalmInv, CalmInv', NEW c \in Conn, Still(c), UNCHANGED env, Recheck(c)
  PROVE  Snapshots!Next \/ UNCHANGED Snapshots!vars
<1>1. /\ pc \in [Conn -> PC] /\ content \in [Conn -> Content \cup {None}] /\ pc[c] # "read"
  BY DEF Recheck, CalmInv, HeldInv, LockInv, ConnType
<1>2. UNCHANGED history
  BY DEF Recheck
<1>3. \/ content[c] = None /\ pc'[c] = "read" /\ content'[c] = K
      \/ pc'[c] # "read" /\ content'[c] = content[c]
  BY <1>1 DEF Recheck, Begun, K
<1>4. CASE content[c] = None /\ pc'[c] = "read" /\ content'[c] = K
  BY <1>1, <1>2, <1>4, BeginsStore
<1>5. CASE pc'[c] # "read" /\ content'[c] = content[c]
  BY <1>1, <1>2, <1>5, StoreStutters DEF Seen, Writing
<1> QED BY <1>3, <1>4, <1>5

LEMMA EndReadStore ==
  ASSUME CalmInv, CalmInv', NEW c \in Conn, Still(c), UNCHANGED env, EndRead(c)
  PROVE  Snapshots!Next
<1>1. /\ pc \in [Conn -> PC] /\ content \in [Conn -> Content \cup {None}] /\ content[c] # None /\ pc[c] = "read"
  BY Here DEF EndRead, Phase, CalmInv, HeldInv, LockInv, ConnType
<1>2. UNCHANGED history /\ pc'[c] = "idle" /\ content'[c] = None
  BY <1>1 DEF EndRead, Forget
<1>3. ~Writing(c) /\ ~Writing(c)' /\ Seen(c) # None /\ Seen(c)' = None
  BY <1>1, <1>2 DEF Writing, Seen
<1>4. Writer' = Writer /\ Snap[c] # None /\ Snap' = [Snap EXCEPT ![c] = None]
  BY <1>3, StoreMoves
<1>5. Snapshots!End(c)
  BY <1>2, <1>4 DEF Snapshots!End
<1> QED BY <1>5 DEF Snapshots!Next, Snapshots!Step

\* Who may write has the newest content, and nobody else writes.
LEMMA BeginWriteStore ==
  ASSUME CalmInv, CalmInv', NEW c \in Conn, Still(c), UNCHANGED env, BeginWrite(c)
  PROVE  Snapshots!Next
<1>1. /\ pc \in [Conn -> PC] /\ content[c] # None /\ pc[c] = "read" /\ ReadOf(c)
  BY Here DEF BeginWrite, Phase, CalmInv, HeldInv, LockInv, ConnType, DataInv
<1>2. UNCHANGED history /\ pc'[c] = "write" /\ content'[c] = content[c] /\ content[c] = K
  BY <1>1 DEF BeginWrite, HeaderKept, ReadOf
<1>3. ~Writing(c) /\ Writing(c)' /\ Seen(c) = K /\ Seen(c)' = None
  BY <1>1, <1>2 DEF Writing, Seen
<1>4. Writer' = c /\ Writer = None /\ Snap[c] = K /\ Snap' = [Snap EXCEPT ![c] = None]
  BY <1>3, StoreMoves
<1>5. Snapshots!BeginWrite(c)
  BY <1>2, <1>4 DEF Snapshots!BeginWrite, Snapshots!Current, K
<1> QED BY <1>5 DEF Snapshots!Next, Snapshots!Step

LEMMA WalFramesStore ==
  ASSUME CalmInv, CalmInv', NEW c \in Conn, Still(c), UNCHANGED env, WalFrames(c)
  PROVE  Snapshots!Next \/ UNCHANGED Snapshots!vars
<1>1. /\ pc \in [Conn -> PC] /\ content[c] # None /\ pc[c] = "write" /\ content'[c] \in Content \cup {None}
  BY Here DEF WalFrames, Phase, CalmInv, HeldInv, LockInv, ConnType
<1>2. past' = past /\ pc'[c] \in {"walhdr", "rs1", "pick"}
  BY <1>1 DEF WalFrames, Take
<1>3. content'[c] # None
  <2>1. /\ vers + 1 \in 0..MaxVer /\ content[c] \in Content
    BY <1>1, Here, WalAssumption DEF WalFrames, CalmInv, HeldInv, LockInv, SharedType
  <2>2. PICK list \in SUBSET Page :
          content' = [content EXCEPT ![c] = [p \in Page |-> IF p \in list THEN vers + 1 ELSE @[p]]]
    BY DEF WalFrames
  <2>3. content'[c] = [p \in Page |-> IF p \in list THEN vers + 1 ELSE content[c][p]]
    BY <2>2 DEF CalmInv, HeldInv, LockInv, ConnType
  <2>4. content'[c] \in Content
    BY <2>1, <2>3 DEF Content
  <2> QED BY <2>4, Zeros
<1>4. Writing(c) /\ Writing(c)' /\ Seen(c) = None /\ Seen(c)' = None
  BY <1>1, <1>2, <1>3 DEF Writing, Seen
<1>5. \/ pending' = pending
      \/ pending' = pending \cup {<<Len(past), content'[c]>>}
  BY DEF WalFrames
<1>6. CASE pending' = pending
  BY <1>2, <1>4, <1>6, StoreStutters
<1>7. CASE pending' = pending \cup {<<Len(past), content'[c]>>}
  <2>1. Writer = c /\ Writer' = Writer /\ Snap[c] = None /\ Snap' = [Snap EXCEPT ![c] = None]
    BY <1>4, StoreMoves
  <2>2. Snap' = Snap
    BY <2>1 DEF Snap
  <2>3. content'[c] \in Content
    BY <1>1, <1>3
  <2>4. Snapshots!Attempt(c)
    BY <1>2, <1>7, <2>1, <2>2, <2>3 DEF Snapshots!Attempt
  <2> QED BY <2>4 DEF Snapshots!Next, Snapshots!Step
<1> QED BY <1>5, <1>6, <1>7

\* The second copy of the header commits what sqlite3WalFrames was called with.
LEMMA PublishStore ==
  ASSUME CalmInv, CalmInv', NEW c \in Conn, Still(c), UNCHANGED env, Publish(c)
  PROVE  Snapshots!Next
<1>1. /\ pc \in [Conn -> PC] /\ content[c] \in Content /\ content[c] # None /\ pc[c] = "publish" /\ WriteOf(c)
  BY WritesHave, Zeros DEF Publish, CalmInv, HeldInv, LockInv, ConnType
<1>2. Writing(c) /\ <<Len(past), content[c]>> \in pending
  BY <1>1 DEF WriteOf, Writing
<1>3. /\ past' = Append(past, content[c]) /\ pending' = (IF env.full THEN {} ELSE pending)
      /\ pc'[c] = "read" /\ content'[c] = content[c]
  BY <1>1 DEF Publish
<1>4. ~Writing(c)' /\ Seen(c)' = content[c]
  BY <1>3 DEF Writing, Seen
<1>5. Writer = c /\ Writer' = None /\ Snap' = [Snap EXCEPT ![c] = content[c]]
  BY <1>2, <1>4, StoreMoves
<1>6. Snapshots!Commit(c)
  BY <1>1, <1>2, <1>3, <1>5 DEF Snapshots!Commit
<1> QED BY <1>6 DEF Snapshots!Next, Snapshots!Step

LEMMA RollbackStore ==
  ASSUME CalmInv, CalmInv', NEW c \in Conn, Still(c), UNCHANGED env, Rollback(c)
  PROVE  Snapshots!Next
<1>1. /\ pc \in [Conn -> PC] /\ content \in [Conn -> Content \cup {None}] /\ content[c] # None /\ pc[c] \in {"write", "abort"}
  BY Here DEF Rollback, Phase, CalmInv, HeldInv, LockInv, ConnType
<1>2. UNCHANGED history /\ pc'[c] = "read" /\ content'[c] = K
  BY <1>1 DEF Rollback, K
<1>3. Writing(c) /\ ~Writing(c)' /\ Seen(c)' = K
  BY <1>1, <1>2 DEF Writing, Seen
<1>4. Writer = c /\ Writer' = None /\ Snap' = [Snap EXCEPT ![c] = K]
  BY <1>3, StoreMoves
<1>5. Snapshots!Rollback(c)
  BY <1>2, <1>4 DEF Snapshots!Rollback, Snapshots!Current, K
<1> QED BY <1>5 DEF Snapshots!Next, Snapshots!Step

LEMMA CrashStore ==
  ASSUME CalmInv, CalmInv', NEW c \in Conn, Still(c), UNCHANGED env, Crash(c)
  PROVE  Snapshots!Next
<1>1. pc \in [Conn -> PC] /\ content \in [Conn -> Content \cup {None}]
  BY DEF CalmInv, HeldInv, LockInv, ConnType
<1>2. UNCHANGED history /\ pc'[c] = "idle" /\ content'[c] = None
  BY <1>1 DEF Crash, Forget
<1>3. ~Writing(c)' /\ Seen(c)' = None
  BY <1>2 DEF Writing, Seen
<1>4. Snap' = [Snap EXCEPT ![c] = None] /\ Writer' = (IF Writer = c THEN None ELSE Writer)
  BY <1>3, StoreMoves
<1>5. /\ Snap' = [d \in Conn |-> IF d \in {c} THEN None ELSE Snap[d]]
      /\ Writer' = IF Writer \in {c} THEN None ELSE Writer
  BY <1>4 DEF Snap
<1>6. Snapshots!Crash({c})
  BY <1>2, <1>5 DEF Snapshots!Crash
<1> QED BY <1>6 DEF Snapshots!Next, Snapshots!Step

LEMMA StoreNext ==
  ASSUME CalmInv, CalmInv', NEW c \in Conn, Calm(c), Still(c)
  PROVE  Snapshots!Next \/ UNCHANGED Snapshots!vars
<1>0. /\ LockInv /\ StepOf(c) /\ UNCHANGED env
      /\ pc \in [Conn -> PC] /\ content \in [Conn -> Content \cup {None}] /\ HeldSlot(c) /\ Phase(c)
  BY Here DEF CalmInv, HeldInv, LockInv, ConnType, Calm
<1>1. CASE ReadHdr(c)
  <2>1. /\ UNCHANGED history /\ content'[c] = content[c]
        /\ pc[c] # "read" /\ pc'[c] # "read"
    BY <1>0, <1>1 DEF ReadHdr, HeadIsGood
  <2> QED BY <1>0, <2>1, StoreStutters DEF Seen, Writing
<1>2. CASE Choose(c)
  <2>1. /\ UNCHANGED history /\ content'[c] = content[c]
        /\ pc[c] # "read" /\ pc'[c] # "read"
    BY <1>0, <1>2 DEF Choose
  <2> QED BY <1>0, <2>1, StoreStutters DEF Seen, Writing
<1>3. CASE Lock0(c)
  <2>1. /\ UNCHANGED history /\ content'[c] = content[c]
        /\ pc[c] # "read" /\ pc'[c] # "read"
    BY <1>0, <1>3 DEF Lock0, CanShare
  <2> QED BY <1>0, <2>1, StoreStutters DEF Seen, Writing
<1>4. CASE Check0(c)
  BY <1>0, <1>4, Check0Store DEF Calm
<1>5. CASE Pick(c)
  <2>1. /\ UNCHANGED history /\ content'[c] = content[c]
        /\ pc[c] # "read" /\ pc'[c] # "read"
    BY <1>0, <1>5 DEF Pick, Take
  <2> QED BY <1>0, <2>1, StoreStutters DEF Seen, Writing
<1>6. CASE SetMark(c)
  <2>1. /\ UNCHANGED history /\ content'[c] = content[c]
        /\ pc[c] # "read" /\ pc'[c] # "read"
    BY <1>0, <1>6 DEF SetMark, Release
  <2> QED BY <1>0, <2>1, StoreStutters DEF Seen, Writing
<1>7. CASE Share(c)
  <2>1. /\ UNCHANGED history /\ content'[c] = content[c]
        /\ pc[c] # "read" /\ pc'[c] # "read"
    BY <1>0, <1>7 DEF Share, CanShare
  <2> QED BY <1>0, <2>1, StoreStutters DEF Seen, Writing
<1>8. CASE Recheck(c)
  BY <1>0, <1>8, RecheckStore DEF Calm
<1>9. CASE EndRead(c)
  BY <1>0, <1>9, EndReadStore DEF Calm
<1>10. CASE RecoverLock(c)
  <2>1. /\ UNCHANGED history /\ content'[c] = content[c]
        /\ pc[c] # "read" /\ pc'[c] # "read"
    BY <1>0, <1>10 DEF RecoverLock, Take, CanExcl, RecoverLocks
  <2> QED BY <1>0, <2>1, StoreStutters DEF Seen, Writing
<1>11. CASE Rec1(c)
  <2>1. /\ UNCHANGED history /\ content'[c] = content[c]
        /\ pc[c] # "read" /\ pc'[c] # "read"
    BY <1>0, <1>11 DEF Rec1
  <2> QED BY <1>0, <2>1, StoreStutters DEF Seen, Writing
<1>12. CASE Rec2(c)
  <2>1. past' = past /\ pending' = pending
    BY <1>0, <1>12, NothingToRecover DEF Rec2, CalmInv, HeldInv, HeadInv, HeadOf, Unborn
  <2>2. content'[c] = content[c] /\ pc[c] # "read" /\ pc'[c] # "read"
    BY <1>0, <1>12 DEF Rec2
  <2> QED BY <1>0, <2>1, <2>2, StoreStutters DEF Seen, Writing
<1>13. CASE Rec3(c)
  <2>1. /\ UNCHANGED history /\ content'[c] = content[c]
        /\ pc[c] # "read" /\ pc'[c] # "read"
    BY <1>0, <1>13 DEF Rec3
  <2> QED BY <1>0, <2>1, StoreStutters DEF Seen, Writing
<1>14. CASE BeginWrite(c)
  BY <1>0, <1>14, BeginWriteStore DEF Calm
<1>15. CASE WalFrames(c)
  BY <1>0, <1>15, WalFramesStore DEF Calm
<1>16. CASE Restart1(c)
  <2>1. /\ UNCHANGED history /\ content'[c] = content[c]
        /\ pc[c] # "read" /\ pc'[c] # "read"
    BY <1>0, <1>16 DEF Restart1
  <2> QED BY <1>0, <2>1, StoreStutters DEF Seen, Writing
<1>17. CASE Restart2(c)
  <2>1. /\ UNCHANGED history /\ content'[c] = content[c]
        /\ pc[c] # "read" /\ pc'[c] # "read"
    BY <1>0, <1>17 DEF Restart2
  <2> QED BY <1>0, <2>1, StoreStutters DEF Seen, Writing
<1>18. CASE Restart3(c)
  <2>1. /\ UNCHANGED history /\ content'[c] = content[c]
        /\ pc[c] # "read" /\ pc'[c] # "read"
    BY <1>0, <1>18 DEF Restart3, ResetInfo, Release
  <2> QED BY <1>0, <2>1, StoreStutters DEF Seen, Writing
<1>19. CASE WalHdr(c)
  <2>1. /\ UNCHANGED history /\ content'[c] = content[c]
        /\ pc[c] # "read" /\ pc'[c] # "read"
    BY <1>0, <1>19 DEF WalHdr
  <2> QED BY <1>0, <2>1, StoreStutters DEF Seen, Writing
<1>20. CASE SyncHdr(c)
  <2>1. /\ UNCHANGED history /\ content'[c] = content[c]
        /\ pc[c] # "read" /\ pc'[c] # "read"
    BY <1>0, <1>20 DEF SyncHdr, SyncWal
  <2> QED BY <1>0, <2>1, StoreStutters DEF Seen, Writing
<1>21. CASE WriteFrame(c)
  <2>1. /\ UNCHANGED history /\ content'[c] = content[c]
        /\ pc[c] # "read" /\ pc'[c] # "read"
    BY <1>0, <1>21 DEF WriteFrame
  <2> QED BY <1>0, <2>1, StoreStutters DEF Seen, Writing
<1>22. CASE Recksum(c)
  <2>1. /\ UNCHANGED history /\ content'[c] = content[c]
        /\ pc[c] # "read" /\ pc'[c] # "read"
    BY <1>0, <1>22 DEF Recksum
  <2> QED BY <1>0, <2>1, StoreStutters DEF Seen, Writing
<1>23. CASE SyncCommit(c)
  <2>1. /\ UNCHANGED history /\ content'[c] = content[c]
        /\ pc[c] # "read" /\ pc'[c] # "read"
    BY <1>0, <1>23 DEF SyncCommit, SyncWal
  <2> QED BY <1>0, <2>1, StoreStutters DEF Seen, Writing
<1>24. CASE Index(c)
  <2>1. /\ UNCHANGED history /\ content'[c] = content[c]
        /\ pc[c] # "read" /\ pc'[c] # "read"
    BY <1>0, <1>24 DEF Index
  <2> QED BY <1>0, <2>1, StoreStutters DEF Seen, Writing
<1>25. CASE Publish(c)
  BY <1>0, <1>25, PublishStore DEF Calm
<1>26. CASE WriteFails(c)
  <2>1. /\ UNCHANGED history /\ content'[c] = content[c]
        /\ pc[c] # "read" /\ pc'[c] # "read"
    BY <1>0, <1>26 DEF WriteFails
  <2> QED BY <1>0, <2>1, StoreStutters DEF Seen, Writing
<1>27. CASE Rollback(c)
  BY <1>0, <1>27, RollbackStore DEF Calm
<1>28. CASE Checkpoint(c)
  <2>1. /\ UNCHANGED history /\ content'[c] = content[c]
        /\ pc[c] # "read" /\ pc'[c] # "read"
    BY <1>0, <1>28 DEF Checkpoint, Take, CanExcl
  <2> QED BY <1>0, <2>1, StoreStutters DEF Seen, Writing
<1>29. CASE CkptWriteLock(c)
  <2>1. /\ UNCHANGED history /\ content'[c] = content[c]
        /\ pc[c] # "read" /\ pc'[c] # "read"
    BY <1>0, <1>29 DEF CkptWriteLock, Take, CanExcl
  <2> QED BY <1>0, <2>1, StoreStutters DEF Seen, Writing
<1>30. CASE CkptStart(c)
  <2>1. /\ UNCHANGED history /\ content'[c] = content[c]
        /\ pc[c] # "read" /\ pc'[c] # "read"
    BY <1>0, <1>30 DEF CkptStart
  <2> QED BY <1>0, <2>1, StoreStutters DEF Seen, Writing
<1>31. CASE CkptMark(c)
  <2>1. /\ UNCHANGED history /\ content'[c] = content[c]
        /\ pc[c] # "read" /\ pc'[c] # "read"
    BY <1>0, <1>31 DEF CkptMark, NextMark
  <2> QED BY <1>0, <2>1, StoreStutters DEF Seen, Writing
<1>32. CASE CkptLockMark(c)
  <2>1. /\ UNCHANGED history /\ content'[c] = content[c]
        /\ pc[c] # "read" /\ pc'[c] # "read"
    BY <1>0, <1>32 DEF CkptLockMark, NextMark, CanExcl
  <2> QED BY <1>0, <2>1, StoreStutters DEF Seen, Writing
<1>33. CASE CkptLock0(c)
  <2>1. /\ UNCHANGED history /\ content'[c] = content[c]
        /\ pc[c] # "read" /\ pc'[c] # "read"
    BY <1>0, <1>33 DEF CkptLock0, Take, CanExcl
  <2> QED BY <1>0, <2>1, StoreStutters DEF Seen, Writing
<1>34. CASE CkptSync(c)
  <2>1. /\ UNCHANGED history /\ content'[c] = content[c]
        /\ pc[c] # "read" /\ pc'[c] # "read"
    BY <1>0, <1>34 DEF CkptSync, SyncWal
  <2> QED BY <1>0, <2>1, StoreStutters DEF Seen, Writing
<1>35. CASE CkptCopy(c)
  <2>1. /\ UNCHANGED history /\ content'[c] = content[c]
        /\ pc[c] # "read" /\ pc'[c] # "read"
    BY <1>0, <1>35 DEF CkptCopy
  <2> QED BY <1>0, <2>1, StoreStutters DEF Seen, Writing
<1>36. CASE CkptDone(c)
  <2>1. /\ UNCHANGED history /\ content'[c] = content[c]
        /\ pc[c] # "read" /\ pc'[c] # "read"
    BY <1>0, <1>36 DEF CkptDone, Release
  <2> QED BY <1>0, <2>1, StoreStutters DEF Seen, Writing
<1>37. CASE CkptEnd(c)
  <2>1. /\ UNCHANGED history /\ content'[c] = content[c]
        /\ pc[c] # "read" /\ pc'[c] # "read"
    BY <1>0, <1>37 DEF CkptEnd, Take, CanExcl
  <2> QED BY <1>0, <2>1, StoreStutters DEF Seen, Writing
<1>38. CASE CkptTruncate(c)
  <2>1. /\ UNCHANGED history /\ content'[c] = content[c]
        /\ pc[c] # "read" /\ pc'[c] # "read"
    BY <1>0, <1>38 DEF CkptTruncate, Release
  <2> QED BY <1>0, <2>1, StoreStutters DEF Seen, Writing
<1>39. CASE CkptQuit(c)
  <2>1. /\ UNCHANGED history /\ content'[c] = content[c]
        /\ pc[c] # "read" /\ pc'[c] # "read"
    BY <1>0, <1>39 DEF CkptQuit, Forget, Phase
  <2> QED BY <1>0, <2>1, StoreStutters DEF Seen, Writing
<1>40. CASE Crash(c)
  BY <1>0, <1>40, CrashStore DEF Calm
<1> QED BY <1>0, <1>1, <1>2, <1>3, <1>4, <1>5, <1>6, <1>7, <1>8, <1>9, <1>10, <1>11, <1>12, <1>13, <1>14, <1>15, <1>16, <1>17, <1>18, <1>19, <1>20, <1>21, <1>22, <1>23, <1>24, <1>25, <1>26, <1>27, <1>28, <1>29, <1>30, <1>31, <1>32, <1>33, <1>34, <1>35, <1>36, <1>37, <1>38, <1>39, <1>40 DEF StepOf

LEMMA StoreInit ==
  ASSUME Init
  PROVE  Snapshots!Init
<1>1. LockInv /\ env \in Environments
  BY HeldInit DEF HeldInv, LockInv, SharedType
<1>2. /\ \A c \in Conn : pc[c] = "idle" /\ content[c] = None
      /\ past = <<Blank>> /\ pending = {}
  BY DEF Init, Blank
<1>3. Snap = [c \in Conn |-> None]
  BY <1>2 DEF Snap
<1>4. Writer = None
  BY <1>1, <1>2, WriterNone DEF Writing
<1>5. env.full \in BOOLEAN /\ Blank \in Content
  BY <1>1, WalAssumption DEF Blank, Content
<1>6. past \in [1..1 -> Content]
  BY <1>2, <1>5
<1> QED BY <1>2, <1>3, <1>4, <1>5, <1>6 DEF Snapshots!Init

\* ImplementsSnapshotStore for any number of connections, pages and frames: readers
\* that each keep one committed content, one writer at a time who starts from the
\* newest, and commits in the order of their headers.
THEOREM LogIsSnapshotStore == CalmSpec => ImplementsSnapshotStore
<1>1. Init => Snapshots!Init
  BY StoreInit
<1>2. CalmInv /\ CalmInv' /\ [Next /\ ~Disturbed]_vars => [Snapshots!Next]_Snapshots!vars
  <2> SUFFICES ASSUME CalmInv, CalmInv', [Next /\ ~Disturbed]_vars
               PROVE  Snapshots!Next \/ UNCHANGED Snapshots!vars
    OBVIOUS
  <2>1. CASE UNCHANGED vars
    <3>1. Snap' = Snap
      BY <2>1 DEF vars, Snap, View, FindFrame
    <3>2. Writer' = Writer
      BY <2>1 DEF vars, Writer, IsWriter
    <3> QED BY <2>1, <3>1, <3>2 DEF vars, Snapshots!vars
  <2>2. CASE Next /\ ~Disturbed
    <3>1. PICK c \in Conn : Calm(c)
      BY <2>2, CalmSteps DEF CalmInv, HeldInv, LockInv, SharedType
    <3>2. Still(c)
      BY <3>1, HeldNext DEF CalmInv
    <3> QED BY <3>1, <3>2, StoreNext
  <2> QED BY <2>1, <2>2
<1> QED BY <1>1, <1>2, CalmInvariant, PTL DEF CalmSpec, ImplementsSnapshotStore, Snapshots!Spec

(***************************************************************************)
(* Surroundings in which nothing disturbs the log, with every step of it.  *)
(***************************************************************************)
Orderly == ~env.losses /\ env.crashes = {} /\ "PASSIVE" \notin env.modes
Waiting == \A c \in Conn : ck[c] = NoCk \/ ck[c].mode # "PASSIVE"

LEMMA OrderlyCalm ==
  ASSUME CalmInv, Orderly, Waiting, Next
  PROVE  ~Disturbed
<1>1. LockInv /\ env \in Environments
  BY DEF CalmInv, HeldInv, LockInv, SharedType
<1>2. ~PowerLoss
  BY DEF PowerLoss, Orderly
<1>3. \A c \in env.conns : ~Crash(c)
  BY DEF Crash, Orderly
<1>4. ASSUME NEW c \in env.conns, NEW d \in Conn, Restart2(c), pc[d] = "ckinfo"
      PROVE  FALSE
  <2>1. c \in Conn /\ pc[c] = "rs2" /\ c # d
    BY <1>1, <1>4, WalAssumption DEF Restart2
  <2>2. WRITE \in excl[c]
    BY <1>1, <2>1, Here DEF HeldLocks
  <2>3. ck[d] # NoCk
    BY <1>1, <1>4, Here DEF Phase, NoCk
  <2>4. WRITE \in excl[d]
    BY <1>1, <1>4, <2>3, Here DEF Waiting, HeldLocks, CkptLocks
  <2> QED BY <1>1, <2>1, <2>2, <2>4, Alone
<1> QED BY <1>2, <1>3, <1>4 DEF Disturbed

LEMMA WaitingKept ==
  ASSUME CalmInv, Orderly, Waiting, NEW c \in Conn, Calm(c), Still(c)
  PROVE  Waiting'
<1>0. /\ StepOf(c) /\ ck \in [Conn -> Ck] /\ Phase(c) /\ NReader # 0 /\ 0 \notin Marks
      /\ ck[c] = NoCk \/ ck[c].mode # "PASSIVE"
  BY Here, Numbers, Locks DEF CalmInv, HeldInv, LockInv, ConnType, Calm, Waiting
<1> SUFFICES ck'[c] = NoCk \/ ck'[c].mode # "PASSIVE"
  BY DEF Still, Waiting
<1>1. CASE ReadHdr(c)
  BY <1>0, <1>1 DEF ReadHdr
<1>2. CASE Choose(c)
  BY <1>0, <1>2 DEF Choose
<1>3. CASE Lock0(c)
  BY <1>0, <1>3 DEF Lock0
<1>4. CASE Check0(c)
  BY <1>0, <1>4 DEF Check0
<1>5. CASE Pick(c)
  BY <1>0, <1>5 DEF Pick
<1>6. CASE SetMark(c)
  BY <1>0, <1>6 DEF SetMark
<1>7. CASE Share(c)
  BY <1>0, <1>7 DEF Share
<1>8. CASE Recheck(c)
  BY <1>0, <1>8 DEF Recheck
<1>9. CASE EndRead(c)
  BY <1>0, <1>9 DEF EndRead, Forget
<1>10. CASE RecoverLock(c)
  BY <1>0, <1>10 DEF RecoverLock
<1>11. CASE Rec1(c)
  BY <1>0, <1>11 DEF Rec1
<1>12. CASE Rec2(c)
  BY <1>0, <1>12 DEF Rec2
<1>13. CASE Rec3(c)
  BY <1>0, <1>13 DEF Rec3
<1>14. CASE BeginWrite(c)
  BY <1>0, <1>14 DEF BeginWrite
<1>15. CASE WalFrames(c)
  BY <1>0, <1>15 DEF WalFrames
<1>16. CASE Restart1(c)
  BY <1>0, <1>16 DEF Restart1
<1>17. CASE Restart2(c)
  BY <1>0, <1>17 DEF Restart2
<1>18. CASE Restart3(c)
  BY <1>0, <1>18 DEF Restart3
<1>19. CASE WalHdr(c)
  BY <1>0, <1>19 DEF WalHdr
<1>20. CASE SyncHdr(c)
  BY <1>0, <1>20 DEF SyncHdr
<1>21. CASE WriteFrame(c)
  BY <1>0, <1>21 DEF WriteFrame
<1>22. CASE Recksum(c)
  BY <1>0, <1>22 DEF Recksum
<1>23. CASE SyncCommit(c)
  BY <1>0, <1>23 DEF SyncCommit
<1>24. CASE Index(c)
  BY <1>0, <1>24 DEF Index
<1>25. CASE Publish(c)
  BY <1>0, <1>25 DEF Publish
<1>26. CASE WriteFails(c)
  BY <1>0, <1>26 DEF WriteFails
<1>27. CASE Rollback(c)
  BY <1>0, <1>27 DEF Rollback
<1>28. CASE Checkpoint(c)
  <2>1. PICK m \in env.modes : ck' = [ck EXCEPT ![c] = [@ EXCEPT !.mode = m, !.at = 1]]
    BY <1>28 DEF Checkpoint
  <2>2. m # "PASSIVE" /\ ck[c] \in Ck
    BY <1>0 DEF Orderly
  <2> QED BY <1>0, <2>1, <2>2 DEF Ck
<1>29. CASE CkptWriteLock(c)
  BY <1>0, <1>29 DEF CkptWriteLock
<1>30. CASE CkptStart(c)
  <2>1. ck[c] \in Ck /\ ck[c].at # 0
    BY <1>0, <1>30 DEF CkptStart, Phase
  <2>2. CASE ck' = ck
    BY <1>0, <2>2
  <2>3. ASSUME NEW s, NEW t, ck' = [ck EXCEPT ![c] = [@ EXCEPT !.safe = s, !.iter = t]]
        PROVE  ck'[c].mode = ck[c].mode
    BY <1>0, <2>1, <2>3 DEF Ck
  <2>4. ck' = ck \/ ck'[c].mode = ck[c].mode
    BY <1>30, <2>3 DEF CkptStart
  <2> QED BY <1>0, <2>1, <2>2, <2>4 DEF NoCk
<1>31. CASE CkptMark(c)
  <2>1. ck[c] \in Ck /\ ck'[c].mode = ck[c].mode /\ ck[c].at # 0
    BY <1>0, <1>31 DEF CkptMark, NextMark, Phase, Ck
  <2> QED BY <1>0, <2>1 DEF NoCk
<1>32. CASE CkptLockMark(c)
  <2>1. ck[c] \in Ck /\ ck'[c].mode = ck[c].mode /\ ck[c].at # 0
    BY ZenonT(60), <1>0, <1>32 DEF CkptLockMark, NextMark, Phase, Ck, SafeBelow
  <2> QED BY <1>0, <2>1 DEF NoCk
<1>33. CASE CkptLock0(c)
  <2>1. ck[c] \in Ck /\ ck'[c].mode = ck[c].mode /\ ck[c].at # 0
    BY <1>0, <1>33 DEF CkptLock0, NextMark, Phase, Ck
  <2> QED BY <1>0, <2>1 DEF NoCk
<1>34. CASE CkptSync(c)
  BY <1>0, <1>34 DEF CkptSync
<1>35. CASE CkptCopy(c)
  <2>1. ck[c] \in Ck /\ ck'[c].mode = ck[c].mode /\ ck[c].at # 0
    BY <1>0, <1>35 DEF CkptCopy, NextMark, Phase, Ck
  <2> QED BY <1>0, <2>1 DEF NoCk
<1>36. CASE CkptDone(c)
  BY <1>0, <1>36 DEF CkptDone
<1>37. CASE CkptEnd(c)
  BY <1>0, <1>37 DEF CkptEnd
<1>38. CASE CkptTruncate(c)
  BY <1>0, <1>38 DEF CkptTruncate
<1>39. CASE CkptQuit(c)
  BY <1>0, <1>39 DEF CkptQuit, Forget
<1>40. CASE Crash(c)
  BY <1>0, <1>40 DEF Crash, Forget
<1> QED BY <1>0, <1>1, <1>2, <1>3, <1>4, <1>5, <1>6, <1>7, <1>8, <1>9, <1>10, <1>11, <1>12, <1>13, <1>14, <1>15, <1>16, <1>17, <1>18, <1>19, <1>20, <1>21, <1>22, <1>23, <1>24, <1>25, <1>26, <1>27, <1>28, <1>29, <1>30, <1>31, <1>32, <1>33, <1>34, <1>35, <1>36, <1>37, <1>38, <1>39, <1>40 DEF StepOf

\* With checkpoints that wait for their locks (FULL, TRUNCATE), no process that ends
\* and no loss of power, every history of the log is a calm one, so that all of the
\* above is about Spec itself.
THEOREM OrderlyIsCalm == Spec /\ Orderly => CalmSpec
<1>1. Init => CalmInv /\ Waiting
  <2>1. Init => Waiting
    BY DEF Init, Waiting
  <2> QED BY <2>1, HeldInit, DataInit DEF CalmInv
<1>2. CalmInv /\ Orderly /\ Waiting /\ [Next]_vars => (CalmInv /\ Orderly /\ Waiting)' /\ [Next /\ ~Disturbed]_vars
  <2> SUFFICES ASSUME CalmInv, Orderly, Waiting, [Next]_vars
               PROVE  (CalmInv /\ Orderly /\ Waiting)' /\ [Next /\ ~Disturbed]_vars
    OBVIOUS
  <2>1. [Next /\ ~Disturbed]_vars
    BY OrderlyCalm
  <2>2. CalmInv'
    BY <2>1, CalmStep
  <2>3. Orderly'
    BY DEF Next, vars, Orderly
  <2>4. Waiting'
    <3>1. CASE UNCHANGED vars
      BY <3>1 DEF vars, Waiting
    <3>2. CASE Next /\ ~Disturbed
      <4>1. PICK c \in Conn : Calm(c)
        BY <3>2, CalmSteps DEF CalmInv, HeldInv, LockInv, SharedType
      <4>2. Still(c)
        BY <4>1, HeldNext DEF CalmInv
      <4> QED BY <4>1, <4>2, WaitingKept
    <3> QED BY <2>1, <3>1, <3>2
  <2> QED BY <2>1, <2>2, <2>3, <2>4
<1> QED BY <1>1, <1>2, PTL DEF Spec, CalmSpec
=============================================================================
