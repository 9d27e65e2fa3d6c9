----------------------- MODULE RollbackJournalProofs -----------------------
(***************************************************************************)
(* Proofs about RollbackJournal: for any number of connections, pages and  *)
(* slots of the journal, whatever is spilled, whatever write or sync fails *)
(* and wherever a process ends, the files stand for the newest commit,     *)
(* readers see it, and a page is overwritten only when a rollback can put  *)
(* it back.  OrderlyIsCalm gives surroundings whose every history is one   *)
(* of those looked at here.                                                *)
(*                                                                         *)
(* The invariant has three parts, each proved with the help of the others: *)
(* who holds which lock at which place of the code (LockInv), what the     *)
(* slots of a writer's journal hold (JournalInv), and what the database    *)
(* file, the page caches and the history of commits have to do with each   *)
(* other and with the journal (DataInv).                                   *)
(***************************************************************************)
EXTENDS RollbackJournal, FiniteSetTheorems, WellFoundedInduction, TLAPS

(***************************************************************************)
(* The steps left out: power is lost; a thread finds a hot journal while   *)
(* another thread of its process has a lock, and takes it for a writer     *)
(* (the code then reads the database as it is); a commit fails once its    *)
(* journal is synced, right below the header an older transaction left     *)
(* (the code then plays back records of that one).  After the first the    *)
(* journal may hold anything; the others are where the statements of the   *)
(* source do not hold.                                                     *)
(***************************************************************************)
Disturbed ==
  \/ PowerLoss
  \/ \E c \in env.conns : HotReserved(c) /\ Hot /\ CheckReservedLock(c)
  \/ \E c \in env.conns : /\ CommitFails(c) /\ tx[c].off < tx[c].hdr
                          /\ tx[c].hdr \in Slot /\ jrnl.at[tx[c].hdr].kind = "hdr"
\* The pager without them.
CalmSpec == Init /\ [][Next /\ ~Disturbed]_vars

\* The newest commit and its number; who is in a write transaction; what slot s holds.
K == past[Len(past)]
N == Len(past)
Writer(c) == tx[c].ver # 0
At(s) == jrnl.at[s]

\* The places of the code.
Sharing == {"hot1", "hot2", "hot3", "hotlock", "validate", "read"}
Waiting == Sharing \cup {"idle", "backoff", "hotopen", "error"}
Opening == {"write", "excl"}
Syncing == {"next", "fullsync", "nrec", "jsync", "newhdr"}
Storing == Syncing \cup {"store", "dbsync"}
Ending == {"play", "final", "finsync"}
PC == Waiting \cup Opening \cup Storing \cup Ending
Goal == {"none", "spill", "commit", "rollback", "hot"}

\* The types, tighter than TypeOK.
PageOK == [ver : 0..MaxVer, ctr : 0..MaxVer]
Book == [Page -> PageOK]
HeaderOK == [kind : {"hdr"}, magic : BOOLEAN, n : 0..MaxSlot, salt : Nat \X Nat, size : 0..NPage]
RecordOK == [kind : {"rec"}, pg : Page, val : PageOK, salt : Nat \X Nat]
SlotOK == {Nothing} \cup HeaderOK \cup RecordOK
Tx == [ver : 0..MaxVer, dirty : SUBSET Page, needSync : SUBSET Page, inJournal : SUBSET Page,
       size : 0..NPage, hdr : 0..MaxSlot + 1, off : 0..MaxSlot, dbmod : BOOLEAN,
       goal : Goal, todo : SUBSET Nat]

JrnlOK ==
  /\ jrnl \in [on : BOOLEAN, at : [Slot -> SlotOK]]
  /\ jpend \in [Slot -> SUBSET (SlotOK \cup {Torn})] /\ \A s \in Slot : At(s) \in jpend[s]
DbOK ==
  /\ db \in Book
  /\ dpend \in [Page -> SUBSET (PageOK \cup {TornPage})] /\ \A p \in Page : db[p] \in dpend[p]

SharedOK ==
  /\ env \in Environments
  /\ JrnlOK /\ DbOK
  /\ cache \in [Conn -> Book] /\ vers \in [Conn -> 0..MaxVer]
  /\ draw \in 1..MaxVer
  /\ past \in Seq(Book) /\ past # <<>>
Types ==
  /\ SharedOK
  /\ mode \in [Conn -> 0..4] /\ pc \in [Conn -> PC] /\ tx \in [Conn -> Tx]

\* The lock k that is held, and the transaction t there is, at place l of the code.
Holds(l, k, t) ==
  /\ l = "idle" => k = 0
  /\ l \in Sharing => k = 1
  /\ l = "backoff" => k \in {1, 3}
  /\ l = "error" => k \in 1..4
  /\ l \in {"hotopen"} \cup Storing => k = 4
  /\ l \in Opening \cup Ending => k \in 2..4
  /\ t.dbmod \/ (t.goal \in {"commit", "hot"} /\ l \notin Opening) => k = 4
\* The transaction t there is at place l.
Does(l, t) ==
  /\ l \in Waiting => t = NoTx
  /\ l \in Opening \cup Storing => t.ver # 0
  /\ l \in Ending => (t.ver # 0 <=> t.goal # "hot")
  /\ t.ver # 0 /\ l # "write" => t.hdr # 0
  /\ l = "write" => t.goal = "none" /\ t.todo = {}
  /\ l \in {"excl", "store"} \cup (Syncing \ {"newhdr"}) => t.goal \in {"commit", "spill"}
  /\ l = "newhdr" => t.goal = "spill"
  /\ l = "dbsync" => t.goal = "commit"
  /\ l = "play" => t.goal \in {"rollback", "hot"}
  /\ l \in {"final", "finsync"} => t.goal \in {"commit", "rollback", "hot"}
  /\ t.goal \in {"commit", "spill"} => t.todo \subseteq Page
  /\ l \in {"excl", "store"} \cup Syncing => t.todo # {}
  /\ l \in {"dbsync", "final", "finsync"} => t.todo = {}

\* Nobody else has a lock.
Lone(c) == \A d \in Conn \ {c} : mode[d] = 0
LockAt(c) ==
  /\ Holds(pc[c], mode[c], tx[c]) /\ Does(pc[c], tx[c])
  /\ mode[c] = 4 => Lone(c)
  /\ Writer(c) => tx[c].ver = draw

OneWriter == \A c, d \in Conn : Writer(c) /\ Writer(d) => c = d

LockInv == Types /\ OneWriter /\ \A c \in Conn : LockAt(c)

(***************************************************************************)
(* The journal.                                                            *)
(***************************************************************************)
\* A header, a record of transaction t.
OwnHeader(t, s) == At(s).kind = "hdr" /\ At(s).salt = <<t.ver, s>> /\ At(s).size = t.size
OwnRecord(t, s) == /\ At(s).kind = "rec" /\ At(s).salt[1] = t.ver
                   /\ At(s).pg \in t.inJournal /\ At(s).val = K[At(s).pg]
\* a[1..e - 1] are headers each followed by the records it counts.
Chain(a, e) ==
  /\ e > 1 => a[1].kind = "hdr"
  /\ \A h \in 1..e - 1 :
       /\ a[h].kind \in {"hdr", "rec"}
       /\ a[h].kind = "hdr" =>
            /\ a[h].magic /\ h + a[h].n < e
            /\ \A i \in h + 1..h + a[h].n : a[i].kind = "rec" /\ a[i].salt = a[h].salt
            /\ h + a[h].n + 1 < e => a[h + a[h].n + 1].kind = "hdr"
\* A playback ends at slot s; the last header counts its records.
NoHeader(s) == s \in Slot => ~IsHeader(At(s))
Closed(t) == t.hdr <= t.off /\ At(t.hdr).magic

\* The journal of a writer: its own slots up to t.off, complete and synced below
\* t.hdr, from there on those that no playback reaches yet, or the last header's.
Journal(c) ==
  LET t == tx[c] IN
  /\ t.off >= 1 /\ t.hdr <= t.off + 1 /\ jrnl.on
  /\ \A s \in 1..t.off : OwnHeader(t, s) \/ OwnRecord(t, s)
  /\ Chain(jrnl.at, t.hdr)
  /\ t.hdr <= t.off =>
       /\ At(t.hdr).kind = "hdr"
       /\ At(t.hdr).n = IF At(t.hdr).magic THEN t.off - t.hdr ELSE 0
       /\ \A i \in t.hdr + 1..t.off : At(i).kind = "rec" /\ At(i).salt = At(t.hdr).salt
  /\ NoHeader(IF Closed(t) THEN t.off + 1 ELSE t.hdr)
  /\ \A p \in t.inJournal : p <= t.size /\ \E s \in 1..t.off : At(s).kind = "rec" /\ At(s).pg = p
  /\ \A s \in t.hdr + 1..t.off : At(s).pg \in t.needSync
  /\ \A s \in 1..t.hdr - 1 : jpend[s] = {At(s)}
  /\ t.dbmod <=> t.hdr > 1

\* How far the journal is at each place of the code.
JournalAt(c) ==
  LET t == tx[c] IN
  /\ Closed(t) => pc[c] \in {"jsync", "play", "final"}
  /\ t.hdr = t.off + 1 => pc[c] \in {"newhdr", "store", "dbsync", "play", "final"} /\ t.goal # "none"
                          /\ (pc[c] = "store" => t.goal = "commit")
  /\ pc[c] = "jsync" => Closed(t)
  /\ pc[c] \in {"nrec", "fullsync"} => NoHeader(t.off + 1)
  /\ pc[c] \in {"excl"} \cup (Syncing \ {"newhdr"}) /\ t.goal = "spill" => t.off < MaxSlot
  /\ pc[c] = "newhdr" => t.hdr <= MaxSlot /\ t.hdr = t.off + 1
  /\ pc[c] \in {"store", "dbsync", "final"} /\ t.goal = "commit" => t.hdr = t.off + 1

\* Before its first write a transaction has no journal, and there is none to play.
NotOpened(t) == /\ t.off = 0 /\ t.dirty = {} /\ t.needSync = {} /\ t.inJournal = {} /\ ~t.dbmod
                /\ ~Hot

\* No slot is newer than the newest transaction; those a writer has not reached are older.
Drawn == \A s \in Slot : At(s) # Nothing => At(s).salt[1] <= draw
Stale(t) == \A s \in Slot : s > t.off /\ At(s) # Nothing => At(s).salt[1] < draw
JournalOf(c) ==
  /\ Stale(tx[c])
  /\ tx[c].hdr = 0 => NotOpened(tx[c])
  /\ tx[c].hdr # 0 => Journal(c) /\ JournalAt(c)
JournalInv == Drawn /\ \A c \in Conn : Writer(c) /\ pc[c] # "finsync" => JournalOf(c)

(***************************************************************************)
(* The contents.                                                           *)
(***************************************************************************)
\* The change counter is the number of the commit, and is on page 1 alone.
PastOK == /\ \A i \in 1..Len(past) : past[i][1].ctr = i /\ \A p \in Page \ {1} : past[i][p].ctr = 0
          /\ \A p \in Page \ {1} : db[p].ctr = 0 /\ \A c \in Conn : cache[c][p].ctr = 0
          /\ \A s \in Slot : At(s).kind = "rec" /\ At(s).pg # 1 => At(s).val.ctr = 0
          /\ N <= draw
\* The original of page p is in the synced part of the journal; is yet to be played.
Saved(t, p) == \E s \in 1..t.hdr - 1 : At(s).kind = "rec" /\ At(s).pg = p
Left(t, p) == \E s \in t.todo : At(s).pg = p

\* A transaction that collects its changes, spills some, or writes them all out.
Writes(c) ==
  LET t == tx[c] IN
  /\ \A p \in t.dirty : cache[c][p] # NoPage /\ (p <= t.size => p \in t.inJournal)
  /\ cache[c][1] # NoPage
  /\ vers[c] = db[1].ctr
  /\ \A p \in Page : K[p] # NoPage => db[p] # NoPage
  /\ \A p \in 1..t.size : db[p] = K[p] \/ Saved(t, p)
  /\ \A p \in 1..t.size : p \notin t.inJournal => cache[c][p] \in {NoPage, K[p]}
  /\ \A p \in Page : \/ cache[c][p] \in {NoPage, db[p]}
                     \/ p \in t.dirty /\ (t.goal = "commit" => p \in t.todo)
  /\ t.goal # "commit" \/ pc[c] \in Opening \/ 1 \in t.todo => db[1] = K[1]
  /\ t.goal = "commit" =>
       /\ cache[c][1].ctr = N + 1 /\ 1 \in t.inJournal /\ t.todo \subseteq t.dirty
       /\ pc[c] \in Opening => 1 \in t.todo
       /\ 1 \notin t.todo => db[1] = cache[c][1]
  /\ t.goal = "spill" =>
       \E p \in t.dirty \ {1} : /\ t.todo = {p}
                                /\ pc[c] = "store" => t.dbmod /\ (p <= t.size => Saved(t, p))

\* A commit whose pages are all written, and whose journal is about to be finalized.
Commits(c) ==
  /\ db[1].ctr = N + 1 /\ vers[c] = N + 1
  /\ \A p \in Page : cache[c][p] \in {NoPage, db[p]}
  /\ cache[c][1] # NoPage
  /\ <<N, db>> \in pending
  /\ pc[c] = "final" => \A p \in 1..tx[c].size : db[p] = K[p] \/ Saved(tx[c], p)

\* A rollback that has yet to play the records of t.todo.
PlaysBack(c) ==
  LET t == tx[c] IN
  /\ t.todo \subseteq {s \in 1..t.off : At(s).kind = "rec"}
  /\ \A p \in 1..t.size : db[p] = K[p] \/ \E s \in t.todo : s < t.hdr /\ At(s).pg = p
  /\ \A p \in 1..t.size : cache[c][p] \in {NoPage, K[p]} \/ Left(t, p)
  /\ vers[c] = N \/ Left(t, 1)
  /\ cache[c][1] # NoPage
  /\ t.dbmod => \A p \in Page : p > t.size => db[p] = NoPage

\* A rollback that has played them all.
RolledBack(c) ==
  /\ db = K /\ vers[c] = N /\ cache[c][1] # NoPage
  /\ \A p \in 1..tx[c].size : cache[c][p] \in {NoPage, K[p]}

WriterOf(c) ==
  /\ N < draw /\ tx[c].size = Size(K)
  /\ ~tx[c].dbmod => db = K
  /\ pc[c] \in Opening \cup Storing => Writes(c)
  /\ pc[c] \in {"final", "finsync"} /\ tx[c].goal = "commit" => Commits(c)
  /\ pc[c] = "play" => PlaysBack(c)
  /\ pc[c] \in {"final", "finsync"} /\ tx[c].goal = "rollback" => RolledBack(c)

\* A commit whose process ended when the journal was finalized, before it returned.
Unsettled ==
  /\ \A c \in Conn : pc[c] \in {"idle", "error"}
  /\ <<N, db>> \in pending /\ db[1].ctr = N + 1 /\ N < draw /\ ~Hot

\* A page cache goes with the counter kept beside it, and a reader's with the newest.
Cached(c) ==
  \/ \A p \in Page : cache[c][p] = NoPage
  \/ vers[c] \in 1..N /\ \A p \in Page : cache[c][p] \in {NoPage, past[vers[c]][p]}
Current(c) == /\ vers[c] = N /\ cache[c][1] # NoPage
              /\ \A p \in Page : cache[c][p] \in {NoPage, K[p]}

\* A playback of the journal another one left.
Play == Played(jrnl, 0)
Of(p) == {i \in Play : At(i).pg = p}
PlaysHot(c) ==
  LET t == tx[c] IN
  /\ t.dbmod /\ t.hdr = MaxSlot + 1
  /\ t.off = 0 => ~Hot
  /\ t.todo \subseteq Play
  /\ t.todo # {} => Hot /\ \A p \in Page : cache[c][p] = NoPage
  /\ \A i \in Play, j \in t.todo : i > j => i \in t.todo
  /\ \A p \in Page : db[p] = K[p] \/ (Of(p) # {} /\ Max(Of(p)) \in t.todo)

\* Who does not write: nothing is read beside a hot journal.
OtherOf(c) ==
  /\ ~Writer(c) /\ pc[c] # "error" => Cached(c)
  /\ pc[c] \in {"validate", "read", "finsync"} => ~Hot
  /\ pc[c] = "read" => Current(c)
  /\ tx[c].goal = "hot" => IF pc[c] = "finsync" THEN db = K ELSE PlaysHot(c)

\* The files stand for the newest commit.
DataInv ==
  /\ PastOK
  /\ (\A c \in Conn : ~Writer(c)) => Restored(jrnl, db) = K \/ Unsettled
  /\ \A c \in Conn : Writer(c) => WriterOf(c)
  /\ \A c \in Conn : OtherOf(c)

CalmInv == LockInv /\ JournalInv /\ DataInv

LEMMA LeastOf ==
  ASSUME NEW T, T \subseteq Nat, T # {}
  PROVE  \E x \in T : \A y \in T : x <= y
<1> DEFINE R == {ss \in Nat \X Nat : ss[1] < ss[2]}
<1>1. IsWellFoundedOn(R, Nat)
  BY NatLessThanWellFounded DEF OpToRel
<1>2. \E x \in T : \A y \in T : ~ (<<y, x>> \in R)
  <2> HIDE DEF R
  <2> QED BY <1>1, WFMin
<1>3. \A x \in Nat, y \in Nat : ~ (<<y, x>> \in R) => x <= y
  OBVIOUS
<1> QED BY <1>2, <1>3

LEMMA GreatestOf ==
  ASSUME NEW n \in Nat, NEW T, T \subseteq 0..n, T # {}
  PROVE  \E x \in T : \A y \in T : x >= y
<1> DEFINE U == {n - x : x \in T}
<1>1. U \subseteq Nat /\ U # {}
  <2>1. \A x \in T : n - x \in Nat
    OBVIOUS
  <2> QED BY <2>1
<1>2. PICK u \in U : \A v \in U : u <= v
  <2> HIDE DEF U
  <2> QED BY <1>1, LeastOf
<1>3. PICK x \in T : u = n - x
  OBVIOUS
<1>4. ASSUME NEW y \in T PROVE x >= y
  <2>1. n - y \in U
    OBVIOUS
  <2>2. u <= n - y /\ x \in Nat /\ y \in Nat
    BY <1>2, <2>1
  <2> QED BY <1>3, <2>2
<1> QED BY <1>4

LEMMA MaxOf ==
  ASSUME NEW n \in Nat, NEW T, T \subseteq 0..n, T # {}
  PROVE  Max(T) \in T /\ \A y \in T : y <= Max(T)
<1>1. \E x \in T : \A y \in T : x >= y
  BY GreatestOf
<1> QED BY <1>1 DEF Max

LEMMA MinOf ==
  ASSUME NEW T, T \subseteq Nat, T # {}
  PROVE  Min(T) \in T /\ \A y \in T : Min(T) <= y
<1>1. \E x \in T : \A y \in T : x =< y
  BY LeastOf
<1> QED BY <1>1 DEF Min

(***************************************************************************)
(* What a playback restores: the recursion over the headers of a journal.  *)
(***************************************************************************)
Last(a) == Max({0} \cup {s \in Slot : a[s].kind # "none"})
Starts(a, mine, s) == s <= Last(a) /\ (IsHeader(a[s]) \/ (s = mine /\ a[s].kind = "hdr"))
Count(a, mine, s) == IF a[s].n = 0 /\ s = mine THEN Last(a) - s ELSE a[s].n
Bad(a, mine, s) == {i \in s + 1..Min({s + Count(a, mine, s), Last(a)}) :
                      a[i].kind # "rec" \/ a[i].salt # a[s].salt}
Plays(a, mine, p, s) ==
  IF ~Starts(a, mine, s) THEN {}
  ELSE IF Bad(a, mine, s) # {} THEN s + 1..Min(Bad(a, mine, s)) - 1
  ELSE IF s + Count(a, mine, s) > Last(a) THEN s + 1..Last(a)
  ELSE (s + 1..s + Count(a, mine, s)) \cup p[s + Count(a, mine, s) + 1]
\* The same in the words of Played.
Row(a, mine, play, s) ==
  IF s > Last(a) \/ ~(IsHeader(a[s]) \/ (s = mine /\ a[s].kind = "hdr"))
  THEN {}
  ELSE LET h == a[s]
           n == IF h.n = 0 /\ s = mine THEN Last(a) - s ELSE h.n
           bad == {i \in s + 1..Min({s + n, Last(a)}) : a[i].kind # "rec" \/ a[i].salt # h.salt}
       IN IF bad # {} THEN s + 1..Min(bad) - 1
          ELSE IF s + n > Last(a) THEN s + 1..Last(a)
          ELSE (s + 1..s + n) \cup play[s + n + 1]
Line == 1..MaxSlot + 1

LEMMA Bounds ==
  /\ MaxSlot \in Nat /\ MaxSlot >= 1 /\ NPage \in Nat /\ NPage >= 1 /\ MaxVer \in Nat /\ MaxVer >= 1
  /\ Slot = 1..MaxSlot /\ Page = 1..NPage /\ Slot \subseteq Nat /\ 1 \in Slot /\ 1 \in Page
BY RollbackJournalAssumption DEF Slot, Page

\* The slots of a journal, with what matters to a playback.
Rows(a) == \A s \in Slot : a[s].kind = "hdr" => a[s].n \in Nat

LEMMA LastIs ==
  ASSUME NEW a
  PROVE  /\ Last(a) \in 0..MaxSlot
         /\ \A s \in Slot : s > Last(a) => a[s].kind = "none"
         /\ Last(a) # 0 => a[Last(a)].kind # "none"
<1> DEFINE T == {0} \cup {s \in Slot : a[s].kind # "none"}
<1>1. T \subseteq 0..MaxSlot /\ T # {} /\ MaxSlot \in Nat
  BY Bounds
<1>2. Max(T) \in T /\ \A y \in T : y <= Max(T)
  <2> HIDE DEF T
  <2> QED BY <1>1, MaxOf
<1>3. Last(a) = Max(T)
  BY DEF Last
<1>4. ASSUME NEW s \in Slot, s > Max(T) PROVE a[s].kind = "none"
  <2>1. Max(T) \in Nat /\ s \in Nat
    BY <1>1, <1>2, Bounds
  <2>2. s \notin T
    <3> HIDE DEF T
    <3> QED BY <1>2, <1>4, <2>1
  <2> QED BY <2>2
<1>5. Max(T) \in 0..MaxSlot
  <2> HIDE DEF T
  <2> QED BY <1>1, <1>2
<1>6. Max(T) # 0 => a[Max(T)].kind # "none"
  BY <1>2
<1> HIDE DEF T
<1> QED BY <1>3, <1>4, <1>5, <1>6

\* The play of a header depends on slots behind it only.
LEMMA PlaysBehind ==
  ASSUME NEW a, Rows(a), NEW mine, NEW s \in Line, NEW p, NEW q, \A i \in Line : i > s => p[i] = q[i]
  PROVE  Plays(a, mine, p, s) = Plays(a, mine, q, s)
<1>1. CASE ~Starts(a, mine, s)
  BY <1>1 DEF Plays
<1>2. CASE Starts(a, mine, s) /\ s + Count(a, mine, s) > Last(a)
  BY <1>2 DEF Plays
<1>3. CASE Starts(a, mine, s) /\ ~(s + Count(a, mine, s) > Last(a))
  <2>1. s \in Slot /\ a[s].kind = "hdr" /\ Last(a) \in Nat /\ s <= Last(a) /\ Last(a) <= MaxSlot
    BY <1>3, LastIs, Bounds DEF Starts, Line, IsHeader
  <2>2. Count(a, mine, s) \in Nat
    <3>1. a[s].n \in Nat /\ Last(a) - s \in Nat
      BY <2>1, Bounds DEF Rows
    <3> QED BY <3>1 DEF Count
  <2>3. s + Count(a, mine, s) + 1 \in Line /\ s + Count(a, mine, s) + 1 > s
    BY <1>3, <2>1, <2>2, Bounds DEF Line
  <2> QED BY <2>3 DEF Plays
<1> QED BY <1>1, <1>2, <1>3

LEMMA PlayExists ==
  ASSUME NEW a, Rows(a), NEW mine
  PROVE  \E p : p = [s \in Line |-> Plays(a, mine, p, s)]
<1> DEFINE Upto(k, p) == \A s \in Line : s > MaxSlot + 1 - k => p[s] = Plays(a, mine, p, s)
           Works(k) == \E p : p = [s \in Line |-> p[s]] /\ Upto(k, p)
           T == {k \in 0..MaxSlot + 1 : ~Works(k)}
<1>1. Works(0)
  <2>1. LET p == [s \in Line |-> {}] IN p = [s \in Line |-> p[s]] /\ Upto(0, p)
    BY Bounds DEF Line
  <2> QED BY <2>1
<1>2. ASSUME NEW k \in 0..MaxSlot, Works(k) PROVE Works(k + 1)
  <2>1. PICK p : p = [s \in Line |-> p[s]] /\ Upto(k, p)
    BY <1>2
  <2> DEFINE x == MaxSlot + 1 - k
             q == [s \in Line |-> IF s = x THEN Plays(a, mine, p, x) ELSE p[s]]
  <2>2. x \in Line /\ \A s \in Line : s > MaxSlot + 1 - (k + 1) <=> s = x \/ s > x
    BY Bounds DEF Line
  <2>3. ASSUME NEW s \in Line, s > MaxSlot + 1 - (k + 1) PROVE q[s] = Plays(a, mine, q, s)
    <3>1. \A i \in Line : i > s => p[i] = q[i]
      BY <2>2, <2>3 DEF Line
    <3>2. Plays(a, mine, p, s) = Plays(a, mine, q, s)
      <4> HIDE DEF q
      <4> QED BY <3>1, PlaysBehind
    <3>3. CASE s = x
      BY <3>2, <3>3
    <3>4. CASE s # x
      <4>1. s > x
        BY <2>2, <2>3, <3>4
      <4>2. p[s] = Plays(a, mine, p, s)
        BY <2>1, <4>1
      <4> QED BY <3>2, <3>4, <4>2
    <3> QED BY <3>3, <3>4
  <2>4. q = [s \in Line |-> q[s]]
    OBVIOUS
  <2> HIDE DEF q
  <2> QED BY <2>3, <2>4
<1>3. T = {}
  <2> SUFFICES ASSUME T # {} PROVE FALSE
    OBVIOUS
  <2>1. T \subseteq Nat /\ T \subseteq 0..MaxSlot + 1
    BY Bounds
  <2>2. PICK k \in T : \A j \in T : k <= j
    <3> HIDE DEF T
    <3> QED BY <2>1, LeastOf
  <2>3. k \in 0..MaxSlot + 1 /\ k # 0 /\ ~Works(k)
    <3> HIDE DEF Works
    <3> QED BY <1>1, <2>2
  <2>4. k - 1 \in 0..MaxSlot /\ k - 1 \notin T /\ k - 1 + 1 = k
    BY <2>1, <2>2, <2>3, Bounds
  <2>5. Works(k - 1)
    <3> HIDE DEF Works
    <3> QED BY <2>4, Bounds
  <2>6. Works(k - 1 + 1)
    <3> HIDE DEF Works
    <3> QED BY <1>2, <2>4, <2>5
  <2> HIDE DEF Works
  <2> QED BY <2>3, <2>4, <2>6
<1>4. Works(MaxSlot + 1)
  <2>1. MaxSlot + 1 \in 0..MaxSlot + 1
    BY Bounds
  <2> HIDE DEF Works
  <2> QED BY <1>3, <2>1
<1>5. PICK p : p = [s \in Line |-> p[s]] /\ Upto(MaxSlot + 1, p)
  BY <1>4
<1>6. \A s \in Line : p[s] = Plays(a, mine, p, s)
  BY <1>5, Bounds DEF Line
<1> QED BY <1>5, <1>6

LEMMA RowIs ==
  ASSUME NEW a, NEW mine, NEW p, NEW s \in Line
  PROVE  Row(a, mine, p, s) = Plays(a, mine, p, s)
<1>1. Last(a) \in Nat /\ s \in Nat
  BY LastIs, Bounds DEF Line
<1>2. s > Last(a) <=> ~(s <= Last(a))
  BY <1>1
<1> QED BY <1>2 DEF Row, Plays, Starts, Count, Bad

LEMMA PlayedIs ==
  ASSUME NEW f, Rows(f.at), NEW mine
  PROVE  \E p : p = [s \in Line |-> Plays(f.at, mine, p, s)] /\ Played(f, mine) = p[1]
<1> DEFINE p == CHOOSE q : q = [s \in Line |-> Row(f.at, mine, q, s)]
<1>1. \E q : q = [s \in Line |-> Row(f.at, mine, q, s)]
  <2>1. PICK q : q = [s \in Line |-> Plays(f.at, mine, q, s)]
    BY PlayExists
  <2>2. \A s \in Line : Row(f.at, mine, q, s) = Plays(f.at, mine, q, s)
    BY RowIs
  <2>3. [s \in Line |-> Plays(f.at, mine, q, s)] = [s \in Line |-> Row(f.at, mine, q, s)]
    BY <2>2
  <2> QED BY <2>1, <2>3
<1>2. Played(f, mine) = p[1]
  BY Zenon DEF Played, Row, Last, Line
<1>3. p = [s \in Line |-> Row(f.at, mine, p, s)]
  BY <1>1, Zenon
<1>4. \A s \in Line : Row(f.at, mine, p, s) = Plays(f.at, mine, p, s)
  BY RowIs
<1>5. [s \in Line |-> Row(f.at, mine, p, s)] = [s \in Line |-> Plays(f.at, mine, p, s)]
  BY <1>4
<1> QED BY <1>2, <1>3, <1>5

LEMMA HeaderPlays ==
  ASSUME NEW a, Rows(a), NEW mine, NEW p, NEW h \in Slot, a[h].kind = "hdr", a[h].magic \/ h = mine,
         ~(a[h].n = 0 /\ h = mine), h + a[h].n <= MaxSlot,
         \A i \in h + 1..h + a[h].n : a[i].kind = "rec" /\ a[i].salt = a[h].salt
  PROVE  Plays(a, mine, p, h) = (h + 1..h + a[h].n) \cup p[h + a[h].n + 1]
<1> DEFINE n == a[h].n
<1>1. n \in Nat /\ h \in Nat /\ h >= 1 /\ Last(a) \in Nat /\ Count(a, mine, h) = n
  BY LastIs, Bounds DEF Rows, Count
<1>2. h + n \in Slot /\ a[h + n].kind # "none"
  <2>1. CASE n = 0
    BY <1>1, <2>1
  <2>2. CASE n # 0
    <3>1. h + n \in h + 1..h + n
      BY <1>1, <2>2
    <3>2. a[h + n].kind = "rec"
      BY <3>1
    <3> QED BY <3>2, <1>1, Bounds
  <2> QED BY <2>1, <2>2
<1>3. h + n <= Last(a) /\ h <= Last(a)
  <2>1. ~(h + n > Last(a))
    BY <1>2, LastIs
  <2> QED BY <2>1, <1>1
<1>4. Starts(a, mine, h)
  BY <1>3 DEF Starts, IsHeader
<1>5. Min({h + n, Last(a)}) \in {h + n, Last(a)} /\ Min({h + n, Last(a)}) <= h + n
  <2>1. {h + n, Last(a)} \subseteq Nat /\ {h + n, Last(a)} # {}
    BY <1>1
  <2> QED BY <2>1, MinOf
<1>6. Bad(a, mine, h) = {}
  <2> SUFFICES ASSUME NEW i \in h + 1..Min({h + n, Last(a)}) PROVE a[i].kind = "rec" /\ a[i].salt = a[h].salt
    BY <1>1 DEF Bad
  <2>1. i \in h + 1..h + n
    BY <1>1, <1>5
  <2> QED BY <2>1
<1>7. ~(h + n > Last(a))
  BY <1>1, <1>3
<1> QED BY <1>1, <1>4, <1>6, <1>7 DEF Plays

LEMMA ChainPlays ==
  ASSUME NEW a, Rows(a), NEW mine, NEW e \in Line, Chain(a, e), mine \notin 1..e - 1,
         NEW p, \A s \in Line : p[s] = Plays(a, mine, p, s)
  PROVE  p[1] = {i \in 1..e - 1 : a[i].kind = "rec"} \cup p[e]
<1> DEFINE Recs(h) == {i \in h..e - 1 : a[i].kind = "rec"}
           T == {h \in 1..e : (h = e \/ a[h].kind = "hdr") /\ p[h] # Recs(h) \cup p[e]}
<1>0. e \in Nat /\ e >= 1 /\ e <= MaxSlot + 1
  BY Bounds DEF Line
<1>1. T = {}
  <2> SUFFICES ASSUME T # {} PROVE FALSE
    OBVIOUS
  <2>1. T \subseteq 0..e
    BY <1>0
  <2>2. PICK h \in T : \A j \in T : h >= j
    <3> HIDE DEF T
    <3> QED BY <2>1, <1>0, GreatestOf
  <2>3. h \in 1..e /\ (h = e \/ a[h].kind = "hdr") /\ p[h] # Recs(h) \cup p[e]
    OBVIOUS
  <2>4. h # e
    <3>1. Recs(e) = {}
      BY <1>0
    <3> QED BY <3>1, <2>3
  <2>5. h \in 1..e - 1 /\ h \in Slot /\ a[h].kind = "hdr"
    BY <1>0, <2>3, <2>4, Bounds
  <2>6. /\ a[h].magic /\ h + a[h].n < e
        /\ \A i \in h + 1..h + a[h].n : a[i].kind = "rec" /\ a[i].salt = a[h].salt
        /\ h + a[h].n + 1 < e => a[h + a[h].n + 1].kind = "hdr"
    BY <2>5 DEF Chain
  <2>7. a[h].n \in Nat /\ h \in Nat /\ h # mine
    BY <2>5, Bounds DEF Rows
  <2> DEFINE n == a[h].n
             m == h + n + 1
  <2>8. m \in 1..e /\ m > h /\ (m = e \/ a[m].kind = "hdr") /\ h + n <= MaxSlot /\ m \in Nat
    <3>1. h + n < e /\ n \in Nat /\ h \in Nat
      BY <2>6, <2>7
    <3>2. m \in 1..e /\ m > h /\ m \in Nat /\ h + n <= MaxSlot
      <4> HIDE DEF n
      <4> QED BY <3>1, <1>0, Bounds
    <3>3. m = e \/ m < e
      <4> HIDE DEF n
      <4> QED BY <3>1, <1>0
    <3>4. m < e => a[m].kind = "hdr"
      BY <2>6
    <3> QED BY <3>2, <3>3, <3>4
  <2>9. p[m] = Recs(m) \cup p[e]
    <3>1. m \notin T
      <4> HIDE DEF T, m
      <4>1. h \in Nat
        BY <2>7
      <4> QED BY <2>2, <2>8, <4>1
    <3> HIDE DEF m, Recs
    <3> QED BY <3>1, <2>8
  <2>10. p[h] = Plays(a, mine, p, h)
    BY <2>5, Bounds DEF Line
  <2>11. Plays(a, mine, p, h) = (h + 1..h + n) \cup p[m]
    BY <2>5, <2>6, <2>7, <2>8, HeaderPlays
  <2>12. Recs(h) = (h + 1..h + n) \cup Recs(m)
    <3>1. ASSUME NEW i \in Recs(h) PROVE i \in (h + 1..h + n) \cup Recs(m)
      BY <3>1, <2>5, <2>7, <2>8
    <3>2. ASSUME NEW i \in h + 1..h + n PROVE i \in Recs(h)
      BY <3>2, <2>6, <2>7, <1>0
    <3>3. ASSUME NEW i \in Recs(m) PROVE i \in Recs(h)
      BY <3>3, <2>7, <2>8
    <3> HIDE DEF Recs, m
    <3> QED BY <3>1, <3>2, <3>3
  <2> HIDE DEF Recs, m
  <2> QED BY <2>3, <2>9, <2>10, <2>11, <2>12
<1>2. 1 \in 1..e /\ (1 = e \/ a[1].kind = "hdr")
  BY <1>0 DEF Chain
<1> QED BY <1>1, <1>2

LEMMA PlaysRecs ==
  ASSUME NEW a, Rows(a), NEW mine, NEW p, \A s \in Line : p[s] = Plays(a, mine, p, s)
  PROVE  p[1] \subseteq {i \in Slot : a[i].kind = "rec"}
<1> DEFINE Recs == {i \in Slot : a[i].kind = "rec"}
           T == {s \in Line : ~(p[s] \subseteq Recs)}
<1>1. T = {}
  <2> SUFFICES ASSUME T # {} PROVE FALSE
    OBVIOUS
  <2>1. T \subseteq 0..MaxSlot + 1 /\ MaxSlot + 1 \in Nat
    BY Bounds DEF Line
  <2>2. PICK s \in T : \A j \in T : s >= j
    <3> HIDE DEF T
    <3> QED BY <2>1, GreatestOf
  <2>3. s \in Line /\ ~(p[s] \subseteq Recs) /\ p[s] = Plays(a, mine, p, s)
    OBVIOUS
  <2>4. Starts(a, mine, s)
    BY <2>3 DEF Plays
  <2>5. s \in Slot /\ s \in Nat /\ a[s].kind = "hdr" /\ Last(a) \in Nat /\ s <= Last(a) /\ Last(a) <= MaxSlot
    BY <2>3, <2>4, LastIs, Bounds DEF Starts, Line, IsHeader
  <2> DEFINE n == Count(a, mine, s)
             b == Bad(a, mine, s)
             m == Min({s + n, Last(a)})
  <2>6. n \in Nat
    <3>1. a[s].n \in Nat /\ Last(a) - s \in Nat
      BY <2>5, Bounds DEF Rows
    <3> QED BY <3>1 DEF Count
  <2>7. m \in {s + n, Last(a)} /\ m <= s + n /\ m <= Last(a) /\ m \in Nat
    <3>1. {s + n, Last(a)} \subseteq Nat /\ {s + n, Last(a)} # {}
      BY <2>5, <2>6
    <3>2. m \in {s + n, Last(a)} /\ \A y \in {s + n, Last(a)} : m <= y
      BY <3>1, MinOf
    <3> HIDE DEF m, n
    <3> QED BY <3>1, <3>2
  <2>8. b \subseteq s + 1..m
    BY DEF Bad
  <2>9. \A i \in s + 1..m : i \in Slot /\ (i \notin b => a[i].kind = "rec")
    <3>1. \A i \in s + 1..m : i \notin b => a[i].kind = "rec"
      BY DEF Bad
    <3>2. \A i \in s + 1..m : i \in Slot
      <4> HIDE DEF m, n
      <4> QED BY <2>5, <2>7, Bounds
    <3> QED BY <3>1, <3>2
  <2>10. CASE b # {}
    <3>1. Min(b) \in b /\ \A y \in b : Min(b) <= y
      <4>1. b \subseteq Nat
        <5> HIDE DEF b, m
        <5> QED BY <2>8, <2>5
      <4> QED BY <4>1, <2>10, MinOf
    <3>2. p[s] = s + 1..Min(b) - 1
      BY <2>3, <2>4, <2>10 DEF Plays
    <3>3. ASSUME NEW i \in s + 1..Min(b) - 1 PROVE i \in Recs
      <4>1. i \in s + 1..m /\ i < Min(b) /\ Min(b) \in Nat /\ i \in Nat
        <5>1. Min(b) \in s + 1..m /\ m \in Nat /\ s \in Nat
          <6> HIDE DEF b, m
          <6> QED BY <3>1, <2>8, <2>5, <2>7
        <5> HIDE DEF b, m, n
        <5> QED BY <5>1
      <4>2. i \notin b
        <5> HIDE DEF b
        <5> QED BY <3>1, <4>1
      <4> HIDE DEF b, m
      <4> QED BY <2>9, <4>1, <4>2
    <3> QED BY <2>3, <3>2, <3>3
  <2>11. CASE b = {} /\ s + n > Last(a)
    <3>1. p[s] = s + 1..Last(a) /\ m = Last(a)
      <4>1. p[s] = s + 1..Last(a)
        BY <2>3, <2>4, <2>11 DEF Plays
      <4>2. m = Last(a)
        <5> HIDE DEF m, n
        <5> QED BY <2>5, <2>6, <2>7, <2>11
      <4> QED BY <4>1, <4>2
    <3> HIDE DEF b, m, n
    <3> QED BY <2>3, <2>9, <2>11, <3>1
  <2>12. CASE b = {} /\ ~(s + n > Last(a))
    <3>1. p[s] = (s + 1..s + n) \cup p[s + n + 1]
      BY <2>3, <2>4, <2>12 DEF Plays
    <3>2. m = s + n /\ s + n + 1 \in Line /\ s + n + 1 > s
      <4> HIDE DEF m, n
      <4> QED BY <2>5, <2>6, <2>7, <2>12, Bounds, SMTT(30) DEF Line
    <3>3. p[s + n + 1] \subseteq Recs
      <4>1. s + n + 1 \notin T
        <5> HIDE DEF T, n
        <5>1. s \in Nat /\ n \in Nat
          BY <2>5, <2>6
        <5> QED BY <2>2, <3>2, <5>1
      <4> QED BY <4>1, <3>2
    <3>4. s + 1..s + n \subseteq Recs
      <4> HIDE DEF b, m, n
      <4> QED BY <2>9, <2>12, <3>2
    <3> HIDE DEF Recs
    <3> QED BY <2>3, <3>1, <3>3, <3>4
  <2> QED BY <2>10, <2>11, <2>12
<1>2. 1 \in Line
  BY Bounds DEF Line
<1> QED BY <1>1, <1>2

\* What is played back are records.
LEMMA PlayedRecs ==
  ASSUME NEW f, Rows(f.at), NEW mine
  PROVE  Played(f, mine) \subseteq {i \in Slot : f.at[i].kind = "rec"}
<1>1. PICK p : p = [s \in Line |-> Plays(f.at, mine, p, s)] /\ Played(f, mine) = p[1]
  BY PlayedIs
<1>2. \A s \in Line : p[s] = Plays(f.at, mine, p, s)
  BY <1>1
<1> QED BY <1>1, <1>2, PlaysRecs

\* A journal that begins with no header restores nothing.
LEMMA PlayedCold ==
  ASSUME NEW f, Rows(f.at), ~IsHeader(f.at[1])
  PROVE  Played(f, 0) = {}
<1>1. PICK p : p = [s \in Line |-> Plays(f.at, 0, p, s)] /\ Played(f, 0) = p[1]
  BY PlayedIs
<1>2. p[1] = Plays(f.at, 0, p, 1)
  BY <1>1, Bounds DEF Line
<1> QED BY <1>1, <1>2 DEF Plays, Starts

\* All the records of a chain are played back, if no header follows it.
LEMMA PlayedChain ==
  ASSUME NEW f, Rows(f.at), NEW e \in Line, Chain(f.at, e), e \in Slot => ~IsHeader(f.at[e])
  PROVE  Played(f, 0) = {i \in 1..e - 1 : f.at[i].kind = "rec"}
<1>1. PICK p : p = [s \in Line |-> Plays(f.at, 0, p, s)] /\ Played(f, 0) = p[1]
  BY PlayedIs
<1>2. \A s \in Line : p[s] = Plays(f.at, 0, p, s)
  BY <1>1
<1>3. 0 \notin 1..e - 1
  BY Bounds DEF Line
<1>4. p[1] = {i \in 1..e - 1 : f.at[i].kind = "rec"} \cup p[e]
  <2> DEFINE a == f.at
  <2>1. \A s \in Line : p[s] = Plays(a, 0, p, s)
    BY <1>2
  <2>2. Rows(a) /\ Chain(a, e) /\ 0 \notin 1..e - 1
    BY <1>3
  <2>3. p[1] = {i \in 1..e - 1 : a[i].kind = "rec"} \cup p[e]
    <3> HIDE DEF a
    <3> QED BY <2>1, <2>2, ChainPlays
  <2> QED BY <2>3
<1>5. ~Starts(f.at, 0, e)
  BY LastIs, Bounds DEF Starts, Line
<1>6. p[e] = {}
  BY <1>2, <1>5 DEF Plays
<1> QED BY <1>1, <1>4, <1>6

\* A header behind a chain, with the records it counts, is one more link.
LEMMA ChainGrows ==
  ASSUME NEW a, NEW h \in Slot, Chain(a, h), a[h].kind = "hdr", a[h].magic, a[h].n \in Nat, Rows(a),
         \A i \in h + 1..h + a[h].n : a[i].kind = "rec" /\ a[i].salt = a[h].salt
  PROVE  Chain(a, h + a[h].n + 1)
<1> DEFINE e == h + a[h].n + 1
<1>1. h \in Nat /\ h >= 1 /\ e \in Nat /\ e > h
  BY Bounds
<1>2. a[1].kind = "hdr"
  <2>1. CASE h = 1
    BY <2>1
  <2>2. CASE h # 1
    BY <2>2, <1>1 DEF Chain
  <2> QED BY <2>1, <2>2
<1>3. ASSUME NEW g \in 1..e - 1
      PROVE  /\ a[g].kind \in {"hdr", "rec"}
             /\ a[g].kind = "hdr" =>
                  /\ a[g].magic /\ g + a[g].n < e
                  /\ \A i \in g + 1..g + a[g].n : a[i].kind = "rec" /\ a[i].salt = a[g].salt
                  /\ g + a[g].n + 1 < e => a[g + a[g].n + 1].kind = "hdr"
  <2>1. CASE g < h
    <3>1. g \in 1..h - 1 /\ g \in Nat
      BY <2>1, <1>1
    <3>2. /\ a[g].kind \in {"hdr", "rec"}
          /\ a[g].kind = "hdr" =>
               /\ a[g].magic /\ g + a[g].n < h
               /\ \A i \in g + 1..g + a[g].n : a[i].kind = "rec" /\ a[i].salt = a[g].salt
               /\ g + a[g].n + 1 < h => a[g + a[g].n + 1].kind = "hdr"
      BY <3>1 DEF Chain
    <3>3. a[g].kind = "hdr" => a[g].n \in Nat
      <4>1. g \in Slot
        BY <3>1, Bounds
      <4> QED BY <4>1 DEF Rows
    <3>4. a[g].kind = "hdr" => g + a[g].n + 1 < h \/ g + a[g].n + 1 = h
      BY <3>1, <3>2, <3>3, <1>1
    <3> QED BY <1>1, <3>1, <3>2, <3>3, <3>4
  <2>2. CASE g = h
    BY <2>2, <1>1
  <2>3. CASE g > h
    <3>1. g \in h + 1..h + a[h].n
      BY <2>3, <1>1
    <3>2. a[g].kind = "rec"
      BY <3>1
    <3> QED BY <3>2
  <2>4. g \in Nat
    BY <1>1
  <2> QED BY <1>1, <2>1, <2>2, <2>3, <2>4
<1> HIDE DEF e
<1>4. Chain(a, e)
  BY <1>2, <1>3 DEF Chain
<1> QED BY <1>4 DEF e

\* A rollback of one's own plays back the records up to o, the last slot of the
\* transaction; h is its last header, or where that would be.
LEMMA PlayedOwn ==
  ASSUME NEW f, Rows(f.at), NEW h \in Line, NEW o \in 0..MaxSlot, h <= o + 1, Chain(f.at, h),
         h <= o => /\ f.at[h].kind = "hdr"
                   /\ f.at[h].n = IF f.at[h].magic THEN o - h ELSE 0
                   /\ f.at[h].magic \in BOOLEAN
                   /\ \A i \in h + 1..o : f.at[i].kind = "rec" /\ f.at[i].salt = f.at[h].salt,
         h = o + 1 /\ h \in Slot => f.at[h].kind # "hdr",
         h <= o /\ f.at[h].magic /\ o + 1 \in Slot => ~IsHeader(f.at[o + 1]),
         h <= o => \A s \in Slot : s > o => f.at[s].kind # "rec" \/ f.at[s].salt # f.at[h].salt
  PROVE  Played(f, h) = {i \in 1..o : f.at[i].kind = "rec"}
<1> DEFINE a == f.at
<1>0. h \in Nat /\ h >= 1 /\ h <= MaxSlot + 1 /\ o \in Nat /\ MaxSlot \in Nat /\ Last(a) \in Nat /\ Last(a) <= MaxSlot
  BY LastIs, Bounds DEF Line
<1>1. PICK p : p = [s \in Line |-> Plays(a, h, p, s)] /\ Played(f, h) = p[1]
  BY PlayedIs
<1>2. \A s \in Line : p[s] = Plays(a, h, p, s)
  BY <1>1
<1>3. p[1] = {i \in 1..h - 1 : a[i].kind = "rec"} \cup p[h]
  <2>1. Rows(a) /\ Chain(a, h) /\ h \notin 1..h - 1
    BY <1>0
  <2> HIDE DEF a
  <2> QED BY <1>2, <2>1, ChainPlays
<1>4. ASSUME NEW s \in Line, ~Starts(a, h, s) PROVE p[s] = {}
  BY <1>2, <1>4 DEF Plays
<1>5. CASE h = o + 1
  <2>1. ~Starts(a, h, h)
    <3>1. h \in Slot => ~IsHeader(a[h]) /\ a[h].kind # "hdr"
      BY <1>5 DEF IsHeader
    <3>2. h \notin Slot => ~(h <= Last(a))
      BY <1>0, Bounds
    <3> QED BY <3>1, <3>2 DEF Starts
  <2>2. {i \in 1..h - 1 : a[i].kind = "rec"} = {i \in 1..o : a[i].kind = "rec"}
    <3>1. h - 1 = o
      BY <1>0, <1>5
    <3> QED BY <3>1
  <2> QED BY <1>1, <1>3, <1>4, <2>1, <2>2
<1>6. CASE h <= o
  <2>1. /\ h \in Slot /\ a[h].kind = "hdr" /\ a[h].n \in Nat
        /\ \A i \in h + 1..o : a[i].kind = "rec" /\ a[i].salt = a[h].salt
    BY <1>0, <1>6, Bounds DEF Rows
  <2>2. p[h] = h + 1..o
    <3>1. CASE a[h].n # 0
      <4>1. a[h].magic /\ a[h].n = o - h /\ h + a[h].n = o
        BY <1>0, <1>6, <3>1
      <4>2. Plays(a, h, p, h) = (h + 1..h + a[h].n) \cup p[h + a[h].n + 1]
        <5>1. (~(a[h].n = 0 /\ h = h) /\ h + a[h].n <= MaxSlot /\ a[h].magic) \/ h = h
          BY <3>1, <4>1
        <5>2. \A i \in h + 1..h + a[h].n : a[i].kind = "rec" /\ a[i].salt = a[h].salt
          BY <2>1, <4>1
        <5>3. h + a[h].n <= MaxSlot
          BY <4>1
        <5>4. Rows(a)
          OBVIOUS
        <5> HIDE DEF a
        <5> QED BY <2>1, <3>1, <5>2, <5>3, <5>4, HeaderPlays
      <4>3. o + 1 \in Line /\ ~Starts(a, h, o + 1)
        <5>1. o + 1 \in Slot => ~IsHeader(a[o + 1])
          BY <1>6, <4>1
        <5>2. o + 1 \notin Slot => ~(o + 1 <= Last(a))
          BY <1>0, Bounds
        <5>3. o + 1 # h /\ o + 1 \in Line
          BY <1>0, <1>6 DEF Line
        <5> QED BY <5>1, <5>2, <5>3 DEF Starts
      <4>4. p[o + 1] = {} /\ h + a[h].n + 1 = o + 1
        BY <1>4, <4>1, <4>3
      <4>5. p[h] = Plays(a, h, p, h)
        BY <1>2
      <4>6. p[h] = (h + 1..o) \cup p[o + 1]
        BY <4>1, <4>2, <4>4, <4>5
      <4> QED BY <4>4, <4>6
    <3>2. CASE a[h].n = 0
      <4>1. o <= Last(a)
        <5>1. o \in Slot /\ a[o].kind # "none"
          <6>1. CASE o = h
            BY <2>1, <6>1
          <6>2. CASE o # h
            <7>1. o \in h + 1..o /\ o \in Slot
              BY <1>0, <1>6, <6>2, Bounds
            <7>2. a[o].kind = "rec"
              BY <7>1, <2>1
            <7> QED BY <7>1, <7>2
          <6> QED BY <6>1, <6>2
        <5>2. ~(o > Last(a))
          BY <5>1, LastIs
        <5> QED BY <5>2, <1>0
      <4>2. Starts(a, h, h) /\ Count(a, h, h) = Last(a) - h /\ h + Count(a, h, h) = Last(a)
        BY <1>0, <1>6, <2>1, <3>2, <4>1 DEF Starts, Count
      <4>3. Bad(a, h, h) = {i \in h + 1..Last(a) : a[i].kind # "rec" \/ a[i].salt # a[h].salt}
        <5>1. Min({Last(a), Last(a)}) = Last(a)
          <6>1. {Last(a), Last(a)} \subseteq Nat /\ {Last(a), Last(a)} # {}
            BY <1>0
          <6>2. Min({Last(a), Last(a)}) \in {Last(a), Last(a)}
            BY <6>1, MinOf
          <6> QED BY <6>2
        <5> QED BY <4>2, <5>1 DEF Bad
      <4> DEFINE b == {i \in h + 1..Last(a) : a[i].kind # "rec" \/ a[i].salt # a[h].salt}
      <4>4. CASE Last(a) = o
        <5>1. b = {}
          BY <2>1, <4>4
        <5>2. p[h] = (h + 1..Last(a)) \cup p[Last(a) + 1]
          <6>1. ~(h + Count(a, h, h) > Last(a))
            BY <1>0, <4>2
          <6>2. Plays(a, h, p, h) = (h + 1..h + Count(a, h, h)) \cup p[h + Count(a, h, h) + 1]
            BY <4>2, <4>3, <5>1, <6>1 DEF Plays
          <6> QED BY <1>2, <4>2, <6>2
        <5>3. Last(a) + 1 \in Line /\ ~Starts(a, h, Last(a) + 1)
          <6>1. ~(Last(a) + 1 <= Last(a)) /\ Last(a) + 1 \in Line
            BY <1>0 DEF Line
          <6> QED BY <6>1 DEF Starts
        <5> QED BY <1>4, <4>4, <5>2, <5>3
      <4>5. CASE Last(a) # o
        <5>1. o + 1 \in b
          <6>1. o + 1 \in Slot /\ o + 1 > o /\ o + 1 \in h + 1..Last(a)
            BY <1>0, <1>6, <4>1, <4>5, Bounds
          <6> QED BY <6>1, <1>6
        <5>2. \A i \in b : i >= o + 1
          BY <1>0, <1>6, <2>1
        <5>3. Min(b) = o + 1
          <6>1. b \subseteq Nat
            BY <1>0
          <6> HIDE DEF b
          <6>2. Min(b) \in b /\ \A y \in b : Min(b) <= y
            BY <5>1, <6>1, MinOf
          <6>3. Min(b) <= o + 1 /\ Min(b) >= o + 1 /\ Min(b) \in Nat
            BY <6>1, <6>2, <5>1, <5>2
          <6> QED BY <6>3, <1>0
        <5>4. Plays(a, h, p, h) = h + 1..Min(b) - 1
          <6>1. b # {} /\ Bad(a, h, h) = b
            BY <5>1, <4>3
          <6> HIDE DEF b
          <6> QED BY <4>2, <6>1 DEF Plays
        <5>5. Min(b) - 1 = o
          BY <5>3, <1>0
        <5> QED BY <1>2, <5>4, <5>5
      <4> QED BY <4>4, <4>5
    <3> QED BY <3>1, <3>2
  <2>3. ASSUME NEW i PROVE (i \in 1..h - 1 /\ a[i].kind = "rec") \/ i \in h + 1..o <=> i \in 1..o /\ a[i].kind = "rec"
    <3>1. i = h => a[i].kind # "rec"
      BY <2>1
    <3>2. i \in h + 1..o => a[i].kind = "rec"
      BY <2>1
    <3>3. i \in 1..o <=> i \in 1..h - 1 \/ i = h \/ i \in h + 1..o
      BY <1>0, <1>6
    <3> QED BY <3>1, <3>2, <3>3
  <2> QED BY <1>1, <1>3, <2>2, <2>3
<1> QED BY <1>0, <1>5, <1>6

LEMMA Surrounding ==
  ASSUME Types
  PROVE  /\ env.writers \subseteq env.conns /\ env.crashes \subseteq env.conns /\ env.conns \subseteq Conn
         /\ env.journal \in {"DELETE", "TRUNCATE", "PERSIST"}
         /\ env.sync \in {"NORMAL", "FULL", "EXTRA"}
         /\ {env.same, env.spills, env.fails, env.losses} \subseteq BOOLEAN
         /\ env.pages \in 1..NPage /\ env.orig \in 1..env.pages
         /\ env.vers \in 1..MaxVer /\ env.slots \in 1..MaxSlot
BY RollbackJournalAssumption DEF Types, SharedOK

LEMMA Blanks ==
  /\ NoPage \in PageOK /\ NoPage.ctr = 0
  /\ [p \in Page |-> NoPage] \in Book
  /\ Nothing \in SlotOK /\ Torn # Nothing /\ Torn \notin SlotOK /\ Nothing.kind = "none"
  /\ NoTx \in Tx /\ NoTx.ver = 0 /\ NoTx.goal = "none" /\ ~NoTx.dbmod /\ NoTx.todo = {}
BY Bounds DEF NoPage, PageOK, Book, Nothing, SlotOK, Torn, HeaderOK, RecordOK, NoTx, Tx, Goal

LEMMA Entry ==
  ASSUME CalmInv, NEW c \in env.conns
  PROVE  /\ LockInv /\ Types /\ SharedOK /\ c \in Conn /\ LockAt(c)
         /\ Holds(pc[c], mode[c], tx[c]) /\ Does(pc[c], tx[c])
         /\ mode[c] \in 0..4 /\ pc[c] \in PC /\ cache[c] \in Book /\ vers[c] \in 0..MaxVer /\ tx[c] \in Tx
         /\ draw \in 1..MaxVer /\ tx[c].hdr \in 0..MaxSlot + 1 /\ tx[c].off \in 0..MaxSlot
<1>1. LockInv /\ Types /\ SharedOK /\ c \in Conn
  BY Surrounding DEF CalmInv, LockInv, Types
<1> QED BY <1>1 DEF LockInv, Types, SharedOK, Tx, LockAt

\* Connection c gets to place l, with lock k and transaction t.
Moved(c, l, k, t) ==
  /\ pc' = [pc EXCEPT ![c] = l] /\ mode' = [mode EXCEPT ![c] = k] /\ tx' = [tx EXCEPT ![c] = t]
Fits(c, l, k, t) ==
  /\ l \in PC /\ k \in 0..4 /\ t \in Tx
  /\ Holds(l, k, t) /\ Does(l, t)
  /\ k = 4 => mode[c] = 4 \/ Lone(c)
  /\ k = 0 \/ mode[c] # 0 \/ \A d \in Conn \ {c} : mode[d] # 4
  /\ t.ver # 0 => t.ver = draw'
  /\ (t.ver # 0 /\ ~Writer(c)) \/ draw' # draw => \A d \in Conn \ {c} : ~Writer(d)

LEMMA LockStep ==
  ASSUME LockInv, NEW c \in Conn, NEW l, NEW k, NEW t, Moved(c, l, k, t), Fits(c, l, k, t), SharedOK'
  PROVE  LockInv'
<1> USE DEF LockInv, Types
<1>1. /\ mode' \in [Conn -> 0..4] /\ pc' \in [Conn -> PC] /\ tx' \in [Conn -> Tx]
      /\ mode'[c] = k /\ pc'[c] = l /\ tx'[c] = t
      /\ \A d \in Conn \ {c} : mode'[d] = mode[d] /\ pc'[d] = pc[d] /\ tx'[d] = tx[d]
  BY DEF Moved, Fits
<1>2. OneWriter'
  <2> SUFFICES ASSUME NEW d \in Conn, NEW e \in Conn, Writer(d)', Writer(e)' PROVE d = e
    BY DEF OneWriter
  <2>1. \A x, y \in Conn : Writer(x) /\ Writer(y) => x = y
    BY DEF OneWriter
  <2>2. \A x \in Conn \ {c} : Writer(x)' => Writer(x)
    BY <1>1 DEF Writer
  <2>3. Writer(c)' /\ ~Writer(c) => \A x \in Conn \ {c} : ~Writer(x)
    BY <1>1 DEF Writer, Fits
  <2> QED BY <2>1, <2>2, <2>3
<1>3. ASSUME NEW d \in Conn \ {c} PROVE LockAt(d)'
  <2>1. LockAt(d) /\ mode'[d] = mode[d] /\ pc'[d] = pc[d] /\ tx'[d] = tx[d]
    BY <1>1
  <2>2. mode[d] = 4 => Lone(d)'
    <3>1. mode[d] = 4 => mode[c] = 0
      BY <2>1 DEF LockAt, Lone
    <3>2. mode[d] = 4 => k = 0
      BY <3>1 DEF Fits
    <3> QED BY <1>1, <2>1, <3>2 DEF LockAt, Lone
  <2>3. Writer(d) => draw' = draw
    BY DEF Fits
  <2> QED BY <2>1, <2>2, <2>3 DEF LockAt, Writer
<1>4. LockAt(c)'
  <2>1. k = 4 => Lone(c)'
    <3>1. k = 4 => Lone(c)
      BY DEF Fits, LockAt
    <3> QED BY <1>1, <3>1 DEF Lone
  <2> QED BY <1>1, <2>1 DEF Fits, LockAt, Writer
<1> QED BY <1>1, <1>2, <1>3, <1>4

USE DEF files, journal, own, history, Waiting, Sharing, Opening, Syncing, Storing, Ending

(***************************************************************************)
(* Types of what the writes and syncs leave.                               *)
(***************************************************************************)
LEMMA WriteJournalOK ==
  ASSUME Types, NEW w, \A s \in DOMAIN w : w[s] \in SlotOK, WriteJournal(w)
  PROVE  /\ JrnlOK' /\ jrnl'.on
         /\ \A s \in Slot : /\ At(s)' = IF s \in DOMAIN w THEN w[s] ELSE At(s)
                            /\ s \notin DOMAIN w => jpend'[s] = jpend[s]
<1>1. /\ jrnl' = [on |-> TRUE, at |-> [s \in Slot |-> IF s \in DOMAIN w THEN w[s] ELSE jrnl.at[s]]]
      /\ jpend' = [s \in Slot |-> IF s \in DOMAIN w THEN jpend[s] \cup {w[s], Torn} ELSE jpend[s]]
  BY DEF WriteJournal
<1>2. JrnlOK
  BY DEF Types, SharedOK
<1>3. \A s \in Slot : At(s)' = IF s \in DOMAIN w THEN w[s] ELSE At(s)
  BY <1>1 DEF At
<1>4. jrnl' \in [on : BOOLEAN, at : [Slot -> SlotOK]] /\ jrnl'.on
  BY <1>1, <1>2 DEF JrnlOK
<1>5. jpend' \in [Slot -> SUBSET (SlotOK \cup {Torn})]
  BY <1>1, <1>2 DEF JrnlOK
<1>6. \A s \in Slot : At(s)' \in jpend'[s]
  BY <1>1, <1>2, <1>3 DEF JrnlOK
<1> QED BY <1>1, <1>3, <1>4, <1>5, <1>6 DEF JrnlOK

LEMMA SyncOK ==
  ASSUME Types, jrnl' = jrnl, jpend' = [s \in Slot |-> {jrnl.at[s]}]
  PROVE  JrnlOK' /\ \A s \in Slot : At(s)' = At(s) /\ jpend'[s] = {At(s)}
BY DEF Types, SharedOK, JrnlOK, At

LEMMA RemovedOK ==
  ASSUME Types, NEW on \in BOOLEAN, Removed(on)
  PROVE  JrnlOK' /\ jrnl'.on = on /\ \A s \in Slot : At(s)' = Nothing
<1>1. jrnl' = [on |-> on, at |-> [s \in Slot |-> Nothing]] /\ jpend' = [s \in Slot |-> {Nothing}]
  BY DEF Removed, NoFile
<1>2. \A s \in Slot : At(s)' = Nothing
  BY <1>1 DEF At
<1> QED BY <1>1, <1>2, Blanks DEF JrnlOK

LEMMA WriteDbOK ==
  ASSUME Types, NEW p \in Page, NEW v \in PageOK, WriteDb(p, v)
  PROVE  DbOK' /\ db'[p] = v /\ \A q \in Page \ {p} : db'[q] = db[q]
<1>1. db' = [db EXCEPT ![p] = v] /\ dpend' = [dpend EXCEPT ![p] = @ \cup {v, TornPage}]
  BY DEF WriteDb
<1>2. DbOK
  BY DEF Types, SharedOK
<1>3. db' \in Book /\ db'[p] = v /\ \A q \in Page \ {p} : db'[q] = db[q]
  BY <1>1, <1>2 DEF DbOK, Book
<1>4. dpend' \in [Page -> SUBSET (PageOK \cup {TornPage})]
  BY <1>1, <1>2 DEF DbOK
<1>5. \A q \in Page : db'[q] \in dpend'[q]
  BY <1>1, <1>2, <1>3 DEF DbOK
<1> QED BY <1>3, <1>4, <1>5 DEF DbOK

LEMMA TruncateOK ==
  ASSUME Types, NEW n \in Nat, TruncateDb(n)
  PROVE  DbOK' /\ \A p \in Page : db'[p] = IF p > n THEN NoPage ELSE db[p]
<1>1. /\ db' = [p \in Page |-> IF p > n THEN NoPage ELSE db[p]]
      /\ dpend' = [p \in Page |-> IF p > n THEN dpend[p] \cup {NoPage} ELSE dpend[p]]
  BY DEF TruncateDb, Truncated
<1>2. DbOK
  BY DEF Types, SharedOK
<1>3. db' \in Book
  BY <1>1, <1>2, Blanks DEF DbOK, Book
<1>4. dpend' \in [Page -> SUBSET (PageOK \cup {TornPage})]
  BY <1>1, <1>2, Blanks DEF DbOK
<1> QED BY <1>1, <1>2, <1>3, <1>4 DEF DbOK

LEMMA SyncDbOK ==
  ASSUME Types, db' = db, SyncDb
  PROVE  DbOK'
BY DEF Types, SharedOK, DbOK, SyncDb, Book

LEMMA ForgetOK ==
  ASSUME Types, NEW c \in Conn, Forget(c)
  PROVE  /\ cache' \in [Conn -> Book] /\ \A p \in Page : cache'[c][p] = NoPage
         /\ \A d \in Conn \ {c} : cache'[d] = cache[d]
BY Blanks DEF Types, SharedOK, Forget

LEMMA TxTwo ==
  ASSUME NEW t \in Tx
  PROVE  /\ \A h \in 0..MaxSlot + 1, o \in 0..MaxSlot : [t EXCEPT !.hdr = h, !.off = o] \in Tx
         /\ \A d \in SUBSET Page, o \in 0..MaxSlot : [t EXCEPT !.dirty = d, !.off = o] \in Tx
         /\ \A j \in SUBSET Page, n \in SUBSET Page : [t EXCEPT !.inJournal = j, !.needSync = n] \in Tx
         /\ \A g \in Goal, w \in SUBSET Nat : [t EXCEPT !.goal = g, !.todo = w] \in Tx
         /\ \A d \in SUBSET Page, w \in SUBSET Nat : [t EXCEPT !.dirty = d, !.todo = w] \in Tx
         /\ \A h \in 0..MaxSlot + 1, n \in SUBSET Page : [t EXCEPT !.hdr = h, !.needSync = n] \in Tx
         /\ \A m \in BOOLEAN : [t EXCEPT !.dbmod = m] \in Tx
         /\ \A g \in Goal : [t EXCEPT !.goal = g] \in Tx
         /\ \A w \in SUBSET Nat : [t EXCEPT !.todo = w] \in Tx
         /\ \A o \in 0..MaxSlot : [t EXCEPT !.off = o] \in Tx
         /\ \A v \in 0..MaxVer, s \in 0..NPage : [t EXCEPT !.ver = v, !.size = s] \in Tx
<1>1. \A h \in 0..MaxSlot + 1, o \in 0..MaxSlot : [t EXCEPT !.hdr = h, !.off = o] \in Tx
  BY DEF Tx
<1>2. \A d \in SUBSET Page, o \in 0..MaxSlot : [t EXCEPT !.dirty = d, !.off = o] \in Tx
  BY DEF Tx
<1>3. \A j \in SUBSET Page, n \in SUBSET Page : [t EXCEPT !.inJournal = j, !.needSync = n] \in Tx
  BY DEF Tx
<1>4. \A g \in Goal, w \in SUBSET Nat : [t EXCEPT !.goal = g, !.todo = w] \in Tx
  BY DEF Tx
<1>5. \A d \in SUBSET Page, w \in SUBSET Nat : [t EXCEPT !.dirty = d, !.todo = w] \in Tx
  BY DEF Tx
<1>6. \A h \in 0..MaxSlot + 1, n \in SUBSET Page : [t EXCEPT !.hdr = h, !.needSync = n] \in Tx
  BY DEF Tx
<1>7. \A m \in BOOLEAN : [t EXCEPT !.dbmod = m] \in Tx
  BY DEF Tx
<1>8. \A g \in Goal : [t EXCEPT !.goal = g] \in Tx
  BY DEF Tx
<1>9. \A w \in SUBSET Nat : [t EXCEPT !.todo = w] \in Tx
  BY DEF Tx
<1>10. \A o \in 0..MaxSlot : [t EXCEPT !.off = o] \in Tx
  BY DEF Tx
<1>11. \A v \in 0..MaxVer, s \in 0..NPage : [t EXCEPT !.ver = v, !.size = s] \in Tx
  BY DEF Tx
<1> QED BY <1>1, <1>2, <1>3, <1>4, <1>5, <1>6, <1>7, <1>8, <1>9, <1>10, <1>11

\* What Writable makes of a transaction.
LEMMA WritableIs ==
  ASSUME NEW t \in Tx, NEW p \in Page
  PROVE  /\ DOMAIN Writable(t, p) = DOMAIN t
         /\ Writable(t, p).ver = t.ver /\ Writable(t, p).size = t.size
         /\ Writable(t, p).dbmod = t.dbmod /\ Writable(t, p).goal = t.goal /\ Writable(t, p).todo = t.todo
         /\ Writable(t, p).hdr = IF t.hdr = 0 THEN 1 ELSE t.hdr
         /\ Writable(t, p).off = (IF t.hdr = 0 THEN 1 ELSE t.off) + (IF Journals(t, p) THEN 1 ELSE 0)
         /\ Writable(t, p).dirty = t.dirty \cup {p}
         /\ Writable(t, p).inJournal = IF Journals(t, p) THEN t.inJournal \cup {p} ELSE t.inJournal
         /\ Writable(t, p).needSync = IF NeedSync(t, p) THEN t.needSync \cup {p} ELSE t.needSync
         /\ Writable(t, p).off <= MaxSlot => Writable(t, p) \in Tx
<1>1. t.off \in Nat /\ t.hdr \in Nat
  BY Bounds DEF Tx
<1>2. Opened(t) = [t EXCEPT !.hdr = IF t.hdr = 0 THEN 1 ELSE t.hdr, !.off = IF t.hdr = 0 THEN 1 ELSE t.off]
  BY DEF Opened, Tx
<1>3. /\ DOMAIN Writable(t, p) = DOMAIN t
      /\ Writable(t, p).ver = t.ver /\ Writable(t, p).size = t.size
      /\ Writable(t, p).dbmod = t.dbmod /\ Writable(t, p).goal = t.goal /\ Writable(t, p).todo = t.todo
      /\ Writable(t, p).hdr = IF t.hdr = 0 THEN 1 ELSE t.hdr
      /\ Writable(t, p).off = (IF t.hdr = 0 THEN 1 ELSE t.off) + (IF Journals(t, p) THEN 1 ELSE 0)
  BY <1>1, <1>2 DEF Writable, Tx
<1>4. /\ Writable(t, p).dirty = t.dirty \cup {p}
      /\ Writable(t, p).inJournal = IF Journals(t, p) THEN t.inJournal \cup {p} ELSE t.inJournal
      /\ Writable(t, p).needSync = IF NeedSync(t, p) THEN t.needSync \cup {p} ELSE t.needSync
  BY <1>2 DEF Writable, Tx
<1>5. ASSUME Writable(t, p).off <= MaxSlot PROVE Writable(t, p) \in Tx
  <2>1. Opened(t) \in Tx
    <3>1. 1 \in 0..MaxSlot + 1 /\ 1 \in 0..MaxSlot
      BY Bounds
    <3>2. [t EXCEPT !.hdr = 1, !.off = 1] \in Tx
      BY <3>1, TxTwo
    <3> QED BY <3>2 DEF Opened
  <2>2. PICK o \in Tx : o = Opened(t)
    BY <2>1
  <2> DEFINE x == IF Journals(t, p) THEN o.off + 1 ELSE o.off
             j == IF Journals(t, p) THEN o.inJournal \cup {p} ELSE o.inJournal
             n == IF NeedSync(t, p) THEN o.needSync \cup {p} ELSE o.needSync
  <2>3. Writable(t, p) = [o EXCEPT !.dirty = @ \cup {p}, !.off = x, !.inJournal = j, !.needSync = n]
    BY <2>2 DEF Writable
  <2>4. j \in SUBSET Page /\ n \in SUBSET Page
    BY DEF Tx
  <2>5. x \in 0..MaxSlot
    <3>1. Writable(t, p).off = x
      BY <2>3 DEF Tx
    <3>2. o.off \in 0..MaxSlot
      BY DEF Tx
    <3> QED BY <1>5, <3>1, <3>2, Bounds
  <2> HIDE DEF x, j, n
  <2>6. PICK a \in Tx : a = [o EXCEPT !.dirty = @ \cup {p}, !.off = x]
    <3>1. o.dirty \cup {p} \in SUBSET Page
      BY DEF Tx
    <3>2. [o EXCEPT !.dirty = o.dirty \cup {p}, !.off = x] \in Tx
      BY <2>5, <3>1, TxTwo
    <3> QED BY <3>2
  <2>7. [a EXCEPT !.inJournal = j, !.needSync = n] \in Tx
    BY <2>4, TxTwo
  <2> QED BY <2>3, <2>6, <2>7
<1> QED BY <1>3, <1>4, <1>5

\* What is not changed keeps its type.
LEMMA SameJrnl ==
  ASSUME Types, UNCHANGED <<jrnl, jpend>> PROVE JrnlOK' /\ \A s \in Slot : At(s)' = At(s)
BY DEF Types, SharedOK, JrnlOK, At

LEMMA SameDb ==
  ASSUME Types, UNCHANGED <<db, dpend>> PROVE DbOK'
BY DEF Types, SharedOK, DbOK

LEMMA Kept ==
  ASSUME Types, env' = env, UNCHANGED <<files, cache, vers, draw, past>> PROVE SharedOK'
BY SameJrnl, SameDb DEF Types, SharedOK

LEMMA Quiet ==
  ASSUME CalmInv, NEW c \in env.conns, env' = env, NEW l, NEW k, Goto(c, l), Fits(c, l, k, tx[c]),
         mode' = [mode EXCEPT ![c] = k], UNCHANGED <<files, cache, vers, tx, draw, past>>
  PROVE  LockInv'
<1>1. LockInv /\ Types /\ c \in Conn
  BY Entry
<1>2. Moved(c, l, k, tx[c])
  BY <1>1 DEF Moved, Goto, Types
<1>3. SharedOK'
  BY <1>1, Kept
<1> QED BY <1>1, <1>2, <1>3, LockStep

LEMMA SameMode ==
  ASSUME Types, NEW c \in Conn, UNCHANGED mode PROVE mode' = [mode EXCEPT ![c] = mode[c]]
BY DEF Types

(***************************************************************************)
(* In what follows the lock levels are always expanded.                    *)
(***************************************************************************)
USE DEF PC, L!NO_LOCK, L!SHARED, L!RESERVED, L!PENDING, L!EXCLUSIVE, L!OthersAtMost

LEMMA RowsOK ==
  ASSUME Types
  PROVE  /\ jrnl.on \in BOOLEAN /\ Rows(jrnl.at)
         /\ \A s \in Slot : /\ At(s) \in SlotOK
                            /\ At(s).kind = "hdr" => At(s) \in HeaderOK
                            /\ At(s).kind = "rec" => At(s) \in RecordOK
                            /\ At(s).kind = "none" => At(s) = Nothing
<1>1. jrnl.on \in BOOLEAN /\ \A s \in Slot : At(s) \in SlotOK
  BY DEF Types, SharedOK, JrnlOK, At
<1>2. \A s \in Slot : /\ At(s).kind = "hdr" => At(s) \in HeaderOK
                      /\ At(s).kind = "rec" => At(s) \in RecordOK
                      /\ At(s).kind = "none" => At(s) = Nothing
  BY <1>1 DEF SlotOK, HeaderOK, RecordOK, Nothing
<1>3. \A s \in Slot : At(s).kind = "hdr" => At(s).n \in Nat
  <2> SUFFICES ASSUME NEW s \in Slot, At(s).kind = "hdr" PROVE At(s).n \in Nat
    OBVIOUS
  <2>1. At(s) \in HeaderOK
    BY <1>2
  <2>2. At(s).n \in 0..MaxSlot
    BY <2>1 DEF HeaderOK
  <2> QED BY <2>2
<1>4. Rows(jrnl.at)
  BY <1>3 DEF Rows, At
<1> QED BY <1>1, <1>2, <1>4

\* The content that the database file and its journal stand for, page by page.
LEMMA RestoredIs ==
  ASSUME Types
  PROVE  /\ Restored(jrnl, db) \in Book
         /\ ~Hot => Restored(jrnl, db) = db
         /\ Hot => \A p \in Page : Restored(jrnl, db)[p] =
              IF Of(p) = {} THEN (IF p > At(1).size THEN NoPage ELSE db[p]) ELSE At(Max(Of(p))).val
         /\ \A p \in Page : Of(p) \subseteq Slot
         /\ \A p \in Page : Of(p) # {} => Max(Of(p)) \in Of(p) /\ \A i \in Of(p) : i <= Max(Of(p))
<1>1. Play \subseteq {i \in Slot : At(i).kind = "rec"}
  BY RowsOK, PlayedRecs DEF Play, At
<1>2. \A p \in Page : Of(p) \subseteq Slot /\ Of(p) \subseteq 0..MaxSlot
  <2>1. Play \subseteq Slot
    BY <1>1
  <2>2. Slot \subseteq 0..MaxSlot
    BY Bounds
  <2> QED BY <2>1, <2>2 DEF Of
<1>3. ASSUME NEW p \in Page, Of(p) # {} PROVE Max(Of(p)) \in Of(p) /\ \A i \in Of(p) : i <= Max(Of(p))
  BY <1>2, <1>3, MaxOf, Bounds
<1>4. ~Hot => Restored(jrnl, db) = db
  BY DEF Hot, Restored
<1>5. ASSUME Hot
      PROVE  Restored(jrnl, db) = [p \in Page |->
               IF Of(p) = {} THEN (IF p > At(1).size THEN NoPage ELSE db[p]) ELSE At(Max(Of(p))).val]
  <2>1. Restored(jrnl, db) =
          [p \in Page |-> LET s == {i \in Play : At(i).pg = p} IN
             IF s = {} THEN Truncated(db, At(1).size)[p] ELSE At(Max(s)).val]
    BY <1>5 DEF Restored, Hot, Play, At
  <2>2. \A p \in Page : Truncated(db, At(1).size)[p] = IF p > At(1).size THEN NoPage ELSE db[p]
    BY DEF Truncated
  <2>3. \A p \in Page : Of(p) = {i \in Play : At(i).pg = p}
    BY DEF Of
  <2> QED BY <2>1, <2>2, <2>3
<1>6. db \in Book
  BY DEF Types, SharedOK, DbOK
<1>7. Restored(jrnl, db) \in Book
  <2>1. CASE ~Hot
    BY <1>4, <1>6, <2>1
  <2>2. CASE Hot
    <3>1. ASSUME NEW p \in Page, Of(p) # {} PROVE At(Max(Of(p))).val \in PageOK
      <4>1. Max(Of(p)) \in Slot /\ At(Max(Of(p))).kind = "rec"
        BY <3>1, <1>1, <1>3 DEF Of
      <4> QED BY <4>1, RowsOK DEF RecordOK
    <3>2. \A p \in Page : db[p] \in PageOK
      BY <1>6 DEF Book
    <3> QED BY <1>5, <2>2, <3>1, <3>2, Blanks DEF Book
  <2> QED BY <2>1, <2>2
<1> QED BY <1>2, <1>3, <1>4, <1>5, <1>7

(***************************************************************************)
(* Who holds what: one lemma per action.                                   *)
(***************************************************************************)
LEMMA HotExistsLock ==
  ASSUME CalmInv, NEW c \in env.conns, HotExists(c), env' = env
  PROVE  LockInv'
<1>1. LockInv /\ Types /\ c \in Conn /\ LockAt(c) /\ Holds(pc[c], mode[c], tx[c])
      /\ Does(pc[c], tx[c]) /\ mode[c] \in 0..4 /\ tx[c] \in Tx
  BY Entry
<1>2. PICK l \in {"hot2", "validate"} : Goto(c, l)
  BY DEF HotExists
<1>3. mode' = [mode EXCEPT ![c] = mode[c]]
  BY <1>1, SameMode DEF HotExists
<1>4. pc[c] = "hot1" /\ draw' = draw /\ UNCHANGED <<files, cache, vers, tx, past>>
  BY DEF HotExists
<1>5. Fits(c, l, mode[c], tx[c])
  BY <1>1, <1>2, <1>3, <1>4 DEF Fits, Holds, Does, LockAt, Writer
<1> QED BY <1>2, <1>3, <1>4, <1>5, Quiet

LEMMA HotReservedLock ==
  ASSUME CalmInv, NEW c \in env.conns, HotReserved(c), env' = env
  PROVE  LockInv'
<1>1. LockInv /\ Types /\ c \in Conn /\ LockAt(c) /\ Holds(pc[c], mode[c], tx[c])
      /\ Does(pc[c], tx[c]) /\ mode[c] \in 0..4 /\ tx[c] \in Tx
  BY Entry
<1>2. PICK l \in {"hot3", "validate"} : Goto(c, l)
  BY DEF HotReserved
<1>3. mode' = [mode EXCEPT ![c] = mode[c]]
  BY <1>1, SameMode DEF HotReserved
<1>4. pc[c] = "hot2" /\ draw' = draw /\ UNCHANGED <<files, cache, vers, tx, past>>
  BY DEF HotReserved
<1>5. Fits(c, l, mode[c], tx[c])
  BY <1>1, <1>2, <1>3, <1>4 DEF Fits, Holds, Does, LockAt, Writer
<1> QED BY <1>2, <1>3, <1>4, <1>5, Quiet

LEMMA HotReadLock ==
  ASSUME CalmInv, NEW c \in env.conns, HotRead(c), env' = env
  PROVE  LockInv'
<1>1. LockInv /\ Types /\ c \in Conn /\ LockAt(c) /\ Holds(pc[c], mode[c], tx[c])
      /\ Does(pc[c], tx[c]) /\ mode[c] \in 0..4 /\ tx[c] \in Tx
  BY Entry
<1>2. PICK l \in {"hotlock", "validate"} : Goto(c, l)
  BY DEF HotRead
<1>3. mode' = [mode EXCEPT ![c] = mode[c]]
  BY <1>1, SameMode DEF HotRead
<1>4. pc[c] = "hot3" /\ draw' = draw /\ UNCHANGED <<files, cache, vers, tx, past>>
  BY DEF HotRead
<1>5. Fits(c, l, mode[c], tx[c])
  BY <1>1, <1>2, <1>3, <1>4 DEF Fits, Holds, Does, LockAt, Writer
<1> QED BY <1>2, <1>3, <1>4, <1>5, Quiet

LEMMA HotLockLock ==
  ASSUME CalmInv, NEW c \in env.conns, HotLock(c), env' = env
  PROVE  LockInv'
<1>1. LockInv /\ Types /\ c \in Conn /\ LockAt(c) /\ Holds(pc[c], mode[c], tx[c])
      /\ Does(pc[c], tx[c]) /\ mode[c] \in 0..4 /\ tx[c] \in Tx
  BY Entry
<1>2. PICK l \in {"hotopen"} : Goto(c, l)
  BY DEF HotLock
<1>3. mode' = [mode EXCEPT ![c] = 4] /\ Lone(c)
  <2>1. \A d \in Conn : mode[d] \in 0..4
    BY <1>1 DEF Types
  <2> QED BY <1>1, <2>1 DEF HotLock, L!Exclusive, Lone
<1>4. pc[c] = "hotlock" /\ draw' = draw /\ UNCHANGED <<files, cache, vers, tx, past>>
  BY DEF HotLock
<1>5. Fits(c, l, 4, tx[c])
  BY <1>1, <1>2, <1>3, <1>4 DEF Fits, Holds, Does, LockAt, Writer
<1> QED BY <1>2, <1>3, <1>4, <1>5, Quiet

LEMMA BackOffLock ==
  ASSUME CalmInv, NEW c \in env.conns, BackOff(c), env' = env
  PROVE  LockInv'
<1>1. LockInv /\ Types /\ c \in Conn /\ LockAt(c) /\ Holds(pc[c], mode[c], tx[c])
      /\ Does(pc[c], tx[c]) /\ mode[c] \in 0..4 /\ tx[c] \in Tx
  BY Entry
<1>2. PICK l \in {"idle"} : Goto(c, l)
  BY DEF BackOff
<1>3. mode' = [mode EXCEPT ![c] = 0]
  BY DEF BackOff, Lower
<1>4. pc[c] = "backoff" /\ draw' = draw /\ UNCHANGED <<files, cache, vers, tx, past>>
  BY DEF BackOff
<1>5. Fits(c, l, 0, tx[c])
  BY <1>1, <1>2, <1>3, <1>4 DEF Fits, Holds, Does, LockAt, Writer
<1> QED BY <1>2, <1>3, <1>4, <1>5, Quiet

LEMMA EndReadLock ==
  ASSUME CalmInv, NEW c \in env.conns, EndRead(c), env' = env
  PROVE  LockInv'
<1>1. LockInv /\ Types /\ c \in Conn /\ LockAt(c) /\ Holds(pc[c], mode[c], tx[c])
      /\ Does(pc[c], tx[c]) /\ mode[c] \in 0..4 /\ tx[c] \in Tx
  BY Entry
<1>2. PICK l \in {"idle"} : Goto(c, l)
  BY DEF EndRead
<1>3. mode' = [mode EXCEPT ![c] = 0]
  BY DEF EndRead, Lower
<1>4. pc[c] = "read" /\ draw' = draw /\ UNCHANGED <<files, cache, vers, tx, past>>
  BY DEF EndRead
<1>5. Fits(c, l, 0, tx[c])
  BY <1>1, <1>2, <1>3, <1>4 DEF Fits, Holds, Does, LockAt, Writer
<1> QED BY <1>2, <1>3, <1>4, <1>5, Quiet

LEMMA HotBusyLock ==
  ASSUME CalmInv, NEW c \in env.conns, HotBusy(c), env' = env
  PROVE  LockInv'
<1>1. LockInv /\ Types /\ c \in Conn /\ LockAt(c) /\ Holds(pc[c], mode[c], tx[c])
      /\ Does(pc[c], tx[c]) /\ mode[c] \in 0..4 /\ tx[c] \in Tx
  BY Entry
<1>2. Goto(c, "backoff") /\ pc[c] = "hotlock" /\ mode[c] = 1 /\ draw' = draw /\ UNCHANGED <<files, cache, vers, tx, past>>
  BY <1>1 DEF HotBusy, Holds
<1>3. PICK k \in {1, 3} : mode' = [mode EXCEPT ![c] = k]
  BY <1>1, <1>2, SameMode DEF HotBusy, L!Pending
<1>4. Fits(c, "backoff", k, tx[c])
  BY <1>1, <1>2, <1>3 DEF Fits, Holds, Does, LockAt, Writer
<1> QED BY <1>2, <1>3, <1>4, Quiet

LEMMA ExclLock ==
  ASSUME CalmInv, NEW c \in env.conns, Excl(c), env' = env
  PROVE  LockInv'
<1>1. LockInv /\ Types /\ c \in Conn /\ LockAt(c) /\ Holds(pc[c], mode[c], tx[c])
      /\ Does(pc[c], tx[c]) /\ mode[c] \in 0..4 /\ tx[c] \in Tx
  BY Entry
<1>2. Goto(c, "next") /\ pc[c] = "excl" /\ draw' = draw /\ UNCHANGED <<files, cache, vers, tx, past>>
  BY DEF Excl
<1>3. mode' = [mode EXCEPT ![c] = 4] /\ (mode[c] = 4 \/ Lone(c)) /\ mode[c] # 0
  <2>1. \A d \in Conn : mode[d] \in 0..4
    BY <1>1 DEF Types
  <2> QED BY <1>1, <2>1, SameMode DEF Excl, L!Exclusive, Lone
<1>4. Fits(c, "next", 4, tx[c])
  BY <1>1, <1>2, <1>3 DEF Fits, Holds, Does, LockAt, Writer
<1> QED BY <1>2, <1>3, <1>4, Quiet

LEMMA ShareLock ==
  ASSUME CalmInv, NEW c \in env.conns, Share(c), env' = env
  PROVE  LockInv'
<1>1. LockInv /\ Types /\ c \in Conn /\ LockAt(c) /\ Holds(pc[c], mode[c], tx[c])
      /\ Does(pc[c], tx[c]) /\ mode[c] \in 0..4 /\ tx[c] \in Tx
  BY Entry
<1>2. Goto(c, "hot1") /\ pc[c] = "idle" /\ draw' = draw /\ UNCHANGED <<files, cache, vers, tx>>
  BY DEF Share
<1>3. mode' = [mode EXCEPT ![c] = 1] /\ \A d \in Conn \ {c} : mode[d] # 4
  <2>1. \A d \in Conn : mode[d] \in 0..4
    BY <1>1 DEF Types
  <2> QED BY <2>1 DEF Share, L!Shared
<1>4. Fits(c, "hot1", 1, tx[c])
  BY <1>1, <1>2, <1>3 DEF Fits, Holds, Does, LockAt, Writer
<1>5. past' \in Seq(Book) /\ past' # <<>>
  <2>1. Restored(jrnl, db) \in Book /\ past \in Seq(Book) /\ past # <<>>
    BY <1>1, RestoredIs DEF Types, SharedOK
  <2>2. past' = past \/ past' = Append(past, Restored(jrnl, db))
    BY DEF Share, Settle
  <2> QED BY <2>1, <2>2
<1>6. SharedOK'
  BY <1>1, <1>2, <1>5, SameJrnl, SameDb DEF Types, SharedOK
<1>7. Moved(c, "hot1", 1, tx[c])
  BY <1>1, <1>2, <1>3 DEF Moved, Goto, Types
<1> QED BY <1>1, <1>4, <1>6, <1>7, LockStep

LEMMA TxOne ==
  ASSUME Types, NEW c \in Conn
  PROVE  /\ \A g, w : [tx EXCEPT ![c].goal = g, ![c].todo = w] =
                      [tx EXCEPT ![c] = [tx[c] EXCEPT !.goal = g, !.todo = w]]
         /\ \A g, w, d : [tx EXCEPT ![c].dirty = d, ![c].todo = w, ![c].goal = g] =
                      [tx EXCEPT ![c] = [[tx[c] EXCEPT !.dirty = d, !.todo = w] EXCEPT !.goal = g]]
         /\ \A w : [tx EXCEPT ![c].todo = w] = [tx EXCEPT ![c] = [tx[c] EXCEPT !.todo = w]]
         /\ \A o : [tx EXCEPT ![c].off = o] = [tx EXCEPT ![c] = [tx[c] EXCEPT !.off = o]]
BY DEF Types, Tx

\* What EXCEPT leaves of a transaction.
LEMMA TxFields ==
  ASSUME NEW t \in Tx
  PROVE  /\ \A g, w : LET u == [t EXCEPT !.goal = g, !.todo = w] IN
              /\ u.ver = t.ver /\ u.dirty = t.dirty /\ u.needSync = t.needSync
              /\ u.inJournal = t.inJournal /\ u.size = t.size /\ u.hdr = t.hdr /\ u.off = t.off
              /\ u.dbmod = t.dbmod /\ u.goal = g /\ u.todo = w
         /\ \A w : LET u == [t EXCEPT !.todo = w] IN
              /\ u.ver = t.ver /\ u.dirty = t.dirty /\ u.needSync = t.needSync
              /\ u.inJournal = t.inJournal /\ u.size = t.size /\ u.hdr = t.hdr /\ u.off = t.off
              /\ u.dbmod = t.dbmod /\ u.goal = t.goal /\ u.todo = w
         /\ \A o : LET u == [t EXCEPT !.off = o] IN
              /\ u.ver = t.ver /\ u.dirty = t.dirty /\ u.needSync = t.needSync
              /\ u.inJournal = t.inJournal /\ u.size = t.size /\ u.hdr = t.hdr /\ u.off = o
              /\ u.dbmod = t.dbmod /\ u.goal = t.goal /\ u.todo = t.todo
         /\ \A g, w, d : LET u == [[t EXCEPT !.dirty = d, !.todo = w] EXCEPT !.goal = g] IN
              /\ u.ver = t.ver /\ u.dirty = d /\ u.needSync = t.needSync
              /\ u.inJournal = t.inJournal /\ u.size = t.size /\ u.hdr = t.hdr /\ u.off = t.off
              /\ u.dbmod = t.dbmod /\ u.goal = g /\ u.todo = w
         /\ \A h, n, m : LET u == [t EXCEPT !.hdr = h, !.needSync = n, !.dbmod = m] IN
              /\ u.ver = t.ver /\ u.dirty = t.dirty /\ u.needSync = n
              /\ u.inJournal = t.inJournal /\ u.size = t.size /\ u.hdr = h /\ u.off = t.off
              /\ u.dbmod = m /\ u.goal = t.goal /\ u.todo = t.todo
BY DEF Tx

LEMMA SizeOK ==
  ASSUME NEW d
  PROVE  /\ Size(d) \in 0..NPage /\ \A p \in Page : p > Size(d) => d[p] = NoPage
         /\ Size(d) # 0 => Size(d) \in Page /\ d[Size(d)] # NoPage
<1> DEFINE T == {0} \cup {p \in Page : d[p] # NoPage}
<1>1. T \subseteq 0..NPage /\ T # {} /\ NPage \in Nat
  BY Bounds
<1>2. Max(T) \in T /\ \A y \in T : y <= Max(T)
  <2> HIDE DEF T
  <2> QED BY <1>1, MaxOf
<1>3. Size(d) = Max(T)
  BY DEF Size
<1>4. ASSUME NEW p \in Page, p > Max(T) PROVE d[p] = NoPage
  <2>1. Max(T) \in Nat /\ p \in Nat
    BY <1>1, <1>2, Bounds
  <2>2. p \notin T
    <3> HIDE DEF T
    <3> QED BY <1>2, <1>4, <2>1
  <2> QED BY <2>2
<1>5. Max(T) \in 0..NPage
  <2> HIDE DEF T
  <2> QED BY <1>1, <1>2
<1>6. Max(T) # 0 => Max(T) \in Page /\ d[Max(T)] # NoPage
  BY <1>2
<1> HIDE DEF T
<1> QED BY <1>3, <1>4, <1>5, <1>6

\* Who writes holds a lock above SHARED.
LEMMA WriterMode ==
  ASSUME LockInv, NEW d \in Conn, Writer(d)
  PROVE  /\ pc[d] \in Opening \cup Storing \cup Ending /\ mode[d] \in 2..4
         /\ tx[d].ver = draw
<1>1. LockAt(d) /\ pc[d] \in PC
  BY DEF LockInv, Types
<1>2. pc[d] \notin Waiting
  BY <1>1, Blanks DEF LockAt, Does, Writer
<1> QED BY <1>1, <1>2 DEF LockAt, Holds

LEMMA ValidateLock ==
  ASSUME CalmInv, NEW c \in env.conns, Validate(c), env' = env
  PROVE  LockInv'
<1>1. LockInv /\ Types /\ SharedOK /\ c \in Conn /\ LockAt(c) /\ Holds(pc[c], mode[c], tx[c])
      /\ Does(pc[c], tx[c]) /\ mode[c] \in 0..4 /\ tx[c] \in Tx /\ cache[c] \in Book
      /\ vers[c] \in 0..MaxVer /\ tx[c].hdr \in 0..MaxSlot + 1 /\ tx[c].off \in 0..MaxSlot
  BY Entry
<1>2. Goto(c, "read") /\ pc[c] = "validate" /\ draw' = draw /\ UNCHANGED <<mode, files, tx, past>>
  BY DEF Validate
<1>3. mode' = [mode EXCEPT ![c] = mode[c]] /\ Moved(c, "read", mode[c], tx[c])
  BY <1>1, <1>2, SameMode DEF Moved, Goto, Types
<1>4. Fits(c, "read", mode[c], tx[c])
  BY <1>1, <1>2 DEF Fits, Holds, Does, LockAt, Writer
<1>5. cache' \in [Conn -> Book] /\ vers' \in [Conn -> 0..MaxVer]
  <2> DEFINE kept == IF CacheIsStale(c) THEN [p \in Page |-> NoPage] ELSE cache[c]
             read == kept[1] = NoPage
  <2>1. db[1] \in PageOK /\ db[1].ctr \in 0..MaxVer /\ 1 \in Page
    BY <1>1, Bounds DEF SharedOK, DbOK, Book, PageOK
  <2>2. kept \in Book
    BY <1>1, Blanks
  <2>3. /\ cache' = [cache EXCEPT ![c] = IF read THEN [kept EXCEPT ![1] = db[1]] ELSE kept]
        /\ vers' = [vers EXCEPT ![c] = IF read THEN db[1].ctr ELSE @]
    BY DEF Validate
  <2> HIDE DEF kept, read
  <2>4. [kept EXCEPT ![1] = db[1]] \in Book
    BY <2>1, <2>2 DEF Book
  <2> QED BY <1>1, <2>1, <2>2, <2>3, <2>4 DEF SharedOK
<1>6. SharedOK'
  BY <1>1, <1>2, <1>5, SameJrnl, SameDb DEF SharedOK
<1> QED BY <1>1, <1>3, <1>4, <1>6, LockStep

LEMMA ReadLock ==
  ASSUME CalmInv, NEW c \in env.conns, NEW p \in Page, Read(c, p), env' = env
  PROVE  LockInv'
<1>1. LockInv /\ Types /\ SharedOK /\ c \in Conn /\ LockAt(c) /\ Holds(pc[c], mode[c], tx[c])
      /\ Does(pc[c], tx[c]) /\ mode[c] \in 0..4 /\ tx[c] \in Tx /\ pc[c] \in PC
  BY Entry
<1>2. cache' = [cache EXCEPT ![c][p] = db[p]] /\ draw' = draw /\ UNCHANGED <<mode, files, pc, vers, tx, past>>
  BY DEF Read
<1>3. Moved(c, pc[c], mode[c], tx[c])
  BY <1>1, <1>2 DEF Moved, Types
<1>4. Fits(c, pc[c], mode[c], tx[c])
  BY <1>1, <1>2 DEF Fits, LockAt, Writer
<1>5. cache' \in [Conn -> Book]
  <2>1. db[p] \in PageOK
    BY <1>1 DEF SharedOK, DbOK, Book
  <2> QED BY <1>1, <1>2, <2>1 DEF SharedOK, Book
<1>6. SharedOK'
  BY <1>1, <1>2, <1>5, SameJrnl, SameDb DEF SharedOK
<1> QED BY <1>1, <1>3, <1>4, <1>6, LockStep

LEMMA HotOpenLock ==
  ASSUME CalmInv, NEW c \in env.conns, HotOpen(c), env' = env
  PROVE  LockInv'
<1>1. LockInv /\ Types /\ SharedOK /\ c \in Conn /\ LockAt(c) /\ Holds(pc[c], mode[c], tx[c])
      /\ Does(pc[c], tx[c]) /\ mode[c] \in 0..4 /\ tx[c] \in Tx /\ cache[c] \in Book
      /\ vers[c] \in 0..MaxVer /\ tx[c].hdr \in 0..MaxSlot + 1 /\ tx[c].off \in 0..MaxSlot
  BY Entry
<1>2. pc[c] = "hotopen" /\ mode[c] = 4 /\ tx[c] = NoTx /\ draw' = draw /\ past' = past
  BY <1>1 DEF HotOpen, Holds, Does
<1>3. CASE ~jrnl.on
  <2>1. mode' = [mode EXCEPT ![c] = 1] /\ Goto(c, "validate") /\ UNCHANGED <<files, cache, vers, tx>>
    BY <1>3 DEF HotOpen, Lower
  <2>2. Fits(c, "validate", 1, tx[c])
    BY <1>1, <1>2 DEF Fits, Holds, Does, Writer, NoTx
  <2> QED BY <1>2, <2>1, <2>2, Quiet
<1>4. CASE jrnl.on
  <2> DEFINE todo == Played(jrnl, 0)
             t == [NoTx EXCEPT !.goal = "hot", !.todo = todo, !.dbmod = TRUE, !.hdr = MaxSlot + 1,
                               !.off = IF Hot THEN 1 ELSE 0]
  <2>1. /\ SyncFile /\ jrnl' = jrnl
        /\ IF Hot THEN TruncateDb(jrnl.at[1].size) ELSE UNCHANGED <<db, dpend>>
        /\ cache' = cache \/ Forget(c)
        /\ tx' = [tx EXCEPT ![c] = t] /\ Goto(c, "play") /\ UNCHANGED <<mode, vers>>
    BY <1>4 DEF HotOpen
  <2>2. todo \subseteq Nat
    BY <1>1, RowsOK, PlayedRecs, Bounds
  <2>3. /\ t.ver = 0 /\ t.hdr = MaxSlot + 1 /\ t.off = (IF Hot THEN 1 ELSE 0) /\ t.dbmod = TRUE
        /\ t.goal = "hot" /\ t.todo = todo
    BY DEF NoTx
  <2>4. t \in Tx
    <3>1. (IF Hot THEN 1 ELSE 0) \in 0..MaxSlot /\ MaxSlot + 1 \in 0..MaxSlot + 1
      BY Bounds
    <3>2. PICK u \in Tx : u = [NoTx EXCEPT !.goal = "hot", !.todo = todo]
      BY <2>2, Blanks, TxTwo DEF Goal
    <3>3. PICK v \in Tx : v = [u EXCEPT !.dbmod = TRUE]
      BY TxTwo
    <3>4. [v EXCEPT !.hdr = MaxSlot + 1, !.off = IF Hot THEN 1 ELSE 0] \in Tx
      BY <3>1, TxTwo
    <3> QED BY <3>2, <3>3, <3>4
  <2> HIDE DEF t, todo
  <2>5. Fits(c, "play", 4, t)
    <3>1. Holds("play", 4, t)
      BY DEF Holds
    <3>2. Does("play", t) /\ t.ver = 0
      BY <2>3 DEF Does
    <3> QED BY <1>1, <1>2, <2>4, <3>1, <3>2 DEF Fits
  <2>6. Moved(c, "play", 4, t)
    BY <1>1, <1>2, <2>1, SameMode DEF Moved, Goto
  <2>7. JrnlOK'
    BY <1>1, <2>1, SyncOK DEF SyncFile
  <2>8. DbOK'
    <3>1. Hot => jrnl.at[1].size \in Nat
      <4>1. Hot => At(1) \in HeaderOK
        BY <1>1, RowsOK, Bounds DEF Hot, IsHeader, At
      <4> QED BY <4>1, Bounds DEF HeaderOK, At
    <3> QED BY <1>1, <2>1, <3>1, SameDb, TruncateOK
  <2>9. cache' \in [Conn -> Book]
    BY <1>1, <2>1, ForgetOK DEF SharedOK
  <2>10. SharedOK'
    BY <1>1, <1>2, <2>1, <2>7, <2>8, <2>9 DEF SharedOK
  <2> QED BY <1>1, <2>5, <2>6, <2>10, LockStep
<1> QED BY <1>3, <1>4

LEMMA ReserveLock ==
  ASSUME CalmInv, NEW c \in env.conns, Reserve(c), env' = env
  PROVE  LockInv'
<1>1. LockInv /\ Types /\ SharedOK /\ c \in Conn /\ LockAt(c) /\ Holds(pc[c], mode[c], tx[c])
      /\ Does(pc[c], tx[c]) /\ mode[c] \in 0..4 /\ tx[c] \in Tx /\ cache[c] \in Book
      /\ vers[c] \in 0..MaxVer /\ tx[c].hdr \in 0..MaxSlot + 1 /\ tx[c].off \in 0..MaxSlot
  BY Entry
<1>2. /\ c \in env.writers /\ pc[c] = "read" /\ draw < env.vers /\ mode[c] = 1
      /\ draw' = draw + 1 /\ tx' = [tx EXCEPT ![c] = [NoTx EXCEPT !.ver = draw', !.size = Size(db)]]
      /\ Goto(c, "write") /\ UNCHANGED <<files, cache, vers, past>> /\ ~ReservedElsewhere(c)
      /\ mode' = [mode EXCEPT ![c] = 2]
  BY <1>1 DEF Reserve, Holds, L!Reserved
<1>3. draw' \in 1..MaxVer
  BY <1>1, <1>2, Surrounding, Bounds, SMTT(30) DEF SharedOK
<1> DEFINE t == [NoTx EXCEPT !.ver = draw', !.size = Size(db)]
<1>4. /\ t.ver = draw' /\ t.hdr = 0 /\ t.off = 0 /\ t.dbmod = FALSE /\ t.goal = "none" /\ t.todo = {}
  BY DEF NoTx
<1>5. t \in Tx
  <2>1. Size(db) \in 0..NPage /\ draw' \in 0..MaxVer
    BY <1>3, SizeOK, Bounds
  <2> QED BY <2>1, Blanks, TxTwo
<1> HIDE DEF t
<1>6. \A d \in Conn \ {c} : ~Writer(d)
  <2> SUFFICES ASSUME NEW d \in Conn \ {c}, Writer(d) PROVE FALSE
    OBVIOUS
  <2>1. mode[d] \in 2..4
    BY <1>1, WriterMode
  <2> QED BY <1>2, <2>1 DEF ReservedElsewhere, Writer
<1>7. Fits(c, "write", 2, t)
  <2>1. Holds("write", 2, t) /\ Does("write", t) /\ t.ver = draw'
    BY <1>3, <1>4 DEF Holds, Does
  <2> QED BY <1>2, <1>5, <1>6, <2>1 DEF Fits
<1>8. Moved(c, "write", 2, t)
  BY <1>2 DEF Moved, Goto, t
<1>9. SharedOK'
  BY <1>1, <1>2, <1>3, SameJrnl, SameDb DEF SharedOK
<1> QED BY <1>1, <1>7, <1>8, <1>9, LockStep

LEMMA MakeWritableOK ==
  ASSUME Types, NEW c \in Conn, NEW p \in Page, MakeWritable(c, p),
         NEW t, t = tx[c], NEW new, new = Writable(t, p)
  PROVE  /\ t \in Tx /\ new \in Tx /\ new.off \in 0..MaxSlot /\ JrnlOK' /\ jrnl'.on
         /\ Journals(t, p) => new.off \in Slot
         /\ \A s \in Slot : /\ At(s)' = IF Journals(t, p) /\ s = new.off
                                        THEN Record(p, cache[c][p], <<t.ver, new.hdr>>)
                                        ELSE IF t.hdr = 0 /\ s = 1 THEN Header(FALSE, 0, <<t.ver, 1>>, t.size)
                                        ELSE At(s)
                            /\ (~(t.hdr = 0 /\ s = 1) /\ ~(Journals(t, p) /\ s = new.off)) => jpend'[s] = jpend[s]
<1> DEFINE header == IF t.hdr = 0 THEN {1} ELSE {}
           record == IF Journals(t, p) THEN {new.off} ELSE {}
           w == [s \in header \cup record |->
                   IF s \in record THEN Record(p, cache[c][p], <<t.ver, new.hdr>>)
                                   ELSE Header(FALSE, 0, <<t.ver, 1>>, t.size)]
<1>1. new.off <= env.slots /\ WriteJournal(w)
  BY DEF MakeWritable
<1>2. t \in Tx /\ cache[c] \in Book
  BY DEF Types, SharedOK
<1>3. /\ new.hdr = (IF t.hdr = 0 THEN 1 ELSE t.hdr)
      /\ new.off = (IF t.hdr = 0 THEN 1 ELSE t.off) + (IF Journals(t, p) THEN 1 ELSE 0)
      /\ new.off <= MaxSlot => new \in Tx
  BY <1>2, WritableIs
<1>4. t.hdr \in Nat /\ t.off \in Nat /\ t.size \in 0..NPage /\ t.ver \in Nat
  BY <1>2, Bounds DEF Tx
<1>5. new.off \in Nat /\ new.off <= MaxSlot /\ new.hdr \in Nat
  <2>1. \A n \in Nat : n + 0 \in Nat /\ n + 1 \in Nat
    OBVIOUS
  <2>2. new.off \in Nat /\ new.hdr \in Nat
    BY <1>3, <1>4, <2>1, SMTT(30)
  <2> QED BY <1>1, <2>2, Surrounding, Bounds, SMTT(30)
<1>6. new \in Tx /\ (Journals(t, p) => new.off \in Slot)
  BY <1>3, <1>4, <1>5, Bounds
<1>7. \A s \in DOMAIN w : w[s] \in SlotOK
  <2>1. Record(p, cache[c][p], <<t.ver, new.hdr>>) \in SlotOK
    BY <1>2, <1>4, <1>5 DEF Record, SlotOK, RecordOK, Book
  <2>2. Header(FALSE, 0, <<t.ver, 1>>, t.size) \in SlotOK
    BY <1>4, Bounds DEF Header, SlotOK, HeaderOK
  <2> QED BY <2>1, <2>2
<1>8. DOMAIN w = header \cup record
  OBVIOUS
<1>9. /\ JrnlOK' /\ jrnl'.on
      /\ \A s \in Slot : /\ At(s)' = IF s \in DOMAIN w THEN w[s] ELSE At(s)
                         /\ s \notin DOMAIN w => jpend'[s] = jpend[s]
  <2> HIDE DEF w
  <2> QED BY <1>1, <1>7, WriteJournalOK
<1>10. ASSUME NEW s \in Slot
       PROVE  /\ At(s)' = IF Journals(t, p) /\ s = new.off
                          THEN Record(p, cache[c][p], <<t.ver, new.hdr>>)
                          ELSE IF t.hdr = 0 /\ s = 1 THEN Header(FALSE, 0, <<t.ver, 1>>, t.size)
                          ELSE At(s)
              /\ (~(t.hdr = 0 /\ s = 1) /\ ~(Journals(t, p) /\ s = new.off)) => jpend'[s] = jpend[s]
  BY <1>8, <1>9
<1> HIDE DEF header, record, w
<1>11. new.off \in 0..MaxSlot
  BY <1>5, Bounds
<1> QED BY <1>2, <1>6, <1>9, <1>10, <1>11

\* The journal of who writes.
LEMMA WriterHas ==
  ASSUME CalmInv, NEW c \in env.conns, pc[c] \in Opening \cup Storing
  PROVE  /\ Writer(c) /\ JournalOf(c) /\ WriterOf(c) /\ Writes(c) /\ tx[c].ver = draw
         /\ tx[c].hdr # 0 => Journal(c) /\ JournalAt(c)
         /\ tx[c].hdr = 0 => NotOpened(tx[c])
         /\ pc[c] # "write" => tx[c].hdr # 0
<1>1. LockInv /\ c \in Conn /\ LockAt(c)
  BY Entry
<1>2. Writer(c) /\ (pc[c] # "write" => tx[c].hdr # 0) /\ tx[c].ver = draw
  BY <1>1 DEF LockAt, Does, Writer
<1>3. JournalOf(c)
  BY <1>1, <1>2 DEF CalmInv, JournalInv
<1>4. WriterOf(c) /\ Writes(c)
  BY <1>1, <1>2 DEF CalmInv, DataInv, WriterOf
<1> QED BY <1>2, <1>3, <1>4 DEF JournalOf

LEMMA ModifyLock ==
  ASSUME CalmInv, NEW c \in env.conns, NEW p \in Page, Modify(c, p), env' = env
  PROVE  LockInv'
<1>1. LockInv /\ Types /\ SharedOK /\ c \in Conn /\ LockAt(c) /\ Holds(pc[c], mode[c], tx[c])
      /\ Does(pc[c], tx[c]) /\ mode[c] \in 0..4 /\ tx[c] \in Tx
  BY Entry
<1>2. /\ pc[c] = "write" /\ MakeWritable(c, p) /\ tx' = [tx EXCEPT ![c] = Writable(tx[c], p)]
      /\ cache' = [cache EXCEPT ![c][p].ver = tx[c].ver]
      /\ UNCHANGED <<mode, db, dpend, pc, vers, draw, past>>
  BY DEF Modify
<1> DEFINE new == Writable(tx[c], p)
<1>3. new \in Tx /\ JrnlOK'
  BY <1>1, <1>2, MakeWritableOK
<1>4. /\ new.ver = tx[c].ver /\ new.dbmod = tx[c].dbmod /\ new.goal = tx[c].goal
      /\ new.todo = tx[c].todo
  BY <1>1, WritableIs
<1>5. Moved(c, "write", mode[c], new)
  BY <1>1, <1>2 DEF Moved, Types
<1> HIDE DEF new
<1>6. Fits(c, "write", mode[c], new)
  BY <1>1, <1>2, <1>3, <1>4 DEF Fits, Holds, Does, LockAt, Writer
<1>7. cache' \in [Conn -> Book]
  <2>1. tx[c].ver \in 0..MaxVer
    BY <1>1 DEF Tx
  <2>2. cache[c] \in Book /\ cache[c][p] \in PageOK
    BY <1>1 DEF SharedOK, Book
  <2>3. [cache[c][p] EXCEPT !.ver = tx[c].ver] \in PageOK
    BY <2>1, <2>2 DEF PageOK
  <2>4. [cache[c] EXCEPT ![p] = [cache[c][p] EXCEPT !.ver = tx[c].ver]] \in Book
    BY <2>2, <2>3 DEF Book
  <2>5. cache' = [cache EXCEPT ![c] = [cache[c] EXCEPT ![p] = [cache[c][p] EXCEPT !.ver = tx[c].ver]]]
    BY <1>2
  <2> QED BY <1>1, <2>4, <2>5 DEF SharedOK
<1>8. SharedOK'
  BY <1>1, <1>2, <1>3, <1>7, SameDb DEF SharedOK
<1> QED BY <1>1, <1>5, <1>6, <1>8, LockStep

LEMMA CommitLock ==
  ASSUME CalmInv, NEW c \in env.conns, Commit(c), env' = env
  PROVE  LockInv'
<1>1. LockInv /\ Types /\ SharedOK /\ c \in Conn /\ LockAt(c) /\ Holds(pc[c], mode[c], tx[c])
      /\ Does(pc[c], tx[c]) /\ mode[c] \in 0..4 /\ tx[c] \in Tx /\ cache[c] \in Book
      /\ vers[c] \in 0..MaxVer /\ tx[c].hdr \in 0..MaxSlot + 1 /\ tx[c].off \in 0..MaxSlot
  BY Entry
<1>2. /\ pc[c] = "write" /\ tx[c].hdr # 0 /\ MakeWritable(c, 1)
      /\ tx' = [tx EXCEPT ![c] = [Writable(tx[c], 1) EXCEPT !.goal = "commit", !.todo = tx[c].dirty \cup {1}]]
      /\ cache' = [cache EXCEPT ![c][1].ctr = vers[c] + 1]
      /\ Goto(c, "excl") /\ UNCHANGED <<mode, db, dpend, vers, draw, past>>
  BY DEF Commit
<1>3. 1 \in Page
  BY Bounds
<1>4. PICK new \in Tx : new = Writable(tx[c], 1) /\ JrnlOK'
  BY <1>1, <1>2, <1>3, MakeWritableOK
<1>5. /\ new.ver = tx[c].ver /\ new.dbmod = tx[c].dbmod /\ new.hdr = tx[c].hdr
  BY <1>1, <1>2, <1>3, <1>4, WritableIs
<1>6. PICK t : t = [new EXCEPT !.goal = "commit", !.todo = tx[c].dirty \cup {1}]
  OBVIOUS
<1>7. t \in Tx
  <2>1. tx[c].dirty \cup {1} \in SUBSET Nat
    BY <1>1, Bounds, SMTT(30) DEF Tx
  <2> QED BY <2>1, <1>6, TxTwo DEF Goal
<1>8. /\ t.ver = tx[c].ver /\ t.dbmod = tx[c].dbmod /\ t.hdr = tx[c].hdr /\ t.goal = "commit"
      /\ t.todo = tx[c].dirty \cup {1}
  BY <1>5, <1>6 DEF Tx
<1>9. Moved(c, "excl", mode[c], t)
  BY <1>1, <1>2, <1>4, <1>6, SameMode DEF Moved, Goto
<1>10. Fits(c, "excl", mode[c], t)
  <2>1. t.todo \subseteq Page
    BY <1>1, <1>3, <1>8 DEF Tx
  <2> QED BY <1>1, <1>2, <1>7, <1>8, <2>1 DEF Fits, Holds, Does, LockAt, Writer
<1>11. vers[c] + 1 \in 0..MaxVer
  <2>1. Writes(c) /\ WriterOf(c)
    BY <1>2, WriterHas
  <2>2. vers[c] = K[1].ctr /\ N < draw
    <3>1. tx[c].goal # "commit"
      BY <1>1, <1>2 DEF Does
    <3> QED BY <2>1, <3>1 DEF Writes, WriterOf
  <2>3. K[1].ctr = N
    BY <1>1 DEF CalmInv, DataInv, PastOK, K, N, SharedOK
  <2>4. draw \in 1..MaxVer /\ N \in Nat
    BY <1>1 DEF SharedOK, N
  <2> QED BY <2>2, <2>3, <2>4, Bounds
<1>12. cache' \in [Conn -> Book]
  BY <1>1, <1>2, <1>3, <1>11 DEF SharedOK, Book, PageOK
<1>13. SharedOK'
  BY <1>1, <1>2, <1>4, <1>12, SameDb DEF SharedOK
<1> QED BY <1>1, <1>9, <1>10, <1>13, LockStep

LEMMA SpillLock ==
  ASSUME CalmInv, NEW c \in env.conns, NEW p \in Page, Spill(c, p), env' = env
  PROVE  LockInv'
<1>1. LockInv /\ Types /\ SharedOK /\ c \in Conn /\ LockAt(c) /\ Holds(pc[c], mode[c], tx[c])
      /\ Does(pc[c], tx[c]) /\ mode[c] \in 0..4 /\ tx[c] \in Tx
  BY Entry
<1>2. PICK l \in {"excl", "store"} : Goto(c, l) /\ (l = "store" => tx[c].dbmod)
  BY <1>1 DEF Spill, Tx
<1>3. /\ pc[c] = "write" /\ p \in tx[c].dirty /\ UNCHANGED <<mode, files, cache, vers, draw, past>>
      /\ tx' = [tx EXCEPT ![c].goal = "spill", ![c].todo = {p}]
  BY DEF Spill
<1>4. PICK t : t = [tx[c] EXCEPT !.goal = "spill", !.todo = {p}]
  OBVIOUS
<1>5. t \in Tx
  <2>1. {p} \in SUBSET Nat
    BY Bounds
  <2> QED BY <1>1, <1>4, <2>1, TxTwo DEF Goal
<1>6. /\ t.ver = tx[c].ver /\ t.dbmod = tx[c].dbmod /\ t.hdr = tx[c].hdr /\ t.goal = "spill" /\ t.todo = {p}
  BY <1>1, <1>4, TxFields
<1>7. Moved(c, l, mode[c], t)
  BY <1>1, <1>2, <1>3, <1>4, SameMode, TxOne, ZenonT(40) DEF Moved, Goto
<1>8. tx[c].hdr # 0
  BY <1>3, WriterHas DEF NotOpened
<1>9. Fits(c, l, mode[c], t)
  BY <1>1, <1>2, <1>3, <1>5, <1>6, <1>8 DEF Fits, Holds, Does, LockAt, Writer
<1>10. SharedOK'
  BY <1>1, <1>3, Kept
<1> QED BY <1>1, <1>7, <1>9, <1>10, LockStep

LEMMA ExclBusyLock ==
  ASSUME CalmInv, NEW c \in env.conns, ExclBusy(c), env' = env
  PROVE  LockInv'
<1>1. LockInv /\ Types /\ SharedOK /\ c \in Conn /\ LockAt(c) /\ Holds(pc[c], mode[c], tx[c])
      /\ Does(pc[c], tx[c]) /\ mode[c] \in 0..4 /\ tx[c] \in Tx /\ cache[c] \in Book
      /\ vers[c] \in 0..MaxVer /\ tx[c].hdr \in 0..MaxSlot + 1 /\ tx[c].off \in 0..MaxSlot
  BY Entry
<1>2. /\ pc[c] = "excl" /\ Goto(c, "write") /\ UNCHANGED <<files, cache, vers, draw, past>>
      /\ tx' = [tx EXCEPT ![c].goal = "none", ![c].todo = {}]
      /\ ~(\A g \in Conn \ {c} : mode[g] <= 0)
  BY DEF ExclBusy
<1>3. PICK k : mode' = [mode EXCEPT ![c] = k] /\ k \in {mode[c], 3}
  BY <1>1, SameMode DEF ExclBusy, L!Pending
<1>4. PICK t : t = [tx[c] EXCEPT !.goal = "none", !.todo = {}]
  OBVIOUS
<1>5. t \in Tx
  BY <1>1, <1>4, TxTwo DEF Goal
<1>6. /\ t.ver = tx[c].ver /\ t.dbmod = tx[c].dbmod /\ t.hdr = tx[c].hdr /\ t.goal = "none" /\ t.todo = {}
  BY <1>1, <1>4, TxFields
<1>7. Moved(c, "write", k, t)
  <2>1. tx' = [tx EXCEPT ![c] = t]
    BY <1>1, <1>2, <1>4, TxOne, ZenonT(40)
  <2> QED BY <1>2, <1>3, <2>1 DEF Moved, Goto
<1>8. mode[c] \in {2, 3}
  <2>1. mode[c] # 4
    BY <1>1, <1>2 DEF LockAt, Lone
  <2>2. mode[c] \in 2..4
    BY <1>1, <1>2 DEF Holds
  <2> QED BY <2>1, <2>2
<1>9. Fits(c, "write", k, t)
  BY <1>1, <1>2, <1>3, <1>5, <1>6, <1>8 DEF Fits, Holds, Does, LockAt, Writer
<1>10. SharedOK'
  BY <1>1, <1>2, Kept
<1> QED BY <1>1, <1>7, <1>9, <1>10, LockStep

\* A step that keeps the lock.
LEMMA GoesOn ==
  ASSUME LockInv, NEW c \in Conn, NEW l \in PC, NEW t \in Tx,
         Goto(c, l), UNCHANGED <<mode, draw>>, tx' = [tx EXCEPT ![c] = t], t.ver = tx[c].ver,
         Holds(l, mode[c], t), Does(l, t), SharedOK'
  PROVE  LockInv'
<1>1. Moved(c, l, mode[c], t) /\ mode[c] \in 0..4
  BY SameMode DEF Moved, Goto, LockInv, Types
<1>2. Fits(c, l, mode[c], t)
  <2>1. LockAt(c)
    BY DEF LockInv
  <2> QED BY <1>1, <2>1 DEF Fits, LockAt, Writer
<1> QED BY <1>1, <1>2, LockStep

LEMMA SameTx ==
  ASSUME Types, NEW c \in Conn, UNCHANGED tx PROVE tx' = [tx EXCEPT ![c] = tx[c]]
BY DEF Types

LEMMA ClearNextLock ==
  ASSUME CalmInv, NEW c \in env.conns, ClearNext(c), env' = env
  PROVE  LockInv'
<1>1. LockInv /\ Types /\ SharedOK /\ c \in Conn /\ Holds(pc[c], mode[c], tx[c])
      /\ Does(pc[c], tx[c]) /\ mode[c] \in 0..4 /\ tx[c] \in Tx
  BY Entry
<1>2. PICK l \in {"fullsync", "nrec"} : Goto(c, l)
  BY DEF ClearNext
<1>3. /\ pc[c] = "next" /\ WriteJournal(ZeroNext(tx[c].off + 1))
      /\ UNCHANGED <<mode, db, dpend, cache, vers, tx, draw, past>>
  BY DEF ClearNext
<1> DEFINE w == ZeroNext(tx[c].off + 1)
<1>4. \A s \in DOMAIN w : w[s] \in SlotOK
  <2> DEFINE s == tx[c].off + 1
  <2>1. CASE s \in Slot /\ IsHeader(At(s))
    <3>1. At(s) \in HeaderOK
      BY <1>1, <2>1, RowsOK DEF IsHeader
    <3>2. [At(s) EXCEPT !.magic = FALSE] \in SlotOK
      BY <3>1 DEF HeaderOK, SlotOK
    <3>3. w = [i \in {s} |-> [At(s) EXCEPT !.magic = FALSE]]
      BY <2>1 DEF ZeroNext, At
    <3> HIDE DEF w, s
    <3> QED BY <3>2, <3>3
  <2>2. CASE ~(s \in Slot /\ IsHeader(At(s)))
    <3>1. w = <<>>
      BY <2>2 DEF ZeroNext, At
    <3>2. DOMAIN w = {}
      <4> HIDE DEF w
      <4> QED BY <3>1
    <3> QED BY <3>2
  <2> QED BY <2>1, <2>2
<1>5. JrnlOK'
  <2> HIDE DEF w
  <2> QED BY <1>1, <1>3, <1>4, WriteJournalOK DEF w
<1>6. SharedOK'
  BY <1>1, <1>3, <1>5, SameDb DEF SharedOK
<1>7. Holds(l, mode[c], tx[c]) /\ Does(l, tx[c])
  BY <1>1, <1>2, <1>3 DEF Holds, Does
<1> QED BY <1>1, <1>2, <1>3, <1>6, <1>7, GoesOn, SameTx

LEMMA FirstSyncLock ==
  ASSUME CalmInv, NEW c \in env.conns, FirstSync(c), env' = env
  PROVE  LockInv'
<1>1. LockInv /\ Types /\ SharedOK /\ c \in Conn /\ Holds(pc[c], mode[c], tx[c])
      /\ Does(pc[c], tx[c]) /\ mode[c] \in 0..4 /\ tx[c] \in Tx
  BY Entry
<1>2. /\ pc[c] = "fullsync" /\ Goto(c, "nrec") /\ UNCHANGED <<mode, db, dpend, cache, vers, tx, draw, past>>
      /\ jrnl' = jrnl /\ jpend' = [s \in Slot |-> {jrnl.at[s]}]
  BY DEF FirstSync, SyncJournal, SyncFile
<1>3. SharedOK'
  BY <1>1, <1>2, SyncOK, SameDb DEF SharedOK
<1>4. Holds("nrec", mode[c], tx[c]) /\ Does("nrec", tx[c])
  BY <1>1, <1>2 DEF Holds, Does
<1> QED BY <1>1, <1>2, <1>3, <1>4, GoesOn, SameTx

\* Before its record count is written the last header is among the slots in use.
LEMMA CountedHeader ==
  ASSUME CalmInv, NEW c \in env.conns, pc[c] \in {"next", "fullsync", "nrec"}
  PROVE  /\ tx[c].hdr \in Slot /\ tx[c].off \in Slot /\ tx[c].hdr <= tx[c].off
         /\ At(tx[c].hdr) \in HeaderOK /\ ~At(tx[c].hdr).magic
<1>1. LockInv /\ Types /\ tx[c] \in Tx /\ tx[c].hdr \in 0..MaxSlot + 1 /\ tx[c].off \in 0..MaxSlot
  BY Entry
<1>2. tx[c].hdr # 0 /\ Journal(c) /\ JournalAt(c)
  BY WriterHas
<1>3. tx[c].hdr <= tx[c].off + 1 /\ tx[c].hdr # tx[c].off + 1
  BY <1>2 DEF Journal, JournalAt
<1>4. tx[c].hdr <= tx[c].off /\ tx[c].hdr \in Slot /\ tx[c].off \in Slot
  BY <1>1, <1>2, <1>3, Bounds
<1>5. At(tx[c].hdr).kind = "hdr"
  BY <1>2, <1>4 DEF Journal
<1>6. ~At(tx[c].hdr).magic
  BY <1>2, <1>4 DEF JournalAt, Closed
<1> QED BY <1>1, <1>4, <1>5, <1>6, RowsOK

LEMMA WriteNRecLock ==
  ASSUME CalmInv, NEW c \in env.conns, WriteNRec(c), env' = env
  PROVE  LockInv'
<1>1. LockInv /\ Types /\ SharedOK /\ c \in Conn /\ Holds(pc[c], mode[c], tx[c])
      /\ Does(pc[c], tx[c]) /\ mode[c] \in 0..4 /\ tx[c] \in Tx
  BY Entry
<1> DEFINE h == tx[c].hdr
           w == [s \in {h} |-> [jrnl.at[s] EXCEPT !.magic = TRUE, !.n = tx[c].off - s]]
<1>2. /\ pc[c] = "nrec" /\ Goto(c, "jsync") /\ UNCHANGED <<mode, db, dpend, cache, vers, tx, draw, past>>
      /\ WriteJournal(w)
  BY DEF WriteNRec
<1>3. h \in Slot /\ At(h) \in HeaderOK /\ tx[c].off - h \in 0..MaxSlot
  BY <1>2, CountedHeader, Bounds
<1>4. [At(h) EXCEPT !.magic = TRUE, !.n = tx[c].off - h] \in SlotOK
  BY <1>3 DEF HeaderOK, SlotOK
<1>5. \A s \in DOMAIN w : w[s] \in SlotOK
  BY <1>4 DEF At
<1> HIDE DEF h, w
<1>6. SharedOK'
  BY <1>1, <1>2, <1>5, WriteJournalOK, SameDb DEF SharedOK
<1>7. Holds("jsync", mode[c], tx[c]) /\ Does("jsync", tx[c])
  BY <1>1, <1>2 DEF Holds, Does
<1> QED BY <1>1, <1>2, <1>6, <1>7, GoesOn, SameTx

LEMMA JournalSyncLock ==
  ASSUME CalmInv, NEW c \in env.conns, JournalSync(c), env' = env
  PROVE  LockInv'
<1>1. LockInv /\ Types /\ SharedOK /\ c \in Conn /\ Holds(pc[c], mode[c], tx[c])
      /\ Does(pc[c], tx[c]) /\ mode[c] \in 0..4 /\ tx[c] \in Tx /\ tx[c].off \in 0..MaxSlot
  BY Entry
<1>2. PICK t : t = [tx[c] EXCEPT !.hdr = tx[c].off + 1, !.needSync = {}, !.dbmod = TRUE]
  OBVIOUS
<1>3. PICK l : l = IF tx[c].goal = "spill" THEN "newhdr" ELSE "store"
  OBVIOUS
<1>4. /\ pc[c] = "jsync" /\ Goto(c, l) /\ UNCHANGED <<mode, db, dpend, cache, vers, draw, past>>
      /\ jrnl' = jrnl /\ jpend' = [s \in Slot |-> {jrnl.at[s]}] /\ tx' = [tx EXCEPT ![c] = t]
  BY <1>2, <1>3 DEF JournalSync, SyncJournal, SyncFile
<1>5. t \in Tx
  <2>1. tx[c].off + 1 \in 0..MaxSlot + 1
    BY <1>1, Bounds
  <2>2. PICK u \in Tx : u = [tx[c] EXCEPT !.hdr = tx[c].off + 1, !.needSync = {}]
    BY <1>1, <2>1, TxTwo
  <2> QED BY <1>2, <2>2, TxTwo
<1>6. /\ t.ver = tx[c].ver /\ t.hdr = tx[c].off + 1 /\ t.goal = tx[c].goal /\ t.todo = tx[c].todo
      /\ t.dbmod = TRUE
  BY <1>1, <1>2, TxFields
<1>7. t.hdr # 0
  BY <1>1, <1>6, Bounds
<1>8. SharedOK'
  BY <1>1, <1>4, SyncOK, SameDb DEF SharedOK
<1>9. Holds(l, mode[c], t) /\ Does(l, t) /\ l \in PC
  BY <1>1, <1>3, <1>4, <1>6, <1>7 DEF Holds, Does
<1> QED BY <1>1, <1>4, <1>5, <1>6, <1>8, <1>9, GoesOn

LEMMA NewHeaderLock ==
  ASSUME CalmInv, NEW c \in env.conns, NewHeader(c), env' = env
  PROVE  LockInv'
<1>1. LockInv /\ Types /\ SharedOK /\ c \in Conn /\ Holds(pc[c], mode[c], tx[c])
      /\ Does(pc[c], tx[c]) /\ mode[c] \in 0..4 /\ tx[c] \in Tx /\ tx[c].hdr \in 0..MaxSlot + 1
  BY Entry
<1> DEFINE h == tx[c].hdr
           w == [s \in {h} |-> Header(FALSE, 0, <<tx[c].ver, s>>, tx[c].size)]
<1>2. /\ pc[c] = "newhdr" /\ Goto(c, "store") /\ UNCHANGED <<mode, db, dpend, cache, vers, draw, past>>
      /\ WriteJournal(w) /\ tx' = [tx EXCEPT ![c].off = h]
  BY DEF NewHeader
<1>3. h \in Slot /\ h \in 0..MaxSlot
  <2>1. JournalAt(c) /\ h # 0
    BY <1>2, WriterHas
  <2> QED BY <1>1, <1>2, <2>1, Bounds DEF JournalAt
<1>4. Header(FALSE, 0, <<tx[c].ver, h>>, tx[c].size) \in SlotOK
  BY <1>1, <1>3, Bounds DEF Header, HeaderOK, SlotOK, Tx
<1>5. \A s \in DOMAIN w : w[s] \in SlotOK
  BY <1>4
<1> HIDE DEF w
<1>6. SharedOK'
  BY <1>1, <1>2, <1>5, WriteJournalOK, SameDb DEF SharedOK
<1>7. PICK t \in Tx : t = [tx[c] EXCEPT !.off = h]
  BY <1>1, <1>3, TxTwo
<1>8. /\ t.ver = tx[c].ver /\ t.hdr = tx[c].hdr /\ t.goal = tx[c].goal /\ t.todo = tx[c].todo
      /\ t.dbmod = tx[c].dbmod
  BY <1>1, <1>7, TxFields
<1>9. tx' = [tx EXCEPT ![c] = t]
  BY <1>1, <1>2, <1>7, TxOne
<1>10. Holds("store", mode[c], t) /\ Does("store", t)
  BY <1>1, <1>2, <1>8 DEF Holds, Does
<1> QED BY <1>1, <1>2, <1>6, <1>8, <1>9, <1>10, GoesOn

LEMMA StorePageLock ==
  ASSUME CalmInv, NEW c \in env.conns, StorePage(c), env' = env
  PROVE  LockInv'
<1>1. LockInv /\ Types /\ SharedOK /\ c \in Conn /\ Holds(pc[c], mode[c], tx[c])
      /\ Does(pc[c], tx[c]) /\ mode[c] \in 0..4 /\ tx[c] \in Tx /\ cache[c] \in Book /\ vers[c] \in 0..MaxVer
  BY Entry
<1>2. PICK p : p = Min(tx[c].todo)
  OBVIOUS
<1>3. /\ pc[c] = "store" /\ WriteDb(p, cache[c][p]) /\ UNCHANGED <<mode, jrnl, jpend, draw, past>>
      /\ vers' = [vers EXCEPT ![c] = IF p = 1 THEN cache[c][p].ctr ELSE @]
  BY <1>2 DEF StorePage
<1>4. p \in tx[c].todo /\ p \in Page /\ tx[c].goal \in {"commit", "spill"}
  <2>1. tx[c].todo \subseteq Page /\ tx[c].todo # {} /\ tx[c].goal \in {"commit", "spill"}
    BY <1>1, <1>3 DEF Does
  <2>2. tx[c].todo \subseteq Nat
    BY <1>1 DEF Tx
  <2> QED BY <1>2, <2>1, <2>2, MinOf
<1>5. cache[c][p] \in PageOK /\ cache[c][p].ctr \in 0..MaxVer
  BY <1>1, <1>4 DEF Book, PageOK
<1>6. DbOK' /\ vers' \in [Conn -> 0..MaxVer]
  BY <1>1, <1>3, <1>4, <1>5, WriteDbOK DEF SharedOK
<1>7. CASE tx[c].goal = "spill"
  <2>1. tx[c].todo = {p}
    <3>1. \E q \in tx[c].dirty \ {1} : tx[c].todo = {q}
      BY <1>3, <1>7, WriterHas DEF Writes
    <3> QED BY <1>4, <3>1
  <2>2. /\ cache' = [cache EXCEPT ![c][p] = NoPage]
        /\ tx' = [tx EXCEPT ![c].dirty = tx[c].dirty \ {p}, ![c].todo = {}, ![c].goal = "none"]
        /\ Goto(c, "write")
    BY <1>2, <1>7, <2>1 DEF StorePage
  <2>3. PICK u \in Tx : u = [tx[c] EXCEPT !.dirty = tx[c].dirty \ {p}, !.todo = {}]
    <3>1. tx[c].dirty \ {p} \in SUBSET Page
      BY <1>1 DEF Tx
    <3> QED BY <1>1, <3>1, TxTwo
  <2>4. PICK t \in Tx : t = [u EXCEPT !.goal = "none"]
    BY TxTwo DEF Goal
  <2>5. /\ t.ver = tx[c].ver /\ t.hdr = tx[c].hdr /\ t.goal = "none" /\ t.todo = {} /\ t.dbmod = tx[c].dbmod
    BY <1>1, <2>3, <2>4, TxFields
  <2>6. tx' = [tx EXCEPT ![c] = t]
    BY <1>1, <2>2, <2>3, <2>4, TxOne
  <2>7. cache' \in [Conn -> Book]
    BY <1>1, <1>4, <2>2, Blanks DEF SharedOK, Book
  <2>8. SharedOK'
    BY <1>1, <1>3, <1>6, <2>7, SameJrnl DEF SharedOK
  <2>9. Holds("write", mode[c], t) /\ Does("write", t)
    BY <1>1, <1>3, <2>5 DEF Holds, Does
  <2> QED BY <1>1, <1>3, <2>2, <2>5, <2>6, <2>8, <2>9, GoesOn
<1>8. CASE tx[c].goal = "commit"
  <2>1. PICK l : l = IF tx[c].todo = {p} THEN "dbsync" ELSE "store"
    OBVIOUS
  <2>2. /\ cache' = cache /\ tx' = [tx EXCEPT ![c].todo = tx[c].todo \ {p}] /\ Goto(c, l)
    BY <1>2, <1>8, <2>1 DEF StorePage
  <2>3. PICK t \in Tx : t = [tx[c] EXCEPT !.todo = tx[c].todo \ {p}]
    <3>1. tx[c].todo \ {p} \in SUBSET Nat
      BY <1>1 DEF Tx
    <3> QED BY <1>1, <3>1, TxTwo
  <2>4. /\ t.ver = tx[c].ver /\ t.hdr = tx[c].hdr /\ t.goal = "commit" /\ t.todo = tx[c].todo \ {p}
        /\ t.dbmod = tx[c].dbmod
    BY <1>1, <1>8, <2>3, TxFields
  <2>5. tx' = [tx EXCEPT ![c] = t]
    BY <1>1, <2>2, <2>3, TxOne
  <2>6. SharedOK'
    BY <1>1, <1>3, <1>6, <2>2, SameJrnl DEF SharedOK
  <2>7. Holds(l, mode[c], t) /\ Does(l, t) /\ l \in PC
    BY <1>1, <1>3, <1>4, <2>1, <2>4 DEF Holds, Does
  <2> QED BY <1>1, <1>3, <2>2, <2>4, <2>5, <2>6, <2>7, GoesOn
<1> QED BY <1>4, <1>7, <1>8

LEMMA DbSyncLock ==
  ASSUME CalmInv, NEW c \in env.conns, DbSync(c), env' = env
  PROVE  LockInv'
<1>1. LockInv /\ Types /\ SharedOK /\ c \in Conn /\ Holds(pc[c], mode[c], tx[c])
      /\ Does(pc[c], tx[c]) /\ mode[c] \in 0..4 /\ tx[c] \in Tx
  BY Entry
<1>2. /\ pc[c] = "dbsync" /\ Goto(c, "final") /\ UNCHANGED <<mode, jrnl, jpend, db, cache, vers, tx, draw, past>> /\ SyncDb
  BY DEF DbSync
<1>3. SharedOK'
  BY <1>1, <1>2, SyncDbOK, SameJrnl DEF SharedOK
<1>4. Holds("final", mode[c], tx[c]) /\ Does("final", tx[c])
  BY <1>1, <1>2 DEF Holds, Does
<1> QED BY <1>1, <1>2, <1>3, <1>4, GoesOn, SameTx

LEMMA StartRollbackLock ==
  ASSUME CalmInv, NEW c \in env.conns, pc[c] \in Opening \cup Storing, tx[c].hdr # 0,
         StartRollback(c), env' = env
  PROVE  LockInv'
<1>1. LockInv /\ Types /\ SharedOK /\ c \in Conn /\ Holds(pc[c], mode[c], tx[c])
      /\ Does(pc[c], tx[c]) /\ mode[c] \in 0..4 /\ tx[c] \in Tx
  BY Entry
<1> DEFINE todo == Played(jrnl, tx[c].hdr)
<1>2. /\ tx' = [tx EXCEPT ![c].goal = "rollback", ![c].todo = todo]
      /\ IF tx[c].dbmod THEN TruncateDb(tx[c].size) ELSE UNCHANGED <<db, dpend>>
      /\ Goto(c, "play")
      /\ UNCHANGED <<mode, journal, cache, vers, draw, history>>
  BY DEF StartRollback
<1>3. todo \in SUBSET Nat
  BY <1>1, RowsOK, PlayedRecs, Bounds
<1> HIDE DEF todo
<1>4. PICK t \in Tx : t = [tx[c] EXCEPT !.goal = "rollback", !.todo = todo]
  BY <1>1, <1>3, TxTwo DEF Goal
<1>5. /\ t.ver = tx[c].ver /\ t.hdr = tx[c].hdr /\ t.goal = "rollback" /\ t.dbmod = tx[c].dbmod
  BY <1>1, <1>4, TxFields
<1>6. tx' = [tx EXCEPT ![c] = t]
  BY <1>1, <1>2, <1>4, TxOne
<1>7. DbOK'
  <2>1. tx[c].size \in Nat
    BY <1>1, Bounds DEF Tx
  <2> QED BY <1>1, <1>2, <2>1, TruncateOK, SameDb
<1>8. SharedOK'
  BY <1>1, <1>2, <1>7, SameJrnl DEF SharedOK
<1>9. Holds("play", mode[c], t)
  BY <1>1, <1>5 DEF Holds
<1>10. Does("play", t)
  BY <1>1, <1>5 DEF Does
<1> QED BY <1>1, <1>2, <1>5, <1>6, <1>8, <1>9, <1>10, GoesOn

LEMMA RollbackLock ==
  ASSUME CalmInv, NEW c \in env.conns, Rollback(c) \/ CommitFails(c), env' = env
  PROVE  LockInv'
<1>1. pc[c] \in Opening \cup Storing /\ StartRollback(c)
  BY DEF Rollback, CommitFails
<1>2. tx[c].hdr # 0
  BY <1>1, WriterHas DEF Rollback, CommitFails
<1> QED BY <1>1, <1>2, StartRollbackLock

\* What is played back next is a record of the journal.
LEMMA PlaysRecord ==
  ASSUME CalmInv, NEW c \in Conn, pc[c] = "play"
  PROVE  /\ tx[c].todo \subseteq {s \in Slot : At(s).kind = "rec"}
         /\ tx[c].todo # {} => /\ Min(tx[c].todo) \in tx[c].todo
                               /\ \A s \in tx[c].todo : Min(tx[c].todo) <= s
                               /\ At(Min(tx[c].todo)) \in RecordOK
<1>1. LockInv /\ Types /\ Does(pc[c], tx[c]) /\ tx[c] \in Tx
  BY DEF CalmInv, LockInv, LockAt, Types
<1>2. tx[c].todo \subseteq {s \in Slot : At(s).kind = "rec"}
  <2>1. CASE Writer(c)
    <3>1. PlaysBack(c)
      BY <2>1 DEF CalmInv, DataInv, WriterOf
    <3>2. tx[c].off \in 0..MaxSlot
      BY <1>1 DEF Tx
    <3> QED BY <3>1, <3>2, Bounds DEF PlaysBack
  <2>2. CASE ~Writer(c)
    <3>1. tx[c].goal = "hot"
      BY <1>1, <2>2 DEF Does, Writer, Tx
    <3>2. PlaysHot(c)
      BY <3>1 DEF CalmInv, DataInv, OtherOf
    <3>3. Play \subseteq {s \in Slot : At(s).kind = "rec"}
      BY <1>1, RowsOK, PlayedRecs DEF Play, At
    <3> QED BY <3>2, <3>3 DEF PlaysHot
  <2> QED BY <2>1, <2>2
<1>3. ASSUME tx[c].todo # {}
      PROVE  /\ Min(tx[c].todo) \in tx[c].todo
             /\ \A s \in tx[c].todo : Min(tx[c].todo) <= s
  <2>1. tx[c].todo \subseteq Nat
    BY <1>1 DEF Tx
  <2> QED BY <1>3, <2>1, MinOf
<1> QED BY <1>1, <1>2, <1>3, RowsOK

LEMMA PlayPageLock ==
  ASSUME CalmInv, NEW c \in env.conns, PlayPage(c), env' = env
  PROVE  LockInv'
<1>1. LockInv /\ Types /\ SharedOK /\ c \in Conn /\ Holds(pc[c], mode[c], tx[c])
      /\ Does(pc[c], tx[c]) /\ mode[c] \in 0..4 /\ tx[c] \in Tx /\ cache[c] \in Book /\ vers[c] \in 0..MaxVer
  BY Entry
<1>2. PICK s : s = Min(tx[c].todo)
  OBVIOUS
<1>3. PICK r : r = At(s)
  OBVIOUS
<1>4. /\ pc[c] = "play" /\ tx[c].todo # {}
      /\ WriteDb(r.pg, r.val) \/ UNCHANGED <<db, dpend>>
      /\ cache' = cache \/ cache' = [cache EXCEPT ![c][r.pg] = r.val]
      /\ vers' = vers \/ vers' = [vers EXCEPT ![c] = r.val.ctr]
      /\ tx' = [tx EXCEPT ![c].todo = tx[c].todo \ {s}]
      /\ UNCHANGED <<mode, journal, pc, draw, history>>
  BY <1>1, <1>2, <1>3 DEF PlayPage, At, SharedOK
<1>5. r.pg \in Page /\ r.val \in PageOK /\ r.val.ctr \in 0..MaxVer
  <2>1. r \in RecordOK
    BY <1>1, <1>2, <1>3, <1>4, PlaysRecord
  <2> QED BY <2>1 DEF RecordOK, PageOK
<1>6. DbOK'
  BY <1>1, <1>4, <1>5, WriteDbOK, SameDb
<1>7. cache' \in [Conn -> Book] /\ vers' \in [Conn -> 0..MaxVer]
  <2>1. [cache[c] EXCEPT ![r.pg] = r.val] \in Book
    BY <1>1, <1>5 DEF Book
  <2>2. cache' = cache \/ cache' = [cache EXCEPT ![c] = [cache[c] EXCEPT ![r.pg] = r.val]]
    BY <1>4
  <2>3. cache' \in [Conn -> Book]
    BY <1>1, <2>1, <2>2 DEF SharedOK
  <2>4. vers' \in [Conn -> 0..MaxVer]
    BY <1>1, <1>4, <1>5 DEF SharedOK
  <2> QED BY <2>3, <2>4
<1>8. SharedOK'
  BY <1>1, <1>4, <1>6, <1>7, SameJrnl DEF SharedOK
<1>9. PICK t \in Tx : t = [tx[c] EXCEPT !.todo = tx[c].todo \ {s}]
  <2>1. tx[c].todo \ {s} \in SUBSET Nat
    BY <1>1 DEF Tx
  <2> QED BY <1>1, <2>1, TxTwo
<1>10. /\ t.ver = tx[c].ver /\ t.hdr = tx[c].hdr /\ t.goal = tx[c].goal /\ t.dbmod = tx[c].dbmod
       /\ t.todo \subseteq tx[c].todo
  BY <1>1, <1>9, TxFields
<1>11. tx' = [tx EXCEPT ![c] = t]
  BY <1>1, <1>4, <1>9, TxOne
<1>12. Goto(c, "play")
  BY <1>1, <1>4 DEF Goto, Types
<1>13. Holds("play", mode[c], t)
  BY <1>1, <1>4, <1>10 DEF Holds
<1>14. Does("play", t)
  BY <1>1, <1>4, <1>10 DEF Does
<1> QED BY <1>1, <1>4, <1>8, <1>10, <1>11, <1>12, <1>13, <1>14, GoesOn

LEMMA PlayEndLock ==
  ASSUME CalmInv, NEW c \in env.conns, PlayEnd(c), env' = env
  PROVE  LockInv'
<1>1. LockInv /\ Types /\ SharedOK /\ c \in Conn /\ Holds(pc[c], mode[c], tx[c])
      /\ Does(pc[c], tx[c]) /\ mode[c] \in 0..4 /\ tx[c] \in Tx
  BY Entry
<1>2. /\ pc[c] = "play" /\ tx[c].todo = {} /\ Goto(c, "final") /\ UNCHANGED <<mode, journal, db, cache, vers, tx, draw, history>>
      /\ SyncDb \/ UNCHANGED dpend
  BY DEF PlayEnd
<1>3. SharedOK'
  BY <1>1, <1>2, SyncDbOK, SameDb, SameJrnl DEF SharedOK
<1>4. Holds("final", mode[c], tx[c]) /\ Does("final", tx[c])
  BY <1>1, <1>2 DEF Holds, Does
<1> QED BY <1>1, <1>2, <1>3, <1>4, GoesOn, SameTx

LEMMA TruncatedOK ==
  ASSUME NEW b \in Book, NEW n \in Nat PROVE Truncated(b, n) \in Book
BY Blanks DEF Truncated, Book

LEMMA EndTransactionLock ==
  ASSUME CalmInv, NEW c \in env.conns, pc[c] \in {"write", "final", "finsync"}, EndTransaction(c),
         env' = env, JrnlOK', UNCHANGED <<db, dpend, vers, draw>>
  PROVE  LockInv'
<1>1. LockInv /\ Types /\ SharedOK /\ c \in Conn /\ Holds(pc[c], mode[c], tx[c])
      /\ Does(pc[c], tx[c]) /\ mode[c] \in 0..4 /\ tx[c] \in Tx /\ cache[c] \in Book
  BY Entry
<1>2. PICK l \in {"validate", "read"} : Goto(c, l)
  BY DEF EndTransaction
<1>3. /\ mode' = [mode EXCEPT ![c] = 1] /\ tx' = [tx EXCEPT ![c] = NoTx]
      /\ cache' = [cache EXCEPT ![c] = IF tx[c].goal = "rollback" THEN Truncated(cache[c], tx[c].size) ELSE cache[c]]
      /\ past' = past \/ past' = Append(past, db)
  BY DEF EndTransaction, Lower
<1>4. Moved(c, l, 1, NoTx)
  BY <1>2, <1>3 DEF Moved, Goto
<1>5. mode[c] # 0
  BY <1>1 DEF Holds
<1>6. Fits(c, l, 1, NoTx)
  <2>1. Holds(l, 1, NoTx)
    BY <1>2, Blanks DEF Holds
  <2>2. Does(l, NoTx)
    BY <1>2, Blanks DEF Does
  <2> QED BY <1>5, <2>1, <2>2, Blanks DEF Fits
<1>7. cache' \in [Conn -> Book]
  <2>1. tx[c].size \in Nat
    BY <1>1, Bounds DEF Tx
  <2>2. Truncated(cache[c], tx[c].size) \in Book
    BY <1>1, <2>1, TruncatedOK
  <2> QED BY <1>1, <1>3, <2>2 DEF SharedOK
<1>8. past' \in Seq(Book) /\ past' # <<>>
  <2>1. db \in Book
    BY <1>1 DEF SharedOK, DbOK
  <2>2. past \in Seq(Book) /\ past # <<>>
    BY <1>1 DEF SharedOK
  <2>3. Append(past, db) \in Seq(Book) /\ Len(Append(past, db)) = Len(past) + 1
    BY <2>1, <2>2
  <2>4. Append(past, db) # <<>>
    <3>1. Len(past) \in Nat /\ Len(<<>>) = 0
      BY <2>2
    <3> QED BY <2>3, <3>1
  <2> QED BY <1>3, <2>2, <2>3, <2>4
<1>9. SharedOK'
  BY <1>1, <1>7, <1>8, SameDb DEF SharedOK
<1> QED BY <1>1, <1>4, <1>6, <1>9, LockStep

LEMMA EndUnchangedLock ==
  ASSUME CalmInv, NEW c \in env.conns, EndUnchanged(c), env' = env
  PROVE  LockInv'
<1>1. JrnlOK'
  BY Entry, SameJrnl DEF EndUnchanged
<1> QED BY <1>1, EndTransactionLock DEF EndUnchanged

\* The journal when it is finalized.
LEMMA FinalJournal ==
  ASSUME Types, NEW c \in Conn, Final(c)
  PROVE  /\ JrnlOK'
         /\ \A s \in Slot : At(s)' \in {At(s), Nothing} \/ (s = 1 /\ At(s)' = ZeroHeader)
         /\ ~(tx[c].off = 0 /\ env.journal # "DELETE") => ~Hot'
<1>1. env.journal \in {"DELETE", "TRUNCATE", "PERSIST"}
  BY Surrounding
<1>2. ZeroHeader \in SlotOK /\ ~IsHeader(ZeroHeader) /\ ~IsHeader(Nothing)
  BY Bounds DEF ZeroHeader, Header, SlotOK, HeaderOK, IsHeader, Nothing
<1>3. CASE env.journal = "DELETE"
  BY <1>2, <1>3, RemovedOK, Bounds DEF Final, Hot, At
<1>4. CASE env.journal = "TRUNCATE" /\ tx[c].off # 0
  BY <1>2, <1>4, RemovedOK, Bounds DEF Final, Hot, At
<1>5. CASE env.journal = "PERSIST" /\ tx[c].off # 0
  <2> DEFINE w == [s \in {1} |-> ZeroHeader]
  <2>1. WriteJournal(w)
    BY <1>5 DEF Final
  <2>2. \A s \in DOMAIN w : w[s] \in SlotOK
    BY <1>2
  <2>3. DOMAIN w = {1} /\ w[1] = ZeroHeader
    OBVIOUS
  <2> HIDE DEF w
  <2>4. /\ JrnlOK' /\ \A s \in Slot : At(s)' = IF s \in DOMAIN w THEN w[s] ELSE At(s)
    BY <2>1, <2>2, WriteJournalOK
  <2>5. At(1)' = ZeroHeader
    BY <2>3, <2>4, Bounds
  <2> QED BY <1>2, <2>3, <2>4, <2>5 DEF Hot, At
<1>6. CASE env.journal # "DELETE" /\ tx[c].off = 0
  <2>1. UNCHANGED journal
    BY <1>1, <1>6 DEF Final
  <2> QED BY <1>6, <2>1, SameJrnl
<1> QED BY <1>1, <1>3, <1>4, <1>5, <1>6

LEMMA FinalLock ==
  ASSUME CalmInv, NEW c \in env.conns, Final(c), env' = env
  PROVE  LockInv'
<1>1. LockInv /\ Types /\ SharedOK /\ c \in Conn /\ Holds(pc[c], mode[c], tx[c])
      /\ Does(pc[c], tx[c]) /\ mode[c] \in 0..4 /\ tx[c] \in Tx
  BY Entry
<1>2. pc[c] = "final" /\ JrnlOK' /\ UNCHANGED <<db, dpend, vers, draw>>
  BY <1>1, FinalJournal DEF Final
<1>3. CASE Goto(c, "finsync") /\ UNCHANGED <<mode, cache, tx, history>>
  <2>1. SharedOK'
    BY <1>1, <1>2, <1>3, SameDb DEF SharedOK
  <2>2. Holds("finsync", mode[c], tx[c]) /\ Does("finsync", tx[c])
    BY <1>1, <1>2 DEF Holds, Does
  <2> QED BY <1>1, <1>2, <1>3, <2>1, <2>2, GoesOn, SameTx
<1>4. CASE EndTransaction(c)
  BY <1>2, <1>4, EndTransactionLock
<1> QED BY <1>3, <1>4 DEF Final

LEMMA FinSyncLock ==
  ASSUME CalmInv, NEW c \in env.conns, FinSync(c), env' = env
  PROVE  LockInv'
<1>1. JrnlOK'
  <2>1. Types
    BY Entry
  <2>2. jrnl' = jrnl /\ (jpend' = jpend \/ jpend' = [s \in Slot |-> {jrnl.at[s]}])
    BY DEF FinSync, SyncJournal, SyncFile
  <2> QED BY <2>1, <2>2, SameJrnl, SyncOK
<1> QED BY <1>1, EndTransactionLock DEF FinSync

LEMMA ErrorLock ==
  ASSUME CalmInv, NEW c \in env.conns, Error(c), env' = env
  PROVE  LockInv'
<1>1. LockInv /\ Types /\ SharedOK /\ c \in Conn /\ Holds(pc[c], mode[c], tx[c])
      /\ Does(pc[c], tx[c]) /\ mode[c] \in 0..4 /\ tx[c] \in Tx
  BY Entry
<1>2. /\ pc[c] \in {"next", "fullsync", "nrec", "jsync", "newhdr", "store", "hotopen", "play", "final", "finsync"}
      /\ tx' = [tx EXCEPT ![c] = NoTx] /\ Goto(c, "error") /\ UNCHANGED <<files, cache, vers, draw, past>>
  BY DEF Error
<1>3. PICK k \in {mode[c], 1} : mode' = [mode EXCEPT ![c] = k]
  BY <1>1, SameMode DEF Error, Lower
<1>4. Moved(c, "error", k, NoTx)
  BY <1>2, <1>3 DEF Moved, Goto
<1>5. mode[c] \in 2..4
  BY <1>1, <1>2 DEF Holds
<1>6. Fits(c, "error", k, NoTx)
  <2>1. Holds("error", k, NoTx)
    BY <1>3, <1>5, Blanks DEF Holds
  <2>2. Does("error", NoTx)
    BY Blanks DEF Does
  <2> QED BY <1>2, <1>3, <1>5, <2>1, <2>2, Blanks DEF Fits
<1>7. SharedOK'
  BY <1>1, <1>2, Kept
<1> QED BY <1>1, <1>4, <1>6, <1>7, LockStep

LEMMA UnlockLock ==
  ASSUME CalmInv, NEW c \in env.conns, Unlock(c), env' = env
  PROVE  LockInv'
<1>1. LockInv /\ Types /\ SharedOK /\ c \in Conn /\ Holds(pc[c], mode[c], tx[c])
      /\ Does(pc[c], tx[c]) /\ mode[c] \in 0..4 /\ tx[c] \in Tx
  BY Entry
<1>2. /\ pc[c] = "error" /\ mode' = [mode EXCEPT ![c] = 0] /\ Goto(c, "idle") /\ Forget(c)
      /\ UNCHANGED <<files, vers, tx, draw, past>>
  BY DEF Unlock, Lower
<1>3. Moved(c, "idle", 0, tx[c])
  BY <1>1, <1>2 DEF Moved, Goto, Types
<1>4. tx[c] = NoTx
  BY <1>1, <1>2 DEF Does
<1>5. Fits(c, "idle", 0, tx[c])
  <2>1. Holds("idle", 0, tx[c])
    BY <1>4, Blanks DEF Holds
  <2>2. Does("idle", tx[c])
    BY <1>4, Blanks DEF Does
  <2> QED BY <1>2, <1>4, <2>1, <2>2, Blanks DEF Fits
<1>6. SharedOK'
  BY <1>1, <1>2, ForgetOK, SameJrnl, SameDb DEF SharedOK
<1> QED BY <1>1, <1>3, <1>5, <1>6, LockStep

LEMMA CrashLock ==
  ASSUME CalmInv, NEW c \in env.conns, Crash(c), env' = env
  PROVE  LockInv'
<1>1. LockInv /\ Types /\ SharedOK /\ c \in Conn
  BY Entry
<1>2. PICK D \in SUBSET Conn : Ended(D)
  BY <1>1 DEF Crash
<1>3. /\ \A d \in Conn : IF d \in D THEN mode'[d] = 0 /\ pc'[d] = "idle" /\ tx'[d] = NoTx
                                    ELSE mode'[d] = mode[d] /\ pc'[d] = pc[d] /\ tx'[d] = tx[d]
      /\ draw' = draw
  BY <1>2 DEF Ended
<1>4. mode' \in [Conn -> 0..4] /\ pc' \in [Conn -> PC] /\ tx' \in [Conn -> Tx]
  BY <1>1, <1>2, Blanks DEF Ended, Types
<1>5. SharedOK'
  <2>1. cache' \in [Conn -> Book] /\ vers' \in [Conn -> 0..MaxVer]
    BY <1>1, <1>2, Blanks, Bounds DEF Ended, SharedOK
  <2>2. UNCHANGED <<files, draw, past>>
    BY <1>2 DEF Crash, Ended
  <2> QED BY <1>1, <2>1, <2>2, SameJrnl, SameDb DEF SharedOK
<1>6. OneWriter'
  BY <1>1, <1>3, Blanks DEF LockInv, OneWriter, Writer
<1>7. ASSUME NEW d \in Conn PROVE LockAt(d)'
  <2>1. CASE d \in D
    <3>1. Holds("idle", 0, NoTx) /\ Does("idle", NoTx)
      BY Blanks DEF Holds, Does
    <3> QED BY <1>3, <2>1, <3>1, Blanks DEF LockAt, Writer
  <2>2. CASE d \notin D
    <3>1. LockAt(d) /\ mode'[d] = mode[d] /\ pc'[d] = pc[d] /\ tx'[d] = tx[d]
      BY <1>1, <1>3, <2>2 DEF LockInv
    <3>2. mode[d] = 4 => Lone(d)'
      BY <1>3, <3>1 DEF LockAt, Lone
    <3> QED BY <1>3, <3>1, <3>2 DEF LockAt, Writer
  <2> QED BY <2>1, <2>2
<1> QED BY <1>4, <1>5, <1>6, <1>7 DEF LockInv, Types

LEMMA LockNext ==
  ASSUME CalmInv, Next, ~Disturbed PROVE LockInv'
<1>1. env' = env /\ ~PowerLoss
  BY DEF Next, Disturbed
<1>2. PICK c \in env.conns :
        \/ Share(c) \/ HotExists(c) \/ HotReserved(c) \/ HotRead(c) \/ HotLock(c)
        \/ HotBusy(c) \/ BackOff(c) \/ HotOpen(c) \/ Validate(c) \/ EndRead(c)
        \/ Reserve(c) \/ Commit(c) \/ Excl(c) \/ ExclBusy(c) \/ ClearNext(c)
        \/ FirstSync(c) \/ WriteNRec(c) \/ JournalSync(c) \/ NewHeader(c) \/ StorePage(c)
        \/ DbSync(c) \/ Rollback(c) \/ PlayPage(c) \/ PlayEnd(c) \/ EndUnchanged(c)
        \/ Final(c) \/ FinSync(c) \/ CommitFails(c) \/ Error(c) \/ Unlock(c) \/ Crash(c)
        \/ \E p \in Page : Read(c, p) \/ Modify(c, p) \/ Spill(c, p)
  BY <1>1 DEF Next, Step
<1> QED
  BY <1>1, <1>2, ShareLock, HotExistsLock, HotReservedLock, HotReadLock, HotLockLock, HotBusyLock, BackOffLock,
     HotOpenLock, ValidateLock, EndReadLock, ReserveLock, CommitLock, ExclLock, ExclBusyLock, ClearNextLock,
     FirstSyncLock, WriteNRecLock, JournalSyncLock, NewHeaderLock, StorePageLock, DbSyncLock, RollbackLock,
     PlayPageLock, PlayEndLock, EndUnchangedLock, FinalLock, FinSyncLock, ErrorLock, UnlockLock, CrashLock,
     ReadLock, ModifyLock, SpillLock

LEMMA Newest ==
  ASSUME Types
  PROVE  /\ N \in Nat /\ N >= 1 /\ K \in Book /\ db \in Book
         /\ \A p \in Page : K[p] \in PageOK /\ db[p] \in PageOK
         /\ \A i \in 1..N : past[i] \in Book
<1>1. past \in Seq(Book) /\ past # <<>> /\ db \in Book
  BY DEF Types, SharedOK, DbOK
<1>2. N \in Nat /\ N >= 1 /\ \A i \in 1..N : past[i] \in Book
  BY <1>1 DEF N
<1>3. K \in Book
  BY <1>2 DEF K, N
<1> QED BY <1>1, <1>2, <1>3 DEF Book

\* The journal of a write transaction that has opened it.
LEMMA WriterJournal ==
  ASSUME CalmInv, NEW c \in Conn, Writer(c), pc[c] # "finsync"
  PROVE  /\ JournalOf(c) /\ Stale(tx[c]) /\ WriterOf(c)
         /\ tx[c].ver = draw /\ tx[c] \in Tx /\ pc[c] \in Opening \cup Storing \cup {"play", "final"}
         /\ tx[c].hdr # 0 => Journal(c) /\ JournalAt(c)
         /\ tx[c].hdr = 0 => pc[c] = "write" /\ NotOpened(tx[c])
<1>1. LockInv /\ Types /\ LockAt(c) /\ Does(pc[c], tx[c]) /\ tx[c] \in Tx /\ pc[c] \in PC
  BY DEF CalmInv, LockInv, LockAt, Types
<1>2. JournalOf(c) /\ WriterOf(c)
  BY DEF CalmInv, JournalInv, DataInv
<1>3. pc[c] \in Opening \cup Storing \cup Ending
  BY <1>1, WriterMode
<1>4. tx[c].ver = draw
  BY <1>1 DEF LockAt
<1>5. tx[c].hdr = 0 => pc[c] = "write"
  BY <1>1 DEF Does, Writer
<1> QED BY <1>1, <1>2, <1>3, <1>4, <1>5 DEF JournalOf

\* What is below the point where a playback ends.
LEMMA JournalPlays ==
  ASSUME Types, NEW c \in Conn, Journal(c), NEW e, e = IF Closed(tx[c]) THEN tx[c].off + 1 ELSE tx[c].hdr,
         tx[c].hdr # 0
  PROVE  /\ e \in Line /\ e - 1 <= tx[c].off /\ e >= tx[c].hdr
         /\ Chain(jrnl.at, e)
         /\ Play = {i \in 1..e - 1 : At(i).kind = "rec"}
         /\ Hot <=> e > 1
<1>1. tx[c] \in Tx /\ tx[c].hdr \in 0..MaxSlot + 1 /\ tx[c].off \in 0..MaxSlot /\ tx[c].off >= 1
      /\ tx[c].hdr <= tx[c].off + 1
  BY DEF Types, Tx, Journal
<1>2. e \in Line /\ e - 1 <= tx[c].off /\ e >= tx[c].hdr /\ e \in Nat /\ e >= 1
  BY <1>1, Bounds DEF Line, Closed
<1>3. Rows(jrnl.at)
  BY RowsOK
<1>4. Chain(jrnl.at, e)
  <2>1. CASE ~Closed(tx[c])
    BY <2>1 DEF Journal
  <2>2. CASE Closed(tx[c])
    <3> DEFINE a == jrnl.at
               h == tx[c].hdr
    <3>1. /\ Chain(a, h) /\ a[h].kind = "hdr" /\ a[h].magic /\ a[h].n = tx[c].off - h
          /\ \A i \in h + 1..tx[c].off : a[i].kind = "rec" /\ a[i].salt = a[h].salt
      BY <2>2 DEF Journal, Closed, At
    <3>2. h \in Slot /\ a[h].n \in Nat /\ h + a[h].n = tx[c].off /\ h + a[h].n + 1 = e
      BY <1>1, <2>2, <3>1, Bounds DEF Closed
    <3> HIDE DEF a, h
    <3>3. Chain(a, h + a[h].n + 1)
      BY <1>3, <3>1, <3>2, ChainGrows DEF a
    <3> QED BY <3>2, <3>3 DEF a
  <2> QED BY <2>1, <2>2
<1>5. NoHeader(e)
  BY DEF Journal
<1>6. Play = {i \in 1..e - 1 : At(i).kind = "rec"}
  BY <1>2, <1>3, <1>4, <1>5, PlayedChain DEF Play, NoHeader, At
<1>7. Hot <=> e > 1
  <2>1. CASE e = 1
    BY <1>5, <2>1, Bounds DEF Hot, NoHeader, At
  <2>2. CASE e > 1
    <3>1. 1 \in 1..e - 1 /\ jrnl.at[1].kind = "hdr"
      BY <1>2, <1>4, <2>2 DEF Chain
    <3>2. jrnl.at[1].magic
      BY <1>4, <3>1 DEF Chain
    <3> QED BY <2>2, <3>1, <3>2 DEF Hot, IsHeader, Journal
  <2> QED BY <1>2, <2>1, <2>2
<1> QED BY <1>2, <1>4, <1>6, <1>7

\* A page that the journal of a writer does not restore is in the database file as it was.
LEMMA Unsaved ==
  ASSUME CalmInv, NEW c \in Conn, Writer(c), pc[c] # "finsync", NEW p \in 1..tx[c].size,
         \A s \in 1..tx[c].hdr - 1 : ~(At(s).kind = "rec" /\ At(s).pg = p)
  PROVE  db[p] = K[p]
<1>1. WriterOf(c) /\ pc[c] \in Opening \cup Storing \cup {"play", "final"} /\ Does(pc[c], tx[c]) /\ tx[c] \in Tx
  BY WriterJournal DEF CalmInv, LockInv, LockAt
<1>2. ~Saved(tx[c], p)
  BY DEF Saved
<1>3. CASE pc[c] \in Opening \cup Storing
  BY <1>1, <1>2, <1>3 DEF WriterOf, Writes
<1>4. CASE pc[c] = "final" /\ tx[c].goal = "commit"
  BY <1>1, <1>2, <1>4 DEF WriterOf, Commits
<1>5. CASE pc[c] = "final" /\ tx[c].goal = "rollback"
  BY <1>1, <1>5 DEF WriterOf, RolledBack
<1>6. CASE pc[c] = "play"
  <2>1. PlaysBack(c)
    BY <1>1, <1>6 DEF WriterOf
  <2>2. db[p] = K[p] \/ (\E s \in tx[c].todo : s < tx[c].hdr /\ At(s).pg = p)
    BY <2>1 DEF PlaysBack
  <2>3. ASSUME NEW s \in tx[c].todo, s < tx[c].hdr, At(s).pg = p PROVE FALSE
    <3>1. s \in 1..tx[c].off /\ At(s).kind = "rec"
      BY <2>1, <2>3 DEF PlaysBack
    <3>2. tx[c].off \in Nat /\ tx[c].hdr \in Nat
      BY <1>1, Bounds DEF Tx
    <3>3. s \in 1..tx[c].hdr - 1
      BY <2>3, <3>1, <3>2
    <3> QED BY <2>3, <3>1, <3>3
  <2> QED BY <2>2, <2>3
<1> QED BY <1>1, <1>3, <1>4, <1>5, <1>6 DEF Does, Writer

\* A write transaction can be rolled back until its journal is finalized.
LEMMA RestoredWriter ==
  ASSUME CalmInv, NEW c \in Conn, Writer(c), pc[c] # "finsync"
  PROVE  Restored(jrnl, db) = K
<1>1. Types
  BY DEF CalmInv, LockInv
<1>2. /\ WriterOf(c) /\ tx[c] \in Tx
      /\ tx[c].hdr # 0 => Journal(c) /\ JournalAt(c)
      /\ tx[c].hdr = 0 => NotOpened(tx[c])
  BY WriterJournal
<1>3. CASE tx[c].hdr = 0
  <2>1. ~Hot /\ ~tx[c].dbmod
    BY <1>2, <1>3 DEF NotOpened
  <2>2. db = K
    BY <1>2, <2>1 DEF WriterOf
  <2> QED BY <1>1, <2>1, <2>2, RestoredIs
<1>4. CASE tx[c].hdr # 0
  <2>1. PICK e : e = IF Closed(tx[c]) THEN tx[c].off + 1 ELSE tx[c].hdr
    OBVIOUS
  <2>2. Journal(c)
    BY <1>2, <1>4
  <2>3. /\ e \in Line /\ e - 1 <= tx[c].off /\ e >= tx[c].hdr
        /\ Chain(jrnl.at, e) /\ Play = {i \in 1..e - 1 : At(i).kind = "rec"} /\ (Hot <=> e > 1)
    BY <1>1, <1>4, <2>1, <2>2, JournalPlays
  <2>4. e \in Nat /\ tx[c].hdr \in Nat /\ tx[c].off \in Nat /\ tx[c].hdr >= 1 /\ tx[c].size \in 0..NPage
    BY <1>2, <1>4, <2>3, Bounds DEF Line, Tx
  <2>5. CASE e = 1
    <3>1. ~tx[c].dbmod
      BY <2>2, <2>3, <2>4, <2>5 DEF Journal
    <3>2. db = K
      BY <1>2, <3>1 DEF WriterOf
    <3> QED BY <1>1, <2>3, <2>5, <3>2, RestoredIs
  <2>6. CASE e > 1
    <3>1. At(1).size = tx[c].size
      <4>1. OwnHeader(tx[c], 1) \/ OwnRecord(tx[c], 1)
        BY <2>2, <2>3, <2>4, <2>6 DEF Journal
      <4>2. At(1).kind = "hdr"
        BY <2>3, <2>6 DEF Chain, At
      <4> QED BY <4>1, <4>2 DEF OwnHeader, OwnRecord
    <3>2. ASSUME NEW i \in Play PROVE At(i).val = K[At(i).pg]
      <4>1. i \in 1..tx[c].off /\ At(i).kind = "rec"
        BY <2>3, <2>4, <3>2
      <4>2. OwnHeader(tx[c], i) \/ OwnRecord(tx[c], i)
        BY <2>2, <4>1 DEF Journal
      <4> QED BY <4>1, <4>2 DEF OwnHeader, OwnRecord
    <3>3. tx[c].size = Size(K)
      BY <1>2 DEF WriterOf
    <3>4. ASSUME NEW p \in Page PROVE Restored(jrnl, db)[p] = K[p]
      <4>1. CASE Of(p) # {}
        <5>1. Max(Of(p)) \in Play /\ At(Max(Of(p))).pg = p
          BY <1>1, <3>4, <4>1, RestoredIs DEF Of
        <5> QED BY <1>1, <2>3, <2>6, <3>2, <3>4, <4>1, <5>1, RestoredIs
      <4>2. CASE Of(p) = {} /\ p > tx[c].size
        BY <1>1, <2>3, <2>6, <3>1, <3>3, <3>4, <4>2, RestoredIs, SizeOK
      <4>3. CASE Of(p) = {} /\ p <= tx[c].size
        <5>1. p \in 1..tx[c].size
          BY <2>4, <4>3, Bounds
        <5>2. ASSUME NEW s \in 1..tx[c].hdr - 1, At(s).kind = "rec", At(s).pg = p PROVE FALSE
          <6>1. s \in 1..e - 1
            BY <2>3, <2>4, <5>2
          <6> QED BY <2>3, <4>3, <5>2, <6>1 DEF Of
        <5>3. db[p] = K[p]
          BY <5>1, <5>2, Unsaved
        <5>4. ~(p > At(1).size)
          BY <2>4, <3>1, <4>3, Bounds
        <5> QED BY <1>1, <2>3, <2>6, <4>3, <5>3, <5>4, RestoredIs
      <4> QED BY <4>1, <4>2, <4>3, <2>4, Bounds
    <3>5. Restored(jrnl, db) \in Book /\ K \in Book
      BY <1>1, RestoredIs, Newest
    <3> QED BY <3>4, <3>5 DEF Book
  <2> QED BY <2>3, <2>4, <2>5, <2>6
<1> QED BY <1>3, <1>4

\* A step of a connection, but the end of its process.
Acts(c) ==
  \/ Share(c) \/ HotExists(c) \/ HotReserved(c) \/ HotRead(c) \/ HotLock(c)
  \/ HotBusy(c) \/ BackOff(c) \/ HotOpen(c) \/ Validate(c) \/ EndRead(c)
  \/ Reserve(c) \/ Commit(c) \/ Excl(c) \/ ExclBusy(c) \/ ClearNext(c)
  \/ FirstSync(c) \/ WriteNRec(c) \/ JournalSync(c) \/ NewHeader(c) \/ StorePage(c)
  \/ DbSync(c) \/ Rollback(c) \/ PlayPage(c) \/ PlayEnd(c) \/ EndUnchanged(c)
  \/ Final(c) \/ FinSync(c) \/ CommitFails(c) \/ Error(c) \/ Unlock(c)
  \/ \E p \in Page : Read(c, p) \/ Modify(c, p) \/ Spill(c, p)

\* What such a step leaves alone of another connection.
Apart(c) ==
  \A d \in Conn \ {c} : /\ tx'[d] = tx[d] /\ pc'[d] = pc[d] /\ mode'[d] = mode[d]
                        /\ cache'[d] = cache[d] /\ vers'[d] = vers[d]

\* Who writes is left alone by all the others.
LEMMA LeftAlone ==
  ASSUME CalmInv, NEW c \in env.conns, NEW d \in Conn \ {c}, Writer(d)
  PROVE  /\ ~Writer(c) /\ mode[c] # 4 /\ mode[c] \in 0..3
         /\ pc[c] \in Waiting \ {"hotopen"} /\ tx[c] = NoTx /\ mode[d] \in 2..4
<1>1. /\ LockInv /\ Types /\ c \in Conn /\ LockAt(c) /\ Holds(pc[c], mode[c], tx[c]) /\ Does(pc[c], tx[c])
      /\ mode[c] \in 0..4 /\ pc[c] \in PC
  BY Entry
<1>2. ~Writer(c)
  BY <1>1 DEF LockInv, OneWriter
<1>3. mode[d] \in 2..4
  BY <1>1, WriterMode
<1>4. mode[c] # 4
  BY <1>1, <1>3 DEF LockAt, Lone
<1>5. pc[c] \in Waiting \ {"hotopen"}
  BY <1>1, <1>2, <1>4 DEF Holds, Does, Writer
<1> QED BY <1>1, <1>2, <1>3, <1>4, <1>5 DEF Does

LEMMA FilesLeftAlone ==
  ASSUME CalmInv, NEW c \in env.conns, NEW d \in Conn \ {c}, Writer(d), Acts(c)
  PROVE  UNCHANGED <<files, draw, history>>
<1>1. /\ pc[c] \in Waiting \ {"hotopen"} /\ tx[c] = NoTx /\ mode[d] \in 2..4
  BY LeftAlone
<1>2. /\ tx[c].goal = "none" /\ ~tx[c].dbmod /\ Types /\ c \in Conn
  BY <1>1, Blanks, Entry
<1>3. CASE Share(c)
  <2>1. mode[d] \in 2..3
    BY <1>1, <1>3 DEF Share, L!Shared
  <2>2. K = Restored(jrnl, db)
    <3>1. CASE pc[d] # "finsync"
      BY <3>1, RestoredWriter
    <3>2. CASE pc[d] = "finsync"
      <4>1. tx[d].goal = "rollback"
        <5>1. Holds(pc[d], mode[d], tx[d]) /\ Does(pc[d], tx[d])
          BY DEF CalmInv, LockInv, LockAt
        <5>2. tx[d].goal \in {"commit", "rollback", "hot"} /\ tx[d].goal # "hot" /\ tx[d].goal # "commit"
          BY <2>1, <3>2, <5>1 DEF Holds, Does, Writer
        <5> QED BY <5>2
      <4>2. db = K /\ ~Hot
        BY <3>2, <4>1 DEF CalmInv, DataInv, WriterOf, RolledBack, OtherOf
      <4> QED BY <1>2, <4>2, RestoredIs
    <3> QED BY <3>1, <3>2
  <2> QED BY <1>3, <2>2 DEF Share, Settle, K
<1>4. ~Reserve(c)
  BY <1>1 DEF Reserve, ReservedElsewhere, Writer
<1>5. CASE HotExists(c) \/ HotReserved(c) \/ HotRead(c) \/ HotLock(c) \/ HotBusy(c) \/ BackOff(c)
  BY <1>5 DEF HotExists, HotReserved, HotRead, HotLock, HotBusy, BackOff
<1>6. CASE Validate(c) \/ EndRead(c) \/ Unlock(c) \/ \E p \in Page : Read(c, p)
  BY <1>6 DEF Validate, EndRead, Unlock, Read
<1>7. ~(HotOpen(c) \/ Commit(c) \/ Excl(c) \/ ExclBusy(c) \/ ClearNext(c) \/ FirstSync(c) \/ WriteNRec(c))
  BY <1>1 DEF HotOpen, Commit, Excl, ExclBusy, ClearNext, FirstSync, WriteNRec
<1>8. ~(JournalSync(c) \/ NewHeader(c) \/ StorePage(c) \/ DbSync(c) \/ Rollback(c) \/ PlayPage(c) \/ PlayEnd(c))
  BY <1>1 DEF JournalSync, NewHeader, StorePage, DbSync, Rollback, PlayPage, PlayEnd
<1>9. ~(EndUnchanged(c) \/ Final(c) \/ FinSync(c) \/ CommitFails(c) \/ Error(c))
  BY <1>1, <1>2 DEF EndUnchanged, Final, FinSync, CommitFails, Error
<1>10. ~(\E p \in Page : Modify(c, p) \/ Spill(c, p))
  BY <1>1 DEF Modify, Spill
<1> QED BY <1>3, <1>4, <1>5, <1>6, <1>7, <1>8, <1>9, <1>10 DEF Acts

LEMMA ActsApart ==
  ASSUME Types, NEW c \in Conn, Acts(c)
  PROVE  Apart(c)
<1> USE DEF Goto, Lower, Types, SharedOK, Apart
<1>2. CASE Share(c)
  BY <1>2 DEF Share, L!Shared
<1>3. CASE HotExists(c)
  BY <1>3 DEF HotExists
<1>4. CASE HotReserved(c)
  BY <1>4 DEF HotReserved
<1>5. CASE HotRead(c)
  BY <1>5 DEF HotRead
<1>6. CASE HotLock(c)
  BY <1>6 DEF HotLock, L!Exclusive
<1>7. CASE HotBusy(c)
  BY <1>7 DEF HotBusy, L!Pending
<1>8. CASE BackOff(c)
  BY <1>8 DEF BackOff
<1>9. CASE HotOpen(c)
  BY <1>9 DEF HotOpen, Forget
<1>10. CASE Validate(c)
  BY <1>10 DEF Validate
<1>11. CASE EndRead(c)
  BY <1>11 DEF EndRead
<1>12. CASE Reserve(c)
  BY <1>12 DEF Reserve, L!Reserved
<1>13. CASE Commit(c)
  BY <1>13 DEF Commit
<1>14. CASE Excl(c)
  BY <1>14 DEF Excl, L!Exclusive
<1>15. CASE ExclBusy(c)
  BY <1>15 DEF ExclBusy, L!Pending
<1>16. CASE ClearNext(c)
  BY <1>16 DEF ClearNext
<1>17. CASE FirstSync(c)
  BY <1>17 DEF FirstSync
<1>18. CASE WriteNRec(c)
  BY <1>18 DEF WriteNRec
<1>19. CASE JournalSync(c)
  BY <1>19 DEF JournalSync
<1>20. CASE NewHeader(c)
  BY <1>20 DEF NewHeader
<1>21. CASE StorePage(c)
  BY <1>21 DEF StorePage
<1>22. CASE DbSync(c)
  BY <1>22 DEF DbSync
<1>23. CASE Rollback(c)
  BY <1>23 DEF Rollback, StartRollback
<1>24. CASE PlayPage(c)
  BY <1>24 DEF PlayPage
<1>25. CASE PlayEnd(c)
  BY <1>25 DEF PlayEnd
<1>26. CASE EndUnchanged(c)
  BY <1>26 DEF EndUnchanged, EndTransaction
<1>27. CASE Final(c)
  BY <1>27 DEF Final, EndTransaction
<1>28. CASE FinSync(c)
  BY <1>28 DEF FinSync, EndTransaction
<1>29. CASE CommitFails(c)
  BY <1>29 DEF CommitFails, StartRollback
<1>30. CASE Error(c)
  BY <1>30 DEF Error
<1>31. CASE Unlock(c)
  BY <1>31 DEF Unlock, Forget
<1>32. CASE \E p \in Page : Read(c, p)
  BY <1>32 DEF Read
<1>33. CASE \E p \in Page : Modify(c, p)
  BY <1>33 DEF Modify
<1>34. CASE \E p \in Page : Spill(c, p)
  BY <1>34 DEF Spill
<1> QED BY <1>2, <1>3, <1>4, <1>5, <1>6, <1>7, <1>8, <1>9, <1>10, <1>11, <1>12, <1>13, <1>14, <1>15, <1>16, <1>17, <1>18, <1>19, <1>20, <1>21, <1>22, <1>23, <1>24, <1>25, <1>26, <1>27, <1>28, <1>29, <1>30, <1>31, <1>32, <1>33, <1>34 DEF Acts

\* The journal of a transaction is its own as long as nobody writes to it.
LEMMA JournalStays ==
  ASSUME NEW c \in Conn, UNCHANGED <<jrnl, jpend, past>>,
         tx'[c].ver = tx[c].ver, tx'[c].size = tx[c].size, tx'[c].inJournal = tx[c].inJournal,
         tx'[c].off = tx[c].off, tx'[c].hdr = tx[c].hdr, tx'[c].needSync = tx[c].needSync,
         tx'[c].dbmod = tx[c].dbmod
  PROVE  /\ Journal(c) => Journal(c)'
         /\ Stale(tx[c]) /\ draw' = draw => Stale(tx[c])'
<1>1. /\ \A s : At(s)' = At(s)
      /\ K' = K
  BY DEF At, K
<1>2. Closed(tx[c])' <=> Closed(tx[c])
  BY <1>1 DEF Closed
<1>3. \A s : NoHeader(s)' <=> NoHeader(s)
  BY <1>1 DEF NoHeader
<1>4. \A s : (OwnHeader(tx[c], s)' <=> OwnHeader(tx[c], s)) /\ (OwnRecord(tx[c], s)' <=> OwnRecord(tx[c], s))
  BY <1>1 DEF OwnHeader, OwnRecord
<1>5. Chain(jrnl.at, tx[c].hdr)' <=> Chain(jrnl.at, tx[c].hdr)
  BY DEF Chain
<1>6. Journal(c) => Journal(c)'
  BY <1>1, <1>2, <1>3, <1>4, <1>5 DEF Journal
<1>7. Stale(tx[c]) /\ draw' = draw => Stale(tx[c])'
  BY <1>1 DEF Stale
<1> QED BY <1>6, <1>7

LEMMA JournalAtStays ==
  ASSUME NEW c \in Conn, UNCHANGED jrnl, tx'[c] = tx[c], pc'[c] = pc[c], JournalAt(c)
  PROVE  JournalAt(c)'
<1>1. /\ Closed(tx[c])' <=> Closed(tx[c])
      /\ \A s : NoHeader(s)' <=> NoHeader(s)
  BY DEF Closed, NoHeader, At
<1> QED BY <1>1 DEF JournalAt

LEMMA JournalOfStays ==
  ASSUME NEW c \in Conn, UNCHANGED <<jrnl, jpend, past, draw>>, tx'[c] = tx[c], pc'[c] = pc[c], JournalOf(c)
  PROVE  JournalOf(c)'
<1>1. Stale(tx[c])' /\ (Journal(c) => Journal(c)') /\ (JournalAt(c) => JournalAt(c)')
  BY JournalStays, JournalAtStays DEF JournalOf
<1>2. NotOpened(tx[c]) => NotOpened(tx[c])'
  BY DEF NotOpened, Hot
<1> QED BY <1>1, <1>2 DEF JournalOf

LEMMA JournalOfOthers ==
  ASSUME CalmInv, NEW c \in env.conns, Acts(c), NEW d \in Conn \ {c}, Writer(d)', pc'[d] # "finsync"
  PROVE  JournalOf(d)'
<1>1. tx'[d] = tx[d] /\ pc'[d] = pc[d]
  BY ActsApart, Entry DEF Apart
<1>2. Writer(d) /\ JournalOf(d)
  BY <1>1 DEF Writer, CalmInv, JournalInv
<1>3. UNCHANGED <<jrnl, jpend, past, draw>>
  BY <1>2, FilesLeftAlone
<1> QED BY <1>1, <1>2, <1>3, JournalOfStays

LEMMA DrawnStays ==
  ASSUME CalmInv, draw' \in Nat, draw' >= draw,
         \A s \in Slot : At(s)' \in {At(s), Nothing, ZeroHeader}
  PROVE  Drawn'
<1>1. ZeroHeader.salt[1] = 0
  BY DEF ZeroHeader, Header
<1>2. Types /\ draw \in Nat
  BY Bounds DEF CalmInv, LockInv, Types, SharedOK
<1>3. \A s \in Slot : At(s) # Nothing => At(s).salt[1] \in Nat /\ At(s).salt[1] <= draw
  <2> SUFFICES ASSUME NEW s \in Slot, At(s) # Nothing PROVE At(s).salt[1] \in Nat /\ At(s).salt[1] <= draw
    OBVIOUS
  <2>1. At(s) \in HeaderOK \cup RecordOK
    BY <1>2, RowsOK DEF SlotOK
  <2> QED BY <2>1 DEF HeaderOK, RecordOK, CalmInv, JournalInv, Drawn
<1> QED BY <1>1, <1>2, <1>3 DEF Drawn

\* A step that leaves the journal as it is, of a connection that does not write or
\* no longer does.
LEMMA JournalIdle ==
  ASSUME CalmInv, NEW c \in env.conns, Acts(c), UNCHANGED <<jrnl, draw>>,
         Writer(c)' /\ pc'[c] # "finsync" => JournalOf(c)'
  PROVE  JournalInv'
<1>1. Drawn'
  <2>1. draw \in Nat
    BY Bounds DEF CalmInv, LockInv, Types, SharedOK
  <2> QED BY <2>1, DrawnStays DEF At
<1> QED BY <1>1, JournalOfOthers DEF JournalInv

\* A step of a writer that leaves the journal and what it knows of it as it is.
LEMMA JournalWaits ==
  ASSUME CalmInv, NEW c \in env.conns, Acts(c), Writer(c), pc[c] # "finsync", tx[c].hdr # 0,
         UNCHANGED <<jrnl, jpend, past, draw>>,
         tx'[c].ver = tx[c].ver, tx'[c].size = tx[c].size, tx'[c].inJournal = tx[c].inJournal,
         tx'[c].off = tx[c].off, tx'[c].hdr = tx[c].hdr, tx'[c].needSync = tx[c].needSync,
         tx'[c].dbmod = tx[c].dbmod,
         Journal(c) /\ JournalAt(c) => JournalAt(c)'
  PROVE  JournalInv'
<1>1. c \in Conn /\ JournalOf(c) /\ Journal(c) /\ JournalAt(c) /\ Stale(tx[c])
  BY Entry, WriterJournal
<1>2. Journal(c)' /\ Stale(tx[c])'
  BY <1>1, JournalStays
<1>3. JournalOf(c)'
  BY <1>1, <1>2 DEF JournalOf
<1> QED BY <1>3, JournalIdle

LEMMA SameMagic ==
  ASSUME NEW c \in Conn, UNCHANGED jrnl, tx'[c].hdr = tx[c].hdr, tx'[c].off = tx[c].off
  PROVE  /\ Closed(tx[c])' <=> Closed(tx[c])
         /\ \A s : NoHeader(s)' <=> NoHeader(s)
BY DEF Closed, NoHeader, At

\* Actions of who does not write, and actions after which it no longer does.
LEMMA QuietJournal ==
  ASSUME CalmInv, NEW c \in env.conns, LockInv',
         \/ Share(c) \/ HotExists(c) \/ HotReserved(c) \/ HotRead(c) \/ HotLock(c)
         \/ HotBusy(c) \/ BackOff(c) \/ HotOpen(c) \/ Validate(c) \/ EndRead(c) \/ Unlock(c)
         \/ Error(c) \/ EndUnchanged(c) \/ FinSync(c)
  PROVE  JournalInv'
<1>1. Acts(c) /\ UNCHANGED <<jrnl, draw>>
  BY DEF Acts, Share, HotExists, HotReserved, HotRead, HotLock, HotBusy, BackOff, HotOpen, Validate, EndRead,
         Unlock, Error, EndUnchanged, FinSync, SyncJournal, SyncFile
<1>2. /\ Types /\ c \in Conn /\ Does(pc[c], tx[c])
  BY Entry
<1>3. tx'[c] = NoTx \/ tx'[c] = tx[c] \/ tx'[c].ver = 0
  BY <1>2, ZenonT(40) DEF Share, HotExists, HotReserved, HotRead, HotLock, HotBusy, BackOff, HotOpen, Validate, EndRead,
         Unlock, Error, EndUnchanged, FinSync, EndTransaction, NoTx, Types
<1>4. tx'[c] = tx[c] => ~Writer(c)
  <2>1. CASE Error(c) \/ EndUnchanged(c) \/ FinSync(c)
    <3>1. tx'[c] = NoTx
      BY <1>2, <2>1 DEF Error, EndUnchanged, FinSync, EndTransaction, Types
    <3> QED BY <3>1, Blanks DEF Writer
  <2>2. CASE pc[c] \in Waiting
    BY <1>2, <2>2, Blanks DEF Does, Writer
  <2> QED BY <2>1, <2>2 DEF Share, HotExists, HotReserved, HotRead, HotLock, HotBusy, BackOff, HotOpen, Validate,
         EndRead, Unlock
<1>5. ~Writer(c)'
  BY <1>3, <1>4, Blanks DEF Writer
<1> QED BY <1>1, <1>5, JournalIdle

LEMMA ReadJournal ==
  ASSUME CalmInv, NEW c \in env.conns, NEW p \in Page, Read(c, p)
  PROVE  JournalInv'
<1>1. Acts(c) /\ UNCHANGED <<jrnl, jpend, past, draw, tx, pc>> /\ c \in Conn
  BY Entry DEF Acts, Read
<1>2. Writer(c)' /\ pc'[c] # "finsync" => JournalOf(c)'
  <2>1. Writer(c)' /\ pc'[c] # "finsync" => JournalOf(c)
    BY <1>1 DEF Writer, CalmInv, JournalInv
  <2> QED BY <1>1, <2>1, JournalOfStays
<1> QED BY <1>1, <1>2, JournalIdle

LEMMA ReserveJournal ==
  ASSUME CalmInv, NEW c \in env.conns, Reserve(c), env' = env
  PROVE  JournalInv'
<1>1. Types /\ c \in Conn /\ pc[c] = "read" /\ tx[c] = NoTx /\ draw \in Nat
  <2>1. Types /\ c \in Conn /\ Does(pc[c], tx[c]) /\ draw \in Nat
    BY Entry, Bounds
  <2> QED BY <2>1 DEF Reserve, Does
<1>2. /\ draw' = draw + 1 /\ UNCHANGED <<jrnl, jpend, past>>
      /\ tx'[c] = [NoTx EXCEPT !.ver = draw', !.size = Size(db)]
  BY <1>1 DEF Reserve, Types
<1>3. /\ tx'[c].off = 0 /\ tx'[c].hdr = 0 /\ tx'[c].dirty = {} /\ tx'[c].needSync = {} /\ tx'[c].inJournal = {}
      /\ tx'[c].dbmod = FALSE
  BY <1>2 DEF NoTx
<1>4. ~Hot
  BY <1>1 DEF CalmInv, DataInv, OtherOf
<1>5. \A s \in Slot : At(s) # Nothing => At(s).salt[1] \in Nat /\ At(s).salt[1] < draw'
  <2> SUFFICES ASSUME NEW s \in Slot, At(s) # Nothing PROVE At(s).salt[1] \in Nat /\ At(s).salt[1] < draw'
    OBVIOUS
  <2>1. At(s) \in HeaderOK \cup RecordOK
    BY <1>1, RowsOK DEF SlotOK
  <2>2. At(s).salt[1] \in Nat /\ At(s).salt[1] <= draw
    BY <2>1 DEF HeaderOK, RecordOK, CalmInv, JournalInv, Drawn
  <2> QED BY <1>1, <1>2, <2>2
<1>6. \A s : At(s)' = At(s)
  BY <1>2 DEF At
<1>7. Stale(tx[c])' /\ Drawn'
  BY <1>1, <1>2, <1>5, <1>6 DEF Stale, Drawn
<1>8. NotOpened(tx[c])'
  BY <1>2, <1>3, <1>4 DEF NotOpened, Hot
<1>9. JournalOf(c)'
  BY <1>3, <1>7, <1>8 DEF JournalOf
<1> QED BY <1>7, <1>9, JournalOfOthers DEF JournalInv, Acts

(***************************************************************************)
(* Actions of a writer that leave its journal as it is.                    *)
(***************************************************************************)
LEMMA ExclJournal ==
  ASSUME CalmInv, NEW c \in env.conns, Excl(c)
  PROVE  JournalInv'
<1>1. Acts(c) /\ UNCHANGED <<jrnl, jpend, past, draw, tx>> /\ pc[c] = "excl" /\ c \in Conn /\ pc'[c] = "next"
  BY Entry DEF Acts, Excl, Goto, Types
<1>2. Writer(c) /\ tx[c].hdr # 0
  BY <1>1, WriterHas
<1>3. JournalAt(c) => JournalAt(c)'
  <2>1. (Closed(tx[c])' <=> Closed(tx[c])) /\ \A s : NoHeader(s)' <=> NoHeader(s)
    BY <1>1, SameMagic
  <2> QED BY <1>1, <2>1 DEF JournalAt
<1> QED BY <1>1, <1>2, <1>3, JournalWaits

LEMMA DbSyncJournal ==
  ASSUME CalmInv, NEW c \in env.conns, DbSync(c)
  PROVE  JournalInv'
<1>1. /\ Acts(c) /\ UNCHANGED <<jrnl, jpend, past, draw, tx>> /\ pc[c] = "dbsync" /\ c \in Conn /\ pc'[c] = "final"
      /\ Does(pc[c], tx[c])
  BY Entry DEF Acts, DbSync, Goto, Types
<1>2. Writer(c) /\ tx[c].hdr # 0
  BY <1>1, WriterHas
<1>3. JournalAt(c) => JournalAt(c)'
  <2>1. (Closed(tx[c])' <=> Closed(tx[c])) /\ \A s : NoHeader(s)' <=> NoHeader(s)
    BY <1>1, SameMagic
  <2> QED BY <1>1, <2>1 DEF JournalAt, Does
<1> QED BY <1>1, <1>2, <1>3, JournalWaits

LEMMA PlayEndJournal ==
  ASSUME CalmInv, NEW c \in env.conns, PlayEnd(c)
  PROVE  JournalInv'
<1>1. /\ Acts(c) /\ UNCHANGED <<jrnl, jpend, past, draw, tx>> /\ pc[c] = "play" /\ c \in Conn /\ pc'[c] = "final"
      /\ Does(pc[c], tx[c])
  BY Entry DEF Acts, PlayEnd, Goto, Types
<1>2. CASE ~Writer(c)
  <2>1. ~Writer(c)'
    BY <1>1, <1>2 DEF Writer
  <2> QED BY <1>1, <2>1, JournalIdle
<1>3. CASE Writer(c)
  <2>1. tx[c].hdr # 0
    BY <1>1, <1>3, WriterJournal
  <2>2. JournalAt(c) => JournalAt(c)'
    <3>1. (Closed(tx[c])' <=> Closed(tx[c])) /\ \A s : NoHeader(s)' <=> NoHeader(s)
      BY <1>1, SameMagic
    <3> QED BY <1>1, <3>1 DEF JournalAt, Does
  <2> QED BY <1>1, <1>3, <2>1, <2>2, JournalWaits
<1> QED BY <1>2, <1>3

LEMMA PlayPageJournal ==
  ASSUME CalmInv, NEW c \in env.conns, PlayPage(c)
  PROVE  JournalInv'
<1>1. /\ Acts(c) /\ UNCHANGED <<jrnl, jpend, past, draw, pc>> /\ pc[c] = "play" /\ c \in Conn
      /\ Types /\ tx[c] \in Tx
  BY Entry DEF Acts, PlayPage
<1>2. PICK u : u = [tx[c] EXCEPT !.todo = tx[c].todo \ {Min(tx[c].todo)}]
  OBVIOUS
<1>3. tx'[c] = u
  <2>1. tx' = [tx EXCEPT ![c].todo = tx[c].todo \ {Min(tx[c].todo)}]
    BY <1>1 DEF PlayPage, Types
  <2> QED BY <1>1, <1>2, <2>1 DEF Types, Tx
<1>4. /\ u.ver = tx[c].ver /\ u.size = tx[c].size /\ u.inJournal = tx[c].inJournal
      /\ u.off = tx[c].off /\ u.hdr = tx[c].hdr /\ u.needSync = tx[c].needSync
      /\ u.dbmod = tx[c].dbmod /\ u.goal = tx[c].goal
  BY <1>1, <1>2, TxFields
<1>5. CASE ~Writer(c)
  <2>1. ~Writer(c)'
    BY <1>3, <1>4, <1>5 DEF Writer
  <2> QED BY <1>1, <2>1, JournalIdle
<1>6. CASE Writer(c)
  <2>1. tx[c].hdr # 0
    BY <1>1, <1>6, WriterJournal
  <2>2. JournalAt(c) => JournalAt(c)'
    <3>1. (Closed(tx[c])' <=> Closed(tx[c])) /\ \A s : NoHeader(s)' <=> NoHeader(s)
      BY <1>1, <1>3, <1>4, SameMagic
    <3> QED BY <1>1, <1>3, <1>4, <3>1 DEF JournalAt
  <2> QED BY <1>1, <1>3, <1>4, <1>6, <2>1, <2>2, JournalWaits
<1> QED BY <1>5, <1>6

LEMMA StartRollbackJournal ==
  ASSUME CalmInv, NEW c \in env.conns, Rollback(c) \/ CommitFails(c)
  PROVE  JournalInv'
<1>1. /\ Acts(c) /\ UNCHANGED <<jrnl, jpend, past, draw>> /\ pc[c] \in Opening \cup Storing /\ c \in Conn
      /\ Types /\ tx[c] \in Tx /\ pc'[c] = "play"
  BY Entry DEF Acts, Rollback, CommitFails, StartRollback, Goto, Types
<1>2. PICK w : w = Played(jrnl, tx[c].hdr)
  OBVIOUS
<1>3. PICK u : u = [tx[c] EXCEPT !.goal = "rollback", !.todo = w]
  OBVIOUS
<1>4. tx'[c] = u
  <2>1. tx' = [tx EXCEPT ![c].goal = "rollback", ![c].todo = w]
    BY <1>2 DEF Rollback, CommitFails, StartRollback
  <2> QED BY <1>1, <1>3, <2>1 DEF Types, Tx
<1>5. /\ u.ver = tx[c].ver /\ u.size = tx[c].size /\ u.inJournal = tx[c].inJournal
      /\ u.off = tx[c].off /\ u.hdr = tx[c].hdr /\ u.needSync = tx[c].needSync
      /\ u.dbmod = tx[c].dbmod /\ u.goal = "rollback"
  BY <1>1, <1>3, TxFields
<1>6. Writer(c) /\ tx[c].hdr # 0
  BY <1>1, WriterHas DEF Rollback, CommitFails
<1>7. JournalAt(c) => JournalAt(c)'
  BY <1>1, <1>4, <1>5 DEF JournalAt
<1> QED BY <1>1, <1>4, <1>5, <1>6, <1>7, JournalWaits

LEMMA ExclBusyJournal ==
  ASSUME CalmInv, NEW c \in env.conns, ExclBusy(c)
  PROVE  JournalInv'
<1>1. /\ Acts(c) /\ UNCHANGED <<jrnl, jpend, past, draw>> /\ pc[c] = "excl" /\ c \in Conn
      /\ Types /\ tx[c] \in Tx /\ pc'[c] = "write"
  BY Entry DEF Acts, ExclBusy, Goto, Types
<1>2. PICK u : u = [tx[c] EXCEPT !.goal = "none", !.todo = {}]
  OBVIOUS
<1>3. tx'[c] = u
  BY <1>1, <1>2 DEF ExclBusy, Types, Tx
<1>4. /\ u.ver = tx[c].ver /\ u.size = tx[c].size /\ u.inJournal = tx[c].inJournal
      /\ u.off = tx[c].off /\ u.hdr = tx[c].hdr /\ u.needSync = tx[c].needSync
      /\ u.dbmod = tx[c].dbmod
  BY <1>1, <1>2, TxFields
<1>5. Writer(c) /\ tx[c].hdr # 0
  BY <1>1, WriterHas
<1>6. JournalAt(c) => JournalAt(c)'
  <2>1. (Closed(tx[c])' <=> Closed(tx[c])) /\ \A s : NoHeader(s)' <=> NoHeader(s)
    BY <1>1, <1>3, <1>4, SameMagic
  <2> QED BY <1>1, <1>3, <1>4, <2>1 DEF JournalAt
<1> QED BY <1>1, <1>3, <1>4, <1>5, <1>6, JournalWaits

LEMMA SpillJournal ==
  ASSUME CalmInv, NEW c \in env.conns, NEW p \in Page, Spill(c, p)
  PROVE  JournalInv'
<1>1. /\ Acts(c) /\ UNCHANGED <<jrnl, jpend, past, draw>> /\ pc[c] = "write" /\ c \in Conn
      /\ Types /\ tx[c] \in Tx /\ p \in tx[c].dirty
  BY Entry DEF Acts, Spill
<1>2. PICK u : u = [tx[c] EXCEPT !.goal = "spill", !.todo = {p}]
  OBVIOUS
<1>3. tx'[c] = u
  BY <1>1, <1>2 DEF Spill, Types, Tx
<1>4. /\ u.ver = tx[c].ver /\ u.size = tx[c].size /\ u.inJournal = tx[c].inJournal
      /\ u.off = tx[c].off /\ u.hdr = tx[c].hdr /\ u.needSync = tx[c].needSync
      /\ u.dbmod = tx[c].dbmod /\ u.goal = "spill"
  BY <1>1, <1>2, TxFields
<1>5. Writer(c) /\ tx[c].hdr # 0
  BY <1>1, WriterHas DEF NotOpened
<1>6. pc'[c] \in {"excl", "store"} /\ (pc'[c] = "excl" => tx[c].off < MaxSlot)
  <2>1. env.slots \in Nat /\ env.slots <= MaxSlot
    BY <1>1, Surrounding, Bounds
  <2>2. tx[c].off \in Nat
    BY <1>1, Bounds DEF Tx
  <2>3. pc'[c] \in {"excl", "store"} /\ (pc'[c] = "excl" => tx[c].off < env.slots)
    BY <1>1 DEF Spill, Goto, Types
  <2> QED BY <2>1, <2>2, <2>3, Bounds
<1>7. JournalAt(c) => JournalAt(c)'
  <2>1. (Closed(tx[c])' <=> Closed(tx[c])) /\ \A s : NoHeader(s)' <=> NoHeader(s)
    BY <1>1, <1>3, <1>4, SameMagic
  <2> QED BY <1>1, <1>3, <1>4, <1>6, <2>1 DEF JournalAt
<1> QED BY <1>1, <1>3, <1>4, <1>5, <1>7, JournalWaits

LEMMA StorePageJournal ==
  ASSUME CalmInv, NEW c \in env.conns, StorePage(c)
  PROVE  JournalInv'
<1>1. /\ Acts(c) /\ UNCHANGED <<jrnl, jpend, past, draw>> /\ pc[c] = "store" /\ c \in Conn
      /\ Types /\ tx[c] \in Tx /\ Does(pc[c], tx[c])
  BY Entry DEF Acts, StorePage
<1>2. Writer(c) /\ tx[c].hdr # 0
  BY <1>1, WriterHas
<1>3. PICK p : p = Min(tx[c].todo)
  OBVIOUS
<1>4. CASE tx[c].goal = "spill"
  <2>1. PICK u : u = [[tx[c] EXCEPT !.dirty = tx[c].dirty \ {p}, !.todo = {}] EXCEPT !.goal = "none"]
    OBVIOUS
  <2>2. tx'[c] = u
    <3>1. tx' = [tx EXCEPT ![c].dirty = tx[c].dirty \ {p}, ![c].todo = {}, ![c].goal = "none"]
      BY <1>3, <1>4 DEF StorePage
    <3> QED BY <1>1, <2>1, <3>1, TxOne DEF Types
  <2>3. /\ u.ver = tx[c].ver /\ u.size = tx[c].size /\ u.inJournal = tx[c].inJournal
        /\ u.off = tx[c].off /\ u.hdr = tx[c].hdr /\ u.needSync = tx[c].needSync
        /\ u.dbmod = tx[c].dbmod
    BY <1>1, <2>1, TxFields
  <2>4. pc'[c] = "write"
    <3>1. \E q \in tx[c].dirty \ {1} : tx[c].todo = {q}
      BY <1>1, <1>4, WriterHas DEF Writes
    <3>2. tx[c].todo = {p}
      BY <1>1, <1>3, <3>1, MinOf DEF Tx
    <3> QED BY <1>1, <1>3, <1>4, <3>2 DEF StorePage, Goto, Types
  <2>5. JournalAt(c) => JournalAt(c)'
    <3>1. (Closed(tx[c])' <=> Closed(tx[c])) /\ \A s : NoHeader(s)' <=> NoHeader(s)
      BY <1>1, <2>2, <2>3, SameMagic
    <3> QED BY <1>1, <1>4, <2>2, <2>3, <2>4, <3>1 DEF JournalAt
  <2> QED BY <1>1, <1>2, <2>2, <2>3, <2>5, JournalWaits
<1>5. CASE tx[c].goal = "commit"
  <2>1. PICK u : u = [tx[c] EXCEPT !.todo = tx[c].todo \ {p}]
    OBVIOUS
  <2>2. tx'[c] = u
    <3>1. tx' = [tx EXCEPT ![c].todo = tx[c].todo \ {p}]
      BY <1>3, <1>5 DEF StorePage
    <3> QED BY <1>1, <2>1, <3>1, TxOne DEF Types
  <2>3. /\ u.ver = tx[c].ver /\ u.size = tx[c].size /\ u.inJournal = tx[c].inJournal
        /\ u.off = tx[c].off /\ u.hdr = tx[c].hdr /\ u.needSync = tx[c].needSync
        /\ u.dbmod = tx[c].dbmod /\ u.goal = "commit"
    BY <1>1, <1>5, <2>1, TxFields
  <2>4. pc'[c] \in {"store", "dbsync"}
    BY <1>1, <1>5 DEF StorePage, Goto, Types
  <2>5. JournalAt(c) => JournalAt(c)'
    <3>1. (Closed(tx[c])' <=> Closed(tx[c])) /\ \A s : NoHeader(s)' <=> NoHeader(s)
      BY <1>1, <2>2, <2>3, SameMagic
    <3> QED BY <1>1, <1>5, <2>2, <2>3, <2>4, <3>1 DEF JournalAt
  <2> QED BY <1>1, <1>2, <2>2, <2>3, <2>5, JournalWaits
<1> QED BY <1>1, <1>4, <1>5 DEF Does

\* The slots before and after a write to the journal by who writes.
LEMMA SlotSalt ==
  ASSUME CalmInv, NEW s \in Slot, At(s) # Nothing
  PROVE  At(s).salt[1] \in Nat /\ At(s).salt[1] <= draw
<1>1. Types
  BY DEF CalmInv, LockInv
<1>2. At(s) \in HeaderOK \cup RecordOK
  BY <1>1, RowsOK DEF SlotOK
<1> QED BY <1>2 DEF HeaderOK, RecordOK, CalmInv, JournalInv, Drawn

LEMMA ChainKept ==
  ASSUME NEW a, NEW b, NEW h \in Line, Rows(a), Chain(a, h), \A s \in 1..h - 1 : b[s] = a[s]
  PROVE  Chain(b, h)
<1>1. h \in Nat /\ \A g \in 1..h - 1 : g \in Slot
  BY Bounds DEF Line
<1>2. \A g \in 1..h - 1 : a[g].kind = "hdr" => a[g].n \in Nat
  BY <1>1 DEF Rows
<1> QED BY <1>1, <1>2 DEF Chain

LEMMA ClearNextJournal ==
  ASSUME CalmInv, NEW c \in env.conns, ClearNext(c)
  PROVE  JournalInv'
<1>1. /\ Acts(c) /\ UNCHANGED <<past, draw, tx>> /\ pc[c] = "next" /\ c \in Conn /\ pc'[c] \in {"fullsync", "nrec"}
      /\ Types /\ tx[c] \in Tx /\ WriteJournal(ZeroNext(tx[c].off + 1)) /\ draw \in Nat
  BY Entry, Bounds DEF Acts, ClearNext, Goto, Types
<1>2. /\ Writer(c) /\ tx[c].hdr # 0 /\ Journal(c) /\ JournalAt(c) /\ Stale(tx[c])
  BY <1>1, WriterHas DEF JournalOf
<1>3. /\ tx[c].hdr \in Slot /\ tx[c].off \in Slot /\ tx[c].hdr <= tx[c].off
      /\ At(tx[c].hdr) \in HeaderOK /\ ~At(tx[c].hdr).magic
  BY <1>1, CountedHeader
<1>0. PICK o, h : o = tx[c].off /\ h = tx[c].hdr
  OBVIOUS
<1>4. /\ \A s \in Slot : s # o + 1 => At(s)' = At(s) /\ jpend'[s] = jpend[s]
      /\ o + 1 \in Slot /\ IsHeader(At(o + 1)) => At(o + 1)' = [At(o + 1) EXCEPT !.magic = FALSE]
      /\ o + 1 \in Slot /\ ~IsHeader(At(o + 1)) => At(o + 1)' = At(o + 1)
      /\ jrnl'.on
  <2> DEFINE w == ZeroNext(o + 1)
  <2>1. WriteJournal(w)
    BY <1>0, <1>1
  <2>2. CASE o + 1 \in Slot /\ IsHeader(At(o + 1))
    <3>1. w = [i \in {o + 1} |-> [At(o + 1) EXCEPT !.magic = FALSE]]
      BY <2>2 DEF ZeroNext, At
    <3>2. At(o + 1) \in HeaderOK
      BY <1>1, <2>2, RowsOK DEF IsHeader
    <3>3. [At(o + 1) EXCEPT !.magic = FALSE] \in SlotOK
      BY <3>2 DEF HeaderOK, SlotOK
    <3> HIDE DEF w
    <3>4. DOMAIN w = {o + 1} /\ w[o + 1] = [At(o + 1) EXCEPT !.magic = FALSE]
      BY <3>1
    <3>5. /\ jrnl'.on
          /\ \A s \in Slot : /\ At(s)' = IF s \in DOMAIN w THEN w[s] ELSE At(s)
                             /\ s \notin DOMAIN w => jpend'[s] = jpend[s]
      BY <1>1, <2>1, <3>3, <3>4, WriteJournalOK
    <3> QED BY <2>2, <3>4, <3>5
  <2>3. CASE ~(o + 1 \in Slot /\ IsHeader(At(o + 1)))
    <3>1. w = <<>>
      BY <2>3 DEF ZeroNext, At
    <3> HIDE DEF w
    <3>2. DOMAIN w = {}
      BY <3>1
    <3>3. /\ jrnl'.on
          /\ \A s \in Slot : /\ At(s)' = IF s \in DOMAIN w THEN w[s] ELSE At(s)
                             /\ s \notin DOMAIN w => jpend'[s] = jpend[s]
      BY <1>1, <2>1, <3>2, WriteJournalOK
    <3> QED BY <2>3, <3>2, <3>3
  <2> QED BY <2>2, <2>3
<1>5. h \in Nat /\ o \in Nat /\ h >= 1 /\ o <= MaxSlot /\ MaxSlot \in Nat /\ h <= o
  BY <1>0, <1>3, Bounds
<1>6. \A s \in 1..o : At(s)' = At(s) /\ jpend'[s] = jpend[s]
  BY <1>4, <1>5, Bounds
<1>7. o + 1 \in Slot => /\ ~IsHeader(At(o + 1))'
                        /\ At(o + 1)' # Nothing => At(o + 1) # Nothing /\ At(o + 1)'.salt = At(o + 1).salt
  <2>1. CASE o + 1 \in Slot /\ IsHeader(At(o + 1))
    <3>1. At(o + 1) \in HeaderOK
      BY <1>1, <2>1, RowsOK DEF IsHeader
    <3>2. At(o + 1)'.magic = FALSE /\ At(o + 1)'.salt = At(o + 1).salt
      BY <1>4, <2>1, <3>1 DEF HeaderOK
    <3>3. At(o + 1) # Nothing
      BY <3>1 DEF HeaderOK, Nothing
    <3> QED BY <3>2, <3>3 DEF IsHeader
  <2>2. CASE o + 1 \in Slot /\ ~IsHeader(At(o + 1))
    BY <1>4, <2>2 DEF IsHeader
  <2> QED BY <2>1, <2>2
<1>8. Stale(tx[c])' /\ Drawn'
  <2>1. ASSUME NEW s \in Slot, At(s)' # Nothing PROVE At(s) # Nothing /\ At(s)'.salt = At(s).salt
    <3>1. CASE s = o + 1
      BY <1>7, <2>1, <3>1
    <3>2. CASE s # o + 1
      BY <1>4, <2>1, <3>2
    <3> QED BY <3>1, <3>2
  <2> QED BY <1>1, <1>2, <2>1 DEF Stale, Drawn, CalmInv, JournalInv
<1>9. Chain(jrnl'.at, h)
  <2>1. Chain(jrnl.at, h) /\ Rows(jrnl.at)
    BY <1>0, <1>1, <1>2, RowsOK DEF Journal
  <2>2. \A s \in 1..h - 1 : jrnl'.at[s] = jrnl.at[s]
    BY <1>5, <1>6 DEF At
  <2>3. h \in Line
    BY <1>0, <1>1, <1>5, Bounds DEF Line
  <2> QED BY <2>1, <2>2, <2>3, ChainKept
<1>10. Journal(c)'
  <2>1. K' = K /\ tx'[c] = tx[c]
    BY <1>1 DEF K
  <2>2. \A s \in 1..o : (OwnHeader(tx[c], s) \/ OwnRecord(tx[c], s))'
    <3>1. \A s \in 1..o : OwnHeader(tx[c], s) \/ OwnRecord(tx[c], s)
      BY <1>0, <1>2 DEF Journal
    <3> QED BY <1>6, <2>1, <3>1 DEF OwnHeader, OwnRecord
  <2>3. ~Closed(tx[c])' /\ (h \in Slot => ~IsHeader(At(h)'))
    <3>1. At(h)' = At(h)
      BY <1>3, <1>5, <1>6
    <3> QED BY <1>0, <1>3, <2>1, <3>1 DEF Closed, IsHeader
  <2>4. \A i \in h..o : i \in 1..o
    BY <1>5
  <2>5. /\ At(h).kind = "hdr" /\ At(h).n = IF At(h).magic THEN o - h ELSE 0
        /\ \A i \in h + 1..o : At(i).kind = "rec" /\ At(i).salt = At(h).salt
    BY <1>0, <1>2, <1>5 DEF Journal
  <2>6. /\ At(h)'.kind = "hdr" /\ At(h)'.n = IF At(h)'.magic THEN o - h ELSE 0
        /\ \A i \in h + 1..o : At(i)'.kind = "rec" /\ At(i)'.salt = At(h)'.salt
    BY <1>3, <1>5, <1>6, <2>5
  <2>7. \A p \in tx[c].inJournal : p <= tx[c].size /\ \E s \in 1..o : At(s)'.kind = "rec" /\ At(s)'.pg = p
    <3>1. \A p \in tx[c].inJournal : p <= tx[c].size /\ \E s \in 1..o : At(s).kind = "rec" /\ At(s).pg = p
      BY <1>0, <1>2 DEF Journal
    <3> QED BY <1>6, <3>1
  <2>8. \A s \in h + 1..o : At(s)'.pg \in tx[c].needSync
    <3>1. \A s \in h + 1..o : At(s).pg \in tx[c].needSync
      BY <1>0, <1>2 DEF Journal
    <3> QED BY <1>5, <1>6, <3>1
  <2>9. \A s \in 1..h - 1 : jpend'[s] = {At(s)'}
    <3>1. \A s \in 1..h - 1 : jpend[s] = {At(s)}
      BY <1>0, <1>2 DEF Journal
    <3> QED BY <1>3, <1>5, <1>6, <3>1
  <2>10. o >= 1 /\ h <= o + 1 /\ (tx[c].dbmod <=> h > 1)
    BY <1>0, <1>2 DEF Journal
  <2> QED BY <1>0, <1>4, <1>9, <2>1, <2>2, <2>3, <2>6, <2>7, <2>8, <2>9, <2>10 DEF Journal, NoHeader
<1>11. JournalAt(c)'
  <2>1. tx'[c] = tx[c]
    BY <1>1
  <2>2. ~Closed(tx[c])' /\ (o + 1 \in Slot => ~IsHeader(At(o + 1)'))
    <3>1. At(h)' = At(h)
      BY <1>3, <1>5, <1>6
    <3> QED BY <1>0, <1>3, <1>7, <2>1, <3>1 DEF Closed, NoHeader
  <2> QED BY <1>0, <1>1, <1>2, <1>3, <1>5, <2>1, <2>2 DEF JournalAt, NoHeader
<1>12. JournalOf(c)'
  BY <1>1, <1>2, <1>8, <1>10, <1>11 DEF JournalOf
<1> QED BY <1>1, <1>8, <1>12, JournalOfOthers DEF JournalInv

LEMMA OwnKept ==
  ASSUME NEW c \in Conn, NEW s, past' = past, tx'[c].ver = tx[c].ver, tx'[c].size = tx[c].size,
         tx[c].inJournal \subseteq tx'[c].inJournal, At(s)' = At(s),
         OwnHeader(tx[c], s) \/ OwnRecord(tx[c], s)
  PROVE  (OwnHeader(tx[c], s) \/ OwnRecord(tx[c], s))'
BY DEF OwnHeader, OwnRecord, K

LEMMA FirstSyncJournal ==
  ASSUME CalmInv, NEW c \in env.conns, FirstSync(c)
  PROVE  JournalInv'
<1>1. /\ Acts(c) /\ UNCHANGED <<past, draw, tx, jrnl>> /\ pc[c] = "fullsync" /\ c \in Conn /\ pc'[c] = "nrec"
      /\ Types /\ tx[c] \in Tx /\ jpend' = [s \in Slot |-> {At(s)}]
  BY Entry DEF Acts, FirstSync, SyncJournal, SyncFile, Goto, Types, At
<1>2. /\ Writer(c) /\ tx[c].hdr # 0 /\ Journal(c) /\ JournalAt(c) /\ Stale(tx[c])
  BY <1>1, WriterHas DEF JournalOf
<1>3. /\ \A s : At(s)' = At(s)
      /\ K' = K
  BY <1>1 DEF At, K
<1>4. (Closed(tx[c])' <=> Closed(tx[c])) /\ \A s : NoHeader(s)' <=> NoHeader(s)
  BY <1>1, SameMagic
<1>5. JournalAt(c)'
  BY <1>1, <1>2, <1>4 DEF JournalAt
<1>6. Stale(tx[c])'
  BY <1>1, <1>2, <1>3 DEF Stale
<1>7. Journal(c)'
  <2>1. \A s : (OwnHeader(tx[c], s)' <=> OwnHeader(tx[c], s)) /\ (OwnRecord(tx[c], s)' <=> OwnRecord(tx[c], s))
    BY <1>1, <1>3 DEF OwnHeader, OwnRecord
  <2>2. Chain(jrnl.at, tx[c].hdr)' <=> Chain(jrnl.at, tx[c].hdr)
    BY <1>1 DEF Chain
  <2>3. \A s \in 1..tx[c].hdr - 1 : jpend'[s] = {At(s)}
    <3>1. tx[c].hdr \in 0..MaxSlot + 1
      BY <1>1 DEF Tx
    <3> QED BY <1>1, <3>1, Bounds
  <2> QED BY <1>1, <1>2, <1>3, <1>4, <2>1, <2>2, <2>3 DEF Journal
<1>8. JournalOf(c)'
  BY <1>1, <1>2, <1>5, <1>6, <1>7 DEF JournalOf
<1> QED BY <1>1, <1>8, JournalIdle

LEMMA WriteNRecJournal ==
  ASSUME CalmInv, NEW c \in env.conns, WriteNRec(c)
  PROVE  JournalInv'
<1>1. /\ Acts(c) /\ UNCHANGED <<past, draw, tx>> /\ pc[c] = "nrec" /\ c \in Conn /\ pc'[c] = "jsync"
      /\ Types /\ tx[c] \in Tx /\ draw \in Nat
  BY Entry, Bounds DEF Acts, WriteNRec, Goto, Types
<1>2. /\ Writer(c) /\ tx[c].hdr # 0 /\ Journal(c) /\ JournalAt(c) /\ Stale(tx[c])
  BY <1>1, WriterHas DEF JournalOf
<1>3. PICK o, h : o = tx[c].off /\ h = tx[c].hdr
  OBVIOUS
<1>4. /\ h \in Slot /\ o \in Slot /\ h <= o /\ At(h) \in HeaderOK /\ ~At(h).magic
  BY <1>1, <1>3, CountedHeader
<1>5. h \in Nat /\ o \in Nat /\ h >= 1 /\ o <= MaxSlot /\ MaxSlot \in Nat /\ o - h \in 0..MaxSlot
  BY <1>4, Bounds
<1>6. PICK v : v = [At(h) EXCEPT !.magic = TRUE, !.n = o - h]
  OBVIOUS
<1>7. /\ v \in SlotOK /\ v.kind = "hdr" /\ v.magic = TRUE /\ v.n = o - h /\ v.salt = At(h).salt /\ v.size = At(h).size
  BY <1>4, <1>5, <1>6 DEF HeaderOK, SlotOK
<1>8. /\ At(h)' = v /\ jrnl'.on
      /\ \A s \in Slot : s # h => At(s)' = At(s) /\ jpend'[s] = jpend[s]
  <2> DEFINE w == [s \in {h} |-> [At(s) EXCEPT !.magic = TRUE, !.n = o - s]]
  <2>1. WriteJournal(w)
    BY <1>3 DEF WriteNRec, At
  <2>2. DOMAIN w = {h} /\ w[h] = v
    BY <1>6
  <2> HIDE DEF w
  <2>3. /\ jrnl'.on
        /\ \A s \in Slot : /\ At(s)' = IF s \in DOMAIN w THEN w[s] ELSE At(s)
                           /\ s \notin DOMAIN w => jpend'[s] = jpend[s]
    BY <1>1, <1>7, <2>1, <2>2, WriteJournalOK
  <2> QED BY <1>4, <2>2, <2>3
<1>9. \A s \in 1..o : s # h => At(s)' = At(s) /\ jpend'[s] = jpend[s]
  BY <1>5, <1>8, Bounds
<1>10. Stale(tx[c])' /\ Drawn'
  <2>1. ASSUME NEW s \in Slot, At(s)' # Nothing PROVE At(s) # Nothing /\ At(s)'.salt = At(s).salt
    <3>1. CASE s = h
      BY <1>4, <1>7, <1>8, <3>1 DEF HeaderOK, Nothing
    <3> QED BY <1>8, <2>1, <3>1
  <2> QED BY <1>1, <1>2, <2>1 DEF Stale, Drawn, CalmInv, JournalInv
<1>11. Chain(jrnl'.at, h)
  <2>1. Chain(jrnl.at, h) /\ Rows(jrnl.at)
    BY <1>1, <1>2, <1>3, RowsOK DEF Journal
  <2>2. \A s \in 1..h - 1 : jrnl'.at[s] = jrnl.at[s]
    BY <1>4, <1>5, <1>9 DEF At
  <2> QED BY <1>4, <1>5, <2>1, <2>2, ChainKept, Bounds DEF Line
<1>12. NoHeader(o + 1) /\ (o + 1 \in Slot => ~IsHeader(At(o + 1)'))
  <2>1. NoHeader(o + 1)
    BY <1>1, <1>2, <1>3 DEF JournalAt
  <2>2. o + 1 # h
    BY <1>4, <1>5
  <2> QED BY <1>8, <2>1, <2>2 DEF NoHeader, IsHeader
<1>13. Closed(tx[c])'
  BY <1>1, <1>3, <1>4, <1>7, <1>8 DEF Closed
<1>14. Journal(c)'
  <2>1. K' = K /\ tx'[c] = tx[c]
    BY <1>1 DEF K
  <2>2. ASSUME NEW s \in 1..o PROVE (OwnHeader(tx[c], s) \/ OwnRecord(tx[c], s))'
    <3>1. OwnHeader(tx[c], s) \/ OwnRecord(tx[c], s)
      BY <1>2, <1>3 DEF Journal
    <3>2. CASE s = h
      BY <1>4, <1>7, <1>8, <2>1, <3>1, <3>2 DEF OwnHeader, OwnRecord, HeaderOK
    <3>3. CASE s # h
      BY <1>1, <1>9, <2>1, <3>1, <3>3, OwnKept
    <3> QED BY <3>2, <3>3
  <2>3. /\ At(h)'.kind = "hdr" /\ At(h)'.magic /\ At(h)'.n = o - h
        /\ \A i \in h + 1..o : At(i)'.kind = "rec" /\ At(i)'.salt = At(h)'.salt
    <3>1. \A i \in h + 1..o : At(i).kind = "rec" /\ At(i).salt = At(h).salt
      BY <1>2, <1>3, <1>4 DEF Journal
    <3> QED BY <1>5, <1>7, <1>8, <1>9, <3>1
  <2>4. \A p \in tx[c].inJournal : p <= tx[c].size /\ \E s \in 1..o : At(s)'.kind = "rec" /\ At(s)'.pg = p
    <3>1. \A p \in tx[c].inJournal : p <= tx[c].size /\ \E s \in 1..o : At(s).kind = "rec" /\ At(s).pg = p
      BY <1>2, <1>3 DEF Journal
    <3>2. At(h).kind = "hdr"
      BY <1>4 DEF HeaderOK
    <3> QED BY <1>9, <3>1, <3>2
  <2>5. \A s \in h + 1..o : At(s)'.pg \in tx[c].needSync
    <3>1. \A s \in h + 1..o : At(s).pg \in tx[c].needSync
      BY <1>2, <1>3 DEF Journal
    <3> QED BY <1>5, <1>9, <3>1
  <2>6. \A s \in 1..h - 1 : jpend'[s] = {At(s)'}
    <3>1. \A s \in 1..h - 1 : jpend[s] = {At(s)}
      BY <1>2, <1>3 DEF Journal
    <3> QED BY <1>4, <1>5, <1>9, <3>1
  <2>7. o >= 1 /\ h <= o + 1 /\ (tx[c].dbmod <=> h > 1)
    BY <1>2, <1>3 DEF Journal
  <2> QED BY <1>3, <1>8, <1>11, <1>12, <1>13, <2>1, <2>2, <2>3, <2>4, <2>5, <2>6, <2>7 DEF Journal, NoHeader
<1>15. JournalAt(c)'
  BY <1>1, <1>2, <1>3, <1>4, <1>5, <1>13 DEF JournalAt
<1>16. JournalOf(c)'
  BY <1>1, <1>2, <1>10, <1>14, <1>15 DEF JournalOf
<1> QED BY <1>1, <1>10, <1>16, JournalOfOthers DEF JournalInv

LEMMA JournalSyncJournal ==
  ASSUME CalmInv, NEW c \in env.conns, JournalSync(c)
  PROVE  JournalInv'
<1>1. /\ Acts(c) /\ UNCHANGED <<past, draw, jrnl>> /\ pc[c] = "jsync" /\ c \in Conn
      /\ Types /\ tx[c] \in Tx /\ jpend' = [s \in Slot |-> {At(s)}] /\ tx[c].off \in 0..MaxSlot
      /\ tx'[c] = [tx[c] EXCEPT !.hdr = tx[c].off + 1, !.needSync = {}, !.dbmod = TRUE]
      /\ pc'[c] = IF tx[c].goal = "spill" THEN "newhdr" ELSE "store"
      /\ Does(pc[c], tx[c])
  BY Entry DEF Acts, JournalSync, SyncJournal, SyncFile, Goto, Types, At
<1>2. /\ Writer(c) /\ tx[c].hdr # 0 /\ Journal(c) /\ JournalAt(c) /\ Stale(tx[c])
  BY <1>1, WriterHas DEF JournalOf
<1>3. PICK o, e : o = tx[c].off /\ e = o + 1
  OBVIOUS
<1>4. Closed(tx[c])
  BY <1>1, <1>2 DEF JournalAt
<1>5. e \in Line /\ Chain(jrnl.at, e) /\ o \in Nat /\ o >= 1 /\ e >= 2 /\ o <= MaxSlot
  BY <1>1, <1>2, <1>3, <1>4, JournalPlays, Bounds DEF Journal
<1>6. PICK u : u = tx'[c]
  OBVIOUS
<1>7. /\ u.ver = tx[c].ver /\ u.dirty = tx[c].dirty /\ u.needSync = {}
      /\ u.inJournal = tx[c].inJournal /\ u.size = tx[c].size /\ u.hdr = e /\ u.off = o
      /\ u.dbmod = TRUE /\ u.goal = tx[c].goal /\ u.todo = tx[c].todo
  BY <1>1, <1>3, <1>6, TxFields
<1>8. /\ \A s : At(s)' = At(s)
      /\ K' = K
  BY <1>1 DEF At, K
<1>9. ~Closed(tx[c])'
  BY <1>3, <1>5, <1>6, <1>7 DEF Closed
<1>10. NoHeader(e) /\ NoHeader(e)'
  BY <1>2, <1>3, <1>4, <1>8 DEF Journal, NoHeader
<1>11. Stale(tx[c])'
  BY <1>1, <1>2, <1>3, <1>6, <1>7, <1>8 DEF Stale
<1>12. Journal(c)'
  <2>1. ASSUME NEW s \in 1..o PROVE (OwnHeader(tx[c], s) \/ OwnRecord(tx[c], s))'
    <3>1. OwnHeader(tx[c], s) \/ OwnRecord(tx[c], s)
      BY <1>2, <1>3 DEF Journal
    <3> QED BY <1>1, <1>6, <1>7, <1>8, <3>1, OwnKept
  <2>2. \A p \in tx[c].inJournal : p <= tx[c].size /\ \E s \in 1..o : At(s)'.kind = "rec" /\ At(s)'.pg = p
    BY <1>2, <1>3, <1>8 DEF Journal
  <2>3. \A s \in 1..e - 1 : jpend'[s] = {At(s)'}
    BY <1>1, <1>3, <1>5, <1>8, Bounds
  <2>4. Chain(jrnl'.at, e) /\ jrnl'.on
    BY <1>1, <1>2, <1>5 DEF Journal
  <2>5. e + 1..o = {}
    BY <1>3, <1>5
  <2>6. ~(e <= o)
    BY <1>3, <1>5
  <2>7. e > 1
    BY <1>3, <1>5
  <2> QED BY <1>3, <1>5, <1>6, <1>7, <1>9, <1>10, <2>1, <2>2, <2>3, <2>4, <2>5, <2>6, <2>7 DEF Journal
<1>13. JournalAt(c)'
  <2>1. u.goal = "spill" => o < MaxSlot
    BY <1>1, <1>2, <1>3, <1>7 DEF JournalAt
  <2>2. u.goal \in {"commit", "spill"}
    BY <1>1, <1>7 DEF Does
  <2>3. pc'[c] = IF u.goal = "spill" THEN "newhdr" ELSE "store"
    BY <1>1, <1>7
  <2>4. u.goal = "spill" => e <= MaxSlot
    BY <1>3, <1>5, <2>1, Bounds
  <2> QED BY <1>3, <1>6, <1>7, <1>9, <2>2, <2>3, <2>4 DEF JournalAt
<1>14. JournalOf(c)'
  <2>1. e # 0
    BY <1>5
  <2> QED BY <1>6, <1>7, <1>11, <1>12, <1>13, <2>1 DEF JournalOf
<1> QED BY <1>1, <1>14, JournalIdle

LEMMA NewHeaderJournal ==
  ASSUME CalmInv, NEW c \in env.conns, NewHeader(c)
  PROVE  JournalInv'
<1>1. /\ Acts(c) /\ UNCHANGED <<past, draw>> /\ pc[c] = "newhdr" /\ c \in Conn /\ pc'[c] = "store"
      /\ Types /\ tx[c] \in Tx /\ draw \in Nat /\ Does(pc[c], tx[c])
  BY Entry, Bounds DEF Acts, NewHeader, Goto, Types
<1>2. /\ Writer(c) /\ tx[c].hdr # 0 /\ Journal(c) /\ JournalAt(c) /\ Stale(tx[c]) /\ tx[c].ver = draw
  BY <1>1, WriterHas DEF JournalOf
<1>3. PICK o, h : o = tx[c].off /\ h = tx[c].hdr
  OBVIOUS
<1>4. h \in Nat /\ o \in Nat /\ h >= 1 /\ h = o + 1 /\ h <= MaxSlot /\ h \in Slot /\ h \in Line /\ MaxSlot \in Nat
  <2>1. h <= MaxSlot /\ h = o + 1
    BY <1>1, <1>2, <1>3 DEF JournalAt
  <2>2. h \in 0..MaxSlot + 1 /\ o \in 0..MaxSlot
    BY <1>1, <1>3 DEF Tx
  <2> QED BY <1>2, <1>3, <2>1, <2>2, Bounds DEF Line
<1>5. PICK u : u = [tx[c] EXCEPT !.off = h]
  OBVIOUS
<1>6. tx'[c] = u
  <2>1. tx' = [tx EXCEPT ![c].off = h]
    BY <1>3 DEF NewHeader
  <2> QED BY <1>1, <1>5, <2>1, TxOne DEF Types
<1>7. /\ u.ver = tx[c].ver /\ u.dirty = tx[c].dirty /\ u.needSync = tx[c].needSync
      /\ u.inJournal = tx[c].inJournal /\ u.size = tx[c].size /\ u.hdr = h /\ u.off = h
      /\ u.dbmod = tx[c].dbmod /\ u.goal = tx[c].goal /\ u.todo = tx[c].todo
  BY <1>1, <1>3, <1>5, TxFields
<1>8. PICK v : v = Header(FALSE, 0, <<tx[c].ver, h>>, tx[c].size)
  OBVIOUS
<1>9. v \in SlotOK /\ v.kind = "hdr" /\ v.magic = FALSE /\ v.n = 0 /\ v.salt = <<tx[c].ver, h>> /\ v.size = tx[c].size
  <2>1. v.kind = "hdr" /\ v.magic = FALSE /\ v.n = 0 /\ v.salt = <<tx[c].ver, h>> /\ v.size = tx[c].size
    BY <1>8 DEF Header
  <2>2. v \in SlotOK
    BY <1>1, <1>4, <1>8, Bounds DEF Header, HeaderOK, SlotOK, Tx
  <2> QED BY <2>1, <2>2
<1>10. /\ At(h)' = v /\ jrnl'.on
       /\ \A s \in Slot : s # h => At(s)' = At(s) /\ jpend'[s] = jpend[s]
  <2> DEFINE w == [s \in {h} |-> Header(FALSE, 0, <<tx[c].ver, s>>, tx[c].size)]
  <2>1. WriteJournal(w)
    BY <1>3 DEF NewHeader
  <2>2. DOMAIN w = {h} /\ w[h] = v
    BY <1>8
  <2> HIDE DEF w
  <2>3. /\ jrnl'.on
        /\ \A s \in Slot : /\ At(s)' = IF s \in DOMAIN w THEN w[s] ELSE At(s)
                           /\ s \notin DOMAIN w => jpend'[s] = jpend[s]
    BY <1>1, <1>9, <2>1, <2>2, WriteJournalOK
  <2> QED BY <1>4, <2>2, <2>3
<1>11. \A s \in 1..o : At(s)' = At(s) /\ jpend'[s] = jpend[s]
  BY <1>4, <1>10, Bounds
<1>12. Stale(tx[c])' /\ Drawn'
  <2>1. v.salt[1] = draw
    BY <1>2, <1>9
  <2>2. \A s \in Slot : At(s) # Nothing => At(s).salt[1] <= draw
    BY DEF CalmInv, JournalInv, Drawn
  <2>3. Drawn'
    BY <1>1, <1>10, <2>1, <2>2 DEF Drawn
  <2>4. Stale(tx[c])'
    <3>1. \A s \in Slot : s > o /\ At(s) # Nothing => At(s).salt[1] < draw
      BY <1>2, <1>3 DEF Stale
    <3>2. \A s \in Slot : s > h => s # h /\ s > o
      BY <1>4, Bounds
    <3> QED BY <1>1, <1>6, <1>7, <1>10, <3>1, <3>2 DEF Stale
  <2> QED BY <2>3, <2>4
<1>13. Chain(jrnl'.at, h)
  <2>1. Chain(jrnl.at, h) /\ Rows(jrnl.at)
    BY <1>1, <1>2, <1>3, RowsOK DEF Journal
  <2>2. \A s \in 1..h - 1 : jrnl'.at[s] = jrnl.at[s]
    BY <1>4, <1>11 DEF At
  <2> QED BY <1>4, <2>1, <2>2, ChainKept
<1>14. ~Closed(tx[c])' /\ (h \in Slot => ~IsHeader(At(h)'))
  BY <1>6, <1>7, <1>9, <1>10 DEF Closed, IsHeader
<1>15. Journal(c)'
  <2>1. ASSUME NEW s \in 1..h PROVE (OwnHeader(tx[c], s) \/ OwnRecord(tx[c], s))'
    <3>1. CASE s = h
      BY <1>6, <1>7, <1>9, <1>10, <3>1 DEF OwnHeader
    <3>2. CASE s # h
      <4>1. s \in 1..o
        BY <1>4, <3>2
      <4>2. OwnHeader(tx[c], s) \/ OwnRecord(tx[c], s)
        BY <1>2, <1>3, <4>1 DEF Journal
      <4> QED BY <1>1, <1>6, <1>7, <1>11, <4>1, <4>2, OwnKept
    <3> QED BY <3>1, <3>2
  <2>2. h + 1..h = {}
    BY <1>4
  <2>3. \A p \in tx[c].inJournal : p <= tx[c].size /\ \E s \in 1..h : At(s)'.kind = "rec" /\ At(s)'.pg = p
    <3>1. \A p \in tx[c].inJournal : p <= tx[c].size /\ \E s \in 1..o : At(s).kind = "rec" /\ At(s).pg = p
      BY <1>2, <1>3 DEF Journal
    <3>2. 1..o \subseteq 1..h
      BY <1>4
    <3> QED BY <1>11, <3>1, <3>2
  <2>4. \A s \in 1..h - 1 : jpend'[s] = {At(s)'}
    <3>1. \A s \in 1..h - 1 : jpend[s] = {At(s)}
      BY <1>2, <1>3 DEF Journal
    <3> QED BY <1>4, <1>11, <3>1
  <2>5. (tx[c].dbmod <=> h > 1)
    BY <1>2, <1>3 DEF Journal
  <2>6. h >= 1 /\ h <= h + 1
    BY <1>4
  <2> QED BY <1>6, <1>7, <1>9, <1>10, <1>13, <1>14, <2>1, <2>2, <2>3, <2>4, <2>5, <2>6 DEF Journal, NoHeader
<1>16. JournalAt(c)'
  <2>1. h # h + 1 /\ u.goal = "spill"
    BY <1>1, <1>4, <1>7 DEF Does
  <2> QED BY <1>1, <1>6, <1>7, <1>14, <2>1 DEF JournalAt
<1>17. JournalOf(c)'
  <2>1. h # 0
    BY <1>4
  <2> QED BY <1>6, <1>7, <1>12, <1>15, <1>16, <2>1 DEF JournalOf
<1> QED BY <1>1, <1>12, <1>17, JournalOfOthers DEF JournalInv

\* The page that goes into the journal is as the newest commit has it.
LEMMA JournalsOriginal ==
  ASSUME CalmInv, NEW c \in env.conns, pc[c] = "write", NEW p \in Page, Journals(tx[c], p),
         cache[c][p] # NoPage \/ p = Max({Size(db)} \cup tx[c].dirty) + 1
  PROVE  cache[c][p] = K[p] /\ K[p] # NoPage /\ p \in 1..tx[c].size /\ p \notin tx[c].inJournal
<1>1. /\ Types /\ c \in Conn /\ tx[c] \in Tx /\ Does(pc[c], tx[c]) /\ Writes(c) /\ WriterOf(c)
  BY Entry, WriterHas
<1>2. p \in 1..tx[c].size /\ p \notin tx[c].inJournal
  BY <1>1, Bounds DEF Journals, Tx
<1>3. tx[c].size = Size(K) /\ tx[c].size \in 0..NPage
  BY <1>1 DEF WriterOf, Tx
<1>4. cache[c][p] # NoPage
  <2> SUFFICES ASSUME p = Max({Size(db)} \cup tx[c].dirty) + 1 PROVE FALSE
    OBVIOUS
  <2> DEFINE T == {Size(db)} \cup tx[c].dirty
  <2>1. Size(db) \in 0..NPage
    BY SizeOK
  <2>2. T \subseteq Nat /\ T # {} /\ T \subseteq 0..NPage
    BY <1>1, <2>1, Bounds DEF Tx
  <2>3. Size(db) <= Max(T) /\ Max(T) \in Nat
    <3>1. Size(db) \in T
      OBVIOUS
    <3> HIDE DEF T
    <3> QED BY <2>2, <3>1, MaxOf, Bounds
  <2>4. p = Max(T) + 1
    OBVIOUS
  <2> HIDE DEF T
  <2>5. p > Size(db) /\ Size(K) >= p
    BY <1>2, <1>3, <2>1, <2>3, <2>4, Bounds
  <2>6. Size(K) # 0 /\ Size(K) \in Page /\ K[Size(K)] # NoPage
    BY <1>2, <1>3, SizeOK, Bounds
  <2>7. db[Size(K)] # NoPage
    BY <1>1, <2>6 DEF Writes
  <2>8. Size(K) > Size(db)
    BY <1>2, <1>3, <2>1, <2>5, Bounds
  <2> QED BY <2>6, <2>7, <2>8, SizeOK
<1>5. cache[c][p] = K[p]
  BY <1>1, <1>2, <1>4 DEF Writes
<1> QED BY <1>2, <1>4, <1>5

\* pager_write leaves a journal that has the page's original.
LEMMA MakeWritableJournal ==
  ASSUME CalmInv, NEW c \in env.conns, pc[c] = "write", NEW p \in Page, MakeWritable(c, p),
         cache[c][p] # NoPage \/ p = Max({Size(db)} \cup tx[c].dirty) + 1,
         past' = past, draw' = draw,
         NEW new, new = Writable(tx[c], p),
         tx'[c].ver = new.ver, tx'[c].size = new.size, tx'[c].inJournal = new.inJournal,
         tx'[c].off = new.off, tx'[c].hdr = new.hdr, tx'[c].needSync = new.needSync,
         tx'[c].dbmod = new.dbmod
  PROVE  /\ Stale(tx[c])' /\ Drawn' /\ Journal(c)' /\ ~Closed(tx[c])' /\ new.hdr <= new.off /\ new.hdr # 0
         /\ new.off \in Nat /\ new.hdr \in Nat /\ (~Hot => ~Hot')
<1>1. /\ Types /\ c \in Conn /\ tx[c] \in Tx /\ draw \in Nat
  BY Entry, Bounds
<1>2. /\ Writer(c) /\ Stale(tx[c]) /\ tx[c].ver = draw
      /\ tx[c].hdr # 0 => Journal(c) /\ JournalAt(c)
      /\ tx[c].hdr = 0 => NotOpened(tx[c])
  BY <1>1, WriterHas DEF JournalOf
<1>3. PICK t \in Tx : t = tx[c]
  BY <1>1
<1>4. PICK o, h, r : /\ o = (IF t.hdr = 0 THEN 1 ELSE t.off) /\ h = (IF t.hdr = 0 THEN 1 ELSE t.hdr)
                     /\ r = Journals(t, p)
  OBVIOUS
<1>5. /\ new.ver = t.ver /\ new.size = t.size /\ new.dbmod = t.dbmod /\ new.hdr = h
      /\ new.off = o + (IF r THEN 1 ELSE 0)
      /\ new.inJournal = IF r THEN t.inJournal \cup {p} ELSE t.inJournal
      /\ new.needSync = IF NeedSync(t, p) THEN t.needSync \cup {p} ELSE t.needSync
  BY <1>3, <1>4, WritableIs
<1>6. /\ new.off \in 0..MaxSlot /\ jrnl'.on
      /\ r => new.off \in Slot
      /\ \A s \in Slot : /\ At(s)' = IF r /\ s = new.off
                                     THEN Record(p, cache[c][p], <<t.ver, new.hdr>>)
                                     ELSE IF t.hdr = 0 /\ s = 1 THEN Header(FALSE, 0, <<t.ver, 1>>, t.size)
                                     ELSE At(s)
                         /\ (~(t.hdr = 0 /\ s = 1) /\ ~(r /\ s = new.off)) => jpend'[s] = jpend[s]
  <2>1. new = Writable(t, p)
    BY <1>3
  <2>2. /\ new.off \in 0..MaxSlot /\ jrnl'.on
        /\ Journals(t, p) => new.off \in Slot
        /\ \A s \in Slot : /\ At(s)' = IF Journals(t, p) /\ s = new.off
                                       THEN Record(p, cache[c][p], <<t.ver, new.hdr>>)
                                       ELSE IF t.hdr = 0 /\ s = 1 THEN Header(FALSE, 0, <<t.ver, 1>>, t.size)
                                       ELSE At(s)
                           /\ (~(t.hdr = 0 /\ s = 1) /\ ~(Journals(t, p) /\ s = new.off)) => jpend'[s] = jpend[s]
    BY <1>1, <1>3, <2>1, MakeWritableOK, SMTT(60) DEF At, Record, Header
  <2> HIDE DEF At
  <2> QED BY <1>4, <2>2
<1>7. /\ t.hdr \in Nat /\ t.off \in Nat /\ t.off <= MaxSlot /\ t.ver \in Nat /\ t.size \in Nat /\ t.size <= NPage
      /\ t.ver = draw
  BY <1>2, <1>3, Bounds DEF Tx
<1>8. h \in Nat /\ h >= 1 /\ o \in Nat /\ h <= o /\ o <= MaxSlot /\ h \in Slot /\ h \in Line
  <2>1. CASE t.hdr = 0
    BY <1>4, <2>1, Bounds DEF Line
  <2>2. CASE t.hdr # 0
    <3>1. Journal(c) /\ JournalAt(c)
      BY <1>2, <1>3, <2>2
    <3>2. t.hdr <= t.off + 1 /\ t.hdr # t.off + 1
      BY <1>3, <3>1 DEF Journal, JournalAt
    <3> QED BY <1>4, <1>7, <2>2, <3>2, Bounds DEF Line
  <2> QED BY <2>1, <2>2
<1>9. r => p <= t.size /\ p \notin t.inJournal /\ cache[c][p] = K[p]
  BY <1>3, <1>4, JournalsOriginal DEF Journals
<1>10. PICK rec : rec = Record(p, cache[c][p], <<t.ver, new.hdr>>)
  OBVIOUS
<1>11. PICK hd : hd = Header(FALSE, 0, <<t.ver, 1>>, t.size)
  OBVIOUS
<1>12. /\ rec.kind = "rec" /\ rec.pg = p /\ rec.val = cache[c][p] /\ rec.salt = <<t.ver, h>>
       /\ hd.kind = "hdr" /\ hd.magic = FALSE /\ hd.n = 0 /\ hd.salt = <<t.ver, 1>> /\ hd.size = t.size
  BY <1>5, <1>10, <1>11 DEF Record, Header
\* What is in the slots now.
<1>13. /\ r => At(o + 1)' = rec
       /\ t.hdr = 0 => At(1)' = hd
       /\ t.hdr # 0 => \A s \in 1..o : At(s)' = At(s) /\ jpend'[s] = jpend[s]
       /\ \A s \in Slot : s > new.off => At(s)' = At(s)
  <2>1. r => At(o + 1)' = rec
    BY <1>5, <1>6, <1>10
  <2>2. t.hdr = 0 => At(1)' = hd
    <3>1. o + 1 # 1 /\ 1 \in Slot
      BY <1>8, Bounds
    <3> QED BY <1>5, <1>6, <1>11, <3>1
  <2>3. ASSUME t.hdr # 0, NEW s \in 1..o PROVE At(s)' = At(s) /\ jpend'[s] = jpend[s]
    <3>1. s \in Slot /\ s # o + 1
      BY <1>8, Bounds
    <3> QED BY <1>5, <1>6, <2>3, <3>1
  <2>4. ASSUME NEW s \in Slot, s > new.off PROVE At(s)' = At(s)
    <3>1. s # new.off /\ ~(t.hdr = 0 /\ s = 1)
      BY <1>4, <1>5, <1>6, <1>8, <2>4, Bounds
    <3> QED BY <1>6, <3>1
  <2> QED BY <2>1, <2>2, <2>3, <2>4
<1>14. \A s \in Slot : At(s)' = At(s) \/ At(s)' = rec \/ At(s)' = hd
  BY <1>6, <1>10, <1>11
<1>15. Drawn'
  <2>1. \A s \in Slot : At(s) # Nothing => At(s).salt[1] <= draw
    BY DEF CalmInv, JournalInv, Drawn
  <2>2. rec.salt[1] <= draw /\ hd.salt[1] <= draw
    BY <1>1, <1>7, <1>12
  <2> QED BY <1>14, <2>1, <2>2 DEF Drawn
<1>16. Stale(tx[c])'
  <2>1. \A s \in Slot : s > t.off /\ At(s) # Nothing => At(s).salt[1] < draw
    BY <1>2, <1>3 DEF Stale
  <2>2. t.off <= new.off
    <3>1. t.hdr = 0 => t.off = 0
      BY <1>2, <1>3 DEF NotOpened
    <3> QED BY <1>4, <1>5, <1>7, <1>8, <3>1
  <2>3. \A s \in Slot : s > new.off => s > t.off
    BY <1>6, <1>7, <2>2, Bounds
  <2> QED BY <1>5, <1>13, <2>1, <2>3 DEF Stale
<1>17. tx'[c].off = new.off /\ tx'[c].hdr = h
  BY <1>5
<1>18. /\ At(h)'.kind = "hdr" /\ ~At(h)'.magic /\ At(h)'.n = 0
       /\ At(h)'.salt = <<t.ver, h>>
  <2>1. CASE t.hdr = 0
    BY <1>4, <1>12, <1>13, <2>1
  <2>2. CASE t.hdr # 0
    <3>1. h \in 1..o /\ h = t.hdr /\ o = t.off
      BY <1>4, <1>8, <2>2
    <3>2. Journal(c) /\ JournalAt(c)
      BY <1>2, <1>3, <2>2
    <3>3. ~Closed(tx[c])
      BY <3>2 DEF JournalAt
    <3>4. At(h).kind = "hdr" /\ At(h).n = IF At(h).magic THEN t.off - h ELSE 0
      BY <1>3, <1>8, <3>1, <3>2 DEF Journal
    <3>5. ~At(h).magic
      BY <1>3, <1>8, <3>1, <3>3 DEF Closed
    <3>6. At(h).salt = <<t.ver, h>>
      <4>1. OwnHeader(tx[c], h) \/ OwnRecord(tx[c], h)
        BY <1>3, <3>1, <3>2 DEF Journal
      <4> QED BY <1>3, <3>4, <4>1 DEF OwnHeader, OwnRecord
    <3> QED BY <1>13, <2>2, <3>1, <3>4, <3>5, <3>6
  <2> QED BY <2>1, <2>2
<1>19. ~Closed(tx[c])'
  BY <1>17, <1>18 DEF Closed
<1>20. K' = K
  BY DEF K
<1>21. ASSUME NEW s \in 1..new.off PROVE (OwnHeader(tx[c], s) \/ OwnRecord(tx[c], s))'
  <2>1. CASE r /\ s = o + 1
    <3>1. At(s)' = rec
      BY <1>13, <2>1
    <3> QED BY <1>5, <1>9, <1>12, <1>20, <2>1, <3>1 DEF OwnRecord
  <2>2. CASE t.hdr = 0 /\ s = 1
    BY <1>5, <1>12, <1>13, <2>2 DEF OwnHeader
  <2>3. CASE t.hdr # 0 /\ ~(r /\ s = o + 1)
    <3>1. s \in 1..o /\ o = t.off
      BY <1>4, <1>5, <1>8, <2>3
    <3>2. OwnHeader(tx[c], s) \/ OwnRecord(tx[c], s)
      BY <1>2, <1>3, <2>3, <3>1 DEF Journal
    <3>3. tx[c].inJournal \subseteq tx'[c].inJournal
      BY <1>3, <1>5
    <3> QED BY <1>1, <1>3, <1>5, <1>13, <2>3, <3>1, <3>2, <3>3, OwnKept
  <2>4. ~(t.hdr = 0 /\ s # 1 /\ ~(r /\ s = o + 1))
    BY <1>4, <1>5, <1>8
  <2> QED BY <2>1, <2>2, <2>3, <2>4
<1>22. Chain(jrnl'.at, h)
  <2>1. CASE t.hdr = 0
    BY <1>4, <2>1 DEF Chain
  <2>2. CASE t.hdr # 0
    <3>1. Chain(jrnl.at, h) /\ Rows(jrnl.at)
      BY <1>1, <1>2, <1>3, <1>4, <2>2, RowsOK DEF Journal
    <3>2. \A s \in 1..h - 1 : jrnl'.at[s] = jrnl.at[s]
      BY <1>8, <1>13, <2>2 DEF At
    <3> QED BY <1>8, <3>1, <3>2, ChainKept
  <2> QED BY <2>1, <2>2
<1>23. \A i \in h + 1..new.off : At(i)'.kind = "rec" /\ At(i)'.salt = At(h)'.salt /\ At(i)'.pg \in new.needSync
  <2> SUFFICES ASSUME NEW i \in h + 1..new.off
               PROVE  At(i)'.kind = "rec" /\ At(i)'.salt = At(h)'.salt /\ At(i)'.pg \in new.needSync
    OBVIOUS
  <2>1. CASE r /\ i = o + 1
    <3>1. NeedSync(t, p)
      BY <1>4, <2>1 DEF NeedSync
    <3> QED BY <1>5, <1>12, <1>13, <1>18, <2>1, <3>1
  <2>2. CASE ~(r /\ i = o + 1)
    <3>1. i \in h + 1..o /\ i \in 1..o
      BY <1>5, <1>8, <2>2
    <3>2. t.hdr # 0
      BY <1>4, <1>8, <3>1
    <3>3. At(i).kind = "rec" /\ At(i).salt = At(h).salt /\ At(i).pg \in t.needSync
      <4>1. Journal(c) /\ h = t.hdr /\ o = t.off
        BY <1>2, <1>3, <1>4, <3>2
      <4> QED BY <1>3, <1>8, <3>1, <4>1 DEF Journal
    <3>4. At(i)' = At(i) /\ At(h)' = At(h)
      BY <1>8, <1>13, <3>1, <3>2
    <3> QED BY <1>5, <3>3, <3>4
  <2> QED BY <2>1, <2>2
<1>24. ASSUME NEW q \in new.inJournal
       PROVE  q <= t.size /\ \E s \in 1..new.off : At(s)'.kind = "rec" /\ At(s)'.pg = q
  <2>1. CASE r /\ q = p
    <3>1. o + 1 \in 1..new.off
      BY <1>5, <1>8, <2>1
    <3> QED BY <1>9, <1>12, <1>13, <2>1, <3>1
  <2>2. CASE ~(r /\ q = p)
    <3>1. q \in t.inJournal
      BY <1>5, <2>2
    <3>2. t.hdr # 0
      BY <1>2, <1>3, <3>1 DEF NotOpened
    <3>3. Journal(c) /\ o = t.off
      BY <1>2, <1>3, <1>4, <3>2
    <3>4. q <= t.size /\ \E s \in 1..o : At(s).kind = "rec" /\ At(s).pg = q
      BY <1>3, <3>1, <3>3 DEF Journal
    <3>5. 1..o \subseteq 1..new.off
      BY <1>5, <1>8
    <3> QED BY <1>13, <3>2, <3>4, <3>5
  <2> QED BY <2>1, <2>2
<1>25. \A s \in 1..h - 1 : jpend'[s] = {At(s)'}
  <2>1. CASE t.hdr = 0
    BY <1>4, <2>1
  <2>2. CASE t.hdr # 0
    <3>1. Journal(c) /\ h = t.hdr
      BY <1>2, <1>3, <1>4, <2>2
    <3>2. \A s \in 1..h - 1 : jpend[s] = {At(s)}
      BY <1>3, <3>1 DEF Journal
    <3>3. \A s \in 1..h - 1 : s \in 1..o
      BY <1>8
    <3> QED BY <1>13, <2>2, <3>2, <3>3
  <2> QED BY <2>1, <2>2
<1>26. new.dbmod <=> h > 1
  <2>1. CASE t.hdr = 0
    <3>1. ~t.dbmod
      BY <1>2, <1>3, <2>1 DEF NotOpened
    <3> QED BY <1>4, <1>5, <2>1, <3>1
  <2>2. CASE t.hdr # 0
    BY <1>2, <1>3, <1>4, <1>5, <2>2 DEF Journal
  <2> QED BY <2>1, <2>2
<1>27. new.off >= 1 /\ h <= new.off /\ new.off \in Nat
  BY <1>5, <1>8
<1>28. Journal(c)'
  <2>1. /\ tx'[c].off >= 1 /\ tx'[c].hdr <= tx'[c].off + 1 /\ jrnl'.on
    BY <1>6, <1>8, <1>17, <1>27
  <2>2. \A s \in 1..tx'[c].off : (OwnHeader(tx[c], s) \/ OwnRecord(tx[c], s))'
    BY <1>17, <1>21
  <2>3. /\ At(h)'.kind = "hdr" /\ At(h)'.n = IF At(h)'.magic THEN new.off - h ELSE 0
    BY <1>18
  <2>4. h \in Slot => ~IsHeader(At(h)')
    BY <1>18 DEF IsHeader
  <2>5. \A q \in tx'[c].inJournal : q <= tx'[c].size /\ \E s \in 1..new.off : At(s)'.kind = "rec" /\ At(s)'.pg = q
    BY <1>5, <1>24
  <2>6. tx'[c].dbmod <=> h > 1
    BY <1>26
  <2> QED BY <1>17, <1>19, <1>22, <1>23, <1>25, <2>1, <2>2, <2>3, <2>4, <2>5, <2>6 DEF Journal, NoHeader
<1>29. ~Hot => ~Hot'
  <2>1. ASSUME At(1)' # At(1) PROVE ~IsHeader(At(1)')
    BY <1>12, <1>14, <2>1, Bounds DEF IsHeader
  <2>2. At(1)' = At(1) => (IsHeader(At(1)') => IsHeader(At(1)))
    OBVIOUS
  <2>3. jrnl.on \/ ~IsHeader(At(1)')
    <3>1. CASE t.hdr # 0
      BY <1>2, <1>3, <3>1 DEF Journal
    <3>2. CASE t.hdr = 0
      BY <1>12, <1>13, <3>2 DEF IsHeader
    <3> QED BY <3>1, <3>2
  <2> QED BY <2>1, <2>2, <2>3 DEF Hot, At
<1> QED BY <1>5, <1>8, <1>15, <1>16, <1>19, <1>27, <1>28, <1>29

\* What is left to show when a page has been made writable.
LEMMA WritableJournal ==
  ASSUME CalmInv, NEW c \in env.conns, Acts(c), Drawn', Stale(tx[c])', Journal(c)', ~Closed(tx[c])',
         NEW hdr \in Nat, NEW off \in Nat, tx'[c].hdr = hdr, tx'[c].off = off, hdr <= off, hdr # 0,
         pc'[c] = "write" \/ (pc'[c] = "excl" /\ tx'[c].goal = "commit")
  PROVE  JournalInv'
<1>1. JournalAt(c)'
  <2>1. hdr # off + 1
    OBVIOUS
  <2> QED BY <2>1 DEF JournalAt
<1>2. JournalOf(c)'
  BY <1>1 DEF JournalOf
<1> QED BY <1>2, JournalOfOthers DEF JournalInv

LEMMA ModifyJournal ==
  ASSUME CalmInv, NEW c \in env.conns, NEW p \in Page, Modify(c, p)
  PROVE  JournalInv' /\ (~Hot => ~Hot')
<1>1. Acts(c) /\ c \in Conn /\ Types
  BY Entry DEF Acts
<1>2. /\ pc[c] = "write" /\ MakeWritable(c, p) /\ tx' = [tx EXCEPT ![c] = Writable(tx[c], p)]
      /\ cache[c][p] # NoPage \/ p = Max({Size(db)} \cup tx[c].dirty) + 1
      /\ UNCHANGED <<pc, draw, past>>
  BY DEF Modify
<1>3. PICK new : new = Writable(tx[c], p)
  OBVIOUS
<1>4. tx'[c] = new
  BY <1>1, <1>2, <1>3 DEF Types
<1>5. /\ Stale(tx[c])' /\ Drawn' /\ Journal(c)' /\ ~Closed(tx[c])' /\ new.hdr <= new.off /\ new.hdr # 0
      /\ new.off \in Nat /\ new.hdr \in Nat /\ (~Hot => ~Hot')
  BY <1>2, <1>3, <1>4, MakeWritableJournal
<1> QED BY <1>1, <1>2, <1>4, <1>5, WritableJournal

LEMMA CommitJournal ==
  ASSUME CalmInv, NEW c \in env.conns, Commit(c)
  PROVE  JournalInv' /\ (~Hot => ~Hot')
<1>1. Acts(c) /\ c \in Conn /\ Types /\ tx[c] \in Tx /\ 1 \in Page
  BY Entry, Bounds DEF Acts
<1>2. /\ pc[c] = "write" /\ MakeWritable(c, 1)
      /\ tx' = [tx EXCEPT ![c] = [Writable(tx[c], 1) EXCEPT !.goal = "commit", !.todo = tx[c].dirty \cup {1}]]
      /\ Goto(c, "excl") /\ UNCHANGED <<draw, past>>
  BY DEF Commit
<1>3. PICK new : new = Writable(tx[c], 1)
  OBVIOUS
<1>4. new \in Tx
  BY <1>1, <1>2, <1>3, MakeWritableOK
<1>5. tx'[c] = [new EXCEPT !.goal = "commit", !.todo = tx[c].dirty \cup {1}] /\ pc'[c] = "excl"
  BY <1>1, <1>2, <1>3 DEF Types, Goto
<1>6. PICK u : u = tx'[c]
  OBVIOUS
<1>7. /\ u.ver = new.ver /\ u.size = new.size /\ u.inJournal = new.inJournal /\ u.off = new.off
      /\ u.hdr = new.hdr /\ u.needSync = new.needSync /\ u.dbmod = new.dbmod /\ u.goal = "commit"
  BY <1>4, <1>5, <1>6, TxFields
<1>8. cache[c][1] # NoPage
  BY <1>2, WriterHas DEF Writes
<1>9. /\ Stale(tx[c])' /\ Drawn' /\ Journal(c)' /\ ~Closed(tx[c])' /\ new.hdr <= new.off /\ new.hdr # 0
      /\ new.off \in Nat /\ new.hdr \in Nat /\ (~Hot => ~Hot')
  <2>1. pc[c] = "write" /\ MakeWritable(c, 1) /\ past' = past /\ draw' = draw /\ new = Writable(tx[c], 1)
    BY <1>2, <1>3
  <2>2. /\ tx'[c].ver = new.ver /\ tx'[c].size = new.size /\ tx'[c].inJournal = new.inJournal
        /\ tx'[c].off = new.off /\ tx'[c].hdr = new.hdr /\ tx'[c].needSync = new.needSync
        /\ tx'[c].dbmod = new.dbmod
    BY <1>6, <1>7
  <2>3. CalmInv /\ c \in env.conns /\ 1 \in Page /\ (cache[c][1] # NoPage \/ 1 = Max({Size(db)} \cup tx[c].dirty) + 1)
    BY <1>1, <1>8
  <2> QED BY <2>1, <2>2, <2>3, MakeWritableJournal, ZenonT(60)
<1> QED BY <1>1, <1>5, <1>6, <1>7, <1>9, WritableJournal

\* The transaction is over, or only the last sync is left.
LEMMA FinalJournalInv ==
  ASSUME CalmInv, NEW c \in env.conns, Final(c)
  PROVE  JournalInv'
<1>1. Acts(c) /\ c \in Conn /\ Types /\ draw' = draw /\ draw \in Nat
  <2>1. c \in Conn /\ Types /\ draw \in Nat
    BY Entry, Bounds
  <2>2. Acts(c)
    BY DEF Acts
  <2>3. draw' = draw
    BY DEF Final
  <2> QED BY <2>1, <2>2, <2>3
<1>2. \A s \in Slot : At(s)' \in {At(s), Nothing, ZeroHeader}
  BY <1>1, FinalJournal
<1>3. Drawn'
  BY <1>1, <1>2, DrawnStays
<1>4. pc'[c] = "finsync" \/ tx'[c] = NoTx
  BY <1>1 DEF Final, EndTransaction, Goto, Types
<1>5. ~(Writer(c)' /\ pc'[c] # "finsync")
  BY <1>4, Blanks DEF Writer
<1> QED BY <1>1, <1>3, <1>5, JournalOfOthers DEF JournalInv

LEMMA CrashJournal ==
  ASSUME CalmInv, NEW c \in env.conns, Crash(c)
  PROVE  JournalInv'
<1>1. c \in Conn /\ Types /\ draw \in Nat
  BY Entry, Bounds
<1>2. PICK D \in SUBSET Conn : Ended(D) /\ UNCHANGED <<files, history>>
  BY <1>1 DEF Crash
<1>3. Drawn'
  <2>1. draw' = draw /\ \A s \in Slot : At(s)' = At(s)
    BY <1>2 DEF Ended, At
  <2> QED BY <1>1, <2>1, DrawnStays
<1>4. ASSUME NEW d \in Conn, Writer(d)', pc'[d] # "finsync" PROVE JournalOf(d)'
  <2>1. d \notin D
    BY <1>2, <1>4, Blanks DEF Ended, Writer
  <2>2. tx'[d] = tx[d] /\ pc'[d] = pc[d] /\ draw' = draw
    BY <1>2, <2>1 DEF Ended
  <2>3. JournalOf(d)
    BY <1>4, <2>2 DEF CalmInv, JournalInv, Writer
  <2> QED BY <1>2, <2>2, <2>3, JournalOfStays
<1> QED BY <1>3, <1>4 DEF JournalInv

\* Every step keeps what holds of the journal.
LEMMA JournalNext ==
  ASSUME CalmInv, Next, ~Disturbed, LockInv' PROVE JournalInv'
<1>1. env' = env /\ Step /\ ~PowerLoss
  BY DEF Next, Disturbed
<1>2. PICK c \in env.conns :
       \/ Share(c) \/ HotExists(c) \/ HotReserved(c) \/ HotRead(c) \/ HotLock(c)
       \/ HotBusy(c) \/ BackOff(c) \/ HotOpen(c) \/ Validate(c) \/ EndRead(c)
       \/ Reserve(c) \/ Commit(c) \/ Excl(c) \/ ExclBusy(c) \/ ClearNext(c)
       \/ FirstSync(c) \/ WriteNRec(c) \/ JournalSync(c) \/ NewHeader(c) \/ StorePage(c)
       \/ DbSync(c) \/ Rollback(c) \/ PlayPage(c) \/ PlayEnd(c) \/ EndUnchanged(c)
       \/ Final(c) \/ FinSync(c) \/ CommitFails(c) \/ Error(c) \/ Unlock(c) \/ Crash(c)
       \/ \E p \in Page : Read(c, p) \/ Modify(c, p) \/ Spill(c, p)
  BY <1>1 DEF Step
<1>3. CASE \E p \in Page : Read(c, p) \/ Modify(c, p) \/ Spill(c, p)
  BY <1>3, ReadJournal, ModifyJournal, SpillJournal
<1>4. CASE \/ Share(c) \/ HotExists(c) \/ HotReserved(c) \/ HotRead(c) \/ HotLock(c)
           \/ HotBusy(c) \/ BackOff(c) \/ HotOpen(c) \/ Validate(c) \/ EndRead(c) \/ Unlock(c)
           \/ Error(c) \/ EndUnchanged(c) \/ FinSync(c)
  BY <1>4, QuietJournal
<1>5. CASE \/ Reserve(c) \/ Commit(c) \/ Excl(c) \/ ExclBusy(c) \/ ClearNext(c)
           \/ FirstSync(c) \/ WriteNRec(c) \/ JournalSync(c) \/ NewHeader(c) \/ StorePage(c)
  BY <1>1, <1>5, ReserveJournal, CommitJournal, ExclJournal, ExclBusyJournal, ClearNextJournal,
     FirstSyncJournal, WriteNRecJournal, JournalSyncJournal, NewHeaderJournal, StorePageJournal
<1>6. CASE \/ DbSync(c) \/ Rollback(c) \/ PlayPage(c) \/ PlayEnd(c) \/ Final(c) \/ CommitFails(c) \/ Crash(c)
  BY <1>6, DbSyncJournal, StartRollbackJournal, PlayPageJournal, PlayEndJournal, FinalJournalInv, CrashJournal
<1> QED BY <1>2, <1>3, <1>4, <1>5, <1>6

(***************************************************************************)
(* The contents: the database file, the caches, and the commits.           *)
(***************************************************************************)
\* Who has no lock is idle, and an idle connection has nothing.
LEMMA IdleHas ==
  ASSUME LockInv, NEW d \in Conn, mode[d] = 0
  PROVE  pc[d] = "idle" /\ tx[d] = NoTx /\ ~Writer(d)
<1>1. Holds(pc[d], mode[d], tx[d]) /\ Does(pc[d], tx[d]) /\ pc[d] \in PC
  BY DEF LockInv, LockAt, Types
<1>2. pc[d] = "idle"
  BY <1>1 DEF Holds
<1> QED BY <1>1, <1>2, Blanks DEF Does, Writer

\* Nobody moves beside an EXCLUSIVE lock.
LEMMA NobodyElse ==
  ASSUME CalmInv, NEW c \in env.conns, Acts(c), NEW d \in Conn \ {c}
  PROVE  mode[d] # 4
<1> SUFFICES ASSUME mode[d] = 4 PROVE FALSE
  OBVIOUS
<1>1. c \in Conn /\ LockInv /\ mode[c] = 0
  <2>1. c \in Conn /\ LockInv
    BY Entry
  <2> QED BY <2>1 DEF LockInv, LockAt, Lone
<1>2. pc[c] = "idle" /\ tx[c] = NoTx
  BY <1>1, IdleHas
<1>3. tx[c].goal = "none"
  BY <1>2, Blanks
<1>4. CASE Share(c)
  BY <1>4 DEF Share, L!Shared
<1>5. ~(HotExists(c) \/ HotReserved(c) \/ HotRead(c) \/ HotLock(c) \/ HotBusy(c) \/ BackOff(c))
  BY <1>2 DEF HotExists, HotReserved, HotRead, HotLock, HotBusy, BackOff
<1>6. ~(Validate(c) \/ EndRead(c) \/ Unlock(c) \/ \E p \in Page : Read(c, p))
  BY <1>2 DEF Validate, EndRead, Unlock, Read
<1>7. ~(HotOpen(c) \/ Commit(c) \/ Excl(c) \/ ExclBusy(c) \/ ClearNext(c) \/ FirstSync(c) \/ WriteNRec(c) \/ Reserve(c))
  BY <1>2 DEF HotOpen, Commit, Excl, ExclBusy, ClearNext, FirstSync, WriteNRec, Reserve
<1>8. ~(JournalSync(c) \/ NewHeader(c) \/ StorePage(c) \/ DbSync(c) \/ Rollback(c) \/ PlayPage(c) \/ PlayEnd(c))
  BY <1>2 DEF JournalSync, NewHeader, StorePage, DbSync, Rollback, PlayPage, PlayEnd
<1>9. ~(EndUnchanged(c) \/ Final(c) \/ FinSync(c) \/ CommitFails(c) \/ Error(c))
  BY <1>2, <1>3 DEF EndUnchanged, Final, FinSync, CommitFails, Error
<1>10. ~(\E p \in Page : Modify(c, p) \/ Spill(c, p))
  BY <1>2 DEF Modify, Spill
<1> QED BY <1>4, <1>5, <1>6, <1>7, <1>8, <1>9, <1>10 DEF Acts

\* While somebody writes, the files stand for the newest commit, except when a
\* commit waits for its last sync: then nobody else has a lock.
LEMMA WriterStands ==
  ASSUME CalmInv, NEW d \in Conn, Writer(d)
  PROVE  \/ Restored(jrnl, db) = K
         \/ /\ pc[d] = "finsync" /\ tx[d].goal = "commit" /\ mode[d] = 4
            /\ <<N, db>> \in pending /\ db[1].ctr = N + 1 /\ N < draw /\ ~Hot
            /\ \A e \in Conn \ {d} : pc[e] = "idle"
<1>1. CASE pc[d] # "finsync"
  BY <1>1, RestoredWriter
<1>2. CASE pc[d] = "finsync"
  <2>1. /\ Types /\ LockInv /\ Holds(pc[d], mode[d], tx[d]) /\ Does(pc[d], tx[d]) /\ (mode[d] = 4 => Lone(d))
        /\ WriterOf(d) /\ ~Hot
    BY <1>2 DEF CalmInv, LockInv, LockAt, DataInv, OtherOf
  <2>2. tx[d].goal \in {"commit", "rollback"}
    BY <1>2, <2>1 DEF Does, Writer
  <2>3. CASE tx[d].goal = "rollback"
    BY <1>2, <2>1, <2>3, RestoredIs DEF WriterOf, RolledBack
  <2>4. CASE tx[d].goal = "commit"
    <3>1. mode[d] = 4
      BY <1>2, <2>1, <2>4 DEF Holds
    <3>2. \A e \in Conn \ {d} : pc[e] = "idle"
      BY <2>1, <3>1, IdleHas DEF Lone
    <3> QED BY <1>2, <2>1, <2>4, <3>1, <3>2 DEF WriterOf, Commits
  <2> QED BY <2>2, <2>3, <2>4
<1> QED BY <1>1, <1>2

\* The files stand for the newest commit, or somebody is about to find one newer.
LEMMA Stands ==
  ASSUME CalmInv
  PROVE  \/ Restored(jrnl, db) = K \/ Unsettled
         \/ \E d \in Conn : /\ Writer(d) /\ pc[d] = "finsync" /\ mode[d] = 4
                            /\ \A e \in Conn \ {d} : pc[e] = "idle"
  BY WriterStands DEF CalmInv, DataInv

\* Who is past its check reads the newest commit from the database file.
LEMMA ReadsNewest ==
  ASSUME CalmInv, NEW c \in Conn, pc[c] \in {"validate", "read"}
  PROVE  db = K /\ ~Hot
<1>1. ~Hot /\ Types
  BY DEF CalmInv, DataInv, OtherOf, LockInv
<1>2. Restored(jrnl, db) = K
  BY Stands DEF Unsettled
<1> QED BY <1>1, <1>2, RestoredIs

\* The journal becomes hot under an EXCLUSIVE lock alone.
LEMMA HotAlone ==
  ASSUME CalmInv, NEW c \in env.conns, Acts(c), ~Hot
  PROVE  ~Hot' \/ mode[c] = 4
<1>1. c \in Conn /\ Types /\ Holds(pc[c], mode[c], tx[c])
  BY Entry
<1>2. CASE (\E p \in Page : Modify(c, p)) \/ Commit(c)
  BY <1>2, ModifyJournal, CommitJournal
<1>3. CASE pc[c] \in Storing
  BY <1>1, <1>3 DEF Holds
<1>4. CASE Final(c)
  <2>1. CASE tx[c].off = 0 /\ env.journal # "DELETE"
    BY <1>4, <2>1 DEF Final, Hot
  <2>2. CASE ~(tx[c].off = 0 /\ env.journal # "DELETE")
    BY <1>1, <1>4, <2>2, FinalJournal
  <2> QED BY <2>1, <2>2
<1>5. CASE jrnl' = jrnl
  BY <1>5 DEF Hot
<1>6. CASE \/ Share(c) \/ HotExists(c) \/ HotReserved(c) \/ HotRead(c) \/ HotLock(c)
           \/ HotBusy(c) \/ BackOff(c) \/ HotOpen(c) \/ Validate(c) \/ EndRead(c) \/ Reserve(c)
  BY <1>5, <1>6 DEF Share, HotExists, HotReserved, HotRead, HotLock, HotBusy, BackOff, HotOpen, Validate,
     EndRead, Reserve
<1>7. CASE \/ Excl(c) \/ ExclBusy(c) \/ Rollback(c) \/ PlayPage(c) \/ PlayEnd(c) \/ EndUnchanged(c)
           \/ FinSync(c) \/ CommitFails(c) \/ Error(c) \/ Unlock(c)
           \/ \E p \in Page : Read(c, p) \/ Spill(c, p)
  BY <1>5, <1>7 DEF Excl, ExclBusy, Rollback, PlayPage, PlayEnd, EndUnchanged, FinSync, CommitFails, Error,
     Unlock, Read, Spill, StartRollback, SyncJournal
<1>8. CASE \/ ClearNext(c) \/ FirstSync(c) \/ WriteNRec(c) \/ JournalSync(c) \/ NewHeader(c) \/ StorePage(c)
           \/ DbSync(c)
  BY <1>3, <1>8 DEF ClearNext, FirstSync, WriteNRec, JournalSync, NewHeader, StorePage, DbSync
<1> QED BY <1>2, <1>4, <1>6, <1>7, <1>8 DEF Acts

\* The history goes on when a commit ends, and when one is found that nobody settled.
LEMMA PastGrows ==
  ASSUME CalmInv, NEW c \in env.conns, Acts(c)
  PROVE  \/ past' = past
         \/ /\ mode[c] = 4 /\ tx[c].goal = "commit" /\ pc[c] \in {"final", "finsync"} /\ past' = Append(past, db)
            /\ EndTransaction(c)
         \/ /\ Unsettled /\ Share(c) /\ past' = Append(past, db)
<1>1. c \in Conn /\ Types /\ Holds(pc[c], mode[c], tx[c]) /\ Does(pc[c], tx[c])
  BY Entry
<1>2. CASE EndTransaction(c) /\ pc[c] \in {"write", "final", "finsync"}
  <2>1. pc[c] = "write" => tx[c].goal # "commit"
    BY <1>1 DEF Does
  <2> QED BY <1>1, <1>2, <2>1 DEF EndTransaction, Holds
<1>3. CASE Final(c) \/ FinSync(c) \/ EndUnchanged(c)
  BY <1>2, <1>3 DEF Final, FinSync, EndUnchanged
<1>4. CASE Share(c)
  <2>1. CASE Restored(jrnl, db) = K
    BY <1>4, <2>1 DEF Share, Settle, K
  <2>2. CASE Unsettled
    <3>1. Restored(jrnl, db) = db
      BY <1>1, <2>2, RestoredIs DEF Unsettled
    <3> QED BY <1>4, <2>2, <3>1 DEF Share, Settle
  <2>3. ASSUME NEW d \in Conn, pc[d] = "finsync", mode[d] = 4 PROVE FALSE
    <3>1. d # c
      BY <1>4, <2>3 DEF Share
    <3> QED BY <2>3, <3>1, NobodyElse
  <2> QED BY <2>1, <2>2, <2>3, Stands
<1>5. CASE past' = past
  BY <1>5
<1>6. CASE \/ HotExists(c) \/ HotReserved(c) \/ HotRead(c) \/ HotLock(c)
           \/ HotBusy(c) \/ BackOff(c) \/ HotOpen(c) \/ Validate(c) \/ EndRead(c) \/ Reserve(c)
  BY <1>5, <1>6 DEF HotExists, HotReserved, HotRead, HotLock, HotBusy, BackOff, HotOpen, Validate,
     EndRead, Reserve
<1>7. CASE \/ Excl(c) \/ ExclBusy(c) \/ Rollback(c) \/ PlayPage(c) \/ PlayEnd(c)
           \/ CommitFails(c) \/ Error(c) \/ Unlock(c) \/ Commit(c)
           \/ \E p \in Page : Read(c, p) \/ Spill(c, p) \/ Modify(c, p)
  BY <1>5, <1>7 DEF Excl, ExclBusy, Rollback, PlayPage, PlayEnd, CommitFails, Error,
     Unlock, Read, Spill, StartRollback, Modify, Commit
<1>8. CASE \/ ClearNext(c) \/ FirstSync(c) \/ WriteNRec(c) \/ JournalSync(c) \/ NewHeader(c) \/ StorePage(c)
           \/ DbSync(c)
  BY <1>5, <1>8 DEF ClearNext, FirstSync, WriteNRec, JournalSync, NewHeader, StorePage, DbSync
<1> QED BY <1>3, <1>4, <1>6, <1>7, <1>8 DEF Acts

\* What the history has stays in it.
LEMMA PastStays ==
  ASSUME Types, NEW x \in Book, past' = past \/ past' = Append(past, x)
  PROVE  /\ \A i \in 1..N : i \in 1..N' /\ past'[i] = past[i]
         /\ N' \in {N, N + 1} /\ N \in Nat /\ N >= 1
         /\ past' = Append(past, x) => N' = N + 1 /\ K' = x /\ past'[N + 1] = x
         /\ past' = past => N' = N /\ K' = K
<1>1. past \in Seq(Book) /\ past # <<>>
  BY DEF Types, SharedOK
<1>2. CASE past' = past
  <2>1. ~(past' = Append(past, x))
    <3>1. Len(Append(past, x)) = Len(past) + 1 /\ Len(past) \in Nat
      BY <1>1
    <3> QED BY <1>2, <3>1
  <2> QED BY <1>1, <1>2, <2>1 DEF N, K
<1>3. CASE past' = Append(past, x)
  <2>1. /\ Len(past') = Len(past) + 1 /\ Len(past) \in Nat /\ Len(past) >= 1
        /\ past'[Len(past) + 1] = x
        /\ \A i \in 1..Len(past) : past'[i] = past[i]
    BY <1>1, <1>3
  <2>2. past' # past
    BY <2>1
  <2> QED BY <2>1, <2>2, <1>3 DEF N, K
<1> QED BY <1>2, <1>3

\* A cache that goes with some commit does so later.
LEMMA CachedStays ==
  ASSUME NEW d \in Conn, Types, NEW x \in Book, past' = past \/ past' = Append(past, x),
         cache'[d] = cache[d], vers'[d] = vers[d], Cached(d)
  PROVE  Cached(d)'
<1>1. /\ \A i \in 1..N : i \in 1..N' /\ past'[i] = past[i]
  BY PastStays
<1>2. CASE \A p \in Page : cache[d][p] = NoPage
  BY <1>2 DEF Cached
<1>3. CASE vers[d] \in 1..N /\ \A p \in Page : cache[d][p] \in {NoPage, past[vers[d]][p]}
  BY <1>1, <1>3 DEF Cached
<1> QED BY <1>2, <1>3 DEF Cached

LEMMA CurrentStays ==
  ASSUME NEW d \in Conn, past' = past, cache'[d] = cache[d], vers'[d] = vers[d], Current(d)
  PROVE  Current(d)'
<1>1. N' = N /\ K' = K
  BY DEF N, K
<1> QED BY <1>1 DEF Current

\* What holds of a connection that does not move.
LEMMA OthersStay ==
  ASSUME CalmInv, NEW c \in env.conns, Acts(c), NEW d \in Conn \ {c}
  PROVE  OtherOf(d)'
<1>1. /\ Types /\ c \in Conn /\ mode[d] # 4 /\ OtherOf(d) /\ Holds(pc[d], mode[d], tx[d]) /\ Does(pc[d], tx[d])
      /\ db \in Book
  <2>1. Types /\ c \in Conn /\ mode[d] # 4
    BY Entry, NobodyElse
  <2> QED BY <2>1, Newest DEF CalmInv, LockInv, LockAt, DataInv
<1>2. tx'[d] = tx[d] /\ pc'[d] = pc[d] /\ mode'[d] = mode[d] /\ cache'[d] = cache[d] /\ vers'[d] = vers[d]
  BY <1>1, ActsApart DEF Apart
<1>3. tx[d].goal # "hot"
  BY <1>1 DEF Holds, Does, NoTx
<1>4. past' = past \/ past' = Append(past, db)
  BY PastGrows
<1>5. ~Writer(d)' /\ pc'[d] # "error" => Cached(d)'
  <2>1. Writer(d)' <=> Writer(d)
    BY <1>2 DEF Writer
  <2>2. ~Writer(d) /\ pc[d] # "error" => Cached(d)
    BY <1>1 DEF OtherOf
  <2> QED BY <1>1, <1>2, <1>4, <2>1, <2>2, CachedStays
<1>6. ASSUME pc[d] \in {"validate", "read", "finsync"} PROVE ~Hot'
  <2>1. ~Hot
    BY <1>1, <1>6 DEF OtherOf
  <2>2. CASE Writer(d)
    <3>1. jrnl' = jrnl
      BY <2>2, FilesLeftAlone
    <3> QED BY <2>1, <3>1 DEF Hot
  <2>3. CASE mode[c] = 4
    <3>1. mode[d] = 0
      BY <1>1, <2>3, Entry DEF LockAt, Lone
    <3> QED BY <1>1, <1>6, <3>1, IdleHas DEF CalmInv
  <2>4. CASE ~Writer(d)
    BY <2>1, <2>3, HotAlone
  <2> QED BY <2>2, <2>4
<1>7. ASSUME pc[d] = "read" PROVE Current(d)'
  <2>1. Current(d)
    BY <1>1, <1>7 DEF OtherOf
  <2>2. mode[c] # 4
    <3>1. mode[c] = 4 => mode[d] = 0
      BY <1>1, Entry DEF LockAt, Lone
    <3> QED BY <1>7, <3>1, IdleHas DEF CalmInv
  <2>3. ~Unsettled
    BY <1>7 DEF Unsettled
  <2>4. past' = past
    BY <2>2, <2>3, PastGrows
  <2> QED BY <1>2, <2>1, <2>4, CurrentStays
<1> QED BY <1>2, <1>3, <1>5, <1>6, <1>7 DEF OtherOf

(***************************************************************************)
(* The contents of a write transaction whose owner does not move.          *)
(***************************************************************************)
Stays(c) ==
  /\ UNCHANGED <<jrnl, db, past, pending, draw>>
  /\ tx'[c] = tx[c] /\ pc'[c] = pc[c] /\ cache'[c] = cache[c] /\ vers'[c] = vers[c]

LEMMA WriterOfStays ==
  ASSUME NEW c \in Conn, Stays(c), WriterOf(c)
  PROVE  WriterOf(c)'
<1>1. K' = K /\ N' = N /\ Size(K)' = Size(K)
  BY DEF Stays, K, N, Size
<1>2. \A s : At(s)' = At(s)
  BY DEF Stays, At
<1>3. PICK t, l, b, v : t = tx[c] /\ l = pc[c] /\ b = cache[c] /\ v = vers[c]
  OBVIOUS
<1>4. tx'[c] = t /\ pc'[c] = l /\ cache'[c] = b /\ vers'[c] = v
  BY <1>3 DEF Stays
<1>5. \A p : (Saved(t, p)' <=> Saved(t, p)) /\ (Left(t, p)' <=> Left(t, p))
  BY <1>2 DEF Saved, Left
<1>6. Writes(c) => Writes(c)'
  BY <1>1, <1>3, <1>4, <1>5 DEF Writes, Stays
<1>7. Commits(c) => Commits(c)'
  BY <1>1, <1>3, <1>4, <1>5 DEF Commits, Stays
<1>8. PlaysBack(c) => PlaysBack(c)'
  BY <1>1, <1>2, <1>3, <1>4, <1>5 DEF PlaysBack, Stays
<1>9. RolledBack(c) => RolledBack(c)'
  BY <1>1, <1>3, <1>4 DEF RolledBack, Stays
<1> QED BY <1>1, <1>3, <1>4, <1>6, <1>7, <1>8, <1>9 DEF WriterOf, Stays

LEMMA WritersStay ==
  ASSUME CalmInv, NEW c \in env.conns, Acts(c), NEW d \in Conn \ {c}, Writer(d)'
  PROVE  WriterOf(d)'
<1>1. Types /\ c \in Conn
  BY Entry
<1>2. tx'[d] = tx[d] /\ pc'[d] = pc[d] /\ cache'[d] = cache[d] /\ vers'[d] = vers[d]
  BY <1>1, ActsApart DEF Apart
<1>3. Writer(d) /\ WriterOf(d)
  BY <1>2 DEF Writer, CalmInv, DataInv
<1>4. UNCHANGED <<files, draw, history>>
  BY <1>3, FilesLeftAlone
<1> QED BY <1>2, <1>3, <1>4, WriterOfStays DEF Stays

(***************************************************************************)
(* What is left to show of a step.                                         *)
(***************************************************************************)
LEMMA DataStep ==
  ASSUME CalmInv, NEW c \in env.conns, Acts(c), PastOK',
         Writer(c)' => WriterOf(c)',
         ~Writer(c)' /\ (\A d \in Conn \ {c} : ~Writer(d)) => (Restored(jrnl, db) = K)' \/ Unsettled',
         OtherOf(c)'
  PROVE  DataInv'
<1>1. Types /\ c \in Conn
  BY Entry
<1>2. \A d \in Conn \ {c} : Writer(d)' <=> Writer(d)
  BY <1>1, ActsApart DEF Apart, Writer
<1>3. (\A d \in Conn : ~Writer(d)') => (Restored(jrnl, db) = K)' \/ Unsettled'
  BY <1>1, <1>2
<1>4. \A d \in Conn : Writer(d)' => WriterOf(d)'
  BY WritersStay
<1>5. \A d \in Conn : OtherOf(d)'
  BY OthersStay
<1> QED BY <1>3, <1>4, <1>5 DEF DataInv

\* The same where the contents and the history stay.
LEMMA PastWaits ==
  ASSUME CalmInv, UNCHANGED <<past, db, draw, cache>>,
         \A s \in Slot : At(s)' = At(s) \/ At(s)'.kind # "rec"
  PROVE  PastOK'
<1>1. PastOK
  BY DEF CalmInv, DataInv
<1> QED BY <1>1 DEF PastOK, N

(***************************************************************************)
(* Steps of who does not write.                                            *)
(***************************************************************************)
\* Without a writer the files stand for the newest commit, seen by who is on its way.
LEMMA StandsAlone ==
  ASSUME CalmInv, NEW c \in Conn, \A d \in Conn : ~Writer(d), pc[c] \notin {"idle", "error"}
  PROVE  Restored(jrnl, db) = K
  BY DEF CalmInv, DataInv, Unsettled

LEMMA SameFiles ==
  ASSUME UNCHANGED <<jrnl, db>> PROVE Restored(jrnl, db)' = Restored(jrnl, db) /\ (Hot' <=> Hot)
  BY DEF Hot

LEMMA ColdFiles ==
  ASSUME ~Hot' PROVE Restored(jrnl, db)' = db'
  BY DEF Hot, Restored

\* What a playback overwrites and what it cuts off do not count.
LEMMA RestoredSame ==
  ASSUME Hot, NEW d, \A p \in Page : Of(p) = {} => p > At(1).size \/ d[p] = db[p]
  PROVE  Restored(jrnl, d) = Restored(jrnl, db)
<1>1. ASSUME NEW e
      PROVE  Restored(jrnl, e) =
               [p \in Page |-> LET s == {i \in Play : At(i).pg = p} IN
                  IF s = {} THEN (IF p > At(1).size THEN NoPage ELSE e[p]) ELSE At(Max(s)).val]
  BY DEF Restored, Hot, Play, At, Truncated
<1>2. \A p \in Page : Of(p) = {i \in Play : At(i).pg = p}
  BY DEF Of
<1>3. ASSUME NEW e
      PROVE  Restored(jrnl, e) =
               [p \in Page |-> IF Of(p) = {} THEN (IF p > At(1).size THEN NoPage ELSE e[p]) ELSE At(Max(Of(p))).val]
  BY <1>1, <1>2
<1>4. \A p \in Page : Of(p) = {} => (IF p > At(1).size THEN NoPage ELSE d[p]) = (IF p > At(1).size THEN NoPage ELSE db[p])
  OBVIOUS
<1>5. Restored(jrnl, d) =
        [p \in Page |-> IF Of(p) = {} THEN (IF p > At(1).size THEN NoPage ELSE db[p]) ELSE At(Max(Of(p))).val]
  BY <1>3, <1>4
<1> QED BY <1>3, <1>5

\* Steps that look, lock and unlock.
LEMMA QuietData ==
  ASSUME CalmInv, NEW c \in env.conns, Acts(c), pc[c] \in Waiting \ {"idle", "error"},
         UNCHANGED <<files, cache, vers, tx, draw, history>>,
         pc'[c] \in Waiting \ {"read"}, pc'[c] = "validate" => ~Hot
  PROVE  DataInv'
<1>1. c \in Conn /\ Types /\ tx[c] = NoTx /\ OtherOf(c) /\ db \in Book
  <2>1. c \in Conn /\ Types /\ Does(pc[c], tx[c])
    BY Entry
  <2> QED BY <2>1, Newest DEF Does, CalmInv, DataInv
<1>2. ~Writer(c) /\ ~Writer(c)' /\ tx'[c] = NoTx /\ tx'[c].goal = "none"
  BY <1>1, Blanks DEF Writer
<1>3. PastOK'
  BY PastWaits DEF At
<1>4. (\A d \in Conn \ {c} : ~Writer(d)) => (Restored(jrnl, db) = K)'
  <2> SUFFICES ASSUME \A d \in Conn \ {c} : ~Writer(d) PROVE (Restored(jrnl, db) = K)'
    OBVIOUS
  <2>1. Restored(jrnl, db) = K
    BY <1>1, <1>2, StandsAlone
  <2> QED BY <2>1, SameFiles DEF K
<1>5. Cached(c)'
  <2>1. Cached(c)
    BY <1>1, <1>2 DEF OtherOf
  <2> QED BY <1>1, <2>1, CachedStays
<1>6. OtherOf(c)'
  BY <1>2, <1>5, SameFiles DEF OtherOf
<1> QED BY <1>2, <1>3, <1>4, <1>6, DataStep

LEMMA HotReadData ==
  ASSUME CalmInv, NEW c \in env.conns, HotRead(c)
  PROVE  DataInv'
<1>1. Types /\ Acts(c) /\ c \in Conn
  BY Entry DEF Acts
<1>2. At(1) # Torn
  <2>1. At(1) \in SlotOK
    BY <1>1, RowsOK, Bounds
  <2> QED BY <2>1, Blanks
<1>3. pc'[c] = IF ~jrnl.on \/ Hot THEN "hotlock" ELSE "validate"
  BY <1>1, <1>2 DEF HotRead, Goto, Types, At
<1>4. /\ pc[c] \in Waiting \ {"idle", "error"} /\ UNCHANGED <<files, cache, vers, tx, draw, history>>
      /\ pc'[c] \in Waiting \ {"read"} /\ (pc'[c] = "validate" => ~Hot)
  BY <1>3 DEF HotRead
<1> QED BY <1>1, <1>4, QuietData

LEMMA LookData ==
  ASSUME CalmInv, NEW c \in env.conns,
         \/ HotExists(c) \/ HotLock(c) \/ HotBusy(c) \/ BackOff(c) \/ EndRead(c)
         \/ HotReserved(c) /\ (CheckReservedLock(c) => ~Hot)
         \/ HotOpen(c) /\ ~jrnl.on
  PROVE  DataInv'
<1>1. Types /\ c \in Conn
  BY Entry
<1>2. Acts(c)
  BY DEF Acts
<1>3. /\ pc[c] \in Waiting \ {"idle", "error"} /\ UNCHANGED <<files, cache, vers, tx, draw, history>>
  BY DEF HotExists, HotReserved, HotLock, HotBusy, BackOff, EndRead, HotOpen
<1>4. /\ pc'[c] \in Waiting \ {"read"} /\ (pc'[c] = "validate" => ~Hot)
  BY <1>1 DEF HotExists, HotReserved, HotLock, HotBusy, BackOff, EndRead, HotOpen, Goto, Types, Hot
<1> QED BY <1>2, <1>3, <1>4, QuietData

\* No page but the first has a change counter: while the history stays, and when
\* what the database file holds is added to it.
LEMMA PlainStays ==
  ASSUME CalmInv, past' = past, draw' \in Nat, draw' >= draw,
         \A p \in Page \ {1} : db'[p].ctr = 0 /\ \A d \in Conn : cache'[d][p].ctr = 0,
         \A s \in Slot : \/ At(s)' = At(s) \/ At(s)'.kind # "rec"
                         \/ At(s)'.pg # 1 => At(s)'.val.ctr = 0
  PROVE  PastOK'
<1>1. PastOK
  BY DEF CalmInv, DataInv
<1>2. N' = N /\ N \in Nat /\ draw \in Nat
  BY Newest, Bounds DEF N, CalmInv, LockInv, Types, SharedOK
<1>3. N' <= draw'
  BY <1>1, <1>2 DEF PastOK
<1>4. \A s \in Slot : At(s)'.kind = "rec" /\ At(s)'.pg # 1 => At(s)'.val.ctr = 0
  BY <1>1 DEF PastOK
<1>5. /\ \A i \in 1..Len(past') : past'[i][1].ctr = i /\ \A p \in Page \ {1} : past'[i][p].ctr = 0
  BY <1>1 DEF PastOK
<1> QED BY <1>3, <1>4, <1>5 DEF PastOK

LEMMA PlainGrows ==
  ASSUME CalmInv, past' = Append(past, db), draw' = draw, db' = db, db[1].ctr = N + 1, N < draw,
         \A p \in Page \ {1} : \A d \in Conn : cache'[d][p].ctr = 0,
         \A s \in Slot : At(s)' = At(s) \/ At(s)'.kind # "rec"
  PROVE  PastOK'
<1>1. PastOK /\ Types /\ db \in Book
  BY Newest DEF CalmInv, DataInv, LockInv
<1>2. /\ N' = N + 1 /\ past'[N + 1] = db /\ N \in Nat /\ draw \in Nat
      /\ \A i \in 1..N : past'[i] = past[i]
  <2>1. draw \in Nat
    BY <1>1, Bounds DEF Types, SharedOK
  <2> QED BY <1>1, <2>1, PastStays
<1>3. ASSUME NEW i \in 1..N + 1
      PROVE  past'[i][1].ctr = i /\ \A p \in Page \ {1} : past'[i][p].ctr = 0
  <2>1. CASE i = N + 1
    BY <1>1, <1>2, <2>1 DEF PastOK
  <2>2. CASE i \in 1..N
    BY <1>1, <1>2, <2>2 DEF PastOK, N
  <2>3. i = N + 1 \/ i \in 1..N
    <3>1. N \in Nat
      BY <1>2
    <3> QED BY <3>1
  <2> QED BY <2>1, <2>2, <2>3
<1>4. \A s \in Slot : At(s)'.kind = "rec" /\ At(s)'.pg # 1 => At(s)'.val.ctr = 0
  BY <1>1 DEF PastOK
<1>5. \A p \in Page \ {1} : db'[p].ctr = 0
  BY <1>1 DEF PastOK
<1>6. N' <= draw'
  BY <1>2
<1> QED BY <1>2, <1>3, <1>4, <1>5, <1>6 DEF PastOK, N

\* sqlite3PagerSharedLock begins: what the files stand for is the newest commit.
LEMMA ShareData ==
  ASSUME CalmInv, NEW c \in env.conns, Share(c)
  PROVE  DataInv'
<1>1. /\ c \in Conn /\ Types /\ Acts(c) /\ OtherOf(c) /\ db \in Book /\ PastOK
      /\ Restored(jrnl, db) \in Book
  <2>1. c \in Conn /\ Types
    BY Entry
  <2>2. Acts(c)
    BY DEF Acts
  <2> QED BY <2>1, <2>2, Newest, RestoredIs DEF CalmInv, DataInv
<1>2. /\ pc[c] = "idle" /\ UNCHANGED <<files, cache, vers, tx, draw>> /\ pc'[c] = "hot1" /\ Settle
  BY <1>1 DEF Share, Goto, Types
<1>3. ~Writer(c) /\ ~Writer(c)' /\ tx'[c].goal = "none" /\ tx'[c] = NoTx
  <2>1. Does(pc[c], tx[c])
    BY Entry
  <2> QED BY <1>2, <2>1, Blanks DEF Writer, Does
<1>4. past' = past \/ past' = Append(past, Restored(jrnl, db))
  BY <1>2 DEF Settle
<1>5. K' = Restored(jrnl, db)
  <2>1. CASE Restored(jrnl, db) = K
    BY <1>2, <2>1 DEF Settle, K
  <2>2. CASE Restored(jrnl, db) # K
    <3>1. past' = Append(past, Restored(jrnl, db))
      BY <1>2, <2>2 DEF Settle, K
    <3> QED BY <1>1, <3>1, PastStays
  <2> QED BY <2>1, <2>2
<1>6. (Restored(jrnl, db) = K)'
  BY <1>2, <1>5, SameFiles
<1>7. PastOK'
  <2>1. CASE past' = past
    BY <1>2, <2>1, PastWaits DEF At
  <2>2. CASE Unsettled /\ past' = Append(past, db)
    BY <1>1, <1>2, <2>2, PlainGrows DEF Unsettled, At, PastOK
  <2> QED BY <1>1, <1>2, <2>1, <2>2, PastGrows
<1>8. OtherOf(c)'
  <2>1. Cached(c)
    BY <1>1, <1>2, <1>3 DEF OtherOf
  <2>2. Cached(c)'
    BY <1>1, <1>2, <1>4, <2>1, CachedStays
  <2> QED BY <1>2, <1>3, <2>2 DEF OtherOf
<1> QED BY <1>1, <1>3, <1>6, <1>7, <1>8, DataStep

\* An ERROR state ends with an empty cache.
LEMMA UnlockData ==
  ASSUME CalmInv, NEW c \in env.conns, Unlock(c)
  PROVE  DataInv'
<1>1. /\ c \in Conn /\ Types /\ Acts(c) /\ PastOK
  <2>1. c \in Conn /\ Types
    BY Entry
  <2>2. Acts(c)
    BY DEF Acts
  <2> QED BY <2>1, <2>2 DEF CalmInv, DataInv
<1>2. /\ pc[c] = "error" /\ UNCHANGED <<files, vers, tx, draw, history>> /\ pc'[c] = "idle" /\ Forget(c)
      /\ pc' = [pc EXCEPT ![c] = "idle"]
  BY <1>1 DEF Unlock, Goto, Types
<1>3. ~Writer(c) /\ ~Writer(c)' /\ tx'[c].goal = "none" /\ tx'[c] = NoTx
  <2>1. Does(pc[c], tx[c])
    BY Entry
  <2> QED BY <1>2, <2>1, Blanks DEF Writer, Does
<1>4. /\ \A p \in Page : cache'[c][p] = NoPage
      /\ \A d \in Conn \ {c} : cache'[d] = cache[d]
  BY <1>1, <1>2, ForgetOK
<1>5. PastOK'
  <2>1. \A p \in Page \ {1} : db'[p].ctr = 0 /\ \A d \in Conn : cache'[d][p].ctr = 0
    BY <1>1, <1>2, <1>4, Blanks DEF PastOK
  <2>2. draw' \in Nat /\ draw' >= draw
    BY <1>1, <1>2, Bounds DEF Types, SharedOK
  <2> QED BY <1>2, <2>1, <2>2, PlainStays DEF At
<1>6. ASSUME \A d \in Conn \ {c} : ~Writer(d) PROVE (Restored(jrnl, db) = K)' \/ Unsettled'
  <2>1. Restored(jrnl, db) = K \/ Unsettled
    BY <1>3, <1>6 DEF CalmInv, DataInv
  <2>2. Restored(jrnl, db) = K => (Restored(jrnl, db) = K)'
    BY <1>2, SameFiles DEF K
  <2>3. Unsettled => Unsettled'
    <3>1. \A d \in Conn : pc[d] \in {"idle", "error"} => pc'[d] \in {"idle", "error"}
      BY <1>1, <1>2 DEF Types
    <3> QED BY <1>2, <3>1, SameFiles DEF Unsettled, N
  <2> QED BY <2>1, <2>2, <2>3
<1>7. OtherOf(c)'
  BY <1>2, <1>3, <1>4 DEF OtherOf, Cached
<1> QED BY <1>1, <1>3, <1>5, <1>6, <1>7, DataStep

\* Who has passed the change counter has what the database file has.
LEMMA ValidateData ==
  ASSUME CalmInv, NEW c \in env.conns, Validate(c)
  PROVE  DataInv'
<1>1. /\ c \in Conn /\ Types /\ Acts(c) /\ PastOK /\ cache \in [Conn -> Book] /\ pc[c] = "validate"
      /\ vers \in [Conn -> 0..MaxVer] /\ OtherOf(c) /\ tx[c] = NoTx
  <2>1. c \in Conn /\ Types /\ Does(pc[c], tx[c])
    BY Entry
  <2>2. Acts(c)
    BY DEF Acts
  <2>3. pc[c] = "validate"
    BY DEF Validate
  <2> QED BY <2>1, <2>2, <2>3 DEF CalmInv, DataInv, Types, SharedOK, Does
<1>2. db = K /\ ~Hot /\ K[1].ctr = N /\ N \in Nat /\ N >= 1 /\ N \in 1..N
  BY <1>1, ReadsNewest, Newest DEF PastOK, K, N
<1>3. PICK kept, b : /\ kept = (IF CacheIsStale(c) THEN [p \in Page |-> NoPage] ELSE cache[c])
                     /\ b = IF kept[1] = NoPage THEN [kept EXCEPT ![1] = db[1]] ELSE kept
  OBVIOUS
<1>4. /\ cache' = [cache EXCEPT ![c] = b]
      /\ vers' = [vers EXCEPT ![c] = IF kept[1] = NoPage THEN db[1].ctr ELSE vers[c]]
      /\ pc'[c] = "read" /\ UNCHANGED <<files, tx, draw, history>>
  BY <1>1, <1>3 DEF Validate, Goto, Types
<1>5. kept \in Book
  BY <1>1, <1>3, Blanks
<1>6. \A p \in Page : kept[p] \in {NoPage, K[p]}
  <2>1. CASE CacheIsStale(c)
    BY <1>3, <2>1
  <2>2. CASE ~CacheIsStale(c)
    <3>1. vers[c] = N /\ Cached(c)
      BY <1>1, <1>2, <2>2, Blanks DEF CacheIsStale, OtherOf, Writer
    <3> QED BY <1>3, <2>2, <3>1 DEF Cached, K, N
  <2> QED BY <2>1, <2>2
<1>7. K[1] # NoPage
  BY <1>2, Blanks
<1>8. /\ \A p \in Page : b[p] \in {NoPage, K[p]} /\ (b[p] = kept[p] \/ p = 1)
      /\ b[1] # NoPage
  BY <1>2, <1>3, <1>5, <1>6, <1>7, Bounds DEF Book
<1>9. cache'[c] = b /\ vers'[c] = N
  <2>1. kept[1] # NoPage => ~CacheIsStale(c)
    BY <1>3, Bounds
  <2> QED BY <1>1, <1>2, <1>4, <2>1 DEF CacheIsStale
<1>10. N' = N /\ K' = K
  BY <1>4 DEF N, K
<1>11. Current(c)' /\ Cached(c)'
  BY <1>2, <1>4, <1>8, <1>9, <1>10 DEF Current, Cached, K, N
<1>12. PastOK'
  <2>1. ASSUME NEW p \in Page \ {1}, NEW d \in Conn PROVE cache'[d][p].ctr = 0
    <3>1. \A e \in Conn : cache[e][p].ctr = 0
      BY <1>1 DEF PastOK
    <3>2. kept[p].ctr = 0
      BY <1>1, <1>3, <3>1, Blanks
    <3>3. b[p].ctr = 0
      BY <1>8, <3>2
    <3> QED BY <1>1, <1>4, <3>1, <3>3
  <2>2. draw' \in Nat /\ draw' >= draw
    BY <1>1, <1>4, Bounds DEF Types, SharedOK
  <2> QED BY <1>1, <1>4, <2>1, <2>2, PlainStays DEF At, PastOK
<1>13. ~Writer(c) /\ ~Writer(c)' /\ tx'[c].goal = "none"
  BY <1>1, <1>4, Blanks DEF Writer
<1>14. ASSUME \A d \in Conn \ {c} : ~Writer(d) PROVE (Restored(jrnl, db) = K)'
  <2>1. Restored(jrnl, db) = K
    BY <1>1, <1>13, <1>14, StandsAlone
  <2> QED BY <1>4, <1>10, <2>1, SameFiles
<1>15. OtherOf(c)'
  BY <1>2, <1>4, <1>11, <1>13, SameFiles DEF OtherOf
<1> QED BY <1>1, <1>12, <1>13, <1>14, <1>15, DataStep

(***************************************************************************)
(* Playing back the journal another one left.                              *)
(***************************************************************************)
\* Who holds EXCLUSIVE is the only one that is not idle.
LEMMA AloneIs ==
  ASSUME CalmInv, NEW c \in Conn, mode[c] = 4
  PROVE  \A d \in Conn \ {c} : pc[d] = "idle" /\ tx[d] = NoTx /\ ~Writer(d)
<1>1. LockInv /\ Lone(c)
  BY DEF CalmInv, LockInv, LockAt
<1> QED BY <1>1, IdleHas DEF Lone

LEMMA HotHas ==
  ASSUME CalmInv, NEW c \in Conn, tx[c].goal = "hot"
  PROVE  /\ ~Writer(c) /\ mode[c] = 4 /\ pc[c] \in Ending /\ \A d \in Conn : ~Writer(d)
         /\ Restored(jrnl, db) = K /\ Cached(c)
         /\ IF pc[c] = "finsync" THEN db = K /\ ~Hot ELSE PlaysHot(c)
<1>1. /\ Holds(pc[c], mode[c], tx[c]) /\ Does(pc[c], tx[c]) /\ OtherOf(c) /\ pc[c] \in PC
  BY DEF CalmInv, LockInv, LockAt, DataInv, Types
<1>2. pc[c] \in Ending
  <2>1. pc[c] \notin Waiting
    BY <1>1, Blanks DEF Does
  <2>2. pc[c] \notin {"excl", "store", "newhdr", "dbsync", "write"} \cup Syncing
    BY <1>1 DEF Does
  <2> QED BY <1>1, <2>1, <2>2
<1>3. ~Writer(c) /\ mode[c] = 4
  BY <1>1, <1>2 DEF Does, Holds, Writer
<1>4. \A d \in Conn : ~Writer(d)
  BY <1>3, AloneIs
<1>5. Restored(jrnl, db) = K
  BY <1>2, <1>4, StandsAlone
<1> QED BY <1>1, <1>2, <1>3, <1>4, <1>5 DEF OtherOf

\* pagerSyncHotJournal, and the file cut to its old size.
LEMMA HotOpenData ==
  ASSUME CalmInv, NEW c \in env.conns, HotOpen(c), jrnl.on
  PROVE  DataInv'
<1>1. /\ c \in Conn /\ Types /\ Acts(c) /\ PastOK /\ pc[c] = "hotopen" /\ mode[c] = 4 /\ OtherOf(c)
      /\ tx[c] = NoTx /\ db \in Book
  <2>1. c \in Conn /\ Types /\ Does(pc[c], tx[c]) /\ Holds(pc[c], mode[c], tx[c])
    BY Entry
  <2>2. Acts(c)
    BY DEF Acts
  <2>3. pc[c] = "hotopen"
    BY DEF HotOpen
  <2> QED BY <2>1, <2>2, <2>3, Newest DEF CalmInv, DataInv, Does, Holds
<1>2. /\ UNCHANGED <<mode, jrnl, vers, draw, past, pending>> /\ pc'[c] = "play"
      /\ IF Hot THEN TruncateDb(At(1).size) ELSE UNCHANGED <<db, dpend>>
      /\ IF Play = {} THEN cache' = cache ELSE Forget(c)
      /\ tx'[c] = [NoTx EXCEPT !.goal = "hot", !.todo = Play,
                      !.dbmod = TRUE, !.hdr = MaxSlot + 1, !.off = IF Hot THEN 1 ELSE 0]
  BY <1>1 DEF HotOpen, Goto, Types, Play, At
<1>3. PICK u : u = tx'[c]
  OBVIOUS
<1>4. /\ u.goal = "hot" /\ u.todo = Play /\ u.dbmod /\ u.hdr = MaxSlot + 1 /\ u.off = (IF Hot THEN 1 ELSE 0)
      /\ u.ver = 0
  BY <1>2, <1>3 DEF NoTx
<1>5. ~Writer(c) /\ ~Writer(c)' /\ \A d \in Conn : ~Writer(d)
  BY <1>1, <1>3, <1>4, AloneIs, Blanks DEF Writer
<1>6. Restored(jrnl, db) = K
  BY <1>1, <1>5, StandsAlone
<1>7. \A p \in Page : db'[p] = IF Hot /\ p > At(1).size THEN NoPage ELSE db[p]
  <2>1. CASE Hot
    <3>1. At(1).size \in Nat
      <4>1. At(1) \in HeaderOK
        BY <1>1, <2>1, RowsOK, Bounds DEF Hot, IsHeader, At
      <4> QED BY <4>1, Bounds DEF HeaderOK
    <3> QED BY <1>1, <1>2, <2>1, <3>1, TruncateOK
  <2>2. CASE ~Hot
    BY <1>2, <2>2
  <2> QED BY <2>1, <2>2
<1>8. K' = K /\ N' = N /\ (Hot' <=> Hot) /\ Play' = Play /\ (\A s : At(s)' = At(s)) /\ \A p : Of(p)' = Of(p)
  BY <1>2 DEF K, N, Hot, Play, At, Of
<1>9. Play # {} => Hot /\ \A p \in Page : cache'[c][p] = NoPage
  <2>1. Play # {} => Hot
    BY <1>1, RowsOK, PlayedCold DEF Play, Hot, At
  <2>2. Play # {} => \A p \in Page : cache'[c][p] = NoPage
    BY <1>1, <1>2, ForgetOK
  <2> QED BY <2>1, <2>2
<1>10. \A d \in Conn, p \in Page : cache'[d][p] \in {cache[d][p], NoPage}
  <2>1. CASE Play = {}
    BY <1>2, <2>1
  <2>2. CASE Play # {}
    BY <1>1, <1>2, <2>2, ForgetOK
  <2> QED BY <2>1, <2>2
<1>11. PastOK'
  <2>1. \A p \in Page \ {1} : db'[p].ctr = 0 /\ \A d \in Conn : cache'[d][p].ctr = 0
    BY <1>1, <1>7, <1>10, Blanks DEF PastOK
  <2>2. draw' \in Nat /\ draw' >= draw
    BY <1>1, <1>2, Bounds DEF Types, SharedOK
  <2> QED BY <1>2, <1>8, <2>1, <2>2, PlainStays
<1>12. ASSUME NEW p \in Page PROVE db'[p] = K[p] \/ (Of(p) # {} /\ Max(Of(p)) \in Play)
  <2>1. CASE ~Hot
    BY <1>1, <1>6, <1>7, <2>1, RestoredIs
  <2>2. CASE Hot /\ Of(p) = {}
    BY <1>1, <1>6, <1>7, <2>2, RestoredIs
  <2>3. CASE Of(p) # {}
    BY <1>1, <2>3, RestoredIs DEF Of
  <2> QED BY <2>1, <2>2, <2>3
<1>13. (Restored(jrnl, db) = K)'
  <2>1. CASE ~Hot
    <3>1. db' = db
      BY <1>2, <2>1
    <3> QED BY <1>2, <1>6, <1>8, <3>1, SameFiles
  <2>2. CASE Hot
    <3>1. Restored(jrnl, db') = Restored(jrnl, db)
      BY <1>7, <2>2, RestoredSame
    <3> QED BY <1>2, <1>6, <1>8, <3>1
  <2> QED BY <2>1, <2>2
<1>14. PlaysHot(c)'
  BY <1>3, <1>4, <1>8, <1>9, <1>12 DEF PlaysHot
<1>15. Cached(c)'
  <2>1. Cached(c)
    BY <1>1, <1>5 DEF OtherOf
  <2>2. CASE Play = {}
    BY <1>1, <1>2, <2>1, <2>2, CachedStays
  <2>3. CASE Play # {}
    BY <1>9, <2>3 DEF Cached
  <2> QED BY <2>2, <2>3
<1>16. OtherOf(c)'
  BY <1>2, <1>3, <1>4, <1>14, <1>15 DEF OtherOf
<1> QED BY <1>1, <1>5, <1>11, <1>13, <1>16, DataStep

\* A record of it goes into the database file.
LEMMA PlayHotData ==
  ASSUME CalmInv, NEW c \in env.conns, PlayPage(c), tx[c].goal = "hot"
  PROVE  DataInv'
<1>1. /\ c \in Conn /\ Types /\ Acts(c) /\ PastOK /\ tx[c] \in Tx
  <2>1. c \in Conn /\ Types /\ tx[c] \in Tx
    BY Entry
  <2>2. Acts(c)
    BY DEF Acts
  <2> QED BY <2>1, <2>2 DEF CalmInv, DataInv
<1>2. pc[c] = "play" /\ tx[c].todo # {}
  BY DEF PlayPage
<1>3. /\ ~Writer(c) /\ \A d \in Conn : ~Writer(d)
      /\ Restored(jrnl, db) = K /\ Cached(c) /\ PlaysHot(c)
  BY <1>1, <1>2, HotHas
<1>4. PICK s, p, v : s = Min(tx[c].todo) /\ p = At(s).pg /\ v = At(s).val
  OBVIOUS
<1>5. /\ s \in tx[c].todo /\ s \in Slot /\ At(s).kind = "rec" /\ p \in Page /\ v \in PageOK
      /\ \A j \in tx[c].todo : s <= j
      /\ tx[c].todo \subseteq Slot /\ s \in Play
  <2>1. /\ tx[c].todo \subseteq {i \in Slot : At(i).kind = "rec"}
        /\ s \in tx[c].todo /\ (\A j \in tx[c].todo : s <= j) /\ At(s) \in RecordOK
    BY <1>1, <1>2, <1>4, PlaysRecord
  <2> QED BY <1>3, <1>4, <2>1 DEF RecordOK, PlaysHot
<1>6. /\ Hot /\ tx[c].dbmod /\ tx[c].hdr = MaxSlot + 1 /\ \A q \in Page : cache[c][q] = NoPage
  BY <1>2, <1>3 DEF PlaysHot
<1>7. /\ WriteDb(p, v) /\ cache' = cache /\ vers' = [vers EXCEPT ![c] = vers[c]]
      /\ tx' = [tx EXCEPT ![c].todo = @ \ {s}]
      /\ UNCHANGED <<mode, journal, pc, draw, past, pending>>
  <2>1. IsSynced(tx[c], s)
    BY <1>5, <1>6, Bounds DEF IsSynced
  <2> QED BY <1>4, <1>5, <1>6, <2>1 DEF PlayPage, At
<1>8. vers'[c] = vers[c] /\ tx'[c] = [tx[c] EXCEPT !.todo = tx[c].todo \ {s}]
  BY <1>1, <1>7 DEF Types, SharedOK
<1>9. PICK t, u : t = tx[c] /\ u = tx'[c]
  OBVIOUS
<1>10. /\ u.goal = "hot" /\ u.todo = t.todo \ {s} /\ u.dbmod = t.dbmod /\ u.hdr = t.hdr /\ u.off = t.off
       /\ u.ver = t.ver
  BY <1>1, <1>8, <1>9, TxFields
<1>11. db'[p] = v /\ \A q \in Page \ {p} : db'[q] = db[q]
  BY <1>1, <1>5, <1>7, WriteDbOK
<1>12. K' = K /\ N' = N /\ (Hot' <=> Hot) /\ Play' = Play /\ (\A i : At(i)' = At(i)) /\ \A q : Of(q)' = Of(q)
  BY <1>7 DEF K, N, Hot, Play, At, Of
<1>13. PastOK'
  <2>1. p # 1 => v.ctr = 0
    BY <1>1, <1>4, <1>5 DEF PastOK
  <2>2. \A q \in Page \ {1} : db'[q].ctr = 0 /\ \A d \in Conn : cache'[d][q].ctr = 0
    BY <1>1, <1>7, <1>11, <2>1 DEF PastOK
  <2>3. draw' \in Nat /\ draw' >= draw
    BY <1>1, <1>7, Bounds DEF Types, SharedOK
  <2> QED BY <1>7, <1>12, <2>2, <2>3, PlainStays
<1>14. s \in Of(p)
  BY <1>4, <1>5 DEF Of
<1>15. (Restored(jrnl, db) = K)'
  <2>1. \A q \in Page : Of(q) = {} => db'[q] = db[q]
    BY <1>11, <1>14
  <2>2. Restored(jrnl, db') = Restored(jrnl, db)
    BY <1>6, <2>1, RestoredSame
  <2> QED BY <1>3, <1>7, <1>12, <2>2
<1>16. ASSUME NEW q \in Page PROVE db'[q] = K[q] \/ (Of(q) # {} /\ Max(Of(q)) \in u.todo)
  <2>1. db[q] = K[q] \/ (Of(q) # {} /\ Max(Of(q)) \in tx[c].todo)
    BY <1>3 DEF PlaysHot
  <2>2. CASE q # p
    <3>1. Of(q) # {} => Max(Of(q)) # s
      BY <1>1, <1>4, <2>2, RestoredIs DEF Of
    <3> QED BY <1>9, <1>10, <1>11, <2>1, <2>2, <3>1
  <2>3. CASE q = p /\ Max(Of(p)) = s
    BY <1>1, <1>3, <1>4, <1>5, <1>6, <1>11, <1>14, <2>3, RestoredIs
  <2>4. CASE q = p /\ Max(Of(p)) # s
    <3>1. Max(Of(p)) \in Play /\ Max(Of(p)) \in Slot /\ s <= Max(Of(p))
      BY <1>1, <1>5, <1>14, RestoredIs DEF Of
    <3>2. Max(Of(p)) > s
      BY <1>5, <2>4, <3>1, Bounds
    <3>3. Max(Of(p)) \in tx[c].todo
      BY <1>3, <1>5, <3>1, <3>2 DEF PlaysHot
    <3> QED BY <1>9, <1>10, <1>14, <2>4, <3>3
  <2> QED BY <2>2, <2>3, <2>4
<1>17. ASSUME NEW i \in Play, NEW j \in u.todo, i > j PROVE i \in u.todo
  <2>1. j \in tx[c].todo /\ s <= j /\ i \in tx[c].todo
    BY <1>3, <1>5, <1>9, <1>10, <1>17 DEF PlaysHot
  <2>2. i # s
    BY <1>5, <1>17, <2>1, Bounds
  <2> QED BY <1>9, <1>10, <2>1, <2>2
<1>18. PlaysHot(c)'
  <2>1. u.todo \subseteq Play /\ (u.off = 0 => ~Hot)
    BY <1>3, <1>9, <1>10 DEF PlaysHot
  <2> QED BY <1>6, <1>7, <1>9, <1>10, <1>12, <1>16, <1>17, <2>1 DEF PlaysHot
<1>19. Cached(c)'
  BY <1>6, <1>7 DEF Cached
<1>20. OtherOf(c)'
  BY <1>2, <1>7, <1>9, <1>10, <1>18, <1>19 DEF OtherOf
<1>21. ~Writer(c)'
  BY <1>3, <1>9, <1>10 DEF Writer
<1> QED BY <1>1, <1>13, <1>15, <1>20, <1>21, DataStep

LEMMA PlayEndHotData ==
  ASSUME CalmInv, NEW c \in env.conns, PlayEnd(c), tx[c].goal = "hot"
  PROVE  DataInv'
<1>1. /\ c \in Conn /\ Types /\ Acts(c)
  <2>1. c \in Conn /\ Types
    BY Entry
  <2>2. Acts(c)
    BY DEF Acts
  <2> QED BY <2>1, <2>2
<1>2. /\ pc[c] = "play" /\ pc'[c] = "final" /\ UNCHANGED <<mode, journal, db, cache, vers, tx, draw, history>>
  BY <1>1 DEF PlayEnd, Goto, Types
<1>3. /\ ~Writer(c) /\ \A d \in Conn : ~Writer(d)
      /\ Restored(jrnl, db) = K /\ Cached(c) /\ PlaysHot(c)
  BY <1>1, <1>2, HotHas
<1>4. K' = K /\ N' = N /\ (Hot' <=> Hot) /\ Play' = Play /\ \A q : Of(q)' = Of(q)
  BY <1>2 DEF K, N, Hot, Play, At, Of
<1>5. PastOK'
  BY <1>2, PastWaits DEF At
<1>6. (Restored(jrnl, db) = K)'
  BY <1>2, <1>3, <1>4, SameFiles
<1>7. PlaysHot(c)'
  BY <1>2, <1>3, <1>4 DEF PlaysHot
<1>8. Cached(c)'
  BY <1>2, <1>3, <1>4 DEF Cached
<1>9. OtherOf(c)'
  BY <1>2, <1>7, <1>8 DEF OtherOf
<1>10. ~Writer(c)'
  BY <1>2, <1>3 DEF Writer
<1> QED BY <1>1, <1>5, <1>6, <1>9, <1>10, DataStep

(***************************************************************************)
(* A transaction ends.                                                     *)
(***************************************************************************)
\* A finalized journal is not hot.
LEMMA FinalCold ==
  ASSUME CalmInv, NEW c \in env.conns, Final(c), tx[c].off = 0 => ~Hot
  PROVE  ~Hot' /\ \A s \in Slot : At(s)' = At(s) \/ At(s)'.kind # "rec"
<1>1. Types /\ c \in Conn
  BY Entry
<1>2. CASE tx[c].off = 0 /\ env.journal # "DELETE"
  BY <1>2 DEF Final, Hot, At
<1>3. CASE ~(tx[c].off = 0 /\ env.journal # "DELETE")
  <2>1. Nothing.kind # "rec" /\ ZeroHeader.kind # "rec"
    BY DEF Nothing, ZeroHeader, Header
  <2> QED BY <1>1, <1>3, <2>1, FinalJournal
<1> QED BY <1>2, <1>3

\* After a playback of another one's journal the check of the cache is next.
LEMMA EndHotData ==
  ASSUME CalmInv, NEW c \in env.conns, Acts(c), EndTransaction(c), tx[c].goal = "hot", ~Hot', db = K,
         UNCHANGED <<db, vers, draw>>, \A s \in Slot : At(s)' = At(s) \/ At(s)'.kind # "rec"
  PROVE  DataInv'
<1>1. c \in Conn /\ Types
  BY Entry
<1>2. Cached(c) /\ cache \in [Conn -> Book]
  BY <1>1, HotHas DEF Types, SharedOK
<1>3. /\ pc'[c] = "validate" /\ tx'[c] = NoTx /\ cache' = cache /\ UNCHANGED history
  BY <1>1, <1>2 DEF EndTransaction, Goto, Types
<1>4. PastOK'
  BY <1>3, PastWaits
<1>5. K' = K /\ N' = N
  BY <1>3 DEF K, N
<1>6. (Restored(jrnl, db) = K)'
  BY <1>5, ColdFiles
<1>7. ~Writer(c)' /\ tx'[c].goal = "none"
  BY <1>3, Blanks DEF Writer
<1>8. OtherOf(c)'
  BY <1>2, <1>3, <1>7 DEF OtherOf, Cached, N
<1> QED BY <1>4, <1>6, <1>7, <1>8, DataStep

\* After a commit the contents are those of the newest.
LEMMA EndCommitData ==
  ASSUME CalmInv, NEW c \in env.conns, Acts(c), EndTransaction(c), tx[c].goal = "commit", ~Hot',
         Commits(c), N < draw,
         UNCHANGED <<db, vers, draw>>, \A s \in Slot : At(s)' = At(s) \/ At(s)'.kind # "rec"
  PROVE  DataInv'
<1>1. c \in Conn /\ Types /\ db \in Book /\ cache \in [Conn -> Book] /\ PastOK
  BY Entry, Newest DEF SharedOK, CalmInv, DataInv
<1>2. /\ pc'[c] = "read" /\ tx'[c] = NoTx /\ cache' = cache /\ past' = Append(past, db)
  BY <1>1 DEF EndTransaction, Goto, Types
<1>3. PastOK'
  BY <1>1, <1>2, PlainGrows DEF Commits, PastOK
<1>4. K' = db /\ N' = N + 1 /\ past'[N + 1] = db /\ N \in Nat
  BY <1>1, <1>2, PastStays
<1>5. (Restored(jrnl, db) = K)'
  BY <1>4, ColdFiles
<1>6. ~Writer(c)' /\ tx'[c].goal = "none"
  BY <1>2, Blanks DEF Writer
<1>7. Current(c)'
  BY <1>2, <1>4 DEF Commits, Current
<1>8. Cached(c)'
  <2>1. vers'[c] = N + 1 /\ N + 1 \in 1..N'
    BY <1>4 DEF Commits
  <2> QED BY <1>2, <1>4, <2>1 DEF Commits, Cached
<1>9. OtherOf(c)'
  BY <1>2, <1>6, <1>7, <1>8 DEF OtherOf
<1> QED BY <1>3, <1>5, <1>6, <1>9, DataStep

\* After a rollback, or if nothing was written, they are those of the last one.
LEMMA EndBackData ==
  ASSUME CalmInv, NEW c \in env.conns, Acts(c), EndTransaction(c), tx[c].goal \in {"rollback", "none"}, ~Hot',
         RolledBack(c), tx[c].goal = "none" => \A p \in Page : cache[c][p] \in {NoPage, K[p]},
         tx[c].size = Size(K),
         UNCHANGED <<db, vers, draw>>, \A s \in Slot : At(s)' = At(s) \/ At(s)'.kind # "rec"
  PROVE  DataInv'
<1>1. /\ c \in Conn /\ Types /\ db \in Book /\ cache \in [Conn -> Book] /\ PastOK /\ cache[c] \in Book
      /\ tx[c].size \in Nat
  BY Entry, Newest, SizeOK, Bounds DEF SharedOK, CalmInv, DataInv
<1>2. PICK b : b = IF tx[c].goal = "rollback" THEN Truncated(cache[c], tx[c].size) ELSE cache[c]
  OBVIOUS
<1>3. /\ pc'[c] = "read" /\ tx'[c] = NoTx /\ cache' = [cache EXCEPT ![c] = b] /\ UNCHANGED history
      /\ cache'[c] = b
  BY <1>1, <1>2 DEF EndTransaction, Goto, Types
<1>4. /\ \A p \in Page : b[p] \in {NoPage, K[p]} /\ b[p] \in {NoPage, cache[c][p]}
      /\ b[1] # NoPage
  <2>1. K[1] # NoPage /\ 1 <= tx[c].size
    <3>1. K[1].ctr = N /\ N \in Nat /\ N >= 1
      BY <1>1, Newest DEF PastOK, K, N
    <3>2. K[1] # NoPage
      BY <3>1, Blanks
    <3>3. Size(K) \in Nat /\ ~(1 > Size(K))
      BY <3>2, SizeOK, Bounds
    <3> QED BY <3>2, <3>3
  <2>2. CASE tx[c].goal = "none"
    <3>1. b = cache[c]
      BY <1>2, <2>2
    <3> QED BY <2>2, <3>1 DEF RolledBack
  <2>3. CASE tx[c].goal = "rollback"
    <3>1. \A p \in Page : b[p] = IF p > tx[c].size THEN NoPage ELSE cache[c][p]
      BY <1>2, <2>3 DEF Truncated
    <3>2. \A p \in Page : ~(p > tx[c].size) => p \in 1..tx[c].size
      BY <1>1, Bounds
    <3>3. ~(1 > tx[c].size)
      BY <1>1, <2>1
    <3> QED BY <3>1, <3>2, <3>3, Bounds DEF RolledBack
  <2> QED BY <2>2, <2>3
<1>5. PastOK'
  <2>1. \A p \in Page \ {1} : db'[p].ctr = 0 /\ \A d \in Conn : cache'[d][p].ctr = 0
    BY <1>1, <1>3, <1>4, Blanks DEF PastOK
  <2>2. draw' \in Nat /\ draw' >= draw
    BY <1>1, Bounds DEF Types, SharedOK
  <2> QED BY <1>3, <2>1, <2>2, PlainStays
<1>6. K' = K /\ N' = N /\ N \in 1..N
  BY <1>1, <1>3, Newest DEF K, N
<1>7. (Restored(jrnl, db) = K)'
  BY <1>6, ColdFiles DEF RolledBack
<1>8. ~Writer(c)' /\ tx'[c].goal = "none"
  BY <1>3, Blanks DEF Writer
<1>9. Current(c)'
  BY <1>3, <1>4, <1>6 DEF RolledBack, Current
<1>10. Cached(c)'
  BY <1>3, <1>4, <1>6 DEF RolledBack, Cached, K, N
<1>11. OtherOf(c)'
  BY <1>3, <1>8, <1>9, <1>10 DEF OtherOf
<1> QED BY <1>5, <1>7, <1>8, <1>11, DataStep

\* A playback that is through has brought back the newest commit.
LEMMA HotPlayed ==
  ASSUME CalmInv, NEW c \in Conn, tx[c].goal = "hot", pc[c] # "play"
  PROVE  db = K
<1>1. /\ Types /\ Does(pc[c], tx[c]) /\ pc[c] \in Ending
      /\ IF pc[c] = "finsync" THEN db = K ELSE PlaysHot(c)
  BY HotHas DEF CalmInv, LockInv, LockAt
<1>2. CASE pc[c] = "final"
  <2>1. tx[c].todo = {} /\ PlaysHot(c)
    BY <1>1, <1>2 DEF Does
  <2>2. \A p \in Page : db[p] = K[p]
    BY <2>1 DEF PlaysHot
  <2>3. db \in Book /\ K \in Book
    BY <1>1, Newest
  <2> QED BY <2>2, <2>3 DEF Book
<1> QED BY <1>1, <1>2

\* What is known when a journal is about to be finalized.
LEMMA EndingHas ==
  ASSUME CalmInv, NEW c \in env.conns, pc[c] \in {"final", "finsync"}
  PROVE  /\ tx[c].goal \in {"commit", "rollback", "hot"} /\ (Writer(c) <=> tx[c].goal # "hot")
         /\ pc[c] = "final" => (tx[c].off = 0 => ~Hot)
         /\ pc[c] = "finsync" => ~Hot
         /\ Writer(c) => WriterOf(c)
         /\ tx[c].goal = "commit" => Commits(c) /\ N < draw
         /\ tx[c].goal = "rollback" => RolledBack(c) /\ tx[c].size = Size(K)
         /\ tx[c].goal = "hot" => db = K /\ Cached(c) /\ \A d \in Conn : ~Writer(d)
<1>1. c \in Conn /\ Does(pc[c], tx[c]) /\ OtherOf(c)
  BY Entry DEF CalmInv, DataInv
<1>2. tx[c].goal \in {"commit", "rollback", "hot"} /\ (Writer(c) <=> tx[c].goal # "hot")
  BY <1>1 DEF Does, Writer
<1>3. pc[c] = "finsync" => ~Hot
  BY <1>1 DEF OtherOf
<1>4. Writer(c) => WriterOf(c)
  BY <1>1 DEF CalmInv, DataInv
<1>5. tx[c].goal = "hot" => db = K /\ Cached(c) /\ \A d \in Conn : ~Writer(d)
  BY <1>1, HotPlayed, HotHas
<1>6. ASSUME pc[c] = "final", tx[c].off = 0 PROVE ~Hot
  <2>1. CASE Writer(c)
    <3>1. Journal(c)
      BY <1>1, <1>6, <2>1, WriterJournal
    <3> QED BY <1>6, <3>1 DEF Journal
  <2>2. CASE ~Writer(c)
    BY <1>1, <1>2, <1>6, <2>2, HotHas DEF PlaysHot
  <2> QED BY <2>1, <2>2
<1> QED BY <1>2, <1>3, <1>4, <1>5, <1>6 DEF WriterOf

LEMMA FinalData ==
  ASSUME CalmInv, NEW c \in env.conns, Final(c)
  PROVE  DataInv'
<1>1. c \in Conn /\ Types /\ Acts(c) /\ pc[c] = "final"
  <2>1. c \in Conn /\ Types
    BY Entry
  <2>2. Acts(c) /\ pc[c] = "final"
    BY DEF Acts, Final
  <2> QED BY <2>1, <2>2
<1>2. UNCHANGED <<db, dpend, vers, draw>>
  BY DEF Final
<1>3. ~Hot' /\ \A s \in Slot : At(s)' = At(s) \/ At(s)'.kind # "rec"
  BY <1>1, EndingHas, FinalCold
<1>4. CASE EndTransaction(c)
  BY <1>1, <1>2, <1>3, <1>4, EndingHas, EndHotData, EndCommitData, EndBackData
<1>5. CASE Goto(c, "finsync") /\ UNCHANGED <<mode, cache, tx, history>>
  <2>1. pc'[c] = "finsync" /\ tx'[c] = tx[c]
    BY <1>1, <1>5 DEF Goto, Types
  <2>2. PastOK'
    BY <1>2, <1>3, <1>5, PastWaits
  <2>3. K' = K /\ N' = N /\ Size(K)' = Size(K)
    BY <1>5 DEF K, N
  <2>4. ASSUME Writer(c) PROVE WriterOf(c)'
    <3>1. /\ WriterOf(c) /\ tx[c].goal \in {"commit", "rollback"}
          /\ tx[c].goal = "commit" => Commits(c)
          /\ tx[c].goal = "rollback" => RolledBack(c)
      BY <1>1, <2>4, EndingHas
    <3>2. Commits(c) => Commits(c)'
      BY <1>2, <1>5, <2>1, <2>3 DEF Commits
    <3>3. RolledBack(c) => RolledBack(c)'
      BY <1>2, <1>5, <2>1, <2>3 DEF RolledBack
    <3> QED BY <1>2, <1>5, <2>1, <2>3, <3>1, <3>2, <3>3 DEF WriterOf
  <2>5. Writer(c)' <=> Writer(c)
    BY <2>1 DEF Writer
  <2>6. ~Writer(c) => (Restored(jrnl, db) = K)'
    <3>1. ~Writer(c) => db = K
      BY <1>1, EndingHas
    <3> QED BY <1>2, <1>3, <2>3, <3>1, ColdFiles
  <2>7. OtherOf(c)'
    <3>1. ~Writer(c) => Cached(c)'
      <4>1. ~Writer(c) => Cached(c)
        BY <1>1, EndingHas
      <4>2. Cached(c) => Cached(c)'
        BY <1>2, <1>5 DEF Cached, N
      <4> QED BY <4>1, <4>2
    <3>2. tx[c].goal = "hot" => db = K
      BY <1>1, EndingHas
    <3> QED BY <1>2, <1>3, <2>1, <2>3, <2>5, <3>1, <3>2 DEF OtherOf
  <2> QED BY <1>1, <2>2, <2>4, <2>5, <2>6, <2>7, DataStep
<1> QED BY <1>4, <1>5 DEF Final

LEMMA FinSyncData ==
  ASSUME CalmInv, NEW c \in env.conns, FinSync(c)
  PROVE  DataInv'
<1>1. c \in Conn /\ Types /\ Acts(c) /\ pc[c] = "finsync"
  <2>1. c \in Conn /\ Types
    BY Entry
  <2>2. Acts(c) /\ pc[c] = "finsync"
    BY DEF Acts, FinSync
  <2> QED BY <2>1, <2>2
<1>2. EndTransaction(c) /\ UNCHANGED <<jrnl, db, dpend, vers, draw>>
  BY DEF FinSync, SyncJournal
<1>3. ~Hot' /\ \A s \in Slot : At(s)' = At(s) \/ At(s)'.kind # "rec"
  BY <1>1, <1>2, EndingHas DEF Hot, At
<1> QED BY <1>1, <1>2, <1>3, EndingHas, EndHotData, EndCommitData, EndBackData

LEMMA EndUnchangedData ==
  ASSUME CalmInv, NEW c \in env.conns, EndUnchanged(c)
  PROVE  DataInv'
<1>1. c \in Conn /\ Types /\ Acts(c) /\ pc[c] = "write" /\ tx[c].hdr = 0 /\ Does(pc[c], tx[c]) /\ PastOK /\ tx[c] \in Tx
  <2>1. c \in Conn /\ Types /\ Does(pc[c], tx[c]) /\ tx[c] \in Tx
    BY Entry
  <2>2. Acts(c) /\ pc[c] = "write" /\ tx[c].hdr = 0
    BY DEF Acts, EndUnchanged
  <2> QED BY <2>1, <2>2 DEF CalmInv, DataInv
<1>2. EndTransaction(c) /\ UNCHANGED <<jrnl, db, dpend, vers, draw>>
  BY DEF EndUnchanged
<1>3. /\ tx[c].dirty = {} /\ tx[c].inJournal = {} /\ ~tx[c].dbmod /\ ~Hot /\ Writes(c) /\ WriterOf(c)
      /\ tx[c].goal = "none"
  BY <1>1, WriterHas DEF NotOpened, Does
<1>4. db = K /\ tx[c].size = Size(K)
  BY <1>3 DEF WriterOf
<1>5. \A p \in Page : cache[c][p] \in {NoPage, K[p]}
  BY <1>3, <1>4 DEF Writes
<1>6. K[1].ctr = N
  BY <1>1, Newest DEF PastOK, K, N
<1>7. RolledBack(c)
  <2>1. \A p \in 1..tx[c].size : p \in Page
    BY <1>1, Bounds DEF Tx
  <2> QED BY <1>3, <1>4, <1>5, <1>6, <2>1 DEF RolledBack, Writes
<1>8. ~Hot' /\ \A s \in Slot : At(s)' = At(s)
  BY <1>2, <1>3 DEF Hot, At
<1> QED BY <1>1, <1>2, <1>3, <1>4, <1>5, <1>7, <1>8, EndBackData

\* An ERROR state: the journal is left to be played back, or a commit to be found.
LEMMA ErrorData ==
  ASSUME CalmInv, NEW c \in env.conns, Error(c)
  PROVE  DataInv'
<1>1. c \in Conn /\ Types /\ Acts(c) /\ Does(pc[c], tx[c])
  <2>1. c \in Conn /\ Types /\ Does(pc[c], tx[c])
    BY Entry
  <2>2. Acts(c)
    BY DEF Acts
  <2> QED BY <2>1, <2>2
<1>2. /\ UNCHANGED <<files, cache, vers, draw, history>> /\ pc'[c] = "error" /\ tx'[c] = NoTx
      /\ pc[c] \notin {"idle", "error"}
  BY <1>1 DEF Error, Goto, Types
<1>3. PastOK'
  BY <1>2, PastWaits DEF At
<1>4. K' = K /\ N' = N
  BY <1>2 DEF K, N
<1>5. ~Writer(c)' /\ tx'[c].goal = "none"
  BY <1>2, Blanks DEF Writer
<1>6. ASSUME \A d \in Conn \ {c} : ~Writer(d) PROVE (Restored(jrnl, db) = K)' \/ Unsettled'
  <2>1. CASE Restored(jrnl, db) = K
    BY <1>2, <1>4, <2>1, SameFiles
  <2>2. CASE Restored(jrnl, db) # K
    <3>1. Writer(c)
      BY <1>1, <1>2, <1>6, <2>2, StandsAlone
    <3>2. /\ <<N, db>> \in pending /\ db[1].ctr = N + 1 /\ N < draw /\ ~Hot
          /\ \A e \in Conn \ {c} : pc[e] = "idle"
      BY <1>1, <2>2, <3>1, WriterStands
    <3>3. \A e \in Conn : pc'[e] \in {"idle", "error"}
      BY <1>1, <1>2, <3>2, ActsApart DEF Apart
    <3> QED BY <1>2, <1>4, <3>2, <3>3, SameFiles DEF Unsettled
  <2> QED BY <2>1, <2>2
<1>7. OtherOf(c)'
  BY <1>2, <1>5 DEF OtherOf
<1> QED BY <1>1, <1>3, <1>5, <1>6, <1>7, DataStep

\* What holds of a connection that did not end when another did.
LEMMA OtherOfStays ==
  ASSUME NEW d \in Conn, Stays(d), OtherOf(d)
  PROVE  OtherOf(d)'
<1>1. K' = K /\ N' = N /\ (Hot' <=> Hot) /\ Play' = Play /\ \A q : Of(q)' = Of(q)
  BY DEF Stays, K, N, Hot, Play, At, Of
<1>2. PlaysHot(d) => PlaysHot(d)'
  BY <1>1 DEF Stays, PlaysHot
<1>3. (Cached(d) => Cached(d)') /\ (Current(d) => Current(d)')
  BY <1>1 DEF Stays, Cached, Current
<1> QED BY <1>1, <1>2, <1>3 DEF Stays, OtherOf, Writer

LEMMA CrashData ==
  ASSUME CalmInv, NEW c \in env.conns, Crash(c)
  PROVE  DataInv'
<1>1. c \in Conn /\ Types /\ draw \in Nat /\ PastOK
  BY Entry, Bounds DEF CalmInv, DataInv
<1>2. PICK D \in SUBSET Conn : Ended(D) /\ UNCHANGED <<files, history>>
  BY <1>1 DEF Crash
<1>3. K' = K /\ N' = N /\ draw' = draw
  BY <1>2 DEF K, N, Ended
<1>4. \A d \in Conn \ D : Stays(d)
  BY <1>2 DEF Ended, Stays
<1>5. \A d \in D : /\ pc'[d] = "idle" /\ tx'[d] = NoTx /\ ~Writer(d)' /\ tx'[d].goal = "none"
                   /\ \A p \in Page : cache'[d][p] = NoPage
  BY <1>2, Blanks DEF Ended, Writer
<1>6. PastOK'
  <2>1. \A p \in Page \ {1} : db'[p].ctr = 0 /\ \A d \in Conn : cache'[d][p].ctr = 0
    BY <1>1, <1>2, <1>4, <1>5, Blanks DEF PastOK, Stays
  <2> QED BY <1>1, <1>2, <1>3, <2>1, PlainStays DEF At
<1>7. ASSUME \A d \in Conn : ~Writer(d)' PROVE (Restored(jrnl, db) = K)' \/ Unsettled'
  <2>1. CASE Restored(jrnl, db) = K
    BY <1>2, <1>3, <2>1, SameFiles
  <2>2. CASE Restored(jrnl, db) # K
    <3>1. \A d \in Conn : pc[d] \in {"idle", "error"} => pc'[d] \in {"idle", "error"}
      BY <1>4, <1>5 DEF Stays
    <3>2. CASE \E d \in Conn : Writer(d)
      <4>1. PICK d \in Conn : Writer(d)
        BY <3>2
      <4>2. d \in D
        BY <1>4, <1>7, <4>1 DEF Stays, Writer
      <4>3. /\ <<N, db>> \in pending /\ db[1].ctr = N + 1 /\ N < draw /\ ~Hot
            /\ \A e \in Conn \ {d} : pc[e] = "idle"
        BY <2>2, <4>1, WriterStands
      <4>4. \A e \in Conn : pc'[e] \in {"idle", "error"}
        BY <1>5, <3>1, <4>2, <4>3
      <4> QED BY <1>2, <1>3, <4>3, <4>4, SameFiles DEF Unsettled
    <3>3. CASE \A d \in Conn : ~Writer(d)
      <4>1. Unsettled
        BY <2>2, <3>3 DEF CalmInv, DataInv
      <4> QED BY <1>2, <1>3, <3>1, <4>1, SameFiles DEF Unsettled
    <3> QED BY <3>2, <3>3
  <2> QED BY <2>1, <2>2
<1>8. ASSUME NEW d \in Conn PROVE (Writer(d)' => WriterOf(d)') /\ OtherOf(d)'
  <2>1. CASE d \in D
    BY <1>5, <2>1 DEF OtherOf, Cached
  <2>2. CASE d \notin D
    <3>1. Stays(d)
      BY <1>4, <2>2
    <3>2. (Writer(d)' => Writer(d)) /\ (Writer(d) => WriterOf(d)) /\ OtherOf(d)
      BY <3>1 DEF Stays, Writer, CalmInv, DataInv
    <3> QED BY <3>1, <3>2, WriterOfStays, OtherOfStays
  <2> QED BY <2>1, <2>2
<1> QED BY <1>6, <1>7, <1>8 DEF DataInv

(***************************************************************************)
(* A write transaction goes on.                                            *)
(***************************************************************************)
LEMMA WriterStep ==
  ASSUME CalmInv, NEW c \in env.conns, Acts(c), Writer(c)', pc'[c] \notin {"validate", "read", "finsync"},
         tx'[c].goal # "hot", PastOK', WriterOf(c)'
  PROVE  DataInv'
<1>1. OtherOf(c)'
  BY DEF OtherOf
<1> QED BY <1>1, DataStep

\* What the journal has synced stays in it.
LEMMA SavedKept ==
  ASSUME NEW t \in Tx, NEW u \in Tx, t.hdr <= u.hdr, \A s \in 1..t.hdr - 1 : At(s)' = At(s), NEW p, Saved(t, p)
  PROVE  Saved(u, p)'
<1>1. t.hdr \in Nat /\ u.hdr \in Nat
  BY Bounds DEF Tx
<1>2. PICK s \in 1..t.hdr - 1 : At(s).kind = "rec" /\ At(s).pg = p
  BY DEF Saved
<1>3. s \in 1..u.hdr - 1
  BY <1>1
<1> QED BY <1>2, <1>3 DEF Saved

LEMMA WrittenIs ==
  ASSUME NEW w, WriteJournal(w)
  PROVE  \A s \in Slot : At(s)' = IF s \in DOMAIN w THEN w[s] ELSE At(s)
  BY DEF WriteJournal, At

\* A page of the old size that the transaction has changed is among its records.
LEMMA DirtyRecord ==
  ASSUME CalmInv, NEW c \in env.conns, pc[c] \in Opening \cup Storing, NEW p \in tx[c].dirty, p <= tx[c].size
  PROVE  \E s \in 1..tx[c].off : /\ At(s).kind = "rec" /\ At(s).pg = p
                                 /\ s > tx[c].hdr => p \in tx[c].needSync
                                 /\ s # tx[c].hdr
<1>1. /\ c \in Conn /\ Writes(c) /\ tx[c] \in Tx /\ tx[c].hdr \in Nat /\ tx[c].off \in Nat
      /\ tx[c].hdr = 0 => NotOpened(tx[c])
      /\ tx[c].hdr # 0 => Journal(c)
  BY Entry, WriterHas, Bounds
<1>2. p \in tx[c].inJournal
  BY <1>1 DEF Writes
<1>3. Journal(c)
  BY <1>1, <1>2 DEF NotOpened
<1>4. PICK s \in 1..tx[c].off : At(s).kind = "rec" /\ At(s).pg = p
  BY <1>2, <1>3 DEF Journal
<1>5. s > tx[c].hdr => p \in tx[c].needSync
  <2>1. s > tx[c].hdr => s \in tx[c].hdr + 1..tx[c].off
    BY <1>1, <1>4
  <2> QED BY <1>3, <1>4, <2>1 DEF Journal
<1>6. s # tx[c].hdr
  BY <1>1, <1>3, <1>4 DEF Journal
<1> QED BY <1>4, <1>5, <1>6

\* A step that changes neither contents nor caches.
LEMMA WritesGoOn ==
  ASSUME CalmInv, NEW c \in env.conns, Acts(c), pc[c] \in Opening \cup Storing, pc'[c] \in Opening \cup Storing,
         pc'[c] \in Opening => pc[c] \in Opening,
         UNCHANGED <<cache, vers, db, draw, past>>,
         NEW t \in Tx, t = tx[c], NEW u \in Tx, u = tx'[c],
         u.ver = t.ver, u.size = t.size, u.dirty = t.dirty, u.inJournal = t.inJournal, t.dbmod => u.dbmod,
         \A p \in Page : Saved(t, p) => Saved(u, p)',
         \/ u.goal = t.goal /\ u.todo = t.todo
         \/ u.goal = "none" /\ pc[c] \in Opening
         \/ t.goal = "none" /\ u.goal = "spill" /\ \E p \in t.dirty \ {1} : u.todo = {p},
         u.goal = "spill" /\ pc'[c] = "store" => u.dbmod /\ \A p \in u.todo : p <= u.size => Saved(u, p)',
         \A s \in Slot : At(s)' = At(s) \/ At(s)'.kind # "rec"
  PROVE  DataInv'
<1>1. /\ c \in Conn /\ Writer(c) /\ Writes(c) /\ WriterOf(c) /\ Does(pc[c], t)
      /\ 1..t.size \subseteq Page
  <2>1. 1..t.size \subseteq Page
    BY Bounds DEF Tx
  <2> QED BY <2>1, Entry, WriterHas
<1>2. K' = K /\ N' = N /\ Size(K)' = Size(K)
  BY DEF K, N
<1>3. Writer(c)' /\ u.goal # "hot"
  <2>1. t.goal # "hot"
    BY <1>1 DEF Does, Writer
  <2> QED BY <1>1, <2>1 DEF Writer
<1>4. PastOK'
  BY PastWaits
<1>5. Writes(c)'
  <2>1. \A p \in t.dirty : cache[c][p] # NoPage /\ (p <= t.size => p \in t.inJournal)
    BY <1>1 DEF Writes
  <2>2. cache[c][1] # NoPage /\ vers[c] = db[1].ctr /\ \A p \in Page : K[p] # NoPage => db[p] # NoPage
    BY <1>1 DEF Writes
  <2>3. \A p \in 1..t.size : db[p] = K[p] \/ Saved(u, p)'
    BY <1>1 DEF Writes
  <2>4. \A p \in 1..t.size : p \notin t.inJournal => cache[c][p] \in {NoPage, K[p]}
    BY <1>1 DEF Writes
  <2>5. \A p \in Page : \/ cache[c][p] \in {NoPage, db[p]}
                        \/ p \in t.dirty /\ (u.goal = "commit" => p \in u.todo)
    BY <1>1 DEF Writes
  <2>6. u.goal # "commit" \/ pc'[c] \in Opening \/ 1 \in u.todo => db[1] = K[1]
    BY <1>1 DEF Writes
  <2>7. u.goal = "commit" =>
         /\ cache[c][1].ctr = N + 1 /\ 1 \in t.inJournal /\ u.todo \subseteq t.dirty
         /\ pc'[c] \in Opening => 1 \in u.todo
         /\ 1 \notin u.todo => db[1] = cache[c][1]
    BY <1>1 DEF Writes
  <2>8. u.goal = "spill" =>
         \E p \in t.dirty \ {1} : /\ u.todo = {p}
                                  /\ pc'[c] = "store" => u.dbmod /\ (p <= t.size => Saved(u, p)')
    <3>1. u.goal = "spill" => \E p \in t.dirty \ {1} : u.todo = {p}
      BY <1>1 DEF Writes
    <3> QED BY <3>1
  <2> QED BY <1>2, <2>1, <2>2, <2>3, <2>4, <2>5, <2>6, <2>7, <2>8 DEF Writes
<1>6. WriterOf(c)'
  BY <1>1, <1>2, <1>5 DEF WriterOf
<1> QED BY <1>3, <1>4, <1>6, WriterStep

\* The steps of a writer between its changes.
LEMMA WriterHere ==
  ASSUME CalmInv, NEW c \in env.conns, pc[c] \in Opening \cup Storing
  PROVE  /\ c \in Conn /\ Types /\ tx[c] \in Tx /\ Does(pc[c], tx[c]) /\ tx[c].hdr \in Nat /\ tx[c].off \in Nat
         /\ tx[c].off <= MaxSlot /\ 1..tx[c].hdr - 1 \subseteq Slot
<1>1. c \in Conn /\ Types /\ tx[c] \in Tx /\ Does(pc[c], tx[c])
  BY Entry
<1>2. tx[c].hdr \in 0..MaxSlot + 1 /\ tx[c].off \in 0..MaxSlot
  BY <1>1 DEF Tx
<1> QED BY <1>1, <1>2, Bounds

\* The journal changed at or above the last header alone, and the transaction stays.
LEMMA SameWrites ==
  ASSUME CalmInv, NEW c \in env.conns, Acts(c), pc[c] \in Opening \cup Storing, pc'[c] \in Opening \cup Storing,
         pc'[c] \in Opening => pc[c] \in Opening, tx' = tx,
         UNCHANGED <<cache, vers, db, draw, past>>, tx[c].goal = "spill" => pc'[c] # "store",
         \A s \in Slot : At(s)' = At(s) \/ (s >= tx[c].hdr /\ At(s)'.kind # "rec")
  PROVE  DataInv'
<1>1. PICK t \in Tx : t = tx[c] /\ t.hdr \in Nat /\ 1..t.hdr - 1 \subseteq Slot
  BY WriterHere
<1>2. tx'[c] = t
  BY <1>1
<1>3. \A s \in 1..t.hdr - 1 : At(s)' = At(s)
  BY <1>1
<1>4. \A p \in Page : Saved(t, p) => Saved(t, p)'
  BY <1>1, <1>3, SavedKept
<1> QED BY <1>1, <1>2, <1>4, WritesGoOn

LEMMA ExclData ==
  ASSUME CalmInv, NEW c \in env.conns, Excl(c)
  PROVE  DataInv'
<1>1. Acts(c) /\ pc[c] = "excl"
  BY DEF Acts, Excl
<1>2. pc'[c] = "next"
  BY <1>1, WriterHere DEF Excl, Goto, Types
<1>3. UNCHANGED <<jrnl, tx, cache, vers, db, draw, past>>
  BY DEF Excl
<1> QED BY <1>1, <1>2, <1>3, SameWrites DEF At

LEMMA ClearNextData ==
  ASSUME CalmInv, NEW c \in env.conns, ClearNext(c)
  PROVE  DataInv'
<1>1. Acts(c) /\ pc[c] = "next"
  BY DEF Acts, ClearNext
<1>2. pc'[c] \in {"fullsync", "nrec"}
  BY <1>1, WriterHere DEF ClearNext, Goto, Types
<1>3. UNCHANGED <<tx, cache, vers, db, draw, past>> /\ WriteJournal(ZeroNext(tx[c].off + 1))
  BY DEF ClearNext
<1>4. tx[c].hdr <= tx[c].off /\ tx[c].hdr \in Nat /\ tx[c].off \in Nat
  BY <1>1, WriterHere, CountedHeader
<1>5. PICK w : w = ZeroNext(tx[c].off + 1)
  OBVIOUS
<1>6. \A s \in DOMAIN w : s = tx[c].off + 1 /\ w[s].kind # "rec"
  <2> DEFINE o == tx[c].off + 1
  <2>1. CASE o \in Slot /\ IsHeader(At(o))
    <3>1. w = [i \in {o} |-> [At(o) EXCEPT !.magic = FALSE]]
      BY <1>5, <2>1 DEF ZeroNext, At
    <3>2. At(o) \in HeaderOK
      BY <1>1, <2>1, WriterHere, RowsOK DEF IsHeader
    <3>3. [At(o) EXCEPT !.magic = FALSE].kind # "rec"
      BY <3>2 DEF HeaderOK
    <3> QED BY <3>1, <3>3
  <2>2. CASE ~(o \in Slot /\ IsHeader(At(o)))
    <3>1. w = <<>>
      BY <1>5, <2>2 DEF ZeroNext, At
    <3>2. DOMAIN w = {}
      BY <3>1
    <3> QED BY <3>2
  <2> QED BY <2>1, <2>2
<1>7. \A s \in Slot : At(s)' = At(s) \/ (s >= tx[c].hdr /\ At(s)'.kind # "rec")
  <2>1. \A s \in Slot : At(s)' = IF s \in DOMAIN w THEN w[s] ELSE At(s)
    BY <1>3, <1>5, WrittenIs
  <2>2. tx[c].off + 1 >= tx[c].hdr
    BY <1>4
  <2> QED BY <1>6, <2>1, <2>2
<1> QED BY <1>1, <1>2, <1>3, <1>7, SameWrites

LEMMA FirstSyncData ==
  ASSUME CalmInv, NEW c \in env.conns, FirstSync(c)
  PROVE  DataInv'
<1>1. Acts(c) /\ pc[c] = "fullsync"
  BY DEF Acts, FirstSync
<1>2. pc'[c] = "nrec"
  BY <1>1, WriterHere DEF FirstSync, Goto, Types
<1>3. UNCHANGED <<jrnl, tx, cache, vers, db, draw, past>>
  BY DEF FirstSync, SyncJournal, SyncFile
<1> QED BY <1>1, <1>2, <1>3, SameWrites DEF At

LEMMA WriteNRecData ==
  ASSUME CalmInv, NEW c \in env.conns, WriteNRec(c)
  PROVE  DataInv'
<1>1. Acts(c) /\ pc[c] = "nrec"
  BY DEF Acts, WriteNRec
<1>2. pc'[c] = "jsync"
  BY <1>1, WriterHere DEF WriteNRec, Goto, Types
<1>3. PICK w : w = [s \in {tx[c].hdr} |-> [At(s) EXCEPT !.magic = TRUE, !.n = tx[c].off - s]]
  OBVIOUS
<1>4. UNCHANGED <<tx, cache, vers, db, draw, past>> /\ WriteJournal(w)
  BY <1>3 DEF WriteNRec, At
<1>5. tx[c].hdr \in Slot /\ At(tx[c].hdr) \in HeaderOK
  BY <1>1, WriterHere, CountedHeader
<1>6. DOMAIN w = {tx[c].hdr} /\ w[tx[c].hdr].kind # "rec"
  BY <1>3, <1>5 DEF HeaderOK
<1>7. \A s \in Slot : At(s)' = At(s) \/ (s >= tx[c].hdr /\ At(s)'.kind # "rec")
  <2>1. \A s \in Slot : At(s)' = IF s \in DOMAIN w THEN w[s] ELSE At(s)
    BY <1>4, WrittenIs
  <2>2. tx[c].hdr >= tx[c].hdr
    BY <1>1, WriterHere
  <2> QED BY <1>6, <2>1, <2>2
<1> QED BY <1>1, <1>2, <1>4, <1>7, SameWrites

\* SQLITE_BUSY: the transaction goes on as before.
LEMMA ExclBusyData ==
  ASSUME CalmInv, NEW c \in env.conns, ExclBusy(c)
  PROVE  DataInv'
<1>1. Acts(c) /\ pc[c] = "excl"
  BY DEF Acts, ExclBusy
<1>2. PICK t \in Tx : t = tx[c] /\ t.hdr \in Nat
  BY <1>1, WriterHere
<1>3. /\ pc'[c] = "write" /\ UNCHANGED <<jrnl, cache, vers, db, draw, past>>
      /\ tx'[c] = [t EXCEPT !.goal = "none", !.todo = {}]
  BY <1>1, <1>2, WriterHere DEF ExclBusy, Goto, Types
<1>4. PICK u : u = tx'[c]
  OBVIOUS
<1>5. u \in Tx
  BY <1>2, <1>3, <1>4 DEF Tx, Goal
<1>6. /\ u.ver = t.ver /\ u.size = t.size /\ u.dirty = t.dirty /\ u.inJournal = t.inJournal /\ u.dbmod = t.dbmod
      /\ u.goal = "none" /\ u.hdr = t.hdr
  BY <1>2, <1>3, <1>4, TxFields
<1>7. \A s : At(s)' = At(s)
  BY <1>3 DEF At
<1>8. \A p \in Page : Saved(t, p) => Saved(u, p)'
  BY <1>2, <1>5, <1>6, <1>7, SavedKept
<1> QED BY <1>1, <1>2, <1>3, <1>4, <1>5, <1>6, <1>7, <1>8, WritesGoOn

\* What was counted and synced is saved.
LEMMA JournalSyncData ==
  ASSUME CalmInv, NEW c \in env.conns, JournalSync(c)
  PROVE  DataInv'
<1>1. Acts(c) /\ pc[c] = "jsync"
  BY DEF Acts, JournalSync
<1>2. PICK t \in Tx : t = tx[c] /\ t.hdr \in Nat /\ t.off \in 0..MaxSlot /\ t.goal \in {"commit", "spill"}
  BY <1>1, WriterHere DEF Does, Tx
<1>3. t.hdr <= t.off + 1
  BY <1>1, <1>2, WriterHas DEF Journal
<1>4. /\ pc'[c] = (IF t.goal = "spill" THEN "newhdr" ELSE "store") /\ UNCHANGED <<jrnl, cache, vers, db, draw, past>>
      /\ tx'[c] = [t EXCEPT !.hdr = t.off + 1, !.needSync = {}, !.dbmod = TRUE]
  BY <1>1, <1>2, WriterHere DEF JournalSync, SyncJournal, SyncFile, Goto, Types
<1>5. PICK u : u = tx'[c]
  OBVIOUS
<1>6. u \in Tx
  <2>1. t.off + 1 \in 0..MaxSlot + 1
    BY <1>2, Bounds
  <2> QED BY <1>2, <1>4, <1>5, <2>1 DEF Tx
<1>7. /\ u.ver = t.ver /\ u.size = t.size /\ u.dirty = t.dirty /\ u.inJournal = t.inJournal /\ u.dbmod
      /\ u.goal = t.goal /\ u.todo = t.todo /\ u.hdr = t.off + 1
  BY <1>2, <1>4, <1>5, TxFields
<1>8. \A s : At(s)' = At(s)
  BY <1>4 DEF At
<1>9. \A p \in Page : Saved(t, p) => Saved(u, p)'
  BY <1>2, <1>3, <1>6, <1>7, <1>8, SavedKept
<1> QED BY <1>1, <1>2, <1>4, <1>5, <1>6, <1>7, <1>8, <1>9, WritesGoOn

\* Then a page that spills is saved.
LEMMA NewHeaderData ==
  ASSUME CalmInv, NEW c \in env.conns, NewHeader(c)
  PROVE  DataInv'
<1>1. Acts(c) /\ pc[c] = "newhdr"
  BY DEF Acts, NewHeader
<1>2. PICK t \in Tx : /\ t = tx[c] /\ t.hdr \in Nat /\ t.off \in Nat /\ t.goal = "spill" /\ 1..t.hdr - 1 \subseteq Slot
  BY <1>1, WriterHere DEF Does
<1>3. Journal(c) /\ JournalAt(c) /\ t.hdr = t.off + 1 /\ t.hdr \in 0..MaxSlot /\ t.dbmod /\ t.hdr >= 1
  <2>1. Journal(c) /\ JournalAt(c) /\ tx[c].hdr # 0
    BY <1>1, WriterHas
  <2>2. t.off >= 1 /\ t.hdr = t.off + 1 /\ t.hdr <= MaxSlot
    BY <1>1, <1>2, <2>1 DEF Journal, JournalAt
  <2>3. t.hdr > 1
    BY <1>2, <2>2
  <2> QED BY <1>2, <2>1, <2>2, <2>3, Bounds DEF Journal
<1>4. PICK w : w = [s \in {t.hdr} |-> Header(FALSE, 0, <<t.ver, s>>, t.size)]
  OBVIOUS
<1>5. /\ pc'[c] = "store" /\ UNCHANGED <<cache, vers, db, draw, past>> /\ WriteJournal(w)
      /\ tx'[c] = [t EXCEPT !.off = t.hdr]
  BY <1>1, <1>2, <1>4, WriterHere DEF NewHeader, Goto, Types
<1>6. PICK u : u = tx'[c]
  OBVIOUS
<1>7. u \in Tx
  <2>1. t.hdr \in 0..MaxSlot
    BY <1>3
  <2> QED BY <1>2, <1>5, <1>6, <2>1 DEF Tx
<1>8. /\ u.ver = t.ver /\ u.size = t.size /\ u.dirty = t.dirty /\ u.inJournal = t.inJournal /\ u.dbmod = t.dbmod
      /\ u.goal = t.goal /\ u.todo = t.todo /\ u.hdr = t.hdr
  BY <1>2, <1>5, <1>6, TxFields
<1>9. DOMAIN w = {t.hdr} /\ w[t.hdr].kind # "rec"
  BY <1>4 DEF Header
<1>10. \A s \in Slot : At(s)' = At(s) \/ (s = t.hdr /\ At(s)'.kind # "rec")
  <2>1. \A s \in Slot : At(s)' = IF s \in DOMAIN w THEN w[s] ELSE At(s)
    BY <1>5, WrittenIs
  <2> QED BY <1>9, <2>1
<1>11. \A s \in 1..t.hdr - 1 : At(s)' = At(s)
  BY <1>2, <1>10
<1>12. \A p \in Page : Saved(t, p) => Saved(u, p)'
  BY <1>2, <1>7, <1>8, <1>11, SavedKept
<1>13. \A p \in u.todo : p <= u.size => Saved(u, p)'
  <2> SUFFICES ASSUME NEW p \in u.todo, p <= u.size PROVE Saved(u, p)'
    OBVIOUS
  <2>1. p \in t.dirty /\ p \in Page
    BY <1>1, <1>2, <1>8, WriterHas DEF Writes, Tx
  <2>2. PICK s \in 1..t.off : At(s).kind = "rec" /\ At(s).pg = p
    BY <1>1, <1>2, <1>8, <2>1, DirtyRecord
  <2>3. s \in 1..t.hdr - 1
    BY <1>2, <1>3
  <2>4. Saved(t, p)
    BY <2>2, <2>3 DEF Saved
  <2> QED BY <1>12, <2>1, <2>4
<1> QED BY <1>1, <1>2, <1>3, <1>5, <1>6, <1>7, <1>8, <1>10, <1>12, <1>13, WritesGoOn

\* pagerStress: the page needs no sync, or is on its way to one.
LEMMA SpillData ==
  ASSUME CalmInv, NEW c \in env.conns, NEW q \in Page, Spill(c, q)
  PROVE  DataInv'
<1>1. Acts(c) /\ pc[c] = "write" /\ q \in tx[c].dirty \ {1}
  BY DEF Acts, Spill
<1>2. PICK t \in Tx : t = tx[c] /\ t.hdr \in Nat /\ t.off \in Nat /\ t.goal = "none"
  BY <1>1, WriterHere DEF Does
<1>3. /\ pc'[c] = (IF q \in t.needSync \/ ~t.dbmod THEN "excl" ELSE "store")
      /\ UNCHANGED <<jrnl, cache, vers, db, draw, past>>
      /\ tx'[c] = [t EXCEPT !.goal = "spill", !.todo = {q}]
  BY <1>1, <1>2, WriterHere DEF Spill, Goto, Types
<1>4. PICK u : u = tx'[c]
  OBVIOUS
<1>5. u \in Tx
  <2>1. {q} \in SUBSET Nat
    BY Bounds
  <2> QED BY <1>2, <1>3, <1>4, <2>1 DEF Tx, Goal
<1>6. /\ u.ver = t.ver /\ u.size = t.size /\ u.dirty = t.dirty /\ u.inJournal = t.inJournal /\ u.dbmod = t.dbmod
      /\ u.goal = "spill" /\ u.todo = {q} /\ u.hdr = t.hdr
  BY <1>2, <1>3, <1>4, TxFields
<1>7. \A s : At(s)' = At(s)
  BY <1>3 DEF At
<1>8. \A p \in Page : Saved(t, p) => Saved(u, p)'
  BY <1>2, <1>5, <1>6, <1>7, SavedKept
<1>9. ASSUME pc'[c] = "store" PROVE u.dbmod /\ \A p \in u.todo : p <= u.size => Saved(u, p)'
  <2>1. q \notin t.needSync /\ t.dbmod
    BY <1>3, <1>9
  <2>2. ASSUME q <= t.size PROVE Saved(t, q)
    <3>1. PICK s \in 1..t.off : At(s).kind = "rec" /\ At(s).pg = q /\ ~(s > t.hdr) /\ s # t.hdr
      BY <1>1, <1>2, <2>1, <2>2, DirtyRecord
    <3>2. s \in 1..t.hdr - 1
      BY <1>2, <3>1
    <3> QED BY <3>1, <3>2 DEF Saved
  <2> QED BY <1>6, <1>8, <2>1, <2>2
<1> QED BY <1>1, <1>2, <1>3, <1>4, <1>5, <1>6, <1>7, <1>8, <1>9, WritesGoOn, ZenonT(40)

\* One page of a cache changes.
LEMMA CachePut ==
  ASSUME CalmInv, NEW c \in env.conns, NEW p \in Page, NEW v \in PageOK, p # 1 => v.ctr = 0,
         cache' = [cache EXCEPT ![c] = [cache[c] EXCEPT ![p] = v]]
  PROVE  /\ cache'[c][p] = v /\ \A q \in Page \ {p} : cache'[c][q] = cache[c][q]
         /\ \A q \in Page \ {1} : db[q].ctr = 0 /\ \A d \in Conn : cache'[d][q].ctr = 0
<1>1. c \in Conn /\ cache \in [Conn -> Book] /\ cache[c] \in Book /\ PastOK
  BY Entry DEF CalmInv, DataInv, SharedOK
<1>2. /\ cache'[c][p] = v /\ \A q \in Page \ {p} : cache'[c][q] = cache[c][q]
      /\ \A d \in Conn \ {c} : cache'[d] = cache[d]
  BY <1>1 DEF Book
<1>3. \A q \in Page \ {1} : db[q].ctr = 0 /\ \A d \in Conn : cache[d][q].ctr = 0
  BY <1>1 DEF PastOK
<1> QED BY <1>2, <1>3

\* What is asked of a write transaction that neither commits nor spills.
LEMMA FreeWrites ==
  ASSUME NEW c, NEW u, u = tx'[c], u.goal = "none", db'[1] = K'[1],
         \A q \in u.dirty : cache'[c][q] # NoPage /\ (q <= u.size => q \in u.inJournal),
         cache'[c][1] # NoPage, vers'[c] = db'[1].ctr,
         \A q \in Page : K'[q] # NoPage => db'[q] # NoPage,
         \A q \in 1..u.size : db'[q] = K'[q] \/ Saved(u, q)',
         \A q \in 1..u.size : q \notin u.inJournal => cache'[c][q] \in {NoPage, K'[q]},
         \A q \in Page : cache'[c][q] \in {NoPage, db'[q]} \/ q \in u.dirty
  PROVE  Writes(c)'
<1>1. \A q \in u.dirty : cache'[c][q] # NoPage /\ (q <= u.size => q \in u.inJournal)
  OBVIOUS
<1>2. cache'[c][1] # NoPage /\ vers'[c] = db'[1].ctr /\ \A q \in Page : K'[q] # NoPage => db'[q] # NoPage
  OBVIOUS
<1>3. \A q \in 1..u.size : db'[q] = K'[q] \/ Saved(u, q)'
  OBVIOUS
<1>4. \A q \in 1..u.size : q \notin u.inJournal => cache'[c][q] \in {NoPage, K'[q]}
  OBVIOUS
<1>5. \A q \in Page : \/ cache'[c][q] \in {NoPage, db'[q]}
                      \/ q \in u.dirty /\ (u.goal = "commit" => q \in u.todo)
  OBVIOUS
<1>6. /\ u.goal # "commit" \/ pc'[c] \in Opening \/ 1 \in u.todo => db'[1] = K'[1]
      /\ u.goal # "commit" /\ u.goal # "spill"
  OBVIOUS
<1> QED BY <1>1, <1>2, <1>3, <1>4, <1>5, <1>6 DEF Writes

LEMMA ReadData ==
  ASSUME CalmInv, NEW c \in env.conns, NEW p \in Page, Read(c, p)
  PROVE  DataInv'
<1>1. /\ Types /\ c \in Conn /\ tx[c] \in Tx /\ Does(pc[c], tx[c]) /\ cache[c] \in Book
      /\ db[p] \in PageOK /\ N \in Nat /\ N >= 1
  BY Entry, Newest
<1>2. /\ pc[c] \in {"read", "write"} /\ cache[c][p] = NoPage
      /\ cache' = [cache EXCEPT ![c] = [cache[c] EXCEPT ![p] = db[p]]]
      /\ UNCHANGED <<mode, files, pc, vers, tx, draw, history>>
  BY <1>1 DEF Read, Types, SharedOK, Book
<1>3. Acts(c)
  BY DEF Acts
<1>4. p # 1 => db[p].ctr = 0
  BY DEF CalmInv, DataInv, PastOK
<1>5. /\ cache'[c][p] = db[p] /\ \A q \in Page \ {p} : cache'[c][q] = cache[c][q]
      /\ \A q \in Page \ {1} : db[q].ctr = 0 /\ \A d \in Conn : cache'[d][q].ctr = 0
  BY <1>1, <1>2, <1>4, CachePut
<1>6. PastOK'
  <2>1. draw \in Nat /\ draw >= draw
    BY <1>1, Bounds DEF Types, SharedOK
  <2> QED BY <1>2, <1>5, <2>1, PlainStays DEF At
<1>7. K' = K /\ N' = N /\ Size(K)' = Size(K)
  BY <1>2 DEF K, N
<1>8. CASE pc[c] = "read"
  <2>1. db = K /\ ~Hot /\ Current(c) /\ tx[c] = NoTx
    BY <1>1, <1>8, ReadsNewest DEF CalmInv, DataInv, OtherOf, Does
  <2>2. ~Hot' /\ Restored(jrnl, db)' = K'
    BY <1>2, <1>7, <2>1, SameFiles, ColdFiles
  <2>3. Current(c)'
    BY <1>2, <1>5, <1>7, <2>1 DEF Current
  <2>4. Cached(c)'
    <3>1. vers[c] \in 1..N /\ past[vers[c]] = K
      BY <1>1, <2>1 DEF Current, K, N
    <3>2. \A q \in Page : cache'[c][q] \in {NoPage, K[q]}
      BY <1>7, <2>3 DEF Current
    <3> QED BY <1>2, <1>7, <3>1, <3>2 DEF Cached
  <2>5. ~Writer(c)' /\ tx'[c].goal # "hot"
    BY <1>2, <2>1, Blanks DEF Writer
  <2>6. OtherOf(c)'
    BY <1>2, <1>8, <2>2, <2>3, <2>4, <2>5 DEF OtherOf
  <2> QED BY <1>3, <1>6, <2>2, <2>5, <2>6, DataStep
<1>9. CASE pc[c] = "write"
  <2>1. PICK t \in Tx : t = tx[c] /\ t.goal = "none" /\ tx'[c] = t /\ 1..t.size \subseteq Page
    <3>1. 1..tx[c].size \subseteq Page
      BY <1>1, Bounds DEF Tx
    <3> QED BY <1>1, <1>2, <1>9, <3>1 DEF Does
  <2>2. Writer(c) /\ WriterOf(c) /\ Writes(c) /\ (t.hdr # 0 => Journal(c)) /\ (t.hdr = 0 => NotOpened(t))
    BY <1>9, <2>1, WriterHas
  <2>3. ASSUME p \in 1..t.size, p \notin t.inJournal PROVE db[p] = K[p]
    <3>1. ~Saved(t, p)
      <4> SUFFICES ASSUME Saved(t, p) PROVE FALSE
        OBVIOUS
      <4>1. t.hdr \in Nat /\ t.off \in Nat
        BY Bounds DEF Tx
      <4>2. PICK s \in 1..t.hdr - 1 : At(s).kind = "rec" /\ At(s).pg = p
        BY DEF Saved
      <4>3. Journal(c)
        BY <2>2, <4>1, <4>2
      <4>4. t.hdr <= t.off + 1
        BY <2>1, <4>3 DEF Journal
      <4>5. s \in 1..t.off
        BY <4>1, <4>2, <4>4
      <4>6. OwnRecord(t, s)
        BY <2>1, <4>2, <4>3, <4>5 DEF Journal, OwnHeader
      <4> QED BY <2>3, <4>2, <4>6 DEF OwnRecord
    <3> QED BY <2>1, <2>2, <2>3, <3>1 DEF Writes
  <2>4. \A q \in 1..t.size : q \notin t.inJournal => cache'[c][q] \in {NoPage, K[q]}
    BY <1>5, <2>1, <2>2, <2>3 DEF Writes
  <2>5. \A q \in Page : cache'[c][q] \in {NoPage, db[q]} \/ q \in t.dirty
    BY <1>5, <2>1, <2>2 DEF Writes
  <2>6. \A q \in t.dirty : cache'[c][q] # NoPage /\ (q <= t.size => q \in t.inJournal)
    <3>1. \A q \in t.dirty : q \in Page /\ cache[c][q] # NoPage /\ (q <= t.size => q \in t.inJournal)
      BY <2>1, <2>2 DEF Writes, Tx
    <3> QED BY <1>2, <1>5, <3>1
  <2>7. cache'[c][1] # NoPage
    BY <1>2, <1>5, <2>2, Bounds DEF Writes
  <2>8. /\ vers[c] = db[1].ctr /\ \A q \in Page : K[q] # NoPage => db[q] # NoPage
        /\ \A q \in 1..t.size : db[q] = K[q] \/ Saved(t, q)
    BY <2>1, <2>2 DEF Writes
  <2>9. \A q : Saved(t, q)' <=> Saved(t, q)
    BY <1>2 DEF Saved, At
  <2>10. Writes(c)'
    <3>1. \A q \in 1..t.size : db'[q] = K'[q] \/ Saved(t, q)'
      BY <1>2, <1>7, <2>8, <2>9
    <3>2. \A q \in Page : K'[q] # NoPage => db'[q] # NoPage
      BY <1>2, <1>7, <2>8
    <3>3. vers'[c] = db'[1].ctr
      BY <1>2, <2>8
    <3>4. \A q \in 1..t.size : q \notin t.inJournal => cache'[c][q] \in {NoPage, K'[q]}
      BY <1>7, <2>4
    <3>5. \A q \in Page : cache'[c][q] \in {NoPage, db'[q]} \/ q \in t.dirty
      BY <1>2, <2>5
    <3>6. db'[1] = K'[1]
      BY <1>2, <1>7, <2>1, <2>2 DEF Writes
    <3> QED BY <2>1, <2>6, <2>7, <3>1, <3>6, <3>2, <3>3, <3>4, <3>5, FreeWrites
  <2>11. WriterOf(c)'
    BY <1>2, <1>7, <1>9, <2>1, <2>2, <2>10 DEF WriterOf
  <2>12. Writer(c)'
    BY <1>2, <2>2 DEF Writer
  <2> QED BY <1>2, <1>3, <1>6, <1>9, <2>1, <2>11, <2>12, WriterStep
<1> QED BY <1>2, <1>8, <1>9

\* sqlite3PagerBegin: a reader that is current starts to write.
LEMMA ReserveData ==
  ASSUME CalmInv, NEW c \in env.conns, Reserve(c)
  PROVE  DataInv'
<1>1. /\ LockInv /\ Types /\ c \in Conn /\ draw \in 1..MaxVer /\ N \in Nat /\ N >= 1
  BY Entry, Newest
<1>2. /\ pc[c] = "read" /\ draw' = draw + 1 /\ tx'[c] = [NoTx EXCEPT !.ver = draw', !.size = Size(db)]
      /\ pc'[c] = "write" /\ UNCHANGED <<files, cache, vers, history>>
  BY <1>1 DEF Reserve, Goto, Types
<1>3. Acts(c) /\ draw' \in Nat /\ draw' >= draw /\ draw' # 0
  BY <1>1, <1>2, Bounds DEF Acts
<1>4. PICK t : t = tx'[c]
  OBVIOUS
<1>5. /\ t.ver = draw' /\ t.hdr = 0 /\ t.dbmod = FALSE /\ t.goal = "none" /\ t.dirty = {} /\ t.size = Size(db)
      /\ t.inJournal = {}
  BY <1>2, <1>4 DEF NoTx
<1>6. db = K /\ Current(c) /\ PastOK
  BY <1>1, <1>2, ReadsNewest DEF CalmInv, DataInv, OtherOf
<1>7. K' = K /\ N' = N /\ Size(K)' = Size(K)
  BY <1>2 DEF K, N
<1>8. \A q \in Page \ {1} : db[q].ctr = 0 /\ \A d \in Conn : cache[d][q].ctr = 0
  BY <1>6 DEF PastOK
<1>9. PastOK'
  BY <1>2, <1>3, <1>8, PlainStays DEF At
<1>10. db[1].ctr = N /\ N <= draw /\ 1..t.size \subseteq Page
  <2>1. Size(db) \in 0..NPage
    BY SizeOK
  <2> QED BY <1>1, <1>5, <1>6, <2>1, Bounds DEF PastOK, K, N
<1>11. Writes(c)'
  <2>1. \A q \in Page : cache[c][q] \in {NoPage, db[q]} /\ (K[q] # NoPage => db[q] # NoPage)
    BY <1>6 DEF Current
  <2>2. vers[c] = db[1].ctr /\ cache[c][1] # NoPage
    BY <1>6, <1>10 DEF Current
  <2> QED BY <1>2, <1>4, <1>5, <1>6, <1>7, <1>10, <2>1, <2>2 DEF Writes
<1>12. WriterOf(c)'
  <2>1. N < draw'
    BY <1>1, <1>2, <1>10
  <2> QED BY <1>2, <1>4, <1>5, <1>6, <1>7, <1>11, <2>1 DEF WriterOf
<1>13. Writer(c)'
  BY <1>3, <1>4, <1>5 DEF Writer
<1> QED BY <1>2, <1>3, <1>4, <1>5, <1>9, <1>12, <1>13, WriterStep

\* What pager_write does to the contents a transaction relies on.
LEMMA MadeWritable ==
  ASSUME CalmInv, NEW c \in env.conns, pc[c] = "write", NEW p \in Page, MakeWritable(c, p),
         NEW t, t = tx[c], NEW new, new = Writable(t, p)
  PROVE  /\ t \in Tx /\ new \in Tx /\ new.ver = t.ver /\ new.size = t.size /\ new.dbmod = t.dbmod
         /\ new.goal = t.goal /\ new.todo = t.todo /\ new.dirty = t.dirty \cup {p}
         /\ t.inJournal \subseteq new.inJournal /\ (p <= t.size => p \in new.inJournal)
         /\ \A s \in Slot : \/ At(s)' = At(s) \/ At(s)'.kind # "rec"
                            \/ At(s)'.pg # 1 => At(s)'.val.ctr = 0
         /\ \A q \in Page : Saved(t, q) => Saved(new, q)'
<1>1. Types /\ c \in Conn /\ t \in Tx
  BY Entry
<1>2. /\ new.ver = t.ver /\ new.size = t.size /\ new.dbmod = t.dbmod
      /\ new.goal = t.goal /\ new.todo = t.todo /\ new.dirty = t.dirty \cup {p}
      /\ new.inJournal = (IF Journals(t, p) THEN t.inJournal \cup {p} ELSE t.inJournal)
      /\ new.hdr = (IF t.hdr = 0 THEN 1 ELSE t.hdr)
      /\ new.off = (IF t.hdr = 0 THEN 1 ELSE t.off) + (IF Journals(t, p) THEN 1 ELSE 0)
  BY <1>1, WritableIs
<1>3. t.inJournal \subseteq new.inJournal /\ (p <= t.size => p \in new.inJournal)
  BY <1>2 DEF Journals
<1>4. new \in Tx /\ \A s \in Slot : At(s)' = IF Journals(t, p) /\ s = new.off
                                              THEN Record(p, cache[c][p], <<t.ver, new.hdr>>)
                                              ELSE IF t.hdr = 0 /\ s = 1 THEN Header(FALSE, 0, <<t.ver, 1>>, t.size)
                                              ELSE At(s)
  BY <1>1, MakeWritableOK, SMTT(60) DEF At, Record, Header
<1>5. \A s \in Slot : \/ At(s)' = At(s) \/ At(s)'.kind # "rec"
                      \/ At(s)'.pg # 1 => At(s)'.val.ctr = 0
  <2>1. p # 1 => cache[c][p].ctr = 0
    BY <1>1 DEF CalmInv, DataInv, PastOK
  <2> SUFFICES ASSUME NEW s \in Slot
               PROVE  \/ At(s)' = At(s) \/ At(s)'.kind # "rec"
                      \/ At(s)'.pg # 1 => At(s)'.val.ctr = 0
    OBVIOUS
  <2>2. CASE Journals(t, p) /\ s = new.off
    <3>1. At(s)' = Record(p, cache[c][p], <<t.ver, new.hdr>>)
      BY <1>4, <2>2
    <3> QED BY <2>1, <3>1 DEF Record
  <2>3. CASE ~(Journals(t, p) /\ s = new.off) /\ t.hdr = 0 /\ s = 1
    <3>1. At(s)' = Header(FALSE, 0, <<t.ver, 1>>, t.size)
      BY <1>4, <2>3
    <3> QED BY <3>1 DEF Header
  <2> QED BY <1>4, <2>2, <2>3
<1>6. t.hdr \in Nat /\ t.off \in Nat /\ 1..t.hdr - 1 \subseteq Slot /\ new.hdr \in Nat
  BY <1>1, <1>2, WriterHere
<1>7. t.hdr # 0 => t.hdr <= t.off
  <2> SUFFICES ASSUME t.hdr # 0 PROVE t.hdr <= t.off
    OBVIOUS
  <2>1. Journal(c) /\ JournalAt(c)
    BY WriterHas
  <2>2. t.hdr <= t.off + 1 /\ t.hdr # t.off + 1
    BY <2>1 DEF Journal, JournalAt
  <2> QED BY <1>6, <2>2
<1>8. \A s \in 1..t.hdr - 1 : At(s)' = At(s)
  <2> SUFFICES ASSUME NEW s \in 1..t.hdr - 1 PROVE At(s)' = At(s)
    OBVIOUS
  <2>1. s \in Slot /\ t.hdr # 0
    BY <1>6
  <2>2. s # new.off
    BY <1>2, <1>6, <1>7, <2>1
  <2> QED BY <1>4, <2>1, <2>2
<1>9. \A q \in Page : Saved(t, q) => Saved(new, q)'
  BY <1>1, <1>2, <1>4, <1>6, <1>8, SavedKept
<1> QED BY <1>1, <1>2, <1>3, <1>4, <1>5, <1>9

\* Without a commit or a spill under way, page 1 is as it was.
LEMMA WriteHas ==
  ASSUME CalmInv, NEW c \in env.conns, pc[c] = "write"
  PROVE  /\ vers[c] = N /\ db[1] = K[1] /\ K[1].ctr = N /\ N \in Nat /\ N >= 1 /\ N <= draw
         /\ K[1] # NoPage /\ 1 <= Size(K)
<1>1. Types /\ Writes(c) /\ Does(pc[c], tx[c]) /\ PastOK /\ N \in Nat /\ N >= 1
  BY Entry, WriterHas, Newest DEF CalmInv, DataInv
<1>2. vers[c] = db[1].ctr /\ db[1] = K[1]
  BY <1>1 DEF Writes, Does
<1>3. K[1].ctr = N /\ N <= draw
  BY <1>1 DEF PastOK, K, N
<1>4. K[1] # NoPage
  BY <1>1, <1>3, Blanks
<1>5. 1 <= Size(K)
  BY <1>4, SizeOK, Bounds
<1> QED BY <1>1, <1>2, <1>3, <1>4, <1>5

LEMMA ModifyData ==
  ASSUME CalmInv, NEW c \in env.conns, NEW p \in Page, Modify(c, p)
  PROVE  DataInv'
<1>1. /\ Types /\ c \in Conn /\ Does(pc[c], tx[c]) /\ cache[c] \in Book /\ cache[c][p] \in PageOK
  BY Entry DEF Book
<1>2. /\ pc[c] = "write" /\ MakeWritable(c, p)
      /\ cache' = [cache EXCEPT ![c] = [cache[c] EXCEPT ![p] = [cache[c][p] EXCEPT !.ver = tx[c].ver]]]
      /\ UNCHANGED <<mode, db, dpend, pc, vers, draw, history>>
  BY <1>1 DEF Modify
<1>3. PICK t, u : t = tx[c] /\ u = Writable(t, p)
  OBVIOUS
<1>4. tx'[c] = u
  BY <1>1, <1>3 DEF Modify, Types
<1>5. /\ t \in Tx /\ u \in Tx /\ u.ver = t.ver /\ u.size = t.size /\ u.dbmod = t.dbmod
      /\ u.goal = t.goal /\ u.todo = t.todo /\ u.dirty = t.dirty \cup {p}
      /\ t.inJournal \subseteq u.inJournal /\ (p <= t.size => p \in u.inJournal)
      /\ \A s \in Slot : \/ At(s)' = At(s) \/ At(s)'.kind # "rec"
                         \/ At(s)'.pg # 1 => At(s)'.val.ctr = 0
      /\ \A q \in Page : Saved(t, q) => Saved(u, q)'
  BY <1>2, <1>3, MadeWritable
<1>6. t.goal = "none" /\ t.ver # 0 /\ t.ver \in 0..MaxVer
  BY <1>1, <1>2, <1>3, <1>5 DEF Does, Tx
<1>7. PICK v : v = [cache[c][p] EXCEPT !.ver = t.ver]
  OBVIOUS
<1>8. v \in PageOK /\ v.ver = t.ver /\ v.ctr = cache[c][p].ctr /\ v # NoPage
  <2>1. v \in PageOK /\ v.ver = t.ver /\ v.ctr = cache[c][p].ctr
    BY <1>1, <1>6, <1>7 DEF PageOK
  <2> QED BY <1>6, <2>1 DEF NoPage
<1>9. p # 1 => v.ctr = 0
  BY <1>1, <1>8 DEF CalmInv, DataInv, PastOK
<1>10. cache' = [cache EXCEPT ![c] = [cache[c] EXCEPT ![p] = v]]
  BY <1>2, <1>3, <1>7
<1>11. /\ cache'[c][p] = v /\ \A q \in Page \ {p} : cache'[c][q] = cache[c][q]
       /\ \A q \in Page \ {1} : db[q].ctr = 0 /\ \A d \in Conn : cache'[d][q].ctr = 0
  BY <1>8, <1>9, <1>10, CachePut
<1>12. PastOK'
  <2>1. draw \in Nat /\ draw >= draw
    BY <1>1, Bounds DEF Types, SharedOK
  <2> QED BY <1>2, <1>5, <1>11, <2>1, PlainStays
<1>13. K' = K /\ N' = N /\ Size(K)' = Size(K)
  BY <1>2 DEF K, N
<1>14. Writer(c) /\ WriterOf(c) /\ Writes(c) /\ 1..t.size \subseteq Page /\ t.size \in Nat
  <2>1. 1..t.size \subseteq Page /\ t.size \in Nat
    BY <1>5, Bounds DEF Tx
  <2> QED BY <1>2, <2>1, WriterHas
<1>15. Writes(c)'
  <2>1. \A q \in u.dirty : cache'[c][q] # NoPage /\ (q <= u.size => q \in u.inJournal)
    <3>1. \A q \in t.dirty : q \in Page /\ cache[c][q] # NoPage /\ (q <= t.size => q \in t.inJournal)
      BY <1>3, <1>5, <1>14 DEF Writes, Tx
    <3> QED BY <1>5, <1>8, <1>11, <3>1
  <2>2. cache'[c][1] # NoPage
    BY <1>8, <1>11, <1>14, Bounds DEF Writes
  <2>3. vers'[c] = db'[1].ctr /\ db'[1] = K'[1] /\ \A q \in Page : K'[q] # NoPage => db'[q] # NoPage
    BY <1>2, <1>13, <1>14, WriteHas DEF Writes
  <2>4. \A q \in 1..u.size : db'[q] = K'[q] \/ Saved(u, q)'
    BY <1>2, <1>3, <1>5, <1>13, <1>14 DEF Writes
  <2>5. \A q \in 1..u.size : q \notin u.inJournal => cache'[c][q] \in {NoPage, K'[q]}
    <3> SUFFICES ASSUME NEW q \in 1..u.size, q \notin u.inJournal PROVE cache'[c][q] \in {NoPage, K'[q]}
      OBVIOUS
    <3>1. q \in Page \ {p} /\ q \notin t.inJournal /\ q \in 1..t.size
      BY <1>5, <1>14
    <3> QED BY <1>3, <1>11, <1>13, <1>14, <3>1 DEF Writes
  <2>6. \A q \in Page : cache'[c][q] \in {NoPage, db'[q]} \/ q \in u.dirty
    BY <1>2, <1>3, <1>5, <1>11, <1>14 DEF Writes
  <2> QED BY <1>4, <1>5, <1>6, <2>1, <2>2, <2>3, <2>4, <2>5, <2>6, FreeWrites
<1>16. WriterOf(c)'
  BY <1>2, <1>3, <1>4, <1>5, <1>13, <1>14, <1>15 DEF WriterOf
<1>17. Writer(c)' /\ Acts(c)
  BY <1>4, <1>5, <1>6 DEF Writer, Acts
<1> QED BY <1>2, <1>4, <1>5, <1>6, <1>12, <1>16, <1>17, WriterStep

LEMMA CommitData ==
  ASSUME CalmInv, NEW c \in env.conns, Commit(c)
  PROVE  DataInv'
<1>1. /\ Types /\ c \in Conn /\ Does(pc[c], tx[c]) /\ cache[c] \in Book /\ cache[c][1] \in PageOK /\ 1 \in Page
      /\ vers[c] \in 0..MaxVer
  BY Entry, Bounds DEF Book
<1>2. /\ pc[c] = "write" /\ MakeWritable(c, 1)
      /\ cache' = [cache EXCEPT ![c] = [cache[c] EXCEPT ![1] = [cache[c][1] EXCEPT !.ctr = vers[c] + 1]]]
      /\ UNCHANGED <<mode, db, dpend, vers, draw, history>> /\ pc'[c] = "excl"
  BY <1>1 DEF Commit, Goto, Types
<1>3. PICK t, new, u : /\ t = tx[c] /\ new = Writable(t, 1)
                       /\ u = [new EXCEPT !.goal = "commit", !.todo = t.dirty \cup {1}]
  OBVIOUS
<1>4. tx'[c] = u
  BY <1>1, <1>3 DEF Commit, Types
<1>5. /\ t \in Tx /\ new \in Tx /\ new.ver = t.ver /\ new.size = t.size /\ new.dbmod = t.dbmod
      /\ new.dirty = t.dirty \cup {1}
      /\ t.inJournal \subseteq new.inJournal /\ (1 <= t.size => 1 \in new.inJournal)
      /\ \A s \in Slot : \/ At(s)' = At(s) \/ At(s)'.kind # "rec"
                         \/ At(s)'.pg # 1 => At(s)'.val.ctr = 0
      /\ \A q \in Page : Saved(t, q) => Saved(new, q)'
  <2>1. PICK p \in Page : p = 1
    BY <1>1
  <2>2. MakeWritable(c, p) /\ new = Writable(t, p)
    BY <1>2, <1>3, <2>1
  <2>3. /\ t \in Tx /\ new \in Tx /\ new.ver = t.ver /\ new.size = t.size /\ new.dbmod = t.dbmod
        /\ new.goal = t.goal /\ new.todo = t.todo /\ new.dirty = t.dirty \cup {p}
        /\ t.inJournal \subseteq new.inJournal /\ (p <= t.size => p \in new.inJournal)
        /\ \A s \in Slot : \/ At(s)' = At(s) \/ At(s)'.kind # "rec"
                           \/ At(s)'.pg # 1 => At(s)'.val.ctr = 0
        /\ \A q \in Page : Saved(t, q) => Saved(new, q)'
    BY <1>2, <1>3, <2>2, MadeWritable
  <2> QED BY <2>1, <2>3
<1>6. /\ u.ver = t.ver /\ u.size = t.size /\ u.dbmod = t.dbmod /\ u.goal = "commit" /\ u.todo = u.dirty
      /\ u.dirty = t.dirty \cup {1} /\ u.inJournal = new.inJournal /\ u.hdr = new.hdr
  BY <1>3, <1>5, TxFields
<1>7. t.goal = "none" /\ t.ver # 0
  BY <1>1, <1>2, <1>3 DEF Does
<1>8. /\ vers[c] = N /\ db[1] = K[1] /\ K[1].ctr = N /\ N \in Nat /\ N >= 1 /\ N <= draw
      /\ K[1] # NoPage /\ 1 <= Size(K)
  BY <1>2, WriteHas
<1>9. Writer(c) /\ WriterOf(c) /\ Writes(c) /\ 1..t.size \subseteq Page /\ t.size \in Nat /\ t.size = Size(K)
      /\ N < draw /\ draw \in 1..MaxVer
  <2>1. 1..t.size \subseteq Page /\ t.size \in Nat
    BY <1>5, Bounds DEF Tx
  <2> QED BY <1>1, <1>2, <1>3, <2>1, WriterHas DEF WriterOf, Types, SharedOK
<1>10. PICK v : v = [cache[c][1] EXCEPT !.ctr = vers[c] + 1]
  OBVIOUS
<1>11. v \in PageOK /\ v.ctr = N + 1 /\ v # NoPage
  <2>1. vers[c] + 1 \in 0..MaxVer
    BY <1>8, <1>9, Bounds
  <2>2. v \in PageOK /\ v.ctr = vers[c] + 1
    BY <1>1, <1>10, <2>1 DEF PageOK
  <2> QED BY <1>8, <2>2 DEF NoPage
<1>12. cache' = [cache EXCEPT ![c] = [cache[c] EXCEPT ![1] = v]]
  BY <1>2, <1>10
<1>13. /\ cache'[c][1] = v /\ \A q \in Page \ {1} : cache'[c][q] = cache[c][q]
       /\ \A q \in Page \ {1} : db[q].ctr = 0 /\ \A d \in Conn : cache'[d][q].ctr = 0
  BY <1>1, <1>11, <1>12, CachePut
<1>14. PastOK'
  <2>1. draw \in Nat /\ draw >= draw
    BY <1>1, Bounds DEF Types, SharedOK
  <2> QED BY <1>2, <1>5, <1>13, <2>1, PlainStays
<1>15. K' = K /\ N' = N /\ Size(K)' = Size(K)
  BY <1>2 DEF K, N
<1>16. Writes(c)'
  <2>1. \A q \in u.dirty : cache'[c][q] # NoPage /\ (q <= u.size => q \in u.inJournal)
    <3>1. \A q \in t.dirty : q \in Page /\ cache[c][q] # NoPage /\ (q <= t.size => q \in t.inJournal)
      BY <1>3, <1>5, <1>9 DEF Writes, Tx
    <3> QED BY <1>5, <1>6, <1>11, <1>13, <3>1
  <2>2. cache'[c][1] # NoPage /\ cache'[c][1].ctr = N' + 1
    BY <1>11, <1>13, <1>15
  <2>3. vers'[c] = db'[1].ctr /\ db'[1] = K'[1] /\ \A q \in Page : K'[q] # NoPage => db'[q] # NoPage
    BY <1>2, <1>8, <1>15, <1>9 DEF Writes
  <2>4. \A q \in 1..u.size : db'[q] = K'[q] \/ Saved(u, q)'
    <3>1. \A q \in Page : Saved(t, q) => Saved(u, q)'
      BY <1>5, <1>6 DEF Saved
    <3> QED BY <1>2, <1>3, <1>6, <1>15, <1>9, <3>1 DEF Writes
  <2>5. \A q \in 1..u.size : q \notin u.inJournal => cache'[c][q] \in {NoPage, K'[q]}
    <3> SUFFICES ASSUME NEW q \in 1..u.size, q \notin u.inJournal PROVE cache'[c][q] \in {NoPage, K'[q]}
      OBVIOUS
    <3>1. q \in Page \ {1} /\ q \notin t.inJournal /\ q \in 1..t.size
      BY <1>5, <1>6, <1>9
    <3> QED BY <1>3, <1>13, <1>15, <1>9, <3>1 DEF Writes
  <2>6. \A q \in Page : cache'[c][q] \in {NoPage, db'[q]} \/ (q \in u.dirty /\ q \in u.todo)
    BY <1>2, <1>3, <1>6, <1>13, <1>9 DEF Writes
  <2>7. 1 \in u.inJournal /\ 1 \in u.todo /\ u.todo \subseteq u.dirty
    BY <1>5, <1>6, <1>8, <1>9
  <2> QED BY <1>2, <1>4, <1>6, <2>1, <2>2, <2>3, <2>4, <2>5, <2>6, <2>7 DEF Writes
<1>17. WriterOf(c)'
  BY <1>2, <1>3, <1>4, <1>6, <1>15, <1>9, <1>16 DEF WriterOf
<1>18. Writer(c)' /\ Acts(c)
  BY <1>4, <1>6, <1>7 DEF Writer, Acts
<1> QED BY <1>2, <1>4, <1>6, <1>14, <1>17, <1>18, WriterStep

\* The page that is written out next.
LEMMA StoresNext ==
  ASSUME CalmInv, NEW c \in env.conns, StorePage(c), NEW p, p = Min(tx[c].todo)
  PROVE  /\ pc[c] = "store" /\ p \in tx[c].todo /\ p \in tx[c].dirty /\ p \in Page /\ cache[c][p] # NoPage
         /\ tx[c].goal \in {"commit", "spill"} /\ db'[p] = cache[c][p] /\ \A q \in Page \ {p} : db'[q] = db[q]
         /\ p # 1 => cache[c][p].ctr = 0
         /\ tx[c].dbmod /\ (p <= tx[c].size => Saved(tx[c], p))
<1>1. /\ Types /\ c \in Conn /\ tx[c] \in Tx /\ cache[c] \in Book /\ Does(pc[c], tx[c])
  BY Entry
<1>2. pc[c] = "store" /\ WriteDb(p, cache[c][p])
  BY DEF StorePage
<1>3. p \in tx[c].todo /\ tx[c].goal \in {"commit", "spill"}
  <2>1. tx[c].todo # {} /\ tx[c].goal \in {"commit", "spill"} /\ tx[c].todo \subseteq Nat
    BY <1>1, <1>2 DEF Does, Tx
  <2> QED BY <2>1, MinOf
<1>4. Writes(c)
  BY <1>2, WriterHas
<1>5. p \in tx[c].dirty
  BY <1>3, <1>4 DEF Writes
<1>6. p \in Page /\ cache[c][p] # NoPage /\ cache[c][p] \in PageOK
  BY <1>1, <1>4, <1>5 DEF Writes, Tx, Book
<1>7. db'[p] = cache[c][p] /\ \A q \in Page \ {p} : db'[q] = db[q]
  BY <1>1, <1>2, <1>6, WriteDbOK
<1>8. p # 1 => cache[c][p].ctr = 0
  BY <1>1, <1>6 DEF CalmInv, DataInv, PastOK
<1>9. tx[c].dbmod /\ (p <= tx[c].size => Saved(tx[c], p))
  <2>1. CASE tx[c].goal = "spill"
    BY <1>2, <1>3, <1>4, <2>1 DEF Writes
  <2>2. CASE tx[c].goal = "commit"
    <3>1. Journal(c) /\ JournalAt(c)
      BY <1>2, WriterHas
    <3>2. tx[c].hdr = tx[c].off + 1 /\ tx[c].hdr > 1 /\ tx[c].hdr \in Nat /\ tx[c].off \in Nat
      <4>1. tx[c].hdr \in Nat /\ tx[c].off \in Nat
        BY <1>2, WriterHere
      <4> QED BY <1>2, <2>2, <3>1, <4>1 DEF Journal, JournalAt
    <3>3. tx[c].dbmod
      BY <3>1, <3>2 DEF Journal
    <3>4. ASSUME p <= tx[c].size PROVE Saved(tx[c], p)
      <4>1. PICK s \in 1..tx[c].off : At(s).kind = "rec" /\ At(s).pg = p
        BY <1>2, <1>5, <3>4, DirtyRecord
      <4>2. s \in 1..tx[c].hdr - 1
        BY <3>2
      <4> QED BY <4>1, <4>2 DEF Saved
    <3> QED BY <3>3, <3>4
  <2> QED BY <1>3, <2>1, <2>2
<1> QED BY <1>2, <1>3, <1>5, <1>6, <1>7, <1>8, <1>9

LEMMA StorePageData ==
  ASSUME CalmInv, NEW c \in env.conns, StorePage(c)
  PROVE  DataInv'
<1>1. /\ Types /\ c \in Conn /\ tx[c] \in Tx /\ cache[c] \in Book /\ draw \in Nat
  BY Entry, Bounds
<1>2. PICK t, p : t = tx[c] /\ p = Min(t.todo)
  OBVIOUS
<1>3. /\ pc[c] = "store" /\ p \in t.todo /\ p \in t.dirty /\ p \in Page /\ cache[c][p] # NoPage
      /\ t.goal \in {"commit", "spill"} /\ db'[p] = cache[c][p] /\ \A q \in Page \ {p} : db'[q] = db[q]
      /\ p # 1 => cache[c][p].ctr = 0
      /\ t.dbmod /\ (p <= t.size => Saved(t, p))
  BY <1>2, StoresNext
<1>4. /\ vers'[c] = (IF p = 1 THEN cache[c][p].ctr ELSE vers[c])
      /\ UNCHANGED <<mode, journal, draw, history>>
  BY <1>1, <1>2 DEF StorePage, Types, SharedOK
<1>5. K' = K /\ N' = N /\ Size(K)' = Size(K)
  BY <1>4 DEF K, N
<1>6. Writer(c) /\ WriterOf(c) /\ Writes(c) /\ 1..t.size \subseteq Page /\ t.size \in Nat
  <2>1. 1..t.size \subseteq Page /\ t.size \in Nat
    BY <1>1, <1>2, Bounds DEF Tx
  <2> QED BY <1>3, <2>1, WriterHas
<1>7. \A q : Saved(t, q)' <=> Saved(t, q)
  BY <1>4 DEF Saved, At
<1>8. \A q \in Page : K[q] # NoPage => db'[q] # NoPage
  BY <1>3, <1>6 DEF Writes
<1>9. \A q \in 1..t.size : db'[q] = K[q] \/ Saved(t, q)
  <2> SUFFICES ASSUME NEW q \in 1..t.size PROVE db'[q] = K[q] \/ Saved(t, q)
    OBVIOUS
  <2>1. CASE q = p
    BY <1>3, <2>1
  <2>2. CASE q # p
    BY <1>2, <1>3, <1>6, <2>2 DEF Writes
  <2> QED BY <2>1, <2>2
<1>10. Acts(c)
  BY DEF Acts
<1>11. ASSUME \A q \in Page : cache'[c][q] \in {NoPage, cache[c][q]}, \A d \in Conn \ {c} : cache'[d] = cache[d]
       PROVE  PastOK'
  <2>1. \A q \in Page \ {1} : db[q].ctr = 0 /\ \A d \in Conn : cache[d][q].ctr = 0
    BY DEF CalmInv, DataInv, PastOK
  <2>2. \A q \in Page \ {1} : db'[q].ctr = 0
    BY <1>3, <2>1
  <2>3. \A q \in Page \ {1} : \A d \in Conn : cache'[d][q].ctr = 0
    BY <1>11, <2>1, Blanks
  <2>4. draw' \in Nat /\ draw' >= draw /\ past' = past /\ \A s \in Slot : At(s)' = At(s)
    BY <1>1, <1>4 DEF At
  <2> QED BY <2>2, <2>3, <2>4, PlainStays
<1>12. CASE t.goal = "spill"
  <2>1. t.todo = {p} /\ p # 1
    <3>1. \E q \in t.dirty \ {1} : t.todo = {q}
      BY <1>2, <1>6, <1>12 DEF Writes
    <3> QED BY <1>3, <3>1
  <2>2. PICK u : u = tx'[c]
    OBVIOUS
  <2>3. /\ cache' = [cache EXCEPT ![c] = [cache[c] EXCEPT ![p] = NoPage]]
        /\ tx' = [tx EXCEPT ![c].dirty = tx[c].dirty \ {p}, ![c].todo = {}, ![c].goal = "none"]
        /\ pc'[c] = "write"
    <3>1. /\ cache' = [cache EXCEPT ![c][p] = NoPage]
          /\ tx' = [tx EXCEPT ![c].dirty = tx[c].dirty \ {p}, ![c].todo = {}, ![c].goal = "none"]
          /\ Goto(c, "write")
      BY <1>2, <1>12, <2>1 DEF StorePage
    <3> QED BY <1>1, <3>1 DEF Goto, Types, SharedOK, Book
  <2>4. /\ u.ver = t.ver /\ u.size = t.size /\ u.dbmod = t.dbmod /\ u.hdr = t.hdr /\ u.inJournal = t.inJournal
        /\ u.dirty = t.dirty \ {p} /\ u.goal = "none" /\ u.todo = {}
    BY <1>1, <1>2, <2>2, <2>3 DEF Types, Tx
  <2>5. /\ cache'[c][p] = NoPage /\ \A q \in Page \ {p} : cache'[c][q] = cache[c][q]
        /\ \A d \in Conn \ {c} : cache'[d] = cache[d]
    BY <1>1, <1>3, <2>3 DEF Types, SharedOK, Book
  <2>6. PastOK'
    BY <1>11, <2>5
  <2>7. \A q \in u.dirty : cache'[c][q] # NoPage /\ (q <= u.size => q \in u.inJournal)
    <3>1. \A q \in t.dirty : q \in Page /\ cache[c][q] # NoPage /\ (q <= t.size => q \in t.inJournal)
      BY <1>1, <1>2, <1>6 DEF Writes, Tx
    <3> QED BY <2>4, <2>5, <3>1
  <2>8. cache'[c][1] # NoPage
    BY <1>6, <2>1, <2>5, Bounds DEF Writes
  <2>9. vers'[c] = db'[1].ctr /\ db'[1] = K'[1]
    <3>1. vers[c] = db[1].ctr /\ db[1] = K[1]
      BY <1>2, <1>6, <1>12 DEF Writes
    <3>2. db'[1] = db[1]
      BY <1>3, <2>1, Bounds
    <3> QED BY <1>4, <1>5, <2>1, <3>1, <3>2
  <2>10. \A q \in 1..u.size : db'[q] = K'[q] \/ Saved(u, q)'
    <3>1. \A q : Saved(u, q)' <=> Saved(t, q)'
      BY <2>4 DEF Saved
    <3> QED BY <1>5, <1>7, <1>9, <2>4, <3>1
  <2>11. \A q \in 1..u.size : q \notin u.inJournal => cache'[c][q] \in {NoPage, K'[q]}
    <3>1. \A q \in 1..t.size : q \notin t.inJournal => cache[c][q] \in {NoPage, K[q]}
      BY <1>2, <1>6 DEF Writes
    <3> QED BY <1>5, <1>6, <2>4, <2>5, <3>1
  <2>12. \A q \in Page : cache'[c][q] \in {NoPage, db'[q]} \/ q \in u.dirty
    <3>1. \A q \in Page : cache[c][q] \in {NoPage, db[q]} \/ q \in t.dirty
      BY <1>2, <1>6 DEF Writes
    <3> QED BY <1>3, <2>4, <2>5, <3>1
  <2>13. Writes(c)'
    BY <1>5, <1>8, <2>2, <2>4, <2>7, <2>8, <2>9, <2>10, <2>11, <2>12, FreeWrites
  <2>14. WriterOf(c)' /\ Writer(c)'
    BY <1>2, <1>3, <1>4, <1>5, <1>6, <2>2, <2>3, <2>4, <2>13 DEF WriterOf, Writer
  <2> QED BY <1>10, <2>2, <2>3, <2>4, <2>6, <2>14, WriterStep
<1>13. CASE t.goal = "commit"
  <2>1. PICK u : u = tx'[c]
    OBVIOUS
  <2>2. cache' = cache /\ tx' = [tx EXCEPT ![c].todo = tx[c].todo \ {p}] /\ pc'[c] \in {"store", "dbsync"}
    BY <1>1, <1>2, <1>13 DEF StorePage, Goto, Types
  <2>3. /\ u.ver = t.ver /\ u.size = t.size /\ u.dbmod = t.dbmod /\ u.hdr = t.hdr /\ u.inJournal = t.inJournal
        /\ u.dirty = t.dirty /\ u.goal = "commit" /\ u.todo = t.todo \ {p}
    BY <1>1, <1>2, <1>13, <2>1, <2>2 DEF Types, Tx
  <2>4. PastOK'
    BY <1>11, <2>2
  <2>5. /\ \A q \in t.dirty : cache[c][q] # NoPage /\ (q <= t.size => q \in t.inJournal)
        /\ cache[c][1] # NoPage
        /\ \A q \in 1..t.size : q \notin t.inJournal => cache[c][q] \in {NoPage, K[q]}
    BY <1>2, <1>6 DEF Writes
  <2>6. vers'[c] = db'[1].ctr
    <3>1. vers[c] = db[1].ctr
      BY <1>6 DEF Writes
    <3> QED BY <1>3, <1>4, <3>1, Bounds
  <2>7. \A q \in 1..t.size : db'[q] = K'[q] \/ Saved(u, q)'
    <3>1. \A q : Saved(u, q)' <=> Saved(t, q)'
      BY <2>3 DEF Saved
    <3> QED BY <1>5, <1>7, <1>9, <3>1
  <2>8. \A q \in Page : cache[c][q] \in {NoPage, db'[q]} \/ (q \in t.dirty /\ q \in u.todo)
    <3>1. \A q \in Page : cache[c][q] \in {NoPage, db[q]} \/ (q \in t.dirty /\ q \in t.todo)
      BY <1>2, <1>6, <1>13 DEF Writes
    <3> QED BY <1>3, <2>3, <3>1
  <2>9. 1 \in u.todo => db'[1] = K'[1]
    <3>1. 1 \in t.todo => db[1] = K[1]
      BY <1>2, <1>6 DEF Writes
    <3> QED BY <1>3, <1>5, <2>3, <3>1, Bounds
  <2>10. /\ cache[c][1].ctr = N + 1 /\ 1 \in t.inJournal /\ u.todo \subseteq t.dirty
         /\ 1 \notin u.todo => db'[1] = cache[c][1]
    <3>1. /\ cache[c][1].ctr = N + 1 /\ 1 \in t.inJournal /\ t.todo \subseteq t.dirty
          /\ 1 \notin t.todo => db[1] = cache[c][1]
      BY <1>2, <1>6, <1>13 DEF Writes
    <3> QED BY <1>3, <2>3, <3>1, Bounds
  <2>11. Writes(c)'
    BY <1>5, <1>8, <2>1, <2>2, <2>3, <2>5, <2>6, <2>7, <2>8, <2>9, <2>10 DEF Writes
  <2>12. WriterOf(c)' /\ Writer(c)'
    BY <1>2, <1>3, <1>4, <1>5, <1>6, <2>1, <2>2, <2>3, <2>11 DEF WriterOf, Writer
  <2> QED BY <1>10, <2>1, <2>2, <2>3, <2>4, <2>12, WriterStep
<1> QED BY <1>3, <1>12, <1>13

\* All is written: the file holds what the commit will be.
LEMMA DbSyncData ==
  ASSUME CalmInv, NEW c \in env.conns, DbSync(c)
  PROVE  DataInv'
<1>1. /\ Types /\ c \in Conn /\ tx[c] \in Tx /\ Does(pc[c], tx[c]) /\ N \in Nat
  BY Entry, Newest
<1>2. /\ pc[c] = "dbsync" /\ pc'[c] = "final" /\ UNCHANGED <<mode, journal, db, cache, vers, tx, draw, past>>
      /\ <<N, db>> \in pending'
  BY <1>1 DEF DbSync, Goto, Types, N
<1>3. PICK t : t = tx[c] /\ tx'[c] = t /\ t.goal = "commit" /\ t.todo = {}
  BY <1>1, <1>2 DEF Does
<1>4. Writer(c) /\ WriterOf(c) /\ Writes(c)
  BY <1>2, WriterHas
<1>5. K' = K /\ N' = N /\ Size(K)' = Size(K)
  BY <1>2 DEF K, N
<1>6. PastOK'
  BY <1>2, PastWaits DEF At
<1>7. /\ cache[c][1].ctr = N + 1 /\ db[1] = cache[c][1] /\ cache[c][1] # NoPage /\ vers[c] = db[1].ctr
      /\ \A q \in Page : cache[c][q] \in {NoPage, db[q]}
      /\ \A q \in 1..t.size : db[q] = K[q] \/ Saved(t, q)
  BY <1>3, <1>4 DEF Writes
<1>8. \A q : Saved(t, q)' <=> Saved(t, q)
  BY <1>2 DEF Saved, At
<1>9. Commits(c)'
  BY <1>2, <1>3, <1>5, <1>7, <1>8 DEF Commits
<1>10. WriterOf(c)' /\ Writer(c)'
  BY <1>2, <1>3, <1>4, <1>5, <1>9 DEF WriterOf, Writer
<1>11. Acts(c)
  BY DEF Acts
<1> QED BY <1>2, <1>3, <1>6, <1>10, <1>11, WriterStep

(***************************************************************************)
(* A rollback.                                                             *)
(***************************************************************************)
\* It plays back every record the transaction has written, and nothing else.
LEMMA RollsBackOwn ==
  ASSUME CalmInv, NEW c \in env.conns, Rollback(c) \/ CommitFails(c), ~Disturbed
  PROVE  Played(jrnl, tx[c].hdr) = {i \in 1..tx[c].off : At(i).kind = "rec"}
<1>1. /\ Types /\ c \in Conn /\ tx[c] \in Tx /\ Does(pc[c], tx[c]) /\ pc[c] \in Opening \cup Storing
      /\ tx[c].hdr # 0
  <2>1. pc[c] \in Opening \cup Storing
    BY DEF Rollback, CommitFails
  <2>2. tx[c].hdr # 0
    BY <2>1, WriterHas DEF Rollback, CommitFails
  <2> QED BY <2>1, <2>2, Entry
<1>2. /\ Writer(c) /\ Stale(tx[c]) /\ tx[c].ver = draw /\ Journal(c) /\ JournalAt(c)
  BY <1>1, WriterHas DEF JournalOf
<1>3. PICK h, o : h = tx[c].hdr /\ o = tx[c].off
  OBVIOUS
<1>4. /\ h \in Nat /\ o \in Nat /\ h >= 1 /\ o >= 1 /\ h <= o + 1 /\ o <= MaxSlot /\ h \in Line /\ o \in 0..MaxSlot
      /\ MaxSlot \in Nat
  BY <1>1, <1>2, <1>3, Bounds DEF Journal, Tx, Line
<1>5. Rows(jrnl.at) /\ Chain(jrnl.at, h)
  BY <1>1, <1>2, <1>3, RowsOK DEF Journal
<1>6. h <= o => /\ h \in Slot /\ At(h).kind = "hdr" /\ At(h).magic \in BOOLEAN /\ At(h).salt[1] = draw
                /\ At(h).n = IF At(h).magic THEN o - h ELSE 0
                /\ \A i \in h + 1..o : At(i).kind = "rec" /\ At(i).salt = At(h).salt
  <2> SUFFICES ASSUME h <= o
               PROVE  /\ h \in Slot /\ At(h).kind = "hdr" /\ At(h).magic \in BOOLEAN /\ At(h).salt[1] = draw
                      /\ At(h).n = IF At(h).magic THEN o - h ELSE 0
                      /\ \A i \in h + 1..o : At(i).kind = "rec" /\ At(i).salt = At(h).salt
    OBVIOUS
  <2>1. h \in Slot /\ h \in 1..o
    BY <1>4, Bounds
  <2>2. /\ At(h).kind = "hdr" /\ At(h).n = IF At(h).magic THEN o - h ELSE 0
        /\ \A i \in h + 1..o : At(i).kind = "rec" /\ At(i).salt = At(h).salt
    BY <1>2, <1>3 DEF Journal
  <2>3. At(h).magic \in BOOLEAN
    <3>1. At(h) \in HeaderOK
      BY <1>1, <2>1, <2>2, RowsOK
    <3> QED BY <3>1 DEF HeaderOK
  <2>4. OwnHeader(tx[c], h)
    BY <1>2, <1>3, <2>1, <2>2 DEF Journal, OwnRecord
  <2> QED BY <1>2, <2>1, <2>2, <2>3, <2>4 DEF OwnHeader
<1>7. h = o + 1 /\ h \in Slot => At(h).kind # "hdr"
  <2> SUFFICES ASSUME h = o + 1, h \in Slot, At(h).kind = "hdr" PROVE FALSE
    OBVIOUS
  <2>1. CASE Rollback(c)
    BY <1>1, <1>2, <1>3, <2>1 DEF Rollback, JournalAt, Does
  <2>2. CASE CommitFails(c)
    BY <1>3, <1>4, <2>2 DEF Disturbed, At
  <2> QED BY <2>1, <2>2
<1>8. h <= o /\ At(h).magic /\ o + 1 \in Slot => ~IsHeader(At(o + 1))
  BY <1>2, <1>3 DEF Journal, Closed, NoHeader
<1>9. h <= o => \A s \in Slot : s > o => At(s).kind # "rec" \/ At(s).salt # At(h).salt
  <2> SUFFICES ASSUME h <= o, NEW s \in Slot, s > o, At(s).kind = "rec", At(s).salt = At(h).salt PROVE FALSE
    OBVIOUS
  <2>1. At(s) # Nothing
    BY DEF Nothing
  <2>2. At(s).salt[1] < draw
    BY <1>2, <1>3, <2>1 DEF Stale
  <2>3. draw \in Nat
    BY <1>1, Bounds DEF Types, SharedOK
  <2> QED BY <1>6, <2>2, <2>3
<1>10. Played(jrnl, h) = {i \in 1..o : jrnl.at[i].kind = "rec"}
  <2> HIDE DEF At
  <2>1. \A s : At(s) = jrnl.at[s]
    BY DEF At
  <2>2. h <= o => /\ jrnl.at[h].kind = "hdr"
                  /\ jrnl.at[h].n = IF jrnl.at[h].magic THEN o - h ELSE 0
                  /\ jrnl.at[h].magic \in BOOLEAN
                  /\ \A i \in h + 1..o : jrnl.at[i].kind = "rec" /\ jrnl.at[i].salt = jrnl.at[h].salt
    BY <1>6, <2>1
  <2>3. h = o + 1 /\ h \in Slot => jrnl.at[h].kind # "hdr"
    BY <1>7, <2>1
  <2>4. h <= o /\ jrnl.at[h].magic /\ o + 1 \in Slot => ~IsHeader(jrnl.at[o + 1])
    BY <1>8, <2>1
  <2>5. h <= o => \A s \in Slot : s > o => jrnl.at[s].kind # "rec" \/ jrnl.at[s].salt # jrnl.at[h].salt
    BY <1>9, <2>1
  <2> QED BY <1>4, <1>5, <2>2, <2>3, <2>4, <2>5, PlayedOwn
<1> QED BY <1>3, <1>10 DEF At

LEMMA StartRollbackData ==
  ASSUME CalmInv, NEW c \in env.conns, Rollback(c) \/ CommitFails(c), ~Disturbed
  PROVE  DataInv'
<1>1. /\ Types /\ c \in Conn /\ tx[c] \in Tx /\ pc[c] \in Opening \cup Storing /\ tx[c].hdr # 0 /\ draw \in Nat
      /\ Does(pc[c], tx[c])
  <2>1. pc[c] \in Opening \cup Storing
    BY DEF Rollback, CommitFails
  <2>2. tx[c].hdr # 0
    BY <2>1, WriterHas DEF Rollback, CommitFails
  <2> QED BY <2>1, <2>2, Entry, Bounds
<1>2. PICK t, w : t = tx[c] /\ w = Played(jrnl, t.hdr)
  OBVIOUS
<1>3. w = {i \in 1..t.off : At(i).kind = "rec"}
  BY <1>2, RollsBackOwn
<1>4. /\ pc'[c] = "play" /\ UNCHANGED <<mode, journal, cache, vers, draw, history>>
      /\ tx' = [tx EXCEPT ![c].goal = "rollback", ![c].todo = w]
      /\ IF t.dbmod THEN TruncateDb(t.size) ELSE db' = db
  <2>1. StartRollback(c)
    BY DEF Rollback, CommitFails
  <2> QED BY <1>1, <1>2, <2>1 DEF StartRollback, Goto, Types
<1>5. PICK u : u = tx'[c]
  OBVIOUS
<1>6. /\ u.ver = t.ver /\ u.size = t.size /\ u.dbmod = t.dbmod /\ u.hdr = t.hdr /\ u.off = t.off
      /\ u.goal = "rollback" /\ u.todo = w
  BY <1>1, <1>2, <1>4, <1>5 DEF Types, Tx
<1>7. /\ Writer(c) /\ WriterOf(c) /\ Writes(c) /\ Journal(c) /\ 1..t.size \subseteq Page /\ t.size \in Nat
      /\ t.hdr \in Nat /\ t.off \in Nat /\ t.hdr <= t.off + 1 /\ t.size = Size(K) /\ t.dbmod \in BOOLEAN
  <2>1. 1..t.size \subseteq Page /\ t.size \in Nat /\ t.hdr \in Nat /\ t.off \in Nat /\ t.dbmod \in BOOLEAN
    BY <1>1, <1>2, Bounds DEF Tx
  <2>2. Writer(c) /\ WriterOf(c) /\ Writes(c) /\ Journal(c)
    BY <1>1, <1>2, WriterHas
  <2> QED BY <1>2, <2>1, <2>2 DEF Journal, WriterOf
<1>8. K' = K /\ N' = N /\ Size(K)' = Size(K) /\ \A s : At(s)' = At(s)
  BY <1>4 DEF K, N, At
<1>9. \A p \in Page : db'[p] = IF t.dbmod /\ p > t.size THEN NoPage ELSE db[p]
  BY <1>1, <1>4, <1>7, TruncateOK
<1>10. PastOK'
  <2>1. \A q \in Page \ {1} : db[q].ctr = 0 /\ \A d \in Conn : cache[d][q].ctr = 0
    BY DEF CalmInv, DataInv, PastOK
  <2>2. \A q \in Page \ {1} : db'[q].ctr = 0 /\ \A d \in Conn : cache'[d][q].ctr = 0
    BY <1>4, <1>9, <2>1, Blanks
  <2>3. past' = past /\ draw' \in Nat /\ draw' >= draw
    BY <1>1, <1>4
  <2> QED BY <1>8, <2>2, <2>3, PlainStays
<1>11. PlaysBack(c)'
  <2>1. w \subseteq {s \in 1..t.off : At(s)'.kind = "rec"}
    BY <1>3, <1>8
  <2>2. \A p \in 1..t.size : db'[p] = K'[p] \/ \E s \in w : s < t.hdr /\ At(s)'.pg = p
    <3> SUFFICES ASSUME NEW p \in 1..t.size, db'[p] # K'[p] PROVE \E s \in w : s < t.hdr /\ At(s).pg = p
      BY <1>8
    <3>1. db'[p] = db[p] /\ K'[p] = K[p]
      BY <1>7, <1>8, <1>9
    <3>2. Saved(t, p)
      BY <1>2, <1>7, <3>1 DEF Writes
    <3>3. PICK s \in 1..t.hdr - 1 : At(s).kind = "rec" /\ At(s).pg = p
      BY <3>2 DEF Saved
    <3>4. s \in 1..t.off /\ s < t.hdr
      BY <1>7, <3>3
    <3> QED BY <1>3, <3>3, <3>4
  <2>3. \A p \in t.inJournal : Left(u, p)'
    <3> SUFFICES ASSUME NEW p \in t.inJournal PROVE Left(u, p)'
      OBVIOUS
    <3>1. PICK s \in 1..t.off : At(s).kind = "rec" /\ At(s).pg = p
      BY <1>2, <1>7 DEF Journal
    <3>2. s \in w /\ At(s)' = At(s)
      BY <1>3, <1>8, <3>1
    <3> QED BY <1>6, <3>1, <3>2 DEF Left
  <2>4. \A p \in 1..t.size : cache'[c][p] \in {NoPage, K'[p]} \/ Left(u, p)'
    BY <1>2, <1>4, <1>7, <1>8, <2>3 DEF Writes
  <2>5. vers'[c] = N' \/ Left(u, 1)'
    <3>1. CASE Rollback(c)
      BY <1>4, <1>8, <3>1, WriteHas DEF Rollback
    <3>2. CASE CommitFails(c)
      BY <1>2, <1>7, <2>3, <3>2 DEF CommitFails, Writes
    <3> QED BY <3>1, <3>2
  <2>6. cache'[c][1] # NoPage
    BY <1>4, <1>7 DEF Writes
  <2>7. t.dbmod => \A p \in Page : p > t.size => db'[p] = NoPage
    BY <1>9
  <2> QED BY <1>5, <1>6, <2>1, <2>2, <2>4, <2>5, <2>6, <2>7 DEF PlaysBack
<1>12. ~t.dbmod => db' = K
  BY <1>2, <1>4, <1>7 DEF WriterOf
<1>13. WriterOf(c)' /\ Writer(c)'
  BY <1>2, <1>4, <1>5, <1>6, <1>7, <1>8, <1>11, <1>12 DEF WriterOf, Writer
<1>14. Acts(c)
  BY DEF Acts
<1> QED BY <1>4, <1>5, <1>6, <1>10, <1>13, <1>14, WriterStep

\* Who plays back a journal of its own.
LEMMA PlayerHas ==
  ASSUME CalmInv, NEW c \in env.conns, pc[c] = "play", tx[c].goal # "hot"
  PROVE  /\ Types /\ c \in Conn /\ tx[c] \in Tx /\ cache[c] \in Book /\ draw \in Nat /\ tx[c].goal = "rollback"
         /\ Writer(c) /\ WriterOf(c) /\ PlaysBack(c) /\ Journal(c) /\ tx[c].size = Size(K)
         /\ tx[c].size \in Nat /\ 1..tx[c].size \subseteq Page /\ tx[c].dbmod \in BOOLEAN
         /\ K[1].ctr = N /\ K[1] # NoPage
<1>1. /\ Types /\ c \in Conn /\ tx[c] \in Tx /\ cache[c] \in Book /\ Does(pc[c], tx[c]) /\ draw \in Nat
      /\ PastOK /\ N \in Nat /\ N >= 1
  BY Entry, Newest, Bounds DEF CalmInv, DataInv
<1>2. tx[c].goal = "rollback" /\ Writer(c) /\ tx[c].hdr # 0
  BY <1>1 DEF Does, Writer
<1>3. WriterOf(c) /\ Journal(c)
  BY <1>1, <1>2, WriterJournal
<1>4. tx[c].size \in Nat /\ 1..tx[c].size \subseteq Page /\ tx[c].dbmod \in BOOLEAN
  BY <1>1, Bounds DEF Tx
<1>5. K[1].ctr = N /\ K[1] # NoPage
  <2>1. K[1].ctr = N
    BY <1>1 DEF PastOK, K, N
  <2> QED BY <1>1, <2>1, Blanks
<1> QED BY <1>1, <1>2, <1>3, <1>4, <1>5 DEF WriterOf

LEMMA PlayPageData ==
  ASSUME CalmInv, NEW c \in env.conns, PlayPage(c), tx[c].goal # "hot"
  PROVE  DataInv'
<1>1. pc[c] = "play" /\ tx[c].todo # {}
  BY DEF PlayPage
<1>2. PICK t : t = tx[c]
  OBVIOUS
<1>3. /\ Types /\ c \in Conn /\ t \in Tx /\ cache[c] \in Book /\ draw \in Nat /\ t.goal = "rollback"
      /\ Writer(c) /\ WriterOf(c) /\ PlaysBack(c) /\ Journal(c) /\ t.size = Size(K)
      /\ t.size \in Nat /\ 1..t.size \subseteq Page /\ t.dbmod \in BOOLEAN
      /\ K[1].ctr = N /\ K[1] # NoPage
  BY <1>1, <1>2, PlayerHas
<1>4. PICK s, p, v : s = Min(t.todo) /\ p = At(s).pg /\ v = At(s).val
  OBVIOUS
<1>5. /\ s \in t.todo /\ s \in 1..t.off /\ At(s).kind = "rec" /\ p \in 1..t.size /\ v = K[p] /\ v \in PageOK
  <2>1. /\ s \in t.todo /\ At(s) \in RecordOK
    BY <1>1, <1>2, <1>3, <1>4, PlaysRecord
  <2>2. s \in 1..t.off /\ At(s).kind = "rec"
    BY <1>2, <1>3, <2>1 DEF PlaysBack
  <2>3. OwnRecord(t, s)
    BY <1>2, <1>3, <2>2 DEF Journal, OwnHeader
  <2>4. p \in t.inJournal /\ v = K[p]
    BY <1>4, <2>3 DEF OwnRecord
  <2>5. p <= t.size /\ p \in Page
    BY <1>2, <1>3, <2>4 DEF Journal, Tx
  <2>6. p \in 1..t.size
    BY <1>3, <2>5, Bounds
  <2> QED BY <1>4, <2>1, <2>2, <2>4, <2>6 DEF RecordOK
<1>6. p \in Page /\ (p # 1 => v.ctr = 0)
  <2>1. p \in Page
    BY <1>3, <1>5
  <2>2. p # 1 => v.ctr = 0
    <3>1. s \in Slot
      BY <1>3, <1>5, Bounds DEF Tx
    <3> QED BY <1>4, <1>5, <3>1 DEF CalmInv, DataInv, PastOK
  <2> QED BY <2>1, <2>2
<1>7. /\ IF t.dbmod /\ s < t.hdr THEN WriteDb(p, v) ELSE db' = db
      /\ cache' = IF cache[c][p] # NoPage THEN [cache EXCEPT ![c] = [cache[c] EXCEPT ![p] = v]] ELSE cache
      /\ vers'[c] = IF cache[c][p] # NoPage /\ p = 1 THEN v.ctr ELSE vers[c]
      /\ tx' = [tx EXCEPT ![c].todo = t.todo \ {s}]
      /\ UNCHANGED <<mode, journal, pc, draw, past, pending>>
  BY <1>2, <1>3, <1>4 DEF PlayPage, At, IsSynced, Types, SharedOK, Book
<1>8. PICK u : u = tx'[c]
  OBVIOUS
<1>9. /\ u.ver = t.ver /\ u.size = t.size /\ u.dbmod = t.dbmod /\ u.hdr = t.hdr /\ u.off = t.off
      /\ u.goal = "rollback" /\ u.todo = t.todo \ {s}
  BY <1>2, <1>3, <1>7, <1>8 DEF Types, Tx
<1>10. K' = K /\ N' = N /\ Size(K)' = Size(K) /\ \A i : At(i)' = At(i)
  BY <1>7 DEF K, N, At
<1>11. /\ \A q \in Page \ {p} : db'[q] = db[q]
       /\ db'[p] = IF t.dbmod /\ s < t.hdr THEN v ELSE db[p]
  BY <1>3, <1>5, <1>6, <1>7, WriteDbOK
<1>12. /\ \A q \in Page \ {p} : cache'[c][q] = cache[c][q]
       /\ cache'[c][p] = (IF cache[c][p] # NoPage THEN v ELSE NoPage)
       /\ \A q \in Page \ {1} : \A d \in Conn : cache'[d][q].ctr = 0
       /\ \A q \in Page \ {1} : db[q].ctr = 0
  <2>1. CASE cache[c][p] # NoPage
    <3>1. cache' = [cache EXCEPT ![c] = [cache[c] EXCEPT ![p] = v]]
      BY <1>7, <2>1
    <3>2. /\ cache'[c][p] = v /\ \A q \in Page \ {p} : cache'[c][q] = cache[c][q]
          /\ \A q \in Page \ {1} : db[q].ctr = 0 /\ \A d \in Conn : cache'[d][q].ctr = 0
      <4>1. v \in PageOK
        BY <1>5
      <4> QED BY <1>6, <3>1, <4>1, CachePut, ZenonT(60)
    <3> QED BY <2>1, <3>2
  <2>2. CASE cache[c][p] = NoPage
    BY <1>7, <2>2 DEF CalmInv, DataInv, PastOK
  <2> QED BY <2>1, <2>2
<1>13. PastOK'
  <2>1. \A q \in Page \ {1} : db'[q].ctr = 0
    BY <1>6, <1>11, <1>12
  <2>2. past' = past /\ draw' \in Nat /\ draw' >= draw
    BY <1>3, <1>7
  <2> QED BY <1>10, <1>12, <2>1, <2>2, PlainStays
\* What is left for another page is left for it still.
<1>14. \A q : q # p => (Left(t, q) => Left(u, q)')
  <2> SUFFICES ASSUME NEW q, q # p, Left(t, q) PROVE Left(u, q)'
    OBVIOUS
  <2>1. PICK i \in t.todo : At(i).pg = q
    BY DEF Left
  <2>2. i \in u.todo /\ At(i)'.pg = q
    BY <1>4, <1>9, <1>10, <2>1
  <2> QED BY <2>2 DEF Left
<1>15. PlaysBack(c)'
  <2>1. u.todo \subseteq {i \in 1..t.off : At(i)'.kind = "rec"}
    BY <1>2, <1>3, <1>9, <1>10 DEF PlaysBack
  <2>2. \A q \in 1..t.size : db'[q] = K'[q] \/ \E i \in u.todo : i < t.hdr /\ At(i)'.pg = q
    <3> SUFFICES ASSUME NEW q \in 1..t.size, db'[q] # K[q]
                 PROVE  \E i \in u.todo : i < t.hdr /\ At(i).pg = q
      BY <1>10
    <3>1. db'[q] = db[q] /\ t.dbmod
      <4>1. db'[q] = db[q]
        BY <1>3, <1>5, <1>11
      <4>2. ~t.dbmod => db = K
        BY <1>2, <1>3 DEF WriterOf
      <4> QED BY <1>3, <4>1, <4>2
    <3>2. PICK i \in t.todo : i < t.hdr /\ At(i).pg = q
      BY <1>2, <1>3, <3>1 DEF PlaysBack
    <3>3. i # s
      <4> SUFFICES ASSUME i = s PROVE FALSE
        OBVIOUS
      <4>1. q = p /\ s < t.hdr
        BY <1>4, <3>2
      <4>2. db'[p] = v
        BY <1>11, <3>1, <4>1
      <4> QED BY <1>5, <4>1, <4>2
    <3> QED BY <1>9, <3>2, <3>3
  <2>3. \A q \in 1..t.size : cache'[c][q] \in {NoPage, K'[q]} \/ Left(u, q)'
    <3> SUFFICES ASSUME NEW q \in 1..t.size PROVE cache'[c][q] \in {NoPage, K[q]} \/ Left(u, q)'
      BY <1>10
    <3>1. CASE q = p
      BY <1>5, <1>12, <3>1
    <3>2. CASE q # p
      <4>1. cache'[c][q] = cache[c][q]
        BY <1>3, <1>12, <3>2
      <4>2. cache[c][q] \in {NoPage, K[q]} \/ Left(t, q)
        BY <1>2, <1>3 DEF PlaysBack
      <4> QED BY <1>14, <3>2, <4>1, <4>2
    <3> QED BY <3>1, <3>2
  <2>4. cache[c][1] # NoPage /\ (vers[c] = N \/ Left(t, 1))
    BY <1>2, <1>3 DEF PlaysBack
  <2>5. vers'[c] = N' \/ Left(u, 1)'
    <3>1. CASE p = 1
      BY <1>3, <1>5, <1>7, <1>10, <2>4, <3>1
    <3>2. CASE p # 1
      BY <1>7, <1>10, <1>14, <2>4, <3>2
    <3> QED BY <3>1, <3>2
  <2>6. cache'[c][1] # NoPage
    BY <1>3, <1>5, <1>12, <2>4, Bounds
  <2>7. t.dbmod => \A q \in Page : q > t.size => db'[q] = NoPage
    <3>1. \A q \in Page : q > t.size => q # p
      BY <1>3, <1>5, Bounds
    <3> QED BY <1>2, <1>3, <1>11, <3>1 DEF PlaysBack
  <2> QED BY <1>8, <1>9, <2>1, <2>2, <2>3, <2>5, <2>6, <2>7 DEF PlaysBack
<1>16. ~t.dbmod => db' = K
  BY <1>2, <1>3, <1>7 DEF WriterOf
<1>17. WriterOf(c)' /\ Writer(c)'
  BY <1>1, <1>2, <1>3, <1>7, <1>8, <1>9, <1>10, <1>15, <1>16 DEF WriterOf, Writer
<1>18. Acts(c)
  BY DEF Acts
<1> QED BY <1>1, <1>7, <1>8, <1>9, <1>13, <1>17, <1>18, WriterStep

\* All is played back: the file is as the newest commit left it.
LEMMA PlayEndData ==
  ASSUME CalmInv, NEW c \in env.conns, PlayEnd(c), tx[c].goal # "hot"
  PROVE  DataInv'
<1>1. pc[c] = "play" /\ tx[c].todo = {}
  BY DEF PlayEnd
<1>2. PICK t : t = tx[c]
  OBVIOUS
<1>3. /\ Types /\ c \in Conn /\ t \in Tx /\ cache[c] \in Book /\ draw \in Nat /\ t.goal = "rollback"
      /\ Writer(c) /\ WriterOf(c) /\ PlaysBack(c) /\ Journal(c) /\ t.size = Size(K)
      /\ t.size \in Nat /\ 1..t.size \subseteq Page /\ t.dbmod \in BOOLEAN
      /\ K[1].ctr = N /\ K[1] # NoPage
  BY <1>1, <1>2, PlayerHas
<1>4. pc'[c] = "final" /\ UNCHANGED <<mode, journal, db, cache, vers, tx, draw, past, pending>>
  BY <1>3 DEF PlayEnd, Goto, Types
<1>5. K' = K /\ N' = N /\ Size(K)' = Size(K)
  BY <1>4 DEF K, N
<1>6. db = K
  <2>1. CASE ~t.dbmod
    BY <1>2, <1>3, <2>1 DEF WriterOf
  <2>2. CASE t.dbmod
    <3>1. ASSUME NEW p \in Page PROVE db[p] = K[p]
      <4>1. CASE p <= t.size
        <5>1. p \in 1..t.size
          BY <1>3, <4>1, Bounds
        <5> QED BY <1>1, <1>2, <1>3, <5>1 DEF PlaysBack
      <4>2. CASE p > t.size
        <5>1. db[p] = NoPage
          BY <1>2, <1>3, <2>2, <4>2 DEF PlaysBack
        <5>2. K[p] = NoPage
          BY <1>3, <4>2, SizeOK
        <5> QED BY <5>1, <5>2
      <4> QED BY <1>3, <4>1, <4>2, Bounds
    <3>2. db \in Book /\ K \in Book
      BY <1>3, Newest
    <3> QED BY <3>1, <3>2 DEF Book
  <2> QED BY <1>3, <2>1, <2>2
<1>7. RolledBack(c)
  <2>1. \A q : ~Left(t, q)
    BY <1>1, <1>2 DEF Left
  <2> QED BY <1>2, <1>3, <1>6, <2>1 DEF PlaysBack, RolledBack
<1>8. RolledBack(c)'
  BY <1>4, <1>5, <1>7 DEF RolledBack
<1>9. PastOK'
  BY <1>4, PastWaits DEF At
<1>10. WriterOf(c)' /\ Writer(c)'
  BY <1>2, <1>3, <1>4, <1>5, <1>8 DEF WriterOf, Writer
<1>11. Acts(c)
  BY DEF Acts
<1> QED BY <1>2, <1>3, <1>4, <1>9, <1>10, <1>11, WriterStep

\* Every step keeps what holds of the contents.
LEMMA DataNext ==
  ASSUME CalmInv, Next, ~Disturbed PROVE DataInv'
<1>1. env' = env /\ Step /\ ~PowerLoss
  BY DEF Next, Disturbed
<1>2. PICK c \in env.conns :
       \/ Share(c) \/ HotExists(c) \/ HotReserved(c) \/ HotRead(c) \/ HotLock(c)
       \/ HotBusy(c) \/ BackOff(c) \/ HotOpen(c) \/ Validate(c) \/ EndRead(c)
       \/ Reserve(c) \/ Commit(c) \/ Excl(c) \/ ExclBusy(c) \/ ClearNext(c)
       \/ FirstSync(c) \/ WriteNRec(c) \/ JournalSync(c) \/ NewHeader(c) \/ StorePage(c)
       \/ DbSync(c) \/ Rollback(c) \/ PlayPage(c) \/ PlayEnd(c) \/ EndUnchanged(c)
       \/ Final(c) \/ FinSync(c) \/ CommitFails(c) \/ Error(c) \/ Unlock(c) \/ Crash(c)
       \/ \E p \in Page : Read(c, p) \/ Modify(c, p) \/ Spill(c, p)
  BY <1>1 DEF Step
<1>3. CASE \E p \in Page : Read(c, p) \/ Modify(c, p) \/ Spill(c, p)
  BY <1>3, ReadData, ModifyData, SpillData
<1>4. CASE HotReserved(c)
  <2>1. CheckReservedLock(c) => ~Hot
    BY <1>4 DEF Disturbed
  <2> QED BY <1>4, <2>1, LookData
<1>5. CASE \/ Share(c) \/ HotExists(c) \/ HotRead(c) \/ HotLock(c)
           \/ HotBusy(c) \/ BackOff(c) \/ HotOpen(c) \/ Validate(c) \/ EndRead(c) \/ Unlock(c)
  BY <1>5, ShareData, LookData, HotReadData, HotOpenData, ValidateData, UnlockData
<1>6. CASE \/ Reserve(c) \/ Commit(c) \/ Excl(c) \/ ExclBusy(c) \/ ClearNext(c)
           \/ FirstSync(c) \/ WriteNRec(c) \/ JournalSync(c) \/ NewHeader(c) \/ StorePage(c)
  BY <1>6, ReserveData, CommitData, ExclData, ExclBusyData, ClearNextData,
     FirstSyncData, WriteNRecData, JournalSyncData, NewHeaderData, StorePageData
<1>7. CASE DbSync(c) \/ Rollback(c) \/ CommitFails(c)
  BY <1>7, DbSyncData, StartRollbackData
<1>8. CASE PlayPage(c) \/ PlayEnd(c)
  BY <1>8, PlayPageData, PlayHotData, PlayEndData, PlayEndHotData
<1>9. CASE EndUnchanged(c) \/ Final(c) \/ FinSync(c) \/ Error(c) \/ Crash(c)
  BY <1>9, EndUnchangedData, FinalData, FinSyncData, ErrorData, CrashData
<1> QED BY <1>2, <1>3, <1>4, <1>5, <1>6, <1>7, <1>8, <1>9

\* Where nothing happens, nothing changes.
LEMMA CalmStutters ==
  ASSUME CalmInv, UNCHANGED vars
  PROVE  CalmInv'
<1>1. UNCHANGED <<env, mode, jrnl, jpend, older, db, dpend, pc, cache, vers, tx, draw, past, pending>>
  BY DEF vars
<1>2. LockInv'
  BY <1>1 DEF CalmInv, LockInv, Types, SharedOK, JrnlOK, DbOK, At, OneWriter, Writer, LockAt, Lone
<1>3. K' = K /\ N' = N /\ Size(K)' = Size(K) /\ (Hot' <=> Hot) /\ Restored(jrnl, db)' = Restored(jrnl, db)
      /\ Play' = Play /\ (\A s : At(s)' = At(s)) /\ \A p : Of(p)' = Of(p)
  BY <1>1 DEF K, N, Hot, Play, At, Of
<1>4. JournalInv'
  <2>1. Drawn'
    BY <1>1, <1>3 DEF CalmInv, JournalInv, Drawn
  <2>2. ASSUME NEW c \in Conn, Writer(c)', pc'[c] # "finsync" PROVE JournalOf(c)'
    <3>1. JournalOf(c)
      BY <1>1, <2>2 DEF CalmInv, JournalInv, Writer
    <3> QED BY <1>1, <3>1, JournalOfStays
  <2> QED BY <2>1, <2>2 DEF JournalInv
<1>5. DataInv'
  <2>1. PastOK'
    BY <1>1, <1>3 DEF CalmInv, DataInv, PastOK
  <2>2. (\A c \in Conn : ~Writer(c)') => (Restored(jrnl, db) = K)' \/ Unsettled'
    BY <1>1, <1>3 DEF CalmInv, DataInv, Writer, Unsettled
  <2>3. ASSUME NEW c \in Conn, Writer(c)' PROVE WriterOf(c)'
    <3>1. WriterOf(c) /\ Stays(c)
      BY <1>1, <2>3 DEF CalmInv, DataInv, Writer, Stays
    <3> QED BY <3>1, WriterOfStays
  <2>4. ASSUME NEW c \in Conn PROVE OtherOf(c)'
    <3>1. OtherOf(c)
      BY DEF CalmInv, DataInv
    <3>2. (Cached(c) => Cached(c)') /\ (Current(c) => Current(c)') /\ (PlaysHot(c) => PlaysHot(c)')
      BY <1>1, <1>3 DEF Cached, Current, PlaysHot
    <3> QED BY <1>1, <1>3, <3>1, <3>2 DEF OtherOf, Writer
  <2> QED BY <2>1, <2>2, <2>3, <2>4 DEF DataInv
<1> QED BY <1>2, <1>4, <1>5 DEF CalmInv

\* At first there is a database without a journal, and nobody has opened it.
LEMMA CalmStarts ==
  ASSUME Init PROVE CalmInv
<1>1. /\ env \in Environments /\ mode = [c \in Conn |-> 0] /\ jrnl = NoFile /\ jpend = [s \in Slot |-> {Nothing}]
      /\ db = First /\ dpend = [p \in Page |-> {First[p]}] /\ pc = [c \in Conn |-> "idle"]
      /\ cache = [c \in Conn |-> [p \in Page |-> NoPage]] /\ vers = [c \in Conn |-> 0]
      /\ tx = [c \in Conn |-> NoTx] /\ draw = 1 /\ past = <<First>>
  BY DEF Init, L!Init
<1>2. env.orig \in 1..env.pages /\ env.pages \in 1..NPage /\ env.orig \in Nat /\ env.orig >= 1
  <2>1. env.orig \in 1..env.pages /\ env.pages \in 1..NPage
    BY <1>1, RollbackJournalAssumption
  <2> QED BY <2>1, Bounds
<1>3. /\ First \in Book /\ First[1].ctr = 1 /\ \A p \in Page \ {1} : First[p].ctr = 0
  <2>1. \A p \in Page : /\ First[p] \in PageOK /\ First[p].ctr = IF p = 1 THEN 1 ELSE 0
    <3> SUFFICES ASSUME NEW p \in Page PROVE First[p] \in PageOK /\ First[p].ctr = IF p = 1 THEN 1 ELSE 0
      OBVIOUS
    <3>1. CASE p > env.orig
      <4>1. First[p] = NoPage /\ p # 1
        BY <1>2, <3>1, Bounds DEF First
      <4> QED BY <4>1, Blanks
    <3>2. CASE ~(p > env.orig)
      <4>1. First[p] = [ver |-> 1, ctr |-> IF p = 1 THEN 1 ELSE 0]
        BY <3>2 DEF First
      <4> QED BY <4>1, Bounds DEF PageOK
    <3> QED BY <3>1, <3>2
  <2>2. First = [p \in Page |-> First[p]]
    BY DEF First
  <2> QED BY <2>1, <2>2, Bounds DEF Book
<1>4. \A s \in Slot : At(s) = Nothing /\ jpend[s] = {Nothing}
  BY <1>1 DEF At, NoFile
<1>5. Types
  <2>1. JrnlOK
    <3>1. jrnl \in [on : BOOLEAN, at : [Slot -> SlotOK]]
      BY <1>1, Blanks DEF NoFile
    <3>2. jpend \in [Slot -> SUBSET (SlotOK \cup {Torn})]
      BY <1>1, Blanks
    <3> QED BY <1>4, <3>1, <3>2 DEF JrnlOK
  <2>2. DbOK
    <3>1. \A p \in Page : First[p] \in PageOK
      BY <1>3 DEF Book
    <3>2. dpend \in [Page -> SUBSET (PageOK \cup {TornPage})] /\ \A p \in Page : db[p] \in dpend[p]
      BY <1>1, <3>1
    <3> QED BY <1>1, <1>3, <3>2 DEF DbOK
  <2>3. cache \in [Conn -> Book] /\ vers \in [Conn -> 0..MaxVer] /\ draw \in 1..MaxVer
    BY <1>1, Blanks, Bounds
  <2>4. past \in Seq(Book) /\ past # <<>>
    BY <1>1, <1>3
  <2>5. mode \in [Conn -> 0..4] /\ pc \in [Conn -> PC] /\ tx \in [Conn -> Tx]
    BY <1>1, Blanks
  <2> QED BY <1>1, <2>1, <2>2, <2>3, <2>4, <2>5 DEF Types, SharedOK
<1>6. \A c \in Conn : ~Writer(c) /\ tx[c] = NoTx /\ pc[c] = "idle" /\ mode[c] = 0
  BY <1>1, Blanks DEF Writer
<1>7. LockInv
  <2>1. \A c \in Conn : Holds(pc[c], mode[c], tx[c]) /\ Does(pc[c], tx[c])
    BY <1>6 DEF Holds, Does, NoTx
  <2>2. \A c \in Conn : LockAt(c)
    BY <1>6, <2>1 DEF LockAt
  <2> QED BY <1>5, <1>6, <2>2 DEF LockInv, OneWriter
<1>8. JournalInv
  BY <1>4, <1>6 DEF JournalInv, Drawn
<1>9. K = First /\ N = 1
  BY <1>1 DEF K, N
<1>10. DataInv
  <2>1. PastOK
    <3>1. \A i \in 1..Len(past) : past[i][1].ctr = i /\ \A p \in Page \ {1} : past[i][p].ctr = 0
      BY <1>1, <1>3
    <3>2. \A p \in Page \ {1} : db[p].ctr = 0 /\ \A c \in Conn : cache[c][p].ctr = 0
      BY <1>1, <1>3, Blanks
    <3>3. \A s \in Slot : At(s).kind # "rec"
      BY <1>4, Blanks
    <3> QED BY <1>1, <1>9, <3>1, <3>2, <3>3 DEF PastOK
  <2>2. ~Hot /\ Restored(jrnl, db) = K
    BY <1>1, <1>9 DEF Hot, Restored, NoFile
  <2>3. \A c \in Conn : OtherOf(c)
    BY <1>1, <1>6, Blanks DEF OtherOf, Cached
  <2> QED BY <1>6, <2>1, <2>2, <2>3 DEF DataInv
<1> QED BY <1>7, <1>8, <1>10 DEF CalmInv

\* The three parts hold together, from the start and through every step but those.
THEOREM CalmAlways == CalmSpec => []CalmInv
<1>1. Init => CalmInv
  BY CalmStarts
<1>2. CalmInv /\ [Next /\ ~Disturbed]_vars => CalmInv'
  <2> SUFFICES ASSUME CalmInv, [Next /\ ~Disturbed]_vars PROVE CalmInv'
    OBVIOUS
  <2>1. CASE Next /\ ~Disturbed
    <3>1. LockInv'
      BY <2>1, LockNext
    <3>2. JournalInv'
      BY <2>1, <3>1, JournalNext
    <3>3. DataInv'
      BY <2>1, DataNext
    <3> QED BY <3>1, <3>2, <3>3 DEF CalmInv
  <2>2. CASE UNCHANGED vars
    BY <2>2, CalmStutters
  <2> QED BY <2>1, <2>2
<1> QED BY <1>1, <1>2, PTL DEF CalmSpec

(***************************************************************************)
(* What follows: the properties of RollbackJournal.                        *)
(***************************************************************************)
\* The pages in a journal were there before the transaction.
Originals == \A c \in Conn : tx[c].inJournal \subseteq 1..tx[c].size

\* Whoever ends a transaction does not add to its journal.
LEMMA EndingKeeps ==
  ASSUME Types, NEW c \in Conn, Acts(c), pc'[c] \in Ending
  PROVE  \/ tx'[c].inJournal = tx[c].inJournal /\ tx'[c].size = tx[c].size
         \/ tx'[c].inJournal = {}
<1>1. tx[c] \in Tx /\ tx \in [Conn -> Tx] /\ pc \in [Conn -> PC]
  BY DEF Types
<1> USE DEF Goto
<1>2. CASE tx' = tx
  BY <1>2
<1>3. CASE HotOpen(c)
  <2>1. CASE jrnl.on
    <3>1. tx'[c] = [NoTx EXCEPT !.goal = "hot", !.todo = Played(jrnl, 0),
                      !.dbmod = TRUE, !.hdr = MaxSlot + 1, !.off = IF Hot THEN 1 ELSE 0]
      <4>1. tx' = [tx EXCEPT ![c] = [NoTx EXCEPT !.goal = "hot", !.todo = Played(jrnl, 0),
                      !.dbmod = TRUE, !.hdr = MaxSlot + 1, !.off = IF Hot THEN 1 ELSE 0]]
        BY <1>3, <2>1 DEF HotOpen
      <4> QED BY <1>1, <4>1
    <3>2. tx'[c].inJournal = {}
      BY <3>1 DEF NoTx
    <3> QED BY <3>2
  <2> QED BY <1>2, <1>3, <2>1 DEF HotOpen
<1>4. CASE Rollback(c) \/ CommitFails(c) \/ PlayPage(c)
  <2>1. PICK t \in Tx : t = tx[c]
    BY <1>1
  <2>2. CASE PlayPage(c)
    <3>1. PICK w : tx' = [tx EXCEPT ![c].todo = w]
      BY <2>2 DEF PlayPage
    <3>2. tx' = [tx EXCEPT ![c] = [t EXCEPT !.todo = w]]
      BY <2>1, <3>1, TxOne
    <3>3. tx'[c] = [t EXCEPT !.todo = w]
      BY <1>1, <3>2
    <3> QED BY <2>1, <3>3, TxFields
  <2>3. CASE Rollback(c) \/ CommitFails(c)
    <3>1. PICK w : tx' = [tx EXCEPT ![c].goal = "rollback", ![c].todo = w]
      BY <2>3 DEF Rollback, CommitFails, StartRollback
    <3>2. tx' = [tx EXCEPT ![c] = [t EXCEPT !.goal = "rollback", !.todo = w]]
      BY <2>1, <3>1, TxOne
    <3>3. tx'[c] = [t EXCEPT !.goal = "rollback", !.todo = w]
      BY <1>1, <3>2
    <3> QED BY <2>1, <3>3, TxFields
  <2> QED BY <1>4, <2>2, <2>3
<1>5. CASE EndUnchanged(c) \/ Final(c) \/ FinSync(c)
  <2>1. EndTransaction(c) => pc'[c] \notin Ending
    BY <1>1 DEF EndTransaction
  <2> QED BY <1>2, <1>5, <2>1 DEF EndUnchanged, Final, FinSync
<1>6. ~(Reserve(c) \/ Commit(c) \/ ExclBusy(c) \/ JournalSync(c) \/ NewHeader(c) \/ StorePage(c) \/ Error(c))
  BY <1>1 DEF Reserve, Commit, ExclBusy, JournalSync, NewHeader, StorePage, Error
<1>7. ~\E p \in Page : Modify(c, p) \/ Spill(c, p)
  BY <1>1 DEF Modify, Spill
<1>8. CASE \/ Share(c) \/ HotExists(c) \/ HotReserved(c) \/ HotRead(c) \/ HotLock(c)
           \/ HotBusy(c) \/ BackOff(c) \/ Validate(c) \/ EndRead(c) \/ Unlock(c)
           \/ \E p \in Page : Read(c, p)
  BY <1>2, <1>8 DEF Share, HotExists, HotReserved, HotRead, HotLock, HotBusy, BackOff, Validate, EndRead, Unlock, Read
<1>9. CASE \/ Excl(c) \/ ClearNext(c) \/ FirstSync(c) \/ WriteNRec(c) \/ DbSync(c) \/ PlayEnd(c)
  BY <1>2, <1>9 DEF Excl, ClearNext, FirstSync, WriteNRec, DbSync, PlayEnd
<1> QED BY <1>3, <1>4, <1>5, <1>6, <1>7, <1>8, <1>9 DEF Acts

\* A step is one of a connection, or its process ends.
LEMMA StepIs ==
  ASSUME CalmInv, Next, ~Disturbed
  PROVE  env' = env /\ \E c \in env.conns : c \in Conn /\ (Acts(c) \/ Crash(c))
<1>1. env' = env /\ Step /\ ~PowerLoss
  BY DEF Next, Disturbed
<1>2. \E c \in env.conns : Acts(c) \/ Crash(c)
  BY <1>1, Zenon DEF Step, Acts
<1> QED BY <1>1, <1>2, Entry

LEMMA OriginalsStay ==
  ASSUME CalmInv, CalmInv', Originals, Next, ~Disturbed
  PROVE  Originals'
<1>1. PICK c \in env.conns : c \in Conn /\ (Acts(c) \/ Crash(c))
  BY StepIs
<1>2. Types /\ Types'
  BY DEF CalmInv, LockInv
<1> SUFFICES ASSUME NEW d \in Conn PROVE tx'[d].inJournal \subseteq 1..tx'[d].size
  BY DEF Originals
<1>3. tx[d].inJournal \subseteq 1..tx[d].size
  BY DEF Originals
<1>4. tx'[d] \in Tx /\ Does(pc'[d], tx'[d]) /\ pc'[d] \in PC
  <2>1. LockAt(d)'
    BY DEF CalmInv, LockInv
  <2> QED BY <1>2, <2>1 DEF Types, LockAt
<1>5. CASE pc'[d] \in Waiting
  BY <1>4, <1>5 DEF Does, NoTx
<1>6. CASE Writer(d)' /\ pc'[d] # "finsync"
  <2>1. JournalOf(d)'
    BY <1>6 DEF CalmInv, JournalInv
  <2>2. \A p \in tx'[d].inJournal : p <= tx'[d].size
    BY <2>1 DEF JournalOf, Journal, NotOpened
  <2>3. tx'[d].inJournal \subseteq Page /\ tx'[d].size \in Nat
    BY <1>4, Bounds DEF Tx
  <2> QED BY <2>2, <2>3, Bounds
<1>7. CASE Acts(c) /\ pc'[d] \in Ending
  <2>1. CASE d = c
    <3>1. \/ tx'[d].inJournal = tx[d].inJournal /\ tx'[d].size = tx[d].size
          \/ tx'[d].inJournal = {}
      BY <1>2, <1>7, <2>1, EndingKeeps
    <3> QED BY <1>3, <3>1
  <2>2. CASE d # c
    <3>1. tx'[d] = tx[d]
      BY <1>1, <1>2, <1>7, <2>2, ActsApart DEF Apart
    <3> QED BY <1>3, <3>1
  <2> QED BY <2>1, <2>2
<1>8. CASE Crash(c)
  <2>1. tx'[d] = tx[d] \/ tx'[d] = NoTx
    BY <1>8 DEF Crash, Ended
  <2> QED BY <1>3, <2>1 DEF NoTx
<1>9. pc'[d] \in Opening \cup Storing => Writer(d)' /\ pc'[d] # "finsync"
  BY <1>4 DEF Does, Writer
<1> QED BY <1>1, <1>4, <1>5, <1>6, <1>7, <1>8, <1>9

\* Only a connection keeps the journal it has played back.
LEMMA FoundStays ==
  ASSUME found \subseteq Conn, CalmInv, Next, ~Disturbed
  PROVE  found' \subseteq Conn
<1>1. PICK c \in env.conns : c \in Conn /\ (Acts(c) \/ Crash(c))
  BY StepIs
<1>2. CASE HotOpen(c)
  BY <1>1, <1>2 DEF HotOpen
<1>3. CASE EndRead(c) \/ Unlock(c) \/ Crash(c)
  BY <1>3 DEF EndRead, Unlock, Crash, Ended
<1>4. CASE EndUnchanged(c) \/ Final(c) \/ FinSync(c)
  <2>1. EndTransaction(c) \/ found' = found
    BY <1>4 DEF EndUnchanged, Final, FinSync
  <2> QED BY <2>1 DEF EndTransaction
<1>5. CASE \/ Share(c) \/ HotExists(c) \/ HotReserved(c) \/ HotRead(c) \/ HotLock(c) \/ HotBusy(c)
           \/ BackOff(c) \/ Validate(c) \/ Reserve(c) \/ Commit(c) \/ Excl(c) \/ ExclBusy(c)
  <2>1. found' = found
    BY <1>5 DEF Share, HotExists, HotReserved, HotRead, HotLock, HotBusy, BackOff, Validate, Reserve,
                Commit, Excl, ExclBusy
  <2> QED BY <2>1
<1>6. CASE \/ ClearNext(c) \/ FirstSync(c) \/ WriteNRec(c) \/ JournalSync(c) \/ NewHeader(c)
           \/ StorePage(c) \/ DbSync(c) \/ Rollback(c) \/ CommitFails(c) \/ PlayPage(c) \/ PlayEnd(c)
           \/ Error(c) \/ \E p \in Page : Read(c, p) \/ Modify(c, p) \/ Spill(c, p)
  <2>1. found' = found
    BY <1>6 DEF ClearNext, FirstSync, WriteNRec, JournalSync, NewHeader, StorePage, DbSync, Rollback,
                CommitFails, StartRollback, PlayPage, PlayEnd, Error, Read, Modify, Spill
  <2> QED BY <2>1
<1> QED BY <1>1, <1>2, <1>3, <1>4, <1>5, <1>6 DEF Acts

\* The types of CalmInv are those of the module.
LEMMA CalmTypes ==
  ASSUME CalmInv, Originals, found \subseteq Conn PROVE TypeOK
<1>1. /\ Types /\ JrnlOK /\ DbOK /\ MaxVer \in Nat /\ cache \in [Conn -> Book]
  BY Bounds DEF CalmInv, LockInv, Types, SharedOK
<1>2. PageOK \subseteq Pages /\ TornPage \in Pages
  BY <1>1 DEF PageOK, Pages, TornPage
<1>3. \A v \in SlotOK \cup {Torn} : IsSlot(v)
  <2>1. \A v \in HeaderOK : IsSlot(v)
    BY DEF HeaderOK, IsSlot
  <2>2. \A v \in RecordOK : IsSlot(v)
    BY <1>2 DEF RecordOK, IsSlot
  <2> QED BY <2>1, <2>2 DEF SlotOK, IsSlot
<1>4. mode \in [Conn -> L!NO_LOCK..L!EXCLUSIVE] /\ jrnl.on \in BOOLEAN
  BY <1>1 DEF Types, JrnlOK
<1>5. \A s \in Slot : jrnl.at[s] \in jpend[s] /\ \A v \in jpend[s] : IsSlot(v)
  BY <1>1, <1>3 DEF JrnlOK, At
<1>6. db \in [Page -> Pages] /\ \A p \in Page : db[p] \in dpend[p] /\ dpend[p] \subseteq Pages
  BY <1>1, <1>2 DEF DbOK, Book
<1>7. cache \in [Conn -> [Page -> Pages]]
  BY <1>1, <1>2 DEF Book
<1>8. vers \in [Conn -> 0..MaxVer + 2] /\ draw \in 1..MaxVer
  <2>1. vers \in [Conn -> 0..MaxVer] /\ draw \in 1..MaxVer
    BY <1>1 DEF Types, SharedOK
  <2>2. 0..MaxVer \subseteq 0..MaxVer + 2
    BY <1>1
  <2> QED BY <2>1, <2>2
<1>9. ASSUME NEW c \in Conn
      PROVE  /\ tx[c].dirty \subseteq Page /\ tx[c].needSync \subseteq Page
             /\ tx[c].inJournal \subseteq 1..tx[c].size
             /\ tx[c].hdr \in 0..MaxSlot + 1 /\ tx[c].off \in 0..MaxSlot
  BY <1>1 DEF Types, Tx, Originals
<1> QED BY <1>4, <1>5, <1>6, <1>7, <1>8, <1>9 DEF TypeOK

\* Always: the journal is within its bounds and nobody reads beside a hot one.
THEOREM PagerAlways == CalmSpec => []PagerInvariant
<1>1. Init => Originals
  BY DEF Init, Originals, NoTx
<1>2. CalmInv /\ CalmInv' /\ Originals /\ [Next /\ ~Disturbed]_vars => Originals'
  <2>1. CalmInv /\ CalmInv' /\ Originals /\ Next /\ ~Disturbed => Originals'
    BY OriginalsStay
  <2>2. Originals /\ UNCHANGED vars => Originals'
    BY DEF vars, Originals
  <2> QED BY <2>1, <2>2
<1>3. Init => found \subseteq Conn
  BY DEF Init
<1>4. CalmInv /\ found \subseteq Conn /\ [Next /\ ~Disturbed]_vars => (found \subseteq Conn)'
  <2>1. CalmInv /\ found \subseteq Conn /\ Next /\ ~Disturbed => found' \subseteq Conn
    BY FoundStays
  <2>2. found \subseteq Conn /\ UNCHANGED vars => found' \subseteq Conn
    BY DEF vars
  <2> QED BY <2>1, <2>2
<1>5. CalmInv /\ Originals /\ found \subseteq Conn => PagerInvariant
  <2>1. CalmInv => NoHotJournalWhileReading
    BY DEF CalmInv, DataInv, OtherOf, NoHotJournalWhileReading
  <2> QED BY <2>1, CalmTypes DEF PagerInvariant
<1> QED BY <1>1, <1>2, <1>3, <1>4, <1>5, CalmAlways, PTL DEF CalmSpec

\* Always: what a reader has in its page cache is what the database file holds.
THEOREM CacheAlways == CalmSpec => []CacheIsCurrent
<1>1. CalmInv => CacheIsCurrent
  <2> SUFFICES ASSUME CalmInv, NEW c \in Conn, NEW p \in Page, pc[c] = "read", cache[c][p] # NoPage
               PROVE  cache[c][p] = db[p]
    BY DEF CacheIsCurrent
  <2>1. db = K
    BY ReadsNewest
  <2>2. Current(c)
    BY DEF CalmInv, DataInv, OtherOf
  <2> QED BY <2>1, <2>2 DEF Current
<1> QED BY <1>1, CalmAlways, PTL

\* What OverwritesOnlyJournalled asks of a page that is overwritten.
Overwritten(p) ==
  \/ \A c \in Conn : tx[c].ver = 0 \/ tx[c].goal = "rollback"
  \/ \E c \in Conn : tx[c].ver # 0 /\ p > tx[c].size
  \/ \E s \in Played(jrnl, 0) : /\ jrnl.at[s].pg = p /\ jpend[s] = {jrnl.at[s]}

\* A page is stored once its original is in the part of the journal that is synced.
LEMMA StoresJournalled ==
  ASSUME CalmInv, NEW c \in env.conns, StorePage(c), NEW p \in Page, db'[p] # db[p]
  PROVE  Overwritten(p)
<1>1. Types /\ c \in Conn /\ tx[c] \in Tx /\ pc[c] = "store" /\ Does(pc[c], tx[c])
  BY Entry DEF StorePage
<1>2. Writer(c)
  BY <1>1 DEF Does, Writer
<1>3. p <= tx[c].size => Saved(tx[c], p)
  <2>1. PICK q : q = Min(tx[c].todo)
    OBVIOUS
  <2>2. q \in Page /\ (\A r \in Page \ {q} : db'[r] = db[r]) /\ (q <= tx[c].size => Saved(tx[c], q))
    BY <2>1, StoresNext
  <2> QED BY <2>2
<1>4. CASE p > tx[c].size
  BY <1>1, <1>2, <1>4 DEF Overwritten, Writer
<1>5. CASE ~(p > tx[c].size)
  <2>1. p <= tx[c].size
    BY <1>1, <1>5, Bounds DEF Tx
  <2>2. PICK s \in 1..tx[c].hdr - 1 : At(s).kind = "rec" /\ At(s).pg = p
    BY <1>3, <2>1 DEF Saved
  <2>3. Journal(c) /\ tx[c].hdr # 0
    BY <1>1, <1>2, WriterJournal DEF Does, Writer
  <2>4. jpend[s] = {At(s)}
    BY <2>2, <2>3 DEF Journal
  <2>5. s \in Play
    <3>1. PICK e : e = IF Closed(tx[c]) THEN tx[c].off + 1 ELSE tx[c].hdr
      OBVIOUS
    <3>2. e \in Line /\ e >= tx[c].hdr /\ Play = {i \in 1..e - 1 : At(i).kind = "rec"}
      BY <1>1, <2>3, <3>1, JournalPlays
    <3>3. e \in Nat /\ tx[c].hdr \in Nat
      BY <1>1, <3>2, Bounds DEF Line, Tx
    <3>4. s \in 1..e - 1
      BY <2>2, <3>2, <3>3
    <3> QED BY <2>2, <3>2, <3>4
  <2> QED BY <2>2, <2>4, <2>5 DEF Overwritten, Play, At
<1> QED BY <1>4, <1>5

\* A rollback that begins cuts off what the transaction has appended.
LEMMA CutsAppended ==
  ASSUME CalmInv, NEW c \in env.conns, Rollback(c) \/ CommitFails(c), NEW p \in Page, db'[p] # db[p]
  PROVE  Overwritten(p)
<1>1. Types /\ c \in Conn /\ tx[c] \in Tx /\ Does(pc[c], tx[c]) /\ pc[c] \in Opening \cup Storing
  <2>1. pc[c] \in Opening \cup Storing
    BY DEF Rollback, CommitFails
  <2> QED BY <2>1, Entry
<1>2. tx[c].ver # 0
  BY <1>1 DEF Does
<1>3. TruncateDb(tx[c].size) \/ db' = db
  BY DEF Rollback, CommitFails, StartRollback
<1>4. p > tx[c].size
  BY <1>3 DEF TruncateDb, Truncated, Types, SharedOK, DbOK, Book
<1> QED BY <1>1, <1>2, <1>4 DEF Overwritten

\* Playing back a journal is no transaction's write.
LEMMA PlaysOver ==
  ASSUME CalmInv, NEW c \in env.conns, HotOpen(c) \/ PlayPage(c), NEW p \in Page
  PROVE  Overwritten(p)
<1>1. c \in Conn /\ LockInv /\ Does(pc[c], tx[c]) /\ Holds(pc[c], mode[c], tx[c])
  BY Entry
<1>2. CASE HotOpen(c)
  <2>1. pc[c] = "hotopen"
    BY <1>2 DEF HotOpen
  <2>2. mode[c] = 4 /\ tx[c] = NoTx
    BY <1>1, <2>1 DEF Holds, Does
  <2>3. ~Writer(c) /\ \A d \in Conn \ {c} : ~Writer(d)
    BY <1>1, <2>2, AloneIs, Blanks DEF Writer
  <2> QED BY <2>3 DEF Overwritten, Writer
<1>3. CASE PlayPage(c) /\ tx[c].goal = "hot"
  <2>1. \A d \in Conn : ~Writer(d)
    BY <1>1, <1>3, HotHas
  <2> QED BY <2>1 DEF Overwritten, Writer
<1>4. CASE PlayPage(c) /\ tx[c].goal # "hot"
  <2>1. pc[c] = "play"
    BY <1>4 DEF PlayPage
  <2>2. tx[c].goal = "rollback" /\ Writer(c)
    BY <1>4, <2>1, PlayerHas
  <2>3. \A d \in Conn : tx[d].ver = 0 \/ tx[d].goal = "rollback"
    BY <1>1, <2>2 DEF LockInv, OneWriter, Writer
  <2> QED BY <2>3 DEF Overwritten
<1> QED BY <1>2, <1>3, <1>4

\* Nobody else writes to the database file.
LEMMA OthersWriteNone ==
  ASSUME NEW c \in Conn, Acts(c) \/ Crash(c),
         ~(StorePage(c) \/ Rollback(c) \/ CommitFails(c) \/ HotOpen(c) \/ PlayPage(c))
  PROVE  db' = db
<1>1. CASE \/ Share(c) \/ HotExists(c) \/ HotReserved(c) \/ HotRead(c) \/ HotLock(c)
           \/ HotBusy(c) \/ BackOff(c) \/ Validate(c) \/ EndRead(c) \/ Reserve(c) \/ Crash(c)
  BY <1>1 DEF Share, HotExists, HotReserved, HotRead, HotLock, HotBusy, BackOff, Validate, EndRead, Reserve, Crash
<1>2. CASE \/ Commit(c) \/ Excl(c) \/ ExclBusy(c) \/ ClearNext(c) \/ FirstSync(c) \/ WriteNRec(c)
           \/ JournalSync(c) \/ NewHeader(c) \/ DbSync(c) \/ PlayEnd(c)
  BY <1>2 DEF Commit, Excl, ExclBusy, ClearNext, FirstSync, WriteNRec, JournalSync, NewHeader, DbSync, PlayEnd
<1>3. CASE \/ EndUnchanged(c) \/ Final(c) \/ FinSync(c) \/ Error(c) \/ Unlock(c)
           \/ \E p \in Page : Read(c, p) \/ Modify(c, p) \/ Spill(c, p)
  BY <1>3 DEF EndUnchanged, Final, FinSync, Error, Unlock, Read, Modify, Spill
<1> QED BY <1>1, <1>2, <1>3, Zenon DEF Acts

\* A page of the database file is overwritten only when its original is in a synced
\* part of the journal, when it was not there before, or to put it back.
THEOREM OverwritesAlways == CalmSpec => OverwritesOnlyJournalled
<1>1. ASSUME CalmInv, Next, ~Disturbed, NEW p \in Page, db'[p] # db[p]
      PROVE  Overwritten(p)
  <2>1. PICK c \in env.conns : c \in Conn /\ (Acts(c) \/ Crash(c))
    BY <1>1, StepIs
  <2>2. StorePage(c) \/ Rollback(c) \/ CommitFails(c) \/ HotOpen(c) \/ PlayPage(c)
    BY <1>1, <2>1, OthersWriteNone
  <2> QED BY <1>1, <2>2, StoresJournalled, CutsAppended, PlaysOver
<1>2. CalmInv /\ [Next /\ ~Disturbed]_vars =>
        [\A p \in Page : db'[p] # db[p] /\ pc' # [c \in Conn |-> "idle"] =>
           \/ \A c \in Conn : tx[c].ver = 0 \/ tx[c].goal = "rollback"
           \/ \E c \in Conn : tx[c].ver # 0 /\ p > tx[c].size
           \/ \E s \in Played(jrnl, 0) : /\ jrnl.at[s].pg = p /\ jpend[s] = {jrnl.at[s]}]_vars
  BY <1>1, Zenon DEF Overwritten
<1> QED BY <1>2, CalmAlways, PTL DEF CalmSpec, OverwritesOnlyJournalled

(***************************************************************************)
(* The pager implements SnapshotStore.                                     *)
(***************************************************************************)
Snap == [c \in Conn |-> IF pc[c] = "read" THEN Seen(c) ELSE None]
WriterNow == IF \E c \in Conn : tx[c].ver # 0 THEN CHOOSE c \in Conn : tx[c].ver # 0 ELSE None

\* Every reader sees the newest commit, and there is one writer at most.
StoreInv ==
  /\ Snap = [c \in Conn |-> IF pc[c] = "read" THEN K ELSE None]
  /\ \A c \in Conn : Writer(c) => WriterNow = c
  /\ (\A c \in Conn : ~Writer(c)) => WriterNow = None

LEMMA StoreIs ==
  CalmInv => StoreInv
<1> SUFFICES ASSUME CalmInv PROVE StoreInv
  OBVIOUS
<1>1. ASSUME NEW c \in Conn, pc[c] = "read" PROVE Seen(c) = K
  <2>1. db = K /\ Current(c) /\ K \in Book
    BY <1>1, ReadsNewest, Newest DEF CalmInv, DataInv, OtherOf, LockInv
  <2>2. \A p \in Page : (IF cache[c][p] = NoPage THEN db[p] ELSE cache[c][p]) = K[p]
    BY <2>1 DEF Current
  <2>3. Seen(c) = [p \in Page |-> K[p]]
    BY <2>2 DEF Seen
  <2> QED BY <2>1, <2>3 DEF Book
<1>2. Snap = [c \in Conn |-> IF pc[c] = "read" THEN K ELSE None]
  BY <1>1 DEF Snap
<1>3. ASSUME NEW c \in Conn, Writer(c) PROVE WriterNow = c
  <2>1. \A d \in Conn : tx[d].ver # 0 <=> d = c
    BY <1>3 DEF CalmInv, LockInv, OneWriter, Writer
  <2> QED BY <2>1 DEF WriterNow
<1>4. (\A c \in Conn : ~Writer(c)) => WriterNow = None
  BY DEF WriterNow, Writer
<1> QED BY <1>2, <1>3, <1>4 DEF StoreInv

\* A step of the pager with what holds before and after it.
Taken(c) ==
  /\ CalmInv /\ StoreInv /\ LockInv' /\ StoreInv' /\ env' = env
  /\ c \in env.conns /\ Acts(c)

\* What is known of connection c in such a step.
LEMMA TakenIs ==
  ASSUME NEW c, Taken(c)
  PROVE  /\ Types /\ c \in Conn /\ Does(pc[c], tx[c]) /\ Does(pc'[c], tx'[c]) /\ Holds(pc[c], mode[c], tx[c])
         /\ pc'[c] \in PC /\ Durable' = Durable /\ tx \in [Conn -> Tx] /\ pc \in [Conn -> PC]
         /\ Apart(c) /\ \A d \in Conn \ {c} : (Writer(d)' <=> Writer(d)) /\ pc'[d] = pc[d]
<1>1. CalmInv /\ c \in env.conns /\ Acts(c) /\ LockInv' /\ env' = env
  BY DEF Taken
<1>2. Types /\ c \in Conn /\ Does(pc[c], tx[c]) /\ Holds(pc[c], mode[c], tx[c])
  BY <1>1, Entry
<1>3. Apart(c)
  BY <1>1, <1>2, ActsApart
<1>4. LockAt(c)' /\ pc'[c] \in PC
  BY <1>1, <1>2 DEF LockInv, Types
<1>5. Durable' = Durable
  BY <1>1 DEF Durable, FullSync, ExtraSync
<1> QED BY <1>2, <1>3, <1>4, <1>5 DEF Apart, Writer, LockAt, Types

\* What changes of the store when one connection moves and no commit ends.
LEMMA StoreMoves ==
  ASSUME NEW c, Taken(c), past' = past
  PROVE  /\ Snap' = [Snap EXCEPT ![c] = IF pc'[c] = "read" THEN K ELSE None]
         /\ Snap[c] = IF pc[c] = "read" THEN K ELSE None
         /\ Writer(c)' /\ Writer(c) => WriterNow' = WriterNow
         /\ ~Writer(c)' /\ ~Writer(c) => WriterNow' = WriterNow
<1>1. c \in Conn /\ StoreInv /\ StoreInv' /\ \A d \in Conn \ {c} : (Writer(d)' <=> Writer(d)) /\ pc'[d] = pc[d]
  BY TakenIs DEF Taken
<1>2. K' = K
  BY DEF K
<1>3. Snap[c] = (IF pc[c] = "read" THEN K ELSE None) /\ Snap' = [d \in Conn |-> IF pc'[d] = "read" THEN K ELSE None]
  BY <1>1, <1>2 DEF StoreInv
<1>4. Snap = [d \in Conn |-> IF pc[d] = "read" THEN K ELSE None]
  BY <1>1 DEF StoreInv
<1>5. Snap' = [Snap EXCEPT ![c] = IF pc'[c] = "read" THEN K ELSE None]
  BY <1>1, <1>3, <1>4
<1>6. CASE Writer(c)' /\ Writer(c)
  BY <1>1, <1>3, <1>5, <1>6 DEF StoreInv
<1>7. CASE ~Writer(c)' /\ ~Writer(c)
  <2>1. CASE \E d \in Conn : Writer(d)
    <3>1. PICK d \in Conn : Writer(d)
      BY <2>1
    <3>2. Writer(d)'
      BY <1>1, <1>7, <3>1
    <3> QED BY <1>1, <1>3, <1>5, <1>7, <3>1, <3>2 DEF StoreInv
  <2>2. CASE \A d \in Conn : ~Writer(d)
    <3>1. \A d \in Conn : ~Writer(d)'
      BY <1>1, <1>7, <2>2
    <3> QED BY <1>1, <1>3, <1>5, <1>7, <2>2, <3>1 DEF StoreInv
  <2> QED BY <2>1, <2>2
<1> QED BY <1>3, <1>5, <1>6, <1>7

LEMMA StoreStutters ==
  ASSUME NEW c, Taken(c), UNCHANGED history, pc'[c] = "read" <=> pc[c] = "read", Writer(c)' <=> Writer(c)
  PROVE  UNCHANGED Store!vars
<1>1. /\ Snap' = [Snap EXCEPT ![c] = IF pc'[c] = "read" THEN K ELSE None]
      /\ Snap[c] = (IF pc[c] = "read" THEN K ELSE None) /\ WriterNow' = WriterNow
  BY StoreMoves
<1>2. Snap' = Snap
  BY <1>1 DEF Snap
<1> QED BY <1>1, <1>2, TakenIs DEF Store!vars, Snap, WriterNow

\* A content of the database file with the counter of its commit is one of the store.
LEMMA IsContent ==
  ASSUME Types, PastOK, NEW n \in 1..MaxVer, db[1].ctr = n
  PROVE  db \in Content
<1>1. db \in Book /\ \A p \in Page \ {1} : db[p].ctr = 0
  BY Newest DEF PastOK
<1>2. ASSUME NEW p \in Page PROVE db[p] = [ver |-> db[p].ver, ctr |-> IF p = 1 THEN n ELSE 0] /\ db[p].ver \in 0..MaxVer
  BY <1>1 DEF Book, PageOK
<1> DEFINE v == [p \in Page |-> db[p].ver]
<1>3. v \in [Page -> 0..MaxVer]
  BY <1>2
<1>4. \A p \in Page : db[p] = [ver |-> v[p], ctr |-> IF p = 1 THEN n ELSE 0]
  BY <1>2
<1>5. db = [p \in Page |-> db[p]]
  BY <1>1 DEF Book
<1>6. db = [p \in Page |-> [ver |-> v[p], ctr |-> IF p = 1 THEN n ELSE 0]]
  BY <1>4, <1>5
<1> HIDE DEF v
<1> QED BY <1>3, <1>6 DEF Content

\* A commit that ends, or that is found, is one of contents the store may have.
LEMMA NextContent ==
  ASSUME CalmInv, db[1].ctr = N + 1, N < draw
  PROVE  db \in Content
<1>1. Types /\ PastOK /\ N \in Nat /\ N >= 1 /\ draw \in 1..MaxVer /\ MaxVer \in Nat
  BY Newest, Bounds DEF CalmInv, LockInv, DataInv, Types, SharedOK
<1>2. N + 1 \in 1..MaxVer
  BY <1>1
<1> QED BY <1>1, <1>2, IsContent

LEMMA ValidateStore ==
  ASSUME NEW c, Taken(c), Validate(c)
  PROVE  Store!Next
<1>1. c \in Conn /\ pc[c] = "validate" /\ pc'[c] = "read" /\ UNCHANGED history /\ tx' = tx
  BY TakenIs DEF Validate, Goto
<1>2. ~Writer(c) /\ ~Writer(c)'
  BY <1>1, TakenIs, Blanks DEF Does, Writer
<1>3. Snap[c] = None /\ Snap' = [Snap EXCEPT ![c] = K] /\ WriterNow' = WriterNow
  BY <1>1, <1>2, StoreMoves
<1>4. WriterNow # c
  <2>1. CASE \E d \in Conn : Writer(d)
    BY <1>2, <2>1 DEF Taken, StoreInv
  <2>2. CASE \A d \in Conn : ~Writer(d)
    BY <1>1, <2>2, RollbackJournalAssumption DEF Taken, StoreInv
  <2> QED BY <2>1, <2>2
<1>5. Store!Begin(c)
  BY <1>1, <1>3, <1>4 DEF Store!Begin, Store!Current, Snap, WriterNow, K
<1> QED BY <1>1, <1>5, TakenIs DEF Store!Next, Store!Step

LEMMA EndReadStore ==
  ASSUME NEW c, Taken(c), EndRead(c)
  PROVE  Store!Next
<1>1. c \in Conn /\ pc[c] = "read" /\ pc'[c] = "idle" /\ UNCHANGED history /\ tx' = tx
  BY TakenIs DEF EndRead, Goto
<1>2. ~Writer(c) /\ ~Writer(c)'
  BY <1>1, TakenIs, Blanks DEF Does, Writer
<1>3. Snap[c] = K /\ Snap' = [Snap EXCEPT ![c] = None] /\ WriterNow' = WriterNow
  BY <1>1, <1>2, StoreMoves
<1>4. K # None
  BY TakenIs, Newest, RollbackJournalAssumption DEF Book, PageOK, Page
<1>5. Store!End(c)
  BY <1>1, <1>3, <1>4 DEF Store!End, Snap, WriterNow
<1> QED BY <1>1, <1>5, TakenIs DEF Store!Next, Store!Step

LEMMA ReserveStore ==
  ASSUME NEW c, Taken(c), Reserve(c)
  PROVE  Store!Next
<1>1. c \in Conn /\ pc[c] = "read" /\ pc'[c] = "write" /\ UNCHANGED history
  BY TakenIs DEF Reserve, Goto
<1>2. Writer(c)'
  BY <1>1, TakenIs DEF Does, Writer
<1>3. \A d \in Conn : ~Writer(d)
  <2>1. ~Writer(c)
    BY <1>1, TakenIs, Blanks DEF Does, Writer
  <2>2. \A d \in Conn \ {c} : ~Writer(d)
    <3>1. ASSUME NEW d \in Conn \ {c}, Writer(d) PROVE FALSE
      <4>1. Writer(d)' /\ OneWriter'
        BY <3>1, TakenIs DEF Taken, LockInv
      <4> QED BY <1>1, <1>2, <3>1, <4>1 DEF OneWriter
    <3> QED BY <3>1
  <2> QED BY <2>1, <2>2
<1>4. Snap[c] = K /\ Snap' = [Snap EXCEPT ![c] = None]
  BY <1>1, StoreMoves
<1>5. WriterNow = None /\ WriterNow' = c
  BY <1>1, <1>2, <1>3 DEF Taken, StoreInv
<1>6. Store!BeginWrite(c)
  BY <1>1, <1>4, <1>5 DEF Store!BeginWrite, Store!Current, Snap, WriterNow, K
<1> QED BY <1>1, <1>6, TakenIs DEF Store!Next, Store!Step

LEMMA DbSyncStore ==
  ASSUME NEW c, Taken(c), DbSync(c)
  PROVE  Store!Next
<1>1. /\ c \in Conn /\ pc[c] = "dbsync" /\ pc'[c] = "final" /\ past' = past /\ tx' = tx
      /\ pending' = pending \cup {<<Len(past), db>>}
  BY TakenIs DEF DbSync, Goto
<1>2. Writer(c) /\ Writer(c)' /\ tx[c].goal = "commit" /\ tx[c].todo = {}
  BY <1>1, TakenIs DEF Does, Writer
<1>3. Snap' = [Snap EXCEPT ![c] = None] /\ Snap[c] = None /\ WriterNow' = WriterNow
  BY <1>1, <1>2, StoreMoves
<1>4. Snap' = Snap
  BY <1>3 DEF Snap
<1>5. WriterNow = c
  BY <1>1, <1>2 DEF Taken, StoreInv
<1>6. db \in Content
  <2>1. CalmInv
    BY DEF Taken
  <2>2. WriterOf(c)
    BY <1>1, <1>2, <2>1 DEF CalmInv, DataInv
  <2>3. Writes(c) /\ N < draw
    BY <1>1, <2>2 DEF WriterOf
  <2>4. db[1].ctr = N + 1
    BY <1>2, <2>3 DEF Writes
  <2> QED BY <2>1, <2>3, <2>4, NextContent
<1>7. Store!Attempt(c)
  BY <1>1, <1>4, <1>5, <1>6 DEF Store!Attempt, Snap, WriterNow
<1> QED BY <1>1, <1>7, TakenIs DEF Store!Next, Store!Step

\* A commit or a rollback ends for its connection alone.
LEMMA EndTransactionStore ==
  ASSUME NEW c, Taken(c), EndTransaction(c), pc[c] \in {"write", "final", "finsync"}, pc[c] = "write" => tx[c].goal = "none"
  PROVE  Store!Next \/ UNCHANGED Store!vars
<1>1. /\ c \in Conn /\ pc'[c] = (IF tx[c].goal = "hot" THEN "validate" ELSE "read") /\ tx'[c] = NoTx
      /\ IF tx[c].goal = "commit"
         THEN past' = Append(past, db) /\ pending' = IF Durable THEN {} ELSE pending
         ELSE UNCHANGED history
  BY TakenIs DEF EndTransaction, Goto
<1>2. ~Writer(c)'
  BY <1>1, Blanks DEF Writer
<1>3. Writer(c) <=> tx[c].goal # "hot"
  BY TakenIs DEF Does, Writer
<1>4. CalmInv /\ StoreInv /\ StoreInv'
  BY DEF Taken
<1>5. CASE tx[c].goal = "hot"
  BY <1>1, <1>2, <1>3, <1>5, StoreStutters
<1>6. CASE tx[c].goal # "hot"
  <2>1. Writer(c) /\ WriterNow = c
    BY <1>1, <1>3, <1>4, <1>6 DEF StoreInv
  <2>2. \A d \in Conn : ~Writer(d)'
    <3>1. \A d \in Conn \ {c} : ~Writer(d)
      BY <1>1, <1>4, <2>1 DEF CalmInv, LockInv, OneWriter
    <3> QED BY <1>1, <1>2, <3>1, TakenIs
  <2>3. WriterNow' = None
    BY <1>4, <2>2 DEF StoreInv
  <2>4. CASE tx[c].goal = "commit"
    <3>1. pc[c] \in {"final", "finsync"}
      BY <2>4
    <3>2. Commits(c) /\ N < draw
      BY <1>1, <1>4, <2>1, <2>4, <3>1 DEF CalmInv, DataInv, WriterOf
    <3>3. db \in Content /\ <<N, db>> \in pending
      BY <1>4, <3>2, NextContent DEF Commits
    <3>4. \A d \in Conn \ {c} : pc[d] # "read" /\ pc'[d] # "read"
      <4>1. mode[c] = 4
        BY <2>4, <3>1, TakenIs DEF Holds
      <4> QED BY <1>1, <1>4, <4>1, AloneIs, TakenIs
    <3>5. K' = db
      BY <1>1, <2>4, TakenIs, Newest DEF K, Types, SharedOK
    <3>6. Snap' = [Snap EXCEPT ![c] = db]
      <4>1. Snap' = [d \in Conn |-> IF pc'[d] = "read" THEN db ELSE None]
        BY <1>4, <3>5 DEF StoreInv
      <4>2. Snap = [d \in Conn |-> IF pc[d] = "read" THEN K ELSE None]
        BY <1>4 DEF StoreInv
      <4> QED BY <1>1, <2>4, <3>4, <4>1, <4>2
    <3>7. Store!Commit(c)
      BY <1>1, <2>1, <2>3, <2>4, <3>3, <3>6 DEF Store!Commit, Snap, WriterNow, N
    <3> QED BY <1>1, <3>7, TakenIs DEF Store!Next, Store!Step
  <2>5. CASE tx[c].goal # "commit"
    <3>1. UNCHANGED history
      BY <1>1, <2>5
    <3>2. Snap' = [Snap EXCEPT ![c] = K]
      BY <1>1, <1>6, <3>1, StoreMoves
    <3>3. Store!Rollback(c)
      BY <2>1, <2>3, <3>1, <3>2 DEF Store!Rollback, Store!Current, Snap, WriterNow, K
    <3> QED BY <1>1, <3>3, TakenIs DEF Store!Next, Store!Step
  <2> QED BY <2>4, <2>5
<1> QED BY <1>5, <1>6

LEMMA EndStore ==
  ASSUME NEW c, Taken(c), EndUnchanged(c) \/ Final(c) \/ FinSync(c)
  PROVE  Store!Next \/ UNCHANGED Store!vars
<1>1. pc[c] \in {"write", "final", "finsync"} /\ (pc[c] = "write" => tx[c].goal = "none")
  BY TakenIs DEF EndUnchanged, Final, FinSync, Does
<1>2. CASE EndTransaction(c)
  BY <1>1, <1>2, EndTransactionStore
<1>3. CASE Final(c) /\ ~EndTransaction(c)
  <2>1. c \in Conn /\ pc[c] = "final" /\ pc'[c] = "finsync" /\ UNCHANGED history /\ tx' = tx
    BY <1>3, TakenIs DEF Final, Goto
  <2> QED BY <2>1, StoreStutters DEF Writer
<1> QED BY <1>2, <1>3 DEF EndUnchanged, FinSync

\* Who fails beyond repair gives its transaction up.
LEMMA ErrorStore ==
  ASSUME NEW c, Taken(c), Error(c)
  PROVE  Store!Next \/ UNCHANGED Store!vars
<1>1. c \in Conn /\ pc[c] # "read" /\ pc'[c] = "error" /\ UNCHANGED history /\ tx'[c] = NoTx
  <2>1. pc[c] = "read" => tx[c] = NoTx
    BY TakenIs DEF Does
  <2> QED BY <2>1, TakenIs, Blanks DEF Error, Goto
<1>2. ~Writer(c)'
  BY <1>1, Blanks DEF Writer
<1>3. CASE ~Writer(c)
  BY <1>1, <1>2, <1>3, StoreStutters
<1>4. CASE Writer(c)
  <2>1. CalmInv /\ StoreInv /\ StoreInv'
    BY DEF Taken
  <2>2. WriterNow = c
    BY <1>1, <1>4, <2>1 DEF StoreInv
  <2>3. \A d \in Conn : ~Writer(d)'
    <3>1. \A d \in Conn \ {c} : ~Writer(d)
      BY <1>1, <1>4, <2>1 DEF CalmInv, LockInv, OneWriter
    <3> QED BY <1>1, <1>2, <3>1, TakenIs
  <2>4. WriterNow' = None
    BY <2>1, <2>3 DEF StoreInv
  <2>5. Snap' = [Snap EXCEPT ![c] = None] /\ Snap[c] = None
    BY <1>1, StoreMoves
  <2>6. Snap' = [d \in Conn |-> IF d \in {c} THEN None ELSE Snap[d]]
    BY <2>5 DEF Snap
  <2>7. Store!Crash({c})
    BY <1>1, <2>2, <2>4, <2>6 DEF Store!Crash, Snap, WriterNow
  <2>8. {c} \in SUBSET Conn
    BY <1>1
  <2> QED BY <2>7, <2>8, TakenIs DEF Store!Next, Store!Step
<1> QED BY <1>3, <1>4

\* Who comes first may find a commit whose process ended before it returned.
LEMMA ShareStore ==
  ASSUME NEW c, Taken(c), Share(c)
  PROVE  Store!Next \/ UNCHANGED Store!vars
<1>1. c \in Conn /\ pc[c] = "idle" /\ pc'[c] = "hot1" /\ tx' = tx
  BY TakenIs DEF Share, Goto
<1>2. (Writer(c)' <=> Writer(c)) /\ CalmInv /\ StoreInv /\ StoreInv'
  BY <1>1 DEF Writer, Taken
<1>3. CASE UNCHANGED history
  BY <1>1, <1>2, <1>3, StoreStutters
<1>4. CASE ~UNCHANGED history
  <2>1. /\ past' = Append(past, Restored(jrnl, db)) /\ pending' = (IF Durable THEN {} ELSE pending)
        /\ Restored(jrnl, db) # K
    BY <1>4 DEF Share, Settle, K
  <2>2. past' # past
    BY <2>1, TakenIs DEF Types, SharedOK
  <2>3. Unsettled /\ past' = Append(past, db)
    <3>1. c \in env.conns /\ Acts(c)
      BY DEF Taken
    <3> QED BY <1>1, <1>2, <2>2, <3>1, PastGrows
  <2>4. \A d \in Conn : pc[d] # "read" /\ pc'[d] # "read" /\ ~Writer(d) /\ ~Writer(d)'
    <3>1. \A d \in Conn : pc[d] \in {"idle", "error"}
      BY <2>3 DEF Unsettled
    <3>2. \A d \in Conn : tx[d] = NoTx
      BY <1>2, <3>1 DEF CalmInv, LockInv, LockAt, Does
    <3> QED BY <1>1, <3>1, <3>2, TakenIs, Blanks DEF Writer
  <2>5. Snap' = Snap /\ WriterNow = None /\ WriterNow' = None
    BY <1>2, <2>4 DEF StoreInv
  <2>6. db \in Content /\ <<N, db>> \in pending
    BY <1>2, <2>3, NextContent DEF Unsettled
  <2>7. Store!Recover
    BY <2>1, <2>3, <2>5, <2>6 DEF Store!Recover, Snap, WriterNow, N
  <2> QED BY <2>7, TakenIs DEF Store!Next, Store!Step
<1> QED BY <1>3, <1>4

\* A process ends with the connections it has.
LEMMA CrashStore ==
  ASSUME CalmInv, StoreInv, StoreInv', NEW c \in env.conns, Crash(c), env' = env
  PROVE  Store!Next
<1>1. PICK D \in SUBSET Conn : Ended(D) /\ UNCHANGED history
  <2>1. c \in Conn
    BY Entry
  <2> QED BY <2>1 DEF Crash
<1>2. /\ \A d \in D : pc'[d] = "idle" /\ ~Writer(d)'
      /\ \A d \in Conn \ D : pc'[d] = pc[d] /\ (Writer(d)' <=> Writer(d))
  BY <1>1, Blanks DEF Ended, Writer
<1>3. K' = K /\ Durable' = Durable
  BY <1>1 DEF K, Durable, FullSync, ExtraSync
<1>4. Snap' = [d \in Conn |-> IF d \in D THEN None ELSE Snap[d]]
  BY <1>2, <1>3 DEF StoreInv
<1>5. WriterNow' = IF WriterNow \in D THEN None ELSE WriterNow
  <2>1. CASE \E d \in Conn : Writer(d)
    <3>1. PICK d \in Conn : Writer(d)
      BY <2>1
    <3>2. WriterNow = d
      BY <3>1 DEF StoreInv
    <3>3. \A e \in Conn \ {d} : ~Writer(e)
      BY <3>1 DEF CalmInv, LockInv, OneWriter
    <3>4. CASE d \in D
      <4>1. \A e \in Conn : ~Writer(e)'
        BY <1>2, <3>3, <3>4
      <4> QED BY <3>2, <3>4, <4>1 DEF StoreInv
    <3>5. CASE d \notin D
      <4>1. Writer(d)'
        BY <1>2, <3>1, <3>5
      <4> QED BY <3>2, <3>5, <4>1 DEF StoreInv
    <3> QED BY <3>4, <3>5
  <2>2. CASE \A d \in Conn : ~Writer(d)
    <3>1. \A d \in Conn : ~Writer(d)'
      BY <1>2, <2>2
    <3>2. WriterNow = None /\ WriterNow' = None
      BY <2>2, <3>1 DEF StoreInv
    <3> QED BY <3>2
  <2> QED BY <2>1, <2>2
<1>6. Store!Crash(D)
  BY <1>1, <1>4, <1>5 DEF Store!Crash, Snap, WriterNow
<1> QED BY <1>3, <1>6 DEF Store!Next, Store!Step

\* The steps that the store does not see.
LEMMA QuietStore ==
  ASSUME NEW c, Taken(c),
         \/ HotExists(c) \/ HotReserved(c) \/ HotRead(c) \/ HotLock(c) \/ HotBusy(c) \/ BackOff(c)
         \/ HotOpen(c) \/ Unlock(c) \/ Excl(c) \/ ExclBusy(c) \/ ClearNext(c) \/ FirstSync(c) \/ WriteNRec(c)
         \/ JournalSync(c) \/ NewHeader(c) \/ StorePage(c) \/ Commit(c)
         \/ Rollback(c) \/ CommitFails(c) \/ PlayPage(c) \/ PlayEnd(c)
         \/ \E p \in Page : Read(c, p) \/ Modify(c, p) \/ Spill(c, p)
  PROVE  UNCHANGED Store!vars
<1>1. /\ c \in Conn /\ Does(pc[c], tx[c]) /\ Does(pc'[c], tx'[c]) /\ tx \in [Conn -> Tx] /\ pc \in [Conn -> PC]
      /\ pc'[c] \in PC
  BY TakenIs
<1> USE DEF Goto
<1>2. CASE \E p \in Page : Read(c, p)
  <2>1. UNCHANGED <<pc, tx, past, pending>>
    BY <1>2 DEF Read
  <2> QED BY <2>1, StoreStutters DEF Writer
<1>3. CASE \/ HotExists(c) \/ HotReserved(c) \/ HotRead(c) \/ HotLock(c) \/ HotBusy(c) \/ BackOff(c) \/ Unlock(c)
  <2>1. UNCHANGED <<tx, past, pending>> /\ pc[c] # "read" /\ pc'[c] # "read"
    BY <1>1, <1>3 DEF HotExists, HotReserved, HotRead, HotLock, HotBusy, BackOff, Unlock
  <2> QED BY <2>1, StoreStutters DEF Writer
<1>4. CASE HotOpen(c)
  <2>1. UNCHANGED history /\ pc[c] = "hotopen" /\ pc'[c] \in {"validate", "play"}
    BY <1>1, <1>4 DEF HotOpen
  <2>2. ~Writer(c)
    BY <1>1, <2>1, Blanks DEF Does, Writer
  <2>3. ~Writer(c)'
    <3>1. CASE jrnl.on
      <4>1. tx' = [tx EXCEPT ![c] = [NoTx EXCEPT !.goal = "hot", !.todo = Played(jrnl, 0),
                      !.dbmod = TRUE, !.hdr = MaxSlot + 1, !.off = IF Hot THEN 1 ELSE 0]]
        BY <1>4, <3>1 DEF HotOpen
      <4>2. tx'[c] = [NoTx EXCEPT !.goal = "hot", !.todo = Played(jrnl, 0),
                      !.dbmod = TRUE, !.hdr = MaxSlot + 1, !.off = IF Hot THEN 1 ELSE 0]
        BY <1>1, <4>1
      <4>3. tx'[c].ver = 0
        BY <4>2 DEF NoTx
      <4> QED BY <4>3 DEF Writer
    <3>2. CASE ~jrnl.on
      <4>1. tx' = tx
        BY <1>4, <3>2 DEF HotOpen
      <4> QED BY <2>2, <4>1 DEF Writer
    <3> QED BY <3>1, <3>2
  <2> QED BY <2>1, <2>2, <2>3, StoreStutters
<1>5. CASE \/ Excl(c) \/ ExclBusy(c) \/ ClearNext(c) \/ FirstSync(c) \/ WriteNRec(c)
           \/ JournalSync(c) \/ NewHeader(c) \/ StorePage(c) \/ Commit(c)
           \/ \E p \in Page : Modify(c, p) \/ Spill(c, p)
  <2>1. UNCHANGED history /\ pc[c] \in Opening \cup Storing /\ pc'[c] \in Opening \cup Storing
    <3>1. CASE Excl(c) \/ ExclBusy(c) \/ ClearNext(c) \/ FirstSync(c) \/ WriteNRec(c)
      BY <1>1, <3>1 DEF Excl, ExclBusy, ClearNext, FirstSync, WriteNRec
    <3>2. CASE JournalSync(c) \/ NewHeader(c) \/ StorePage(c)
      BY <1>1, <3>2 DEF JournalSync, NewHeader, StorePage
    <3>3. CASE Commit(c) \/ \E p \in Page : Modify(c, p) \/ Spill(c, p)
      BY <1>1, <3>3 DEF Commit, Modify, Spill
    <3> QED BY <1>5, <3>1, <3>2, <3>3
  <2>2. Writer(c) /\ Writer(c)'
    BY <1>1, <2>1 DEF Does, Writer
  <2> QED BY <2>1, <2>2, StoreStutters
<1>6. CASE Rollback(c) \/ CommitFails(c)
  <2>1. UNCHANGED history /\ pc[c] \in Opening \cup Storing /\ pc'[c] = "play"
    BY <1>1, <1>6 DEF Rollback, CommitFails, StartRollback
  <2>2. PICK w : tx' = [tx EXCEPT ![c].goal = "rollback", ![c].todo = w]
    BY <1>6 DEF Rollback, CommitFails, StartRollback
  <2>3. tx'[c].goal = "rollback"
    BY <1>1, <2>2 DEF Tx
  <2>4. Writer(c) /\ Writer(c)'
    BY <1>1, <2>1, <2>3 DEF Does, Writer
  <2> QED BY <2>1, <2>4, StoreStutters
<1>7. CASE PlayPage(c)
  <2>1. UNCHANGED history /\ pc[c] = "play" /\ pc' = pc
    BY <1>7 DEF PlayPage
  <2>2. PICK w : tx' = [tx EXCEPT ![c].todo = w]
    BY <1>7 DEF PlayPage
  <2>3. tx'[c].ver = tx[c].ver
    BY <1>1, <2>2 DEF Tx
  <2> QED BY <2>1, <2>3, StoreStutters DEF Writer
<1>8. CASE PlayEnd(c)
  <2>1. UNCHANGED history /\ pc[c] = "play" /\ pc'[c] = "final" /\ tx' = tx
    BY <1>1, <1>8 DEF PlayEnd
  <2> QED BY <2>1, StoreStutters DEF Writer
<1> QED BY <1>2, <1>3, <1>4, <1>5, <1>6, <1>7, <1>8

LEMMA ActsStore ==
  ASSUME NEW c, Taken(c)
  PROVE  Store!Next \/ UNCHANGED Store!vars
<1>1. CASE Share(c) \/ Validate(c) \/ EndRead(c) \/ Reserve(c) \/ DbSync(c)
  BY <1>1, ShareStore, ValidateStore, EndReadStore, ReserveStore, DbSyncStore
<1>2. CASE EndUnchanged(c) \/ Final(c) \/ FinSync(c) \/ Error(c)
  BY <1>2, EndStore, ErrorStore
<1>3. Acts(c)
  BY DEF Taken
<1> QED BY <1>1, <1>2, <1>3, QuietStore DEF Acts

LEMMA StoreStarts ==
  ASSUME Init PROVE Store!Init
<1>1. CalmInv /\ StoreInv
  BY CalmStarts, StoreIs
<1>2. past = <<First>> /\ pending = {} /\ db = First /\ env \in Environments
      /\ \A c \in Conn : pc[c] = "idle" /\ ~Writer(c)
  BY Blanks DEF Init, Writer
<1>3. Snap = [c \in Conn |-> None] /\ WriterNow = None
  BY <1>1, <1>2 DEF StoreInv
<1>4. First \in Content
  <2>1. Types /\ PastOK
    BY <1>1 DEF CalmInv, LockInv, DataInv
  <2>2. First[1].ctr = 1
    BY <1>2, <2>1 DEF PastOK
  <2>3. 1 \in 1..MaxVer
    BY Bounds
  <2> QED BY <1>2, <2>1, <2>2, <2>3, IsContent
<1>5. Durable \in BOOLEAN
  <2>1. env.journal \in {"DELETE", "TRUNCATE", "PERSIST"}
    BY <1>2, RollbackJournalAssumption
  <2> QED BY <2>1 DEF Durable, FullSync, ExtraSync
<1>6. past \in [1..1 -> Content]
  BY <1>2, <1>4
<1> QED BY <1>2, <1>3, <1>5, <1>6 DEF Store!Init, Snap, WriterNow

\* ImplementsSnapshotStore for any number of connections, pages and slots.
THEOREM PagerIsSnapshotStore == CalmSpec => ImplementsSnapshotStore
<1>1. Init => Store!Init
  BY StoreStarts
<1>2. CalmInv => StoreInv
  BY StoreIs
<1>3. CalmInv /\ CalmInv' /\ StoreInv /\ StoreInv' /\ [Next /\ ~Disturbed]_vars => [Store!Next]_Store!vars
  <2> SUFFICES ASSUME CalmInv, CalmInv', StoreInv, StoreInv', [Next /\ ~Disturbed]_vars
               PROVE  Store!Next \/ UNCHANGED Store!vars
    OBVIOUS
  <2>1. CASE UNCHANGED vars
    <3>1. Snap' = Snap /\ WriterNow' = WriterNow /\ Durable' = Durable
      BY <2>1 DEF vars, Snap, Seen, WriterNow, Durable, FullSync, ExtraSync
    <3> QED BY <2>1, <3>1 DEF vars, Store!vars, Snap, WriterNow
  <2>2. CASE Next /\ ~Disturbed
    <3>1. PICK c \in env.conns : (Acts(c) \/ Crash(c)) /\ env' = env
      BY <2>2, StepIs
    <3>2. CASE Crash(c)
      BY <3>1, <3>2, CrashStore
    <3>3. CASE Acts(c)
      <4>1. Taken(c)
        BY <3>1, <3>3 DEF Taken, CalmInv
      <4> QED BY <4>1, ActsStore
    <3> QED BY <3>1, <3>2, <3>3
  <2> QED BY <2>1, <2>2
<1> QED BY <1>1, <1>2, <1>3, CalmAlways, PTL DEF CalmSpec, ImplementsSnapshotStore, Store!Spec

(***************************************************************************)
(* What is no loss: surroundings whose every history is calm.              *)
(***************************************************************************)
\* Each connection is of a process of its own, no write or sync fails, and the power
\* stays on; processes end anywhere.
Orderly == ~env.losses /\ ~env.fails /\ ~env.same

\* A rollback of what never reached the database file leaves nothing to play back.
Undone == \A c \in Conn : pc[c] \in {"play", "final"} /\ tx[c].goal = "rollback" /\ ~tx[c].dbmod => ~Hot

\* The journal of a transaction that has yet to touch the database file is not hot.
LEMMA NotYetHot ==
  ASSUME CalmInv, NEW c \in Conn, Writer(c), pc[c] \in Opening, ~tx[c].dbmod
  PROVE  ~Hot
<1>1. /\ tx[c] \in Tx
      /\ tx[c].hdr # 0 => Journal(c) /\ JournalAt(c)
      /\ tx[c].hdr = 0 => NotOpened(tx[c])
  BY WriterJournal
<1>2. CASE tx[c].hdr = 0
  BY <1>1, <1>2 DEF NotOpened
<1>3. CASE tx[c].hdr # 0
  <2>1. ~Closed(tx[c])
    BY <1>1, <1>3 DEF JournalAt
  <2>0. NoHeader(tx[c].hdr)
    BY <1>1, <1>3, <2>1 DEF Journal
  <2>2. tx[c].hdr = 1
    <3>1. ~(tx[c].hdr > 1) /\ tx[c].hdr \in Nat
      BY <1>1, <1>3, Bounds DEF Journal, Tx
    <3> QED BY <1>3, <3>1
  <2> QED BY <2>0, <2>2, Bounds DEF NoHeader, Hot, At
<1> QED BY <1>2, <1>3

\* Whoever is beside a writer leaves the journal alone.
LEMMA BystanderKeeps ==
  ASSUME CalmInv, NEW c \in env.conns, Acts(c), pc[c] \in Waiting \ {"hotopen"}
  PROVE  jrnl' = jrnl
<1>1. CASE \/ Share(c) \/ HotExists(c) \/ HotReserved(c) \/ HotRead(c) \/ HotLock(c)
           \/ HotBusy(c) \/ BackOff(c) \/ Validate(c) \/ EndRead(c) \/ Reserve(c) \/ Unlock(c) \/ Error(c)
  BY <1>1 DEF Share, HotExists, HotReserved, HotRead, HotLock, HotBusy, BackOff, Validate, EndRead, Reserve, Unlock, Error
<1>2. CASE \E p \in Page : Read(c, p) \/ Modify(c, p) \/ Spill(c, p)
  BY <1>2 DEF Read, Modify, Spill
<1>3. ~(\/ HotOpen(c) \/ Commit(c) \/ Excl(c) \/ ExclBusy(c) \/ ClearNext(c)
        \/ FirstSync(c) \/ WriteNRec(c) \/ JournalSync(c) \/ NewHeader(c))
  BY DEF HotOpen, Commit, Excl, ExclBusy, ClearNext, FirstSync, WriteNRec, JournalSync, NewHeader
<1>4. ~(\/ StorePage(c) \/ DbSync(c) \/ Rollback(c) \/ PlayPage(c) \/ PlayEnd(c) \/ EndUnchanged(c)
        \/ Final(c) \/ FinSync(c) \/ CommitFails(c))
  BY DEF StorePage, DbSync, Rollback, PlayPage, PlayEnd, EndUnchanged, Final, FinSync, CommitFails
<1> QED BY <1>1, <1>2, <1>3, <1>4, Zenon DEF Acts

\* Who gets to a playback of its own, or through it, without a failure.
LEMMA UndoneOwn ==
  ASSUME CalmInv, Orderly, Undone, NEW c \in env.conns, Acts(c),
         pc'[c] \in {"play", "final"}, tx'[c].goal = "rollback", ~tx'[c].dbmod
  PROVE  ~Hot'
<1>1. c \in Conn /\ Types /\ tx[c] \in Tx /\ tx \in [Conn -> Tx] /\ pc \in [Conn -> PC] /\ Does(pc[c], tx[c])
  BY Entry DEF Types
<1> USE DEF Goto
<1>2. PICK t \in Tx : t = tx[c]
  BY <1>1
<1>3. CASE HotOpen(c)
  <2>1. jrnl.on
    BY <1>1, <1>3 DEF HotOpen
  <2>2. tx'[c] = [NoTx EXCEPT !.goal = "hot", !.todo = Played(jrnl, 0),
                    !.dbmod = TRUE, !.hdr = MaxSlot + 1, !.off = IF Hot THEN 1 ELSE 0]
    <3>1. tx' = [tx EXCEPT ![c] = [NoTx EXCEPT !.goal = "hot", !.todo = Played(jrnl, 0),
                    !.dbmod = TRUE, !.hdr = MaxSlot + 1, !.off = IF Hot THEN 1 ELSE 0]]
      BY <1>3, <2>1 DEF HotOpen
    <3> QED BY <1>1, <3>1
  <2>3. tx'[c].goal = "hot"
    BY <2>2 DEF NoTx
  <2> QED BY <2>3
<1>4. CASE Rollback(c)
  <2>1. PICK w : tx' = [tx EXCEPT ![c].goal = "rollback", ![c].todo = w]
    BY <1>4 DEF Rollback, StartRollback
  <2>2. tx' = [tx EXCEPT ![c] = [t EXCEPT !.goal = "rollback", !.todo = w]]
    BY <1>2, <2>1, TxOne
  <2>3. tx'[c] = [t EXCEPT !.goal = "rollback", !.todo = w]
    BY <1>1, <2>2
  <2>4. ~tx[c].dbmod
    BY <1>2, <2>3, TxFields
  <2>5. pc[c] = "write" /\ jrnl' = jrnl
    BY <1>4 DEF Rollback, StartRollback
  <2>6. ~Hot
    BY <1>1, <2>4, <2>5, NotYetHot DEF Does, Writer
  <2> QED BY <2>5, <2>6 DEF Hot
<1>5. CASE PlayPage(c)
  <2>1. PICK w : tx' = [tx EXCEPT ![c].todo = w]
    BY <1>5 DEF PlayPage
  <2>2. tx' = [tx EXCEPT ![c] = [t EXCEPT !.todo = w]]
    BY <1>2, <2>1, TxOne
  <2>3. tx'[c] = [t EXCEPT !.todo = w]
    BY <1>1, <2>2
  <2>4. ~tx[c].dbmod /\ tx[c].goal = "rollback"
    BY <1>2, <2>3, TxFields
  <2>5. pc[c] = "play" /\ jrnl' = jrnl
    BY <1>5 DEF PlayPage
  <2> QED BY <1>1, <2>4, <2>5 DEF Undone, Hot
<1>6. CASE PlayEnd(c)
  <2>1. pc[c] = "play" /\ jrnl' = jrnl /\ tx' = tx
    BY <1>6 DEF PlayEnd
  <2> QED BY <1>1, <2>1 DEF Undone, Hot
<1>7. CASE DbSync(c)
  <2>1. pc[c] = "dbsync" /\ tx' = tx
    BY <1>7 DEF DbSync
  <2> QED BY <1>1, <2>1 DEF Does
<1>8. ~CommitFails(c) /\ ~Error(c)
  BY DEF Orderly, CommitFails, Error
<1>9. ~(EndUnchanged(c) \/ Final(c) \/ FinSync(c))
  BY <1>1 DEF EndUnchanged, Final, FinSync, EndTransaction
<1>10. ~(\/ Commit(c) \/ Excl(c) \/ ExclBusy(c) \/ ClearNext(c) \/ FirstSync(c) \/ WriteNRec(c)
         \/ JournalSync(c) \/ NewHeader(c) \/ StorePage(c))
  BY <1>1 DEF Commit, Excl, ExclBusy, ClearNext, FirstSync, WriteNRec, JournalSync, NewHeader, StorePage
<1>11. ~(\/ Share(c) \/ HotExists(c) \/ HotReserved(c) \/ HotRead(c) \/ HotLock(c)
         \/ HotBusy(c) \/ BackOff(c) \/ Validate(c) \/ EndRead(c) \/ Reserve(c) \/ Unlock(c))
  BY <1>1 DEF Share, HotExists, HotReserved, HotRead, HotLock, HotBusy, BackOff, Validate, EndRead, Reserve, Unlock
<1>12. ~\E p \in Page : Read(c, p) \/ Modify(c, p) \/ Spill(c, p)
  BY <1>1 DEF Read, Modify, Spill
<1> QED BY <1>3, <1>4, <1>5, <1>6, <1>7, <1>8, <1>9, <1>10, <1>11, <1>12, Zenon DEF Acts

LEMMA UndoneStays ==
  ASSUME CalmInv, Orderly, Undone, Next, ~Disturbed
  PROVE  Undone'
<1>1. PICK c \in env.conns : c \in Conn /\ (Acts(c) \/ Crash(c))
  BY StepIs
<1>2. Types
  BY DEF CalmInv, LockInv
<1> SUFFICES ASSUME NEW d \in Conn, pc'[d] \in {"play", "final"}, tx'[d].goal = "rollback", ~tx'[d].dbmod
             PROVE  ~Hot'
  BY DEF Undone
<1>3. CASE Crash(c)
  <2>1. jrnl' = jrnl /\ tx'[d] = tx[d] /\ pc'[d] = pc[d]
    BY <1>3 DEF Crash, Ended
  <2> QED BY <2>1 DEF Undone, Hot
<1>4. CASE Acts(c) /\ d = c
  BY <1>4, UndoneOwn
<1>5. CASE Acts(c) /\ d # c
  <2>1. tx'[d] = tx[d] /\ pc'[d] = pc[d]
    BY <1>1, <1>2, <1>5, ActsApart DEF Apart
  <2>2. Writer(d)
    <3>1. Does(pc[d], tx[d])
      BY DEF CalmInv, LockInv, LockAt
    <3> QED BY <2>1, <3>1 DEF Does, Writer
  <2>3. pc[c] \in Waiting \ {"hotopen"}
    BY <1>5, <2>2, LeftAlone
  <2>4. jrnl' = jrnl
    BY <1>5, <2>3, BystanderKeeps
  <2> QED BY <2>1, <2>4 DEF Undone, Hot
<1> QED BY <1>1, <1>3, <1>4, <1>5

\* A live writer of another process is seen before its journal could be played back.
LEMMA OrderlyCalm ==
  ASSUME CalmInv, Orderly, Undone, Next
  PROVE  ~Disturbed
<1>1. ~PowerLoss
  BY DEF Orderly, PowerLoss
<1>2. \A c \in env.conns : ~CommitFails(c)
  BY DEF Orderly, CommitFails
<1>3. ASSUME NEW c \in env.conns, HotReserved(c), Hot, CheckReservedLock(c) PROVE FALSE
  <2>1. LockInv /\ Types /\ c \in Conn /\ pc[c] = "hot2" /\ Holds(pc[c], mode[c], tx[c])
    BY <1>3, Entry DEF HotReserved
  <2>2. PICK d \in Conn \ {c} : mode[d] > 1 /\ Writer(d)
    BY <1>3 DEF CheckReservedLock, ReservedElsewhere, Orderly, Writer
  <2>3. mode[c] = 1
    BY <2>1 DEF Holds
  <2>4. mode[d] # 4 /\ Holds(pc[d], mode[d], tx[d]) /\ Does(pc[d], tx[d]) /\ tx[d] \in Tx
    BY <2>1, <2>3 DEF LockInv, LockAt, Lone, Types
  <2>5. ~tx[d].dbmod /\ pc[d] \notin Storing /\ (tx[d].goal \in {"commit", "hot"} => pc[d] \in Opening)
    BY <2>4 DEF Holds
  <2>6. pc[d] \in Opening \cup {"play", "final", "finsync"}
    <3>1. pc[d] # "finsync" => pc[d] \in Opening \cup Storing \cup {"play", "final"}
      BY <2>2, WriterJournal
    <3> QED BY <2>5, <3>1
  <2>7. CASE pc[d] \in Opening
    BY <1>3, <2>2, <2>5, <2>7, NotYetHot
  <2>8. CASE pc[d] = "finsync"
    BY <1>3, <2>8 DEF CalmInv, DataInv, OtherOf
  <2>9. CASE pc[d] \in {"play", "final"}
    <3>1. tx[d].goal = "rollback"
      BY <2>4, <2>5, <2>9 DEF Does
    <3> QED BY <1>3, <2>5, <2>9, <3>1 DEF Undone
  <2> QED BY <2>6, <2>7, <2>8, <2>9
<1> QED BY <1>1, <1>2, <1>3 DEF Disturbed

\* Where each connection is of a process of its own, no write fails and no power is
\* lost, every history of the pager is a calm one, wherever its processes end: there
\* all of the above is about Spec itself.
THEOREM OrderlyIsCalm == Spec /\ Orderly => CalmSpec
<1>1. Init => CalmInv /\ Undone
  <2> SUFFICES ASSUME Init PROVE CalmInv /\ Undone
    OBVIOUS
  <2>1. CalmInv
    BY CalmStarts
  <2>2. Undone
    BY DEF Init, Undone
  <2> QED BY <2>1, <2>2
<1>2. CalmInv /\ Orderly /\ Undone /\ [Next]_vars => (CalmInv /\ Orderly /\ Undone)' /\ [Next /\ ~Disturbed]_vars
  <2> SUFFICES ASSUME CalmInv, Orderly, Undone, [Next]_vars
               PROVE  (CalmInv /\ Orderly /\ Undone)' /\ [Next /\ ~Disturbed]_vars
    OBVIOUS
  <2>1. CASE Next
    <3>1. ~Disturbed
      BY <2>1, OrderlyCalm
    <3>2. CalmInv'
      BY <2>1, <3>1, LockNext, JournalNext, DataNext DEF CalmInv
    <3>3. Undone'
      BY <2>1, <3>1, UndoneStays
    <3>4. Orderly'
      BY <2>1 DEF Next, Orderly
    <3> QED BY <2>1, <3>1, <3>2, <3>3, <3>4
  <2>2. CASE UNCHANGED vars
    <3>1. CalmInv'
      BY <2>2, CalmStutters
    <3>2. Orderly' /\ Undone'
      BY <2>2 DEF vars, Orderly, Undone, Hot
    <3> QED BY <2>2, <3>1, <3>2
  <2> QED BY <2>1, <2>2
<1> QED BY <1>1, <1>2, PTL DEF Spec, CalmSpec
=============================================================================
