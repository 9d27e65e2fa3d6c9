--------------------------- MODULE WalHeldProofs ---------------------------
(***************************************************************************)
(* Proofs about the write-ahead log, for every number of connections,      *)
(* pages, frames, versions and salts: what is held while nothing disturbs  *)
(* the log, the first four parts of the invariant of WalProofs.            *)
(*                                                                         *)
(*   LockInv   types, and which locks are held at which place of the code; *)
(*   HeadInv   who may see the header half written;                        *)
(*   SaltRoom  the bound on salts leaves those that will be drawn;         *)
(*   HdrInv    how a connection's copy of the header, nBackfill and the    *)
(*             header there is are related.                                *)
(*                                                                         *)
(* Each part has one lemma per action, and one that puts them together.    *)
(***************************************************************************)
EXTENDS Wal, WellFoundedInduction, TLAPS

(***************************************************************************)
(* The largest and the smallest of a set of numbers.                       *)
(***************************************************************************)
LEMMA LeastOf ==
  ASSUME NEW T, T \subseteq Nat, T # {}
  PROVE  \E x \in T : \A y \in T : x <= y
<1> DEFINE R == {ss \in Nat \X Nat : ss[1] < ss[2]}
<1>1. IsWellFoundedOn(R, Nat)
  BY NatLessThanWellFounded DEF OpToRel
<1>2. \E x \in T : \A y \in T : ~ (<<y, x>> \in R)
  <2> HIDE DEF R
  <2> QED BY <1>1, WFMin
<1>3. \A x \in Nat, y \in Nat : ~ (<<y, x>> \in R) => x <= y
  OBVIOUS
<1> QED BY <1>2, <1>3

LEMMA GreatestOf ==
  ASSUME NEW n \in Nat, NEW T, T \subseteq 0..n, T # {}
  PROVE  \E x \in T : \A y \in T : x >= y
<1> DEFINE U == {n - x : x \in T}
<1>1. U \subseteq Nat /\ U # {}
  <2>1. \A x \in T : n - x \in Nat
    OBVIOUS
  <2> QED BY <2>1
<1>2. PICK u \in U : \A v \in U : u <= v
  <2> HIDE DEF U
  <2> QED BY <1>1, LeastOf
<1>3. PICK x \in T : u = n - x
  OBVIOUS
<1>4. ASSUME NEW y \in T PROVE x >= y
  <2>1. n - y \in U
    OBVIOUS
  <2>2. u <= n - y /\ x \in Nat /\ y \in Nat
    BY <1>2, <2>1
  <2> QED BY <1>3, <2>2
<1> QED BY <1>4

LEMMA MaxOf ==
  ASSUME NEW n \in Nat, NEW T, T \subseteq 0..n
  PROVE  /\ Max({0} \cup T) \in {0} \cup T
         /\ \A y \in T : y <= Max({0} \cup T)
         /\ Max({0} \cup T) \in 0..n
<1> DEFINE U == {0} \cup T
<1>1. U \subseteq 0..n /\ U # {}
  OBVIOUS
<1>2. \E x \in U : \A y \in U : x >= y
  <2> HIDE DEF U
  <2> QED BY <1>1, GreatestOf
<1>3. Max(U) \in U /\ \A y \in U : Max(U) >= y
  <2> HIDE DEF U
  <2> QED BY <1>2 DEF Max
<1> QED BY <1>1, <1>3

LEMMA MinOf ==
  ASSUME NEW T, T \subseteq Nat, T # {}
  PROVE  Min(T) \in T /\ \A y \in T : Min(T) <= y
<1>1. \E x \in T : \A y \in T : x =< y
  BY LeastOf
<1> QED BY <1>1 DEF Min

-----------------------------------------------------------------------------
(***************************************************************************)
(* Types.                                                                  *)
(***************************************************************************)
Plain == {"idle", "choose", "lock0", "check0", "read"}
Pickers == {"pick", "setmark", "share", "recheck"}
Writes == {"write", "walhdr", "hdrsync", "frame", "recksum", "sync", "index", "publish", "abort"}
Filling == {"walhdr", "hdrsync", "frame"}
NoFrames == {"write", "walhdr", "hdrsync", "publish"}
Restarting == {"rs1", "rs2", "rs3"}
Recovering == {"rec1", "rec2", "rec3"}
Asking == {"ckhdr", "ckinfo", "ckmark", "cklock", "ck0", "ckend", "ckquit"}
Copying == {"cksync", "ckcopy"}
Ckpts == Asking \cup Copying \cup {"ckwrite", "cktrunc"}
PC == Plain \cup Pickers \cup Writes \cup Restarting \cup Recovering \cup Ckpts

Cksum == [salt : 0..MaxSalt, chain : Seq((Page \cup {0}) \X (0..Torn) \X BOOLEAN)]
Hdr == [init : BOOLEAN, mx : 0..MaxFrame, salt : 0..MaxSalt, chg : Nat, cksum : Cksum]
Frame == [pg : Page \cup {0}, ver : 0..MaxVer, com : BOOLEAN, cksum : Cksum]
WalFile == [salt : 0..MaxSalt, first : BOOLEAN, frame : [Frames -> Frame]]
Tx == [list : SUBSET Page, com : BOOLEAN, first : Nat, app : Seq(Page), reck : 0..MaxFrame]
Ck == [mode : {"PASSIVE", "FULL", "TRUNCATE"}, at : 0..NReader, seen : 0..NotUsed,
       safe : 0..MaxFrame, base : Nat, iter : [Page -> 0..MaxFrame]]
Cand == [i : 0..NReader - 1, m : 0..NotUsed]

\* The last frame after the frames of this call, and the newest commit.
Top(c) == hdr[c].mx + Len(tx[c].app)
K == past[Len(past)]

SharedType ==
  /\ env \in Environments
  /\ head \in [{0, 1} -> Hdr]
  /\ nBackfill \in 0..MaxFrame
  /\ mark \in [Marks -> 0..NotUsed]
  /\ idx \in [Frames -> Page \cup {0}]
  /\ wal \in WalFile /\ db \in Content /\ disk \in [wal : WalFile, db : Content]
  /\ vers \in 0..MaxVer /\ salts \in 0..env.salts
  /\ past \in Seq(Content) /\ past # <<>>
  /\ pending \subseteq (1..Len(past)) \X Content

ConnType ==
  /\ excl \in [Conn -> SUBSET Lock] /\ slot \in [Conn -> 0..Idle]
  /\ pc \in [Conn -> PC]
  /\ hdr \in [Conn -> Hdr] /\ minFrame \in [Conn -> 0..MaxFrame + 1]
  /\ cand \in [Conn -> Cand] /\ tx \in [Conn -> Tx] /\ ck \in [Conn -> Ck]
  /\ content \in [Conn -> Content \cup {None}]
  /\ fresh \in [Conn -> BOOLEAN]

(***************************************************************************)
(* What is held where.                                                     *)
(***************************************************************************)
WriterLock(c) == IF content[c] = None THEN {} ELSE {WRITE}
CkptLocks(c) == IF ck[c].mode = "PASSIVE" THEN {CKPT} ELSE {CKPT, WRITE}

HeldLocks(c) ==
  /\ pc[c] \in Plain => excl[c] = {}
  /\ pc[c] \in Pickers \ {"setmark"} => excl[c] = WriterLock(c)
  /\ pc[c] = "setmark" => excl[c] = WriterLock(c) \cup {cand[c].i}
  /\ pc[c] \in Writes => excl[c] = {WRITE}
  /\ pc[c] \in Restarting =>
       excl[c] = Readers \cup (IF content[c] = None THEN {CKPT, WRITE} ELSE {WRITE})
  /\ pc[c] \in Recovering => excl[c] = Lock
  /\ pc[c] = "ckwrite" => excl[c] = {CKPT}
  /\ pc[c] \in Asking => excl[c] = CkptLocks(c)
  /\ pc[c] \in Copying => excl[c] = CkptLocks(c) \cup {0}
  /\ pc[c] = "cktrunc" => excl[c] = Readers \cup {CKPT, WRITE}

HeldSlot(c) ==
  /\ pc[c] \in {"idle", "choose", "lock0", "pick", "setmark", "share"} => slot[c] = Idle
  /\ pc[c] \in Recovering \cup Ckpts => slot[c] = Idle
  /\ pc[c] \in Restarting => slot[c] = IF content[c] = None THEN Idle ELSE 0
  /\ pc[c] = "check0" => slot[c] = 0
  /\ pc[c] \in {"read", "write"} => slot[c] # Idle
  /\ pc[c] \in Writes \ {"write"} => slot[c] \in Marks
  /\ pc[c] = "recheck" => slot[c] = cand[c].i

Phase(c) ==
  /\ pc[c] \in Writes \cup {"read"} => content[c] # None
  /\ pc[c] \in (Plain \ {"read"}) \cup Recovering \cup Ckpts => content[c] = None
  /\ pc[c] \in {"setmark", "share", "recheck"} => cand[c].i \in Marks
  /\ pc[c] \in Plain \cup Pickers \/ content[c] # None => ck[c] = NoCk
  /\ pc[c] \in Recovering => ck[c] = NoCk \/ (ck[c].at = 1 /\ ck[c].mode = "PASSIVE")
  /\ pc[c] \in {"ckwrite", "ckhdr", "ckinfo"} => ck[c].at = 1
  /\ pc[c] \in Restarting /\ content[c] = None => ck[c].mode # "PASSIVE"
  /\ pc[c] \in {"ckwrite", "cktrunc"} => ck[c].mode # "PASSIVE"
  /\ pc[c] = "ckmark" => ck[c].at \in Marks
  /\ pc[c] = "cklock" => ck[c].at \in Marks /\ ck[c].seen < ck[c].safe
  /\ pc[c] \in {"ck0", "cksync", "ckcopy"} => ck[c].at = NReader

\* A transaction begins with no frames of its own and ends without any.
Room(c) ==
  /\ Top(c) <= MaxFrame
  /\ pc[c] \in Plain \cup Recovering \cup Ckpts => tx[c] = NoTx
  /\ content[c] = None => tx[c] = NoTx
  /\ pc[c] \in Pickers \cup Restarting => tx[c].reck = 0
  /\ pc[c] \in Pickers \cup Restarting \cup NoFrames => tx[c].app = <<>>
  /\ content[c] # None /\ pc[c] \in Pickers \cup Restarting \cup Filling => tx[c].list # {}
  /\ slot[c] \notin Marks => tx[c].reck = 0
  /\ tx[c].reck <= Top(c)
  /\ pc[c] = "recksum" => tx[c].reck > 0

\* A salt is left to draw where one will be drawn.
NeedsSalt(c) ==
  \/ pc[c] = "rs1"
  \/ content[c] # None /\ pc[c] \in Pickers \cup Restarting \cup {"walhdr"} /\ hdr[c].mx = 0 /\ fresh[c]
SaltRoom == \A c \in Conn : NeedsSalt(c) => salts < env.salts

Exclusion ==
  \A c, d \in Conn : c # d => excl[c] \cap excl[d] = {} /\ slot[d] \notin excl[c]

LockInv ==
  /\ SharedType /\ ConnType
  /\ Exclusion
  /\ \A c \in Conn : HeldLocks(c) /\ HeldSlot(c) /\ Phase(c) /\ Room(c)

(***************************************************************************)
(* Who may have changed the header.  Nothing is recovered but the log of a *)
(* database nobody has written to.                                         *)
(***************************************************************************)
H0 == [ZeroHdr EXCEPT !.init = TRUE]
Blank == [p \in Page |-> 0]
Virgin ==
  /\ wal = NoWal /\ idx = [i \in Frames |-> 0] /\ db = Blank
  /\ disk = [wal |-> NoWal, db |-> Blank]
  /\ past = <<Blank>> /\ nBackfill = 0
Unborn == Virgin /\ head[0] = ZeroHdr /\ head[1] \in {ZeroHdr, H0}

\* Who has read a header that some process wrote.
HasHdr(c) == pc[c] \notin {"idle", "ckwrite", "ckhdr", "ckquit"} \cup Recovering

HeadOf(c) ==
  /\ pc[c] \in {"rec1", "rec2"} => Unborn
  /\ pc[c] \in {"rec2", "rec3"} => head[1] = H0 /\ hdr[c] = H0
  /\ pc[c] = "rec3" => Virgin /\ head[0] = H0
  /\ pc[c] \in {"rs2", "publish"} => head[1] = hdr[c]
  /\ HasHdr(c) => head[0].init /\ hdr[c].init

HeadInv ==
  /\ \/ Unborn
     \/ /\ head[0].init
        /\ head[1] = head[0] \/ \E w \in Conn : pc[w] \in {"rs2", "publish"}
  /\ \A c \in Conn : HeadOf(c)

\* The other connections are where they were.
Still(c) ==
  \A d \in Conn \ {c} :
    /\ excl'[d] = excl[d] /\ slot'[d] = slot[d] /\ pc'[d] = pc[d]
    /\ hdr'[d] = hdr[d] /\ minFrame'[d] = minFrame[d] /\ cand'[d] = cand[d]
    /\ tx'[d] = tx[d] /\ ck'[d] = ck[d] /\ content'[d] = content[d] /\ fresh'[d] = fresh[d]

\* What c holds now it held before, or nobody else holds.
Apart(c) ==
  \A d \in Conn \ {c} :
    /\ excl'[c] \cap excl[d] \subseteq excl[c]
    /\ slot[d] \in excl'[c] => slot[d] \in excl[c]
    /\ slot'[c] \in excl[d] => slot'[c] \in {slot[c], Idle}

LEMMA LockStep ==
  ASSUME LockInv, NEW c \in Conn, SharedType', ConnType', Still(c), Apart(c),
         HeldLocks(c)', HeldSlot(c)', Phase(c)', Room(c)'
  PROVE  LockInv'
<1>1. Idle \notin Lock
  BY WalAssumption DEF Idle, Lock, WRITE, CKPT
<1>2. Exclusion'
  <2> SUFFICES ASSUME NEW d \in Conn, NEW e \in Conn, d # e
               PROVE  excl'[d] \cap excl'[e] = {} /\ slot'[e] \notin excl'[d]
    BY DEF Exclusion
  <2>1. excl[d] \cap excl[e] = {} /\ slot[e] \notin excl[d]
        /\ slot[d] \notin excl[e]
        /\ excl[d] \subseteq Lock /\ excl[e] \subseteq Lock
    BY DEF LockInv, Exclusion, ConnType
  <2>2. CASE d # c /\ e # c
    BY <2>1, <2>2 DEF Still
  <2>3. CASE d = c
    BY <1>1, <2>1, <2>3 DEF Still, Apart
  <2>4. CASE e = c
    BY <1>1, <2>1, <2>4 DEF Still, Apart
  <2> QED BY <2>2, <2>3, <2>4
<1>3. ASSUME NEW d \in Conn, d # c
      PROVE  (HeldLocks(d) /\ HeldSlot(d) /\ Phase(d) /\ Room(d))'
  <2>1. HeldLocks(d) /\ HeldSlot(d) /\ Phase(d) /\ Room(d)
    BY DEF LockInv
  <2>2. /\ excl'[d] = excl[d] /\ slot'[d] = slot[d] /\ pc'[d] = pc[d]
        /\ hdr'[d] = hdr[d] /\ cand'[d] = cand[d]
        /\ tx'[d] = tx[d] /\ ck'[d] = ck[d] /\ content'[d] = content[d]
    BY <1>3 DEF Still
  <2>3. HeldLocks(d)'
    BY <2>1, <2>2 DEF HeldLocks, WriterLock, CkptLocks
  <2>4. HeldSlot(d)'
    BY <2>1, <2>2 DEF HeldSlot
  <2>5. Phase(d)'
    BY <2>1, <2>2 DEF Phase
  <2>6. Room(d)'
    BY <2>1, <2>2 DEF Room, Top
  <2> QED BY <2>3, <2>4, <2>5, <2>6
<1> QED BY <1>2, <1>3 DEF LockInv

LEMMA Numbers ==
  /\ NReader \in Nat /\ NReader >= 3 /\ Idle = NReader
  /\ MaxFrame \in Nat /\ MaxVer \in Nat /\ MaxSalt \in Nat /\ NotUsed = MaxFrame + 1
BY WalAssumption DEF NotUsed, Idle

LEMMA Locks ==
  /\ 0 \in 0..Idle /\ Idle \in 0..Idle /\ Idle # 0 /\ Marks \subseteq 1..Idle /\ Idle \notin Marks
  /\ Marks \subseteq 0..Idle /\ 1 \in Marks /\ {0, WRITE, CKPT} \cap Marks = {}
  /\ Marks \subseteq Lock /\ {0, WRITE, CKPT} \subseteq Lock /\ Idle \notin Lock
  /\ WRITE \notin 0..Idle /\ CKPT \notin 0..Idle /\ WRITE # CKPT
BY Numbers DEF Idle, Marks, Lock, WRITE, CKPT

LEMMA Zeros ==
  /\ None \notin Content
  /\ NoCksum \in Cksum /\ ZeroHdr \in Hdr /\ NoTx \in Tx /\ NoCk \in Ck /\ NoCand \in Cand
  /\ NoWal \in WalFile
<1>1. None \notin Content
  BY WalAssumption DEF Content
<1>2. NoCksum \in Cksum
  BY Numbers DEF NoCksum, Cksum
<1>3. ZeroHdr \in Hdr
  BY Numbers, <1>2 DEF ZeroHdr, Hdr
<1>4. NoTx \in Tx
  BY Numbers DEF NoTx, Tx
<1>5. NoCk \in Ck /\ NoCand \in Cand
  BY Numbers DEF NoCk, Ck, NoCand, Cand
<1>6. NoFrame \in Frame
  BY Numbers, <1>2 DEF NoFrame, Frame
<1>7. NoWal \in WalFile
  BY <1>6, Numbers DEF NoWal, WalFile
<1> QED BY <1>1, <1>2, <1>3, <1>4, <1>5, <1>7

LEMMA EmptyTx ==
  /\ NoTx.app = <<>> /\ Len(NoTx.app) = 0 /\ NoTx.list = {} /\ NoTx.reck = 0 /\ NoTx.first = 0
  /\ ZeroHdr.mx = 0
BY DEF NoTx, ZeroHdr

USE DEF Plain, Pickers, Writes, Restarting, Recovering, Asking, Copying, Ckpts, PC, Filling, NoFrames,
        shm, files, locks, read, draws, history, Goto

LEMMA Moves ==
  ASSUME LockInv, NEW c \in Conn, NEW l \in PC, Goto(c, l)
  PROVE  pc' \in [Conn -> PC] /\ pc'[c] = l
<1> HIDE DEF PC
<1> QED BY DEF LockInv, ConnType

\* What LockInv says of one connection.
LEMMA Here ==
  ASSUME LockInv, NEW c \in Conn
  PROVE  /\ excl[c] \in SUBSET Lock /\ slot[c] \in 0..Idle /\ pc[c] \in PC
         /\ hdr[c] \in Hdr /\ minFrame[c] \in 0..MaxFrame + 1 /\ cand[c] \in Cand
         /\ tx[c] \in Tx /\ ck[c] \in Ck
         /\ content[c] \in Content \cup {None} /\ fresh[c] \in BOOLEAN
         /\ hdr[c].mx \in 0..MaxFrame /\ Len(tx[c].app) \in Nat /\ tx[c].reck \in 0..MaxFrame
         /\ HeldLocks(c) /\ HeldSlot(c) /\ Phase(c) /\ Room(c)
BY DEF LockInv, ConnType, Hdr, Tx

LEMMA RoomEmpty ==
  ASSUME LockInv, NEW c \in Conn, tx'[c] = NoTx, hdr'[c] \in Hdr, pc'[c] # "recksum",
         content'[c] = None \/ pc'[c] \notin Pickers \cup Restarting \cup Filling
  PROVE  Room(c)'
BY EmptyTx, Numbers DEF Room, Top, Hdr

LEMMA RoomKept ==
  ASSUME LockInv, NEW c \in Conn,
         tx'[c] = tx[c], hdr'[c].mx = hdr[c].mx,
         content'[c] = content[c],
         pc'[c] \in Plain \cup Recovering \cup Ckpts => tx[c] = NoTx,
         pc'[c] \in Pickers \cup Restarting => tx[c].reck = 0,
         pc'[c] \in Pickers \cup Restarting \cup NoFrames => tx[c].app = <<>>,
         slot'[c] \in Marks \/ tx[c].reck = 0,
         content[c] # None /\ pc'[c] \in Pickers \cup Restarting \cup Filling => tx[c].list # {},
         pc'[c] # "recksum"
  PROVE  Room(c)'
<1>1. Room(c)
  BY Here
<1> QED BY <1>1 DEF Room, Top

LEMMA Newest ==
  ASSUME LockInv
  PROVE  K \in Content /\ K # None /\ Len(past) \in Nat \ {0}
BY Zeros DEF LockInv, SharedType, K

\* The mark a reader finds best, and the first that is free.
LEMMA PickFacts ==
  ASSUME LockInv, NEW c \in Conn
  PROVE  LET best == Max({0} \cup {mark[i] : i \in Fit(c)})
             at == Max({0} \cup {i \in Fit(c) : mark[i] = best})
             free == {i \in Marks : CanExcl(c, {i})}
         IN  /\ best \in 0..NotUsed /\ best <= hdr[c].mx
             /\ at \in 0..NReader - 1 /\ (at # 0 => at \in Marks /\ mark[at] = best)
             /\ free # {} => Min(free) \in Marks /\ CanExcl(c, {Min(free)})
<1> DEFINE best == Max({0} \cup {mark[i] : i \in Fit(c)})
           at == Max({0} \cup {i \in Fit(c) : mark[i] = best})
           free == {i \in Marks : CanExcl(c, {i})}
<1>1. mark \in [Marks -> 0..NotUsed] /\ hdr[c].mx \in 0..MaxFrame /\ Fit(c) \subseteq Marks
  BY Here DEF LockInv, SharedType, Fit
<1>2. {mark[i] : i \in Fit(c)} \subseteq 0..hdr[c].mx
  BY <1>1, Numbers DEF Fit
<1>3. best \in 0..hdr[c].mx
  <2> DEFINE T == {mark[i] : i \in Fit(c)}
  <2>1. T \subseteq 0..hdr[c].mx /\ hdr[c].mx \in Nat
    BY <1>1, <1>2
  <2> HIDE DEF T
  <2>2. Max({0} \cup T) \in 0..hdr[c].mx
    BY <2>1, MaxOf
  <2> QED BY <2>2 DEF T
<1>4. at \in 0..NReader - 1 /\ (at # 0 => at \in Marks /\ mark[at] = best)
  <2> DEFINE T == {i \in Fit(c) : mark[i] = best}
  <2>1. T \subseteq 0..NReader - 1 /\ NReader - 1 \in Nat
    BY <1>1, Numbers DEF Marks
  <2>2. T \subseteq Marks /\ \A i \in T : mark[i] = best
    BY <1>1
  <2> HIDE DEF T
  <2>3. Max({0} \cup T) \in 0..NReader - 1 /\ Max({0} \cup T) \in {0} \cup T
    BY <2>1, MaxOf
  <2>4. Max({0} \cup T) # 0 => Max({0} \cup T) \in Marks /\ mark[Max({0} \cup T)] = best
    BY <2>2, <2>3
  <2> QED BY <2>3, <2>4 DEF T
<1>5. free # {} => Min(free) \in Marks /\ CanExcl(c, {Min(free)})
  <2>1. ASSUME free # {} PROVE Min(free) \in free
    <3>1. free \subseteq Nat
      BY Numbers DEF Marks
    <3> HIDE DEF free
    <3> QED BY <2>1, <3>1, MinOf
  <2> QED BY <2>1
<1>6. best \in 0..NotUsed /\ best <= hdr[c].mx
  BY <1>1, <1>3, Numbers
<1> QED BY <1>4, <1>5, <1>6

\* What walTryBeginRead does with the marks.
LEMMA PickMoves ==
  ASSUME LockInv, NEW c \in Conn, Pick(c)
  PROVE  /\ pc[c] = "pick"
         /\ UNCHANGED <<shm, files, slot, hdr, minFrame, tx, ck, content, draws, history>>
         /\ \/ \E i \in Marks, m \in 0..NotUsed :
                 /\ pc' = [pc EXCEPT ![c] = "share"] /\ m <= hdr[c].mx
                 /\ cand' = [cand EXCEPT ![c] = [i |-> i, m |-> m]] /\ excl' = excl
            \/ \E i \in Marks :
                 /\ pc' = [pc EXCEPT ![c] = "setmark"] /\ CanExcl(c, {i})
                 /\ cand' = [cand EXCEPT ![c] = [i |-> i, m |-> hdr[c].mx]]
                 /\ excl' = [excl EXCEPT ![c] = @ \cup {i}]
            \/ /\ pc' = [pc EXCEPT ![c] = IF content[c] = None THEN "idle" ELSE "pick"]
               /\ cand' = cand /\ excl' = excl
<1> DEFINE best == Max({0} \cup {mark[i] : i \in Fit(c)})
           at == Max({0} \cup {i \in Fit(c) : mark[i] = best})
           free == {i \in Marks : CanExcl(c, {i})}
           m == Min(free)
<1>1. /\ best \in 0..NotUsed /\ best <= hdr[c].mx /\ (at # 0 => at \in Marks)
      /\ free # {} => m \in Marks /\ CanExcl(c, {m})
  BY PickFacts
<1>2. /\ pc[c] = "pick"
      /\ \/ /\ pc' = [pc EXCEPT ![c] = "share"] /\ at # 0
            /\ cand' = [cand EXCEPT ![c] = [i |-> at, m |-> best]] /\ excl' = excl
         \/ /\ pc' = [pc EXCEPT ![c] = "setmark"] /\ free # {}
            /\ cand' = [cand EXCEPT ![c] = [i |-> m, m |-> hdr[c].mx]]
            /\ excl' = [excl EXCEPT ![c] = @ \cup {m}]
         \/ /\ pc' = [pc EXCEPT ![c] = IF content[c] = None THEN "idle" ELSE "pick"]
            /\ cand' = cand /\ excl' = excl
  <2> HIDE DEF best
  <2> QED BY DEF Pick, Take, best
<1>3. UNCHANGED <<shm, files, slot, hdr, minFrame, tx, ck, content, draws, history>>
  BY DEF Pick
<1> HIDE DEF best, at, free, m
<1> QED BY <1>1, <1>2, <1>3

LEMMA PickLock ==
  ASSUME LockInv, NEW c \in Conn, Pick(c), UNCHANGED env
  PROVE  LockInv'
<1>1. /\ pc[c] = "pick"
      /\ \/ \E i \in Marks, m \in 0..NotUsed :
              /\ pc' = [pc EXCEPT ![c] = "share"]
              /\ cand' = [cand EXCEPT ![c] = [i |-> i, m |-> m]] /\ excl' = excl
         \/ \E i \in Marks :
              /\ pc' = [pc EXCEPT ![c] = "setmark"] /\ CanExcl(c, {i})
              /\ cand' = [cand EXCEPT ![c] = [i |-> i, m |-> hdr[c].mx]]
              /\ excl' = [excl EXCEPT ![c] = @ \cup {i}]
         \/ /\ pc' = [pc EXCEPT ![c] = IF content[c] = None THEN "idle" ELSE "pick"]
            /\ cand' = cand /\ excl' = excl
  BY PickMoves
<1>15. UNCHANGED <<env, shm, files, slot, hdr, minFrame, tx, ck, content, draws, history>>
  BY PickMoves
<1>2. /\ slot[c] = Idle /\ excl[c] = WriterLock(c)
      /\ content[c] = None => tx[c] = NoTx
      /\ tx[c].app = <<>> /\ tx[c].reck = 0 /\ (content[c] # None => tx[c].list # {})
      /\ hdr[c] \in Hdr /\ hdr[c].mx \in 0..NotUsed
  BY <1>1, Here, Numbers DEF HeldSlot, HeldLocks, Room
<1>3. SharedType'
  BY <1>15 DEF LockInv, SharedType
<1>4. pc' \in [Conn -> PC]
  <2>1. \E l \in {"share", "setmark", "idle", "pick"} : Goto(c, l)
    BY <1>1
  <2>2. {"share", "setmark", "idle", "pick"} \subseteq PC
    OBVIOUS
  <2> HIDE DEF PC, Goto
  <2> QED BY <2>1, <2>2, Moves
<1>5. excl' \in [Conn -> SUBSET Lock]
  <2>1. excl \in [Conn -> SUBSET Lock] /\ Marks \subseteq Lock
    BY Locks DEF LockInv, ConnType
  <2>2. excl' = excl \/ \E i \in Marks : excl' = [excl EXCEPT ![c] = @ \cup {i}]
    BY <1>1
  <2> QED BY <2>1, <2>2
<1>6. cand' \in [Conn -> Cand]
  <2>1. \A i \in Marks, m \in 0..NotUsed : [i |-> i, m |-> m] \in Cand
    BY Numbers DEF Cand, Marks
  <2>2. cand \in [Conn -> Cand]
    BY DEF LockInv, ConnType
  <2>3. cand' = cand \/ \E i \in Marks, m \in 0..NotUsed : cand' = [cand EXCEPT ![c] = [i |-> i, m |-> m]]
    BY <1>1, <1>2
  <2> QED BY <2>1, <2>2, <2>3
<1>7. ConnType'
  BY <1>15, <1>4, <1>5, <1>6 DEF LockInv, ConnType
<1>8. Still(c)
  BY <1>1, <1>15 DEF LockInv, ConnType, Still
<1>90. excl \in [Conn -> SUBSET Lock] /\ cand \in [Conn -> Cand] /\ pc \in [Conn -> PC]
  BY DEF LockInv, ConnType
<1>9. \/ pc'[c] = "share" /\ excl'[c] = excl[c] /\ cand'[c].i \in Marks
      \/ /\ pc'[c] = "setmark" /\ excl'[c] = excl[c] \cup {cand'[c].i}
         /\ cand'[c].i \in Marks /\ CanExcl(c, {cand'[c].i})
      \/ pc'[c] = "idle" /\ excl'[c] = excl[c] /\ content[c] = None
      \/ pc'[c] = "pick" /\ excl'[c] = excl[c] /\ content[c] # None
  <2> HIDE DEF PC
  <2>1. ASSUME NEW i \in Marks, NEW m, pc' = [pc EXCEPT ![c] = "share"],
               cand' = [cand EXCEPT ![c] = [i |-> i, m |-> m]], excl' = excl
        PROVE  pc'[c] = "share" /\ excl'[c] = excl[c] /\ cand'[c].i \in Marks
    BY <1>90, <2>1
  <2>2. ASSUME NEW i \in Marks, pc' = [pc EXCEPT ![c] = "setmark"], CanExcl(c, {i}),
               cand' = [cand EXCEPT ![c] = [i |-> i, m |-> hdr[c].mx]],
               excl' = [excl EXCEPT ![c] = @ \cup {i}]
        PROVE  /\ pc'[c] = "setmark" /\ excl'[c] = excl[c] \cup {cand'[c].i}
               /\ cand'[c].i \in Marks /\ CanExcl(c, {cand'[c].i})
    BY <1>90, <2>2
  <2>3. CASE /\ pc' = [pc EXCEPT ![c] = IF content[c] = None THEN "idle" ELSE "pick"]
             /\ cand' = cand /\ excl' = excl
    BY <1>90, <2>3
  <2> QED BY <1>1, <2>1, <2>2, <2>3
<1>10. HeldLocks(c)'
  BY <1>15, <1>2, <1>9 DEF HeldLocks, WriterLock
<1>11. HeldSlot(c)'
  BY <1>15, <1>2, <1>9 DEF HeldSlot
<1>12. Phase(c)'
  <2>1. ck[c] = NoCk /\ ck'[c] = ck[c] /\ content'[c] = content[c]
    BY <1>1, <1>15, Here DEF Phase
  <2> QED BY <1>9, <2>1 DEF Phase
<1>13. Room(c)'
  BY <1>15, <1>2, <1>9, RoomKept
<1>14. Apart(c)
  BY <1>15, <1>2, <1>9 DEF Apart, CanExcl
<1> QED BY <1>3, <1>7, <1>8, <1>10, <1>11, <1>12, <1>13, <1>14, LockStep

LEMMA H0Type == H0 \in Hdr
<1>1. H0.init = TRUE /\ H0 = [ZeroHdr EXCEPT !.init = TRUE]
  BY DEF H0, ZeroHdr
<1> QED BY <1>1, Zeros DEF Hdr

LEMMA NothingToRecover ==
  ASSUME LockInv, Virgin
  PROVE  /\ LastCommit(wal) = 0 /\ \A i \in Frames : ~ValidTo(wal, i)
         /\ ~ValidTo(wal, 1)
         /\ wal.salt = 0 /\ wal.first = TRUE
         /\ Recovered(wal, db) = past[Len(past)]
<1>1. wal.salt = 0 /\ wal.first = TRUE
  BY DEF Virgin, NoWal
<1>2. \A n : ~ValidTo(wal, n)
  BY <1>1 DEF ValidTo
<1>3. LastCommit(wal) = 0
  <2>1. {n \in Frames : wal.frame[n].com /\ ValidTo(wal, n)} = {}
    BY <1>2
  <2>2. Max({0} \cup {}) \in 0..0
    BY MaxOf
  <2> QED BY <2>1, <2>2 DEF LastCommit
<1>4. Recovered(wal, db) = Blank
  <2>1. \A p \in Page : {i \in 1..0 : wal.frame[i].pg = p} = {}
    OBVIOUS
  <2>2. Recovered(wal, db) = [p \in Page |-> db[p]]
    BY <1>3, <2>1 DEF Recovered
  <2> QED BY <2>2 DEF Virgin, Blank
<1>5. past[Len(past)] = Blank
  BY DEF Virgin
<1> QED BY <1>1, <1>2, <1>3, <1>4, <1>5

\* Records with a few fields changed.
LEMMA HdrExcept ==
  ASSUME NEW h \in Hdr, NEW m \in 0..MaxFrame, NEW s \in 0..MaxSalt, NEW k \in Cksum
  PROVE  /\ [h EXCEPT !.mx = 0, !.salt = s] \in Hdr
         /\ [h EXCEPT !.salt = s, !.cksum = k] \in Hdr
         /\ [h EXCEPT !.salt = s, !.cksum = k].mx = h.mx
         /\ [h EXCEPT !.cksum = k] \in Hdr
         /\ [h EXCEPT !.cksum = k].mx = h.mx
<1>1. [h EXCEPT !.mx = 0, !.salt = s] \in Hdr
  <2>1. 0 \in 0..MaxFrame
    BY Numbers
  <2> QED BY <2>1 DEF Hdr
<1>2. [h EXCEPT !.salt = s, !.cksum = k] \in Hdr
  BY DEF Hdr
<1>3. [h EXCEPT !.salt = s, !.cksum = k].mx = h.mx
  BY DEF Hdr
<1>4. [h EXCEPT !.cksum = k] \in Hdr
  BY DEF Hdr
<1>5. [h EXCEPT !.cksum = k].mx = h.mx
  BY DEF Hdr
<1> QED BY <1>1, <1>2, <1>3, <1>4, <1>5

LEMMA CkExcept ==
  ASSUME NEW k \in Ck, NEW m \in {"PASSIVE", "FULL", "TRUNCATE"}, NEW n \in 0..NReader,
         NEW s \in 0..MaxFrame, NEW e \in 0..NotUsed, NEW b \in Nat, NEW t \in [Page -> 0..MaxFrame],
         NEW p \in Page
  PROVE  /\ [k EXCEPT !.mode = m, !.at = n] \in Ck
         /\ [k EXCEPT !.safe = s, !.iter = t] \in Ck
         /\ [k EXCEPT !.at = n] \in Ck
         /\ [k EXCEPT !.safe = s] \in Ck
         /\ [k EXCEPT !.seen = e] \in Ck
         /\ [k EXCEPT !.base = b] \in Ck
         /\ [k EXCEPT !.iter[p] = 0] \in Ck
<1>1. [k.iter EXCEPT ![p] = 0] \in [Page -> 0..MaxFrame]
  BY Numbers DEF Ck
<1> QED BY <1>1 DEF Ck

LEMMA CkFields ==
  /\ 0 \in 0..MaxFrame /\ 0 \in 0..MaxSalt /\ 0 \in Nat /\ 0 \in 0..NReader /\ 0 \in 0..NotUsed
  /\ "PASSIVE" \in {"PASSIVE", "FULL", "TRUNCATE"} /\ [p \in Page |-> 0] \in [Page -> 0..MaxFrame]
  /\ Page # {}
BY Numbers, WalAssumption

LEMMA NextFields ==
  ASSUME NEW k \in Ck, k.at \in Marks
  PROVE  /\ [k EXCEPT !.at = @ + 1] \in Ck
         /\ [k EXCEPT !.at = @ + 1].mode = k.mode
         /\ [k EXCEPT !.at = @ + 1].at = k.at + 1
         /\ k.at + 1 \in 2..NReader
BY Numbers DEF Ck, Marks

LEMMA LowerSafe ==
  ASSUME NEW k \in Ck, k.seen < k.safe
  PROVE  LET l == [k EXCEPT !.safe = SafeBelow(k)]
         IN  /\ l \in Ck /\ l.at = k.at /\ l.mode = k.mode
             /\ l.safe = k.seen /\ l.iter = k.iter /\ l.base = k.base
<1>1. k.seen \in 0..MaxFrame
  BY Numbers DEF Ck
<1> QED BY <1>1 DEF Ck, SafeBelow

LEMMA NextPhase ==
  ASSUME LockInv, NEW c \in Conn, NEW k \in Ck, k.at \in Marks, NextMark(c, k),
         content'[c] = None
  PROVE  Phase(c)'
<1>1. pc'[c] = IF k.at + 1 = NReader THEN "ck0" ELSE "ckmark"
  BY DEF NextMark, LockInv, ConnType
<1>2. ck'[c].at = k.at + 1
  BY NextFields DEF NextMark, LockInv, ConnType
<1>3. k.at + 1 # NReader => k.at + 1 \in Marks
  BY Numbers DEF Marks
<1> QED BY <1>1, <1>2, <1>3 DEF Phase

LEMMA FrameFound ==
  ASSUME LockInv, NEW c \in Conn, NEW p
  PROVE  /\ FindFrame(c, p) \in 0..hdr[c].mx
         /\ FindFrame(c, p) # 0 => /\ slot[c] # 0 /\ FindFrame(c, p) >= minFrame[c]
                                   /\ idx[FindFrame(c, p)] = p
         /\ slot[c] # 0 => \A i \in minFrame[c]..hdr[c].mx : idx[i] = p => i <= FindFrame(c, p)
<1>1. hdr[c].mx \in 0..MaxFrame /\ hdr[c].mx \in Nat /\ minFrame[c] \in Nat
  BY Here, Numbers
<1>2. CASE hdr[c].mx = 0 \/ slot[c] = 0
  <2>1. FindFrame(c, p) = 0
    BY <1>2 DEF FindFrame
  <2> QED BY <1>1, <1>2, <2>1
<1>3. CASE ~(hdr[c].mx = 0 \/ slot[c] = 0)
  <2> DEFINE T == {i \in minFrame[c]..hdr[c].mx : idx[i] = p}
  <2>1. FindFrame(c, p) = Max({0} \cup T)
    BY <1>3 DEF FindFrame
  <2>2. T \subseteq 0..hdr[c].mx
    BY <1>1
  <2>3. /\ Max({0} \cup T) \in {0} \cup T
        /\ \A y \in T : y <= Max({0} \cup T)
        /\ Max({0} \cup T) \in 0..hdr[c].mx
    <3> HIDE DEF T
    <3> QED BY <1>1, <2>2, MaxOf
  <2>4. Max({0} \cup T) # 0 => Max({0} \cup T) \in T
    <3> HIDE DEF T
    <3> QED BY <2>3
  <2> QED BY <1>1, <1>3, <2>1, <2>3, <2>4
<1> QED BY <1>2, <1>3

LEMMA WalFramesLock ==
  ASSUME LockInv, NEW c \in Conn, WalFrames(c), UNCHANGED env
  PROVE  LockInv'
<1>1. /\ pc[c] = "write" /\ vers < env.vers /\ content[c] \in Content
      /\ excl[c] = {WRITE} /\ ck[c] = NoCk /\ tx[c] \in Tx
      /\ Top(c) <= MaxFrame /\ tx[c].reck <= Top(c) /\ (slot[c] \notin Marks => tx[c].reck = 0)
      /\ slot[c] \in 0..Idle /\ slot[c] # Idle /\ tx[c].app = <<>>
  BY Here DEF WalFrames, Phase, HeldLocks, HeldSlot, Room
<1>2. PICK list \in (SUBSET Page) \ {{}}, com \in BOOLEAN :
        /\ content' = [content EXCEPT ![c] = [p \in Page |-> IF p \in list THEN vers + 1 ELSE @[p]]]
        /\ tx' = [tx EXCEPT ![c] = [@ EXCEPT !.list = list, !.com = com,
                    !.first = IF HeaderKept(c) THEN 0 ELSE head[0].mx + 1]]
        /\ pending' = IF com THEN pending \cup {<<Len(past), content'[c]>>} ELSE pending
  BY DEF WalFrames
<1>3. content'[c] \in Content /\ content'[c] # None /\ content' \in [Conn -> Content \cup {None}]
  <2>1. vers + 1 \in 0..MaxVer
    BY <1>1, WalAssumption DEF LockInv, SharedType
  <2>2. content'[c] = [p \in Page |-> IF p \in list THEN vers + 1 ELSE content[c][p]]
    BY <1>2 DEF LockInv, ConnType
  <2>3. content'[c] \in Content
    BY <1>1, <2>1, <2>2 DEF Content
  <2> QED BY <1>2, <2>3, Zeros DEF LockInv, ConnType
<1>4. /\ tx'[c].list = list /\ tx'[c].app = tx[c].app /\ tx'[c].reck = tx[c].reck
      /\ tx' \in [Conn -> Tx]
  <2>1. head[0].mx \in Nat
    BY Numbers DEF LockInv, SharedType, Hdr
  <2> DEFINE first == IF HeaderKept(c) THEN 0 ELSE head[0].mx + 1
  <2>2. first \in Nat
    BY <2>1
  <2> HIDE DEF first
  <2>3. /\ [tx[c] EXCEPT !.list = list, !.com = com, !.first = first] \in Tx
        /\ [tx[c] EXCEPT !.list = list, !.com = com, !.first = first].list = list
        /\ [tx[c] EXCEPT !.list = list, !.com = com, !.first = first].app = tx[c].app
        /\ [tx[c] EXCEPT !.list = list, !.com = com, !.first = first].reck = tx[c].reck
    BY <1>1, <2>2 DEF Tx
  <2>4. tx' = [tx EXCEPT ![c] = [tx[c] EXCEPT !.list = list, !.com = com, !.first = first]]
    BY <1>2 DEF first
  <2> QED BY <2>3, <2>4 DEF LockInv, ConnType
<1>5. SharedType'
  <2>1. vers' \in 0..MaxVer
    <3>1. vers \in Nat /\ env.vers \in 0..MaxVer /\ vers' = vers + 1
      BY WalAssumption DEF WalFrames, LockInv, SharedType
    <3> QED BY <1>1, <3>1, Numbers
  <2>2. pending' \subseteq (1..Len(past)) \X Content
    <3>1. <<Len(past), content'[c]>> \in (1..Len(past)) \X Content
      BY <1>3, Newest
    <3>2. pending \subseteq (1..Len(past)) \X Content
      BY DEF LockInv, SharedType
    <3>3. pending' \subseteq pending \cup {<<Len(past), content'[c]>>}
      BY <1>2
    <3> QED BY <3>1, <3>2, <3>3
  <2>3. UNCHANGED <<shm, files, salts, past>>
    BY DEF WalFrames
  <2> QED BY <2>1, <2>2, <2>3 DEF LockInv, SharedType
<1>6. \/ /\ slot[c] # 0 /\ Goto(c, "walhdr") /\ slot' = slot /\ excl' = excl
      \/ /\ slot[c] = 0 /\ CanExcl(c, Readers) /\ slot' = slot
         /\ excl' = [excl EXCEPT ![c] = @ \cup Readers] /\ Goto(c, "rs1")
      \/ /\ slot[c] = 0 /\ slot' = [slot EXCEPT ![c] = Idle] /\ excl' = excl /\ Goto(c, "pick")
  BY DEF WalFrames, Take
<1>7. UNCHANGED <<hdr, minFrame, cand, ck, fresh>>
  BY DEF WalFrames
<1>8. \/ /\ slot[c] \in Marks /\ pc'[c] = "walhdr" /\ slot'[c] = slot[c] /\ excl'[c] = excl[c]
      \/ /\ pc'[c] = "rs1" /\ slot'[c] = slot[c] /\ slot[c] = 0 /\ excl'[c] = excl[c] \cup Readers
         /\ CanExcl(c, Readers)
      \/ /\ slot[c] = 0 /\ pc'[c] = "pick" /\ slot'[c] = Idle /\ excl'[c] = excl[c]
  <2>1. slot[c] # 0 => slot[c] \in Marks
    BY <1>1, Numbers DEF Marks
  <2>2. pc \in [Conn -> PC] /\ slot \in [Conn -> 0..Idle] /\ excl \in [Conn -> SUBSET Lock]
    BY DEF LockInv, ConnType
  <2> HIDE DEF PC
  <2> QED BY <1>6, <2>1, <2>2
<1>9. ConnType'
  <2>1. pc' \in [Conn -> PC]
    <3>1. {"walhdr", "rs1", "pick"} \subseteq PC
      OBVIOUS
    <3> HIDE DEF PC, Goto
    <3> QED BY <1>6, <3>1, Moves
  <2>2. excl' \in [Conn -> SUBSET Lock]
    <3>1. Readers \subseteq Lock
      BY Locks DEF Readers
    <3> QED BY <1>6, <3>1 DEF LockInv, ConnType
  <2>3. slot' \in [Conn -> 0..Idle]
    BY <1>6, Locks DEF LockInv, ConnType
  <2> QED BY <1>3, <1>4, <1>7, <2>1, <2>2, <2>3 DEF LockInv, ConnType
<1>10. Still(c)
  BY <1>2, <1>6, <1>7 DEF LockInv, ConnType, Still
<1>11. HeldLocks(c)'
  BY <1>1, <1>3, <1>8 DEF HeldLocks, WriterLock
<1>12. HeldSlot(c)'
  BY <1>3, <1>8 DEF HeldSlot
<1>13. Phase(c)'
  BY <1>1, <1>3, <1>7, <1>8 DEF Phase
<1>14. Room(c)'
  <2>1. Top(c)' = Top(c) /\ list # {}
    BY <1>4, <1>7 DEF Top
  <2> QED BY <1>1, <1>3, <1>4, <1>8, <2>1, Locks DEF Room
<1>15. Apart(c)
  BY <1>8 DEF Apart, CanExcl
<1> QED BY <1>5, <1>9, <1>10, <1>11, <1>12, <1>13, <1>14, <1>15, LockStep

\* Checksums over the frames of a call.
Covered == (Page \cup {0}) \X (0..Torn) \X BOOLEAN

LEMMA EntryType ==
  ASSUME NEW f, f.pg \in Page \cup {0}, f.ver \in 0..MaxVer, f.com \in BOOLEAN
  PROVE  Entry(f) \in Covered
<1>1. f.ver \in 0..Torn
  BY Numbers DEF Torn
<1> QED BY <1>1 DEF Entry, Covered

LEMMA ExtendType ==
  ASSUME NEW s \in Cksum, NEW f, f.pg \in Page \cup {0}, f.ver \in 0..MaxVer, f.com \in BOOLEAN
  PROVE  Extend(s, f) \in Cksum
<1>1. Entry(f) \in Covered
  BY EntryType
<1>2. s.chain \in Seq(Covered)
  BY DEF Cksum, Covered
<1> HIDE DEF Covered
<1>3. Append(s.chain, Entry(f)) \in Seq(Covered)
  BY <1>1, <1>2
<1> QED BY <1>3 DEF Extend, Cksum, Covered

LEMMA ChainType ==
  ASSUME NEW s \in Cksum, NEW n \in Nat, NEW f \in [1..n -> Covered]
  PROVE  [s EXCEPT !.chain = @ \o f] \in Cksum
<1>1. s.chain \in Seq(Covered)
  BY DEF Cksum, Covered
<1> HIDE DEF Covered
<1>2. f \in Seq(Covered)
  OBVIOUS
<1>3. s.chain \o f \in Seq(Covered)
  BY <1>1, <1>2
<1> QED BY <1>3 DEF Cksum, Covered
LEMMA ReadHdrLock ==
  ASSUME LockInv, NEW c \in Conn, ReadHdr(c), UNCHANGED env
  PROVE  LockInv'
<1>1. SharedType'
  BY DEF ReadHdr, HeadIsGood, LockInv, SharedType
<1>2. pc' \in [Conn -> PC]
  BY DEF ReadHdr, HeadIsGood, LockInv, ConnType
<1>3. excl' \in [Conn -> SUBSET Lock] /\ slot' \in [Conn -> 0..Idle]
  BY Locks DEF ReadHdr, HeadIsGood, LockInv, ConnType
<1>4. hdr' \in [Conn -> Hdr] /\ minFrame' \in [Conn -> 0..MaxFrame + 1]
  BY Zeros DEF ReadHdr, HeadIsGood, LockInv, SharedType, ConnType
<1>5. content' \in [Conn -> Content \cup {None}] /\ cand' \in [Conn -> Cand]
  BY Zeros DEF ReadHdr, HeadIsGood, LockInv, SharedType, ConnType
<1>6. tx' \in [Conn -> Tx] /\ ck' \in [Conn -> Ck] /\ fresh' \in [Conn -> BOOLEAN]
  BY Zeros DEF ReadHdr, HeadIsGood, LockInv, SharedType, ConnType
<1>7. Still(c)
  BY DEF ReadHdr, HeadIsGood, LockInv, ConnType, Still
<1>8. HeldLocks(c)'
  BY Here, Locks DEF ReadHdr, HeadIsGood, LockInv, ConnType, HeldLocks, HeldSlot, WriterLock, CkptLocks, Phase
<1>9. HeldSlot(c)'
  BY Here, Locks DEF ReadHdr, HeadIsGood, LockInv, ConnType, HeldSlot, Phase
<1>10. Phase(c)'
  BY Here, Locks DEF ReadHdr, HeadIsGood, LockInv, ConnType, Phase
<1>11. Room(c)'
  <2>1. tx'[c] = tx[c] /\ content'[c] = content[c] /\ pc'[c] \in {"choose", "ckinfo"}
    BY DEF ReadHdr, LockInv, ConnType
  <2>2. tx[c] = NoTx
    BY Here DEF ReadHdr, Room
  <2>3. hdr'[c] \in Hdr
    BY <1>4
  <2> QED BY <2>1, <2>2, <2>3, RoomEmpty
<1>12. Apart(c)
  BY Here, Locks DEF ReadHdr, HeadIsGood, LockInv, ConnType, HeldLocks, HeldSlot, Apart
<1> QED BY <1>1, <1>2, <1>3, <1>4, <1>5, <1>6, <1>7, <1>8, <1>9, <1>10, <1>11, <1>12, LockStep DEF ConnType

LEMMA ChooseLock ==
  ASSUME LockInv, NEW c \in Conn, Choose(c), UNCHANGED env
  PROVE  LockInv'
<1>1. SharedType'
  BY DEF Choose, LockInv, SharedType
<1>2. pc' \in [Conn -> PC]
  BY DEF Choose, LockInv, ConnType
<1>3. excl' \in [Conn -> SUBSET Lock] /\ slot' \in [Conn -> 0..Idle]
  BY Locks DEF Choose, LockInv, ConnType
<1>4. hdr' \in [Conn -> Hdr] /\ minFrame' \in [Conn -> 0..MaxFrame + 1]
  BY Zeros DEF Choose, LockInv, SharedType, ConnType
<1>5. content' \in [Conn -> Content \cup {None}] /\ cand' \in [Conn -> Cand]
  BY Zeros DEF Choose, LockInv, SharedType, ConnType
<1>6. tx' \in [Conn -> Tx] /\ ck' \in [Conn -> Ck] /\ fresh' \in [Conn -> BOOLEAN]
  BY Zeros DEF Choose, LockInv, SharedType, ConnType
<1>7. Still(c)
  BY DEF Choose, LockInv, ConnType, Still
<1>8. HeldLocks(c)'
  BY Here, Locks DEF Choose, LockInv, ConnType, HeldLocks, HeldSlot, WriterLock, CkptLocks, Phase
<1>9. HeldSlot(c)'
  BY Here, Locks DEF Choose, LockInv, ConnType, HeldSlot, Phase
<1>10. Phase(c)'
  BY Here, Locks DEF Choose, LockInv, ConnType, Phase
<1>11. Room(c)'
  <2>1. /\ tx'[c] = tx[c] /\ hdr'[c].mx = hdr[c].mx
        /\ content'[c] = content[c] /\ pc'[c] # "recksum"
    BY DEF Choose, LockInv, ConnType
  <2>2. pc'[c] \in Plain \cup Recovering \cup Ckpts => tx[c] = NoTx
    BY Here DEF Choose, LockInv, ConnType, Room, Phase
  <2>3. (pc'[c] \in Pickers \cup Restarting => tx[c].reck = 0)
        /\ (pc'[c] \in Pickers \cup Restarting \cup NoFrames => tx[c].app = <<>>)
    BY Here, EmptyTx DEF Choose, LockInv, ConnType, Room, Phase
  <2>4. slot'[c] \in Marks \/ tx[c].reck = 0
    BY Here, EmptyTx, Locks DEF Choose, LockInv, ConnType, Room, Phase, HeldSlot
  <2>5. content[c] # None /\ pc'[c] \in Pickers \cup Restarting \cup Filling => tx[c].list # {}
    BY Here DEF Choose, LockInv, ConnType, Room, Phase
  <2> QED BY <2>1, <2>2, <2>3, <2>4, <2>5, RoomKept
<1>12. Apart(c)
  BY Here, Locks DEF Choose, LockInv, ConnType, HeldLocks, HeldSlot, Apart
<1> QED BY <1>1, <1>2, <1>3, <1>4, <1>5, <1>6, <1>7, <1>8, <1>9, <1>10, <1>11, <1>12, LockStep DEF ConnType

LEMMA Lock0Lock ==
  ASSUME LockInv, NEW c \in Conn, Lock0(c), UNCHANGED env
  PROVE  LockInv'
<1>1. SharedType'
  BY DEF Lock0, CanShare, LockInv, SharedType
<1>2. pc' \in [Conn -> PC]
  BY DEF Lock0, CanShare, LockInv, ConnType
<1>3. excl' \in [Conn -> SUBSET Lock] /\ slot' \in [Conn -> 0..Idle]
  BY Locks DEF Lock0, CanShare, LockInv, ConnType
<1>4. hdr' \in [Conn -> Hdr] /\ minFrame' \in [Conn -> 0..MaxFrame + 1]
  BY Zeros DEF Lock0, CanShare, LockInv, SharedType, ConnType
<1>5. content' \in [Conn -> Content \cup {None}] /\ cand' \in [Conn -> Cand]
  BY Zeros DEF Lock0, CanShare, LockInv, SharedType, ConnType
<1>6. tx' \in [Conn -> Tx] /\ ck' \in [Conn -> Ck] /\ fresh' \in [Conn -> BOOLEAN]
  BY Zeros DEF Lock0, CanShare, LockInv, SharedType, ConnType
<1>7. Still(c)
  BY DEF Lock0, CanShare, LockInv, ConnType, Still
<1>8. HeldLocks(c)'
  BY Here, Locks DEF Lock0, CanShare, LockInv, ConnType, HeldLocks, HeldSlot, WriterLock, CkptLocks, Phase
<1>9. HeldSlot(c)'
  BY Here, Locks DEF Lock0, CanShare, LockInv, ConnType, HeldSlot, Phase
<1>10. Phase(c)'
  BY Here, Locks DEF Lock0, CanShare, LockInv, ConnType, Phase
<1>11. Room(c)'
  <2>1. /\ tx'[c] = tx[c] /\ hdr'[c].mx = hdr[c].mx
        /\ content'[c] = content[c] /\ pc'[c] # "recksum"
    BY DEF Lock0, CanShare, LockInv, ConnType
  <2>2. pc'[c] \in Plain \cup Recovering \cup Ckpts => tx[c] = NoTx
    BY Here DEF Lock0, CanShare, LockInv, ConnType, Room, Phase
  <2>3. (pc'[c] \in Pickers \cup Restarting => tx[c].reck = 0)
        /\ (pc'[c] \in Pickers \cup Restarting \cup NoFrames => tx[c].app = <<>>)
    BY Here, EmptyTx DEF Lock0, CanShare, LockInv, ConnType, Room, Phase
  <2>4. slot'[c] \in Marks \/ tx[c].reck = 0
    BY Here, EmptyTx, Locks DEF Lock0, CanShare, LockInv, ConnType, Room, Phase, HeldSlot
  <2>5. content[c] # None /\ pc'[c] \in Pickers \cup Restarting \cup Filling => tx[c].list # {}
    BY Here DEF Lock0, CanShare, LockInv, ConnType, Room, Phase
  <2> QED BY <2>1, <2>2, <2>3, <2>4, <2>5, RoomKept
<1>12. Apart(c)
  BY Here, Locks DEF Lock0, CanShare, LockInv, ConnType, HeldLocks, HeldSlot, Apart
<1> QED BY <1>1, <1>2, <1>3, <1>4, <1>5, <1>6, <1>7, <1>8, <1>9, <1>10, <1>11, <1>12, LockStep DEF ConnType

LEMMA Check0Lock ==
  ASSUME LockInv, NEW c \in Conn, Check0(c), UNCHANGED env
  PROVE  LockInv'
<1>1. SharedType'
  BY DEF Check0, Begun, LockInv, SharedType
<1>2. pc' \in [Conn -> PC]
  BY DEF Check0, Begun, LockInv, ConnType
<1>3. excl' \in [Conn -> SUBSET Lock] /\ slot' \in [Conn -> 0..Idle]
  BY Locks DEF Check0, Begun, LockInv, ConnType
<1>4. hdr' \in [Conn -> Hdr] /\ minFrame' \in [Conn -> 0..MaxFrame + 1]
  BY Zeros DEF Check0, Begun, LockInv, SharedType, ConnType
<1>5. content' \in [Conn -> Content \cup {None}] /\ cand' \in [Conn -> Cand]
  BY Zeros DEF Check0, Begun, LockInv, SharedType, ConnType
<1>6. tx' \in [Conn -> Tx] /\ ck' \in [Conn -> Ck] /\ fresh' \in [Conn -> BOOLEAN]
  BY Zeros DEF Check0, Begun, LockInv, SharedType, ConnType
<1>7. Still(c)
  BY DEF Check0, Begun, LockInv, ConnType, Still
<1>8. HeldLocks(c)'
  BY Here, Locks DEF Check0, Begun, LockInv, ConnType, HeldLocks, HeldSlot, WriterLock, CkptLocks, Phase
<1>9. HeldSlot(c)'
  BY Here, Locks DEF Check0, Begun, LockInv, ConnType, HeldSlot, Phase
<1>10. Phase(c)'
  BY Here, Newest DEF Check0, Begun, LockInv, ConnType, Phase, K
<1>11. Room(c)'
  BY <1>4, RoomEmpty, Here DEF Check0, Begun, LockInv, ConnType, Room, Phase
<1>12. Apart(c)
  BY Here, Locks DEF Check0, Begun, LockInv, ConnType, HeldLocks, HeldSlot, Apart
<1> QED BY <1>1, <1>2, <1>3, <1>4, <1>5, <1>6, <1>7, <1>8, <1>9, <1>10, <1>11, <1>12, LockStep DEF ConnType

LEMMA SetMarkLock ==
  ASSUME LockInv, NEW c \in Conn, SetMark(c), UNCHANGED env
  PROVE  LockInv'
<1>1. SharedType'
  <2>1. cand[c].i \in Marks /\ cand[c].m \in 0..NotUsed /\ mark \in [Marks -> 0..NotUsed]
    BY Here DEF SetMark, Phase, Cand, LockInv, SharedType
  <2> QED BY <2>1 DEF SetMark, LockInv, SharedType
<1>2. pc' \in [Conn -> PC]
  BY DEF SetMark, Release, LockInv, ConnType
<1>3. excl' \in [Conn -> SUBSET Lock] /\ slot' \in [Conn -> 0..Idle]
  BY Locks DEF SetMark, Release, LockInv, ConnType
<1>4. hdr' \in [Conn -> Hdr] /\ minFrame' \in [Conn -> 0..MaxFrame + 1]
  BY Zeros DEF SetMark, Release, LockInv, SharedType, ConnType
<1>5. content' \in [Conn -> Content \cup {None}] /\ cand' \in [Conn -> Cand]
  BY Zeros DEF SetMark, Release, LockInv, SharedType, ConnType
<1>6. tx' \in [Conn -> Tx] /\ ck' \in [Conn -> Ck] /\ fresh' \in [Conn -> BOOLEAN]
  BY Zeros DEF SetMark, Release, LockInv, SharedType, ConnType
<1>7. Still(c)
  BY DEF SetMark, Release, LockInv, ConnType, Still
<1>8. HeldLocks(c)'
  <2>1. excl[c] = WriterLock(c) \cup {cand[c].i} /\ cand[c].i \in Marks
    BY Here DEF SetMark, HeldLocks, Phase
  <2>2. excl'[c] = excl[c] \ {cand[c].i} /\ pc'[c] = "share" /\ content'[c] = content[c]
    BY DEF SetMark, Release, LockInv, ConnType
  <2>3. WRITE # cand[c].i
    BY <2>1, Locks
  <2> QED BY <2>1, <2>2, <2>3 DEF HeldLocks, WriterLock
<1>9. HeldSlot(c)'
  BY Here, Locks DEF SetMark, Release, LockInv, ConnType, HeldSlot, Phase
<1>10. Phase(c)'
  BY Here, Locks DEF SetMark, Release, LockInv, ConnType, Phase
<1>11. Room(c)'
  <2>1. /\ tx'[c] = tx[c] /\ hdr'[c].mx = hdr[c].mx
        /\ content'[c] = content[c] /\ pc'[c] # "recksum"
    BY DEF SetMark, Release, LockInv, ConnType
  <2>2. pc'[c] \in Plain \cup Recovering \cup Ckpts => tx[c] = NoTx
    BY Here DEF SetMark, Release, LockInv, ConnType, Room, Phase
  <2>3. (pc'[c] \in Pickers \cup Restarting => tx[c].reck = 0)
        /\ (pc'[c] \in Pickers \cup Restarting \cup NoFrames => tx[c].app = <<>>)
    BY Here, EmptyTx DEF SetMark, Release, LockInv, ConnType, Room, Phase
  <2>4. slot'[c] \in Marks \/ tx[c].reck = 0
    BY Here, EmptyTx, Locks DEF SetMark, Release, LockInv, ConnType, Room, Phase, HeldSlot
  <2>5. content[c] # None /\ pc'[c] \in Pickers \cup Restarting \cup Filling => tx[c].list # {}
    BY Here DEF SetMark, Release, LockInv, ConnType, Room, Phase
  <2> QED BY <2>1, <2>2, <2>3, <2>4, <2>5, RoomKept
<1>12. Apart(c)
  BY Here, Locks DEF SetMark, Release, LockInv, ConnType, HeldLocks, HeldSlot, Apart
<1> QED BY <1>1, <1>2, <1>3, <1>4, <1>5, <1>6, <1>7, <1>8, <1>9, <1>10, <1>11, <1>12, LockStep DEF ConnType

LEMMA ShareLock ==
  ASSUME LockInv, NEW c \in Conn, Share(c), UNCHANGED env
  PROVE  LockInv'
<1>1. SharedType'
  BY DEF Share, CanShare, LockInv, SharedType
<1>2. pc' \in [Conn -> PC]
  BY DEF Share, CanShare, LockInv, ConnType
<1>3. excl' \in [Conn -> SUBSET Lock] /\ slot' \in [Conn -> 0..Idle]
  <2>1. cand[c].i \in 0..Idle
    BY Here, Locks DEF Share, Phase
  <2> QED BY <2>1 DEF Share, LockInv, ConnType
<1>4. hdr' \in [Conn -> Hdr] /\ minFrame' \in [Conn -> 0..MaxFrame + 1]
  <2>1. nBackfill + 1 \in 0..MaxFrame + 1
    BY Numbers DEF LockInv, SharedType
  <2> QED BY <2>1 DEF Share, LockInv, ConnType
<1>5. content' \in [Conn -> Content \cup {None}] /\ cand' \in [Conn -> Cand]
  BY Zeros DEF Share, CanShare, LockInv, SharedType, ConnType
<1>6. tx' \in [Conn -> Tx] /\ ck' \in [Conn -> Ck] /\ fresh' \in [Conn -> BOOLEAN]
  BY Zeros DEF Share, CanShare, LockInv, SharedType, ConnType
<1>7. Still(c)
  BY DEF Share, CanShare, LockInv, ConnType, Still
<1>8. HeldLocks(c)'
  <2>1. excl[c] = WriterLock(c) /\ excl'[c] = excl[c] /\ content'[c] = content[c]
    BY Here DEF Share, HeldLocks
  <2>2. pc'[c] \in {"recheck", "idle", "pick"} /\ (pc'[c] = "idle" => content[c] = None)
    BY DEF Share, LockInv, ConnType
  <2> QED BY <2>1, <2>2 DEF HeldLocks, WriterLock
<1>9. HeldSlot(c)'
  BY Here, Locks DEF Share, CanShare, LockInv, ConnType, HeldSlot, Phase
<1>10. Phase(c)'
  <2>1. cand[c].i \in Marks /\ ck[c] = NoCk
    BY Here DEF Share, Phase
  <2>2. pc'[c] \in {"recheck", "idle", "pick"} /\ (pc'[c] = "idle" => content[c] = None)
    BY DEF Share, LockInv, ConnType
  <2> QED BY <2>1, <2>2 DEF Share, Phase
<1>11. Room(c)'
  <2>1. /\ tx'[c] = tx[c] /\ hdr'[c].mx = hdr[c].mx
        /\ content'[c] = content[c] /\ pc'[c] # "recksum"
    BY DEF Share, CanShare, LockInv, ConnType
  <2>2. pc'[c] \in Plain \cup Recovering \cup Ckpts => tx[c] = NoTx
    BY Here DEF Share, CanShare, LockInv, ConnType, Room, Phase
  <2>3. (pc'[c] \in Pickers \cup Restarting => tx[c].reck = 0)
        /\ (pc'[c] \in Pickers \cup Restarting \cup NoFrames => tx[c].app = <<>>)
    BY Here, EmptyTx DEF Share, CanShare, LockInv, ConnType, Room, Phase
  <2>4. slot'[c] \in Marks \/ tx[c].reck = 0
    BY Here, EmptyTx, Locks DEF Share, CanShare, LockInv, ConnType, Room, Phase, HeldSlot
  <2>5. content[c] # None /\ pc'[c] \in Pickers \cup Restarting \cup Filling => tx[c].list # {}
    BY Here DEF Share, CanShare, LockInv, ConnType, Room, Phase
  <2> QED BY <2>1, <2>2, <2>3, <2>4, <2>5, RoomKept
<1>12. Apart(c)
  BY Here, Locks DEF Share, CanShare, LockInv, ConnType, HeldLocks, HeldSlot, Apart
<1> QED BY <1>1, <1>2, <1>3, <1>4, <1>5, <1>6, <1>7, <1>8, <1>9, <1>10, <1>11, <1>12, LockStep DEF ConnType

LEMMA RecheckLock ==
  ASSUME LockInv, NEW c \in Conn, Recheck(c), UNCHANGED env
  PROVE  LockInv'
<1>1. SharedType'
  BY DEF Recheck, Begun, LockInv, SharedType
<1>2. pc' \in [Conn -> PC]
  BY DEF Recheck, Begun, LockInv, ConnType
<1>3. excl' \in [Conn -> SUBSET Lock] /\ slot' \in [Conn -> 0..Idle]
  BY Locks DEF Recheck, Begun, LockInv, ConnType
<1>4. hdr' \in [Conn -> Hdr] /\ minFrame' \in [Conn -> 0..MaxFrame + 1]
  BY Zeros DEF Recheck, Begun, LockInv, SharedType, ConnType
<1>5. content' \in [Conn -> Content \cup {None}] /\ cand' \in [Conn -> Cand]
  BY Zeros DEF Recheck, Begun, LockInv, SharedType, ConnType
<1>6. tx' \in [Conn -> Tx] /\ ck' \in [Conn -> Ck] /\ fresh' \in [Conn -> BOOLEAN]
  BY Zeros DEF Recheck, Begun, LockInv, SharedType, ConnType
<1>7. Still(c)
  BY DEF Recheck, Begun, LockInv, ConnType, Still
<1>8. HeldLocks(c)'
  BY Here, Locks DEF Recheck, Begun, LockInv, ConnType, HeldLocks, HeldSlot, WriterLock, CkptLocks, Phase
<1>9. HeldSlot(c)'
  BY Here, Locks DEF Recheck, Begun, LockInv, ConnType, HeldSlot, Phase
<1>10. Phase(c)'
  <2>1. ck'[c] = NoCk
    BY Here DEF Recheck, Phase
  <2>2. \/ pc'[c] = "read" /\ content'[c] = K
        \/ pc'[c] = "idle" /\ content'[c] = None
        \/ pc'[c] \in {"walhdr", "pick"} /\ content'[c] # None
    BY DEF Recheck, Begun, LockInv, ConnType, K
  <2> QED BY <2>1, <2>2, Newest DEF Phase
<1>11. Room(c)'
  <2>1. CASE content[c] = None
    BY <1>4, <2>1, RoomEmpty, Here DEF Recheck, Begun, LockInv, ConnType, Room
  <2>2. CASE content[c] # None
    <3>1. /\ tx'[c] = tx[c] /\ hdr'[c].mx = hdr[c].mx /\ content'[c] = content[c]
          /\ pc'[c] \in {"walhdr", "pick"}
      BY <2>2 DEF Recheck, Begun, LockInv, ConnType
    <3>2. tx[c].app = <<>> /\ tx[c].reck = 0 /\ tx[c].list # {}
      BY <2>2, Here DEF Recheck, Room
    <3> QED BY <3>1, <3>2, RoomKept
  <2> QED BY <2>1, <2>2
<1>12. Apart(c)
  BY Here, Locks DEF Recheck, Begun, LockInv, ConnType, HeldLocks, HeldSlot, Apart
<1> QED BY <1>1, <1>2, <1>3, <1>4, <1>5, <1>6, <1>7, <1>8, <1>9, <1>10, <1>11, <1>12, LockStep DEF ConnType

LEMMA EndReadLock ==
  ASSUME LockInv, NEW c \in Conn, EndRead(c), UNCHANGED env
  PROVE  LockInv'
<1>1. SharedType'
  BY DEF EndRead, Forget, LockInv, SharedType
<1>2. pc' \in [Conn -> PC]
  BY DEF EndRead, Forget, LockInv, ConnType
<1>3. excl' \in [Conn -> SUBSET Lock] /\ slot' \in [Conn -> 0..Idle]
  BY Locks DEF EndRead, Forget, LockInv, ConnType
<1>4. hdr' \in [Conn -> Hdr] /\ minFrame' \in [Conn -> 0..MaxFrame + 1]
  <2>1. 0 \in 0..MaxFrame + 1
    BY Numbers
  <2> QED BY <2>1, Zeros DEF EndRead, Forget, LockInv, ConnType
<1>5. content' \in [Conn -> Content \cup {None}] /\ cand' \in [Conn -> Cand]
  BY Zeros DEF EndRead, Forget, LockInv, SharedType, ConnType
<1>6. tx' \in [Conn -> Tx] /\ ck' \in [Conn -> Ck] /\ fresh' \in [Conn -> BOOLEAN]
  BY Zeros DEF EndRead, Forget, LockInv, SharedType, ConnType
<1>7. Still(c)
  BY DEF EndRead, Forget, LockInv, ConnType, Still
<1>8. HeldLocks(c)'
  BY Here, Locks DEF EndRead, Forget, LockInv, ConnType, HeldLocks, HeldSlot, WriterLock, CkptLocks, Phase
<1>9. HeldSlot(c)'
  BY Here, Locks DEF EndRead, Forget, LockInv, ConnType, HeldSlot, Phase
<1>10. Phase(c)'
  BY Here, Locks DEF EndRead, Forget, LockInv, ConnType, Phase
<1>11. Room(c)'
  BY <1>4, RoomEmpty, Here DEF EndRead, Forget, LockInv, ConnType, Room, Phase
<1>12. Apart(c)
  BY Here, Locks DEF EndRead, Forget, LockInv, ConnType, HeldLocks, HeldSlot, Apart
<1> QED BY <1>1, <1>2, <1>3, <1>4, <1>5, <1>6, <1>7, <1>8, <1>9, <1>10, <1>11, <1>12, LockStep DEF ConnType

LEMMA RecoverLockLock ==
  ASSUME LockInv, NEW c \in Conn, RecoverLock(c), UNCHANGED env
  PROVE  LockInv'
<1>1. SharedType'
  BY DEF RecoverLock, Take, CanExcl, RecoverLocks, LockInv, SharedType
<1>2. pc' \in [Conn -> PC]
  BY DEF RecoverLock, Take, CanExcl, RecoverLocks, LockInv, ConnType
<1>3. excl' \in [Conn -> SUBSET Lock] /\ slot' \in [Conn -> 0..Idle]
  BY Locks DEF RecoverLock, Take, CanExcl, RecoverLocks, LockInv, ConnType
<1>4. hdr' \in [Conn -> Hdr] /\ minFrame' \in [Conn -> 0..MaxFrame + 1]
  BY Zeros DEF RecoverLock, Take, CanExcl, RecoverLocks, LockInv, SharedType, ConnType
<1>5. content' \in [Conn -> Content \cup {None}] /\ cand' \in [Conn -> Cand]
  BY Zeros DEF RecoverLock, Take, CanExcl, RecoverLocks, LockInv, SharedType, ConnType
<1>6. tx' \in [Conn -> Tx] /\ ck' \in [Conn -> Ck] /\ fresh' \in [Conn -> BOOLEAN]
  BY Zeros DEF RecoverLock, Take, CanExcl, RecoverLocks, LockInv, SharedType, ConnType
<1>7. Still(c)
  BY DEF RecoverLock, Take, CanExcl, RecoverLocks, LockInv, ConnType, Still
<1>8. HeldLocks(c)'
  <2>1. \/ pc'[c] = "ckquit" /\ excl'[c] = excl[c] /\ pc[c] = "ckhdr"
        \/ pc'[c] = "rec1" /\ excl'[c] = Lock
    <3>1. excl[c] \subseteq Lock /\ (pc[c] = "idle" => excl[c] = {}) /\ pc[c] \in {"idle", "ckhdr"}
      BY Here DEF RecoverLock, HeldLocks
    <3>2. CASE CKPT \in excl[c]
      BY <3>1, <3>2 DEF RecoverLock, RecoverLocks, LockInv, ConnType
    <3>3. CASE CKPT \notin excl[c]
      <4>1. excl'[c] = excl[c] \cup Lock /\ pc'[c] = "rec1"
        BY <3>3 DEF RecoverLock, Take, RecoverLocks, LockInv, ConnType
      <4> QED BY <3>1, <4>1
    <3> QED BY <3>2, <3>3
  <2>2. ck'[c] = ck[c] /\ (pc[c] = "ckhdr" => excl[c] = CkptLocks(c))
    BY Here DEF RecoverLock, HeldLocks
  <2> QED BY <2>1, <2>2 DEF HeldLocks, CkptLocks
<1>9. HeldSlot(c)'
  BY Here, Locks DEF RecoverLock, Take, CanExcl, RecoverLocks, LockInv, ConnType, HeldSlot, Phase
<1>10. Phase(c)'
  <2>1. \/ pc[c] = "ckhdr" /\ excl[c] = CkptLocks(c) /\ ck[c].at = 1 /\ ck[c] \in Ck
        \/ pc[c] = "idle" /\ excl[c] = {} /\ ck[c] = NoCk
    BY Here DEF RecoverLock, HeldLocks, Phase
  <2>2. \/ pc'[c] = "ckquit"
        \/ pc'[c] = "rec1" /\ (CKPT \in excl[c] => WRITE \notin excl[c])
    BY DEF RecoverLock, Take, LockInv, ConnType
  <2>3. ck'[c] = ck[c] /\ content'[c] = content[c] /\ content[c] = None
    BY Here DEF RecoverLock, Phase
  <2> QED BY <2>1, <2>2, <2>3 DEF Phase, CkptLocks
<1>11. Room(c)'
  BY ZenonT(60), <1>4, RoomEmpty, Here DEF RecoverLock, Take, CanExcl, RecoverLocks, LockInv, ConnType, Room, Phase
<1>12. Apart(c)
  BY Here, Locks DEF RecoverLock, Take, CanExcl, RecoverLocks, LockInv, ConnType, HeldLocks, HeldSlot, Apart
<1> QED BY <1>1, <1>2, <1>3, <1>4, <1>5, <1>6, <1>7, <1>8, <1>9, <1>10, <1>11, <1>12, LockStep DEF ConnType

LEMMA Rec1Lock ==
  ASSUME LockInv, HeadInv, NEW c \in Conn, Rec1(c), UNCHANGED env
  PROVE  LockInv'
<1>0. /\ pc[c] = "rec1" /\ LastCommit(wal) = 0 /\ \A i \in Frames : ~ValidTo(wal, i)
      /\ ~ValidTo(wal, 1) /\ wal.salt = 0 /\ wal.first = TRUE
  BY NothingToRecover DEF Rec1, HeadInv, HeadOf, Unborn
<1>1. SharedType'
  <2>1. idx' = idx /\ head' = [head EXCEPT ![1] = H0]
    <3>1. idx \in [Frames -> Page \cup {0}]
      BY DEF LockInv, SharedType
    <3> QED BY <1>0, <3>1 DEF Rec1, H0, ZeroHdr
  <2>2. H0 \in Hdr
    BY H0Type
  <2>3. UNCHANGED <<nBackfill, mark, files, vers, salts, history>>
    BY DEF Rec1
  <2> QED BY <2>1, <2>2, <2>3 DEF LockInv, SharedType
<1>2. pc' \in [Conn -> PC]
  BY DEF Rec1, LockInv, ConnType
<1>3. excl' \in [Conn -> SUBSET Lock] /\ slot' \in [Conn -> 0..Idle]
  BY Locks DEF Rec1, LockInv, ConnType
<1>4. hdr' \in [Conn -> Hdr] /\ minFrame' \in [Conn -> 0..MaxFrame + 1]
  <2>1. hdr' = [hdr EXCEPT ![c] = H0]
    BY <1>0 DEF Rec1, H0, ZeroHdr
  <2>2. H0 \in Hdr
    BY H0Type
  <2> QED BY ZenonT(60), <2>1, <2>2 DEF Rec1, LockInv, ConnType
<1>5. content' \in [Conn -> Content \cup {None}] /\ cand' \in [Conn -> Cand]
  BY Zeros DEF Rec1, LockInv, SharedType, ConnType
<1>6. tx' \in [Conn -> Tx] /\ ck' \in [Conn -> Ck] /\ fresh' \in [Conn -> BOOLEAN]
  BY <1>0 DEF Rec1, LockInv, ConnType
<1>7. Still(c)
  BY DEF Rec1, LockInv, ConnType, Still
<1>8. HeldLocks(c)'
  BY Here, Locks DEF Rec1, LockInv, ConnType, HeldLocks, HeldSlot, WriterLock, CkptLocks, Phase
<1>9. HeldSlot(c)'
  BY Here, Locks DEF Rec1, LockInv, ConnType, HeldSlot, Phase
<1>10. Phase(c)'
  BY Here, Locks DEF Rec1, LockInv, ConnType, Phase
<1>11. Room(c)'
  <2>1. tx[c] = NoTx /\ tx'[c] = tx[c] /\ pc'[c] = "rec2"
    BY Here DEF Rec1, Room, LockInv, ConnType
  <2> QED BY <1>4, <2>1, RoomEmpty
<1>12. Apart(c)
  BY Here, Locks DEF Rec1, LockInv, ConnType, HeldLocks, HeldSlot, Apart
<1> QED BY <1>1, <1>2, <1>3, <1>4, <1>5, <1>6, <1>7, <1>8, <1>9, <1>10, <1>11, <1>12, LockStep DEF ConnType

LEMMA Rec2Lock ==
  ASSUME LockInv, HeadInv, NEW c \in Conn, Rec2(c), UNCHANGED env
  PROVE  LockInv'
<1>1. SharedType'
  <2>1. head' = [head EXCEPT ![0] = hdr[c]] /\ hdr[c] \in Hdr
    BY Here DEF Rec2
  <2>2. UNCHANGED history
    BY NothingToRecover DEF Rec2, HeadInv, HeadOf, Unborn
  <2> QED BY <2>1, <2>2 DEF Rec2, LockInv, SharedType
<1>2. pc' \in [Conn -> PC]
  BY DEF Rec2, LockInv, ConnType
<1>3. excl' \in [Conn -> SUBSET Lock] /\ slot' \in [Conn -> 0..Idle]
  BY Locks DEF Rec2, LockInv, ConnType
<1>4. hdr' \in [Conn -> Hdr] /\ minFrame' \in [Conn -> 0..MaxFrame + 1]
  BY Zeros DEF Rec2, LockInv, SharedType, ConnType
<1>5. content' \in [Conn -> Content \cup {None}] /\ cand' \in [Conn -> Cand]
  BY Zeros DEF Rec2, LockInv, SharedType, ConnType
<1>6. tx' \in [Conn -> Tx] /\ ck' \in [Conn -> Ck] /\ fresh' \in [Conn -> BOOLEAN]
  BY Zeros DEF Rec2, LockInv, SharedType, ConnType
<1>7. Still(c)
  BY DEF Rec2, LockInv, ConnType, Still
<1>8. HeldLocks(c)'
  BY Here, Locks DEF Rec2, LockInv, ConnType, HeldLocks, HeldSlot, WriterLock, CkptLocks, Phase
<1>9. HeldSlot(c)'
  BY Here, Locks DEF Rec2, LockInv, ConnType, HeldSlot, Phase
<1>10. Phase(c)'
  BY Here, Locks DEF Rec2, LockInv, ConnType, Phase
<1>11. Room(c)'
  <2>1. /\ tx'[c] = tx[c] /\ hdr'[c].mx = hdr[c].mx
        /\ content'[c] = content[c] /\ pc'[c] # "recksum"
    BY DEF Rec2, LockInv, ConnType
  <2>2. pc'[c] \in Plain \cup Recovering \cup Ckpts => tx[c] = NoTx
    BY Here DEF Rec2, LockInv, ConnType, Room, Phase
  <2>3. (pc'[c] \in Pickers \cup Restarting => tx[c].reck = 0)
        /\ (pc'[c] \in Pickers \cup Restarting \cup NoFrames => tx[c].app = <<>>)
    BY Here, EmptyTx DEF Rec2, LockInv, ConnType, Room, Phase
  <2>4. slot'[c] \in Marks \/ tx[c].reck = 0
    BY Here, EmptyTx, Locks DEF Rec2, LockInv, ConnType, Room, Phase, HeldSlot
  <2>5. content[c] # None /\ pc'[c] \in Pickers \cup Restarting \cup Filling => tx[c].list # {}
    BY Here DEF Rec2, LockInv, ConnType, Room, Phase
  <2> QED BY <2>1, <2>2, <2>3, <2>4, <2>5, RoomKept
<1>12. Apart(c)
  BY Here, Locks DEF Rec2, LockInv, ConnType, HeldLocks, HeldSlot, Apart
<1> QED BY <1>1, <1>2, <1>3, <1>4, <1>5, <1>6, <1>7, <1>8, <1>9, <1>10, <1>11, <1>12, LockStep DEF ConnType

LEMMA Rec3Lock ==
  ASSUME LockInv, HeadInv, NEW c \in Conn, Rec3(c), UNCHANGED env
  PROVE  LockInv'
<1>1. SharedType'
  <2>1. hdr[c].mx \in 0..NotUsed /\ NotUsed \in 0..NotUsed /\ 0 \in 0..MaxFrame
    BY Here, Numbers
  <2> QED BY <2>1 DEF Rec3, LockInv, SharedType
<1>2. pc' \in [Conn -> PC]
  BY DEF Rec3, LockInv, ConnType
<1>3. excl' \in [Conn -> SUBSET Lock] /\ slot' \in [Conn -> 0..Idle]
  BY Locks DEF Rec3, LockInv, ConnType
<1>4. hdr' \in [Conn -> Hdr] /\ minFrame' \in [Conn -> 0..MaxFrame + 1]
  BY Zeros DEF Rec3, LockInv, SharedType, ConnType
<1>5. content' \in [Conn -> Content \cup {None}] /\ cand' \in [Conn -> Cand]
  BY Zeros DEF Rec3, LockInv, SharedType, ConnType
<1>6. tx' \in [Conn -> Tx] /\ ck' \in [Conn -> Ck] /\ fresh' \in [Conn -> BOOLEAN]
  BY Zeros DEF Rec3, LockInv, SharedType, ConnType
<1>7. Still(c)
  BY DEF Rec3, LockInv, ConnType, Still
<1>8. HeldLocks(c)'
  <2>1. excl[c] = Lock /\ content[c] = None /\ content'[c] = None
        /\ (ck[c] = NoCk \/ (ck[c].at = 1 /\ ck[c].mode = "PASSIVE")) /\ ck'[c] = ck[c]
    BY Here DEF Rec3, HeldLocks, Phase
  <2>2. \/ pc'[c] = "ckinfo" /\ ck[c].at = 1 /\ excl'[c] = {CKPT}
        \/ pc'[c] = "choose" /\ excl'[c] = {}
    BY DEF Rec3, LockInv, ConnType
  <2> QED BY <2>1, <2>2 DEF HeldLocks, CkptLocks, NoCk
<1>9. HeldSlot(c)'
  BY Here, Locks DEF Rec3, LockInv, ConnType, HeldSlot, Phase
<1>10. Phase(c)'
  <2>1. excl[c] = Lock /\ content[c] = None /\ content'[c] = None
        /\ (ck[c] = NoCk \/ (ck[c].at = 1 /\ ck[c].mode = "PASSIVE")) /\ ck'[c] = ck[c]
    BY Here DEF Rec3, HeldLocks, Phase
  <2>2. \/ pc'[c] = "ckinfo" /\ ck[c].at = 1
        \/ pc'[c] = "choose" /\ ck[c].at # 1
    BY <2>1, Locks DEF Rec3, LockInv, ConnType
  <2> QED BY <2>1, <2>2 DEF Phase
<1>11. Room(c)'
  <2>1. /\ tx'[c] = tx[c] /\ hdr'[c].mx = hdr[c].mx
        /\ content'[c] = content[c] /\ pc'[c] # "recksum"
    BY DEF Rec3, LockInv, ConnType
  <2>2. pc'[c] \in Plain \cup Recovering \cup Ckpts => tx[c] = NoTx
    BY Here DEF Rec3, LockInv, ConnType, Room, Phase
  <2>3. (pc'[c] \in Pickers \cup Restarting => tx[c].reck = 0)
        /\ (pc'[c] \in Pickers \cup Restarting \cup NoFrames => tx[c].app = <<>>)
    BY Here, EmptyTx DEF Rec3, LockInv, ConnType, Room, Phase
  <2>4. slot'[c] \in Marks \/ tx[c].reck = 0
    BY Here, EmptyTx, Locks DEF Rec3, LockInv, ConnType, Room, Phase, HeldSlot
  <2>5. content[c] # None /\ pc'[c] \in Pickers \cup Restarting \cup Filling => tx[c].list # {}
    BY Here DEF Rec3, LockInv, ConnType, Room, Phase
  <2> QED BY <2>1, <2>2, <2>3, <2>4, <2>5, RoomKept
<1>12. Apart(c)
  BY Here, Locks DEF Rec3, LockInv, ConnType, HeldLocks, HeldSlot, Apart
<1> QED BY <1>1, <1>2, <1>3, <1>4, <1>5, <1>6, <1>7, <1>8, <1>9, <1>10, <1>11, <1>12, LockStep DEF ConnType

LEMMA BeginWriteLock ==
  ASSUME LockInv, NEW c \in Conn, BeginWrite(c), UNCHANGED env
  PROVE  LockInv'
<1>1. SharedType'
  BY DEF BeginWrite, Take, CanExcl, LockInv, SharedType
<1>2. pc' \in [Conn -> PC]
  BY DEF BeginWrite, Take, CanExcl, LockInv, ConnType
<1>3. excl' \in [Conn -> SUBSET Lock] /\ slot' \in [Conn -> 0..Idle]
  BY Locks DEF BeginWrite, Take, CanExcl, LockInv, ConnType
<1>4. hdr' \in [Conn -> Hdr] /\ minFrame' \in [Conn -> 0..MaxFrame + 1]
  BY Zeros DEF BeginWrite, Take, CanExcl, LockInv, SharedType, ConnType
<1>5. content' \in [Conn -> Content \cup {None}] /\ cand' \in [Conn -> Cand]
  BY Zeros DEF BeginWrite, Take, CanExcl, LockInv, SharedType, ConnType
<1>6. tx' \in [Conn -> Tx] /\ ck' \in [Conn -> Ck] /\ fresh' \in [Conn -> BOOLEAN]
  BY Zeros DEF BeginWrite, Take, CanExcl, LockInv, SharedType, ConnType
<1>7. Still(c)
  BY DEF BeginWrite, Take, CanExcl, LockInv, ConnType, Still
<1>8. HeldLocks(c)'
  BY Here, Locks DEF BeginWrite, Take, CanExcl, LockInv, ConnType, HeldLocks, HeldSlot, WriterLock, CkptLocks, Phase
<1>9. HeldSlot(c)'
  BY Here, Locks DEF BeginWrite, Take, CanExcl, LockInv, ConnType, HeldSlot, Phase
<1>10. Phase(c)'
  BY Here, Locks DEF BeginWrite, Take, CanExcl, LockInv, ConnType, Phase
<1>11. Room(c)'
  <2>1. /\ tx'[c] = tx[c] /\ hdr'[c].mx = hdr[c].mx
        /\ content'[c] = content[c] /\ pc'[c] # "recksum"
    BY DEF BeginWrite, Take, CanExcl, LockInv, ConnType
  <2>2. pc'[c] \in Plain \cup Recovering \cup Ckpts => tx[c] = NoTx
    BY Here DEF BeginWrite, Take, CanExcl, LockInv, ConnType, Room, Phase
  <2>3. (pc'[c] \in Pickers \cup Restarting => tx[c].reck = 0)
        /\ (pc'[c] \in Pickers \cup Restarting \cup NoFrames => tx[c].app = <<>>)
    BY Here, EmptyTx DEF BeginWrite, Take, CanExcl, LockInv, ConnType, Room, Phase
  <2>4. slot'[c] \in Marks \/ tx[c].reck = 0
    BY Here, EmptyTx, Locks DEF BeginWrite, Take, CanExcl, LockInv, ConnType, Room, Phase, HeldSlot
  <2>5. content[c] # None /\ pc'[c] \in Pickers \cup Restarting \cup Filling => tx[c].list # {}
    BY Here DEF BeginWrite, Take, CanExcl, LockInv, ConnType, Room, Phase
  <2> QED BY <2>1, <2>2, <2>3, <2>4, <2>5, RoomKept
<1>12. Apart(c)
  BY Here, Locks DEF BeginWrite, Take, CanExcl, LockInv, ConnType, HeldLocks, HeldSlot, Apart
<1> QED BY <1>1, <1>2, <1>3, <1>4, <1>5, <1>6, <1>7, <1>8, <1>9, <1>10, <1>11, <1>12, LockStep DEF ConnType

LEMMA Restart1Lock ==
  ASSUME LockInv, SaltRoom, NEW c \in Conn, Restart1(c), UNCHANGED env
  PROVE  LockInv'
<1>0. [hdr[c] EXCEPT !.mx = 0, !.salt = salts + 1] \in Hdr /\ salts + 1 \in 0..env.salts
  <2>1. salts \in 0..env.salts /\ env.salts \in 0..MaxSalt /\ salts < env.salts
    BY WalAssumption DEF LockInv, SharedType, SaltRoom, NeedsSalt, Restart1
  <2>2. salts + 1 \in 0..MaxSalt /\ salts + 1 \in 0..env.salts /\ hdr[c] \in Hdr /\ 0 \in 0..MaxFrame /\ NoCksum \in Cksum
    BY <2>1, Here, Numbers, Zeros
  <2> QED BY <2>2, HdrExcept
<1>1. SharedType'
  BY <1>0 DEF Restart1, LockInv, SharedType
<1>2. pc' \in [Conn -> PC]
  BY DEF Restart1, LockInv, ConnType
<1>3. excl' \in [Conn -> SUBSET Lock] /\ slot' \in [Conn -> 0..Idle]
  BY Locks DEF Restart1, LockInv, ConnType
<1>4. hdr' \in [Conn -> Hdr] /\ minFrame' \in [Conn -> 0..MaxFrame + 1]
  BY <1>0 DEF Restart1, LockInv, ConnType
<1>5. content' \in [Conn -> Content \cup {None}] /\ cand' \in [Conn -> Cand]
  BY Zeros DEF Restart1, LockInv, SharedType, ConnType
<1>6. tx' \in [Conn -> Tx] /\ ck' \in [Conn -> Ck] /\ fresh' \in [Conn -> BOOLEAN]
  BY Zeros DEF Restart1, LockInv, SharedType, ConnType
<1>7. Still(c)
  BY DEF Restart1, LockInv, ConnType, Still
<1>8. HeldLocks(c)'
  BY Here, Locks DEF Restart1, LockInv, ConnType, HeldLocks, HeldSlot, WriterLock, CkptLocks, Phase
<1>9. HeldSlot(c)'
  BY Here, Locks DEF Restart1, LockInv, ConnType, HeldSlot, Phase
<1>10. Phase(c)'
  BY Here, Locks DEF Restart1, LockInv, ConnType, Phase
<1>11. Room(c)'
  <2>1. tx'[c] = tx[c] /\ hdr'[c].mx = 0 /\ content'[c] = content[c] /\ pc'[c] = "rs2" /\ slot'[c] = slot[c]
    BY Here DEF Restart1, LockInv, ConnType, Hdr
  <2>2. tx[c].app = <<>> /\ tx[c].reck = 0 /\ (content[c] = None => tx[c] = NoTx)
        /\ (content[c] # None => tx[c].list # {})
    BY Here DEF Restart1, Room
  <2> QED BY <2>1, <2>2, Numbers DEF Room, Top
<1>12. Apart(c)
  BY Here, Locks DEF Restart1, LockInv, ConnType, HeldLocks, HeldSlot, Apart
<1> QED BY <1>1, <1>2, <1>3, <1>4, <1>5, <1>6, <1>7, <1>8, <1>9, <1>10, <1>11, <1>12, LockStep DEF ConnType

LEMMA Restart2Lock ==
  ASSUME LockInv, NEW c \in Conn, Restart2(c), UNCHANGED env
  PROVE  LockInv'
<1>1. SharedType'
  <2>1. hdr[c] \in Hdr
    BY Here
  <2> QED BY <2>1 DEF Restart2, LockInv, SharedType
<1>2. pc' \in [Conn -> PC]
  BY DEF Restart2, LockInv, ConnType
<1>3. excl' \in [Conn -> SUBSET Lock] /\ slot' \in [Conn -> 0..Idle]
  BY Locks DEF Restart2, LockInv, ConnType
<1>4. hdr' \in [Conn -> Hdr] /\ minFrame' \in [Conn -> 0..MaxFrame + 1]
  BY Zeros DEF Restart2, LockInv, SharedType, ConnType
<1>5. content' \in [Conn -> Content \cup {None}] /\ cand' \in [Conn -> Cand]
  BY Zeros DEF Restart2, LockInv, SharedType, ConnType
<1>6. tx' \in [Conn -> Tx] /\ ck' \in [Conn -> Ck] /\ fresh' \in [Conn -> BOOLEAN]
  BY Zeros DEF Restart2, LockInv, SharedType, ConnType
<1>7. Still(c)
  BY DEF Restart2, LockInv, ConnType, Still
<1>8. HeldLocks(c)'
  BY Here, Locks DEF Restart2, LockInv, ConnType, HeldLocks, HeldSlot, WriterLock, CkptLocks, Phase
<1>9. HeldSlot(c)'
  BY Here, Locks DEF Restart2, LockInv, ConnType, HeldSlot, Phase
<1>10. Phase(c)'
  BY Here, Locks DEF Restart2, LockInv, ConnType, Phase
<1>11. Room(c)'
  <2>1. /\ tx'[c] = tx[c] /\ hdr'[c].mx = hdr[c].mx
        /\ content'[c] = content[c] /\ pc'[c] # "recksum"
    BY DEF Restart2, LockInv, ConnType
  <2>2. pc'[c] \in Plain \cup Recovering \cup Ckpts => tx[c] = NoTx
    BY Here DEF Restart2, LockInv, ConnType, Room, Phase
  <2>3. (pc'[c] \in Pickers \cup Restarting => tx[c].reck = 0)
        /\ (pc'[c] \in Pickers \cup Restarting \cup NoFrames => tx[c].app = <<>>)
    BY Here, EmptyTx DEF Restart2, LockInv, ConnType, Room, Phase
  <2>4. slot'[c] \in Marks \/ tx[c].reck = 0
    BY Here, EmptyTx, Locks DEF Restart2, LockInv, ConnType, Room, Phase, HeldSlot
  <2>5. content[c] # None /\ pc'[c] \in Pickers \cup Restarting \cup Filling => tx[c].list # {}
    BY Here DEF Restart2, LockInv, ConnType, Room, Phase
  <2> QED BY <2>1, <2>2, <2>3, <2>4, <2>5, RoomKept
<1>12. Apart(c)
  BY Here, Locks DEF Restart2, LockInv, ConnType, HeldLocks, HeldSlot, Apart
<1> QED BY <1>1, <1>2, <1>3, <1>4, <1>5, <1>6, <1>7, <1>8, <1>9, <1>10, <1>11, <1>12, LockStep DEF ConnType

LEMMA Restart3Lock ==
  ASSUME LockInv, NEW c \in Conn, Restart3(c), UNCHANGED env
  PROVE  LockInv'
<1>1. SharedType'
  <2>1. 0 \in 0..NotUsed /\ NotUsed \in 0..NotUsed /\ 0 \in 0..MaxFrame
    BY Numbers
  <2> QED BY <2>1 DEF Restart3, ResetInfo, LockInv, SharedType
<1>2. pc' \in [Conn -> PC]
  BY DEF Restart3, ResetInfo, Release, LockInv, ConnType
<1>3. excl' \in [Conn -> SUBSET Lock] /\ slot' \in [Conn -> 0..Idle]
  BY Locks DEF Restart3, ResetInfo, Release, LockInv, ConnType
<1>4. hdr' \in [Conn -> Hdr] /\ minFrame' \in [Conn -> 0..MaxFrame + 1]
  BY Zeros DEF Restart3, ResetInfo, Release, LockInv, SharedType, ConnType
<1>5. content' \in [Conn -> Content \cup {None}] /\ cand' \in [Conn -> Cand]
  BY Zeros DEF Restart3, ResetInfo, Release, LockInv, SharedType, ConnType
<1>6. tx' \in [Conn -> Tx] /\ ck' \in [Conn -> Ck] /\ fresh' \in [Conn -> BOOLEAN]
  BY Zeros DEF Restart3, ResetInfo, Release, LockInv, SharedType, ConnType
<1>7. Still(c)
  BY DEF Restart3, ResetInfo, Release, LockInv, ConnType, Still
<1>8. HeldLocks(c)'
  <2>1. excl[c] = Readers \cup (IF content[c] = None THEN {CKPT, WRITE} ELSE {WRITE}) /\ Readers = Marks
    BY Here DEF Restart3, HeldLocks, Readers
  <2>2. \/ content[c] = None /\ pc'[c] = "cktrunc" /\ excl'[c] = excl[c]
        \/ content[c] # None /\ pc'[c] = "pick" /\ excl'[c] = excl[c] \ Readers
    BY DEF Restart3, Release, LockInv, ConnType
  <2>3. content'[c] = content[c] /\ (content[c] # None => excl'[c] = {WRITE})
    BY <2>1, <2>2, Locks DEF Restart3
  <2> QED BY <2>1, <2>2, <2>3 DEF HeldLocks, WriterLock
<1>9. HeldSlot(c)'
  BY Here, Locks DEF Restart3, ResetInfo, Release, LockInv, ConnType, HeldSlot, Phase
<1>10. Phase(c)'
  BY Here, Locks DEF Restart3, ResetInfo, Release, LockInv, ConnType, Phase
<1>11. Room(c)'
  <2>1. /\ tx'[c] = tx[c] /\ hdr'[c].mx = hdr[c].mx
        /\ content'[c] = content[c] /\ pc'[c] # "recksum"
    BY DEF Restart3, ResetInfo, Release, LockInv, ConnType
  <2>2. pc'[c] \in Plain \cup Recovering \cup Ckpts => tx[c] = NoTx
    BY Here DEF Restart3, ResetInfo, Release, LockInv, ConnType, Room, Phase
  <2>3. (pc'[c] \in Pickers \cup Restarting => tx[c].reck = 0)
        /\ (pc'[c] \in Pickers \cup Restarting \cup NoFrames => tx[c].app = <<>>)
    BY Here, EmptyTx DEF Restart3, ResetInfo, Release, LockInv, ConnType, Room, Phase
  <2>4. slot'[c] \in Marks \/ tx[c].reck = 0
    BY Here, EmptyTx, Locks DEF Restart3, ResetInfo, Release, LockInv, ConnType, Room, Phase, HeldSlot
  <2>5. content[c] # None /\ pc'[c] \in Pickers \cup Restarting \cup Filling => tx[c].list # {}
    BY Here DEF Restart3, ResetInfo, Release, LockInv, ConnType, Room, Phase
  <2> QED BY <2>1, <2>2, <2>3, <2>4, <2>5, RoomKept
<1>12. Apart(c)
  BY Here, Locks DEF Restart3, ResetInfo, Release, LockInv, ConnType, HeldLocks, HeldSlot, Apart
<1> QED BY <1>1, <1>2, <1>3, <1>4, <1>5, <1>6, <1>7, <1>8, <1>9, <1>10, <1>11, <1>12, LockStep DEF ConnType

LEMMA WalHdrLock ==
  ASSUME LockInv, SaltRoom, NEW c \in Conn, WalHdr(c), UNCHANGED env
  PROVE  LockInv'
<1>0. \/ /\ hdr[c].mx > 0 /\ pc' = [pc EXCEPT ![c] = "frame"] /\ UNCHANGED <<hdr, wal, salts>>
      \/ \E s \in 0..MaxSalt : /\ pc' = [pc EXCEPT ![c] = "hdrsync"]
                        /\ salts' \in 0..env.salts
                        /\ wal' = [wal EXCEPT !.salt = s, !.first = fresh[c]]
                        /\ hdr' = [hdr EXCEPT ![c] = [@ EXCEPT !.salt = s,
                                     !.cksum = [salt |-> s, chain |-> <<>>]]]
  <2>1. hdr[c].salt \in 0..MaxSalt /\ salts \in 0..env.salts /\ env.salts \in 0..MaxSalt
    <3>1. hdr[c] \in Hdr
      BY Here
    <3>2. salts \in 0..env.salts /\ env.salts \in 0..MaxSalt
      BY WalAssumption DEF LockInv, SharedType
    <3> QED BY <3>1, <3>2 DEF Hdr
  <2>2. CASE hdr[c].mx > 0
    BY <2>2 DEF WalHdr
  <2>3. CASE ~(hdr[c].mx > 0)
    <3> DEFINE s == IF fresh[c] THEN salts + 1 ELSE hdr[c].salt
    <3>0. fresh[c] => salts < env.salts
      <4>1. content[c] # None /\ hdr[c].mx = 0
        BY <2>3, Here, Numbers DEF WalHdr, Phase
      <4> QED BY <4>1 DEF WalHdr, SaltRoom, NeedsSalt
    <3>1. s \in 0..MaxSalt
      BY <2>1, <3>0, Numbers
    <3>2. /\ pc' = [pc EXCEPT ![c] = "hdrsync"]
          /\ salts' = IF fresh[c] THEN salts + 1 ELSE salts
          /\ wal' = [wal EXCEPT !.salt = s, !.first = fresh[c]]
          /\ hdr' = [hdr EXCEPT ![c] = [@ EXCEPT !.salt = s,
                                     !.cksum = [salt |-> s, chain |-> <<>>]]]
      BY <2>3 DEF WalHdr
    <3>3. salts' \in 0..env.salts
      BY <2>1, <3>0, <3>2
    <3> HIDE DEF s
    <3> QED BY <3>1, <3>2, <3>3
  <2> QED BY <2>2, <2>3
<1>1. SharedType'
  <2>1. salts' \in 0..env.salts
    BY <1>0 DEF LockInv, SharedType
  <2>2. wal' \in WalFile
    BY <1>0, Here DEF LockInv, SharedType, WalFile
  <2> QED BY <2>1, <2>2 DEF WalHdr, LockInv, SharedType
<1>2. pc' \in [Conn -> PC]
  BY DEF WalHdr, LockInv, ConnType
<1>3. excl' \in [Conn -> SUBSET Lock] /\ slot' \in [Conn -> 0..Idle]
  BY Locks DEF WalHdr, LockInv, ConnType
<1>4. hdr' \in [Conn -> Hdr] /\ minFrame' \in [Conn -> 0..MaxFrame + 1]
  <2>1. \A s \in 0..MaxSalt : [salt |-> s, chain |-> <<>>] \in Cksum
    BY DEF Cksum
  <2>2. \A s \in 0..MaxSalt : [hdr[c] EXCEPT !.salt = s, !.cksum = [salt |-> s, chain |-> <<>>]] \in Hdr
    <3>1. hdr[c] \in Hdr /\ 0 \in 0..MaxFrame
      BY Here, Numbers
    <3> QED BY <2>1, <3>1, HdrExcept
  <2>3. hdr' \in [Conn -> Hdr]
    <3>1. hdr \in [Conn -> Hdr]
      BY DEF LockInv, ConnType
    <3> QED BY ZenonT(60), <1>0, <2>2, <3>1
  <2> QED BY <2>3 DEF WalHdr, LockInv, ConnType
<1>5. content' \in [Conn -> Content \cup {None}] /\ cand' \in [Conn -> Cand]
  BY Zeros DEF WalHdr, LockInv, SharedType, ConnType
<1>6. tx' \in [Conn -> Tx] /\ ck' \in [Conn -> Ck] /\ fresh' \in [Conn -> BOOLEAN]
  BY Zeros DEF WalHdr, LockInv, SharedType, ConnType
<1>7. Still(c)
  BY DEF WalHdr, LockInv, ConnType, Still
<1>8. HeldLocks(c)'
  BY Here, Locks DEF WalHdr, LockInv, ConnType, HeldLocks, HeldSlot, WriterLock, CkptLocks, Phase
<1>9. HeldSlot(c)'
  BY Here, Locks DEF WalHdr, LockInv, ConnType, HeldSlot, Phase
<1>10. Phase(c)'
  BY Here, Locks DEF WalHdr, LockInv, ConnType, Phase
<1>11. Room(c)'
  <2>1. tx'[c] = tx[c] /\ content'[c] = content[c] /\ slot'[c] = slot[c] /\ slot[c] \in Marks
        /\ pc'[c] \in {"frame", "hdrsync"} /\ tx[c].list # {} /\ tx[c].app = <<>>
    BY ZenonT(60), Here DEF WalHdr, HeldSlot, LockInv, ConnType, Phase, Room
  <2>2. hdr'[c].mx = hdr[c].mx
    <3>1. hdr[c] \in Hdr /\ hdr \in [Conn -> Hdr]
      BY Here DEF LockInv, ConnType
    <3>2. \A s \in 0..MaxSalt : [hdr[c] EXCEPT !.salt = s, !.cksum = [salt |-> s, chain |-> <<>>]].mx = hdr[c].mx
      BY <3>1 DEF Hdr
    <3> QED BY <1>0, <3>1, <3>2
  <2> QED BY <2>1, <2>2, RoomKept
<1>12. Apart(c)
  BY Here, Locks DEF WalHdr, LockInv, ConnType, HeldLocks, HeldSlot, Apart
<1> QED BY <1>1, <1>2, <1>3, <1>4, <1>5, <1>6, <1>7, <1>8, <1>9, <1>10, <1>11, <1>12, LockStep DEF ConnType

LEMMA SyncHdrLock ==
  ASSUME LockInv, NEW c \in Conn, SyncHdr(c), UNCHANGED env
  PROVE  LockInv'
<1>1. SharedType'
  BY DEF SyncHdr, SyncWal, LockInv, SharedType
<1>2. pc' \in [Conn -> PC]
  BY DEF SyncHdr, SyncWal, LockInv, ConnType
<1>3. excl' \in [Conn -> SUBSET Lock] /\ slot' \in [Conn -> 0..Idle]
  BY Locks DEF SyncHdr, SyncWal, LockInv, ConnType
<1>4. hdr' \in [Conn -> Hdr] /\ minFrame' \in [Conn -> 0..MaxFrame + 1]
  BY Zeros DEF SyncHdr, SyncWal, LockInv, SharedType, ConnType
<1>5. content' \in [Conn -> Content \cup {None}] /\ cand' \in [Conn -> Cand]
  BY Zeros DEF SyncHdr, SyncWal, LockInv, SharedType, ConnType
<1>6. tx' \in [Conn -> Tx] /\ ck' \in [Conn -> Ck] /\ fresh' \in [Conn -> BOOLEAN]
  BY Zeros DEF SyncHdr, SyncWal, LockInv, SharedType, ConnType
<1>7. Still(c)
  BY DEF SyncHdr, SyncWal, LockInv, ConnType, Still
<1>8. HeldLocks(c)'
  BY Here, Locks DEF SyncHdr, SyncWal, LockInv, ConnType, HeldLocks, HeldSlot, WriterLock, CkptLocks, Phase
<1>9. HeldSlot(c)'
  BY Here, Locks DEF SyncHdr, SyncWal, LockInv, ConnType, HeldSlot, Phase
<1>10. Phase(c)'
  BY Here, Locks DEF SyncHdr, SyncWal, LockInv, ConnType, Phase
<1>11. Room(c)'
  <2>1. /\ tx'[c] = tx[c] /\ hdr'[c].mx = hdr[c].mx
        /\ content'[c] = content[c] /\ pc'[c] # "recksum"
    BY DEF SyncHdr, SyncWal, LockInv, ConnType
  <2>2. pc'[c] \in Plain \cup Recovering \cup Ckpts => tx[c] = NoTx
    BY Here DEF SyncHdr, SyncWal, LockInv, ConnType, Room, Phase
  <2>3. (pc'[c] \in Pickers \cup Restarting => tx[c].reck = 0)
        /\ (pc'[c] \in Pickers \cup Restarting \cup NoFrames => tx[c].app = <<>>)
    BY Here, EmptyTx DEF SyncHdr, SyncWal, LockInv, ConnType, Room, Phase
  <2>4. slot'[c] \in Marks \/ tx[c].reck = 0
    BY Here, EmptyTx, Locks DEF SyncHdr, SyncWal, LockInv, ConnType, Room, Phase, HeldSlot
  <2>5. content[c] # None /\ pc'[c] \in Pickers \cup Restarting \cup Filling => tx[c].list # {}
    BY Here DEF SyncHdr, SyncWal, LockInv, ConnType, Room, Phase
  <2> QED BY <2>1, <2>2, <2>3, <2>4, <2>5, RoomKept
<1>12. Apart(c)
  BY Here, Locks DEF SyncHdr, SyncWal, LockInv, ConnType, HeldLocks, HeldSlot, Apart
<1> QED BY <1>1, <1>2, <1>3, <1>4, <1>5, <1>6, <1>7, <1>8, <1>9, <1>10, <1>11, <1>12, LockStep DEF ConnType

LEMMA WriteFrameLock ==
  ASSUME LockInv, NEW c \in Conn, WriteFrame(c), UNCHANGED env
  PROVE  LockInv'
<1>0. /\ tx[c].list \subseteq Page /\ Min(tx[c].list) \in tx[c].list
      /\ hdr[c] \in Hdr /\ hdr[c].cksum \in Cksum /\ content[c][Min(tx[c].list)] \in 0..MaxVer
      /\ \A b \in BOOLEAN, k \in Cksum :
           [pg |-> Min(tx[c].list), ver |-> content[c][Min(tx[c].list)], com |-> b, cksum |-> k] \in Frame
      /\ \A b \in BOOLEAN :
           Extend(hdr[c].cksum, [pg |-> Min(tx[c].list), ver |-> content[c][Min(tx[c].list)],
                                 com |-> b, cksum |-> NoCksum]) \in Cksum
      /\ Top(c) \in Nat /\ tx[c] \in Tx /\ tx[c].first \in Nat
      /\ wal \in WalFile /\ env.frames \in 0..MaxFrame
  <2>1. tx[c].list \subseteq Page /\ tx[c].list # {} /\ content[c] \in Content
        /\ hdr[c] \in Hdr /\ tx[c] \in Tx
    BY Here DEF WriteFrame, Room, Phase, Tx
  <2>2. Min(tx[c].list) \in tx[c].list
    <3>1. tx[c].list \subseteq Nat
      BY <2>1, WalAssumption
    <3> QED BY <2>1, <3>1, MinOf
  <2>3. hdr[c].cksum \in Cksum
    BY <2>1 DEF Hdr
  <2>4. content[c][Min(tx[c].list)] \in 0..MaxVer
    BY <2>1, <2>2 DEF Content
  <2>5. Top(c) \in Nat
    BY Here, Numbers DEF Top
  <2>6. tx[c].first \in Nat
    BY <2>1 DEF Tx
  <2>7. wal \in WalFile /\ env.frames \in 0..MaxFrame
    BY WalAssumption DEF LockInv, SharedType
  <2>8. \A b \in BOOLEAN, k \in Cksum :
           [pg |-> Min(tx[c].list), ver |-> content[c][Min(tx[c].list)], com |-> b, cksum |-> k] \in Frame
    BY <2>1, <2>2, <2>4 DEF Frame
  <2>9. \A b \in BOOLEAN :
           Extend(hdr[c].cksum, [pg |-> Min(tx[c].list), ver |-> content[c][Min(tx[c].list)],
                                 com |-> b, cksum |-> NoCksum]) \in Cksum
    BY <2>1, <2>2, <2>3, <2>4, ExtendType
  <2> QED BY <2>1, <2>2, <2>3, <2>4, <2>5, <2>6, <2>7, <2>8, <2>9
<1>1. SharedType'
  <2> DEFINE p == Min(tx[c].list)
             b == tx[c].com /\ tx[c].list = {p}
             over == tx[c].first > 0 /\ (tx[c].list # {p} \/ ~tx[c].com) /\ FindFrame(c, p) >= tx[c].first
             f == [pg |-> p, ver |-> content[c][p], com |-> b, cksum |-> NoCksum]
             g == [f EXCEPT !.cksum = Extend(hdr[c].cksum, f)]
             new == hdr[c].mx + Len(tx[c].app) + 1
  <2>1. f \in Frame /\ g \in Frame
    <3>1. b \in BOOLEAN /\ NoCksum \in Cksum
      BY <1>0, Zeros DEF Tx
    <3>2. f \in Frame
      BY <1>0, <3>1
    <3>3. Extend(hdr[c].cksum, f) \in Cksum
      BY <1>0, <3>1
    <3> HIDE DEF f
    <3> QED BY <3>2, <3>3 DEF Frame
  <2>2. new \in Frames
    BY SMTT(30), <1>0, Numbers DEF WriteFrame, Top, Frames
  <2>3. over => FindFrame(c, p) \in Frames
    <3>1. FindFrame(c, p) \in 0..MaxFrame
      BY FrameFound, Here, Numbers
    <3> QED BY <1>0, <3>1 DEF Frames
  <2>4. IF over THEN wal' = [wal EXCEPT !.frame[FindFrame(c, p)].ver = f.ver]
        ELSE wal' = [wal EXCEPT !.frame[new] = f] \/ wal' = [wal EXCEPT !.frame[new] = g]
    BY DEF WriteFrame
  <2>5. f.ver \in 0..MaxVer
    BY <1>0
  <2> HIDE DEF f, g, over, new
  <2>6. wal' \in WalFile
    <3>1. \A h \in Frame, v \in 0..MaxVer : [h EXCEPT !.ver = v] \in Frame
      BY DEF Frame
    <3>2. CASE over
      BY <1>0, <2>3, <2>4, <2>5, <3>1, <3>2 DEF WalFile
    <3>3. CASE ~over
      BY <1>0, <2>1, <2>2, <2>4, <3>3 DEF WalFile
    <3> QED BY <3>2, <3>3
  <2> QED BY <2>6 DEF WriteFrame, LockInv, SharedType
<1>2. pc' \in [Conn -> PC]
  BY DEF WriteFrame, LockInv, ConnType
<1>3. excl' \in [Conn -> SUBSET Lock] /\ slot' \in [Conn -> 0..Idle]
  BY Locks DEF WriteFrame, LockInv, ConnType
<1>4. hdr' \in [Conn -> Hdr] /\ minFrame' \in [Conn -> 0..MaxFrame + 1]
  <2>1. \E k \in Cksum : hdr' = hdr \/ hdr' = [hdr EXCEPT ![c].cksum = k]
    BY <1>0 DEF WriteFrame
  <2>2. \A k \in Cksum : [hdr[c] EXCEPT !.cksum = k] \in Hdr
    BY <1>0, HdrExcept, CkFields
  <2>3. hdr \in [Conn -> Hdr]
    BY DEF LockInv, ConnType
  <2>4. hdr' \in [Conn -> Hdr]
    BY <2>1, <2>2, <2>3
  <2> QED BY <2>4 DEF WriteFrame, LockInv, ConnType
<1>5. content' \in [Conn -> Content \cup {None}] /\ cand' \in [Conn -> Cand]
  BY Zeros DEF WriteFrame, LockInv, SharedType, ConnType
<1>6. tx' \in [Conn -> Tx] /\ ck' \in [Conn -> Ck] /\ fresh' \in [Conn -> BOOLEAN]
  <2> DEFINE p == Min(tx[c].list)
  <2>1. PICK r \in 0..MaxFrame, a \in Seq(Page) :
          tx' = [tx EXCEPT ![c] = [tx[c] EXCEPT !.list = @ \ {p}, !.reck = r, !.app = a]]
    <3>1. FindFrame(c, p) \in 0..MaxFrame
      BY FrameFound, Here, Numbers
    <3>2. ReckFrom(tx[c], FindFrame(c, p)) \in 0..MaxFrame /\ tx[c].reck \in 0..MaxFrame
      BY <1>0, <3>1 DEF ReckFrom, Tx
    <3>3. Append(tx[c].app, p) \in Seq(Page) /\ tx[c].app \in Seq(Page)
      BY <1>0 DEF Tx
    <3> QED BY <3>2, <3>3 DEF WriteFrame
  <2>2. [tx[c] EXCEPT !.list = @ \ {p}, !.reck = r, !.app = a] \in Tx
    BY <1>0 DEF Tx
  <2>3. tx' \in [Conn -> Tx]
    BY <2>1, <2>2 DEF LockInv, ConnType
  <2> QED BY <2>3 DEF WriteFrame, LockInv, ConnType
<1>7. Still(c)
  BY DEF WriteFrame, LockInv, ConnType, Still
<1>8. HeldLocks(c)'
  BY SMTT(30), Here, Locks DEF WriteFrame, LockInv, ConnType, HeldLocks, HeldSlot, WriterLock, CkptLocks, Phase
<1>9. HeldSlot(c)'
  BY SMTT(30), Here, Locks DEF WriteFrame, LockInv, ConnType, HeldSlot, Phase
<1>10. Phase(c)'
  BY SMTT(30), Here, Locks DEF WriteFrame, LockInv, ConnType, Phase
<1>11. Room(c)'
  <2> DEFINE p == Min(tx[c].list)
             last == tx[c].list = {p}
             over == tx[c].first > 0 /\ (~last \/ ~tx[c].com) /\ FindFrame(c, p) >= tx[c].first
             r == IF over THEN ReckFrom(tx[c], FindFrame(c, p)) ELSE tx[c].reck
             a == IF over THEN tx[c].app ELSE Append(tx[c].app, p)
  <2>1. tx'[c] = [tx[c] EXCEPT !.list = @ \ {p}, !.reck = r, !.app = a]
    BY DEF WriteFrame, LockInv, ConnType
  <2>2. /\ pc'[c] = CASE ~last -> "frame" [] last /\ tx[c].com /\ r > 0 -> "recksum"
               [] last /\ tx[c].com /\ r = 0 /\ env.full -> "sync" [] OTHER -> "index"
        /\ hdr[c].mx + Len(tx[c].app) + 1 <= env.frames /\ pc[c] = "frame"
        /\ slot'[c] = slot[c] /\ content'[c] = content[c]
    BY DEF WriteFrame, LockInv, ConnType
  <2>3. hdr'[c].mx = hdr[c].mx
    <3>1. hdr' = hdr \/ \E k \in Cksum : hdr' = [hdr EXCEPT ![c].cksum = k]
      BY <1>0 DEF WriteFrame
    <3>2. hdr \in [Conn -> Hdr]
      BY DEF LockInv, ConnType
    <3>3. \A k : [hdr[c] EXCEPT !.cksum = k].mx = hdr[c].mx
      BY <1>0 DEF Hdr
    <3> QED BY <3>1, <3>2, <3>3
  <2>4. tx[c].app \in Seq(Page) /\ a \in Seq(Page) /\ Len(a) >= Len(tx[c].app) /\ Len(a) <= Len(tx[c].app) + 1
        /\ Len(tx[c].app) \in Nat /\ Len(a) \in Nat
    BY <1>0 DEF Tx
  <2>5. r \in 0..hdr[c].mx + Len(tx[c].app)
    <3>1. FindFrame(c, p) \in 0..hdr[c].mx /\ hdr[c].mx \in Nat
      BY FrameFound, Here, Numbers
    <3>2. tx[c].reck <= hdr[c].mx + Len(tx[c].app) /\ tx[c].reck \in Nat
      BY Here, Numbers DEF Room, Top
    <3> QED BY <2>4, <3>1, <3>2 DEF ReckFrom
  <2>6. /\ tx'[c].list = tx[c].list \ {p} /\ tx'[c].reck = r /\ tx'[c].app = a
    BY <1>0, <2>1 DEF Tx
  <2>7. slot[c] \in Marks /\ content[c] # None
    BY <2>2, Here DEF HeldSlot, Phase
  <2>8. ~last => tx[c].list \ {p} # {}
    BY <1>0
  <2>9. hdr[c].mx + Len(a) <= MaxFrame /\ r <= hdr[c].mx + Len(a)
    <3>1. hdr[c].mx \in Nat /\ MaxFrame \in Nat /\ env.frames \in 0..MaxFrame
      BY <1>0, Numbers, Here
    <3>2. hdr[c].mx + Len(tx[c].app) + 1 <= env.frames
      BY <2>2
    <3>3. Len(tx[c].app) \in Nat /\ Len(a) \in Nat /\ Len(a) >= Len(tx[c].app) /\ Len(a) <= Len(tx[c].app) + 1
      BY <2>4
    <3> HIDE DEF r, a, last, over, p
    <3>4. hdr[c].mx + Len(a) <= MaxFrame
      BY <3>1, <3>2, <3>3
    <3>5. r <= hdr[c].mx + Len(a)
      BY <2>5, <3>1, <3>3
    <3> QED BY <3>4, <3>5
  <2> HIDE DEF r, a, last, over, p
  <2>10. pc'[c] \in {"frame", "recksum", "sync", "index"} /\ (pc'[c] = "recksum" => r > 0)
         /\ (pc'[c] = "frame" => ~last)
    BY <2>2
  <2> QED BY <2>2, <2>3, <2>6, <2>7, <2>8, <2>9, <2>10 DEF Room, Top
<1>12. Apart(c)
  BY Here, Locks DEF WriteFrame, LockInv, ConnType, HeldLocks, HeldSlot, Apart
<1> QED BY <1>1, <1>2, <1>3, <1>4, <1>5, <1>6, <1>7, <1>8, <1>9, <1>10, <1>11, <1>12, LockStep DEF ConnType

LEMMA RecksumLock ==
  ASSUME LockInv, NEW c \in Conn, Recksum(c), UNCHANGED env
  PROVE  LockInv'
<1>0. /\ tx[c].reck \in 1..Top(c) /\ Top(c) \in Frames /\ wal \in WalFile
      /\ LET t == tx[c]
             from == IF t.reck = 1 THEN [salt |-> wal.salt, chain |-> <<>>]
                     ELSE wal.frame[t.reck - 1].cksum
             sum(i) == [from EXCEPT !.chain = @ \o
                          [k \in 1..i - t.reck + 1 |-> Entry(wal.frame[t.reck + k - 1])]]
         IN  \A i \in t.reck..Top(c) : sum(i) \in Cksum
      /\ hdr \in [Conn -> Hdr] /\ hdr[c] \in Hdr /\ tx[c] \in Tx
  <2>1. tx[c].reck \in 1..Top(c) /\ Top(c) \in Frames
    <3>1. hdr[c].mx \in Nat /\ Len(tx[c].app) \in Nat /\ MaxFrame \in Nat /\ tx[c].reck \in Nat
      BY Here, Numbers
    <3>2. Top(c) <= MaxFrame /\ tx[c].reck <= Top(c) /\ tx[c].reck > 0
      BY Here DEF Recksum, Room
    <3>3. Top(c) \in Nat
      BY <3>1 DEF Top
    <3> QED BY <3>1, <3>2, <3>3 DEF Frames
  <2>2. wal \in WalFile /\ \A i \in Frames : wal.frame[i] \in Frame
    BY DEF LockInv, SharedType, WalFile
  <2> DEFINE t == tx[c]
             from == IF t.reck = 1 THEN [salt |-> wal.salt, chain |-> <<>>]
                     ELSE wal.frame[t.reck - 1].cksum
             sum(i) == [from EXCEPT !.chain = @ \o
                          [k \in 1..i - t.reck + 1 |-> Entry(wal.frame[t.reck + k - 1])]]
  <2>3. from \in Cksum
    <3>1. CASE t.reck = 1
      BY <2>2, <3>1 DEF WalFile, Cksum
    <3>2. CASE t.reck # 1
      <4>1. t.reck - 1 \in Frames
        BY <2>1, <3>2, Numbers DEF Frames
      <4> QED BY <2>2, <3>2, <4>1 DEF Frame
    <3> QED BY <3>1, <3>2
  <2>4. ASSUME NEW i \in t.reck..Top(c)
        PROVE  sum(i) \in Cksum
    <3>1. i - t.reck + 1 \in Nat /\ t.reck \in Nat
      BY <2>1 DEF Frames
    <3>2. \A k \in 1..i - t.reck + 1 : Entry(wal.frame[t.reck + k - 1]) \in Covered
      <4> SUFFICES ASSUME NEW k \in 1..i - t.reck + 1
                   PROVE  Entry(wal.frame[t.reck + k - 1]) \in Covered
        OBVIOUS
      <4>1. t.reck + k - 1 \in Frames
        BY <2>1, <3>1, Numbers DEF Frames
      <4>2. wal.frame[t.reck + k - 1] \in Frame
        BY <2>2, <4>1
      <4> QED BY <4>2, EntryType DEF Frame
    <3>3. [k \in 1..i - t.reck + 1 |-> Entry(wal.frame[t.reck + k - 1])] \in [1..i - t.reck + 1 -> Covered]
      BY <3>2
    <3> HIDE DEF from
    <3> QED BY <2>3, <3>1, <3>3, ChainType
  <2>5. hdr \in [Conn -> Hdr] /\ hdr[c] \in Hdr /\ tx[c] \in Tx
    BY Here DEF LockInv, ConnType
  <2> HIDE DEF from
  <2>6. \A i \in t.reck..Top(c) : sum(i) \in Cksum
    BY <2>4
  <2> QED BY <2>1, <2>2, <2>5, <2>6 DEF from
<1>1. SharedType'
  <2> DEFINE t == tx[c]
             from == IF t.reck = 1 THEN [salt |-> wal.salt, chain |-> <<>>]
                     ELSE wal.frame[t.reck - 1].cksum
             sum(i) == [from EXCEPT !.chain = @ \o
                          [k \in 1..i - t.reck + 1 |-> Entry(wal.frame[t.reck + k - 1])]]
  <2>1. wal' = [wal EXCEPT !.frame = [i \in Frames |->
               IF i \in t.reck..Top(c) THEN [@[i] EXCEPT !.cksum = sum(i)] ELSE @[i]]]
    BY DEF Recksum, Top
  <2>2. \A i \in t.reck..Top(c) : sum(i) \in Cksum
    BY <1>0
  <2> HIDE DEF from, sum, t
  <2>3. wal.frame \in [Frames -> Frame]
    BY <1>0 DEF WalFile
  <2>4. \A f \in Frame, k \in Cksum : [f EXCEPT !.cksum = k] \in Frame
    BY DEF Frame
  <2>5. [i \in Frames |-> IF i \in t.reck..Top(c) THEN [wal.frame[i] EXCEPT !.cksum = sum(i)]
                          ELSE wal.frame[i]] \in [Frames -> Frame]
    BY <2>2, <2>3, <2>4
  <2>6. wal' \in WalFile
    BY <1>0, <2>1, <2>5 DEF WalFile
  <2> QED BY <2>6 DEF Recksum, LockInv, SharedType
<1>2. pc' \in [Conn -> PC]
  BY DEF Recksum, LockInv, ConnType
<1>3. excl' \in [Conn -> SUBSET Lock] /\ slot' \in [Conn -> 0..Idle]
  BY Locks DEF Recksum, LockInv, ConnType
<1>4. hdr' \in [Conn -> Hdr] /\ minFrame' \in [Conn -> 0..MaxFrame + 1]
  <2>1. \E k \in Cksum : hdr' = [hdr EXCEPT ![c].cksum = k]
    <3>1. Top(c) \in tx[c].reck..Top(c)
      <4>1. tx[c].reck \in 1..Top(c) /\ Top(c) \in Frames
        BY <1>0
      <4> QED BY <4>1, Numbers DEF Frames
    <3> QED BY <1>0, <3>1 DEF Recksum, Top
  <2>2. \A k \in Cksum : [hdr[c] EXCEPT !.cksum = k] \in Hdr
    BY <1>0, HdrExcept, CkFields
  <2>3. hdr' \in [Conn -> Hdr]
    BY <1>0, <2>1, <2>2
  <2> QED BY <2>3 DEF Recksum, LockInv, ConnType
<1>5. content' \in [Conn -> Content \cup {None}] /\ cand' \in [Conn -> Cand]
  BY Zeros DEF Recksum, LockInv, SharedType, ConnType
<1>6. tx' \in [Conn -> Tx] /\ ck' \in [Conn -> Ck] /\ fresh' \in [Conn -> BOOLEAN]
  <2>1. [tx[c] EXCEPT !.reck = 0] \in Tx
    BY <1>0, CkFields DEF Tx
  <2>2. tx' \in [Conn -> Tx]
    BY <2>1 DEF Recksum, LockInv, ConnType
  <2> QED BY <2>2 DEF Recksum, LockInv, ConnType
<1>7. Still(c)
  BY DEF Recksum, LockInv, ConnType, Still
<1>8. HeldLocks(c)'
  <2>1. excl[c] = {WRITE} /\ excl'[c] = excl[c] /\ pc'[c] \in {"sync", "index"}
    BY Here DEF Recksum, HeldLocks, LockInv, ConnType
  <2> QED BY <2>1 DEF HeldLocks
<1>9. HeldSlot(c)'
  BY ZenonT(60), Here, Locks DEF Recksum, LockInv, ConnType, HeldSlot, Phase
<1>10. Phase(c)'
  BY ZenonT(60), Here, Locks DEF Recksum, LockInv, ConnType, Phase
<1>11. Room(c)'
  <2>1. tx'[c].list = tx[c].list /\ tx'[c].app = tx[c].app /\ tx'[c].reck = 0
        /\ content'[c] = content[c] /\ pc'[c] \in {"sync", "index"} /\ content[c] # None
    <3>1. tx'[c] = [tx[c] EXCEPT !.reck = 0] /\ pc[c] = "recksum" /\ content'[c] = content[c]
          /\ pc'[c] \in {"sync", "index"}
      BY DEF Recksum, LockInv, ConnType
    <3>2. content[c] # None
      BY <3>1, Here DEF Phase
    <3> QED BY <1>0, <3>1, <3>2 DEF Tx
  <2>2. hdr'[c].mx = hdr[c].mx
    <3>1. \E k : hdr' = [hdr EXCEPT ![c].cksum = k]
      BY DEF Recksum
    <3> QED BY <1>0, <3>1 DEF Hdr
  <2>3. Top(c)' = Top(c) /\ Top(c) \in Nat
    <3>1. Top(c)' = Top(c)
      BY <2>1, <2>2 DEF Top
    <3>2. Top(c) \in Frames
      BY <1>0
    <3> QED BY <3>1, <3>2, Numbers DEF Frames
  <2> QED BY <2>1, <2>3, Here DEF Room
<1>12. Apart(c)
  BY Here, Locks DEF Recksum, LockInv, ConnType, HeldLocks, HeldSlot, Apart
<1> QED BY <1>1, <1>2, <1>3, <1>4, <1>5, <1>6, <1>7, <1>8, <1>9, <1>10, <1>11, <1>12, LockStep DEF ConnType

LEMMA SyncCommitLock ==
  ASSUME LockInv, NEW c \in Conn, SyncCommit(c), UNCHANGED env
  PROVE  LockInv'
<1>1. SharedType'
  BY DEF SyncCommit, SyncWal, LockInv, SharedType
<1>2. pc' \in [Conn -> PC]
  BY DEF SyncCommit, SyncWal, LockInv, ConnType
<1>3. excl' \in [Conn -> SUBSET Lock] /\ slot' \in [Conn -> 0..Idle]
  BY Locks DEF SyncCommit, SyncWal, LockInv, ConnType
<1>4. hdr' \in [Conn -> Hdr] /\ minFrame' \in [Conn -> 0..MaxFrame + 1]
  BY Zeros DEF SyncCommit, SyncWal, LockInv, SharedType, ConnType
<1>5. content' \in [Conn -> Content \cup {None}] /\ cand' \in [Conn -> Cand]
  BY Zeros DEF SyncCommit, SyncWal, LockInv, SharedType, ConnType
<1>6. tx' \in [Conn -> Tx] /\ ck' \in [Conn -> Ck] /\ fresh' \in [Conn -> BOOLEAN]
  BY Zeros DEF SyncCommit, SyncWal, LockInv, SharedType, ConnType
<1>7. Still(c)
  BY DEF SyncCommit, SyncWal, LockInv, ConnType, Still
<1>8. HeldLocks(c)'
  BY Here, Locks DEF SyncCommit, SyncWal, LockInv, ConnType, HeldLocks, HeldSlot, WriterLock, CkptLocks, Phase
<1>9. HeldSlot(c)'
  BY Here, Locks DEF SyncCommit, SyncWal, LockInv, ConnType, HeldSlot, Phase
<1>10. Phase(c)'
  BY Here, Locks DEF SyncCommit, SyncWal, LockInv, ConnType, Phase
<1>11. Room(c)'
  <2>1. /\ tx'[c] = tx[c] /\ hdr'[c].mx = hdr[c].mx
        /\ content'[c] = content[c] /\ pc'[c] # "recksum"
    BY DEF SyncCommit, SyncWal, LockInv, ConnType
  <2>2. pc'[c] \in Plain \cup Recovering \cup Ckpts => tx[c] = NoTx
    BY Here DEF SyncCommit, SyncWal, LockInv, ConnType, Room, Phase
  <2>3. (pc'[c] \in Pickers \cup Restarting => tx[c].reck = 0)
        /\ (pc'[c] \in Pickers \cup Restarting \cup NoFrames => tx[c].app = <<>>)
    BY Here, EmptyTx DEF SyncCommit, SyncWal, LockInv, ConnType, Room, Phase
  <2>4. slot'[c] \in Marks \/ tx[c].reck = 0
    BY Here, EmptyTx, Locks DEF SyncCommit, SyncWal, LockInv, ConnType, Room, Phase, HeldSlot
  <2>5. content[c] # None /\ pc'[c] \in Pickers \cup Restarting \cup Filling => tx[c].list # {}
    BY Here DEF SyncCommit, SyncWal, LockInv, ConnType, Room, Phase
  <2> QED BY <2>1, <2>2, <2>3, <2>4, <2>5, RoomKept
<1>12. Apart(c)
  BY Here, Locks DEF SyncCommit, SyncWal, LockInv, ConnType, HeldLocks, HeldSlot, Apart
<1> QED BY <1>1, <1>2, <1>3, <1>4, <1>5, <1>6, <1>7, <1>8, <1>9, <1>10, <1>11, <1>12, LockStep DEF ConnType

LEMMA IndexLock ==
  ASSUME LockInv, NEW c \in Conn, Index(c), UNCHANGED env
  PROVE  LockInv'
<1>0. /\ pc[c] = "index" /\ tx[c] \in Tx /\ hdr[c] \in Hdr /\ Top(c) \in 0..MaxFrame
      /\ content[c] # None
      /\ [NoTx EXCEPT !.reck = tx[c].reck] \in Tx
      /\ \E h \in Hdr : /\ hdr' = [hdr EXCEPT ![c] = h]
                        /\ head' = head \/ head' = [head EXCEPT ![1] = h]
                        /\ h.mx = Top(c)
  <2>1. tx[c] \in Tx /\ hdr[c] \in Hdr /\ Top(c) \in 0..MaxFrame /\ pc[c] = "index" /\ content[c] # None
    BY SMTT(30), Here, Numbers DEF Index, Top, Room, Phase
  <2>2. [NoTx EXCEPT !.reck = tx[c].reck] \in Tx
    BY <2>1, Zeros DEF Tx
  <2> DEFINE h == [hdr[c] EXCEPT !.mx = MxAfter(c), !.init = tx[c].com \/ @,
                     !.chg = IF tx[c].com THEN @ + 1 ELSE @]
  <2>3. h \in Hdr /\ h.mx = Top(c)
    <3>1. MxAfter(c) = Top(c)
      BY DEF MxAfter, Top
    <3>2. tx[c].com \in BOOLEAN
      BY <2>1 DEF Tx
    <3> DEFINE i == tx[c].com \/ hdr[c].init
               n == IF tx[c].com THEN hdr[c].chg + 1 ELSE hdr[c].chg
    <3>3. i \in BOOLEAN /\ n \in Nat
      BY <2>1, <3>2 DEF Hdr
    <3>4. h = [hdr[c] EXCEPT !.mx = Top(c), !.init = i, !.chg = n]
      BY <3>1
    <3> HIDE DEF Top, i, n, h
    <3> QED BY <2>1, <3>3, <3>4 DEF Hdr
  <2>4. hdr' = [hdr EXCEPT ![c] = h] /\ (head' = head \/ head' = [head EXCEPT ![1] = h])
    BY DEF Index
  <2> QED BY <2>1, <2>2, <2>3, <2>4
<1>1. SharedType'
  <2>1. idx' \in [Frames -> Page \cup {0}]
    <3>1. ASSUME NEW i \in Frames, i > hdr[c].mx, i <= Top(c)
          PROVE  tx[c].app[i - hdr[c].mx] \in Page
      <4>1. hdr[c].mx \in Nat /\ Len(tx[c].app) \in Nat
        BY Here, Numbers
      <4>2. i - hdr[c].mx \in 1..Len(tx[c].app)
        BY <3>1, <4>1 DEF Top, Frames
      <4> QED BY SMTT(30), <1>0, <4>2 DEF Tx
    <3>2. hdr[c].mx \in Nat
      BY Here, Numbers
    <3>3. \A i \in Frames : i \in Nat
      BY DEF Frames
    <3> QED BY SMTT(30), <3>1, <3>2, <3>3 DEF Index, Top, LockInv, SharedType
  <2>2. head' \in [{0, 1} -> Hdr]
    BY <1>0 DEF LockInv, SharedType
  <2> QED BY <2>1, <2>2 DEF Index, LockInv, SharedType
<1>2. pc' \in [Conn -> PC]
  <2>1. Goto(c, "publish") \/ Goto(c, "write")
    BY DEF Index
  <2>2. {"publish", "write"} \subseteq PC
    OBVIOUS
  <2> HIDE DEF PC, Goto
  <2> QED BY <2>1, <2>2, Moves
<1>3. excl' \in [Conn -> SUBSET Lock] /\ slot' \in [Conn -> 0..Idle]
  BY Locks DEF Index, LockInv, ConnType
<1>4. hdr' \in [Conn -> Hdr] /\ minFrame' \in [Conn -> 0..MaxFrame + 1]
  <2>1. hdr' \in [Conn -> Hdr]
    BY <1>0 DEF LockInv, ConnType
  <2> QED BY <2>1 DEF Index, LockInv, ConnType
<1>5. content' \in [Conn -> Content \cup {None}] /\ cand' \in [Conn -> Cand]
  BY Zeros DEF Index, LockInv, SharedType, ConnType
<1>6. tx' \in [Conn -> Tx] /\ ck' \in [Conn -> Ck] /\ fresh' \in [Conn -> BOOLEAN]
  <2>1. tx' = [tx EXCEPT ![c] = [NoTx EXCEPT !.reck = tx[c].reck]]
    BY DEF Index
  <2>2. tx' \in [Conn -> Tx]
    BY <1>0, <2>1 DEF LockInv, ConnType
  <2> QED BY <2>2 DEF Index, LockInv, ConnType
<1>7. Still(c)
  BY DEF Index, LockInv, ConnType, Still
<1>8. HeldLocks(c)'
  BY SMTT(30), Here, Locks DEF Index, LockInv, ConnType, HeldLocks, HeldSlot, WriterLock, CkptLocks, Phase
<1>9. HeldSlot(c)'
  BY Here, Locks DEF Index, LockInv, ConnType, HeldSlot, Phase
<1>10. Phase(c)'
  BY Here, Locks DEF Index, LockInv, ConnType, Phase
<1>11. Room(c)'
  <2>1. tx'[c] = [NoTx EXCEPT !.reck = tx[c].reck] /\ content'[c] = content[c] /\ slot'[c] = slot[c]
        /\ pc'[c] \in {"publish", "write"}
    BY DEF Index, LockInv, ConnType
  <2>2. tx'[c].app = <<>> /\ tx'[c].reck = tx[c].reck
    BY <2>1 DEF NoTx
  <2>3. hdr'[c].mx = Top(c)
    BY <1>0 DEF LockInv, ConnType
  <2>4. Top(c)' = Top(c)
    <3>1. Top(c)' = Top(c) + 0
      BY <2>2, <2>3 DEF Top
    <3> HIDE DEF Top
    <3> QED BY <1>0, <3>1
  <2> QED BY <1>0, <2>1, <2>2, <2>4, Here DEF Room
<1>12. Apart(c)
  BY Here, Locks DEF Index, LockInv, ConnType, HeldLocks, HeldSlot, Apart
<1> QED BY <1>1, <1>2, <1>3, <1>4, <1>5, <1>6, <1>7, <1>8, <1>9, <1>10, <1>11, <1>12, LockStep DEF ConnType

LEMMA PublishLock ==
  ASSUME LockInv, NEW c \in Conn, Publish(c), UNCHANGED env
  PROVE  LockInv'
<1>1. SharedType'
  <2>1. content[c] \in Content /\ hdr[c] \in Hdr
    BY Here DEF Publish, Phase
  <2>2. past' \in Seq(Content) /\ past' # <<>> /\ Len(past') = Len(past) + 1
    BY <2>1 DEF Publish, LockInv, SharedType
  <2>3. pending' \subseteq (1..Len(past')) \X Content
    <3>1. 1..Len(past) \subseteq 1..Len(past')
      BY <2>2, Newest
    <3> QED BY <3>1 DEF Publish, LockInv, SharedType
  <2>4. head' \in [{0, 1} -> Hdr]
    BY <2>1 DEF Publish, LockInv, SharedType
  <2> QED BY <2>2, <2>3, <2>4 DEF Publish, LockInv, SharedType
<1>2. pc' \in [Conn -> PC]
  BY DEF Publish, Release, LockInv, ConnType
<1>3. excl' \in [Conn -> SUBSET Lock] /\ slot' \in [Conn -> 0..Idle]
  BY Locks DEF Publish, Release, LockInv, ConnType
<1>4. hdr' \in [Conn -> Hdr] /\ minFrame' \in [Conn -> 0..MaxFrame + 1]
  BY Zeros DEF Publish, Release, LockInv, SharedType, ConnType
<1>5. content' \in [Conn -> Content \cup {None}] /\ cand' \in [Conn -> Cand]
  BY Zeros DEF Publish, Release, LockInv, SharedType, ConnType
<1>6. tx' \in [Conn -> Tx] /\ ck' \in [Conn -> Ck] /\ fresh' \in [Conn -> BOOLEAN]
  BY Zeros DEF Publish, Release, LockInv, SharedType, ConnType
<1>7. Still(c)
  BY DEF Publish, Release, LockInv, ConnType, Still
<1>8. HeldLocks(c)'
  BY Here, Locks DEF Publish, Release, LockInv, ConnType, HeldLocks, HeldSlot, WriterLock, CkptLocks, Phase
<1>9. HeldSlot(c)'
  BY Here, Locks DEF Publish, Release, LockInv, ConnType, HeldSlot, Phase
<1>10. Phase(c)'
  BY Here, Locks DEF Publish, Release, LockInv, ConnType, Phase
<1>11. Room(c)'
  BY <1>4, RoomEmpty, Here DEF Publish, Release, LockInv, ConnType, Room, Phase
<1>12. Apart(c)
  BY Here, Locks DEF Publish, Release, LockInv, ConnType, HeldLocks, HeldSlot, Apart
<1> QED BY <1>1, <1>2, <1>3, <1>4, <1>5, <1>6, <1>7, <1>8, <1>9, <1>10, <1>11, <1>12, LockStep DEF ConnType

LEMMA WriteFailsLock ==
  ASSUME LockInv, NEW c \in Conn, WriteFails(c), UNCHANGED env
  PROVE  LockInv'
<1>1. SharedType'
  BY DEF WriteFails, LockInv, SharedType
<1>2. pc' \in [Conn -> PC]
  BY DEF WriteFails, LockInv, ConnType
<1>3. excl' \in [Conn -> SUBSET Lock] /\ slot' \in [Conn -> 0..Idle]
  BY Locks DEF WriteFails, LockInv, ConnType
<1>4. hdr' \in [Conn -> Hdr] /\ minFrame' \in [Conn -> 0..MaxFrame + 1]
  BY Zeros DEF WriteFails, LockInv, SharedType, ConnType
<1>5. content' \in [Conn -> Content \cup {None}] /\ cand' \in [Conn -> Cand]
  BY Zeros DEF WriteFails, LockInv, SharedType, ConnType
<1>6. tx' \in [Conn -> Tx] /\ ck' \in [Conn -> Ck] /\ fresh' \in [Conn -> BOOLEAN]
  BY Zeros DEF WriteFails, LockInv, SharedType, ConnType
<1>7. Still(c)
  BY DEF WriteFails, LockInv, ConnType, Still
<1>8. HeldLocks(c)'
  BY Here, Locks DEF WriteFails, LockInv, ConnType, HeldLocks, HeldSlot, WriterLock, CkptLocks, Phase
<1>9. HeldSlot(c)'
  BY Here, Locks DEF WriteFails, LockInv, ConnType, HeldSlot, Phase
<1>10. Phase(c)'
  BY Here, Locks DEF WriteFails, LockInv, ConnType, Phase
<1>11. Room(c)'
  <2>1. /\ tx'[c] = tx[c] /\ hdr'[c].mx = hdr[c].mx
        /\ content'[c] = content[c] /\ pc'[c] # "recksum"
    BY DEF WriteFails, LockInv, ConnType
  <2>2. pc'[c] \in Plain \cup Recovering \cup Ckpts => tx[c] = NoTx
    BY Here DEF WriteFails, LockInv, ConnType, Room, Phase
  <2>3. (pc'[c] \in Pickers \cup Restarting => tx[c].reck = 0)
        /\ (pc'[c] \in Pickers \cup Restarting \cup NoFrames => tx[c].app = <<>>)
    BY Here, EmptyTx DEF WriteFails, LockInv, ConnType, Room, Phase
  <2>4. slot'[c] \in Marks \/ tx[c].reck = 0
    BY Here, EmptyTx, Locks DEF WriteFails, LockInv, ConnType, Room, Phase, HeldSlot
  <2>5. content[c] # None /\ pc'[c] \in Pickers \cup Restarting \cup Filling => tx[c].list # {}
    BY Here DEF WriteFails, LockInv, ConnType, Room, Phase
  <2> QED BY <2>1, <2>2, <2>3, <2>4, <2>5, RoomKept
<1>12. Apart(c)
  BY Here, Locks DEF WriteFails, LockInv, ConnType, HeldLocks, HeldSlot, Apart
<1> QED BY <1>1, <1>2, <1>3, <1>4, <1>5, <1>6, <1>7, <1>8, <1>9, <1>10, <1>11, <1>12, LockStep DEF ConnType

LEMMA RollbackLock ==
  ASSUME LockInv, NEW c \in Conn, Rollback(c), UNCHANGED env
  PROVE  LockInv'
<1>1. SharedType'
  BY DEF Rollback, Release, LockInv, SharedType
<1>2. pc' \in [Conn -> PC]
  BY DEF Rollback, Release, LockInv, ConnType
<1>3. excl' \in [Conn -> SUBSET Lock] /\ slot' \in [Conn -> 0..Idle]
  BY Locks DEF Rollback, Release, LockInv, ConnType
<1>4. hdr' \in [Conn -> Hdr] /\ minFrame' \in [Conn -> 0..MaxFrame + 1]
  BY Zeros DEF Rollback, Release, LockInv, SharedType, ConnType
<1>5. content' \in [Conn -> Content \cup {None}] /\ cand' \in [Conn -> Cand]
  BY Zeros DEF Rollback, Release, LockInv, SharedType, ConnType
<1>6. tx' \in [Conn -> Tx] /\ ck' \in [Conn -> Ck] /\ fresh' \in [Conn -> BOOLEAN]
  BY Zeros DEF Rollback, Release, LockInv, SharedType, ConnType
<1>7. Still(c)
  BY DEF Rollback, Release, LockInv, ConnType, Still
<1>8. HeldLocks(c)'
  BY SMTT(30), Here, Locks DEF Rollback, Release, LockInv, ConnType, HeldLocks, HeldSlot, WriterLock, CkptLocks, Phase
<1>9. HeldSlot(c)'
  BY Here, Locks DEF Rollback, Release, LockInv, ConnType, HeldSlot, Phase
<1>10. Phase(c)'
  <2>1. content'[c] = K /\ pc'[c] = "read" /\ ck'[c] = ck[c] /\ ck[c] = NoCk
    BY Here DEF Rollback, Phase, K, LockInv, ConnType
  <2> QED BY <2>1, Newest DEF Phase
<1>11. Room(c)'
  BY <1>4, RoomEmpty, Here DEF Rollback, Release, LockInv, ConnType, Room, Phase
<1>12. Apart(c)
  BY Here, Locks DEF Rollback, Release, LockInv, ConnType, HeldLocks, HeldSlot, Apart
<1> QED BY <1>1, <1>2, <1>3, <1>4, <1>5, <1>6, <1>7, <1>8, <1>9, <1>10, <1>11, <1>12, LockStep DEF ConnType

LEMMA CheckpointLock ==
  ASSUME LockInv, NEW c \in Conn, Checkpoint(c), UNCHANGED env
  PROVE  LockInv'
<1>1. SharedType'
  BY DEF Checkpoint, Take, CanExcl, LockInv, SharedType
<1>2. pc' \in [Conn -> PC]
  BY DEF Checkpoint, Take, CanExcl, LockInv, ConnType
<1>3. excl' \in [Conn -> SUBSET Lock] /\ slot' \in [Conn -> 0..Idle]
  BY Locks DEF Checkpoint, Take, CanExcl, LockInv, ConnType
<1>4. hdr' \in [Conn -> Hdr] /\ minFrame' \in [Conn -> 0..MaxFrame + 1]
  BY Zeros DEF Checkpoint, Take, CanExcl, LockInv, SharedType, ConnType
<1>5. content' \in [Conn -> Content \cup {None}] /\ cand' \in [Conn -> Cand]
  BY Zeros DEF Checkpoint, Take, CanExcl, LockInv, SharedType, ConnType
<1>6. tx' \in [Conn -> Tx] /\ ck' \in [Conn -> Ck] /\ fresh' \in [Conn -> BOOLEAN]
  <2>1. \A m \in env.modes : m \in {"PASSIVE", "FULL", "TRUNCATE"}
    BY WalAssumption DEF LockInv, SharedType
  <2>2. \A m \in env.modes : [ck[c] EXCEPT !.mode = m, !.at = 1] \in Ck
    <3> SUFFICES ASSUME NEW m \in env.modes
                 PROVE  [ck[c] EXCEPT !.mode = m, !.at = 1] \in Ck
      OBVIOUS
    <3>1. 1 \in 0..NReader /\ ck[c] \in Ck /\ m \in {"PASSIVE", "FULL", "TRUNCATE"}
      BY <2>1, Here, Numbers
    <3> QED BY <3>1 DEF Ck
  <2>3. ck \in [Conn -> Ck]
    BY DEF LockInv, ConnType
  <2>4. PICK m \in env.modes : ck' = [ck EXCEPT ![c] = [@ EXCEPT !.mode = m, !.at = 1]]
    BY DEF Checkpoint
  <2>5. ck' \in [Conn -> Ck]
    BY <2>2, <2>3, <2>4
  <2> QED BY <2>5 DEF Checkpoint, LockInv, ConnType
<1>7. Still(c)
  BY DEF Checkpoint, Take, CanExcl, LockInv, ConnType, Still
<1>8. HeldLocks(c)'
  BY Here, Locks DEF Checkpoint, Take, CanExcl, LockInv, ConnType, HeldLocks, HeldSlot, WriterLock, CkptLocks, Phase
<1>9. HeldSlot(c)'
  BY Here, Locks DEF Checkpoint, Take, CanExcl, LockInv, ConnType, HeldSlot, Phase
<1>10. Phase(c)'
  BY Here, Locks DEF Checkpoint, Take, CanExcl, LockInv, ConnType, Phase
<1>11. Room(c)'
  <2>1. /\ tx'[c] = tx[c] /\ hdr'[c].mx = hdr[c].mx
        /\ content'[c] = content[c] /\ pc'[c] # "recksum"
    BY DEF Checkpoint, Take, CanExcl, LockInv, ConnType
  <2>2. pc'[c] \in Plain \cup Recovering \cup Ckpts => tx[c] = NoTx
    BY Here DEF Checkpoint, Take, CanExcl, LockInv, ConnType, Room, Phase
  <2>3. (pc'[c] \in Pickers \cup Restarting => tx[c].reck = 0)
        /\ (pc'[c] \in Pickers \cup Restarting \cup NoFrames => tx[c].app = <<>>)
    BY Here, EmptyTx DEF Checkpoint, Take, CanExcl, LockInv, ConnType, Room, Phase
  <2>4. slot'[c] \in Marks \/ tx[c].reck = 0
    BY Here, EmptyTx, Locks DEF Checkpoint, Take, CanExcl, LockInv, ConnType, Room, Phase, HeldSlot
  <2>5. content[c] # None /\ pc'[c] \in Pickers \cup Restarting \cup Filling => tx[c].list # {}
    BY Here DEF Checkpoint, Take, CanExcl, LockInv, ConnType, Room, Phase
  <2> QED BY <2>1, <2>2, <2>3, <2>4, <2>5, RoomKept
<1>12. Apart(c)
  BY Here, Locks DEF Checkpoint, Take, CanExcl, LockInv, ConnType, HeldLocks, HeldSlot, Apart
<1> QED BY <1>1, <1>2, <1>3, <1>4, <1>5, <1>6, <1>7, <1>8, <1>9, <1>10, <1>11, <1>12, LockStep DEF ConnType

LEMMA CkptWriteLockLock ==
  ASSUME LockInv, NEW c \in Conn, CkptWriteLock(c), UNCHANGED env
  PROVE  LockInv'
<1>1. SharedType'
  BY DEF CkptWriteLock, Take, CanExcl, LockInv, SharedType
<1>2. pc' \in [Conn -> PC]
  BY DEF CkptWriteLock, Take, CanExcl, LockInv, ConnType
<1>3. excl' \in [Conn -> SUBSET Lock] /\ slot' \in [Conn -> 0..Idle]
  BY Locks DEF CkptWriteLock, Take, CanExcl, LockInv, ConnType
<1>4. hdr' \in [Conn -> Hdr] /\ minFrame' \in [Conn -> 0..MaxFrame + 1]
  BY Zeros DEF CkptWriteLock, Take, CanExcl, LockInv, SharedType, ConnType
<1>5. content' \in [Conn -> Content \cup {None}] /\ cand' \in [Conn -> Cand]
  BY Zeros DEF CkptWriteLock, Take, CanExcl, LockInv, SharedType, ConnType
<1>6. tx' \in [Conn -> Tx] /\ ck' \in [Conn -> Ck] /\ fresh' \in [Conn -> BOOLEAN]
  BY Zeros DEF CkptWriteLock, Take, CanExcl, LockInv, SharedType, ConnType
<1>7. Still(c)
  BY DEF CkptWriteLock, Take, CanExcl, LockInv, ConnType, Still
<1>8. HeldLocks(c)'
  BY Here, Locks DEF CkptWriteLock, Take, CanExcl, LockInv, ConnType, HeldLocks, HeldSlot, WriterLock, CkptLocks, Phase
<1>9. HeldSlot(c)'
  BY Here, Locks DEF CkptWriteLock, Take, CanExcl, LockInv, ConnType, HeldSlot, Phase
<1>10. Phase(c)'
  <2>1. ck'[c] = ck[c] /\ content'[c] = content[c] /\ content[c] = None /\ pc'[c] = "ckhdr"
    BY Here DEF CkptWriteLock, Phase, LockInv, ConnType
  <2>2. ck[c].at = 1
    BY Here DEF CkptWriteLock, Phase
  <2> QED BY <2>1, <2>2 DEF Phase
<1>11. Room(c)'
  <2>1. /\ tx'[c] = tx[c] /\ hdr'[c].mx = hdr[c].mx
        /\ content'[c] = content[c] /\ pc'[c] # "recksum"
    BY DEF CkptWriteLock, Take, CanExcl, LockInv, ConnType
  <2>2. pc'[c] \in Plain \cup Recovering \cup Ckpts => tx[c] = NoTx
    BY Here DEF CkptWriteLock, Take, CanExcl, LockInv, ConnType, Room, Phase
  <2>3. (pc'[c] \in Pickers \cup Restarting => tx[c].reck = 0)
        /\ (pc'[c] \in Pickers \cup Restarting \cup NoFrames => tx[c].app = <<>>)
    BY Here, EmptyTx DEF CkptWriteLock, Take, CanExcl, LockInv, ConnType, Room, Phase
  <2>4. slot'[c] \in Marks \/ tx[c].reck = 0
    BY Here, EmptyTx, Locks DEF CkptWriteLock, Take, CanExcl, LockInv, ConnType, Room, Phase, HeldSlot
  <2>5. content[c] # None /\ pc'[c] \in Pickers \cup Restarting \cup Filling => tx[c].list # {}
    BY Here DEF CkptWriteLock, Take, CanExcl, LockInv, ConnType, Room, Phase
  <2> QED BY <2>1, <2>2, <2>3, <2>4, <2>5, RoomKept
<1>12. Apart(c)
  BY Here, Locks DEF CkptWriteLock, Take, CanExcl, LockInv, ConnType, HeldLocks, HeldSlot, Apart
<1> QED BY <1>1, <1>2, <1>3, <1>4, <1>5, <1>6, <1>7, <1>8, <1>9, <1>10, <1>11, <1>12, LockStep DEF ConnType

LEMMA CkptStartLock ==
  ASSUME LockInv, NEW c \in Conn, CkptStart(c), UNCHANGED env
  PROVE  LockInv'
<1>0. \/ /\ Goto(c, "ckmark") /\ \E t \in [Page -> 0..MaxFrame] :
               ck' = [ck EXCEPT ![c] = [@ EXCEPT !.safe = hdr[c].mx, !.iter = t]]
      \/ Goto(c, "ckend") /\ ck' = ck
  <2>1. CASE nBackfill < hdr[c].mx
    <3> DEFINE t == [p \in Page |-> Max({0} \cup {i \in 1..hdr[c].mx : idx[i] = p})]
    <3>1. ASSUME NEW p \in Page
          PROVE  Max({0} \cup {i \in 1..hdr[c].mx : idx[i] = p}) \in 0..MaxFrame
      <4> DEFINE T == {i \in 1..hdr[c].mx : idx[i] = p}
      <4>1. hdr[c].mx \in 0..MaxFrame
        BY Here
      <4>2. T \subseteq 0..MaxFrame /\ MaxFrame \in Nat
        BY <4>1, Numbers
      <4> HIDE DEF T
      <4>3. Max({0} \cup T) \in 0..MaxFrame
        BY <4>2, MaxOf
      <4> QED BY <4>3 DEF T
    <3>2. t \in [Page -> 0..MaxFrame]
      BY <3>1
    <3>3. Goto(c, "ckmark") /\ ck' = [ck EXCEPT ![c] = [@ EXCEPT !.safe = hdr[c].mx, !.iter = t]]
      BY <2>1 DEF CkptStart
    <3> HIDE DEF t
    <3> QED BY <3>2, <3>3
  <2>2. CASE ~(nBackfill < hdr[c].mx)
    BY <2>2 DEF CkptStart
  <2> QED BY <2>1, <2>2
<1>1. SharedType'
  BY DEF CkptStart, LockInv, SharedType
<1>2. pc' \in [Conn -> PC]
  BY DEF CkptStart, LockInv, ConnType
<1>3. excl' \in [Conn -> SUBSET Lock] /\ slot' \in [Conn -> 0..Idle]
  BY Locks DEF CkptStart, LockInv, ConnType
<1>4. hdr' \in [Conn -> Hdr] /\ minFrame' \in [Conn -> 0..MaxFrame + 1]
  BY Zeros DEF CkptStart, LockInv, SharedType, ConnType
<1>5. content' \in [Conn -> Content \cup {None}] /\ cand' \in [Conn -> Cand]
  BY Zeros DEF CkptStart, LockInv, SharedType, ConnType
<1>6. tx' \in [Conn -> Tx] /\ ck' \in [Conn -> Ck] /\ fresh' \in [Conn -> BOOLEAN]
  <2>1. hdr[c].mx \in 0..MaxFrame /\ ck[c] \in Ck /\ ck \in [Conn -> Ck]
    BY Here DEF LockInv, ConnType
  <2>2. \A t \in [Page -> 0..MaxFrame] : [ck[c] EXCEPT !.safe = hdr[c].mx, !.iter = t] \in Ck
    BY <2>1, CkExcept, CkFields
  <2>3. ck' \in [Conn -> Ck]
    BY <1>0, <2>1, <2>2
  <2> QED BY <2>3 DEF CkptStart, LockInv, ConnType
<1>7. Still(c)
  BY DEF CkptStart, LockInv, ConnType, Still
<1>8. HeldLocks(c)'
  <2>1. ck'[c].mode = ck[c].mode
    <3>1. ck[c] \in Ck /\ ck \in [Conn -> Ck]
      BY Here DEF LockInv, ConnType
    <3>2. CASE ck' = ck
      BY <3>2
    <3>3. ASSUME NEW t, ck' = [ck EXCEPT ![c] = [@ EXCEPT !.safe = hdr[c].mx, !.iter = t]]
          PROVE  ck'[c].mode = ck[c].mode
      BY <3>1, <3>3 DEF Ck
    <3> QED BY <1>0, <3>2, <3>3
  <2>2. excl'[c] = CkptLocks(c) /\ pc'[c] \in {"ckmark", "ckend"}
    BY ZenonT(60), <1>0, Here DEF CkptStart, HeldLocks, LockInv, ConnType
  <2> QED BY <2>1, <2>2 DEF HeldLocks, CkptLocks
<1>9. HeldSlot(c)'
  BY Here, Locks DEF CkptStart, LockInv, ConnType, HeldSlot, Phase
<1>10. Phase(c)'
  <2>1. content'[c] = None /\ pc'[c] \in {"ckmark", "ckend"}
    BY <1>0, Here DEF CkptStart, Phase, LockInv, ConnType
  <2>2. pc'[c] = "ckmark" => ck'[c].at = 1
    <3>1. ck[c] \in Ck /\ ck \in [Conn -> Ck] /\ pc \in [Conn -> PC] /\ ck[c].at = 1
      BY Here DEF LockInv, ConnType, Phase, CkptStart
    <3>2. CASE ck' = ck
      BY <3>1, <3>2
    <3>3. ASSUME NEW t, ck' = [ck EXCEPT ![c] = [@ EXCEPT !.safe = hdr[c].mx, !.iter = t]]
          PROVE  ck'[c].at = ck[c].at
      BY <3>1, <3>3 DEF Ck
    <3> QED BY <1>0, <3>1, <3>2, <3>3
  <2> QED BY <2>1, <2>2, Locks DEF Phase
<1>11. Room(c)'
  <2>1. /\ tx'[c] = tx[c] /\ hdr'[c].mx = hdr[c].mx
        /\ content'[c] = content[c] /\ pc'[c] # "recksum"
    BY DEF CkptStart, LockInv, ConnType
  <2>2. pc'[c] \in Plain \cup Recovering \cup Ckpts => tx[c] = NoTx
    BY Here DEF CkptStart, LockInv, ConnType, Room, Phase
  <2>3. (pc'[c] \in Pickers \cup Restarting => tx[c].reck = 0)
        /\ (pc'[c] \in Pickers \cup Restarting \cup NoFrames => tx[c].app = <<>>)
    BY Here, EmptyTx DEF CkptStart, LockInv, ConnType, Room, Phase
  <2>4. slot'[c] \in Marks \/ tx[c].reck = 0
    BY Here, EmptyTx, Locks DEF CkptStart, LockInv, ConnType, Room, Phase, HeldSlot
  <2>5. content[c] # None /\ pc'[c] \in Pickers \cup Restarting \cup Filling => tx[c].list # {}
    BY Here DEF CkptStart, LockInv, ConnType, Room, Phase
  <2> QED BY <2>1, <2>2, <2>3, <2>4, <2>5, RoomKept
<1>12. Apart(c)
  BY Here, Locks DEF CkptStart, LockInv, ConnType, HeldLocks, HeldSlot, Apart
<1> QED BY <1>1, <1>2, <1>3, <1>4, <1>5, <1>6, <1>7, <1>8, <1>9, <1>10, <1>11, <1>12, LockStep DEF ConnType

LEMMA CkptMarkLock ==
  ASSUME LockInv, NEW c \in Conn, CkptMark(c), UNCHANGED env
  PROVE  LockInv'
<1>0. /\ ck[c] \in Ck /\ ck[c].at \in Marks /\ excl[c] = CkptLocks(c) /\ content[c] = None
      /\ ck \in [Conn -> Ck] /\ pc \in [Conn -> PC] /\ mark[ck[c].at] \in 0..NotUsed
      /\ \/ /\ ck[c].safe > mark[ck[c].at] /\ Goto(c, "cklock")
            /\ ck' = [ck EXCEPT ![c].seen = mark[ck[c].at]]
         \/ NextMark(c, ck[c])
  <2>1. pc[c] = "ckmark"
    BY DEF CkptMark
  <2>2. ck[c] \in Ck /\ ck[c].at \in Marks /\ excl[c] = CkptLocks(c) /\ content[c] = None
    BY <2>1, Here DEF HeldLocks, Phase
  <2>3. ck \in [Conn -> Ck] /\ pc \in [Conn -> PC] /\ mark[ck[c].at] \in 0..NotUsed
    BY <2>2 DEF LockInv, SharedType, ConnType
  <2> QED BY <2>2, <2>3 DEF CkptMark
<1>1. SharedType'
  BY DEF CkptMark, NextMark, LockInv, SharedType
<1>2. pc' \in [Conn -> PC]
  BY DEF CkptMark, NextMark, LockInv, ConnType
<1>3. excl' \in [Conn -> SUBSET Lock] /\ slot' \in [Conn -> 0..Idle]
  BY Locks DEF CkptMark, NextMark, LockInv, ConnType
<1>4. hdr' \in [Conn -> Hdr] /\ minFrame' \in [Conn -> 0..MaxFrame + 1]
  BY Zeros DEF CkptMark, NextMark, LockInv, SharedType, ConnType
<1>5. content' \in [Conn -> Content \cup {None}] /\ cand' \in [Conn -> Cand]
  BY Zeros DEF CkptMark, NextMark, LockInv, SharedType, ConnType
<1>6. tx' \in [Conn -> Tx] /\ ck' \in [Conn -> Ck] /\ fresh' \in [Conn -> BOOLEAN]
  <2>1. [ck[c] EXCEPT !.seen = mark[ck[c].at]] \in Ck
    BY ZenonT(60), <1>0, CkExcept, CkFields
  <2>2. [ck[c] EXCEPT !.at = @ + 1] \in Ck
    BY <1>0, NextFields
  <2> QED BY <1>0, <2>1, <2>2 DEF CkptMark, NextMark, LockInv, ConnType
<1>7. Still(c)
  BY DEF CkptMark, NextMark, LockInv, ConnType, Still
<1>8. HeldLocks(c)'
  <2>1. pc'[c] \in {"cklock", "ck0", "ckmark"} /\ ck'[c].mode = ck[c].mode
    BY <1>0, NextFields DEF NextMark, Ck
  <2>2. excl'[c] = excl[c]
    BY DEF CkptMark
  <2> QED BY <1>0, <2>1, <2>2 DEF HeldLocks, CkptLocks
<1>9. HeldSlot(c)'
  BY Here, Locks DEF CkptMark, NextMark, LockInv, ConnType, HeldSlot, Phase
<1>10. Phase(c)'
  <2>1. CASE NextMark(c, ck[c])
    BY <1>0, <2>1, NextPhase DEF CkptMark
  <2>2. CASE /\ ck[c].safe > mark[ck[c].at] /\ Goto(c, "cklock")
             /\ ck' = [ck EXCEPT ![c].seen = mark[ck[c].at]]
    <3>1. pc'[c] = "cklock" /\ ck'[c].at = ck[c].at /\ ck'[c].seen = mark[ck[c].at] /\ ck'[c].safe = ck[c].safe
      BY <1>0, <2>2 DEF Ck
    <3>2. content'[c] = None /\ ck[c].safe \in Nat /\ mark[ck[c].at] \in Nat
      BY <1>0, Numbers DEF CkptMark, Ck
    <3> QED BY <1>0, <2>2, <3>1, <3>2 DEF Phase
  <2> QED BY <1>0, <2>1, <2>2
<1>11. Room(c)'
  <2>1. /\ tx'[c] = tx[c] /\ hdr'[c].mx = hdr[c].mx
        /\ content'[c] = content[c] /\ pc'[c] # "recksum"
    BY DEF CkptMark, NextMark, LockInv, ConnType
  <2>2. pc'[c] \in Plain \cup Recovering \cup Ckpts => tx[c] = NoTx
    BY Here DEF CkptMark, NextMark, LockInv, ConnType, Room, Phase
  <2>3. (pc'[c] \in Pickers \cup Restarting => tx[c].reck = 0)
        /\ (pc'[c] \in Pickers \cup Restarting \cup NoFrames => tx[c].app = <<>>)
    BY Here, EmptyTx DEF CkptMark, NextMark, LockInv, ConnType, Room, Phase
  <2>4. slot'[c] \in Marks \/ tx[c].reck = 0
    BY Here, EmptyTx, Locks DEF CkptMark, NextMark, LockInv, ConnType, Room, Phase, HeldSlot
  <2>5. content[c] # None /\ pc'[c] \in Pickers \cup Restarting \cup Filling => tx[c].list # {}
    BY Here DEF CkptMark, NextMark, LockInv, ConnType, Room, Phase
  <2> QED BY <2>1, <2>2, <2>3, <2>4, <2>5, RoomKept
<1>12. Apart(c)
  BY Here, Locks DEF CkptMark, NextMark, LockInv, ConnType, HeldLocks, HeldSlot, Apart
<1> QED BY <1>1, <1>2, <1>3, <1>4, <1>5, <1>6, <1>7, <1>8, <1>9, <1>10, <1>11, <1>12, LockStep DEF ConnType

LEMMA CkptLockMarkLock ==
  ASSUME LockInv, NEW c \in Conn, CkptLockMark(c), UNCHANGED env
  PROVE  LockInv'
<1>0. /\ ck[c] \in Ck /\ ck[c].at \in Marks /\ excl[c] = CkptLocks(c) /\ content[c] = None
      /\ ck[c].seen < ck[c].safe
      /\ \/ NextMark(c, ck[c])
         \/ NextMark(c, [ck[c] EXCEPT !.safe = SafeBelow(ck[c])])
  <2>1. pc[c] = "cklock"
    BY DEF CkptLockMark
  <2>2. ck[c] \in Ck /\ ck[c].at \in Marks /\ excl[c] = CkptLocks(c) /\ content[c] = None
        /\ ck[c].seen < ck[c].safe
    BY <2>1, Here DEF HeldLocks, Phase
  <2> QED BY <2>2 DEF CkptLockMark
<1>1. SharedType'
  <2>1. mark' = mark \/ \E x \in 0..NotUsed : mark' = [mark EXCEPT ![ck[c].at] = x]
    <3>1. ck[c].safe \in 0..NotUsed /\ NotUsed \in 0..NotUsed
      BY <1>0, Numbers DEF Ck
    <3> QED BY <3>1 DEF CkptLockMark
  <2>2. mark' \in [Marks -> 0..NotUsed]
    BY <2>1 DEF LockInv, SharedType
  <2> QED BY <2>2 DEF CkptLockMark, LockInv, SharedType
<1>2. pc' \in [Conn -> PC]
  BY DEF CkptLockMark, NextMark, CanExcl, LockInv, ConnType
<1>3. excl' \in [Conn -> SUBSET Lock] /\ slot' \in [Conn -> 0..Idle]
  BY Locks DEF CkptLockMark, NextMark, CanExcl, LockInv, ConnType
<1>4. hdr' \in [Conn -> Hdr] /\ minFrame' \in [Conn -> 0..MaxFrame + 1]
  BY Zeros DEF CkptLockMark, NextMark, CanExcl, LockInv, SharedType, ConnType
<1>5. content' \in [Conn -> Content \cup {None}] /\ cand' \in [Conn -> Cand]
  BY Zeros DEF CkptLockMark, NextMark, CanExcl, LockInv, SharedType, ConnType
<1>6. tx' \in [Conn -> Tx] /\ ck' \in [Conn -> Ck] /\ fresh' \in [Conn -> BOOLEAN]
  <2>1. ck \in [Conn -> Ck]
    BY DEF LockInv, ConnType
  <2>2. \A k \in Ck : k.at \in Marks /\ NextMark(c, k) => ck' \in [Conn -> Ck]
    BY <2>1, NextFields DEF NextMark
  <2>3. LET k == [ck[c] EXCEPT !.safe = SafeBelow(ck[c])] IN k \in Ck /\ k.at = ck[c].at
    BY <1>0, LowerSafe
  <2>4. ck' \in [Conn -> Ck]
    BY <1>0, <2>2, <2>3
  <2> QED BY <2>4 DEF CkptLockMark, LockInv, ConnType
<1>7. Still(c)
  BY DEF CkptLockMark, NextMark, CanExcl, LockInv, ConnType, Still
<1>8. HeldLocks(c)'
  <2>1. ck \in [Conn -> Ck] /\ pc \in [Conn -> PC]
    BY DEF LockInv, ConnType
  <2>2. \A k \in Ck : k.at \in Marks /\ NextMark(c, k) =>
          ck'[c].mode = k.mode /\ pc'[c] \in {"ck0", "ckmark"}
    BY <2>1, NextFields DEF NextMark
  <2>3. LET k == [ck[c] EXCEPT !.safe = SafeBelow(ck[c])]
        IN  k \in Ck /\ k.at = ck[c].at /\ k.mode = ck[c].mode
    BY <1>0, LowerSafe
  <2>4. ck'[c].mode = ck[c].mode /\ pc'[c] \in {"ck0", "ckmark"}
    BY <1>0, <2>2, <2>3
  <2>5. excl'[c] = excl[c]
    BY DEF CkptLockMark
  <2> QED BY <1>0, <2>4, <2>5 DEF HeldLocks, CkptLocks
<1>9. HeldSlot(c)'
  BY Here, Locks DEF CkptLockMark, NextMark, CanExcl, LockInv, ConnType, HeldSlot, Phase
<1>10. Phase(c)'
  <2>1. LET k == [ck[c] EXCEPT !.safe = SafeBelow(ck[c])] IN k \in Ck /\ k.at = ck[c].at
    BY <1>0, LowerSafe
  <2>2. content'[c] = None
    BY <1>0 DEF CkptLockMark
  <2> QED BY <1>0, <2>1, <2>2, NextPhase
<1>11. Room(c)'
  <2>1. /\ tx'[c] = tx[c] /\ hdr'[c].mx = hdr[c].mx
        /\ content'[c] = content[c] /\ pc'[c] # "recksum"
    BY DEF CkptLockMark, NextMark, CanExcl, LockInv, ConnType
  <2>2. pc'[c] \in Plain \cup Recovering \cup Ckpts => tx[c] = NoTx
    BY Here DEF CkptLockMark, NextMark, CanExcl, LockInv, ConnType, Room, Phase
  <2>3. (pc'[c] \in Pickers \cup Restarting => tx[c].reck = 0)
        /\ (pc'[c] \in Pickers \cup Restarting \cup NoFrames => tx[c].app = <<>>)
    BY Here, EmptyTx DEF CkptLockMark, NextMark, CanExcl, LockInv, ConnType, Room, Phase
  <2>4. slot'[c] \in Marks \/ tx[c].reck = 0
    BY Here, EmptyTx, Locks DEF CkptLockMark, NextMark, CanExcl, LockInv, ConnType, Room, Phase, HeldSlot
  <2>5. content[c] # None /\ pc'[c] \in Pickers \cup Restarting \cup Filling => tx[c].list # {}
    BY Here DEF CkptLockMark, NextMark, CanExcl, LockInv, ConnType, Room, Phase
  <2> QED BY <2>1, <2>2, <2>3, <2>4, <2>5, RoomKept
<1>12. Apart(c)
  BY Here, Locks DEF CkptLockMark, NextMark, CanExcl, LockInv, ConnType, HeldLocks, HeldSlot, Apart
<1> QED BY <1>1, <1>2, <1>3, <1>4, <1>5, <1>6, <1>7, <1>8, <1>9, <1>10, <1>11, <1>12, LockStep DEF ConnType

LEMMA CkptLock0Lock ==
  ASSUME LockInv, NEW c \in Conn, CkptLock0(c), UNCHANGED env
  PROVE  LockInv'
<1>1. SharedType'
  BY DEF CkptLock0, Take, CanExcl, LockInv, SharedType
<1>2. pc' \in [Conn -> PC]
  BY DEF CkptLock0, Take, CanExcl, LockInv, ConnType
<1>3. excl' \in [Conn -> SUBSET Lock] /\ slot' \in [Conn -> 0..Idle]
  BY Locks DEF CkptLock0, Take, CanExcl, LockInv, ConnType
<1>4. hdr' \in [Conn -> Hdr] /\ minFrame' \in [Conn -> 0..MaxFrame + 1]
  BY Zeros DEF CkptLock0, Take, CanExcl, LockInv, SharedType, ConnType
<1>5. content' \in [Conn -> Content \cup {None}] /\ cand' \in [Conn -> Cand]
  BY Zeros DEF CkptLock0, Take, CanExcl, LockInv, SharedType, ConnType
<1>6. tx' \in [Conn -> Tx] /\ ck' \in [Conn -> Ck] /\ fresh' \in [Conn -> BOOLEAN]
  <2>1. nBackfill \in Nat
    BY Numbers DEF LockInv, SharedType
  <2>2. [ck[c] EXCEPT !.base = nBackfill] \in Ck
    BY <2>1, Here, CkExcept, CkFields
  <2> QED BY <2>2 DEF CkptLock0, LockInv, ConnType
<1>7. Still(c)
  BY DEF CkptLock0, Take, CanExcl, LockInv, ConnType, Still
<1>8. HeldLocks(c)'
  <2>1. excl[c] = CkptLocks(c) /\ content[c] = None
    BY Here DEF CkptLock0, HeldLocks, Phase
  <2>2. \/ /\ pc'[c] = "cksync" /\ excl'[c] = excl[c] \cup {0}
           /\ ck'[c].mode = ck[c].mode
        \/ /\ pc'[c] = "ckend" /\ excl'[c] = excl[c] /\ ck'[c] = ck[c]
    <3>1. ck[c] \in Ck
      BY Here
    <3> QED BY <3>1 DEF CkptLock0, Take, LockInv, ConnType, Ck
  <2> QED BY <2>1, <2>2 DEF HeldLocks, CkptLocks
<1>9. HeldSlot(c)'
  BY Here, Locks DEF CkptLock0, Take, CanExcl, LockInv, ConnType, HeldSlot, Phase
<1>10. Phase(c)'
  <2>1. ck[c].at = NReader /\ content[c] = None /\ content'[c] = content[c]
    BY Here DEF CkptLock0, Phase
  <2>2. \/ /\ pc'[c] = "cksync" /\ ck'[c].at = ck[c].at
        \/ /\ pc'[c] = "ckend"
    <3>1. ck[c] \in Ck
      BY Here
    <3> QED BY <3>1 DEF CkptLock0, LockInv, ConnType, Ck
  <2> QED BY <2>1, <2>2 DEF Phase
<1>11. Room(c)'
  <2>1. /\ tx'[c] = tx[c] /\ hdr'[c].mx = hdr[c].mx
        /\ content'[c] = content[c] /\ pc'[c] # "recksum"
    BY DEF CkptLock0, Take, CanExcl, LockInv, ConnType
  <2>2. pc'[c] \in Plain \cup Recovering \cup Ckpts => tx[c] = NoTx
    BY Here DEF CkptLock0, Take, CanExcl, LockInv, ConnType, Room, Phase
  <2>3. (pc'[c] \in Pickers \cup Restarting => tx[c].reck = 0)
        /\ (pc'[c] \in Pickers \cup Restarting \cup NoFrames => tx[c].app = <<>>)
    BY Here, EmptyTx DEF CkptLock0, Take, CanExcl, LockInv, ConnType, Room, Phase
  <2>4. slot'[c] \in Marks \/ tx[c].reck = 0
    BY Here, EmptyTx, Locks DEF CkptLock0, Take, CanExcl, LockInv, ConnType, Room, Phase, HeldSlot
  <2>5. content[c] # None /\ pc'[c] \in Pickers \cup Restarting \cup Filling => tx[c].list # {}
    BY Here DEF CkptLock0, Take, CanExcl, LockInv, ConnType, Room, Phase
  <2> QED BY <2>1, <2>2, <2>3, <2>4, <2>5, RoomKept
<1>12. Apart(c)
  BY Here, Locks DEF CkptLock0, Take, CanExcl, LockInv, ConnType, HeldLocks, HeldSlot, Apart
<1> QED BY <1>1, <1>2, <1>3, <1>4, <1>5, <1>6, <1>7, <1>8, <1>9, <1>10, <1>11, <1>12, LockStep DEF ConnType

LEMMA CkptSyncLock ==
  ASSUME LockInv, NEW c \in Conn, CkptSync(c), UNCHANGED env
  PROVE  LockInv'
<1>1. SharedType'
  BY DEF CkptSync, SyncWal, LockInv, SharedType
<1>2. pc' \in [Conn -> PC]
  BY DEF CkptSync, SyncWal, LockInv, ConnType
<1>3. excl' \in [Conn -> SUBSET Lock] /\ slot' \in [Conn -> 0..Idle]
  BY Locks DEF CkptSync, SyncWal, LockInv, ConnType
<1>4. hdr' \in [Conn -> Hdr] /\ minFrame' \in [Conn -> 0..MaxFrame + 1]
  BY Zeros DEF CkptSync, SyncWal, LockInv, SharedType, ConnType
<1>5. content' \in [Conn -> Content \cup {None}] /\ cand' \in [Conn -> Cand]
  BY Zeros DEF CkptSync, SyncWal, LockInv, SharedType, ConnType
<1>6. tx' \in [Conn -> Tx] /\ ck' \in [Conn -> Ck] /\ fresh' \in [Conn -> BOOLEAN]
  BY Zeros DEF CkptSync, SyncWal, LockInv, SharedType, ConnType
<1>7. Still(c)
  BY DEF CkptSync, SyncWal, LockInv, ConnType, Still
<1>8. HeldLocks(c)'
  BY Here, Locks DEF CkptSync, SyncWal, LockInv, ConnType, HeldLocks, HeldSlot, WriterLock, CkptLocks, Phase
<1>9. HeldSlot(c)'
  BY Here, Locks DEF CkptSync, SyncWal, LockInv, ConnType, HeldSlot, Phase
<1>10. Phase(c)'
  BY Here, Locks DEF CkptSync, SyncWal, LockInv, ConnType, Phase
<1>11. Room(c)'
  <2>1. /\ tx'[c] = tx[c] /\ hdr'[c].mx = hdr[c].mx
        /\ content'[c] = content[c] /\ pc'[c] # "recksum"
    BY DEF CkptSync, SyncWal, LockInv, ConnType
  <2>2. pc'[c] \in Plain \cup Recovering \cup Ckpts => tx[c] = NoTx
    BY Here DEF CkptSync, SyncWal, LockInv, ConnType, Room, Phase
  <2>3. (pc'[c] \in Pickers \cup Restarting => tx[c].reck = 0)
        /\ (pc'[c] \in Pickers \cup Restarting \cup NoFrames => tx[c].app = <<>>)
    BY Here, EmptyTx DEF CkptSync, SyncWal, LockInv, ConnType, Room, Phase
  <2>4. slot'[c] \in Marks \/ tx[c].reck = 0
    BY Here, EmptyTx, Locks DEF CkptSync, SyncWal, LockInv, ConnType, Room, Phase, HeldSlot
  <2>5. content[c] # None /\ pc'[c] \in Pickers \cup Restarting \cup Filling => tx[c].list # {}
    BY Here DEF CkptSync, SyncWal, LockInv, ConnType, Room, Phase
  <2> QED BY <2>1, <2>2, <2>3, <2>4, <2>5, RoomKept
<1>12. Apart(c)
  BY Here, Locks DEF CkptSync, SyncWal, LockInv, ConnType, HeldLocks, HeldSlot, Apart
<1> QED BY <1>1, <1>2, <1>3, <1>4, <1>5, <1>6, <1>7, <1>8, <1>9, <1>10, <1>11, <1>12, LockStep DEF ConnType

LEMMA CkptCopyLock ==
  ASSUME LockInv, NEW c \in Conn, CkptCopy(c), UNCHANGED env
  PROVE  LockInv'
<1>1. SharedType'
  <2>1. Left(c) \subseteq Nat /\ Left(c) # {} /\ Left(c) \subseteq Page
    BY WalAssumption DEF Left, CkptCopy
  <2>2. Min(Left(c)) \in Left(c)
    BY <2>1, MinOf
  <2>3. ck[c].iter[Min(Left(c))] \in Frames
    <3>1. ck[c].iter \in [Page -> 0..MaxFrame] /\ ck[c].base \in Nat
      <4>1. ck[c] \in Ck
        BY Here
      <4> QED BY <4>1 DEF Ck
    <3>2. \A p \in Left(c) : ck[c].iter[p] \in Frames
      BY <3>1, Numbers DEF Left, Frames
    <3> QED BY <2>2, <3>2
  <2>4. wal.frame[ck[c].iter[Min(Left(c))]].ver \in 0..MaxVer
    BY <2>3 DEF LockInv, SharedType, WalFile, Frame
  <2>5. db' \in Content
    BY <2>1, <2>2, <2>4 DEF CkptCopy, LockInv, SharedType, Content
  <2> QED BY <2>5 DEF CkptCopy, LockInv, SharedType
<1>2. pc' \in [Conn -> PC]
  BY DEF CkptCopy, LockInv, ConnType
<1>3. excl' \in [Conn -> SUBSET Lock] /\ slot' \in [Conn -> 0..Idle]
  BY Locks DEF CkptCopy, LockInv, ConnType
<1>4. hdr' \in [Conn -> Hdr] /\ minFrame' \in [Conn -> 0..MaxFrame + 1]
  BY Zeros DEF CkptCopy, LockInv, SharedType, ConnType
<1>5. content' \in [Conn -> Content \cup {None}] /\ cand' \in [Conn -> Cand]
  BY Zeros DEF CkptCopy, LockInv, SharedType, ConnType
<1>6. tx' \in [Conn -> Tx] /\ ck' \in [Conn -> Ck] /\ fresh' \in [Conn -> BOOLEAN]
  <2>1. Left(c) \subseteq Nat /\ Left(c) # {} /\ Left(c) \subseteq Page
    BY WalAssumption DEF Left, CkptCopy
  <2>2. Min(Left(c)) \in Page
    BY <2>1, MinOf
  <2>3. [ck[c] EXCEPT !.iter[Min(Left(c))] = 0] \in Ck
    BY ZenonT(60), <2>2, Here, CkExcept, CkFields
  <2> QED BY <2>3 DEF CkptCopy, LockInv, ConnType
<1>7. Still(c)
  BY DEF CkptCopy, LockInv, ConnType, Still
<1>8. HeldLocks(c)'
  BY Here, Locks DEF CkptCopy, LockInv, ConnType, HeldLocks, HeldSlot, WriterLock, CkptLocks, Phase
<1>9. HeldSlot(c)'
  BY Here, Locks DEF CkptCopy, LockInv, ConnType, HeldSlot, Phase
<1>10. Phase(c)'
  BY Here, Locks DEF CkptCopy, LockInv, ConnType, Phase
<1>11. Room(c)'
  <2>1. /\ tx'[c] = tx[c] /\ hdr'[c].mx = hdr[c].mx
        /\ content'[c] = content[c] /\ pc'[c] # "recksum"
    BY DEF CkptCopy, LockInv, ConnType
  <2>2. pc'[c] \in Plain \cup Recovering \cup Ckpts => tx[c] = NoTx
    BY Here DEF CkptCopy, LockInv, ConnType, Room, Phase
  <2>3. (pc'[c] \in Pickers \cup Restarting => tx[c].reck = 0)
        /\ (pc'[c] \in Pickers \cup Restarting \cup NoFrames => tx[c].app = <<>>)
    BY Here, EmptyTx DEF CkptCopy, LockInv, ConnType, Room, Phase
  <2>4. slot'[c] \in Marks \/ tx[c].reck = 0
    BY Here, EmptyTx, Locks DEF CkptCopy, LockInv, ConnType, Room, Phase, HeldSlot
  <2>5. content[c] # None /\ pc'[c] \in Pickers \cup Restarting \cup Filling => tx[c].list # {}
    BY Here DEF CkptCopy, LockInv, ConnType, Room, Phase
  <2> QED BY <2>1, <2>2, <2>3, <2>4, <2>5, RoomKept
<1>12. Apart(c)
  BY Here, Locks DEF CkptCopy, LockInv, ConnType, HeldLocks, HeldSlot, Apart
<1> QED BY <1>1, <1>2, <1>3, <1>4, <1>5, <1>6, <1>7, <1>8, <1>9, <1>10, <1>11, <1>12, LockStep DEF ConnType

LEMMA CkptDoneLock ==
  ASSUME LockInv, NEW c \in Conn, CkptDone(c), UNCHANGED env
  PROVE  LockInv'
<1>1. SharedType'
  <2>1. ck[c].safe \in 0..MaxFrame
    BY Here DEF Ck
  <2>2. SyncedDb(c) \in [wal : WalFile, db : Content]
    BY DEF SyncedDb, LockInv, SharedType
  <2> QED BY <2>1, <2>2 DEF CkptDone, LockInv, SharedType
<1>2. pc' \in [Conn -> PC]
  BY DEF CkptDone, Release, LockInv, ConnType
<1>3. excl' \in [Conn -> SUBSET Lock] /\ slot' \in [Conn -> 0..Idle]
  BY Locks DEF CkptDone, Release, LockInv, ConnType
<1>4. hdr' \in [Conn -> Hdr] /\ minFrame' \in [Conn -> 0..MaxFrame + 1]
  BY Zeros DEF CkptDone, Release, LockInv, SharedType, ConnType
<1>5. content' \in [Conn -> Content \cup {None}] /\ cand' \in [Conn -> Cand]
  BY Zeros DEF CkptDone, Release, LockInv, SharedType, ConnType
<1>6. tx' \in [Conn -> Tx] /\ ck' \in [Conn -> Ck] /\ fresh' \in [Conn -> BOOLEAN]
  BY Zeros DEF CkptDone, Release, LockInv, SharedType, ConnType
<1>7. Still(c)
  BY DEF CkptDone, Release, LockInv, ConnType, Still
<1>8. HeldLocks(c)'
  BY SMTT(30), Here, Locks DEF CkptDone, Release, LockInv, ConnType, HeldLocks, HeldSlot, WriterLock, CkptLocks, Phase
<1>9. HeldSlot(c)'
  BY Here, Locks DEF CkptDone, Release, LockInv, ConnType, HeldSlot, Phase
<1>10. Phase(c)'
  BY Here, Locks DEF CkptDone, Release, LockInv, ConnType, Phase
<1>11. Room(c)'
  <2>1. /\ tx'[c] = tx[c] /\ hdr'[c].mx = hdr[c].mx
        /\ content'[c] = content[c] /\ pc'[c] # "recksum"
    BY DEF CkptDone, Release, LockInv, ConnType
  <2>2. pc'[c] \in Plain \cup Recovering \cup Ckpts => tx[c] = NoTx
    BY Here DEF CkptDone, Release, LockInv, ConnType, Room, Phase
  <2>3. (pc'[c] \in Pickers \cup Restarting => tx[c].reck = 0)
        /\ (pc'[c] \in Pickers \cup Restarting \cup NoFrames => tx[c].app = <<>>)
    BY Here, EmptyTx DEF CkptDone, Release, LockInv, ConnType, Room, Phase
  <2>4. slot'[c] \in Marks \/ tx[c].reck = 0
    BY Here, EmptyTx, Locks DEF CkptDone, Release, LockInv, ConnType, Room, Phase, HeldSlot
  <2>5. content[c] # None /\ pc'[c] \in Pickers \cup Restarting \cup Filling => tx[c].list # {}
    BY Here DEF CkptDone, Release, LockInv, ConnType, Room, Phase
  <2> QED BY <2>1, <2>2, <2>3, <2>4, <2>5, RoomKept
<1>12. Apart(c)
  BY Here, Locks DEF CkptDone, Release, LockInv, ConnType, HeldLocks, HeldSlot, Apart
<1> QED BY <1>1, <1>2, <1>3, <1>4, <1>5, <1>6, <1>7, <1>8, <1>9, <1>10, <1>11, <1>12, LockStep DEF ConnType

LEMMA CkptEndLock ==
  ASSUME LockInv, NEW c \in Conn, CkptEnd(c), UNCHANGED env
  PROVE  LockInv'
<1>1. SharedType'
  BY DEF CkptEnd, Take, CanExcl, LockInv, SharedType
<1>2. pc' \in [Conn -> PC]
  BY DEF CkptEnd, Take, CanExcl, LockInv, ConnType
<1>3. excl' \in [Conn -> SUBSET Lock] /\ slot' \in [Conn -> 0..Idle]
  <2>1. Readers \subseteq Lock
    BY Locks DEF Readers
  <2> QED BY <2>1 DEF CkptEnd, Take, LockInv, ConnType
<1>4. hdr' \in [Conn -> Hdr] /\ minFrame' \in [Conn -> 0..MaxFrame + 1]
  BY Zeros DEF CkptEnd, Take, CanExcl, LockInv, SharedType, ConnType
<1>5. content' \in [Conn -> Content \cup {None}] /\ cand' \in [Conn -> Cand]
  BY Zeros DEF CkptEnd, Take, CanExcl, LockInv, SharedType, ConnType
<1>6. tx' \in [Conn -> Tx] /\ ck' \in [Conn -> Ck] /\ fresh' \in [Conn -> BOOLEAN]
  BY Zeros DEF CkptEnd, Take, CanExcl, LockInv, SharedType, ConnType
<1>7. Still(c)
  BY DEF CkptEnd, Take, CanExcl, LockInv, ConnType, Still
<1>8. HeldLocks(c)'
  <2>1. excl[c] = CkptLocks(c) /\ content[c] = None /\ ck[c] \in Ck
    BY Here DEF CkptEnd, HeldLocks, Phase
  <2>2. \/ /\ pc'[c] = "rs1" /\ excl'[c] = excl[c] \cup Readers
           /\ ck[c].mode = "TRUNCATE"
        \/ pc'[c] = "ckquit" /\ excl'[c] = excl[c]
    BY DEF CkptEnd, Take, LockInv, ConnType
  <2>3. ck'[c] = ck[c] /\ content'[c] = content[c]
    BY DEF CkptEnd
  <2> QED BY <2>1, <2>2, <2>3 DEF HeldLocks, CkptLocks
<1>9. HeldSlot(c)'
  BY Here, Locks DEF CkptEnd, Take, CanExcl, LockInv, ConnType, HeldSlot, Phase
<1>10. Phase(c)'
  BY Here, Locks DEF CkptEnd, Take, CanExcl, LockInv, ConnType, Phase
<1>11. Room(c)'
  <2>1. /\ tx'[c] = tx[c] /\ hdr'[c].mx = hdr[c].mx
        /\ content'[c] = content[c] /\ pc'[c] # "recksum"
    BY DEF CkptEnd, Take, CanExcl, LockInv, ConnType
  <2>2. pc'[c] \in Plain \cup Recovering \cup Ckpts => tx[c] = NoTx
    BY Here DEF CkptEnd, Take, CanExcl, LockInv, ConnType, Room, Phase
  <2>3. (pc'[c] \in Pickers \cup Restarting => tx[c].reck = 0)
        /\ (pc'[c] \in Pickers \cup Restarting \cup NoFrames => tx[c].app = <<>>)
    BY Here, EmptyTx DEF CkptEnd, Take, CanExcl, LockInv, ConnType, Room, Phase
  <2>4. slot'[c] \in Marks \/ tx[c].reck = 0
    BY Here, EmptyTx, Locks DEF CkptEnd, Take, CanExcl, LockInv, ConnType, Room, Phase, HeldSlot
  <2>5. content[c] # None /\ pc'[c] \in Pickers \cup Restarting \cup Filling => tx[c].list # {}
    BY Here DEF CkptEnd, Take, CanExcl, LockInv, ConnType, Room, Phase
  <2> QED BY <2>1, <2>2, <2>3, <2>4, <2>5, RoomKept
<1>12. Apart(c)
  BY Here, Locks DEF CkptEnd, Take, CanExcl, LockInv, ConnType, HeldLocks, HeldSlot, Apart
<1> QED BY <1>1, <1>2, <1>3, <1>4, <1>5, <1>6, <1>7, <1>8, <1>9, <1>10, <1>11, <1>12, LockStep DEF ConnType

LEMMA CkptTruncateLock ==
  ASSUME LockInv, NEW c \in Conn, CkptTruncate(c), UNCHANGED env
  PROVE  LockInv'
<1>1. SharedType'
  BY Zeros DEF CkptTruncate, LockInv, SharedType
<1>2. pc' \in [Conn -> PC]
  BY DEF CkptTruncate, Release, LockInv, ConnType
<1>3. excl' \in [Conn -> SUBSET Lock] /\ slot' \in [Conn -> 0..Idle]
  BY Locks DEF CkptTruncate, Release, LockInv, ConnType
<1>4. hdr' \in [Conn -> Hdr] /\ minFrame' \in [Conn -> 0..MaxFrame + 1]
  BY Zeros DEF CkptTruncate, Release, LockInv, SharedType, ConnType
<1>5. content' \in [Conn -> Content \cup {None}] /\ cand' \in [Conn -> Cand]
  BY Zeros DEF CkptTruncate, Release, LockInv, SharedType, ConnType
<1>6. tx' \in [Conn -> Tx] /\ ck' \in [Conn -> Ck] /\ fresh' \in [Conn -> BOOLEAN]
  BY Zeros DEF CkptTruncate, Release, LockInv, SharedType, ConnType
<1>7. Still(c)
  BY DEF CkptTruncate, Release, LockInv, ConnType, Still
<1>8. HeldLocks(c)'
  <2>1. excl[c] = Readers \cup {CKPT, WRITE} /\ ck[c].mode # "PASSIVE" /\ Readers = Marks
    BY Here DEF CkptTruncate, HeldLocks, Phase, Readers
  <2>2. excl'[c] = excl[c] \ Readers /\ pc'[c] = "ckquit" /\ ck'[c] = ck[c]
    BY DEF CkptTruncate, Release, LockInv, ConnType
  <2>3. excl'[c] = {CKPT, WRITE}
    BY <2>1, <2>2, Locks
  <2> QED BY <2>1, <2>2, <2>3 DEF HeldLocks, CkptLocks
<1>9. HeldSlot(c)'
  BY Here, Locks DEF CkptTruncate, Release, LockInv, ConnType, HeldSlot, Phase
<1>10. Phase(c)'
  BY Here, Locks DEF CkptTruncate, Release, LockInv, ConnType, Phase
<1>11. Room(c)'
  <2>1. /\ tx'[c] = tx[c] /\ hdr'[c].mx = hdr[c].mx
        /\ content'[c] = content[c] /\ pc'[c] # "recksum"
    BY DEF CkptTruncate, Release, LockInv, ConnType
  <2>2. pc'[c] \in Plain \cup Recovering \cup Ckpts => tx[c] = NoTx
    BY Here DEF CkptTruncate, Release, LockInv, ConnType, Room, Phase
  <2>3. (pc'[c] \in Pickers \cup Restarting => tx[c].reck = 0)
        /\ (pc'[c] \in Pickers \cup Restarting \cup NoFrames => tx[c].app = <<>>)
    BY Here, EmptyTx DEF CkptTruncate, Release, LockInv, ConnType, Room, Phase
  <2>4. slot'[c] \in Marks \/ tx[c].reck = 0
    BY Here, EmptyTx, Locks DEF CkptTruncate, Release, LockInv, ConnType, Room, Phase, HeldSlot
  <2>5. content[c] # None /\ pc'[c] \in Pickers \cup Restarting \cup Filling => tx[c].list # {}
    BY Here DEF CkptTruncate, Release, LockInv, ConnType, Room, Phase
  <2> QED BY <2>1, <2>2, <2>3, <2>4, <2>5, RoomKept
<1>12. Apart(c)
  BY Here, Locks DEF CkptTruncate, Release, LockInv, ConnType, HeldLocks, HeldSlot, Apart
<1> QED BY <1>1, <1>2, <1>3, <1>4, <1>5, <1>6, <1>7, <1>8, <1>9, <1>10, <1>11, <1>12, LockStep DEF ConnType

LEMMA CkptQuitLock ==
  ASSUME LockInv, NEW c \in Conn, CkptQuit(c), UNCHANGED env
  PROVE  LockInv'
<1>1. SharedType'
  BY DEF CkptQuit, Forget, LockInv, SharedType
<1>2. pc' \in [Conn -> PC]
  BY DEF CkptQuit, Forget, LockInv, ConnType
<1>3. excl' \in [Conn -> SUBSET Lock] /\ slot' \in [Conn -> 0..Idle]
  BY Locks DEF CkptQuit, Forget, LockInv, ConnType
<1>4. hdr' \in [Conn -> Hdr] /\ minFrame' \in [Conn -> 0..MaxFrame + 1]
  <2>1. 0 \in 0..MaxFrame + 1
    BY Numbers
  <2> QED BY <2>1, Zeros DEF CkptQuit, Forget, LockInv, ConnType
<1>5. content' \in [Conn -> Content \cup {None}] /\ cand' \in [Conn -> Cand]
  BY Zeros DEF CkptQuit, Forget, LockInv, SharedType, ConnType
<1>6. tx' \in [Conn -> Tx] /\ ck' \in [Conn -> Ck] /\ fresh' \in [Conn -> BOOLEAN]
  BY Zeros DEF CkptQuit, Forget, LockInv, SharedType, ConnType
<1>7. Still(c)
  BY DEF CkptQuit, Forget, LockInv, ConnType, Still
<1>8. HeldLocks(c)'
  BY SMTT(30), Here, Locks DEF CkptQuit, Forget, LockInv, ConnType, HeldLocks, HeldSlot, WriterLock, CkptLocks, Phase
<1>9. HeldSlot(c)'
  BY Here, Locks DEF CkptQuit, Forget, LockInv, ConnType, HeldSlot, Phase
<1>10. Phase(c)'
  BY Here, Locks DEF CkptQuit, Forget, LockInv, ConnType, Phase
<1>11. Room(c)'
  BY <1>4, RoomEmpty, Here DEF CkptQuit, Forget, LockInv, ConnType, Room, Phase
<1>12. Apart(c)
  BY Here, Locks DEF CkptQuit, Forget, LockInv, ConnType, HeldLocks, HeldSlot, Apart
<1> QED BY <1>1, <1>2, <1>3, <1>4, <1>5, <1>6, <1>7, <1>8, <1>9, <1>10, <1>11, <1>12, LockStep DEF ConnType

LEMMA CrashLock ==
  ASSUME LockInv, NEW c \in Conn, Crash(c), UNCHANGED env
  PROVE  LockInv'
<1>1. SharedType'
  BY DEF Crash, Forget, LockInv, SharedType
<1>2. pc' \in [Conn -> PC]
  BY DEF Crash, Forget, LockInv, ConnType
<1>3. excl' \in [Conn -> SUBSET Lock] /\ slot' \in [Conn -> 0..Idle]
  BY Locks DEF Crash, Forget, LockInv, ConnType
<1>4. hdr' \in [Conn -> Hdr] /\ minFrame' \in [Conn -> 0..MaxFrame + 1]
  <2>1. 0 \in 0..MaxFrame + 1
    BY Numbers
  <2> QED BY <2>1, Zeros DEF Crash, Forget, LockInv, ConnType
<1>5. content' \in [Conn -> Content \cup {None}] /\ cand' \in [Conn -> Cand]
  BY Zeros DEF Crash, Forget, LockInv, SharedType, ConnType
<1>6. tx' \in [Conn -> Tx] /\ ck' \in [Conn -> Ck] /\ fresh' \in [Conn -> BOOLEAN]
  BY Zeros DEF Crash, Forget, LockInv, SharedType, ConnType
<1>7. Still(c)
  BY DEF Crash, Forget, LockInv, ConnType, Still
<1>8. HeldLocks(c)'
  BY SMTT(30), Here, Locks DEF Crash, Forget, LockInv, ConnType, HeldLocks, HeldSlot, WriterLock, CkptLocks, Phase
<1>9. HeldSlot(c)'
  BY Here, Locks DEF Crash, Forget, LockInv, ConnType, HeldSlot, Phase
<1>10. Phase(c)'
  BY Here, Locks DEF Crash, Forget, LockInv, ConnType, Phase
<1>11. Room(c)'
  BY ZenonT(60), <1>4, RoomEmpty, Here DEF Crash, Forget, LockInv, ConnType, Room, Phase
<1>12. Apart(c)
  BY Here, Locks DEF Crash, Forget, LockInv, ConnType, HeldLocks, HeldSlot, Apart
<1> QED BY <1>1, <1>2, <1>3, <1>4, <1>5, <1>6, <1>7, <1>8, <1>9, <1>10, <1>11, <1>12, LockStep DEF ConnType

(***************************************************************************)
(* The steps this module is about: what a connection does.                 *)
(***************************************************************************)
StepOf(c) ==
  \/ ReadHdr(c) \/ Choose(c) \/ Lock0(c) \/ Check0(c) \/ Pick(c) \/ SetMark(c)
  \/ Share(c) \/ Recheck(c) \/ EndRead(c) \/ RecoverLock(c) \/ Rec1(c) \/ Rec2(c)
  \/ Rec3(c) \/ BeginWrite(c) \/ WalFrames(c) \/ Restart1(c) \/ Restart2(c) \/ Restart3(c)
  \/ WalHdr(c) \/ SyncHdr(c) \/ WriteFrame(c) \/ Recksum(c) \/ SyncCommit(c) \/ Index(c)
  \/ Publish(c) \/ WriteFails(c) \/ Rollback(c) \/ Checkpoint(c) \/ CkptWriteLock(c) \/ CkptStart(c)
  \/ CkptMark(c) \/ CkptLockMark(c) \/ CkptLock0(c) \/ CkptSync(c) \/ CkptCopy(c) \/ CkptDone(c)
  \/ CkptEnd(c) \/ CkptTruncate(c) \/ CkptQuit(c) \/ Crash(c)

LEMMA StepsAreOfConnections ==
  ASSUME env \in Environments, Next, ~PowerLoss
  PROVE  \E c \in Conn : c \in env.conns /\ StepOf(c) /\ UNCHANGED env
<1>1. env.conns \subseteq Conn
  BY WalAssumption
<1> QED BY <1>1 DEF Next, Step, StepOf

LEMMA LockNext ==
  ASSUME LockInv, HeadInv, SaltRoom, NEW c \in Conn, StepOf(c), UNCHANGED env
  PROVE  LockInv'
<1>1. CASE ReadHdr(c)
  BY <1>1, ReadHdrLock
<1>2. CASE Choose(c)
  BY <1>2, ChooseLock
<1>3. CASE Lock0(c)
  BY <1>3, Lock0Lock
<1>4. CASE Check0(c)
  BY <1>4, Check0Lock
<1>5. CASE Pick(c)
  BY <1>5, PickLock
<1>6. CASE SetMark(c)
  BY <1>6, SetMarkLock
<1>7. CASE Share(c)
  BY <1>7, ShareLock
<1>8. CASE Recheck(c)
  BY <1>8, RecheckLock
<1>9. CASE EndRead(c)
  BY <1>9, EndReadLock
<1>10. CASE RecoverLock(c)
  BY <1>10, RecoverLockLock
<1>11. CASE Rec1(c)
  BY <1>11, Rec1Lock
<1>12. CASE Rec2(c)
  BY <1>12, Rec2Lock
<1>13. CASE Rec3(c)
  BY <1>13, Rec3Lock
<1>14. CASE BeginWrite(c)
  BY <1>14, BeginWriteLock
<1>15. CASE WalFrames(c)
  BY <1>15, WalFramesLock
<1>16. CASE Restart1(c)
  BY <1>16, Restart1Lock
<1>17. CASE Restart2(c)
  BY <1>17, Restart2Lock
<1>18. CASE Restart3(c)
  BY <1>18, Restart3Lock
<1>19. CASE WalHdr(c)
  BY <1>19, WalHdrLock
<1>20. CASE SyncHdr(c)
  BY <1>20, SyncHdrLock
<1>21. CASE WriteFrame(c)
  BY <1>21, WriteFrameLock
<1>22. CASE Recksum(c)
  BY <1>22, RecksumLock
<1>23. CASE SyncCommit(c)
  BY <1>23, SyncCommitLock
<1>24. CASE Index(c)
  BY <1>24, IndexLock
<1>25. CASE Publish(c)
  BY <1>25, PublishLock
<1>26. CASE WriteFails(c)
  BY <1>26, WriteFailsLock
<1>27. CASE Rollback(c)
  BY <1>27, RollbackLock
<1>28. CASE Checkpoint(c)
  BY <1>28, CheckpointLock
<1>29. CASE CkptWriteLock(c)
  BY <1>29, CkptWriteLockLock
<1>30. CASE CkptStart(c)
  BY <1>30, CkptStartLock
<1>31. CASE CkptMark(c)
  BY <1>31, CkptMarkLock
<1>32. CASE CkptLockMark(c)
  BY <1>32, CkptLockMarkLock
<1>33. CASE CkptLock0(c)
  BY <1>33, CkptLock0Lock
<1>34. CASE CkptSync(c)
  BY <1>34, CkptSyncLock
<1>35. CASE CkptCopy(c)
  BY <1>35, CkptCopyLock
<1>36. CASE CkptDone(c)
  BY <1>36, CkptDoneLock
<1>37. CASE CkptEnd(c)
  BY <1>37, CkptEndLock
<1>38. CASE CkptTruncate(c)
  BY <1>38, CkptTruncateLock
<1>39. CASE CkptQuit(c)
  BY <1>39, CkptQuitLock
<1>40. CASE Crash(c)
  BY <1>40, CrashLock
<1> QED BY <1>1, <1>2, <1>3, <1>4, <1>5, <1>6, <1>7, <1>8, <1>9, <1>10, <1>11, <1>12, <1>13, <1>14, <1>15, <1>16, <1>17, <1>18, <1>19, <1>20, <1>21, <1>22, <1>23, <1>24, <1>25, <1>26, <1>27, <1>28, <1>29, <1>30, <1>31, <1>32, <1>33, <1>34, <1>35, <1>36, <1>37, <1>38, <1>39, <1>40 DEF StepOf

LEMMA LockInit ==
  ASSUME Init
  PROVE  LockInv /\ HeadInv /\ SaltRoom
<1>1. SharedType
  <2>1. 0 \in 0..MaxFrame /\ 0 \in 0..NotUsed /\ 0 \in 0..MaxVer /\ 0 \in 0..env.salts
    BY Numbers, WalAssumption DEF Init
  <2>2. [p \in Page |-> 0] \in Content /\ <<[p \in Page |-> 0]>> \in Seq(Content)
    BY <2>1 DEF Content
  <2>3. [wal |-> NoWal, db |-> [p \in Page |-> 0]] \in [wal : WalFile, db : Content]
    BY <2>2, Zeros
  <2>4. wal \in WalFile /\ head \in [{0, 1} -> Hdr]
    BY Zeros DEF Init
  <2>5. mark \in [Marks -> 0..NotUsed] /\ idx \in [Frames -> Page \cup {0}]
    BY <2>1 DEF Init
  <2> QED BY <2>1, <2>2, <2>3, <2>4, <2>5 DEF Init, SharedType
<1>2. ConnType
  <2>1. 0 \in 0..MaxFrame + 1
    BY Numbers
  <2> QED BY <2>1, Zeros, Locks DEF Init, ConnType
<1>3. Exclusion
  BY DEF Init, Exclusion
<1>4. ASSUME NEW c \in Conn
      PROVE  HeldLocks(c) /\ HeldSlot(c) /\ Phase(c) /\ Room(c) /\ ~NeedsSalt(c)
  <2>1. /\ pc[c] = "idle" /\ excl[c] = {} /\ slot[c] = Idle /\ content[c] = None
        /\ ck[c] = NoCk /\ tx[c] = NoTx /\ hdr[c] = ZeroHdr
    BY DEF Init
  <2>2. Room(c)
    BY <2>1, EmptyTx, Numbers DEF Room, Top
  <2> QED BY <2>1, <2>2 DEF HeldLocks, HeldSlot, Phase, NeedsSalt
<1>5. HeadInv
  BY DEF Init, HeadInv, HeadOf, HasHdr, Unborn, Virgin, Blank
<1> QED BY <1>1, <1>2, <1>3, <1>4, <1>5 DEF LockInv, SaltRoom

(***************************************************************************)
(* The header.                                                             *)
(***************************************************************************)
LEMMA HeadQuiet ==
  ASSUME LockInv, HeadInv, NEW c \in Conn, Still(c), HeadOf(c)',
         UNCHANGED <<head, nBackfill, idx, files, past>>,
         pc[c] \notin {"rs2", "publish"}
  PROVE  HeadInv'
<1>1. Unborn' <=> Unborn
  BY DEF Unborn, Virgin
<1>2. Virgin' <=> Virgin
  BY DEF Virgin
<1>3. ASSUME NEW d \in Conn, d # c
      PROVE  HeadOf(d)'
  <2>1. HeadOf(d) /\ pc'[d] = pc[d] /\ hdr'[d] = hdr[d]
    BY <1>3 DEF HeadInv, Still
  <2> QED BY <1>1, <1>2, <2>1 DEF HeadOf, HasHdr
<1>4. ASSUME NEW w \in Conn, pc[w] \in {"rs2", "publish"}
      PROVE  pc'[w] \in {"rs2", "publish"}
  BY <1>4 DEF Still
<1> QED BY <1>1, <1>3, <1>4 DEF HeadInv

\* A step of one that has read a header and holds a lock.
LEMMA HeadBorn ==
  ASSUME LockInv, HeadInv, NEW c \in Conn, Still(c), HeadOf(c)', HasHdr(c), excl[c] # {},
         \/ head' = head /\ pc[c] \notin {"rs2", "publish"}
         \/ /\ WRITE \in excl[c] /\ head' \in [{0, 1} -> Hdr]
            /\ \/ head'[0] = head[0] /\ pc'[c] \in {"rs2", "publish"}
               \/ head'[0].init /\ head'[0] = head'[1]
  PROVE  HeadInv'
<1>1. head[0].init /\ ~Unborn
  BY DEF HeadInv, HeadOf, Unborn, ZeroHdr
<1>2. ASSUME NEW d \in Conn, d # c
      PROVE  /\ pc[d] \notin Recovering /\ pc'[d] = pc[d] /\ hdr'[d] = hdr[d]
             /\ WRITE \in excl[c] => pc[d] \notin {"rs2", "publish"}
  <2>1. excl[c] \subseteq Lock /\ excl[c] \cap excl[d] = {}
    BY <1>2, Here DEF LockInv, Exclusion
  <2>2. pc[d] \in Recovering => excl[d] = Lock
    BY Here DEF HeldLocks
  <2>3. pc[d] \in {"rs2", "publish"} => WRITE \in excl[d]
    BY Here DEF HeldLocks
  <2> QED BY <1>2, <2>1, <2>2, <2>3 DEF Still
<1>3. head'[0].init
  BY <1>1
<1>4. ASSUME NEW d \in Conn, d # c
      PROVE  HeadOf(d)'
  <2>1. HeadOf(d)
    BY DEF HeadInv
  <2>2. CASE head' = head
    BY <1>2, <1>4, <1>3, <2>1, <2>2 DEF HeadOf, HasHdr
  <2>3. CASE WRITE \in excl[c]
    BY <1>2, <1>4, <1>3, <2>1, <2>3 DEF HeadOf, HasHdr
  <2> QED BY <2>2, <2>3
<1>5. head'[1] = head'[0] \/ \E w \in Conn : pc'[w] \in {"rs2", "publish"}
  <2>1. CASE head' = head /\ pc[c] \notin {"rs2", "publish"}
    <3>1. head[1] = head[0] \/ \E w \in Conn : pc[w] \in {"rs2", "publish"}
      BY <1>1 DEF HeadInv
    <3> QED BY <1>2, <2>1, <3>1
  <2>2. CASE ~(head' = head /\ pc[c] \notin {"rs2", "publish"})
    BY <2>2
  <2> QED BY <2>1, <2>2
<1> QED BY <1>3, <1>4, <1>5 DEF HeadInv

\* Under a recovery nobody else has read a header.
LEMMA HeadRecovered ==
  ASSUME LockInv, HeadInv, NEW c \in Conn, Still(c), HeadOf(c)', pc[c] \in Recovering,
         \/ pc[c] \in {"rec1", "rec2"}
         \/ head' = head /\ Virgin',
         \/ Unborn'
         \/ head'[0].init /\ head'[1] = head'[0]
  PROVE  HeadInv'
<1>1. ASSUME NEW d \in Conn, d # c
      PROVE  /\ pc[d] \notin Recovering \cup {"rs2", "publish"} /\ pc'[d] = pc[d] /\ hdr'[d] = hdr[d]
  <2>1. excl[c] = Lock /\ excl[c] \cap excl[d] = {} /\ excl[d] \subseteq Lock /\ WRITE \in Lock
    BY <1>1, Here, Locks DEF LockInv, Exclusion, HeldLocks
  <2>2. pc[d] \in Recovering => excl[d] = Lock
    BY Here DEF HeldLocks
  <2>3. pc[d] \in {"rs2", "publish"} => WRITE \in excl[d]
    BY Here DEF HeldLocks
  <2> QED BY <1>1, <2>1, <2>2, <2>3 DEF Still
<1>2. ASSUME NEW d \in Conn, d # c
      PROVE  HeadOf(d)'
  <2>1. HeadOf(d) /\ HeadOf(c)
    BY DEF HeadInv
  <2>2. CASE pc[c] \in {"rec1", "rec2"}
    <3>1. ~HasHdr(d)
      BY <2>1, <2>2 DEF HeadOf, Unborn, ZeroHdr
    <3> QED BY <1>1, <1>2, <3>1 DEF HeadOf, HasHdr
  <2>3. CASE head' = head /\ Virgin'
    BY <1>1, <1>2, <2>1, <2>3 DEF HeadOf, HasHdr
  <2> QED BY <2>2, <2>3
<1> QED BY <1>2 DEF HeadInv

LEMMA ReadHdrHead ==
  ASSUME LockInv, HeadInv, NEW c \in Conn, ReadHdr(c), UNCHANGED env, LockInv'
  PROVE  Still(c) /\ HeadInv'
<1>1. Still(c)
  BY DEF ReadHdr, HeadIsGood, LockInv, ConnType, Still
<1>2. HeadOf(c) /\ HeldLocks(c) /\ pc \in [Conn -> PC] /\ hdr \in [Conn -> Hdr] /\ head \in [{0, 1} -> Hdr]
  BY Here DEF HeadInv, LockInv, SharedType, ConnType
<1>3. HeadOf(c)'
  BY <1>2 DEF ReadHdr, HeadIsGood, HeadOf, HasHdr
<1>4. UNCHANGED <<head, nBackfill, idx, files, past>> /\ pc[c] \notin {"rs2", "publish"}
  BY DEF ReadHdr, HeadIsGood
<1> QED BY <1>1, <1>3, <1>4, HeadQuiet

LEMMA ChooseHead ==
  ASSUME LockInv, HeadInv, NEW c \in Conn, Choose(c), UNCHANGED env, LockInv'
  PROVE  Still(c) /\ HeadInv'
<1>1. Still(c)
  BY DEF Choose, LockInv, ConnType, Still
<1>2. HeadOf(c) /\ HeldLocks(c) /\ pc \in [Conn -> PC] /\ hdr \in [Conn -> Hdr] /\ head \in [{0, 1} -> Hdr]
  BY Here DEF HeadInv, LockInv, SharedType, ConnType
<1>3. HeadOf(c)'
  BY <1>2 DEF Choose, HeadOf, HasHdr
<1>4. UNCHANGED <<head, nBackfill, idx, files, past>> /\ pc[c] \notin {"rs2", "publish"}
  BY DEF Choose
<1> QED BY <1>1, <1>3, <1>4, HeadQuiet

LEMMA Lock0Head ==
  ASSUME LockInv, HeadInv, NEW c \in Conn, Lock0(c), UNCHANGED env, LockInv'
  PROVE  Still(c) /\ HeadInv'
<1>1. Still(c)
  BY DEF Lock0, CanShare, LockInv, ConnType, Still
<1>2. HeadOf(c) /\ HeldLocks(c) /\ pc \in [Conn -> PC] /\ hdr \in [Conn -> Hdr] /\ head \in [{0, 1} -> Hdr]
  BY Here DEF HeadInv, LockInv, SharedType, ConnType
<1>3. HeadOf(c)'
  BY <1>2 DEF Lock0, CanShare, HeadOf, HasHdr
<1>4. UNCHANGED <<head, nBackfill, idx, files, past>> /\ pc[c] \notin {"rs2", "publish"}
  BY DEF Lock0, CanShare
<1> QED BY <1>1, <1>3, <1>4, HeadQuiet

LEMMA Check0Head ==
  ASSUME LockInv, HeadInv, NEW c \in Conn, Check0(c), UNCHANGED env, LockInv'
  PROVE  Still(c) /\ HeadInv'
<1>1. Still(c)
  BY DEF Check0, Begun, LockInv, ConnType, Still
<1>2. HeadOf(c) /\ HeldLocks(c) /\ pc \in [Conn -> PC] /\ hdr \in [Conn -> Hdr] /\ head \in [{0, 1} -> Hdr]
  BY Here DEF HeadInv, LockInv, SharedType, ConnType
<1>3. HeadOf(c)'
  BY <1>2 DEF Check0, Begun, HeadOf, HasHdr
<1>4. UNCHANGED <<head, nBackfill, idx, files, past>> /\ pc[c] \notin {"rs2", "publish"}
  BY DEF Check0, Begun
<1> QED BY <1>1, <1>3, <1>4, HeadQuiet

LEMMA PickHead ==
  ASSUME LockInv, HeadInv, NEW c \in Conn, Pick(c), UNCHANGED env, LockInv'
  PROVE  Still(c) /\ HeadInv'
<1>1. Still(c)
  <2>1. UNCHANGED <<slot, hdr, minFrame, tx, ck, content, fresh>>
    BY PickMoves
  <2>2. pc \in [Conn -> PC] /\ excl \in [Conn -> SUBSET Lock] /\ cand \in [Conn -> Cand]
    BY DEF LockInv, ConnType
  <2>3. ASSUME NEW d \in Conn \ {c}
        PROVE  pc'[d] = pc[d] /\ excl'[d] = excl[d] /\ cand'[d] = cand[d]
    <3> HIDE DEF PC
    <3>1. pc'[d] = pc[d]
      <4>1. \E v : pc' = [pc EXCEPT ![c] = v]
        BY PickMoves
      <4> QED BY <2>2, <4>1
    <3>2. excl'[d] = excl[d]
      <4>1. excl' = excl \/ \E i \in Marks : excl' = [excl EXCEPT ![c] = @ \cup {i}]
        BY PickMoves
      <4> QED BY <2>2, <4>1
    <3>3. cand'[d] = cand[d]
      <4>1. cand' = cand \/ \E v : cand' = [cand EXCEPT ![c] = v]
        BY PickMoves
      <4> QED BY <2>2, <4>1
    <3> QED BY <3>1, <3>2, <3>3
  <2> QED BY <2>1, <2>3 DEF Still
<1>2. HeadOf(c) /\ HeldLocks(c) /\ pc \in [Conn -> PC] /\ hdr \in [Conn -> Hdr] /\ head \in [{0, 1} -> Hdr]
  BY Here DEF HeadInv, LockInv, SharedType, ConnType
<1>3. HeadOf(c)'
  BY <1>2 DEF Pick, Take, HeadOf, HasHdr
<1>4. UNCHANGED <<head, nBackfill, idx, files, past>> /\ pc[c] \notin {"rs2", "publish"}
  BY DEF Pick, Take
<1> QED BY <1>1, <1>3, <1>4, HeadQuiet

LEMMA SetMarkHead ==
  ASSUME LockInv, HeadInv, NEW c \in Conn, SetMark(c), UNCHANGED env, LockInv'
  PROVE  Still(c) /\ HeadInv'
<1>1. Still(c)
  BY DEF SetMark, Release, LockInv, ConnType, Still
<1>2. HeadOf(c) /\ HeldLocks(c) /\ pc \in [Conn -> PC] /\ hdr \in [Conn -> Hdr] /\ head \in [{0, 1} -> Hdr]
  BY Here DEF HeadInv, LockInv, SharedType, ConnType
<1>3. HeadOf(c)'
  BY <1>2 DEF SetMark, Release, HeadOf, HasHdr
<1>4. UNCHANGED <<head, nBackfill, idx, files, past>> /\ pc[c] \notin {"rs2", "publish"}
  BY DEF SetMark, Release
<1> QED BY <1>1, <1>3, <1>4, HeadQuiet

LEMMA ShareHead ==
  ASSUME LockInv, HeadInv, NEW c \in Conn, Share(c), UNCHANGED env, LockInv'
  PROVE  Still(c) /\ HeadInv'
<1>1. Still(c)
  BY DEF Share, CanShare, LockInv, ConnType, Still
<1>2. HeadOf(c) /\ HeldLocks(c) /\ pc \in [Conn -> PC] /\ hdr \in [Conn -> Hdr] /\ head \in [{0, 1} -> Hdr]
  BY Here DEF HeadInv, LockInv, SharedType, ConnType
<1>3. HeadOf(c)'
  BY <1>2 DEF Share, CanShare, HeadOf, HasHdr
<1>4. UNCHANGED <<head, nBackfill, idx, files, past>> /\ pc[c] \notin {"rs2", "publish"}
  BY DEF Share, CanShare
<1> QED BY <1>1, <1>3, <1>4, HeadQuiet

LEMMA RecheckHead ==
  ASSUME LockInv, HeadInv, NEW c \in Conn, Recheck(c), UNCHANGED env, LockInv'
  PROVE  Still(c) /\ HeadInv'
<1>1. Still(c)
  BY DEF Recheck, Begun, LockInv, ConnType, Still
<1>2. HeadOf(c) /\ HeldLocks(c) /\ pc \in [Conn -> PC] /\ hdr \in [Conn -> Hdr] /\ head \in [{0, 1} -> Hdr]
  BY Here DEF HeadInv, LockInv, SharedType, ConnType
<1>3. HeadOf(c)'
  BY <1>2 DEF Recheck, Begun, HeadOf, HasHdr
<1>4. UNCHANGED <<head, nBackfill, idx, files, past>> /\ pc[c] \notin {"rs2", "publish"}
  BY DEF Recheck, Begun
<1> QED BY <1>1, <1>3, <1>4, HeadQuiet

LEMMA EndReadHead ==
  ASSUME LockInv, HeadInv, NEW c \in Conn, EndRead(c), UNCHANGED env, LockInv'
  PROVE  Still(c) /\ HeadInv'
<1>1. Still(c)
  BY DEF EndRead, Forget, LockInv, ConnType, Still
<1>2. HeadOf(c) /\ HeldLocks(c) /\ pc \in [Conn -> PC] /\ hdr \in [Conn -> Hdr] /\ head \in [{0, 1} -> Hdr]
  BY Here DEF HeadInv, LockInv, SharedType, ConnType
<1>3. HeadOf(c)'
  BY <1>2 DEF EndRead, Forget, HeadOf, HasHdr
<1>4. UNCHANGED <<head, nBackfill, idx, files, past>> /\ pc[c] \notin {"rs2", "publish"}
  BY DEF EndRead, Forget
<1> QED BY <1>1, <1>3, <1>4, HeadQuiet

LEMMA RecoverLockHead ==
  ASSUME LockInv, HeadInv, NEW c \in Conn, RecoverLock(c), UNCHANGED env, LockInv'
  PROVE  Still(c) /\ HeadInv'
<1>1. Still(c)
  BY DEF RecoverLock, Take, CanExcl, RecoverLocks, LockInv, ConnType, Still
<1>2. HeadOf(c) /\ HeldLocks(c) /\ pc \in [Conn -> PC] /\ hdr \in [Conn -> Hdr] /\ head \in [{0, 1} -> Hdr]
  BY Here DEF HeadInv, LockInv, SharedType, ConnType
<1>3. HeadOf(c)'
  <2>1. pc'[c] \in {"ckquit", "rec1"} /\ UNCHANGED <<head, nBackfill, idx, files, past>>
    BY <1>2 DEF RecoverLock, Take
  <2>2. ASSUME pc'[c] = "rec1" PROVE Unborn
    <3>1. \A d \in Conn \ {c} : WRITE \notin excl[d]
      <4>1. WRITE \in RecoverLocks \ {CKPT}
        BY Locks DEF RecoverLocks
      <4>2. CanExcl(c, RecoverLocks) \/ CanExcl(c, RecoverLocks \ {CKPT})
        BY <1>2, <2>2 DEF RecoverLock, Take
      <4> QED BY <4>1, <4>2 DEF CanExcl
    <3>2. \A d \in Conn : pc[d] \notin {"rs2", "publish"}
      <4>1. \A d \in Conn : pc[d] \in {"rs2", "publish"} => WRITE \in excl[d]
        BY Here DEF HeldLocks
      <4>2. pc[c] \notin {"rs2", "publish"}
        BY DEF RecoverLock
      <4> QED BY <3>1, <4>1, <4>2
    <3>3. ~HeadIsGood
      BY DEF RecoverLock
    <3> QED BY <3>2, <3>3 DEF HeadInv, HeadIsGood
  <2>3. Unborn => Unborn'
    BY <2>1 DEF Unborn, Virgin
  <2> QED BY <2>1, <2>2, <2>3 DEF HeadOf, HasHdr
<1>4. UNCHANGED <<head, nBackfill, idx, files, past>> /\ pc[c] \notin {"rs2", "publish"}
  BY DEF RecoverLock, Take, CanExcl, RecoverLocks
<1> QED BY <1>1, <1>3, <1>4, HeadQuiet

LEMMA Rec1Head ==
  ASSUME LockInv, HeadInv, NEW c \in Conn, Rec1(c), UNCHANGED env, LockInv'
  PROVE  Still(c) /\ HeadInv'
<1>1. Still(c)
  BY DEF Rec1, LockInv, ConnType, Still
<1>2. HeadOf(c) /\ HeldLocks(c) /\ pc \in [Conn -> PC] /\ hdr \in [Conn -> Hdr] /\ head \in [{0, 1} -> Hdr]
  BY Here DEF HeadInv, LockInv, SharedType, ConnType
<1>3. HeadOf(c)'
  <2>1. Unborn /\ pc'[c] = "rec2"
    BY <1>2 DEF Rec1, HeadOf
  <2>2. /\ LastCommit(wal) = 0 /\ (\A i \in Frames : ~ValidTo(wal, i)) /\ ~ValidTo(wal, 1) /\ wal.salt = 0
    BY <2>1, NothingToRecover DEF Unborn
  <2>3. hdr' = [hdr EXCEPT ![c] = H0] /\ head' = [head EXCEPT ![1] = H0]
    BY <2>2 DEF Rec1, H0, ZeroHdr
  <2>4. idx' = idx
    <3>1. idx \in [Frames -> Page \cup {0}]
      BY DEF LockInv, SharedType
    <3> QED BY <2>2, <3>1 DEF Rec1
  <2>5. Virgin'
    BY <2>1, <2>4 DEF Unborn, Virgin, Rec1
  <2>6. hdr'[c] = H0 /\ head'[1] = H0 /\ head'[0] = head[0]
    BY <1>2, <2>3
  <2>7. Unborn'
    BY <2>1, <2>5, <2>6 DEF Unborn
  <2> QED BY <2>1, <2>6, <2>7 DEF HeadOf, HasHdr
<1>4. pc[c] \in Recovering /\ (pc[c] \in {"rec1", "rec2"} \/ (head' = head /\ Virgin'))
  BY <1>2 DEF Rec1, HeadOf, Virgin
<1>5. Unborn' \/ (head'[0].init /\ head'[1] = head'[0])
  BY <1>3 DEF HeadOf, HasHdr, Rec1, LockInv, ConnType
<1> QED BY <1>1, <1>3, <1>4, <1>5, HeadRecovered

LEMMA Rec2Head ==
  ASSUME LockInv, HeadInv, NEW c \in Conn, Rec2(c), UNCHANGED env, LockInv'
  PROVE  Still(c) /\ HeadInv'
<1>1. Still(c)
  BY DEF Rec2, LockInv, ConnType, Still
<1>2. HeadOf(c) /\ HeldLocks(c) /\ pc \in [Conn -> PC] /\ hdr \in [Conn -> Hdr] /\ head \in [{0, 1} -> Hdr]
  BY Here DEF HeadInv, LockInv, SharedType, ConnType
<1>3. HeadOf(c)'
  <2>1. Unborn /\ pc'[c] = "rec3" /\ hdr[c] = H0 /\ head[1] = H0
    BY <1>2 DEF Rec2, HeadOf
  <2>2. head'[0] = H0 /\ head'[1] = H0 /\ hdr'[c] = H0
    BY <1>2, <2>1 DEF Rec2
  <2>3. Virgin'
    BY <2>1, NothingToRecover DEF Rec2, Unborn, Virgin
  <2> QED BY <2>1, <2>2, <2>3 DEF HeadOf, HasHdr
<1>4. pc[c] \in Recovering /\ (pc[c] \in {"rec1", "rec2"} \/ (head' = head /\ Virgin'))
  BY <1>2 DEF Rec2, HeadOf, Virgin
<1>5. Unborn' \/ (head'[0].init /\ head'[1] = head'[0])
  BY <1>2 DEF Rec2, HeadOf, Unborn, Virgin, H0, ZeroHdr
<1> QED BY <1>1, <1>3, <1>4, <1>5, HeadRecovered

LEMMA Rec3Head ==
  ASSUME LockInv, HeadInv, NEW c \in Conn, Rec3(c), UNCHANGED env, LockInv'
  PROVE  Still(c) /\ HeadInv'
<1>1. Still(c)
  BY DEF Rec3, LockInv, ConnType, Still
<1>2. HeadOf(c) /\ HeldLocks(c) /\ pc \in [Conn -> PC] /\ hdr \in [Conn -> Hdr] /\ head \in [{0, 1} -> Hdr]
  BY Here DEF HeadInv, LockInv, SharedType, ConnType
<1>3. HeadOf(c)'
  <2>1. pc'[c] \in {"choose", "ckinfo"} /\ hdr'[c] = H0 /\ head'[0] = H0
    BY <1>2 DEF Rec3, HeadOf
  <2> QED BY <2>1 DEF HeadOf, HasHdr, H0, ZeroHdr
<1>4. pc[c] \in Recovering /\ (pc[c] \in {"rec1", "rec2"} \/ (head' = head /\ Virgin'))
  BY <1>2 DEF Rec3, HeadOf, Virgin
<1>5. Unborn' \/ (head'[0].init /\ head'[1] = head'[0])
  BY <1>2 DEF Rec3, HeadOf, Unborn, Virgin, H0, ZeroHdr
<1> QED BY <1>1, <1>3, <1>4, <1>5, HeadRecovered

LEMMA BeginWriteHead ==
  ASSUME LockInv, HeadInv, NEW c \in Conn, BeginWrite(c), UNCHANGED env, LockInv'
  PROVE  Still(c) /\ HeadInv'
<1>1. Still(c)
  BY DEF BeginWrite, Take, CanExcl, LockInv, ConnType, Still
<1>2. HeadOf(c) /\ HeldLocks(c) /\ pc \in [Conn -> PC] /\ hdr \in [Conn -> Hdr] /\ head \in [{0, 1} -> Hdr]
  BY Here DEF HeadInv, LockInv, SharedType, ConnType
<1>3. HeadOf(c)'
  BY <1>2 DEF BeginWrite, Take, CanExcl, HeadOf, HasHdr
<1>4. UNCHANGED <<head, nBackfill, idx, files, past>> /\ pc[c] \notin {"rs2", "publish"}
  BY DEF BeginWrite, Take, CanExcl
<1> QED BY <1>1, <1>3, <1>4, HeadQuiet

LEMMA WalFramesHead ==
  ASSUME LockInv, HeadInv, NEW c \in Conn, WalFrames(c), UNCHANGED env, LockInv'
  PROVE  Still(c) /\ HeadInv'
<1>1. Still(c)
  BY SMTT(30) DEF WalFrames, Take, CanExcl, LockInv, ConnType, Still
<1>2. HeadOf(c) /\ HeldLocks(c) /\ pc \in [Conn -> PC] /\ hdr \in [Conn -> Hdr] /\ head \in [{0, 1} -> Hdr]
  BY Here DEF HeadInv, LockInv, SharedType, ConnType
<1>3. HeadOf(c)'
  BY <1>2 DEF WalFrames, Take, CanExcl, HeadOf, HasHdr
<1>4. UNCHANGED <<head, nBackfill, idx, files, past>> /\ pc[c] \notin {"rs2", "publish"}
  BY DEF WalFrames, Take, CanExcl
<1> QED BY <1>1, <1>3, <1>4, HeadQuiet

LEMMA Restart1Head ==
  ASSUME LockInv, HeadInv, NEW c \in Conn, Restart1(c), UNCHANGED env, LockInv'
  PROVE  Still(c) /\ HeadInv'
<1>1. Still(c)
  BY DEF Restart1, LockInv, ConnType, Still
<1>2. HeadOf(c) /\ HeldLocks(c) /\ pc \in [Conn -> PC] /\ hdr \in [Conn -> Hdr] /\ head \in [{0, 1} -> Hdr]
  BY Here DEF HeadInv, LockInv, SharedType, ConnType
<1>3. HeadOf(c)'
  BY <1>2 DEF Restart1, HeadOf, HasHdr
<1>4. HasHdr(c) /\ excl[c] # {}
  BY <1>2, Locks DEF Restart1, HasHdr, HeldLocks, CkptLocks, Readers
<1>5. \/ head' = head /\ pc[c] \notin {"rs2", "publish"}
      \/ /\ WRITE \in excl[c] /\ head' \in [{0, 1} -> Hdr]
         /\ \/ head'[0] = head[0] /\ pc'[c] \in {"rs2", "publish"}
            \/ head'[0].init /\ head'[0] = head'[1]
  BY <1>2 DEF Restart1, LockInv, SharedType, HeldLocks, HeadOf, HasHdr
<1> QED BY <1>1, <1>3, <1>4, <1>5, HeadBorn

LEMMA Restart2Head ==
  ASSUME LockInv, HeadInv, NEW c \in Conn, Restart2(c), UNCHANGED env, LockInv'
  PROVE  Still(c) /\ HeadInv'
<1>1. Still(c)
  BY DEF Restart2, LockInv, ConnType, Still
<1>2. HeadOf(c) /\ HeldLocks(c) /\ pc \in [Conn -> PC] /\ hdr \in [Conn -> Hdr] /\ head \in [{0, 1} -> Hdr]
  BY Here DEF HeadInv, LockInv, SharedType, ConnType
<1>3. HeadOf(c)'
  BY <1>2 DEF Restart2, HeadOf, HasHdr
<1>4. HasHdr(c) /\ excl[c] # {}
  BY <1>2, Locks DEF Restart2, HasHdr, HeldLocks, CkptLocks, Readers
<1>5. \/ head' = head /\ pc[c] \notin {"rs2", "publish"}
      \/ /\ WRITE \in excl[c] /\ head' \in [{0, 1} -> Hdr]
         /\ \/ head'[0] = head[0] /\ pc'[c] \in {"rs2", "publish"}
            \/ head'[0].init /\ head'[0] = head'[1]
  BY <1>2 DEF Restart2, LockInv, SharedType, HeldLocks, HeadOf, HasHdr
<1> QED BY <1>1, <1>3, <1>4, <1>5, HeadBorn

LEMMA Restart3Head ==
  ASSUME LockInv, HeadInv, NEW c \in Conn, Restart3(c), UNCHANGED env, LockInv'
  PROVE  Still(c) /\ HeadInv'
<1>1. Still(c)
  BY DEF Restart3, ResetInfo, Release, LockInv, ConnType, Still
<1>2. HeadOf(c) /\ HeldLocks(c) /\ pc \in [Conn -> PC] /\ hdr \in [Conn -> Hdr] /\ head \in [{0, 1} -> Hdr]
  BY Here DEF HeadInv, LockInv, SharedType, ConnType
<1>3. HeadOf(c)'
  BY <1>2 DEF Restart3, ResetInfo, Release, HeadOf, HasHdr
<1>4. HasHdr(c) /\ excl[c] # {}
  BY <1>2, Locks DEF Restart3, ResetInfo, Release, HasHdr, HeldLocks, CkptLocks, Readers
<1>5. \/ head' = head /\ pc[c] \notin {"rs2", "publish"}
      \/ /\ WRITE \in excl[c] /\ head' \in [{0, 1} -> Hdr]
         /\ \/ head'[0] = head[0] /\ pc'[c] \in {"rs2", "publish"}
            \/ head'[0].init /\ head'[0] = head'[1]
  BY <1>2 DEF Restart3, ResetInfo, Release, LockInv, SharedType, HeldLocks, HeadOf, HasHdr
<1> QED BY <1>1, <1>3, <1>4, <1>5, HeadBorn

LEMMA WalHdrHead ==
  ASSUME LockInv, HeadInv, NEW c \in Conn, WalHdr(c), UNCHANGED env, LockInv'
  PROVE  Still(c) /\ HeadInv'
<1>1. Still(c)
  BY DEF WalHdr, LockInv, ConnType, Still
<1>2. HeadOf(c) /\ HeldLocks(c) /\ pc \in [Conn -> PC] /\ hdr \in [Conn -> Hdr] /\ head \in [{0, 1} -> Hdr]
  BY Here DEF HeadInv, LockInv, SharedType, ConnType
<1>3. HeadOf(c)'
  <2>1. pc'[c] \in {"frame", "hdrsync"} /\ head' = head /\ pc[c] = "walhdr"
    BY <1>2 DEF WalHdr
  <2>2. hdr'[c].init = hdr[c].init
    <3>1. \/ hdr' = hdr
          \/ \E s : hdr' = [hdr EXCEPT ![c] = [@ EXCEPT !.salt = s, !.cksum = [salt |-> s, chain |-> <<>>]]]
      BY DEF WalHdr
    <3> QED BY <1>2, <3>1 DEF Hdr
  <2> QED BY <1>2, <2>1, <2>2 DEF HeadOf, HasHdr
<1>4. HasHdr(c) /\ excl[c] # {}
  BY <1>2, Locks DEF WalHdr, HasHdr, HeldLocks, CkptLocks, Readers
<1>5. \/ head' = head /\ pc[c] \notin {"rs2", "publish"}
      \/ /\ WRITE \in excl[c] /\ head' \in [{0, 1} -> Hdr]
         /\ \/ head'[0] = head[0] /\ pc'[c] \in {"rs2", "publish"}
            \/ head'[0].init /\ head'[0] = head'[1]
  BY <1>2 DEF WalHdr, LockInv, SharedType, HeldLocks, HeadOf, HasHdr
<1> QED BY <1>1, <1>3, <1>4, <1>5, HeadBorn

LEMMA SyncHdrHead ==
  ASSUME LockInv, HeadInv, NEW c \in Conn, SyncHdr(c), UNCHANGED env, LockInv'
  PROVE  Still(c) /\ HeadInv'
<1>1. Still(c)
  BY DEF SyncHdr, SyncWal, LockInv, ConnType, Still
<1>2. HeadOf(c) /\ HeldLocks(c) /\ pc \in [Conn -> PC] /\ hdr \in [Conn -> Hdr] /\ head \in [{0, 1} -> Hdr]
  BY Here DEF HeadInv, LockInv, SharedType, ConnType
<1>3. HeadOf(c)'
  BY <1>2 DEF SyncHdr, SyncWal, HeadOf, HasHdr
<1>4. HasHdr(c) /\ excl[c] # {}
  BY <1>2, Locks DEF SyncHdr, SyncWal, HasHdr, HeldLocks, CkptLocks, Readers
<1>5. \/ head' = head /\ pc[c] \notin {"rs2", "publish"}
      \/ /\ WRITE \in excl[c] /\ head' \in [{0, 1} -> Hdr]
         /\ \/ head'[0] = head[0] /\ pc'[c] \in {"rs2", "publish"}
            \/ head'[0].init /\ head'[0] = head'[1]
  BY <1>2 DEF SyncHdr, SyncWal, LockInv, SharedType, HeldLocks, HeadOf, HasHdr
<1> QED BY <1>1, <1>3, <1>4, <1>5, HeadBorn

LEMMA WriteFrameHead ==
  ASSUME LockInv, HeadInv, NEW c \in Conn, WriteFrame(c), UNCHANGED env, LockInv'
  PROVE  Still(c) /\ HeadInv'
<1>1. Still(c)
  BY SMTT(30) DEF WriteFrame, LockInv, ConnType, Still
<1>2. HeadOf(c) /\ HeldLocks(c) /\ pc \in [Conn -> PC] /\ hdr \in [Conn -> Hdr] /\ head \in [{0, 1} -> Hdr]
  BY Here DEF HeadInv, LockInv, SharedType, ConnType
<1>3. HeadOf(c)'
  <2>1. pc'[c] \in {"frame", "recksum", "sync", "index"} /\ head' = head /\ pc[c] = "frame"
    BY <1>2 DEF WriteFrame
  <2>2. hdr'[c].init = hdr[c].init
    <3>1. hdr' = hdr \/ \E k : hdr' = [hdr EXCEPT ![c].cksum = k]
      BY DEF WriteFrame
    <3> QED BY <1>2, <3>1 DEF Hdr
  <2> QED BY <1>2, <2>1, <2>2 DEF HeadOf, HasHdr
<1>4. HasHdr(c) /\ excl[c] # {}
  BY <1>2, Locks DEF WriteFrame, HasHdr, HeldLocks, CkptLocks, Readers
<1>5. \/ head' = head /\ pc[c] \notin {"rs2", "publish"}
      \/ /\ WRITE \in excl[c] /\ head' \in [{0, 1} -> Hdr]
         /\ \/ head'[0] = head[0] /\ pc'[c] \in {"rs2", "publish"}
            \/ head'[0].init /\ head'[0] = head'[1]
  BY <1>2 DEF WriteFrame, LockInv, SharedType, HeldLocks, HeadOf, HasHdr
<1> QED BY <1>1, <1>3, <1>4, <1>5, HeadBorn

LEMMA RecksumHead ==
  ASSUME LockInv, HeadInv, NEW c \in Conn, Recksum(c), UNCHANGED env, LockInv'
  PROVE  Still(c) /\ HeadInv'
<1>1. Still(c)
  BY ZenonT(60) DEF Recksum, LockInv, ConnType, Still
<1>2. HeadOf(c) /\ HeldLocks(c) /\ pc \in [Conn -> PC] /\ hdr \in [Conn -> Hdr] /\ head \in [{0, 1} -> Hdr]
  BY Here DEF HeadInv, LockInv, SharedType, ConnType
<1>3. HeadOf(c)'
  <2>1. pc'[c] \in {"sync", "index"} /\ head' = head /\ pc[c] = "recksum"
    BY <1>2 DEF Recksum
  <2>2. hdr'[c].init = hdr[c].init
    <3>1. \E k : hdr' = [hdr EXCEPT ![c].cksum = k]
      BY DEF Recksum
    <3> QED BY <1>2, <3>1 DEF Hdr
  <2> QED BY <1>2, <2>1, <2>2 DEF HeadOf, HasHdr
<1>4. HasHdr(c) /\ excl[c] # {}
  BY <1>2, Locks DEF Recksum, HasHdr, HeldLocks, CkptLocks, Readers
<1>5. \/ head' = head /\ pc[c] \notin {"rs2", "publish"}
      \/ /\ WRITE \in excl[c] /\ head' \in [{0, 1} -> Hdr]
         /\ \/ head'[0] = head[0] /\ pc'[c] \in {"rs2", "publish"}
            \/ head'[0].init /\ head'[0] = head'[1]
  BY <1>2 DEF Recksum, LockInv, SharedType, HeldLocks, HeadOf, HasHdr
<1> QED BY <1>1, <1>3, <1>4, <1>5, HeadBorn

LEMMA SyncCommitHead ==
  ASSUME LockInv, HeadInv, NEW c \in Conn, SyncCommit(c), UNCHANGED env, LockInv'
  PROVE  Still(c) /\ HeadInv'
<1>1. Still(c)
  BY DEF SyncCommit, SyncWal, LockInv, ConnType, Still
<1>2. HeadOf(c) /\ HeldLocks(c) /\ pc \in [Conn -> PC] /\ hdr \in [Conn -> Hdr] /\ head \in [{0, 1} -> Hdr]
  BY Here DEF HeadInv, LockInv, SharedType, ConnType
<1>3. HeadOf(c)'
  BY <1>2 DEF SyncCommit, SyncWal, HeadOf, HasHdr
<1>4. HasHdr(c) /\ excl[c] # {}
  BY <1>2, Locks DEF SyncCommit, SyncWal, HasHdr, HeldLocks, CkptLocks, Readers
<1>5. \/ head' = head /\ pc[c] \notin {"rs2", "publish"}
      \/ /\ WRITE \in excl[c] /\ head' \in [{0, 1} -> Hdr]
         /\ \/ head'[0] = head[0] /\ pc'[c] \in {"rs2", "publish"}
            \/ head'[0].init /\ head'[0] = head'[1]
  BY <1>2 DEF SyncCommit, SyncWal, LockInv, SharedType, HeldLocks, HeadOf, HasHdr
<1> QED BY <1>1, <1>3, <1>4, <1>5, HeadBorn

LEMMA IndexHead ==
  ASSUME LockInv, HeadInv, NEW c \in Conn, Index(c), UNCHANGED env, LockInv'
  PROVE  Still(c) /\ HeadInv'
<1>1. Still(c)
  BY DEF Index, LockInv, ConnType, Still
<1>2. HeadOf(c) /\ HeldLocks(c) /\ pc \in [Conn -> PC] /\ hdr \in [Conn -> Hdr] /\ head \in [{0, 1} -> Hdr]
  BY Here DEF HeadInv, LockInv, SharedType, ConnType
<1>3. HeadOf(c)'
  <2>1. /\ pc[c] = "index" /\ pc'[c] \in {"publish", "write"} /\ head'[0] = head[0]
        /\ pc'[c] = "publish" => head'[1] = hdr'[c]
    BY <1>2 DEF Index
  <2>2. hdr'[c].init
    <3>1. hdr[c].init
      BY <1>2, <2>1 DEF HeadOf, HasHdr
    <3>2. \E h : hdr' = [hdr EXCEPT ![c] = h] /\ (h.init <=> tx[c].com \/ hdr[c].init)
      <4> DEFINE h == [hdr[c] EXCEPT !.mx = MxAfter(c), !.init = tx[c].com \/ @,
                                     !.chg = IF tx[c].com THEN @ + 1 ELSE @]
      <4>1. hdr' = [hdr EXCEPT ![c] = h]
        BY DEF Index
      <4>2. h.init <=> tx[c].com \/ hdr[c].init
        BY <1>2 DEF Hdr
      <4> QED BY <4>1, <4>2
    <3> QED BY <1>2, <3>1, <3>2
  <2> QED BY <1>2, <2>1, <2>2 DEF HeadOf, HasHdr
<1>4. HasHdr(c) /\ excl[c] # {}
  BY <1>2, Locks DEF Index, HasHdr, HeldLocks, CkptLocks, Readers
<1>5. \/ head' = head /\ pc[c] \notin {"rs2", "publish"}
      \/ /\ WRITE \in excl[c] /\ head' \in [{0, 1} -> Hdr]
         /\ \/ head'[0] = head[0] /\ pc'[c] \in {"rs2", "publish"}
            \/ head'[0].init /\ head'[0] = head'[1]
  BY <1>2 DEF Index, LockInv, SharedType, HeldLocks, HeadOf, HasHdr
<1> QED BY <1>1, <1>3, <1>4, <1>5, HeadBorn

LEMMA PublishHead ==
  ASSUME LockInv, HeadInv, NEW c \in Conn, Publish(c), UNCHANGED env, LockInv'
  PROVE  Still(c) /\ HeadInv'
<1>1. Still(c)
  BY DEF Publish, Release, LockInv, ConnType, Still
<1>2. HeadOf(c) /\ HeldLocks(c) /\ pc \in [Conn -> PC] /\ hdr \in [Conn -> Hdr] /\ head \in [{0, 1} -> Hdr]
  BY Here DEF HeadInv, LockInv, SharedType, ConnType
<1>3. HeadOf(c)'
  BY <1>2 DEF Publish, Release, HeadOf, HasHdr
<1>4. HasHdr(c) /\ excl[c] # {}
  BY <1>2, Locks DEF Publish, Release, HasHdr, HeldLocks, CkptLocks, Readers
<1>5. \/ head' = head /\ pc[c] \notin {"rs2", "publish"}
      \/ /\ WRITE \in excl[c] /\ head' \in [{0, 1} -> Hdr]
         /\ \/ head'[0] = head[0] /\ pc'[c] \in {"rs2", "publish"}
            \/ head'[0].init /\ head'[0] = head'[1]
  BY <1>2 DEF Publish, Release, LockInv, SharedType, HeldLocks, HeadOf, HasHdr
<1> QED BY <1>1, <1>3, <1>4, <1>5, HeadBorn

LEMMA WriteFailsHead ==
  ASSUME LockInv, HeadInv, NEW c \in Conn, WriteFails(c), UNCHANGED env, LockInv'
  PROVE  Still(c) /\ HeadInv'
<1>1. Still(c)
  BY DEF WriteFails, LockInv, ConnType, Still
<1>2. HeadOf(c) /\ HeldLocks(c) /\ pc \in [Conn -> PC] /\ hdr \in [Conn -> Hdr] /\ head \in [{0, 1} -> Hdr]
  BY Here DEF HeadInv, LockInv, SharedType, ConnType
<1>3. HeadOf(c)'
  BY <1>2 DEF WriteFails, HeadOf, HasHdr
<1>4. UNCHANGED <<head, nBackfill, idx, files, past>> /\ pc[c] \notin {"rs2", "publish"}
  BY DEF WriteFails
<1> QED BY <1>1, <1>3, <1>4, HeadQuiet

LEMMA RollbackHead ==
  ASSUME LockInv, HeadInv, NEW c \in Conn, Rollback(c), UNCHANGED env, LockInv'
  PROVE  Still(c) /\ HeadInv'
<1>1. Still(c)
  BY DEF Rollback, Release, LockInv, ConnType, Still
<1>2. HeadOf(c) /\ HeldLocks(c) /\ pc \in [Conn -> PC] /\ hdr \in [Conn -> Hdr] /\ head \in [{0, 1} -> Hdr]
  BY Here DEF HeadInv, LockInv, SharedType, ConnType
<1>3. HeadOf(c)'
  BY <1>2 DEF Rollback, Release, HeadOf, HasHdr
<1>4. HasHdr(c) /\ excl[c] # {}
  BY <1>2, Locks DEF Rollback, Release, HasHdr, HeldLocks, CkptLocks, Readers
<1>5. \/ head' = head /\ pc[c] \notin {"rs2", "publish"}
      \/ /\ WRITE \in excl[c] /\ head' \in [{0, 1} -> Hdr]
         /\ \/ head'[0] = head[0] /\ pc'[c] \in {"rs2", "publish"}
            \/ head'[0].init /\ head'[0] = head'[1]
  BY <1>2 DEF Rollback, Release, LockInv, SharedType, HeldLocks, HeadOf, HasHdr
<1> QED BY <1>1, <1>3, <1>4, <1>5, HeadBorn

LEMMA CheckpointHead ==
  ASSUME LockInv, HeadInv, NEW c \in Conn, Checkpoint(c), UNCHANGED env, LockInv'
  PROVE  Still(c) /\ HeadInv'
<1>1. Still(c)
  BY DEF Checkpoint, Take, CanExcl, LockInv, ConnType, Still
<1>2. HeadOf(c) /\ HeldLocks(c) /\ pc \in [Conn -> PC] /\ hdr \in [Conn -> Hdr] /\ head \in [{0, 1} -> Hdr]
  BY Here DEF HeadInv, LockInv, SharedType, ConnType
<1>3. HeadOf(c)'
  BY <1>2 DEF Checkpoint, Take, CanExcl, HeadOf, HasHdr
<1>4. UNCHANGED <<head, nBackfill, idx, files, past>> /\ pc[c] \notin {"rs2", "publish"}
  BY DEF Checkpoint, Take, CanExcl
<1> QED BY <1>1, <1>3, <1>4, HeadQuiet

LEMMA CkptWriteLockHead ==
  ASSUME LockInv, HeadInv, NEW c \in Conn, CkptWriteLock(c), UNCHANGED env, LockInv'
  PROVE  Still(c) /\ HeadInv'
<1>1. Still(c)
  BY DEF CkptWriteLock, Take, CanExcl, LockInv, ConnType, Still
<1>2. HeadOf(c) /\ HeldLocks(c) /\ pc \in [Conn -> PC] /\ hdr \in [Conn -> Hdr] /\ head \in [{0, 1} -> Hdr]
  BY Here DEF HeadInv, LockInv, SharedType, ConnType
<1>3. HeadOf(c)'
  BY <1>2 DEF CkptWriteLock, Take, CanExcl, HeadOf, HasHdr
<1>4. UNCHANGED <<head, nBackfill, idx, files, past>> /\ pc[c] \notin {"rs2", "publish"}
  BY DEF CkptWriteLock, Take, CanExcl
<1> QED BY <1>1, <1>3, <1>4, HeadQuiet

LEMMA CkptStartHead ==
  ASSUME LockInv, HeadInv, NEW c \in Conn, CkptStart(c), UNCHANGED env, LockInv'
  PROVE  Still(c) /\ HeadInv'
<1>1. Still(c)
  BY DEF CkptStart, LockInv, ConnType, Still
<1>2. HeadOf(c) /\ HeldLocks(c) /\ pc \in [Conn -> PC] /\ hdr \in [Conn -> Hdr] /\ head \in [{0, 1} -> Hdr]
  BY Here DEF HeadInv, LockInv, SharedType, ConnType
<1>3. HeadOf(c)'
  BY <1>2 DEF CkptStart, HeadOf, HasHdr
<1>4. UNCHANGED <<head, nBackfill, idx, files, past>> /\ pc[c] \notin {"rs2", "publish"}
  BY DEF CkptStart
<1> QED BY <1>1, <1>3, <1>4, HeadQuiet

LEMMA CkptMarkHead ==
  ASSUME LockInv, HeadInv, NEW c \in Conn, CkptMark(c), UNCHANGED env, LockInv'
  PROVE  Still(c) /\ HeadInv'
<1>1. Still(c)
  BY DEF CkptMark, NextMark, LockInv, ConnType, Still
<1>2. HeadOf(c) /\ HeldLocks(c) /\ pc \in [Conn -> PC] /\ hdr \in [Conn -> Hdr] /\ head \in [{0, 1} -> Hdr]
  BY Here DEF HeadInv, LockInv, SharedType, ConnType
<1>3. HeadOf(c)'
  BY <1>2 DEF CkptMark, NextMark, HeadOf, HasHdr
<1>4. UNCHANGED <<head, nBackfill, idx, files, past>> /\ pc[c] \notin {"rs2", "publish"}
  BY DEF CkptMark, NextMark
<1> QED BY <1>1, <1>3, <1>4, HeadQuiet

LEMMA CkptLockMarkHead ==
  ASSUME LockInv, HeadInv, NEW c \in Conn, CkptLockMark(c), UNCHANGED env, LockInv'
  PROVE  Still(c) /\ HeadInv'
<1>1. Still(c)
  BY DEF CkptLockMark, NextMark, CanExcl, LockInv, ConnType, Still
<1>2. HeadOf(c) /\ HeldLocks(c) /\ pc \in [Conn -> PC] /\ hdr \in [Conn -> Hdr] /\ head \in [{0, 1} -> Hdr]
  BY Here DEF HeadInv, LockInv, SharedType, ConnType
<1>3. HeadOf(c)'
  BY <1>2 DEF CkptLockMark, NextMark, CanExcl, HeadOf, HasHdr
<1>4. UNCHANGED <<head, nBackfill, idx, files, past>> /\ pc[c] \notin {"rs2", "publish"}
  BY DEF CkptLockMark, NextMark, CanExcl
<1> QED BY <1>1, <1>3, <1>4, HeadQuiet

LEMMA CkptLock0Head ==
  ASSUME LockInv, HeadInv, NEW c \in Conn, CkptLock0(c), UNCHANGED env, LockInv'
  PROVE  Still(c) /\ HeadInv'
<1>1. Still(c)
  BY DEF CkptLock0, Take, CanExcl, LockInv, ConnType, Still
<1>2. HeadOf(c) /\ HeldLocks(c) /\ pc \in [Conn -> PC] /\ hdr \in [Conn -> Hdr] /\ head \in [{0, 1} -> Hdr]
  BY Here DEF HeadInv, LockInv, SharedType, ConnType
<1>3. HeadOf(c)'
  BY <1>2 DEF CkptLock0, Take, CanExcl, HeadOf, HasHdr
<1>4. UNCHANGED <<head, nBackfill, idx, files, past>> /\ pc[c] \notin {"rs2", "publish"}
  BY DEF CkptLock0, Take, CanExcl
<1> QED BY <1>1, <1>3, <1>4, HeadQuiet

LEMMA CkptSyncHead ==
  ASSUME LockInv, HeadInv, NEW c \in Conn, CkptSync(c), UNCHANGED env, LockInv'
  PROVE  Still(c) /\ HeadInv'
<1>1. Still(c)
  BY DEF CkptSync, SyncWal, LockInv, ConnType, Still
<1>2. HeadOf(c) /\ HeldLocks(c) /\ pc \in [Conn -> PC] /\ hdr \in [Conn -> Hdr] /\ head \in [{0, 1} -> Hdr]
  BY Here DEF HeadInv, LockInv, SharedType, ConnType
<1>3. HeadOf(c)'
  BY <1>2 DEF CkptSync, SyncWal, HeadOf, HasHdr
<1>4. HasHdr(c) /\ excl[c] # {}
  BY <1>2, Locks DEF CkptSync, SyncWal, HasHdr, HeldLocks, CkptLocks, Readers
<1>5. \/ head' = head /\ pc[c] \notin {"rs2", "publish"}
      \/ /\ WRITE \in excl[c] /\ head' \in [{0, 1} -> Hdr]
         /\ \/ head'[0] = head[0] /\ pc'[c] \in {"rs2", "publish"}
            \/ head'[0].init /\ head'[0] = head'[1]
  BY <1>2 DEF CkptSync, SyncWal, LockInv, SharedType, HeldLocks, HeadOf, HasHdr
<1> QED BY <1>1, <1>3, <1>4, <1>5, HeadBorn

LEMMA CkptCopyHead ==
  ASSUME LockInv, HeadInv, NEW c \in Conn, CkptCopy(c), UNCHANGED env, LockInv'
  PROVE  Still(c) /\ HeadInv'
<1>1. Still(c)
  BY DEF CkptCopy, LockInv, ConnType, Still
<1>2. HeadOf(c) /\ HeldLocks(c) /\ pc \in [Conn -> PC] /\ hdr \in [Conn -> Hdr] /\ head \in [{0, 1} -> Hdr]
  BY Here DEF HeadInv, LockInv, SharedType, ConnType
<1>3. HeadOf(c)'
  BY <1>2 DEF CkptCopy, HeadOf, HasHdr
<1>4. HasHdr(c) /\ excl[c] # {}
  BY <1>2, Locks DEF CkptCopy, HasHdr, HeldLocks, CkptLocks, Readers
<1>5. \/ head' = head /\ pc[c] \notin {"rs2", "publish"}
      \/ /\ WRITE \in excl[c] /\ head' \in [{0, 1} -> Hdr]
         /\ \/ head'[0] = head[0] /\ pc'[c] \in {"rs2", "publish"}
            \/ head'[0].init /\ head'[0] = head'[1]
  BY <1>2 DEF CkptCopy, LockInv, SharedType, HeldLocks, HeadOf, HasHdr
<1> QED BY <1>1, <1>3, <1>4, <1>5, HeadBorn

LEMMA CkptDoneHead ==
  ASSUME LockInv, HeadInv, NEW c \in Conn, CkptDone(c), UNCHANGED env, LockInv'
  PROVE  Still(c) /\ HeadInv'
<1>1. Still(c)
  BY DEF CkptDone, Release, LockInv, ConnType, Still
<1>2. HeadOf(c) /\ HeldLocks(c) /\ pc \in [Conn -> PC] /\ hdr \in [Conn -> Hdr] /\ head \in [{0, 1} -> Hdr]
  BY Here DEF HeadInv, LockInv, SharedType, ConnType
<1>3. HeadOf(c)'
  BY <1>2 DEF CkptDone, Release, HeadOf, HasHdr
<1>4. HasHdr(c) /\ excl[c] # {}
  BY <1>2, Locks DEF CkptDone, Release, HasHdr, HeldLocks, CkptLocks, Readers
<1>5. \/ head' = head /\ pc[c] \notin {"rs2", "publish"}
      \/ /\ WRITE \in excl[c] /\ head' \in [{0, 1} -> Hdr]
         /\ \/ head'[0] = head[0] /\ pc'[c] \in {"rs2", "publish"}
            \/ head'[0].init /\ head'[0] = head'[1]
  BY <1>2 DEF CkptDone, Release, LockInv, SharedType, HeldLocks, HeadOf, HasHdr
<1> QED BY <1>1, <1>3, <1>4, <1>5, HeadBorn

LEMMA CkptEndHead ==
  ASSUME LockInv, HeadInv, NEW c \in Conn, CkptEnd(c), UNCHANGED env, LockInv'
  PROVE  Still(c) /\ HeadInv'
<1>1. Still(c)
  BY DEF CkptEnd, Take, CanExcl, LockInv, ConnType, Still
<1>2. HeadOf(c) /\ HeldLocks(c) /\ pc \in [Conn -> PC] /\ hdr \in [Conn -> Hdr] /\ head \in [{0, 1} -> Hdr]
  BY Here DEF HeadInv, LockInv, SharedType, ConnType
<1>3. HeadOf(c)'
  BY <1>2 DEF CkptEnd, Take, CanExcl, HeadOf, HasHdr
<1>4. UNCHANGED <<head, nBackfill, idx, files, past>> /\ pc[c] \notin {"rs2", "publish"}
  BY DEF CkptEnd, Take, CanExcl
<1> QED BY <1>1, <1>3, <1>4, HeadQuiet

LEMMA CkptTruncateHead ==
  ASSUME LockInv, HeadInv, NEW c \in Conn, CkptTruncate(c), UNCHANGED env, LockInv'
  PROVE  Still(c) /\ HeadInv'
<1>1. Still(c)
  BY DEF CkptTruncate, Release, LockInv, ConnType, Still
<1>2. HeadOf(c) /\ HeldLocks(c) /\ pc \in [Conn -> PC] /\ hdr \in [Conn -> Hdr] /\ head \in [{0, 1} -> Hdr]
  BY Here DEF HeadInv, LockInv, SharedType, ConnType
<1>3. HeadOf(c)'
  BY <1>2 DEF CkptTruncate, Release, HeadOf, HasHdr
<1>4. HasHdr(c) /\ excl[c] # {}
  BY <1>2, Locks DEF CkptTruncate, Release, HasHdr, HeldLocks, CkptLocks, Readers
<1>5. \/ head' = head /\ pc[c] \notin {"rs2", "publish"}
      \/ /\ WRITE \in excl[c] /\ head' \in [{0, 1} -> Hdr]
         /\ \/ head'[0] = head[0] /\ pc'[c] \in {"rs2", "publish"}
            \/ head'[0].init /\ head'[0] = head'[1]
  BY <1>2 DEF CkptTruncate, Release, LockInv, SharedType, HeldLocks, HeadOf, HasHdr
<1> QED BY <1>1, <1>3, <1>4, <1>5, HeadBorn

LEMMA CkptQuitHead ==
  ASSUME LockInv, HeadInv, NEW c \in Conn, CkptQuit(c), UNCHANGED env, LockInv'
  PROVE  Still(c) /\ HeadInv'
<1>1. Still(c)
  BY DEF CkptQuit, Forget, LockInv, ConnType, Still
<1>2. HeadOf(c) /\ HeldLocks(c) /\ pc \in [Conn -> PC] /\ hdr \in [Conn -> Hdr] /\ head \in [{0, 1} -> Hdr]
  BY Here DEF HeadInv, LockInv, SharedType, ConnType
<1>3. HeadOf(c)'
  BY <1>2 DEF CkptQuit, Forget, HeadOf, HasHdr
<1>4. UNCHANGED <<head, nBackfill, idx, files, past>> /\ pc[c] \notin {"rs2", "publish"}
  BY DEF CkptQuit, Forget
<1> QED BY <1>1, <1>3, <1>4, HeadQuiet

LEMMA CrashHead ==
  ASSUME LockInv, HeadInv, NEW c \in Conn, Crash(c), UNCHANGED env, LockInv', pc[c] \notin {"rs2", "publish"}
  PROVE  Still(c) /\ HeadInv'
<1>1. Still(c)
  BY DEF Crash, Forget, LockInv, ConnType, Still
<1>2. HeadOf(c) /\ HeldLocks(c) /\ pc \in [Conn -> PC] /\ hdr \in [Conn -> Hdr] /\ head \in [{0, 1} -> Hdr]
  BY Here DEF HeadInv, LockInv, SharedType, ConnType
<1>3. HeadOf(c)'
  BY <1>2 DEF Crash, Forget, HeadOf, HasHdr
<1>4. UNCHANGED <<head, nBackfill, idx, files, past>> /\ pc[c] \notin {"rs2", "publish"}
  BY DEF Crash, Forget
<1> QED BY <1>1, <1>3, <1>4, HeadQuiet

(***************************************************************************)
(* How what a connection has read relates to the header there is.          *)
(***************************************************************************)
Older(g, h) == g.salt < h.salt \/ (g.salt = h.salt /\ g.chg < h.chg)
N == head[0].mx
Running == {"ckmark", "cklock", "ck0", "cksync", "ckcopy"}

\* Who has the newest header, and can rely on it.
Current(c) ==
  \/ pc[c] \in {"rs1", "rs3"}
  \/ content[c] # None /\ pc[c] \in Pickers
  \/ pc[c] = "write" /\ slot[c] = 0
  \/ ck[c].mode # "PASSIVE" /\ pc[c] \in {"ckinfo", "ckend"} \cup Running
\* Who has a header there is or there was.
Follows(c) == HasHdr(c) /\ pc[c] \notin Writes \cup {"rs2"}
\* Who found the whole log backfilled.
AtEnd(c) == pc[c] \in {"lock0", "check0"} \/ (slot[c] = 0 /\ pc[c] \in {"read", "write"})

HdrOf(c) ==
  /\ hdr[c].salt <= salts
  /\ Current(c) => hdr[c] = head[0]
  /\ Follows(c) => hdr[c] = head[0] \/ Older(hdr[c], head[0])
  /\ pc[c] \in Writes \ {"publish"} =>
       hdr[c].chg = head[0].chg /\ hdr[c].salt >= head[0].salt /\ hdr[c].mx >= N
  /\ pc[c] \in {"recksum", "sync", "index"} /\ tx[c].com => tx[c].app # <<>>
  /\ pc[c] = "publish" => Older(head[0], hdr[c]) /\ hdr[c].mx > N
  /\ pc[c] = "rs2" => Older(head[0], hdr[c]) /\ hdr[c].mx = 0
  /\ pc[c] \in {"rs1", "rs2"} => nBackfill = N
  /\ pc[c] = "rs3" => N = 0
  /\ pc[c] = "cktrunc" => N = 0 /\ nBackfill = 0
  /\ pc[c] = "ckinfo" => hdr[c].mx <= N
  /\ pc[c] \in Running => nBackfill < hdr[c].mx /\ hdr[c].mx <= N /\ ck[c].safe <= hdr[c].mx
  /\ pc[c] \in Copying => ck[c].base = nBackfill /\ nBackfill < ck[c].safe
  /\ AtEnd(c) /\ hdr[c] = head[0] => nBackfill = N

LogSize == nBackfill <= N \/ \E c \in Conn : pc[c] = "rs3"

HdrInv ==
  /\ head[0].salt <= salts
  /\ LogSize
  /\ \A c \in Conn : HdrOf(c)

LEMMA HdrNumbers ==
  ASSUME LockInv
  PROVE  /\ nBackfill \in Nat /\ N \in Nat /\ head[0] \in Hdr /\ salts \in Nat
         /\ head[0].salt \in Nat /\ head[0].chg \in Nat
         /\ \A c \in Conn : /\ hdr[c] \in Hdr /\ hdr[c].mx \in Nat /\ hdr[c].salt \in Nat
                            /\ hdr[c].chg \in Nat /\ ck[c].safe \in Nat /\ ck[c].base \in Nat
<1>1. nBackfill \in Nat /\ head[0] \in Hdr /\ salts \in Nat
  BY Numbers, WalAssumption DEF LockInv, SharedType
<1>2. \A c \in Conn : hdr[c] \in Hdr /\ ck[c] \in Ck
  BY Here
<1>3. \A h \in Hdr : h.mx \in Nat /\ h.salt \in Nat /\ h.chg \in Nat
  BY Numbers DEF Hdr
<1>4. \A k \in Ck : k.safe \in Nat /\ k.base \in Nat
  BY Numbers DEF Ck
<1> QED BY <1>1, <1>2, <1>3, <1>4 DEF N

LEMMA OlderOrder ==
  ASSUME NEW f \in Hdr, NEW g \in Hdr, NEW h \in Hdr, Older(g, h)
  PROVE  /\ g # h
         /\ f = g \/ Older(f, g) => Older(f, h) /\ f # h
BY DEF Older, Hdr

\* The lock of who relies on the header.
LEMMA CurrentLock ==
  ASSUME LockInv, NEW d \in Conn
  PROVE  /\ \/ Current(d)
            \/ pc[d] \in Writes \cup Restarting \cup {"cktrunc"}
            => WRITE \in excl[d]
         /\ pc[d] \in Running \cup {"cktrunc"} => CKPT \in excl[d]
BY Here DEF Current, HeldLocks, WriterLock, CkptLocks, Running

LEMMA Alone ==
  ASSUME LockInv, NEW c \in Conn, NEW d \in Conn, c # d
  PROVE  /\ WRITE \in excl[c] => WRITE \notin excl[d]
         /\ CKPT \in excl[c] => CKPT \notin excl[d]
BY DEF LockInv, Exclusion

\* A step that leaves the committed header and nBackfill alone.
LEMMA HdrOthers ==
  ASSUME LockInv, LockInv', HdrInv, NEW c \in Conn, Still(c),
         head'[0] = head[0], nBackfill' = nBackfill, salts' >= salts
  PROVE  \A d \in Conn \ {c} : HdrOf(d)'
<1> SUFFICES ASSUME NEW d \in Conn \ {c} PROVE HdrOf(d)'
  OBVIOUS
<1>1. HdrOf(d) /\ salts \in Nat /\ salts' \in Nat /\ hdr[d].salt \in Nat
  BY HdrNumbers, WalAssumption DEF HdrInv, LockInv, SharedType
<1>2. /\ slot'[d] = slot[d] /\ pc'[d] = pc[d] /\ hdr'[d] = hdr[d]
      /\ tx'[d] = tx[d] /\ ck'[d] = ck[d] /\ content'[d] = content[d]
  BY DEF Still
<1>3. Current(d)' <=> Current(d)
  BY <1>2 DEF Current
<1>4. (Follows(d)' <=> Follows(d)) /\ (AtEnd(d)' <=> AtEnd(d))
  BY <1>2 DEF Follows, AtEnd, HasHdr
<1> QED BY <1>1, <1>2, <1>3, <1>4 DEF HdrOf, N

LEMMA HdrQuiet ==
  ASSUME LockInv, LockInv', HdrInv, NEW c \in Conn, Still(c),
         head'[0] = head[0], nBackfill' = nBackfill, salts' \in Nat, salts' >= salts,
         pc[c] # "rs3", HdrOf(c)'
  PROVE  HdrInv'
<1>1. \A d \in Conn \ {c} : HdrOf(d)'
  BY HdrOthers
<1>2. head'[0].salt <= salts'
  BY HdrNumbers DEF HdrInv
<1>3. LogSize'
  <2>1. \A d \in Conn : pc[d] = "rs3" => pc'[d] = "rs3"
    BY DEF Still
  <2> QED BY <2>1 DEF HdrInv, LogSize, N
<1> QED BY <1>1, <1>2, <1>3 DEF HdrInv

LEMMA ReadHdrHdr ==
  ASSUME LockInv, HeadInv, HdrInv, NEW c \in Conn, ReadHdr(c), UNCHANGED env, LockInv', HeadInv', Still(c)
  PROVE  HdrInv'
<1>1. HdrOf(c) /\ HeldLocks(c) /\ HeldSlot(c) /\ Phase(c) /\ Room(c) /\ head[0].salt <= salts
  BY Here DEF HdrInv
<1>2. pc \in [Conn -> PC] /\ hdr \in [Conn -> Hdr] /\ head \in [{0, 1} -> Hdr] /\ slot \in [Conn -> 0..Idle]
  BY DEF LockInv, SharedType, ConnType
<1>3. ck \in [Conn -> Ck] /\ tx \in [Conn -> Tx] /\ content \in [Conn -> Content \cup {None}]
  BY DEF LockInv, SharedType, ConnType
<1>4. HdrOf(c)'
  <2>1. /\ pc'[c] \in {"choose", "ckinfo"} /\ hdr'[c] = head[0] /\ head' = head
        /\ salts' = salts /\ nBackfill' = nBackfill
    BY <1>2 DEF ReadHdr
  <2> QED BY SMTT(30), <1>1, <2>1, HdrNumbers DEF HdrOf, Current, Follows, HasHdr, AtEnd, Running, N
<1>5. head'[0] = head[0] /\ nBackfill' = nBackfill /\ salts' \in Nat /\ salts' >= salts /\ pc[c] # "rs3"
  BY <1>2, HdrNumbers DEF ReadHdr, HeadIsGood
<1> QED BY <1>4, <1>5, HdrQuiet

LEMMA ChooseHdr ==
  ASSUME LockInv, HeadInv, HdrInv, NEW c \in Conn, Choose(c), UNCHANGED env, LockInv', HeadInv', Still(c)
  PROVE  HdrInv'
<1>1. HdrOf(c) /\ HeldLocks(c) /\ HeldSlot(c) /\ Phase(c) /\ Room(c) /\ head[0].salt <= salts
  BY Here DEF HdrInv
<1>2. pc \in [Conn -> PC] /\ hdr \in [Conn -> Hdr] /\ head \in [{0, 1} -> Hdr] /\ slot \in [Conn -> 0..Idle]
  BY DEF LockInv, SharedType, ConnType
<1>3. ck \in [Conn -> Ck] /\ tx \in [Conn -> Tx] /\ content \in [Conn -> Content \cup {None}]
  BY DEF LockInv, SharedType, ConnType
<1>4. HdrOf(c)'
  BY <1>1, <1>2, <1>3, HdrNumbers DEF Choose, AllBackfilled, HdrOf, Current, Follows, HasHdr, AtEnd, Running, HeldSlot, Phase, N
<1>5. head'[0] = head[0] /\ nBackfill' = nBackfill /\ salts' \in Nat /\ salts' >= salts /\ pc[c] # "rs3"
  BY <1>2, HdrNumbers DEF Choose
<1> QED BY <1>4, <1>5, HdrQuiet

LEMMA Lock0Hdr ==
  ASSUME LockInv, HeadInv, HdrInv, NEW c \in Conn, Lock0(c), UNCHANGED env, LockInv', HeadInv', Still(c)
  PROVE  HdrInv'
<1>1. HdrOf(c) /\ HeldLocks(c) /\ HeldSlot(c) /\ Phase(c) /\ Room(c) /\ head[0].salt <= salts
  BY Here DEF HdrInv
<1>2. pc \in [Conn -> PC] /\ hdr \in [Conn -> Hdr] /\ head \in [{0, 1} -> Hdr] /\ slot \in [Conn -> 0..Idle]
  BY DEF LockInv, SharedType, ConnType
<1>3. ck \in [Conn -> Ck] /\ tx \in [Conn -> Tx] /\ content \in [Conn -> Content \cup {None}]
  BY DEF LockInv, SharedType, ConnType
<1>4. HdrOf(c)'
  BY <1>1, <1>2, <1>3, HdrNumbers DEF Lock0, CanShare, HdrOf, Current, Follows, HasHdr, AtEnd, Running, HeldSlot, Phase, N
<1>5. head'[0] = head[0] /\ nBackfill' = nBackfill /\ salts' \in Nat /\ salts' >= salts /\ pc[c] # "rs3"
  BY <1>2, HdrNumbers DEF Lock0, CanShare
<1> QED BY <1>4, <1>5, HdrQuiet

LEMMA Check0Hdr ==
  ASSUME LockInv, HeadInv, HdrInv, NEW c \in Conn, Check0(c), UNCHANGED env, LockInv', HeadInv', Still(c)
  PROVE  HdrInv'
<1>1. HdrOf(c) /\ HeldLocks(c) /\ HeldSlot(c) /\ Phase(c) /\ Room(c) /\ head[0].salt <= salts
  BY Here DEF HdrInv
<1>2. pc \in [Conn -> PC] /\ hdr \in [Conn -> Hdr] /\ head \in [{0, 1} -> Hdr] /\ slot \in [Conn -> 0..Idle]
  BY DEF LockInv, SharedType, ConnType
<1>3. ck \in [Conn -> Ck] /\ tx \in [Conn -> Tx] /\ content \in [Conn -> Content \cup {None}]
  BY DEF LockInv, SharedType, ConnType
<1>4. HdrOf(c)'
  BY <1>1, <1>2, <1>3, HdrNumbers DEF Check0, Begun, HdrOf, Current, Follows, HasHdr, AtEnd, Running, HeldSlot, Phase, N
<1>5. head'[0] = head[0] /\ nBackfill' = nBackfill /\ salts' \in Nat /\ salts' >= salts /\ pc[c] # "rs3"
  BY <1>2, HdrNumbers DEF Check0, Begun
<1> QED BY <1>4, <1>5, HdrQuiet

LEMMA PickHdr ==
  ASSUME LockInv, HeadInv, HdrInv, NEW c \in Conn, Pick(c), UNCHANGED env, LockInv', HeadInv', Still(c)
  PROVE  HdrInv'
<1>1. HdrOf(c) /\ HeldLocks(c) /\ HeldSlot(c) /\ Phase(c) /\ Room(c) /\ head[0].salt <= salts
  BY Here DEF HdrInv
<1>2. pc \in [Conn -> PC] /\ hdr \in [Conn -> Hdr] /\ head \in [{0, 1} -> Hdr] /\ slot \in [Conn -> 0..Idle]
  BY DEF LockInv, SharedType, ConnType
<1>3. ck \in [Conn -> Ck] /\ tx \in [Conn -> Tx] /\ content \in [Conn -> Content \cup {None}]
  BY DEF LockInv, SharedType, ConnType
<1>4. HdrOf(c)'
  <2>1. /\ pc'[c] \in Pickers \cup {"idle"} /\ hdr'[c] = hdr[c] /\ head' = head
        /\ salts' = salts /\ nBackfill' = nBackfill /\ content'[c] = content[c] /\ slot'[c] = slot[c]
        /\ pc[c] = "pick"
    BY <1>2, PickMoves
  <2> QED BY <1>1, <2>1 DEF HdrOf, Current, Follows, HasHdr, AtEnd, Running, N
<1>5. head'[0] = head[0] /\ nBackfill' = nBackfill /\ salts' \in Nat /\ salts' >= salts /\ pc[c] # "rs3"
  BY <1>2, HdrNumbers DEF Pick, Take
<1> QED BY <1>4, <1>5, HdrQuiet

LEMMA SetMarkHdr ==
  ASSUME LockInv, HeadInv, HdrInv, NEW c \in Conn, SetMark(c), UNCHANGED env, LockInv', HeadInv', Still(c)
  PROVE  HdrInv'
<1>1. HdrOf(c) /\ HeldLocks(c) /\ HeldSlot(c) /\ Phase(c) /\ Room(c) /\ head[0].salt <= salts
  BY Here DEF HdrInv
<1>2. pc \in [Conn -> PC] /\ hdr \in [Conn -> Hdr] /\ head \in [{0, 1} -> Hdr] /\ slot \in [Conn -> 0..Idle]
  BY DEF LockInv, SharedType, ConnType
<1>3. ck \in [Conn -> Ck] /\ tx \in [Conn -> Tx] /\ content \in [Conn -> Content \cup {None}]
  BY DEF LockInv, SharedType, ConnType
<1>4. HdrOf(c)'
  BY <1>1, <1>2, <1>3, HdrNumbers DEF SetMark, Release, HdrOf, Current, Follows, HasHdr, AtEnd, Running, HeldSlot, Phase, N
<1>5. head'[0] = head[0] /\ nBackfill' = nBackfill /\ salts' \in Nat /\ salts' >= salts /\ pc[c] # "rs3"
  BY <1>2, HdrNumbers DEF SetMark, Release
<1> QED BY <1>4, <1>5, HdrQuiet

LEMMA ShareHdr ==
  ASSUME LockInv, HeadInv, HdrInv, NEW c \in Conn, Share(c), UNCHANGED env, LockInv', HeadInv', Still(c)
  PROVE  HdrInv'
<1>1. HdrOf(c) /\ HeldLocks(c) /\ HeldSlot(c) /\ Phase(c) /\ Room(c) /\ head[0].salt <= salts
  BY Here DEF HdrInv
<1>2. pc \in [Conn -> PC] /\ hdr \in [Conn -> Hdr] /\ head \in [{0, 1} -> Hdr] /\ slot \in [Conn -> 0..Idle]
  BY DEF LockInv, SharedType, ConnType
<1>3. ck \in [Conn -> Ck] /\ tx \in [Conn -> Tx] /\ content \in [Conn -> Content \cup {None}]
  BY DEF LockInv, SharedType, ConnType
<1>4. HdrOf(c)'
  BY SMTT(30), <1>1, <1>2, <1>3, HdrNumbers DEF Share, CanShare, HdrOf, Current, Follows, HasHdr, AtEnd, Running, HeldSlot, Phase, N
<1>5. head'[0] = head[0] /\ nBackfill' = nBackfill /\ salts' \in Nat /\ salts' >= salts /\ pc[c] # "rs3"
  BY <1>2, HdrNumbers DEF Share, CanShare
<1> QED BY <1>4, <1>5, HdrQuiet

LEMMA RecheckHdr ==
  ASSUME LockInv, HeadInv, HdrInv, NEW c \in Conn, Recheck(c), UNCHANGED env, LockInv', HeadInv', Still(c)
  PROVE  HdrInv'
<1>1. HdrOf(c) /\ HeldLocks(c) /\ HeldSlot(c) /\ Phase(c) /\ Room(c) /\ head[0].salt <= salts
  BY Here DEF HdrInv
<1>2. pc \in [Conn -> PC] /\ hdr \in [Conn -> Hdr] /\ head \in [{0, 1} -> Hdr] /\ slot \in [Conn -> 0..Idle]
  BY DEF LockInv, SharedType, ConnType
<1>3. ck \in [Conn -> Ck] /\ tx \in [Conn -> Tx] /\ content \in [Conn -> Content \cup {None}]
  BY DEF LockInv, SharedType, ConnType
<1>4. HdrOf(c)'
  <2>1. /\ hdr'[c] = hdr[c] /\ head' = head /\ salts' = salts /\ nBackfill' = nBackfill
        /\ pc[c] = "recheck"
        /\ \/ pc'[c] = "read" /\ slot'[c] = slot[c]
           \/ pc'[c] = "idle"
           \/ pc'[c] \in {"walhdr", "pick"} /\ content'[c] = content[c] /\ content[c] # None
    BY <1>2, <1>3 DEF Recheck, Begun
  <2>2. slot[c] # 0
    BY <1>1, <2>1, Locks DEF HeldSlot, Phase
  <2>3. /\ hdr[c].salt <= salts /\ (hdr[c] = head[0] \/ Older(hdr[c], head[0]))
        /\ content[c] # None => hdr[c] = head[0]
    BY <1>1, <2>1 DEF HdrOf, Follows, HasHdr, Current
  <2>4. pc'[c] = "walhdr" => hdr[c].chg = head[0].chg /\ hdr[c].salt >= head[0].salt /\ hdr[c].mx >= N
    BY <2>1, <2>3, HdrNumbers DEF N
  <2> QED BY <2>1, <2>2, <2>3, <2>4 DEF HdrOf, Current, Follows, HasHdr, AtEnd, Running, N
<1>5. head'[0] = head[0] /\ nBackfill' = nBackfill /\ salts' \in Nat /\ salts' >= salts /\ pc[c] # "rs3"
  BY <1>2, HdrNumbers DEF Recheck, Begun
<1> QED BY <1>4, <1>5, HdrQuiet

LEMMA EndReadHdr ==
  ASSUME LockInv, HeadInv, HdrInv, NEW c \in Conn, EndRead(c), UNCHANGED env, LockInv', HeadInv', Still(c)
  PROVE  HdrInv'
<1>1. HdrOf(c) /\ HeldLocks(c) /\ HeldSlot(c) /\ Phase(c) /\ Room(c) /\ head[0].salt <= salts
  BY Here DEF HdrInv
<1>2. pc \in [Conn -> PC] /\ hdr \in [Conn -> Hdr] /\ head \in [{0, 1} -> Hdr] /\ slot \in [Conn -> 0..Idle]
  BY DEF LockInv, SharedType, ConnType
<1>3. ck \in [Conn -> Ck] /\ tx \in [Conn -> Tx] /\ content \in [Conn -> Content \cup {None}]
  BY DEF LockInv, SharedType, ConnType
<1>4. HdrOf(c)'
  <2>1. pc'[c] = "idle" /\ hdr'[c] = ZeroHdr /\ salts' = salts
    BY <1>2 DEF EndRead, Forget
  <2> QED BY <2>1, HdrNumbers DEF HdrOf, Current, Follows, HasHdr, AtEnd, Running, ZeroHdr
<1>5. head'[0] = head[0] /\ nBackfill' = nBackfill /\ salts' \in Nat /\ salts' >= salts /\ pc[c] # "rs3"
  BY <1>2, HdrNumbers DEF EndRead, Forget
<1> QED BY <1>4, <1>5, HdrQuiet

LEMMA RecoverLockHdr ==
  ASSUME LockInv, HeadInv, HdrInv, NEW c \in Conn, RecoverLock(c), UNCHANGED env, LockInv', HeadInv', Still(c)
  PROVE  HdrInv'
<1>1. HdrOf(c) /\ HeldLocks(c) /\ HeldSlot(c) /\ Phase(c) /\ Room(c) /\ head[0].salt <= salts
  BY Here DEF HdrInv
<1>2. pc \in [Conn -> PC] /\ hdr \in [Conn -> Hdr] /\ head \in [{0, 1} -> Hdr] /\ slot \in [Conn -> 0..Idle]
  BY DEF LockInv, SharedType, ConnType
<1>3. ck \in [Conn -> Ck] /\ tx \in [Conn -> Tx] /\ content \in [Conn -> Content \cup {None}]
  BY DEF LockInv, SharedType, ConnType
<1>4. HdrOf(c)'
  BY <1>1, <1>2, <1>3, HdrNumbers DEF RecoverLock, Take, CanExcl, RecoverLocks, HdrOf, Current, Follows, HasHdr, AtEnd, Running, HeldSlot, Phase, N
<1>5. head'[0] = head[0] /\ nBackfill' = nBackfill /\ salts' \in Nat /\ salts' >= salts /\ pc[c] # "rs3"
  BY <1>2, HdrNumbers DEF RecoverLock, Take, CanExcl, RecoverLocks
<1> QED BY <1>4, <1>5, HdrQuiet

LEMMA Rec1Hdr ==
  ASSUME LockInv, HeadInv, HdrInv, NEW c \in Conn, Rec1(c), UNCHANGED env, LockInv', HeadInv', Still(c)
  PROVE  HdrInv'
<1>1. HdrOf(c) /\ HeldLocks(c) /\ HeldSlot(c) /\ Phase(c) /\ Room(c) /\ head[0].salt <= salts
  BY Here DEF HdrInv
<1>2. pc \in [Conn -> PC] /\ hdr \in [Conn -> Hdr] /\ head \in [{0, 1} -> Hdr] /\ slot \in [Conn -> 0..Idle]
  BY DEF LockInv, SharedType, ConnType
<1>3. ck \in [Conn -> Ck] /\ tx \in [Conn -> Tx] /\ content \in [Conn -> Content \cup {None}]
  BY DEF LockInv, SharedType, ConnType
<1>4. HdrOf(c)'
  <2>1. pc'[c] = "rec2" /\ salts' = salts
    BY <1>2 DEF Rec1
  <2>2. hdr'[c] = H0
    BY <2>1 DEF HeadInv, HeadOf
  <2> QED BY <2>1, <2>2, HdrNumbers DEF HdrOf, Current, Follows, HasHdr, AtEnd, Running, H0, ZeroHdr
<1>5. head'[0] = head[0] /\ nBackfill' = nBackfill /\ salts' \in Nat /\ salts' >= salts /\ pc[c] # "rs3"
  BY <1>2, HdrNumbers DEF Rec1
<1> QED BY <1>4, <1>5, HdrQuiet

LEMMA Rec2Hdr ==
  ASSUME LockInv, HeadInv, HdrInv, NEW c \in Conn, Rec2(c), UNCHANGED env, LockInv', HeadInv', Still(c)
  PROVE  HdrInv'
<1>1. /\ pc[c] = "rec2" /\ pc'[c] = "rec3" /\ hdr' = hdr /\ head'[0] = hdr[c] /\ nBackfill' = nBackfill
      /\ UNCHANGED salts
  BY DEF Rec2, LockInv, SharedType, ConnType
<1>2. hdr[c] = H0 /\ Unborn
  BY <1>1 DEF HeadInv, HeadOf
<1>3. ASSUME NEW d \in Conn
      PROVE  HdrOf(d)'
  <2>1. HdrOf(d) /\ ~HasHdr(d)
    BY <1>2 DEF HdrInv, HeadInv, HeadOf, Unborn, ZeroHdr
  <2>2. pc'[d] \notin {"rec1", "rec2"} => pc'[d] \in {"idle", "ckwrite", "ckhdr", "ckquit", "rec3"}
    BY <1>1, <2>1 DEF HasHdr, Still
  <2>3. hdr'[d].salt <= salts'
    BY <1>1, <2>1 DEF HdrOf
  <2> QED BY <2>2, <2>3 DEF HdrOf, Current, Follows, HasHdr, AtEnd, Running
<1>4. nBackfill' = 0 /\ N' = 0 /\ head'[0].salt <= salts'
  BY <1>1, <1>2, HdrNumbers DEF Unborn, Virgin, N, H0, ZeroHdr
<1> QED BY <1>3, <1>4 DEF HdrInv, LogSize

LEMMA Rec3Hdr ==
  ASSUME LockInv, HeadInv, HdrInv, NEW c \in Conn, Rec3(c), UNCHANGED env, LockInv', HeadInv', Still(c)
  PROVE  HdrInv'
<1>1. HdrOf(c) /\ HeldLocks(c) /\ HeldSlot(c) /\ Phase(c) /\ Room(c) /\ head[0].salt <= salts
  BY Here DEF HdrInv
<1>2. pc \in [Conn -> PC] /\ hdr \in [Conn -> Hdr] /\ head \in [{0, 1} -> Hdr] /\ slot \in [Conn -> 0..Idle]
  BY DEF LockInv, SharedType, ConnType
<1>3. ck \in [Conn -> Ck] /\ tx \in [Conn -> Tx] /\ content \in [Conn -> Content \cup {None}]
  BY DEF LockInv, SharedType, ConnType
<1>4. HdrOf(c)'
  <2>1. pc'[c] \in {"choose", "ckinfo"} /\ salts' = salts /\ hdr'[c] = hdr[c] /\ head' = head /\ pc[c] = "rec3"
    BY <1>2 DEF Rec3
  <2>2. hdr[c] = H0 /\ head[0] = H0
    BY <2>1 DEF HeadInv, HeadOf
  <2> QED BY <1>1, <2>1, <2>2 DEF HdrOf, Current, Follows, HasHdr, AtEnd, Running, N, H0, ZeroHdr
<1>5. head'[0] = head[0] /\ nBackfill' = nBackfill /\ salts' \in Nat /\ salts' >= salts /\ pc[c] # "rs3"
  <2>1. pc[c] = "rec3" /\ head' = head /\ nBackfill' = 0 /\ salts' = salts /\ Virgin
    BY DEF Rec3, HeadInv, HeadOf
  <2> QED BY <2>1, HdrNumbers DEF Virgin
<1> QED BY <1>4, <1>5, HdrQuiet

LEMMA BeginWriteHdr ==
  ASSUME LockInv, HeadInv, HdrInv, NEW c \in Conn, BeginWrite(c), UNCHANGED env, LockInv', HeadInv', Still(c)
  PROVE  HdrInv'
<1>1. HdrOf(c) /\ HeldLocks(c) /\ HeldSlot(c) /\ Phase(c) /\ Room(c) /\ head[0].salt <= salts
  BY Here DEF HdrInv
<1>2. pc \in [Conn -> PC] /\ hdr \in [Conn -> Hdr] /\ head \in [{0, 1} -> Hdr] /\ slot \in [Conn -> 0..Idle]
  BY DEF LockInv, SharedType, ConnType
<1>3. ck \in [Conn -> Ck] /\ tx \in [Conn -> Tx] /\ content \in [Conn -> Content \cup {None}]
  BY DEF LockInv, SharedType, ConnType
<1>4. HdrOf(c)'
  <2>1. /\ pc[c] = "read" /\ pc'[c] = "write" /\ hdr'[c] = hdr[c] /\ head' = head /\ salts' = salts
        /\ nBackfill' = nBackfill /\ hdr[c] = head[0] /\ slot'[c] = slot[c]
    BY <1>2 DEF BeginWrite, HeaderKept
  <2>2. hdr[c].chg = head[0].chg /\ hdr[c].salt >= head[0].salt /\ hdr[c].mx >= N
    BY <2>1, HdrNumbers DEF N
  <2> QED BY <1>1, <2>1, <2>2 DEF HdrOf, Current, Follows, HasHdr, AtEnd, Running, N
<1>5. head'[0] = head[0] /\ nBackfill' = nBackfill /\ salts' \in Nat /\ salts' >= salts /\ pc[c] # "rs3"
  BY <1>2, HdrNumbers DEF BeginWrite, Take, CanExcl
<1> QED BY <1>4, <1>5, HdrQuiet

LEMMA WalFramesHdr ==
  ASSUME LockInv, HeadInv, HdrInv, NEW c \in Conn, WalFrames(c), UNCHANGED env, LockInv', HeadInv', Still(c)
  PROVE  HdrInv'
<1>1. HdrOf(c) /\ HeldLocks(c) /\ HeldSlot(c) /\ Phase(c) /\ Room(c) /\ head[0].salt <= salts
  BY Here DEF HdrInv
<1>2. pc \in [Conn -> PC] /\ hdr \in [Conn -> Hdr] /\ head \in [{0, 1} -> Hdr] /\ slot \in [Conn -> 0..Idle]
  BY DEF LockInv, SharedType, ConnType
<1>3. ck \in [Conn -> Ck] /\ tx \in [Conn -> Tx] /\ content \in [Conn -> Content \cup {None}]
  BY DEF LockInv, SharedType, ConnType
<1>4. HdrOf(c)'
  BY <1>1, <1>2, <1>3, HdrNumbers DEF WalFrames, Take, CanExcl, HdrOf, Current, Follows, HasHdr, AtEnd, Running, HeldSlot, Phase, N
<1>5. head'[0] = head[0] /\ nBackfill' = nBackfill /\ salts' \in Nat /\ salts' >= salts /\ pc[c] # "rs3"
  BY <1>2, HdrNumbers DEF WalFrames, Take, CanExcl
<1> QED BY <1>4, <1>5, HdrQuiet

LEMMA Restart1Hdr ==
  ASSUME LockInv, HeadInv, HdrInv, NEW c \in Conn, Restart1(c), UNCHANGED env, LockInv', HeadInv', Still(c), SaltRoom
  PROVE  HdrInv'
<1>1. HdrOf(c) /\ HeldLocks(c) /\ HeldSlot(c) /\ Phase(c) /\ Room(c) /\ head[0].salt <= salts
  BY Here DEF HdrInv
<1>2. pc \in [Conn -> PC] /\ hdr \in [Conn -> Hdr] /\ head \in [{0, 1} -> Hdr] /\ slot \in [Conn -> 0..Idle]
  BY DEF LockInv, SharedType, ConnType
<1>3. ck \in [Conn -> Ck] /\ tx \in [Conn -> Tx] /\ content \in [Conn -> Content \cup {None}]
  BY DEF LockInv, SharedType, ConnType
<1>4. HdrOf(c)'
  <2>1. /\ pc[c] = "rs1" /\ pc'[c] = "rs2" /\ head'[0] = head[0] /\ salts' = salts + 1
        /\ nBackfill' = nBackfill /\ hdr'[c] = [hdr[c] EXCEPT !.mx = 0, !.salt = salts + 1]
    BY <1>2 DEF Restart1
  <2>2. hdr'[c].mx = 0 /\ hdr'[c].salt = salts + 1
    BY <1>2, <2>1 DEF Hdr
  <2>3. Older(head[0], hdr'[c]) /\ nBackfill = N /\ hdr'[c].salt <= salts'
    BY <1>1, <2>1, <2>2, HdrNumbers DEF HdrOf, Older
  <2> QED BY <2>1, <2>2, <2>3 DEF HdrOf, Current, Follows, HasHdr, AtEnd, Running, N
<1>5. head'[0] = head[0] /\ nBackfill' = nBackfill /\ salts' \in Nat /\ salts' >= salts /\ pc[c] # "rs3"
  BY <1>2, HdrNumbers DEF Restart1
<1> QED BY <1>4, <1>5, HdrQuiet

LEMMA Restart2Hdr ==
  ASSUME LockInv, HeadInv, HdrInv, NEW c \in Conn, Restart2(c), UNCHANGED env, LockInv', HeadInv', Still(c), \A d \in Conn : pc[d] # "ckinfo"
  PROVE  HdrInv'
<1>1. /\ pc[c] = "rs2" /\ pc'[c] = "rs3" /\ hdr' = hdr /\ head'[0] = hdr[c] /\ UNCHANGED <<nBackfill, salts>>
  BY DEF Restart2, LockInv, SharedType, ConnType
<1>2. /\ Older(head[0], hdr[c]) /\ hdr[c].mx = 0 /\ nBackfill = N /\ hdr[c].salt <= salts /\ N' = 0
      /\ hdr[c].init /\ WRITE \in excl[c]
  BY <1>1, Here DEF HdrInv, HdrOf, HeadInv, HeadOf, HasHdr, HeldLocks, N
<1>3. HdrOf(c)'
  BY <1>1, <1>2 DEF HdrOf, Current, Follows, HasHdr, AtEnd, Running, N
<1>4. ASSUME NEW d \in Conn, d # c
      PROVE  HdrOf(d)'
  <2>1. /\ slot'[d] = slot[d] /\ pc'[d] = pc[d] /\ hdr'[d] = hdr[d]
        /\ tx'[d] = tx[d] /\ ck'[d] = ck[d] /\ content'[d] = content[d]
    BY <1>4 DEF Still
  <2>2. HdrOf(d) /\ pc[d] # "ckinfo"
    BY DEF HdrInv
  <2>3. ~Current(d) /\ pc[d] \notin Writes \cup Restarting \cup {"cktrunc"}
    BY <1>2, <1>4, Alone, CurrentLock
  <2>4. Follows(d) => Older(hdr[d], hdr[c]) /\ hdr[d] # hdr[c]
    BY <1>2, <2>2, OlderOrder, HdrNumbers DEF HdrOf
  <2>5. pc[d] \notin Running
    BY <1>2, <2>2, HdrNumbers DEF HdrOf
  <2>6. AtEnd(d) => Follows(d)
    BY <2>3 DEF AtEnd, Follows, HasHdr
  <2>7. ~Current(d)' /\ (Follows(d)' <=> Follows(d)) /\ (AtEnd(d)' <=> AtEnd(d))
    BY <2>1, <2>3 DEF Current, Follows, HasHdr, AtEnd
  <2> QED BY <1>1, <2>1, <2>2, <2>3, <2>4, <2>5, <2>6, <2>7 DEF HdrOf
<1>5. LogSize'
  BY <1>1 DEF LogSize
<1> QED BY <1>1, <1>2, <1>3, <1>4, <1>5 DEF HdrInv

LEMMA Restart3Hdr ==
  ASSUME LockInv, HeadInv, HdrInv, NEW c \in Conn, Restart3(c), UNCHANGED env, LockInv', HeadInv', Still(c)
  PROVE  HdrInv'
<1>1. /\ pc[c] = "rs3" /\ hdr' = hdr /\ head' = head /\ nBackfill' = 0
      /\ UNCHANGED <<salts, ck, content>>
      /\ \/ pc'[c] = "cktrunc" /\ content[c] = None
         \/ pc'[c] = "pick" /\ content[c] # None /\ slot'[c] = Idle
  BY DEF Restart3, ResetInfo, LockInv, SharedType, ConnType
<1>2. /\ N = 0 /\ WRITE \in excl[c] /\ HdrOf(c) /\ head[0].salt <= salts
      /\ hdr[c] = head[0]
  BY <1>1, HdrNumbers, CurrentLock DEF HdrInv, HdrOf, Current
<1>3. HdrOf(c)'
  BY <1>1, <1>2 DEF HdrOf, Current, Follows, HasHdr, AtEnd, Running, N
<1>4. ASSUME NEW d \in Conn, d # c
      PROVE  HdrOf(d)'
  <2>1. /\ slot'[d] = slot[d] /\ pc'[d] = pc[d] /\ hdr'[d] = hdr[d]
        /\ tx'[d] = tx[d] /\ ck'[d] = ck[d] /\ content'[d] = content[d]
    BY <1>4 DEF Still
  <2>2. HdrOf(d)
    BY DEF HdrInv
  <2>3. pc[d] \notin Writes \cup Restarting \cup {"cktrunc"}
    BY <1>2, <1>4, Alone, CurrentLock
  <2>4. pc[d] \notin Running
    BY <1>2, <2>2, HdrNumbers DEF HdrOf
  <2>5. /\ Current(d)' <=> Current(d)
        /\ (Follows(d)' <=> Follows(d)) /\ (AtEnd(d)' <=> AtEnd(d))
    BY <2>1 DEF Current, Follows, HasHdr, AtEnd
  <2> QED BY <1>1, <1>2, <2>1, <2>2, <2>3, <2>4, <2>5 DEF HdrOf, N, Running
<1>5. LogSize'
  BY <1>1, <1>2 DEF LogSize, N
<1> QED BY <1>1, <1>2, <1>3, <1>4, <1>5 DEF HdrInv

LEMMA WalHdrHdr ==
  ASSUME LockInv, HeadInv, HdrInv, NEW c \in Conn, WalHdr(c), UNCHANGED env, LockInv', HeadInv', Still(c), SaltRoom
  PROVE  HdrInv'
<1>1. HdrOf(c) /\ HeldLocks(c) /\ HeldSlot(c) /\ Phase(c) /\ Room(c) /\ head[0].salt <= salts
  BY Here DEF HdrInv
<1>2. pc \in [Conn -> PC] /\ hdr \in [Conn -> Hdr] /\ head \in [{0, 1} -> Hdr] /\ slot \in [Conn -> 0..Idle]
  BY DEF LockInv, SharedType, ConnType
<1>3. ck \in [Conn -> Ck] /\ tx \in [Conn -> Tx] /\ content \in [Conn -> Content \cup {None}]
  BY DEF LockInv, SharedType, ConnType
<1>4. HdrOf(c)'
  <2>1. /\ pc[c] = "walhdr" /\ pc'[c] \in {"frame", "hdrsync"} /\ head' = head
        /\ slot'[c] = slot[c]
    BY <1>2 DEF WalHdr
  <2>2. /\ hdr[c].chg = head[0].chg /\ hdr[c].salt >= head[0].salt /\ hdr[c].mx >= N /\ hdr[c].salt <= salts
    BY <1>1, <2>1 DEF HdrOf
  <2>3. /\ hdr'[c].chg = hdr[c].chg /\ hdr'[c].mx = hdr[c].mx
        /\ hdr'[c].salt >= head[0].salt /\ hdr'[c].salt <= salts'
    <3>1. CASE hdr[c].mx > 0
      BY <2>2, <3>1 DEF WalHdr
    <3>2. ASSUME NEW s \in {hdr[c].salt, salts + 1}, s <= salts',
                 hdr' = [hdr EXCEPT ![c] = [@ EXCEPT !.salt = s, !.cksum = [salt |-> s, chain |-> <<>>]]]
          PROVE  /\ hdr'[c].chg = hdr[c].chg /\ hdr'[c].mx = hdr[c].mx
                 /\ hdr'[c].salt >= head[0].salt /\ hdr'[c].salt <= salts'
      <4>1. hdr'[c].chg = hdr[c].chg /\ hdr'[c].mx = hdr[c].mx /\ hdr'[c].salt = s
        BY <1>2, <3>2 DEF Hdr
      <4> QED BY <1>1, <2>2, <3>2, <4>1, HdrNumbers
    <3>3. CASE ~(hdr[c].mx > 0)
      <4>1. CASE fresh[c]
        <5>1. /\ salts' = salts + 1
              /\ hdr' = [hdr EXCEPT ![c] = [@ EXCEPT !.salt = salts + 1, !.cksum = [salt |-> salts + 1, chain |-> <<>>]]]
          BY <3>3, <4>1 DEF WalHdr
        <5> QED BY <3>2, <5>1, HdrNumbers
      <4>2. CASE ~fresh[c]
        <5>1. /\ salts' = salts
              /\ hdr' = [hdr EXCEPT ![c] = [@ EXCEPT !.salt = hdr[c].salt, !.cksum = [salt |-> hdr[c].salt, chain |-> <<>>]]]
          BY <3>3, <4>2 DEF WalHdr
        <5> QED BY <2>2, <3>2, <5>1, HdrNumbers
      <4> QED BY <4>1, <4>2
    <3> QED BY <3>1, <3>3
  <2> QED BY <2>1, <2>2, <2>3 DEF HdrOf, Current, Follows, HasHdr, AtEnd, Running, N
<1>5. head'[0] = head[0] /\ nBackfill' = nBackfill /\ salts' \in Nat /\ salts' >= salts /\ pc[c] # "rs3"
  BY <1>2, HdrNumbers DEF WalHdr
<1> QED BY <1>4, <1>5, HdrQuiet

LEMMA SyncHdrHdr ==
  ASSUME LockInv, HeadInv, HdrInv, NEW c \in Conn, SyncHdr(c), UNCHANGED env, LockInv', HeadInv', Still(c)
  PROVE  HdrInv'
<1>1. HdrOf(c) /\ HeldLocks(c) /\ HeldSlot(c) /\ Phase(c) /\ Room(c) /\ head[0].salt <= salts
  BY Here DEF HdrInv
<1>2. pc \in [Conn -> PC] /\ hdr \in [Conn -> Hdr] /\ head \in [{0, 1} -> Hdr] /\ slot \in [Conn -> 0..Idle]
  BY DEF LockInv, SharedType, ConnType
<1>3. ck \in [Conn -> Ck] /\ tx \in [Conn -> Tx] /\ content \in [Conn -> Content \cup {None}]
  BY DEF LockInv, SharedType, ConnType
<1>4. HdrOf(c)'
  BY <1>1, <1>2, <1>3, HdrNumbers DEF SyncHdr, SyncWal, HdrOf, Current, Follows, HasHdr, AtEnd, Running, HeldSlot, Phase, N
<1>5. head'[0] = head[0] /\ nBackfill' = nBackfill /\ salts' \in Nat /\ salts' >= salts /\ pc[c] # "rs3"
  BY <1>2, HdrNumbers DEF SyncHdr, SyncWal
<1> QED BY <1>4, <1>5, HdrQuiet

LEMMA WriteFrameHdr ==
  ASSUME LockInv, HeadInv, HdrInv, NEW c \in Conn, WriteFrame(c), UNCHANGED env, LockInv', HeadInv', Still(c)
  PROVE  HdrInv'
<1>1. HdrOf(c) /\ HeldLocks(c) /\ HeldSlot(c) /\ Phase(c) /\ Room(c) /\ head[0].salt <= salts
  BY Here DEF HdrInv
<1>2. pc \in [Conn -> PC] /\ hdr \in [Conn -> Hdr] /\ head \in [{0, 1} -> Hdr] /\ slot \in [Conn -> 0..Idle]
  BY DEF LockInv, SharedType, ConnType
<1>3. ck \in [Conn -> Ck] /\ tx \in [Conn -> Tx] /\ content \in [Conn -> Content \cup {None}]
  BY DEF LockInv, SharedType, ConnType
<1>4. HdrOf(c)'
  <2>1. /\ pc[c] = "frame" /\ pc'[c] \in {"frame", "recksum", "sync", "index"} /\ head' = head
        /\ salts' = salts /\ slot'[c] = slot[c]
    BY <1>2 DEF WriteFrame
  <2>2. /\ hdr[c].chg = head[0].chg /\ hdr[c].salt >= head[0].salt /\ hdr[c].mx >= N /\ hdr[c].salt <= salts
    BY <1>1, <2>1 DEF HdrOf
  <2>3. /\ hdr'[c].chg = hdr[c].chg /\ hdr'[c].mx = hdr[c].mx /\ hdr'[c].salt = hdr[c].salt
    <3>1. hdr' = hdr \/ \E k : hdr' = [hdr EXCEPT ![c].cksum = k]
      BY DEF WriteFrame
    <3> QED BY <1>2, <3>1 DEF Hdr
  <2>4. pc'[c] # "frame" /\ tx'[c].com => tx'[c].app # <<>>
    <3> DEFINE p == Min(tx[c].list)
               last == tx[c].list = {p}
               over == tx[c].first > 0 /\ (~last \/ ~tx[c].com) /\ FindFrame(c, p) >= tx[c].first
               r == IF over THEN ReckFrom(tx[c], FindFrame(c, p)) ELSE tx[c].reck
               a == IF over THEN tx[c].app ELSE Append(tx[c].app, p)
    <3>1. tx'[c] = [tx[c] EXCEPT !.list = @ \ {p}, !.reck = r, !.app = a]
      BY <1>3 DEF WriteFrame
    <3>2. pc'[c] # "frame" => last
      BY <1>2 DEF WriteFrame
    <3>3. tx'[c].com = tx[c].com /\ tx'[c].app = a
      BY <1>3, <3>1 DEF Tx
    <3>4. tx[c].app \in Seq(Page) /\ p \in Page
      <4>1. tx[c].list \in SUBSET Page /\ tx[c].list # {} /\ tx[c].app \in Seq(Page)
        BY <1>1, <1>3, <2>1 DEF Room, Phase, Tx
      <4>2. tx[c].list \subseteq Nat
        BY <4>1, WalAssumption
      <4> QED BY <4>1, <4>2, MinOf
    <3>5. Append(tx[c].app, p) # <<>>
      BY <3>4
    <3> QED BY <3>2, <3>3, <3>5
  <2> QED BY <2>1, <2>2, <2>3, <2>4 DEF HdrOf, Current, Follows, HasHdr, AtEnd, Running, N
<1>5. head'[0] = head[0] /\ nBackfill' = nBackfill /\ salts' \in Nat /\ salts' >= salts /\ pc[c] # "rs3"
  BY <1>2, HdrNumbers DEF WriteFrame
<1> QED BY <1>4, <1>5, HdrQuiet

LEMMA RecksumHdr ==
  ASSUME LockInv, HeadInv, HdrInv, NEW c \in Conn, Recksum(c), UNCHANGED env, LockInv', HeadInv', Still(c)
  PROVE  HdrInv'
<1>1. HdrOf(c) /\ HeldLocks(c) /\ HeldSlot(c) /\ Phase(c) /\ Room(c) /\ head[0].salt <= salts
  BY Here DEF HdrInv
<1>2. pc \in [Conn -> PC] /\ hdr \in [Conn -> Hdr] /\ head \in [{0, 1} -> Hdr] /\ slot \in [Conn -> 0..Idle]
  BY DEF LockInv, SharedType, ConnType
<1>3. ck \in [Conn -> Ck] /\ tx \in [Conn -> Tx] /\ content \in [Conn -> Content \cup {None}]
  BY DEF LockInv, SharedType, ConnType
<1>4. HdrOf(c)'
  <2>1. /\ pc[c] = "recksum" /\ pc'[c] \in {"sync", "index"} /\ head' = head
        /\ salts' = salts /\ slot'[c] = slot[c]
    BY <1>2 DEF Recksum
  <2>2. /\ hdr[c].chg = head[0].chg /\ hdr[c].salt >= head[0].salt /\ hdr[c].mx >= N /\ hdr[c].salt <= salts
        /\ tx[c].com => tx[c].app # <<>>
    BY <1>1, <2>1 DEF HdrOf
  <2>3. /\ hdr'[c].chg = hdr[c].chg /\ hdr'[c].mx = hdr[c].mx /\ hdr'[c].salt = hdr[c].salt
    <3>1. \E k : hdr' = [hdr EXCEPT ![c].cksum = k]
      BY DEF Recksum
    <3> QED BY <1>2, <3>1 DEF Hdr
  <2>4. tx'[c].com = tx[c].com /\ tx'[c].app = tx[c].app
    BY <1>3 DEF Recksum, Tx
  <2> QED BY <2>1, <2>2, <2>3, <2>4 DEF HdrOf, Current, Follows, HasHdr, AtEnd, Running, N
<1>5. head'[0] = head[0] /\ nBackfill' = nBackfill /\ salts' \in Nat /\ salts' >= salts /\ pc[c] # "rs3"
  <2>1. pc[c] = "recksum" /\ UNCHANGED <<shm, draws>>
    BY DEF Recksum
  <2> QED BY <2>1, HdrNumbers
<1> QED BY <1>4, <1>5, HdrQuiet

LEMMA SyncCommitHdr ==
  ASSUME LockInv, HeadInv, HdrInv, NEW c \in Conn, SyncCommit(c), UNCHANGED env, LockInv', HeadInv', Still(c)
  PROVE  HdrInv'
<1>1. HdrOf(c) /\ HeldLocks(c) /\ HeldSlot(c) /\ Phase(c) /\ Room(c) /\ head[0].salt <= salts
  BY Here DEF HdrInv
<1>2. pc \in [Conn -> PC] /\ hdr \in [Conn -> Hdr] /\ head \in [{0, 1} -> Hdr] /\ slot \in [Conn -> 0..Idle]
  BY DEF LockInv, SharedType, ConnType
<1>3. ck \in [Conn -> Ck] /\ tx \in [Conn -> Tx] /\ content \in [Conn -> Content \cup {None}]
  BY DEF LockInv, SharedType, ConnType
<1>4. HdrOf(c)'
  BY <1>1, <1>2, <1>3, HdrNumbers DEF SyncCommit, SyncWal, HdrOf, Current, Follows, HasHdr, AtEnd, Running, HeldSlot, Phase, N
<1>5. head'[0] = head[0] /\ nBackfill' = nBackfill /\ salts' \in Nat /\ salts' >= salts /\ pc[c] # "rs3"
  BY <1>2, HdrNumbers DEF SyncCommit, SyncWal
<1> QED BY <1>4, <1>5, HdrQuiet

LEMMA IndexHdr ==
  ASSUME LockInv, HeadInv, HdrInv, NEW c \in Conn, Index(c), UNCHANGED env, LockInv', HeadInv', Still(c)
  PROVE  HdrInv'
<1>1. HdrOf(c) /\ HeldLocks(c) /\ HeldSlot(c) /\ Phase(c) /\ Room(c) /\ head[0].salt <= salts
  BY Here DEF HdrInv
<1>2. pc \in [Conn -> PC] /\ hdr \in [Conn -> Hdr] /\ head \in [{0, 1} -> Hdr] /\ slot \in [Conn -> 0..Idle]
  BY DEF LockInv, SharedType, ConnType
<1>3. ck \in [Conn -> Ck] /\ tx \in [Conn -> Tx] /\ content \in [Conn -> Content \cup {None}]
  BY DEF LockInv, SharedType, ConnType
<1>4. HdrOf(c)'
  <2>1. /\ pc[c] = "index" /\ pc'[c] = (IF tx[c].com THEN "publish" ELSE "write") /\ head'[0] = head[0]
        /\ salts' = salts /\ slot'[c] = slot[c]
    BY <1>2 DEF Index
  <2>2. /\ hdr[c].chg = head[0].chg /\ hdr[c].salt >= head[0].salt /\ hdr[c].mx >= N /\ hdr[c].salt <= salts
        /\ tx[c].com => tx[c].app # <<>>
    BY <1>1, <2>1 DEF HdrOf
  <2>3. /\ hdr'[c].chg = (IF tx[c].com THEN hdr[c].chg + 1 ELSE hdr[c].chg)
        /\ hdr'[c].salt = hdr[c].salt /\ hdr'[c].mx = hdr[c].mx + Len(tx[c].app)
    <3>1. hdr'[c] = [hdr[c] EXCEPT !.mx = MxAfter(c), !.init = tx[c].com \/ @,
                                     !.chg = IF tx[c].com THEN @ + 1 ELSE @]
      BY <1>2 DEF Index
    <3>2. tx[c].com \in BOOLEAN
      BY <1>3 DEF Tx
    <3> QED BY <1>2, <3>1, <3>2 DEF Hdr, MxAfter
  <2>4. tx[c].app \in Seq(Page)
    BY <1>3 DEF Tx
  <2>5. tx[c].com => Len(tx[c].app) > 0
    BY <2>2, <2>4
  <2>6. Len(tx[c].app) \in Nat
    BY <2>4
  <2>7. hdr'[c].mx >= N /\ (tx[c].com => Older(head[0], hdr'[c]) /\ hdr'[c].mx > N)
    BY SMTT(30), <2>2, <2>3, <2>5, <2>6, HdrNumbers DEF Older
  <2>8. slot[c] # 0
    BY <1>1, <2>1, Locks DEF HeldSlot
  <2> QED BY <2>1, <2>2, <2>3, <2>7, <2>8 DEF HdrOf, Current, Follows, HasHdr, AtEnd, Running, N
<1>5. head'[0] = head[0] /\ nBackfill' = nBackfill /\ salts' \in Nat /\ salts' >= salts /\ pc[c] # "rs3"
  BY <1>2, HdrNumbers DEF Index
<1> QED BY <1>4, <1>5, HdrQuiet

LEMMA PublishHdr ==
  ASSUME LockInv, HeadInv, HdrInv, NEW c \in Conn, Publish(c), UNCHANGED env, LockInv', HeadInv', Still(c)
  PROVE  HdrInv'
<1>1. /\ pc[c] = "publish" /\ pc'[c] = "read" /\ hdr' = hdr /\ head'[0] = hdr[c] /\ UNCHANGED <<nBackfill, salts, slot>>
  BY DEF Publish, LockInv, SharedType, ConnType
<1>2. /\ Older(head[0], hdr[c]) /\ hdr[c].mx > N /\ hdr[c].salt <= salts /\ N' = hdr[c].mx
      /\ hdr[c].init /\ WRITE \in excl[c] /\ slot[c] # 0
  BY <1>1, Here, Locks DEF HdrInv, HdrOf, HeadInv, HeadOf, HasHdr, HeldLocks, HeldSlot, N
<1>3. HdrOf(c)'
  BY <1>1, <1>2 DEF HdrOf, Current, Follows, HasHdr, AtEnd, Running, N
<1>4. ASSUME NEW d \in Conn, d # c
      PROVE  HdrOf(d)'
  <2>1. /\ slot'[d] = slot[d] /\ pc'[d] = pc[d] /\ hdr'[d] = hdr[d]
        /\ tx'[d] = tx[d] /\ ck'[d] = ck[d] /\ content'[d] = content[d]
    BY <1>4 DEF Still
  <2>2. HdrOf(d)
    BY DEF HdrInv
  <2>3. ~Current(d) /\ pc[d] \notin Writes \cup Restarting \cup {"cktrunc"}
    BY <1>2, <1>4, Alone, CurrentLock
  <2>4. Follows(d) => Older(hdr[d], hdr[c]) /\ hdr[d] # hdr[c]
    BY <1>2, <2>2, OlderOrder, HdrNumbers DEF HdrOf
  <2>5. /\ pc[d] = "ckinfo" => hdr[d].mx <= N'
        /\ pc[d] \in Running => hdr[d].mx <= N'
    BY <1>2, <2>2, HdrNumbers DEF HdrOf, Running
  <2>6. AtEnd(d) => Follows(d)
    BY <2>3 DEF AtEnd, Follows, HasHdr
  <2>7. ~Current(d)' /\ (Follows(d)' <=> Follows(d)) /\ (AtEnd(d)' <=> AtEnd(d))
    BY <2>1, <2>3 DEF Current, Follows, HasHdr, AtEnd
  <2> QED BY <1>1, <2>1, <2>2, <2>3, <2>4, <2>5, <2>6, <2>7 DEF HdrOf
<1>5. LogSize'
  <2>1. ASSUME NEW d \in Conn, pc[d] = "rs3" PROVE FALSE
    <3>1. d # c
      BY <1>1, <2>1
    <3> QED BY <1>2, <2>1, <3>1, Alone, CurrentLock
  <2>2. nBackfill <= N
    BY <2>1 DEF HdrInv, LogSize
  <2> QED BY <1>1, <1>2, <2>2, HdrNumbers DEF LogSize
<1> QED BY <1>1, <1>2, <1>3, <1>4, <1>5 DEF HdrInv

LEMMA WriteFailsHdr ==
  ASSUME LockInv, HeadInv, HdrInv, NEW c \in Conn, WriteFails(c), UNCHANGED env, LockInv', HeadInv', Still(c)
  PROVE  HdrInv'
<1>1. HdrOf(c) /\ HeldLocks(c) /\ HeldSlot(c) /\ Phase(c) /\ Room(c) /\ head[0].salt <= salts
  BY Here DEF HdrInv
<1>2. pc \in [Conn -> PC] /\ hdr \in [Conn -> Hdr] /\ head \in [{0, 1} -> Hdr] /\ slot \in [Conn -> 0..Idle]
  BY DEF LockInv, SharedType, ConnType
<1>3. ck \in [Conn -> Ck] /\ tx \in [Conn -> Tx] /\ content \in [Conn -> Content \cup {None}]
  BY DEF LockInv, SharedType, ConnType
<1>4. HdrOf(c)'
  BY <1>1, <1>2, <1>3, HdrNumbers DEF WriteFails, HdrOf, Current, Follows, HasHdr, AtEnd, Running, HeldSlot, Phase, N
<1>5. head'[0] = head[0] /\ nBackfill' = nBackfill /\ salts' \in Nat /\ salts' >= salts /\ pc[c] # "rs3"
  BY <1>2, HdrNumbers DEF WriteFails
<1> QED BY <1>4, <1>5, HdrQuiet

LEMMA RollbackHdr ==
  ASSUME LockInv, HeadInv, HdrInv, NEW c \in Conn, Rollback(c), UNCHANGED env, LockInv', HeadInv', Still(c)
  PROVE  HdrInv'
<1>1. HdrOf(c) /\ HeldLocks(c) /\ HeldSlot(c) /\ Phase(c) /\ Room(c) /\ head[0].salt <= salts
  BY Here DEF HdrInv
<1>2. pc \in [Conn -> PC] /\ hdr \in [Conn -> Hdr] /\ head \in [{0, 1} -> Hdr] /\ slot \in [Conn -> 0..Idle]
  BY DEF LockInv, SharedType, ConnType
<1>3. ck \in [Conn -> Ck] /\ tx \in [Conn -> Tx] /\ content \in [Conn -> Content \cup {None}]
  BY DEF LockInv, SharedType, ConnType
<1>4. HdrOf(c)'
  <2>1. /\ pc[c] \in {"write", "abort"} /\ pc'[c] = "read" /\ head' = head /\ hdr'[c] = head[0]
        /\ salts' = salts /\ slot'[c] = slot[c] /\ nBackfill' = nBackfill
    BY <1>2 DEF Rollback
  <2>2. slot[c] = 0 => nBackfill = N
    <3>1. slot[c] = 0 => pc[c] = "write"
      BY <1>1, <2>1, Locks DEF HeldSlot
    <3> QED BY <1>1, <3>1 DEF HdrOf, Current, AtEnd
  <2> QED BY <1>1, <2>1, <2>2 DEF HdrOf, Current, Follows, HasHdr, AtEnd, Running, N
<1>5. head'[0] = head[0] /\ nBackfill' = nBackfill /\ salts' \in Nat /\ salts' >= salts /\ pc[c] # "rs3"
  BY <1>2, HdrNumbers DEF Rollback, Release
<1> QED BY <1>4, <1>5, HdrQuiet

LEMMA CheckpointHdr ==
  ASSUME LockInv, HeadInv, HdrInv, NEW c \in Conn, Checkpoint(c), UNCHANGED env, LockInv', HeadInv', Still(c)
  PROVE  HdrInv'
<1>1. HdrOf(c) /\ HeldLocks(c) /\ HeldSlot(c) /\ Phase(c) /\ Room(c) /\ head[0].salt <= salts
  BY Here DEF HdrInv
<1>2. pc \in [Conn -> PC] /\ hdr \in [Conn -> Hdr] /\ head \in [{0, 1} -> Hdr] /\ slot \in [Conn -> 0..Idle]
  BY DEF LockInv, SharedType, ConnType
<1>3. ck \in [Conn -> Ck] /\ tx \in [Conn -> Tx] /\ content \in [Conn -> Content \cup {None}]
  BY DEF LockInv, SharedType, ConnType
<1>4. HdrOf(c)'
  BY <1>1, <1>2, <1>3, HdrNumbers DEF Checkpoint, Take, CanExcl, HdrOf, Current, Follows, HasHdr, AtEnd, Running, HeldSlot, Phase, N
<1>5. head'[0] = head[0] /\ nBackfill' = nBackfill /\ salts' \in Nat /\ salts' >= salts /\ pc[c] # "rs3"
  BY <1>2, HdrNumbers DEF Checkpoint, Take, CanExcl
<1> QED BY <1>4, <1>5, HdrQuiet

LEMMA CkptWriteLockHdr ==
  ASSUME LockInv, HeadInv, HdrInv, NEW c \in Conn, CkptWriteLock(c), UNCHANGED env, LockInv', HeadInv', Still(c)
  PROVE  HdrInv'
<1>1. HdrOf(c) /\ HeldLocks(c) /\ HeldSlot(c) /\ Phase(c) /\ Room(c) /\ head[0].salt <= salts
  BY Here DEF HdrInv
<1>2. pc \in [Conn -> PC] /\ hdr \in [Conn -> Hdr] /\ head \in [{0, 1} -> Hdr] /\ slot \in [Conn -> 0..Idle]
  BY DEF LockInv, SharedType, ConnType
<1>3. ck \in [Conn -> Ck] /\ tx \in [Conn -> Tx] /\ content \in [Conn -> Content \cup {None}]
  BY DEF LockInv, SharedType, ConnType
<1>4. HdrOf(c)'
  BY <1>1, <1>2, <1>3, HdrNumbers DEF CkptWriteLock, Take, CanExcl, HdrOf, Current, Follows, HasHdr, AtEnd, Running, HeldSlot, Phase, N
<1>5. head'[0] = head[0] /\ nBackfill' = nBackfill /\ salts' \in Nat /\ salts' >= salts /\ pc[c] # "rs3"
  BY <1>2, HdrNumbers DEF CkptWriteLock, Take, CanExcl
<1> QED BY <1>4, <1>5, HdrQuiet

LEMMA CkptStartHdr ==
  ASSUME LockInv, HeadInv, HdrInv, NEW c \in Conn, CkptStart(c), UNCHANGED env, LockInv', HeadInv', Still(c)
  PROVE  HdrInv'
<1>1. HdrOf(c) /\ HeldLocks(c) /\ HeldSlot(c) /\ Phase(c) /\ Room(c) /\ head[0].salt <= salts
  BY Here DEF HdrInv
<1>2. pc \in [Conn -> PC] /\ hdr \in [Conn -> Hdr] /\ head \in [{0, 1} -> Hdr] /\ slot \in [Conn -> 0..Idle]
  BY DEF LockInv, SharedType, ConnType
<1>3. ck \in [Conn -> Ck] /\ tx \in [Conn -> Tx] /\ content \in [Conn -> Content \cup {None}]
  BY DEF LockInv, SharedType, ConnType
<1>4. HdrOf(c)'
  <2>1. /\ pc[c] = "ckinfo" /\ hdr'[c] = hdr[c] /\ head' = head /\ salts' = salts /\ nBackfill' = nBackfill
        /\ ck'[c].mode = ck[c].mode /\ content'[c] = content[c]
        /\ \/ pc'[c] = "ckmark" /\ nBackfill < hdr[c].mx /\ ck'[c].safe = hdr[c].mx
           \/ pc'[c] = "ckend"
    <3>1. CASE nBackfill < hdr[c].mx
      <4>1. \E t : ck' = [ck EXCEPT ![c] = [@ EXCEPT !.safe = hdr[c].mx, !.iter = t]]
        BY <3>1 DEF CkptStart
      <4>2. ck'[c].mode = ck[c].mode /\ ck'[c].safe = hdr[c].mx
        BY <1>3, <4>1 DEF Ck
      <4> QED BY <1>2, <3>1, <4>2 DEF CkptStart
    <3>2. CASE ~(nBackfill < hdr[c].mx)
      BY <1>2, <3>2 DEF CkptStart
    <3> QED BY <3>1, <3>2
  <2>2. /\ hdr[c].salt <= salts /\ (ck[c].mode # "PASSIVE" => hdr[c] = head[0]) /\ hdr[c].mx <= N
        /\ hdr[c] = head[0] \/ Older(hdr[c], head[0])
    BY <1>1, <2>1 DEF HdrOf, Current, Follows, HasHdr
  <2> QED BY <2>1, <2>2, HdrNumbers DEF HdrOf, Current, Follows, HasHdr, AtEnd, Running, N
<1>5. head'[0] = head[0] /\ nBackfill' = nBackfill /\ salts' \in Nat /\ salts' >= salts /\ pc[c] # "rs3"
  BY <1>2, HdrNumbers DEF CkptStart
<1> QED BY <1>4, <1>5, HdrQuiet

LEMMA CkptMarkHdr ==
  ASSUME LockInv, HeadInv, HdrInv, NEW c \in Conn, CkptMark(c), UNCHANGED env, LockInv', HeadInv', Still(c)
  PROVE  HdrInv'
<1>1. HdrOf(c) /\ HeldLocks(c) /\ HeldSlot(c) /\ Phase(c) /\ Room(c) /\ head[0].salt <= salts
  BY Here DEF HdrInv
<1>2. pc \in [Conn -> PC] /\ hdr \in [Conn -> Hdr] /\ head \in [{0, 1} -> Hdr] /\ slot \in [Conn -> 0..Idle]
  BY DEF LockInv, SharedType, ConnType
<1>3. ck \in [Conn -> Ck] /\ tx \in [Conn -> Tx] /\ content \in [Conn -> Content \cup {None}]
  BY DEF LockInv, SharedType, ConnType
<1>4. HdrOf(c)'
  <2>1. /\ pc[c] = "ckmark" /\ hdr'[c] = hdr[c] /\ head' = head /\ salts' = salts /\ nBackfill' = nBackfill
        /\ pc'[c] \in {"ckmark", "cklock", "ck0"} /\ content'[c] = content[c]
    BY <1>2 DEF CkptMark, NextMark
  <2>2. ck'[c].mode = ck[c].mode /\ ck'[c].safe = ck[c].safe
    <3>1. \/ ck' = [ck EXCEPT ![c].seen = mark[ck[c].at]]
          \/ ck' = [ck EXCEPT ![c] = [ck[c] EXCEPT !.at = @ + 1]]
      BY DEF CkptMark, NextMark
    <3> QED BY <1>3, <3>1 DEF Ck
  <2> QED BY <1>1, <2>1, <2>2 DEF HdrOf, Current, Follows, HasHdr, AtEnd, Running, N
<1>5. head'[0] = head[0] /\ nBackfill' = nBackfill /\ salts' \in Nat /\ salts' >= salts /\ pc[c] # "rs3"
  BY <1>2, HdrNumbers DEF CkptMark, NextMark
<1> QED BY <1>4, <1>5, HdrQuiet

LEMMA CkptLockMarkHdr ==
  ASSUME LockInv, HeadInv, HdrInv, NEW c \in Conn, CkptLockMark(c), UNCHANGED env, LockInv', HeadInv', Still(c)
  PROVE  HdrInv'
<1>1. HdrOf(c) /\ HeldLocks(c) /\ HeldSlot(c) /\ Phase(c) /\ Room(c) /\ head[0].salt <= salts
  BY Here DEF HdrInv
<1>2. pc \in [Conn -> PC] /\ hdr \in [Conn -> Hdr] /\ head \in [{0, 1} -> Hdr] /\ slot \in [Conn -> 0..Idle]
  BY DEF LockInv, SharedType, ConnType
<1>3. ck \in [Conn -> Ck] /\ tx \in [Conn -> Tx] /\ content \in [Conn -> Content \cup {None}]
  BY DEF LockInv, SharedType, ConnType
<1>4. HdrOf(c)'
  <2>1. /\ pc[c] = "cklock" /\ hdr'[c] = hdr[c] /\ head' = head /\ salts' = salts /\ nBackfill' = nBackfill
        /\ pc'[c] \in {"ckmark", "ck0"} /\ content'[c] = content[c]
    BY <1>2 DEF CkptLockMark, NextMark
  <2>2. ck'[c].mode = ck[c].mode /\ ck'[c].safe <= ck[c].safe /\ ck'[c].safe \in Nat
    <3>1. ck[c] \in Ck /\ ck[c].at \in Marks /\ ck[c].seen < ck[c].safe /\ ck[c].safe \in Nat /\ ck[c].seen \in Nat
      BY <1>1, <1>3, <2>1, Numbers DEF Phase, Ck
    <3>2. \/ ck' = [ck EXCEPT ![c] = [ck[c] EXCEPT !.at = @ + 1]]
          \/ ck' = [ck EXCEPT ![c] = [[ck[c] EXCEPT !.safe = SafeBelow(ck[c])] EXCEPT !.at = @ + 1]]
      BY DEF CkptLockMark, NextMark
    <3>3. CASE ck' = [ck EXCEPT ![c] = [ck[c] EXCEPT !.at = @ + 1]]
      BY <1>3, <3>1, <3>3 DEF Ck
    <3>4. ASSUME NEW l \in Ck, l.mode = ck[c].mode, l.safe = ck[c].seen,
                 ck' = [ck EXCEPT ![c] = [l EXCEPT !.at = @ + 1]]
          PROVE  ck'[c].mode = ck[c].mode /\ ck'[c].safe = ck[c].seen
      BY <1>3, <3>4 DEF Ck
    <3>5. ASSUME ck' = [ck EXCEPT ![c] = [[ck[c] EXCEPT !.safe = SafeBelow(ck[c])] EXCEPT !.at = @ + 1]]
          PROVE  ck'[c].mode = ck[c].mode /\ ck'[c].safe = ck[c].seen
      <4> DEFINE l == [ck[c] EXCEPT !.safe = SafeBelow(ck[c])]
      <4>1. l \in Ck /\ l.mode = ck[c].mode /\ l.safe = ck[c].seen
        BY <3>1, LowerSafe
      <4>2. ck' = [ck EXCEPT ![c] = [l EXCEPT !.at = @ + 1]]
        BY <3>5
      <4> HIDE DEF l
      <4> QED BY <3>4, <4>1, <4>2
    <3> QED BY <3>1, <3>2, <3>3, <3>5
  <2>3. ck[c].safe <= hdr[c].mx => ck'[c].safe <= hdr[c].mx
    BY <2>2, HdrNumbers
  <2> QED BY <1>1, <2>1, <2>2, <2>3 DEF HdrOf, Current, Follows, HasHdr, AtEnd, Running, N
<1>5. head'[0] = head[0] /\ nBackfill' = nBackfill /\ salts' \in Nat /\ salts' >= salts /\ pc[c] # "rs3"
  BY <1>2, HdrNumbers DEF CkptLockMark, NextMark, CanExcl
<1> QED BY <1>4, <1>5, HdrQuiet

LEMMA CkptLock0Hdr ==
  ASSUME LockInv, HeadInv, HdrInv, NEW c \in Conn, CkptLock0(c), UNCHANGED env, LockInv', HeadInv', Still(c)
  PROVE  HdrInv'
<1>1. HdrOf(c) /\ HeldLocks(c) /\ HeldSlot(c) /\ Phase(c) /\ Room(c) /\ head[0].salt <= salts
  BY Here DEF HdrInv
<1>2. pc \in [Conn -> PC] /\ hdr \in [Conn -> Hdr] /\ head \in [{0, 1} -> Hdr] /\ slot \in [Conn -> 0..Idle]
  BY DEF LockInv, SharedType, ConnType
<1>3. ck \in [Conn -> Ck] /\ tx \in [Conn -> Tx] /\ content \in [Conn -> Content \cup {None}]
  BY DEF LockInv, SharedType, ConnType
<1>4. HdrOf(c)'
  <2>1. /\ pc[c] = "ck0" /\ hdr'[c] = hdr[c] /\ head' = head /\ salts' = salts /\ nBackfill' = nBackfill
        /\ content'[c] = content[c] /\ pc'[c] \in {"cksync", "ckend"}
    BY <1>2 DEF CkptLock0
  <2>2. /\ ck'[c].mode = ck[c].mode /\ ck'[c].safe = ck[c].safe
        /\ pc'[c] = "cksync" => nBackfill < ck[c].safe /\ ck'[c].base = nBackfill
    <3>1. CASE nBackfill < ck[c].safe /\ ck' = [ck EXCEPT ![c].base = nBackfill]
      BY <1>3, <3>1 DEF Ck
    <3>2. CASE ck' = ck /\ pc'[c] = "ckend"
      BY <3>2
    <3> QED BY <1>2, <3>1, <3>2 DEF CkptLock0
  <2> QED BY <1>1, <2>1, <2>2 DEF HdrOf, Current, Follows, HasHdr, AtEnd, Running, N
<1>5. head'[0] = head[0] /\ nBackfill' = nBackfill /\ salts' \in Nat /\ salts' >= salts /\ pc[c] # "rs3"
  BY <1>2, HdrNumbers DEF CkptLock0, Take, CanExcl
<1> QED BY <1>4, <1>5, HdrQuiet

LEMMA CkptSyncHdr ==
  ASSUME LockInv, HeadInv, HdrInv, NEW c \in Conn, CkptSync(c), UNCHANGED env, LockInv', HeadInv', Still(c)
  PROVE  HdrInv'
<1>1. HdrOf(c) /\ HeldLocks(c) /\ HeldSlot(c) /\ Phase(c) /\ Room(c) /\ head[0].salt <= salts
  BY Here DEF HdrInv
<1>2. pc \in [Conn -> PC] /\ hdr \in [Conn -> Hdr] /\ head \in [{0, 1} -> Hdr] /\ slot \in [Conn -> 0..Idle]
  BY DEF LockInv, SharedType, ConnType
<1>3. ck \in [Conn -> Ck] /\ tx \in [Conn -> Tx] /\ content \in [Conn -> Content \cup {None}]
  BY DEF LockInv, SharedType, ConnType
<1>4. HdrOf(c)'
  BY <1>1, <1>2, <1>3, HdrNumbers DEF CkptSync, SyncWal, HdrOf, Current, Follows, HasHdr, AtEnd, Running, HeldSlot, Phase, N
<1>5. head'[0] = head[0] /\ nBackfill' = nBackfill /\ salts' \in Nat /\ salts' >= salts /\ pc[c] # "rs3"
  BY <1>2, HdrNumbers DEF CkptSync, SyncWal
<1> QED BY <1>4, <1>5, HdrQuiet

LEMMA CkptCopyHdr ==
  ASSUME LockInv, HeadInv, HdrInv, NEW c \in Conn, CkptCopy(c), UNCHANGED env, LockInv', HeadInv', Still(c)
  PROVE  HdrInv'
<1>1. HdrOf(c) /\ HeldLocks(c) /\ HeldSlot(c) /\ Phase(c) /\ Room(c) /\ head[0].salt <= salts
  BY Here DEF HdrInv
<1>2. pc \in [Conn -> PC] /\ hdr \in [Conn -> Hdr] /\ head \in [{0, 1} -> Hdr] /\ slot \in [Conn -> 0..Idle]
  BY DEF LockInv, SharedType, ConnType
<1>3. ck \in [Conn -> Ck] /\ tx \in [Conn -> Tx] /\ content \in [Conn -> Content \cup {None}]
  BY DEF LockInv, SharedType, ConnType
<1>4. HdrOf(c)'
  BY <1>1, <1>2, <1>3, HdrNumbers DEF CkptCopy, HdrOf, Current, Follows, HasHdr, AtEnd, Running, HeldSlot, Phase, N
<1>5. head'[0] = head[0] /\ nBackfill' = nBackfill /\ salts' \in Nat /\ salts' >= salts /\ pc[c] # "rs3"
  BY <1>2, HdrNumbers DEF CkptCopy
<1> QED BY <1>4, <1>5, HdrQuiet

LEMMA CkptDoneHdr ==
  ASSUME LockInv, HeadInv, HdrInv, NEW c \in Conn, CkptDone(c), UNCHANGED env, LockInv', HeadInv', Still(c)
  PROVE  HdrInv'
<1>1. /\ pc[c] = "ckcopy" /\ pc'[c] = "ckend" /\ hdr' = hdr /\ head' = head /\ nBackfill' = ck[c].safe
      /\ UNCHANGED <<salts, slot, ck, content>>
  BY DEF CkptDone, LockInv, SharedType, ConnType
<1>2. /\ nBackfill < N /\ ck[c].safe <= N /\ CKPT \in excl[c] /\ HdrOf(c) /\ head[0].salt <= salts
  BY <1>1, HdrNumbers, CurrentLock DEF HdrInv, HdrOf, Running
<1>3. HdrOf(c)'
  BY <1>1, <1>2 DEF HdrOf, Current, Follows, HasHdr, AtEnd, Running, N
<1>4. ASSUME NEW d \in Conn, d # c
      PROVE  HdrOf(d)'
  <2>1. /\ slot'[d] = slot[d] /\ pc'[d] = pc[d] /\ hdr'[d] = hdr[d]
        /\ tx'[d] = tx[d] /\ ck'[d] = ck[d] /\ content'[d] = content[d]
    BY <1>4 DEF Still
  <2>2. HdrOf(d)
    BY DEF HdrInv
  <2>3. pc[d] \notin Running \cup {"cktrunc"}
    BY <1>2, <1>4, Alone, CurrentLock
  <2>4. pc[d] \notin {"rs1", "rs2"} /\ ~(AtEnd(d) /\ hdr[d] = head[0])
    BY <1>2, <2>2, HdrNumbers DEF HdrOf
  <2>5. /\ Current(d)' <=> Current(d)
        /\ (Follows(d)' <=> Follows(d)) /\ (AtEnd(d)' <=> AtEnd(d))
    BY <2>1 DEF Current, Follows, HasHdr, AtEnd
  <2> QED BY <1>1, <2>1, <2>2, <2>3, <2>4, <2>5 DEF HdrOf, N, Running
<1>5. LogSize'
  BY <1>1, <1>2 DEF LogSize, N
<1> QED BY <1>1, <1>2, <1>3, <1>4, <1>5 DEF HdrInv

LEMMA CkptEndHdr ==
  ASSUME LockInv, HeadInv, HdrInv, NEW c \in Conn, CkptEnd(c), UNCHANGED env, LockInv', HeadInv', Still(c)
  PROVE  HdrInv'
<1>1. HdrOf(c) /\ HeldLocks(c) /\ HeldSlot(c) /\ Phase(c) /\ Room(c) /\ head[0].salt <= salts
  BY Here DEF HdrInv
<1>2. pc \in [Conn -> PC] /\ hdr \in [Conn -> Hdr] /\ head \in [{0, 1} -> Hdr] /\ slot \in [Conn -> 0..Idle]
  BY DEF LockInv, SharedType, ConnType
<1>3. ck \in [Conn -> Ck] /\ tx \in [Conn -> Tx] /\ content \in [Conn -> Content \cup {None}]
  BY DEF LockInv, SharedType, ConnType
<1>4. HdrOf(c)'
  <2>1. /\ pc[c] = "ckend" /\ hdr'[c] = hdr[c] /\ head' = head /\ salts' = salts /\ nBackfill' = nBackfill
        /\ ck'[c] = ck[c] /\ content'[c] = content[c]
        /\ \/ pc'[c] = "rs1" /\ ck[c].mode = "TRUNCATE" /\ nBackfill >= hdr[c].mx
           \/ pc'[c] = "ckquit"
    BY <1>2 DEF CkptEnd, MayRestart
  <2>2. ck[c].mode # "PASSIVE" => hdr[c] = head[0]
    BY <1>1, <2>1 DEF HdrOf, Current
  <2>3. pc'[c] = "rs1" => nBackfill = N
    <3>1. ASSUME ck[c].mode = "TRUNCATE" PROVE nBackfill <= N
      <4>1. WRITE \in excl[c]
        BY <1>1, <2>1, <3>1 DEF HeldLocks, CkptLocks
      <4>2. \A d \in Conn : pc[d] # "rs3"
        BY <2>1, <4>1, Alone, CurrentLock
      <4> QED BY <4>2 DEF HdrInv, LogSize
    <3> QED BY <2>1, <2>2, <3>1, HdrNumbers DEF N
  <2> QED BY <1>1, <2>1, <2>2, <2>3 DEF HdrOf, Current, Follows, HasHdr, AtEnd, Running, N
<1>5. head'[0] = head[0] /\ nBackfill' = nBackfill /\ salts' \in Nat /\ salts' >= salts /\ pc[c] # "rs3"
  BY <1>2, HdrNumbers DEF CkptEnd, Take, CanExcl
<1> QED BY <1>4, <1>5, HdrQuiet

LEMMA CkptTruncateHdr ==
  ASSUME LockInv, HeadInv, HdrInv, NEW c \in Conn, CkptTruncate(c), UNCHANGED env, LockInv', HeadInv', Still(c)
  PROVE  HdrInv'
<1>1. HdrOf(c) /\ HeldLocks(c) /\ HeldSlot(c) /\ Phase(c) /\ Room(c) /\ head[0].salt <= salts
  BY Here DEF HdrInv
<1>2. pc \in [Conn -> PC] /\ hdr \in [Conn -> Hdr] /\ head \in [{0, 1} -> Hdr] /\ slot \in [Conn -> 0..Idle]
  BY DEF LockInv, SharedType, ConnType
<1>3. ck \in [Conn -> Ck] /\ tx \in [Conn -> Tx] /\ content \in [Conn -> Content \cup {None}]
  BY DEF LockInv, SharedType, ConnType
<1>4. HdrOf(c)'
  BY <1>1, <1>2, <1>3, HdrNumbers DEF CkptTruncate, Release, HdrOf, Current, Follows, HasHdr, AtEnd, Running, HeldSlot, Phase, N
<1>5. head'[0] = head[0] /\ nBackfill' = nBackfill /\ salts' \in Nat /\ salts' >= salts /\ pc[c] # "rs3"
  BY <1>2, HdrNumbers DEF CkptTruncate, Release
<1> QED BY <1>4, <1>5, HdrQuiet

LEMMA CkptQuitHdr ==
  ASSUME LockInv, HeadInv, HdrInv, NEW c \in Conn, CkptQuit(c), UNCHANGED env, LockInv', HeadInv', Still(c)
  PROVE  HdrInv'
<1>1. HdrOf(c) /\ HeldLocks(c) /\ HeldSlot(c) /\ Phase(c) /\ Room(c) /\ head[0].salt <= salts
  BY Here DEF HdrInv
<1>2. pc \in [Conn -> PC] /\ hdr \in [Conn -> Hdr] /\ head \in [{0, 1} -> Hdr] /\ slot \in [Conn -> 0..Idle]
  BY DEF LockInv, SharedType, ConnType
<1>3. ck \in [Conn -> Ck] /\ tx \in [Conn -> Tx] /\ content \in [Conn -> Content \cup {None}]
  BY DEF LockInv, SharedType, ConnType
<1>4. HdrOf(c)'
  <2>1. pc'[c] = "idle" /\ hdr'[c] = ZeroHdr /\ salts' = salts
    BY <1>2 DEF CkptQuit, Forget
  <2> QED BY <2>1, HdrNumbers DEF HdrOf, Current, Follows, HasHdr, AtEnd, Running, ZeroHdr
<1>5. head'[0] = head[0] /\ nBackfill' = nBackfill /\ salts' \in Nat /\ salts' >= salts /\ pc[c] # "rs3"
  BY <1>2, HdrNumbers DEF CkptQuit, Forget
<1> QED BY <1>4, <1>5, HdrQuiet

LEMMA CrashHdr ==
  ASSUME LockInv, HeadInv, HdrInv, NEW c \in Conn, Crash(c), UNCHANGED env, LockInv', HeadInv', Still(c), pc[c] # "rs3"
  PROVE  HdrInv'
<1>1. HdrOf(c) /\ HeldLocks(c) /\ HeldSlot(c) /\ Phase(c) /\ Room(c) /\ head[0].salt <= salts
  BY Here DEF HdrInv
<1>2. pc \in [Conn -> PC] /\ hdr \in [Conn -> Hdr] /\ head \in [{0, 1} -> Hdr] /\ slot \in [Conn -> 0..Idle]
  BY DEF LockInv, SharedType, ConnType
<1>3. ck \in [Conn -> Ck] /\ tx \in [Conn -> Tx] /\ content \in [Conn -> Content \cup {None}]
  BY DEF LockInv, SharedType, ConnType
<1>4. HdrOf(c)'
  <2>1. pc'[c] = "idle" /\ hdr'[c] = ZeroHdr /\ salts' = salts
    BY <1>2 DEF Crash, Forget
  <2> QED BY <2>1, HdrNumbers DEF HdrOf, Current, Follows, HasHdr, AtEnd, Running, ZeroHdr
<1>5. head'[0] = head[0] /\ nBackfill' = nBackfill /\ salts' \in Nat /\ salts' >= salts /\ pc[c] # "rs3"
  BY <1>2, HdrNumbers DEF Crash, Forget
<1> QED BY <1>4, <1>5, HdrQuiet

LEMMA SaltQuiet ==
  ASSUME LockInv, SaltRoom, NEW c \in Conn, Still(c), UNCHANGED env, salts' = salts,
         NeedsSalt(c)' => NeedsSalt(c) \/ salts < env.salts
  PROVE  SaltRoom'
<1> SUFFICES ASSUME NEW d \in Conn, NeedsSalt(d)' PROVE salts < env.salts
  BY DEF SaltRoom
<1>1. CASE d = c
  BY <1>1 DEF SaltRoom
<1>2. CASE d # c
  BY <1>2 DEF Still, SaltRoom, NeedsSalt
<1> QED BY <1>1, <1>2

LEMMA SaltDrawn ==
  ASSUME LockInv, SaltRoom, NEW c \in Conn, Still(c), WRITE \in excl[c], ~NeedsSalt(c)'
  PROVE  SaltRoom'
<1> SUFFICES ASSUME NEW d \in Conn, NeedsSalt(d)' PROVE FALSE
  BY DEF SaltRoom
<1>1. d # c /\ NeedsSalt(d)
  BY DEF Still, NeedsSalt
<1>2. WRITE \in excl[d]
  BY <1>1, Here DEF NeedsSalt, HeldLocks, WriterLock
<1> QED BY <1>1, <1>2, Alone

LEMMA SaltNext ==
  ASSUME LockInv, SaltRoom, NEW c \in Conn, StepOf(c), UNCHANGED env, LockInv', Still(c)
  PROVE  SaltRoom'
<1>0. /\ pc \in [Conn -> PC] /\ hdr \in [Conn -> Hdr] /\ content \in [Conn -> Content \cup {None}]
      /\ slot \in [Conn -> 0..Idle] /\ excl \in [Conn -> SUBSET Lock] /\ cand \in [Conn -> Cand]
      /\ fresh \in [Conn -> BOOLEAN]
  BY DEF LockInv, ConnType
<1>1. CASE ReadHdr(c)
  <2>1. NeedsSalt(c)' => NeedsSalt(c) \/ salts < env.salts
    BY <1>0, <1>1, Here DEF ReadHdr, HeadIsGood, NeedsSalt, Phase
  <2>2. salts' = salts
    BY <1>1 DEF ReadHdr, HeadIsGood
  <2> QED BY <2>1, <2>2, SaltQuiet
<1>2. CASE Choose(c)
  <2>1. NeedsSalt(c)' => NeedsSalt(c) \/ salts < env.salts
    BY <1>0, <1>2, Here DEF Choose, NeedsSalt, Phase
  <2>2. salts' = salts
    BY <1>2 DEF Choose
  <2> QED BY <2>1, <2>2, SaltQuiet
<1>3. CASE Lock0(c)
  <2>1. NeedsSalt(c)' => NeedsSalt(c) \/ salts < env.salts
    BY <1>0, <1>3, Here DEF Lock0, CanShare, NeedsSalt, Phase
  <2>2. salts' = salts
    BY <1>3 DEF Lock0, CanShare
  <2> QED BY <2>1, <2>2, SaltQuiet
<1>4. CASE Check0(c)
  <2>1. NeedsSalt(c)' => NeedsSalt(c) \/ salts < env.salts
    BY <1>0, <1>4, Here DEF Check0, Begun, NeedsSalt, Phase
  <2>2. salts' = salts
    BY <1>4 DEF Check0, Begun
  <2> QED BY <2>1, <2>2, SaltQuiet
<1>5. CASE Pick(c)
  <2>1. NeedsSalt(c)' => NeedsSalt(c) \/ salts < env.salts
    BY <1>0, <1>5, Here DEF Pick, Take, NeedsSalt, Phase
  <2>2. salts' = salts
    BY <1>5 DEF Pick, Take
  <2> QED BY <2>1, <2>2, SaltQuiet
<1>6. CASE SetMark(c)
  <2>1. NeedsSalt(c)' => NeedsSalt(c) \/ salts < env.salts
    BY <1>0, <1>6, Here DEF SetMark, Release, NeedsSalt, Phase
  <2>2. salts' = salts
    BY <1>6 DEF SetMark, Release
  <2> QED BY <2>1, <2>2, SaltQuiet
<1>7. CASE Share(c)
  <2>1. NeedsSalt(c)' => NeedsSalt(c) \/ salts < env.salts
    BY <1>0, <1>7, Here DEF Share, CanShare, NeedsSalt, Phase
  <2>2. salts' = salts
    BY <1>7 DEF Share, CanShare
  <2> QED BY <2>1, <2>2, SaltQuiet
<1>8. CASE Recheck(c)
  <2>1. NeedsSalt(c)' => NeedsSalt(c) \/ salts < env.salts
    BY <1>0, <1>8, Here DEF Recheck, Begun, NeedsSalt, Phase
  <2>2. salts' = salts
    BY <1>8 DEF Recheck, Begun
  <2> QED BY <2>1, <2>2, SaltQuiet
<1>9. CASE EndRead(c)
  <2>1. NeedsSalt(c)' => NeedsSalt(c) \/ salts < env.salts
    BY <1>0, <1>9, Here DEF EndRead, Forget, NeedsSalt, Phase
  <2>2. salts' = salts
    BY <1>9 DEF EndRead, Forget
  <2> QED BY <2>1, <2>2, SaltQuiet
<1>10. CASE RecoverLock(c)
  <2>1. NeedsSalt(c)' => NeedsSalt(c) \/ salts < env.salts
    BY <1>0, <1>10, Here DEF RecoverLock, Take, CanExcl, RecoverLocks, NeedsSalt, Phase
  <2>2. salts' = salts
    BY <1>10 DEF RecoverLock, Take, CanExcl, RecoverLocks
  <2> QED BY <2>1, <2>2, SaltQuiet
<1>11. CASE Rec1(c)
  <2>1. NeedsSalt(c)' => NeedsSalt(c) \/ salts < env.salts
    BY <1>0, <1>11, Here DEF Rec1, NeedsSalt, Phase
  <2>2. salts' = salts
    BY <1>11 DEF Rec1
  <2> QED BY <2>1, <2>2, SaltQuiet
<1>12. CASE Rec2(c)
  <2>1. NeedsSalt(c)' => NeedsSalt(c) \/ salts < env.salts
    BY <1>0, <1>12, Here DEF Rec2, NeedsSalt, Phase
  <2>2. salts' = salts
    BY <1>12 DEF Rec2
  <2> QED BY <2>1, <2>2, SaltQuiet
<1>13. CASE Rec3(c)
  <2>1. NeedsSalt(c)' => NeedsSalt(c) \/ salts < env.salts
    BY <1>0, <1>13, Here DEF Rec3, NeedsSalt, Phase
  <2>2. salts' = salts
    BY <1>13 DEF Rec3
  <2> QED BY <2>1, <2>2, SaltQuiet
<1>14. CASE BeginWrite(c)
  <2>1. NeedsSalt(c)' => NeedsSalt(c) \/ salts < env.salts
    BY <1>0, <1>14, Here DEF BeginWrite, Take, CanExcl, NeedsSalt, Phase
  <2>2. salts' = salts
    BY <1>14 DEF BeginWrite, Take, CanExcl
  <2> QED BY <2>1, <2>2, SaltQuiet
<1>15. CASE WalFrames(c)
  <2>1. NeedsSalt(c)' => NeedsSalt(c) \/ salts < env.salts
    BY <1>0, <1>15, Here DEF WalFrames, Take, CanExcl, NeedsSalt, Phase
  <2>2. salts' = salts
    BY <1>15 DEF WalFrames, Take, CanExcl
  <2> QED BY <2>1, <2>2, SaltQuiet
<1>16. CASE Restart1(c)
  <2>1. WRITE \in excl[c] /\ ~NeedsSalt(c)'
    BY <1>0, <1>16, Here DEF Restart1, NeedsSalt, HeldLocks
  <2> QED BY <2>1, SaltDrawn
<1>17. CASE Restart2(c)
  <2>1. NeedsSalt(c)' => NeedsSalt(c) \/ salts < env.salts
    BY <1>0, <1>17, Here DEF Restart2, NeedsSalt, Phase
  <2>2. salts' = salts
    BY <1>17 DEF Restart2
  <2> QED BY <2>1, <2>2, SaltQuiet
<1>18. CASE Restart3(c)
  <2>1. NeedsSalt(c)' => NeedsSalt(c) \/ salts < env.salts
    BY <1>0, <1>18, Here DEF Restart3, ResetInfo, Release, NeedsSalt, Phase
  <2>2. salts' = salts
    BY <1>18 DEF Restart3, ResetInfo, Release
  <2> QED BY <2>1, <2>2, SaltQuiet
<1>19. CASE WalHdr(c)
  <2>1. WRITE \in excl[c] /\ ~NeedsSalt(c)'
    <3>1. pc[c] = "walhdr" /\ pc'[c] \in {"hdrsync", "frame"}
      BY <1>0, <1>19 DEF WalHdr
    <3> QED BY <3>1, Here DEF NeedsSalt, HeldLocks
  <2> QED BY <2>1, SaltDrawn
<1>20. CASE SyncHdr(c)
  <2>1. NeedsSalt(c)' => NeedsSalt(c) \/ salts < env.salts
    BY <1>0, <1>20, Here DEF SyncHdr, SyncWal, NeedsSalt, Phase
  <2>2. salts' = salts
    BY <1>20 DEF SyncHdr, SyncWal
  <2> QED BY <2>1, <2>2, SaltQuiet
<1>21. CASE WriteFrame(c)
  <2>1. NeedsSalt(c)' => NeedsSalt(c) \/ salts < env.salts
    BY <1>0, <1>21, Here DEF WriteFrame, NeedsSalt, Phase
  <2>2. salts' = salts
    BY <1>21 DEF WriteFrame
  <2> QED BY <2>1, <2>2, SaltQuiet
<1>22. CASE Recksum(c)
  <2>1. NeedsSalt(c)' => NeedsSalt(c) \/ salts < env.salts
    BY <1>0, <1>22, Here DEF Recksum, NeedsSalt, Phase
  <2>2. salts' = salts
    BY <1>22 DEF Recksum
  <2> QED BY <2>1, <2>2, SaltQuiet
<1>23. CASE SyncCommit(c)
  <2>1. NeedsSalt(c)' => NeedsSalt(c) \/ salts < env.salts
    BY <1>0, <1>23, Here DEF SyncCommit, SyncWal, NeedsSalt, Phase
  <2>2. salts' = salts
    BY <1>23 DEF SyncCommit, SyncWal
  <2> QED BY <2>1, <2>2, SaltQuiet
<1>24. CASE Index(c)
  <2>1. NeedsSalt(c)' => NeedsSalt(c) \/ salts < env.salts
    BY <1>0, <1>24, Here DEF Index, NeedsSalt, Phase
  <2>2. salts' = salts
    BY <1>24 DEF Index
  <2> QED BY <2>1, <2>2, SaltQuiet
<1>25. CASE Publish(c)
  <2>1. NeedsSalt(c)' => NeedsSalt(c) \/ salts < env.salts
    BY <1>0, <1>25, Here DEF Publish, Release, NeedsSalt, Phase
  <2>2. salts' = salts
    BY <1>25 DEF Publish, Release
  <2> QED BY <2>1, <2>2, SaltQuiet
<1>26. CASE WriteFails(c)
  <2>1. NeedsSalt(c)' => NeedsSalt(c) \/ salts < env.salts
    BY <1>0, <1>26, Here DEF WriteFails, NeedsSalt, Phase
  <2>2. salts' = salts
    BY <1>26 DEF WriteFails
  <2> QED BY <2>1, <2>2, SaltQuiet
<1>27. CASE Rollback(c)
  <2>1. NeedsSalt(c)' => NeedsSalt(c) \/ salts < env.salts
    BY <1>0, <1>27, Here DEF Rollback, Release, NeedsSalt, Phase
  <2>2. salts' = salts
    BY <1>27 DEF Rollback, Release
  <2> QED BY <2>1, <2>2, SaltQuiet
<1>28. CASE Checkpoint(c)
  <2>1. NeedsSalt(c)' => NeedsSalt(c) \/ salts < env.salts
    BY <1>0, <1>28, Here DEF Checkpoint, Take, CanExcl, NeedsSalt, Phase
  <2>2. salts' = salts
    BY <1>28 DEF Checkpoint, Take, CanExcl
  <2> QED BY <2>1, <2>2, SaltQuiet
<1>29. CASE CkptWriteLock(c)
  <2>1. NeedsSalt(c)' => NeedsSalt(c) \/ salts < env.salts
    BY <1>0, <1>29, Here DEF CkptWriteLock, Take, CanExcl, NeedsSalt, Phase
  <2>2. salts' = salts
    BY <1>29 DEF CkptWriteLock, Take, CanExcl
  <2> QED BY <2>1, <2>2, SaltQuiet
<1>30. CASE CkptStart(c)
  <2>1. NeedsSalt(c)' => NeedsSalt(c) \/ salts < env.salts
    BY <1>0, <1>30, Here DEF CkptStart, NeedsSalt, Phase
  <2>2. salts' = salts
    BY <1>30 DEF CkptStart
  <2> QED BY <2>1, <2>2, SaltQuiet
<1>31. CASE CkptMark(c)
  <2>1. NeedsSalt(c)' => NeedsSalt(c) \/ salts < env.salts
    BY <1>0, <1>31, Here DEF CkptMark, NextMark, NeedsSalt, Phase
  <2>2. salts' = salts
    BY <1>31 DEF CkptMark, NextMark
  <2> QED BY <2>1, <2>2, SaltQuiet
<1>32. CASE CkptLockMark(c)
  <2>1. NeedsSalt(c)' => NeedsSalt(c) \/ salts < env.salts
    BY <1>0, <1>32, Here DEF CkptLockMark, NextMark, CanExcl, NeedsSalt, Phase
  <2>2. salts' = salts
    BY <1>32 DEF CkptLockMark, NextMark, CanExcl
  <2> QED BY <2>1, <2>2, SaltQuiet
<1>33. CASE CkptLock0(c)
  <2>1. NeedsSalt(c)' => NeedsSalt(c) \/ salts < env.salts
    BY <1>0, <1>33, Here DEF CkptLock0, Take, CanExcl, NeedsSalt, Phase
  <2>2. salts' = salts
    BY <1>33 DEF CkptLock0, Take, CanExcl
  <2> QED BY <2>1, <2>2, SaltQuiet
<1>34. CASE CkptSync(c)
  <2>1. NeedsSalt(c)' => NeedsSalt(c) \/ salts < env.salts
    BY <1>0, <1>34, Here DEF CkptSync, SyncWal, NeedsSalt, Phase
  <2>2. salts' = salts
    BY <1>34 DEF CkptSync, SyncWal
  <2> QED BY <2>1, <2>2, SaltQuiet
<1>35. CASE CkptCopy(c)
  <2>1. NeedsSalt(c)' => NeedsSalt(c) \/ salts < env.salts
    BY <1>0, <1>35, Here DEF CkptCopy, NeedsSalt, Phase
  <2>2. salts' = salts
    BY <1>35 DEF CkptCopy
  <2> QED BY <2>1, <2>2, SaltQuiet
<1>36. CASE CkptDone(c)
  <2>1. NeedsSalt(c)' => NeedsSalt(c) \/ salts < env.salts
    BY <1>0, <1>36, Here DEF CkptDone, Release, NeedsSalt, Phase
  <2>2. salts' = salts
    BY <1>36 DEF CkptDone, Release
  <2> QED BY <2>1, <2>2, SaltQuiet
<1>37. CASE CkptEnd(c)
  <2>1. NeedsSalt(c)' => NeedsSalt(c) \/ salts < env.salts
    BY <1>0, <1>37, Here DEF CkptEnd, Take, CanExcl, NeedsSalt, Phase
  <2>2. salts' = salts
    BY <1>37 DEF CkptEnd, Take, CanExcl
  <2> QED BY <2>1, <2>2, SaltQuiet
<1>38. CASE CkptTruncate(c)
  <2>1. NeedsSalt(c)' => NeedsSalt(c) \/ salts < env.salts
    BY <1>0, <1>38, Here DEF CkptTruncate, Release, NeedsSalt, Phase
  <2>2. salts' = salts
    BY <1>38 DEF CkptTruncate, Release
  <2> QED BY <2>1, <2>2, SaltQuiet
<1>39. CASE CkptQuit(c)
  <2>1. NeedsSalt(c)' => NeedsSalt(c) \/ salts < env.salts
    BY <1>0, <1>39, Here DEF CkptQuit, Forget, NeedsSalt, Phase
  <2>2. salts' = salts
    BY <1>39 DEF CkptQuit, Forget
  <2> QED BY <2>1, <2>2, SaltQuiet
<1>40. CASE Crash(c)
  <2>1. NeedsSalt(c)' => NeedsSalt(c) \/ salts < env.salts
    BY <1>0, <1>40, Here DEF Crash, Forget, NeedsSalt, Phase
  <2>2. salts' = salts
    BY <1>40 DEF Crash, Forget
  <2> QED BY <2>1, <2>2, SaltQuiet
<1> QED BY <1>1, <1>2, <1>3, <1>4, <1>5, <1>6, <1>7, <1>8, <1>9, <1>10, <1>11, <1>12, <1>13, <1>14, <1>15, <1>16, <1>17, <1>18, <1>19, <1>20, <1>21, <1>22, <1>23, <1>24, <1>25, <1>26, <1>27, <1>28, <1>29, <1>30, <1>31, <1>32, <1>33, <1>34, <1>35, <1>36, <1>37, <1>38, <1>39, <1>40 DEF StepOf

(***************************************************************************)
(* What this module leaves out: a loss of power, a process that ends while *)
(* it writes a header, and a restart of the log between a checkpoint's     *)
(* reading of the header and its look at nBackfill (the run wal_reset).    *)
(***************************************************************************)
Disturbed ==
  \/ PowerLoss
  \/ \E c \in env.conns : Crash(c) /\ pc[c] \in {"rs2", "rs3", "publish"}
  \/ \E c \in env.conns, d \in Conn : Restart2(c) /\ pc[d] = "ckinfo"

CalmSpec == Init /\ [][Next /\ ~Disturbed]_vars

Calm(c) ==
  /\ StepOf(c) /\ UNCHANGED env
  /\ Crash(c) => pc[c] \notin {"rs2", "rs3", "publish"}
  /\ Restart2(c) => \A d \in Conn : pc[d] # "ckinfo"

LEMMA CalmSteps ==
  ASSUME env \in Environments, Next, ~Disturbed
  PROVE  \E c \in Conn : Calm(c)
BY StepsAreOfConnections DEF Disturbed, Calm

LEMMA HeadNext ==
  ASSUME LockInv, HeadInv, NEW c \in Conn, Calm(c), LockInv'
  PROVE  Still(c) /\ HeadInv'
<1>0. StepOf(c) /\ UNCHANGED env
  BY DEF Calm
<1>1. CASE ReadHdr(c)
  BY <1>0, <1>1, ReadHdrHead
<1>2. CASE Choose(c)
  BY <1>0, <1>2, ChooseHead
<1>3. CASE Lock0(c)
  BY <1>0, <1>3, Lock0Head
<1>4. CASE Check0(c)
  BY <1>0, <1>4, Check0Head
<1>5. CASE Pick(c)
  BY <1>0, <1>5, PickHead
<1>6. CASE SetMark(c)
  BY <1>0, <1>6, SetMarkHead
<1>7. CASE Share(c)
  BY <1>0, <1>7, ShareHead
<1>8. CASE Recheck(c)
  BY <1>0, <1>8, RecheckHead
<1>9. CASE EndRead(c)
  BY <1>0, <1>9, EndReadHead
<1>10. CASE RecoverLock(c)
  BY <1>0, <1>10, RecoverLockHead
<1>11. CASE Rec1(c)
  BY <1>0, <1>11, Rec1Head
<1>12. CASE Rec2(c)
  BY <1>0, <1>12, Rec2Head
<1>13. CASE Rec3(c)
  BY <1>0, <1>13, Rec3Head
<1>14. CASE BeginWrite(c)
  BY <1>0, <1>14, BeginWriteHead
<1>15. CASE WalFrames(c)
  BY <1>0, <1>15, WalFramesHead
<1>16. CASE Restart1(c)
  BY <1>0, <1>16, Restart1Head
<1>17. CASE Restart2(c)
  BY <1>0, <1>17, Restart2Head
<1>18. CASE Restart3(c)
  BY <1>0, <1>18, Restart3Head
<1>19. CASE WalHdr(c)
  BY <1>0, <1>19, WalHdrHead
<1>20. CASE SyncHdr(c)
  BY <1>0, <1>20, SyncHdrHead
<1>21. CASE WriteFrame(c)
  BY <1>0, <1>21, WriteFrameHead
<1>22. CASE Recksum(c)
  BY <1>0, <1>22, RecksumHead
<1>23. CASE SyncCommit(c)
  BY <1>0, <1>23, SyncCommitHead
<1>24. CASE Index(c)
  BY <1>0, <1>24, IndexHead
<1>25. CASE Publish(c)
  BY <1>0, <1>25, PublishHead
<1>26. CASE WriteFails(c)
  BY <1>0, <1>26, WriteFailsHead
<1>27. CASE Rollback(c)
  BY <1>0, <1>27, RollbackHead
<1>28. CASE Checkpoint(c)
  BY <1>0, <1>28, CheckpointHead
<1>29. CASE CkptWriteLock(c)
  BY <1>0, <1>29, CkptWriteLockHead
<1>30. CASE CkptStart(c)
  BY <1>0, <1>30, CkptStartHead
<1>31. CASE CkptMark(c)
  BY <1>0, <1>31, CkptMarkHead
<1>32. CASE CkptLockMark(c)
  BY <1>0, <1>32, CkptLockMarkHead
<1>33. CASE CkptLock0(c)
  BY <1>0, <1>33, CkptLock0Head
<1>34. CASE CkptSync(c)
  BY <1>0, <1>34, CkptSyncHead
<1>35. CASE CkptCopy(c)
  BY <1>0, <1>35, CkptCopyHead
<1>36. CASE CkptDone(c)
  BY <1>0, <1>36, CkptDoneHead
<1>37. CASE CkptEnd(c)
  BY <1>0, <1>37, CkptEndHead
<1>38. CASE CkptTruncate(c)
  BY <1>0, <1>38, CkptTruncateHead
<1>39. CASE CkptQuit(c)
  BY <1>0, <1>39, CkptQuitHead
<1>40. CASE Crash(c)
  <2>1. pc[c] \notin {"rs2", "publish"}
    BY <1>40 DEF Calm
  <2> QED BY <1>0, <1>40, <2>1, CrashHead
<1> QED BY <1>0, <1>1, <1>2, <1>3, <1>4, <1>5, <1>6, <1>7, <1>8, <1>9, <1>10, <1>11, <1>12, <1>13, <1>14, <1>15, <1>16, <1>17, <1>18, <1>19, <1>20, <1>21, <1>22, <1>23, <1>24, <1>25, <1>26, <1>27, <1>28, <1>29, <1>30, <1>31, <1>32, <1>33, <1>34, <1>35, <1>36, <1>37, <1>38, <1>39, <1>40 DEF StepOf

LEMMA HdrNext ==
  ASSUME LockInv, HeadInv, HdrInv, SaltRoom, NEW c \in Conn, Calm(c), LockInv', HeadInv', Still(c)
  PROVE  HdrInv'
<1>0. StepOf(c) /\ UNCHANGED env
  BY DEF Calm
<1>1. CASE ReadHdr(c)
  BY <1>0, <1>1, ReadHdrHdr
<1>2. CASE Choose(c)
  BY <1>0, <1>2, ChooseHdr
<1>3. CASE Lock0(c)
  BY <1>0, <1>3, Lock0Hdr
<1>4. CASE Check0(c)
  BY <1>0, <1>4, Check0Hdr
<1>5. CASE Pick(c)
  BY <1>0, <1>5, PickHdr
<1>6. CASE SetMark(c)
  BY <1>0, <1>6, SetMarkHdr
<1>7. CASE Share(c)
  BY <1>0, <1>7, ShareHdr
<1>8. CASE Recheck(c)
  BY <1>0, <1>8, RecheckHdr
<1>9. CASE EndRead(c)
  BY <1>0, <1>9, EndReadHdr
<1>10. CASE RecoverLock(c)
  BY <1>0, <1>10, RecoverLockHdr
<1>11. CASE Rec1(c)
  BY <1>0, <1>11, Rec1Hdr
<1>12. CASE Rec2(c)
  BY <1>0, <1>12, Rec2Hdr
<1>13. CASE Rec3(c)
  BY <1>0, <1>13, Rec3Hdr
<1>14. CASE BeginWrite(c)
  BY <1>0, <1>14, BeginWriteHdr
<1>15. CASE WalFrames(c)
  BY <1>0, <1>15, WalFramesHdr
<1>16. CASE Restart1(c)
  BY <1>0, <1>16, Restart1Hdr
<1>17. CASE Restart2(c)
  <2>1. \A d \in Conn : pc[d] # "ckinfo"
    BY <1>17 DEF Calm
  <2> QED BY <1>0, <1>17, <2>1, Restart2Hdr
<1>18. CASE Restart3(c)
  BY <1>0, <1>18, Restart3Hdr
<1>19. CASE WalHdr(c)
  BY <1>0, <1>19, WalHdrHdr
<1>20. CASE SyncHdr(c)
  BY <1>0, <1>20, SyncHdrHdr
<1>21. CASE WriteFrame(c)
  BY <1>0, <1>21, WriteFrameHdr
<1>22. CASE Recksum(c)
  BY <1>0, <1>22, RecksumHdr
<1>23. CASE SyncCommit(c)
  BY <1>0, <1>23, SyncCommitHdr
<1>24. CASE Index(c)
  BY <1>0, <1>24, IndexHdr
<1>25. CASE Publish(c)
  BY <1>0, <1>25, PublishHdr
<1>26. CASE WriteFails(c)
  BY <1>0, <1>26, WriteFailsHdr
<1>27. CASE Rollback(c)
  BY <1>0, <1>27, RollbackHdr
<1>28. CASE Checkpoint(c)
  BY <1>0, <1>28, CheckpointHdr
<1>29. CASE CkptWriteLock(c)
  BY <1>0, <1>29, CkptWriteLockHdr
<1>30. CASE CkptStart(c)
  BY <1>0, <1>30, CkptStartHdr
<1>31. CASE CkptMark(c)
  BY <1>0, <1>31, CkptMarkHdr
<1>32. CASE CkptLockMark(c)
  BY <1>0, <1>32, CkptLockMarkHdr
<1>33. CASE CkptLock0(c)
  BY <1>0, <1>33, CkptLock0Hdr
<1>34. CASE CkptSync(c)
  BY <1>0, <1>34, CkptSyncHdr
<1>35. CASE CkptCopy(c)
  BY <1>0, <1>35, CkptCopyHdr
<1>36. CASE CkptDone(c)
  BY <1>0, <1>36, CkptDoneHdr
<1>37. CASE CkptEnd(c)
  BY <1>0, <1>37, CkptEndHdr
<1>38. CASE CkptTruncate(c)
  BY <1>0, <1>38, CkptTruncateHdr
<1>39. CASE CkptQuit(c)
  BY <1>0, <1>39, CkptQuitHdr
<1>40. CASE Crash(c)
  <2>1. pc[c] # "rs3"
    BY <1>40 DEF Calm
  <2> QED BY <1>0, <1>40, <2>1, CrashHdr
<1> QED BY <1>0, <1>1, <1>2, <1>3, <1>4, <1>5, <1>6, <1>7, <1>8, <1>9, <1>10, <1>11, <1>12, <1>13, <1>14, <1>15, <1>16, <1>17, <1>18, <1>19, <1>20, <1>21, <1>22, <1>23, <1>24, <1>25, <1>26, <1>27, <1>28, <1>29, <1>30, <1>31, <1>32, <1>33, <1>34, <1>35, <1>36, <1>37, <1>38, <1>39, <1>40 DEF StepOf

HeldInv == LockInv /\ HeadInv /\ SaltRoom /\ HdrInv

LEMMA HeldNext ==
  ASSUME HeldInv, NEW c \in Conn, Calm(c)
  PROVE  HeldInv' /\ Still(c)
<1>1. LockInv'
  BY LockNext DEF HeldInv, Calm
<1>2. Still(c) /\ HeadInv'
  BY <1>1, HeadNext DEF HeldInv
<1>3. HdrInv'
  BY <1>1, <1>2, HdrNext DEF HeldInv
<1>4. SaltRoom'
  BY <1>1, <1>2, SaltNext DEF HeldInv, Calm
<1> QED BY <1>1, <1>2, <1>3, <1>4 DEF HeldInv

LEMMA HeldInit ==
  ASSUME Init
  PROVE  HeldInv
<1>1. HdrInv
  <2>1. /\ head[0] = ZeroHdr /\ nBackfill = 0 /\ salts = 0 /\ N = 0
        /\ \A c \in Conn : pc[c] = "idle" /\ hdr[c] = ZeroHdr /\ slot[c] = Idle
                          /\ content[c] = None /\ ck[c] = NoCk
    BY DEF Init, N, ZeroHdr
  <2>2. \A c \in Conn : HdrOf(c)
    BY <2>1, Locks DEF HdrOf, Current, Follows, HasHdr, AtEnd, Running, ZeroHdr, NoCk
  <2> QED BY <2>1, <2>2 DEF HdrInv, LogSize, ZeroHdr
<1> QED BY <1>1, LockInit DEF HeldInv
=============================================================================
