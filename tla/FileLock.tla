------------------------------ MODULE FileLock ------------------------------
(***************************************************************************)
(* The locks of a database file as the unix layer of the linked store      *)
(* keeps them: the advisory byte locks of the operating system, which      *)
(* belong to a process, the inode record all connections of a process      *)
(* share, and the wait queue WCDB adds to it.  unixLock, posixUnlock and    *)
(* unixClose run under the inode mutex, so each is one step, except that   *)
(* unixLock may fall asleep in WCDBOsWait, which gives the mutex away, and *)
(* posixUnlock writes the level of its own connection after leaving the    *)
(* mutex.  A connection is used by one thread at a time and both are named *)
(* by the file handle.                                                     *)
(***************************************************************************)
EXTENDS Naturals, Sequences, FiniteSets

CONSTANTS File,            \* connections (unixFile)
          Process,
          ProcessOf,       \* the process of a connection
          Main,            \* connections used by the main thread
          Gone,            \* the pFile of a queue entry whose unixFile is freed
          MaxTimeouts      \* bound: waits that end without a signal

ASSUME FileLockAssumption ==
  /\ IsFiniteSet(File)
  /\ ProcessOf \in [File -> Process]
  /\ Main \subseteq File
  /\ Gone \notin File
  /\ MaxTimeouts \in Nat

VARIABLES
  open,        \* connections whose unixFile exists
  held,        \* the level a connection holds by the inode record
  eFileLock,   \* unixFile.eFileLock, written late by posixUnlock
  inode,       \* unixInodeInfo of a process: eFileLock, nShared, nLock
  unused,      \* processes with descriptors whose close was deferred (pUnused)
  os,          \* the byte locks: byte -> process -> none, read or write
  bWait,       \* unixFile.bWait: this connection may sleep for a lock
  queue,       \* unixInodeInfo.qWaitQueue
  asleep,      \* threads in pthreadCondWait
  timeouts

lockVars == <<open, held, eFileLock, inode, unused, os>>
waitVars == <<bWait, queue, asleep, timeouts>>
vars == <<open, held, eFileLock, inode, unused, os, bWait, queue, asleep, timeouts>>

NO_LOCK == 0
SHARED == 1
RESERVED == 2
PENDING == 3
EXCLUSIVE == 4
Level == 0..4
Byte == {"pending", "reserved", "shared"}
ByteLock == {"none", "read", "write"}
WaitInfo == [thread : File, pFile : File \cup {Gone}, eFileLock : Level,
             eFlag : {"WAIT_SHARED", "WAIT_EXCLUSIVE"}]

FreshInode == [eFileLock |-> NO_LOCK, nShared |-> 0, nLock |-> 0]

Init ==
  /\ open = {}
  /\ held = [f \in File |-> NO_LOCK]
  /\ eFileLock = [f \in File |-> NO_LOCK]
  /\ inode = [p \in Process |-> FreshInode]
  /\ unused = {}
  /\ os = [b \in Byte |-> [p \in Process |-> "none"]]
  /\ bWait = [f \in File |-> FALSE]
  /\ queue = [p \in Process |-> <<>>]
  /\ asleep = {}
  /\ timeouts = 0

(***************************************************************************)
(* fcntl(F_SETLK): a process never conflicts with itself, and closing any  *)
(* descriptor of the file drops all its locks.                             *)
(***************************************************************************)
MayRead(p, b) == \A q \in Process \ {p} : os[b][q] # "write"
MayWrite(p, b) == \A q \in Process \ {p} : os[b][q] = "none"
SetLock(locks, p, b, type) == [locks EXCEPT ![b][p] = type]
DropLocks(p) == [b \in Byte |-> [os[b] EXCEPT ![p] = "none"]]

(***************************************************************************)
(* The wait queue.                                                         *)
(***************************************************************************)
Enqueue_Over(q, info) ==  \* mutant: the main thread takes the place of the front
  IF info.thread \in Main THEN <<info>> \o SubSeq(q, 2, Len(q)) ELSE Append(q, info)

\* sqlite3QueuePush, or PushFront for a waiter on the main thread.
Enqueue(q, info) ==
  IF info.thread \in Main THEN <<info>> \o q ELSE Append(q, info)

Passes_Precedence(info, ino, levels) ==  \* mutant: || and && without parentheses
  CASE info.eFlag = "WAIT_EXCLUSIVE" ->
         {~(info.eFileLock = EXCLUSIVE /\ ino.nShared > 1)}
    [] info.eFlag = "WAIT_SHARED" /\ info.pFile = Gone -> BOOLEAN
    [] OTHER -> {~(\/ levels[info.pFile] # ino.eFileLock /\ ino.eFileLock >= PENDING
                   \/ info.eFileLock > SHARED)}

\* The test WCDBOsTrySignal makes of the front: whether the request would
\* pass now.  It reads the waiter's unixFile; one that is freed may read as
\* anything.
Passes(info, ino, levels) ==
  CASE info.eFlag = "WAIT_EXCLUSIVE" ->
         {~(info.eFileLock = EXCLUSIVE /\ ino.nShared > 1)}
    [] info.eFlag = "WAIT_SHARED" /\ info.pFile = Gone -> BOOLEAN
    [] OTHER -> {~(/\ levels[info.pFile] # ino.eFileLock
                   /\ ino.eFileLock >= PENDING \/ info.eFileLock > SHARED)}

WCDBOsTrySignal_Never(p, ino) == UNCHANGED <<queue, asleep>>  \* mutant: no call

\* WCDBOsTrySignal pops and signals the front while it passes.
WCDBOsTrySignal(p, ino) ==
  \E n \in 0..Len(queue[p]) :
    /\ \A i \in 1..n : TRUE \in Passes(queue[p][i], ino, eFileLock)
    /\ n < Len(queue[p]) => FALSE \in Passes(queue[p][n + 1], ino, eFileLock)
    /\ queue' = [queue EXCEPT ![p] = SubSeq(@, n + 1, Len(@))]
    /\ asleep' = asleep \ {queue[p][i].thread : i \in 1..n}

\* Two upgraders would wait for each other: the front is woken instead.
WouldDeadlock(q, level) ==
  /\ q # <<>>
  /\ \/ level = EXCLUSIVE /\ Head(q).eFileLock > SHARED
     \/ Head(q).eFileLock = EXCLUSIVE /\ level > SHARED

WCDBOsWait(f, level, flag) ==
  LET p == ProcessOf[f]
      info == [thread |-> f, pFile |-> f, eFileLock |-> level, eFlag |-> flag]
  IN  CASE ~bWait[f] -> UNCHANGED <<queue, asleep>>
        [] bWait[f] /\ WouldDeadlock(queue[p], level) ->
             /\ queue' = [queue EXCEPT ![p] = Tail(@)]
             /\ asleep' = asleep \ {Head(queue[p]).thread}
        [] OTHER ->
             /\ queue' = [queue EXCEPT ![p] = Enqueue(@, info)]
             /\ asleep' = asleep \cup {f}

\* pthread_cond_timedwait_relative_np gives up: the entry stays queued.
Timeout(f) ==
  /\ f \in asleep
  /\ timeouts < MaxTimeouts
  /\ timeouts' = timeouts + 1
  /\ asleep' = asleep \ {f}
  /\ UNCHANGED <<lockVars, bWait, queue>>

(***************************************************************************)
(* unixLock                                                                *)
(***************************************************************************)

\* The thread of f is not inside a call on the file.
Free(f) == f \in open /\ f \notin asleep /\ held[f] = eFileLock[f]

\* The sequences the asserts at the head of unixLock allow.
LegalRequest(f, level) ==
  /\ Free(f)
  /\ level \in {SHARED, RESERVED, EXCLUSIVE}
  /\ level > eFileLock[f]
  /\ eFileLock[f] = NO_LOCK => level = SHARED
  /\ level = RESERVED => eFileLock[f] = SHARED

Precluded_Readers(f, level) ==  \* mutant: a second writer is not kept out
  eFileLock[f] # inode[ProcessOf[f]].eFileLock /\ inode[ProcessOf[f]].eFileLock >= PENDING
Precluded_Upgrades(f, level) ==  \* mutant: PENDING does not keep new readers out
  eFileLock[f] # inode[ProcessOf[f]].eFileLock /\ level > SHARED

\* Another connection of this process holds a lock that precludes it.
Precluded(f, level) ==
  LET ino == inode[ProcessOf[f]]
  IN  eFileLock[f] # ino.eFileLock /\ (ino.eFileLock >= PENDING \/ level > SHARED)

NeedsPendingByte_Reader(f, level) == level = SHARED  \* mutant: not for EXCLUSIVE

NeedsPendingByte(f, level) ==
  level = SHARED \/ (level = EXCLUSIVE /\ eFileLock[f] < PENDING)
MayHavePendingByte_Writer(f, level) ==  \* mutant: a reader does not look at the byte
  NeedsPendingByte(f, level) /\ level = EXCLUSIVE => MayWrite(ProcessOf[f], "pending")

MayHavePendingByte(f, level) ==
  \/ ~NeedsPendingByte(f, level)
  \/ level = SHARED /\ MayRead(ProcessOf[f], "pending")
  \/ level = EXCLUSIVE /\ MayWrite(ProcessOf[f], "pending")

Raise(f, level) ==
  /\ held' = [held EXCEPT ![f] = level]
  /\ eFileLock' = [eFileLock EXCEPT ![f] = level]

\* BUSY, with no lock changed; flag says what WCDBOsWait may sleep for.
LockPrecluded(f, level) ==
  /\ LegalRequest(f, level)
  /\ Precluded(f, level)
  /\ WCDBOsWait(f, level, "WAIT_SHARED")
  /\ UNCHANGED <<lockVars, bWait, timeouts>>

\* A reader of this process already holds the system lock.
LockSharedAgain(f) ==
  LET p == ProcessOf[f]
  IN  /\ LegalRequest(f, SHARED)
      /\ ~Precluded(f, SHARED)
      /\ inode[p].eFileLock \in {SHARED, RESERVED}
      /\ Raise(f, SHARED)
      /\ inode' = [inode EXCEPT ![p].nShared = @ + 1, ![p].nLock = @ + 1]
      /\ UNCHANGED <<open, unused, os, waitVars>>

\* The first reader of the process; the pending byte is held only meanwhile.
LockSharedFirst(f) ==
  LET p == ProcessOf[f]
  IN  /\ LegalRequest(f, SHARED)
      /\ ~Precluded(f, SHARED)
      /\ inode[p].eFileLock \notin {SHARED, RESERVED}
      /\ MayHavePendingByte(f, SHARED)
      /\ MayRead(p, "shared")
      /\ Raise(f, SHARED)
      /\ inode' = [inode EXCEPT ![p] =
                     [eFileLock |-> SHARED, nShared |-> 1, nLock |-> @.nLock + 1]]
      /\ os' = SetLock(os, p, "shared", "read")
      /\ UNCHANGED <<open, unused, waitVars>>

LockReserved(f) ==
  LET p == ProcessOf[f]
  IN  /\ LegalRequest(f, RESERVED)
      /\ ~Precluded(f, RESERVED)
      /\ MayWrite(p, "reserved")
      /\ Raise(f, RESERVED)
      /\ inode' = [inode EXCEPT ![p].eFileLock = RESERVED]
      /\ os' = SetLock(os, p, "reserved", "write")
      /\ UNCHANGED <<open, unused, waitVars>>

\* The pending byte is taken, then the whole shared range if no other
\* connection reads; otherwise the connection is left at PENDING with BUSY.
LockExclusive(f) ==
  LET p == ProcessOf[f]
      alone == inode[p].nShared <= 1
      got == alone /\ MayWrite(p, "shared")
      level == IF got THEN EXCLUSIVE ELSE PENDING
      withPending == IF NeedsPendingByte(f, EXCLUSIVE)
                     THEN SetLock(os, p, "pending", "write") ELSE os
  IN  /\ LegalRequest(f, EXCLUSIVE)
      /\ ~Precluded(f, EXCLUSIVE)
      /\ MayHavePendingByte(f, EXCLUSIVE)
      /\ Raise(f, level)
      /\ inode' = [inode EXCEPT ![p].eFileLock = level]
      /\ os' = IF got THEN SetLock(withPending, p, "shared", "write") ELSE withPending
      /\ IF alone THEN UNCHANGED <<queue, asleep>>
                  ELSE WCDBOsWait(f, EXCLUSIVE, "WAIT_EXCLUSIVE")
      /\ UNCHANGED <<open, unused, bWait, timeouts>>

(***************************************************************************)
(* posixUnlock and unixClose                                               *)
(***************************************************************************)
\* The part under the mutex; to is NO_LOCK or SHARED.
Unlock(f, to) ==
  LET p == ProcessOf[f]
      last == to = NO_LOCK /\ inode[p].nShared = 1
      ino == [eFileLock |-> IF last THEN NO_LOCK
                            ELSE IF eFileLock[f] > SHARED THEN SHARED
                            ELSE inode[p].eFileLock,
              nShared |-> IF to = NO_LOCK THEN inode[p].nShared - 1 ELSE inode[p].nShared,
              nLock |-> IF to = NO_LOCK THEN inode[p].nLock - 1 ELSE inode[p].nLock]
      lowered == SetLock(SetLock(
                   IF to = SHARED THEN SetLock(os, p, "shared", "read") ELSE os,
                   p, "pending", "none"), p, "reserved", "none")
  IN  /\ Free(f)
      /\ to \in {NO_LOCK, SHARED}
      /\ to < eFileLock[f]
      /\ held' = [held EXCEPT ![f] = to]
      /\ inode' = [inode EXCEPT ![p] = ino]
      /\ os' = IF last THEN DropLocks(p)
               ELSE IF eFileLock[f] > SHARED THEN lowered ELSE os
      /\ unused' = IF ino.nLock = 0 THEN unused \ {p} ELSE unused
      /\ WCDBOsTrySignal(p, ino)
      /\ UNCHANGED <<open, eFileLock, bWait, timeouts>>

\* After unixLeaveMutex: pFile->eFileLock = eFileLock.
UnlockReturn(f) ==
  /\ held[f] # eFileLock[f]
  /\ eFileLock' = [eFileLock EXCEPT ![f] = held[f]]
  /\ UNCHANGED <<open, held, inode, unused, os, waitVars>>

Open(f) ==
  /\ f \notin open
  /\ open' = open \cup {f}
  /\ bWait' = [bWait EXCEPT ![f] = FALSE]
  /\ UNCHANGED <<held, eFileLock, inode, unused, os, queue, asleep, timeouts>>

\* unixClose after its unixUnlock(NO_LOCK): the descriptor is closed, or
\* deferred while other connections of the process hold locks.  The last
\* connection frees the inode record with its queue; otherwise the entries
\* of a freed unixFile stay where they are.
Close(f) ==
  LET p == ProcessOf[f]
      lastOfInode == {g \in open : ProcessOf[g] = p} = {f}
  IN  /\ Free(f)
      /\ eFileLock[f] = NO_LOCK
      /\ open' = open \ {f}
      /\ IF inode[p].nLock > 0
         THEN unused' = unused \cup {p} /\ UNCHANGED os
         ELSE unused' = unused /\ os' = DropLocks(p)
      /\ queue' = [queue EXCEPT ![p] =
                     IF lastOfInode THEN <<>>
                     ELSE [i \in DOMAIN @ |->
                             IF @[i].pFile = f THEN [@[i] EXCEPT !.pFile = Gone] ELSE @[i]]]
      /\ UNCHANGED <<held, eFileLock, inode, bWait, asleep, timeouts>>

\* WCDBFileSetWait, by the pager and the btree around their lock requests.
SetWait(f, b) ==
  /\ Free(f)
  /\ bWait' = [bWait EXCEPT ![f] = b]
  /\ UNCHANGED <<lockVars, queue, asleep, timeouts>>

Lock(f) ==
  \/ \E level \in {SHARED, RESERVED, EXCLUSIVE} : LockPrecluded(f, level)
  \/ LockSharedAgain(f)
  \/ LockSharedFirst(f)
  \/ LockReserved(f)
  \/ LockExclusive(f)

Next == \E f \in File :
          \/ Open(f) \/ Close(f)
          \/ \E b \in BOOLEAN : SetWait(f, b)
          \/ Lock(f) \/ Timeout(f)
          \/ \E to \in {NO_LOCK, SHARED} : Unlock(f, to)
          \/ UnlockReturn(f)

Spec == Init /\ [][Next]_vars

-----------------------------------------------------------------------------
Holders(p) == {f \in File : ProcessOf[f] = p /\ held[f] >= SHARED}

TypeOK ==
  /\ open \subseteq File
  /\ held \in [File -> Level]
  /\ eFileLock \in [File -> Level]
  /\ inode \in [Process -> [eFileLock : Level, nShared : Nat, nLock : Nat]]
  /\ unused \subseteq Process
  /\ os \in [Byte -> [Process -> ByteLock]]
  /\ bWait \in [File -> BOOLEAN]
  /\ queue \in [Process -> Seq(WaitInfo)]
  /\ asleep \subseteq open
  /\ timeouts \in 0..MaxTimeouts

\* The inode record agrees with what the connections of the process hold.
InodeCountsHolders ==
  \A p \in Process :
    /\ inode[p].nShared = Cardinality(Holders(p))
    /\ inode[p].nLock = inode[p].nShared
    /\ inode[p].eFileLock = NO_LOCK <=> Holders(p) = {}
OneWriterPerInode ==
  \A f \in File :
    held[f] > SHARED =>
      /\ held[f] = inode[ProcessOf[f]].eFileLock
      /\ \A g \in Holders(ProcessOf[f]) \ {f} : held[g] = SHARED
      /\ held[f] = EXCLUSIVE => Holders(ProcessOf[f]) = {f}
InodeLevelIsHeld ==
  \A p \in Process :
    inode[p].eFileLock # NO_LOCK => \E f \in Holders(p) : held[f] = inode[p].eFileLock

InodeAgrees == InodeCountsHolders /\ OneWriterPerInode /\ InodeLevelIsHeld

\* The system's byte locks back every level a connection believes it holds:
\* no close of another descriptor and no other connection's unlock may drop
\* them, and the processes never hold conflicting ones (unixClose, pUnused).
OsBacksLocks ==
  \A p \in Process :
    /\ inode[p].eFileLock = NO_LOCK => \A b \in Byte : os[b][p] = "none"
    /\ inode[p].eFileLock \in SHARED..PENDING => os["shared"][p] = "read"
    /\ inode[p].eFileLock = RESERVED => os["reserved"][p] = "write"
    /\ inode[p].eFileLock >= PENDING <=> os["pending"][p] = "write"
    /\ inode[p].eFileLock = EXCLUSIVE <=> os["shared"][p] = "write"
OsLocksCompatible ==
  \A b \in Byte : \A p, q \in Process :
    p # q /\ os[b][p] = "write" => os[b][q] = "none"

\* Every thread asleep for a lock is in the queue of its inode, so that an
\* unlock can find it (WCDBOsWait, WCDBOsSignal).
Queued(f) == \E i \in DOMAIN queue[ProcessOf[f]] : queue[ProcessOf[f]][i].thread = f
SleepersAreQueued == \A f \in asleep : Queued(f)

\* Until a wait has ended by its timeout, every entry of the queue is of a
\* thread that sleeps, once, on a connection that exists.
NoStaleEntryWithoutTimeout ==
  timeouts = 0 =>
    \A p \in Process : \A i \in DOMAIN queue[p] :
      /\ queue[p][i].thread \in asleep
      /\ queue[p][i].pFile = queue[p][i].thread
      /\ \A j \in DOMAIN queue[p] : queue[p][j].thread = queue[p][i].thread => i = j

\* Until then, too, no wake-up is lost: the request at the front of a queue
\* could not pass now, and no thread sleeps for the lock of a file its
\* process holds no lock of.
NoLostWakeup ==
  timeouts = 0 =>
    \A p \in Process : queue[p] # <<>> =>
      /\ Passes(Head(queue[p]), inode[p], eFileLock) = {FALSE}
      /\ Holders(p) # {}

\* Whoever sleeps for a lock can be woken, and is when the lock may be had
\* (WCDBOsWait, WCDBOsTrySignal).
WaitQueueIsSound == SleepersAreQueued /\ NoStaleEntryWithoutTimeout /\ NoLostWakeup

\* A connection that has PENDING keeps every new reader out that does not join
\* readers its own process already has.
PendingKeepsNewReadersOut ==
  [][\A f, g \in File :
       /\ held[f] = NO_LOCK /\ held'[f] = SHARED
       /\ held[g] >= PENDING
       => ProcessOf[f] # ProcessOf[g] /\ Holders(ProcessOf[f]) # {}]_held

\* What the comment at os_unix.c:1566 says of the pending byte: while it is held
\* no new SHARED lock can be obtained.  A process that has readers admits more
\* of them without looking at the byte.
PendingStopsReaders ==
  [][\A f, g \in File :
       held[f] = NO_LOCK /\ held'[f] = SHARED => held[g] < PENDING]_held

Abstract == INSTANCE DatabaseLock WITH mode <- held
ImplementsDatabaseLock == Abstract!Spec
=============================================================================
