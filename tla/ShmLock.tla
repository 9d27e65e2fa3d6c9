------------------------------ MODULE ShmLock ------------------------------
(***************************************************************************)
(* The locks of the shared memory (the WAL index) of a database: the unix  *)
(* layer's unixShm per connection, the unixShmNode all connections of a    *)
(* process share, the byte locks of the operating system on the -shm file  *)
(* with its deadman switch, and the wait queue WCDB keeps per node.        *)
(* unixShmLock runs under the mutex of the node and the creation of a node *)
(* under the mutex of the VFS, but the two fcntl calls that probe the      *)
(* deadman switch are two steps to every other process.                    *)
(***************************************************************************)
EXTENDS Naturals, Sequences

CONSTANTS Conn, Process, ProcessOf,
          NoConn,
          NSlot,           \* SQLITE_SHM_NLOCK
          Main,            \* connections used by the main thread
          MaxTimeouts      \* bound: waits that end without a signal

ASSUME ShmLockAssumption ==
  /\ ProcessOf \in [Conn -> Process]
  /\ NoConn \notin Conn
  /\ NSlot \in Nat
  /\ Main \subseteq Conn
  /\ MaxTimeouts \in Nat

VARIABLES
  node,        \* pShmNode of a process: none, probed, truncated, open, purging
  opener,      \* the connection inside unixOpenSharedMemory
  mapped,      \* connections that have a unixShm
  exclMask,    \* unixShm.exclMask
  sharedMask,  \* unixShm.sharedMask
  os,          \* the byte locks: slot -> process -> none, read or write
  dms,         \* the deadman switch: process -> none, read or write
  shm,         \* what the -shm file holds: zeroed, or used since
  bWait,       \* unixFile.bWait
  queue,       \* unixShmNode.qWaitQueue
  asleep,      \* threads in pthreadCondWait
  timeouts

maskVars == <<mapped, exclMask, sharedMask, os>>
nodeVars == <<node, opener, dms>>
waitVars == <<bWait, queue, asleep, timeouts>>
vars == <<node, opener, mapped, exclMask, sharedMask, os, dms, shm, bWait, queue,
          asleep, timeouts>>

Slot == 0..NSlot - 1
ByteLock == {"none", "read", "write"}
\* The contiguous ranges of locks one call may take.
Mask == {ofst..(ofst + n - 1) : ofst \in Slot, n \in 1..NSlot} \cap SUBSET Slot
WaitInfo == [conn : Conn, oMask : SUBSET Slot, eFlag : {"SHARED", "EXCLUSIVE"}]

Siblings_None(c) == {}  \* mutant: the other connections of the process are forgotten

Siblings(c) == {d \in Conn : ProcessOf[d] = ProcessOf[c]} \ {c}
ConnsOf(p) == {c \in Conn : ProcessOf[c] = p}

Init ==
  /\ node = [p \in Process |-> "none"]
  /\ opener = [p \in Process |-> NoConn]
  /\ mapped = {}
  /\ exclMask = [c \in Conn |-> {}]
  /\ sharedMask = [c \in Conn |-> {}]
  /\ os = [s \in Slot |-> [p \in Process |-> "none"]]
  /\ dms = [p \in Process |-> "none"]
  /\ shm = "used"
  /\ bWait = [c \in Conn |-> FALSE]
  /\ queue = [p \in Process |-> <<>>]
  /\ asleep = {}
  /\ timeouts = 0

(***************************************************************************)
(* unixShmSystemLock: fcntl(F_SETLK) on some of the bytes.                 *)
(***************************************************************************)
MayRead(p, s) == \A q \in Process \ {p} : os[s][q] # "write"
MayWrite(p, mask) == \A s \in mask : \A q \in Process \ {p} : os[s][q] = "none"
SetLocks(p, mask, type) ==
  [s \in Slot |-> IF s \in mask THEN [os[s] EXCEPT ![p] = type] ELSE os[s]]

(***************************************************************************)
(* The wait queue of a node.                                               *)
(***************************************************************************)
Blocked_Writers(p, mask, eFlag, excl, shared) ==  \* mutant: readers stop nobody
  \E c \in ConnsOf(p) \cap mapped : excl[c] \cap mask # {}

\* A connection of p, the asking one too, holds a lock that stops the request.
Blocked(p, mask, eFlag, excl, shared) ==
  \E c \in ConnsOf(p) \cap mapped :
     \/ excl[c] \cap mask # {}
     \/ eFlag = "EXCLUSIVE" /\ shared[c] \cap mask # {}

WCDBOsShmTrySignal_Never(p, excl, shared) ==  \* mutant: no call
  UNCHANGED <<queue, asleep>>

\* WCDBOsShmTrySignal pops and signals the front while it is not blocked.
WCDBOsShmTrySignal(p, excl, shared) ==
  LET blocked(i) == Blocked(p, queue[p][i].oMask, queue[p][i].eFlag, excl, shared)
  IN  \E n \in 0..Len(queue[p]) :
        /\ \A i \in 1..n : ~blocked(i)
        /\ n < Len(queue[p]) => blocked(n + 1)
        /\ queue' = [queue EXCEPT ![p] = SubSeq(@, n + 1, Len(@))]
        /\ asleep' = asleep \ {queue[p][i].conn : i \in 1..n}

Holds(c, mask) == (exclMask[c] \cup sharedMask[c]) \cap mask # {}

\* The front waits exclusively for what c holds, or c for what the front holds.
\* The entry of a wait that timed out may be of a connection that is unmapped
\* since, whose freed unixFile reads as anything.
WouldDeadlock(q, c, mask, eFlag) ==
  IF q = <<>> THEN {FALSE}
  ELSE IF Head(q).eFlag = "EXCLUSIVE" /\ Holds(c, Head(q).oMask) THEN {TRUE}
  ELSE IF eFlag = "EXCLUSIVE" /\ Head(q).conn \notin mapped THEN BOOLEAN
  ELSE {eFlag = "EXCLUSIVE" /\ Holds(Head(q).conn, mask)}

WCDBOsShmWait(c, mask, eFlag) ==
  LET p == ProcessOf[c]
      info == [conn |-> c, oMask |-> mask, eFlag |-> eFlag]
  IN  \/ ~bWait[c] /\ UNCHANGED <<queue, asleep>>
      \/ /\ bWait[c] /\ TRUE \in WouldDeadlock(queue[p], c, mask, eFlag)
         /\ queue' = [queue EXCEPT ![p] = Tail(@)]
         /\ asleep' = asleep \ {Head(queue[p]).conn}
      \/ /\ bWait[c] /\ FALSE \in WouldDeadlock(queue[p], c, mask, eFlag)
         /\ queue' = [queue EXCEPT ![p] =
                        IF c \in Main THEN <<info>> \o @ ELSE Append(@, info)]
         /\ asleep' = asleep \cup {c}

\* pthread_cond_timedwait_relative_np gives up: the entry stays queued.
Timeout(c) ==
  /\ c \in asleep
  /\ timeouts < MaxTimeouts
  /\ timeouts' = timeouts + 1
  /\ asleep' = asleep \ {c}
  /\ UNCHANGED <<maskVars, nodeVars, shm, bWait, queue>>

(***************************************************************************)
(* unixOpenSharedMemory and unixShmUnmap                                   *)
(***************************************************************************)
\* The first connection of a process probes the deadman switch; who gets it
\* for writing is alone and truncates the file.
ProbeDms(c) ==
  LET p == ProcessOf[c]
      alone == \A q \in Process \ {p} : dms[q] = "none"
  IN  /\ node[p] = "none"
      /\ node' = [node EXCEPT ![p] = IF alone THEN "truncated" ELSE "probed"]
      /\ opener' = [opener EXCEPT ![p] = c]
      /\ dms' = IF alone THEN [dms EXCEPT ![p] = "write"] ELSE dms
      /\ shm' = IF alone THEN "zeroed" ELSE shm
      /\ UNCHANGED <<maskVars, waitVars>>

TakeDms_Dropped(c) ==  \* mutant: the switch is given up once the node is made
  LET p == ProcessOf[c]
  IN  /\ node[p] \in {"probed", "truncated"}
      /\ opener[p] = c
      /\ opener' = [opener EXCEPT ![p] = NoConn]
      /\ node' = [node EXCEPT ![p] = "open"]
      /\ dms' = [dms EXCEPT ![p] = "none"]
      /\ mapped' = mapped \cup {c}
      /\ UNCHANGED <<exclMask, sharedMask, os, shm, waitVars>>

\* Then it takes the switch for reading, and fails while another process is
\* between the two calls: the node is purged again.
TakeDms(c) ==
  LET p == ProcessOf[c]
      granted == \A q \in Process \ {p} : dms[q] # "write"
  IN  /\ node[p] \in {"probed", "truncated"}
      /\ opener[p] = c
      /\ opener' = [opener EXCEPT ![p] = NoConn]
      /\ node' = [node EXCEPT ![p] = IF granted THEN "open" ELSE "none"]
      /\ dms' = [dms EXCEPT ![p] = IF granted THEN "read" ELSE "none"]
      /\ mapped' = IF granted THEN mapped \cup {c} ELSE mapped
      /\ UNCHANGED <<exclMask, sharedMask, os, shm, waitVars>>

MapAgain(c) ==
  /\ node[ProcessOf[c]] = "open"
  /\ c \notin mapped
  /\ mapped' = mapped \cup {c}
  /\ UNCHANGED <<nodeVars, exclMask, sharedMask, os, shm, waitVars>>

\* The thread of c is not inside a call on the node.
Free(c) == c \in mapped /\ c \notin asleep

\* wal.c has released every lock by then.  The last connection purges the
\* node, whose close drops every lock of the process on the file; the loop of
\* unixShmPurge over the wait queue takes nothing out of it, so it never ends
\* unless the queue is empty.
Unmap(c) ==
  LET p == ProcessOf[c]
      last == mapped \cap ConnsOf(p) = {c}
      purged == last /\ queue[p] = <<>>
  IN  /\ Free(c)
      /\ exclMask[c] = {} /\ sharedMask[c] = {}
      /\ mapped' = mapped \ {c}
      /\ node' = [node EXCEPT ![p] = IF ~last THEN @
                                     ELSE IF purged THEN "none" ELSE "purging"]
      /\ dms' = IF purged THEN [dms EXCEPT ![p] = "none"] ELSE dms
      /\ os' = IF purged THEN SetLocks(p, Slot, "none") ELSE os
      /\ UNCHANGED <<opener, exclMask, sharedMask, shm, waitVars>>

\* A process ends at any moment; the system drops its locks.
Crash(p) ==
  /\ node[p] # "none"
  /\ node' = [node EXCEPT ![p] = "none"]
  /\ opener' = [opener EXCEPT ![p] = NoConn]
  /\ dms' = [dms EXCEPT ![p] = "none"]
  /\ mapped' = mapped \ ConnsOf(p)
  /\ exclMask' = [c \in Conn |-> IF c \in ConnsOf(p) THEN {} ELSE exclMask[c]]
  /\ sharedMask' = [c \in Conn |-> IF c \in ConnsOf(p) THEN {} ELSE sharedMask[c]]
  /\ os' = SetLocks(p, Slot, "none")
  /\ bWait' = [c \in Conn |-> IF c \in ConnsOf(p) THEN FALSE ELSE bWait[c]]
  /\ queue' = [queue EXCEPT ![p] = <<>>]
  /\ asleep' = asleep \ ConnsOf(p)
  /\ UNCHANGED <<shm, timeouts>>

(***************************************************************************)
(* unixShmLock.  A connection does not ask for a lock it has.              *)
(***************************************************************************)
LegalRequest(c, mask) == Free(c) /\ ~Holds(c, mask)

LockShared(c, s) ==
  LET p == ProcessOf[c]
      allShared == UNION {sharedMask[d] : d \in Siblings(c) \cap mapped}
  IN  /\ LegalRequest(c, {s})
      /\ ~Blocked(p, {s}, "SHARED", exclMask, sharedMask)
      /\ s \in allShared \/ MayRead(p, s)
      /\ os' = IF s \in allShared THEN os ELSE SetLocks(p, {s}, "read")
      /\ sharedMask' = [sharedMask EXCEPT ![c] = @ \cup {s}]
      /\ UNCHANGED <<mapped, exclMask, nodeVars, shm, waitVars>>

\* Who writes the WAL index holds one of its locks exclusively.
LockExclusive(c, mask) ==
  LET p == ProcessOf[c]
  IN  /\ LegalRequest(c, mask)
      /\ ~Blocked(p, mask, "EXCLUSIVE", exclMask, sharedMask)
      /\ MayWrite(p, mask)
      /\ os' = SetLocks(p, mask, "write")
      /\ exclMask' = [exclMask EXCEPT ![c] = @ \cup mask]
      /\ shm' = "used"
      /\ UNCHANGED <<mapped, sharedMask, nodeVars, waitVars>>

LockBusy(c, mask, eFlag) ==
  /\ LegalRequest(c, mask)
  /\ eFlag = "SHARED" => \E s \in Slot : mask = {s}
  /\ Blocked(ProcessOf[c], mask, eFlag, exclMask, sharedMask)
  /\ WCDBOsShmWait(c, mask, eFlag)
  /\ UNCHANGED <<maskVars, nodeVars, shm, bWait, timeouts>>

\* The system's locks go too, unless a sibling shares one of them.
Unlock(c, mask) ==
  LET p == ProcessOf[c]
      allMask == UNION {sharedMask[d] : d \in Siblings(c) \cap mapped}
  IN  /\ Free(c)
      /\ mask \subseteq exclMask[c] \/ \E s \in sharedMask[c] : mask = {s}
      /\ os' = IF mask \cap allMask = {} THEN SetLocks(p, mask, "none") ELSE os
      /\ exclMask' = [exclMask EXCEPT ![c] = @ \ mask]
      /\ sharedMask' = [sharedMask EXCEPT ![c] = @ \ mask]
      /\ WCDBOsShmTrySignal(p, exclMask', sharedMask')
      /\ UNCHANGED <<mapped, nodeVars, shm, bWait, timeouts>>

\* WCDBFileSetWait
SetWait(c, b) ==
  /\ Free(c)
  /\ bWait[c] # b
  /\ bWait' = [bWait EXCEPT ![c] = b]
  /\ UNCHANGED <<maskVars, nodeVars, shm, queue, asleep, timeouts>>

Next ==
  \/ \E c \in Conn :
       \/ ProbeDms(c) \/ TakeDms(c) \/ MapAgain(c) \/ Unmap(c) \/ Timeout(c)
       \/ \E b \in BOOLEAN : SetWait(c, b)
       \/ \E s \in Slot : LockShared(c, s)
       \/ \E mask \in Mask : LockExclusive(c, mask) \/ Unlock(c, mask)
       \/ \E mask \in Mask, eFlag \in {"SHARED", "EXCLUSIVE"} : LockBusy(c, mask, eFlag)
  \/ \E p \in Process : Crash(p)

Spec == Init /\ [][Next]_vars

-----------------------------------------------------------------------------
TypeOK ==
  /\ node \in [Process -> {"none", "probed", "truncated", "open", "purging"}]
  /\ opener \in [Process -> Conn \cup {NoConn}]
  /\ mapped \subseteq Conn
  /\ exclMask \in [Conn -> SUBSET Slot]
  /\ sharedMask \in [Conn -> SUBSET Slot]
  /\ os \in [Slot -> [Process -> ByteLock]]
  /\ dms \in [Process -> ByteLock]
  /\ shm \in {"zeroed", "used"}
  /\ bWait \in [Conn -> BOOLEAN]
  /\ queue \in [Process -> Seq(WaitInfo)]
  /\ asleep \subseteq mapped
  /\ timeouts \in 0..MaxTimeouts

\* A lock held exclusively is held by no other connection of any process: what
\* every use of the WAL index relies on.  The masks of one process and the
\* byte locks of the system only give it together.
ShmExclusion ==
  \A c, d \in Conn :
    c # d => exclMask[c] \cap (exclMask[d] \cup sharedMask[d]) = {}

\* The byte locks of a process are exactly the masks of its connections: an
\* unlock that leaves a sibling's shared lock must keep the byte, any other
\* must give it up.
OsMatchesMasks ==
  \A p \in Process, s \in Slot :
    /\ os[s][p] = "write" <=> \E c \in ConnsOf(p) : s \in exclMask[c]
    /\ os[s][p] = "read" <=> \E c \in ConnsOf(p) : s \in sharedMask[c]

\* Threads wait in a process only while a connection of it holds a lock whose
\* release will look at the queue, even after waits that timed out.
WaitersHaveHolder ==
  \A p \in Process :
    queue[p] # <<>> => \E c \in ConnsOf(p) \cap mapped : Holds(c, Slot)

\* So the last unmap finds the queue empty and unixShmPurge comes to an end.
PurgeEnds == \A p \in Process : node[p] # "purging"

\* Until a wait has timed out, every entry of the queue is of a thread that
\* sleeps, once, on a connection that is still mapped.
NoStaleShmEntry ==
  timeouts = 0 =>
    \A p \in Process : \A i \in DOMAIN queue[p] :
      /\ queue[p][i].conn \in asleep
      /\ \A j \in DOMAIN queue[p] : queue[p][j].conn = queue[p][i].conn => i = j

\* The file is never truncated while another process has it mapped.
TruncatedOnlyAlone ==
  [][\A p \in Process :
       node[p] = "none" /\ node'[p] = "truncated" =>
         \A q \in Process \ {p} : node[q] \in {"none", "probed"}]_vars

\* What the comment at os_unix.c:4292 says: the node that opens the file while
\* no other process has it open finds it truncated.  The other process may
\* close it between the two calls that probe the deadman switch.
FirstNodeTruncates ==
  [][\A p \in Process :
       /\ node[p] # "open" /\ node'[p] = "open"
       /\ \A q \in Process \ {p} : node[q] = "none"
       => shm = "zeroed"]_vars
=============================================================================
