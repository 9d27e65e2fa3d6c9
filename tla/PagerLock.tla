------------------------------ MODULE PagerLock ------------------------------
(***************************************************************************)
(* How the pager and the btree of a connection ask for the locks of        *)
(* FileLock in rollback-journal mode: a transaction begins in a loop that   *)
(* the busy handler repeats, a reader may ask to become the writer, and a   *)
(* commit waits for its readers to go.  bWait is set before such a request  *)
(* and cleared after it.  WCDB's sqlite3InvokeBusyHandler always answers    *)
(* "try again".                                                            *)
(***************************************************************************)
EXTENDS FileLock

VARIABLE pc
pvars == <<vars, pc>>

PC == {"idle", "sharing", "shared", "reserving", "backingOff", "reading",
       "upgrading", "refused", "writing", "committing", "exclusive", "ending"}
\* sharing goes on to a read or a write transaction.
Want == {"read", "write"}

PInit == /\ open = File
         /\ held = [f \in File |-> NO_LOCK]
         /\ eFileLock = [f \in File |-> NO_LOCK]
         /\ inode = [p \in Process |-> FreshInode]
         /\ unused = {}
         /\ os = [b \in Byte |-> [p \in Process |-> "none"]]
         /\ bWait = [f \in File |-> FALSE]
         /\ queue = [p \in Process |-> <<>>]
         /\ asleep = {}
         /\ timeouts = 0
         /\ pc = [f \in File |-> [at |-> "idle", wrflag |-> FALSE]]

At(f, where) == pc[f].at = where
Goto(f, where) == pc' = [pc EXCEPT ![f].at = where]

\* sqlite3BtreeBeginTrans from TRANS_NONE: bWait is set, and pager_wait_on_lock,
\* which takes SHARED, sets it again.
Begin(f, wrflag) ==
  /\ At(f, "idle")
  /\ SetWait(f, TRUE)
  /\ pc' = [pc EXCEPT ![f] = [at |-> "sharing", wrflag |-> wrflag]]

\* One turn of the loop of pager_wait_on_lock(SHARED_LOCK); BUSY turns again.
TryShared(f) ==
  /\ At(f, "sharing")
  /\ bWait[f]
  /\ \/ (LockSharedAgain(f) \/ LockSharedFirst(f)) /\ Goto(f, "shared")
     \/ LockPrecluded(f, SHARED) /\ UNCHANGED pc

\* pager_wait_on_lock clears bWait, which sqlite3BtreeBeginTrans had set for
\* the RESERVED lock too.
Shared(f) ==
  /\ At(f, "shared")
  /\ SetWait(f, FALSE)
  /\ Goto(f, IF pc[f].wrflag THEN "reserving" ELSE "reading")

\* sqlite3PagerBegin; when refused, unlockBtreeIfUnused gives SHARED back and
\* the busy handler starts the loop over.
TryReserved(f) ==
  /\ At(f, "reserving")
  /\ \/ LockReserved(f) /\ Goto(f, "writing")
     \/ LockPrecluded(f, RESERVED) /\ Goto(f, "backingOff")
BackOff(f) ==
  /\ At(f, "backingOff")
  /\ Unlock(f, NO_LOCK)
  /\ Goto(f, "sharing")
BeginAgain(f) ==
  /\ At(f, "sharing")
  /\ ~bWait[f]
  /\ SetWait(f, TRUE)
  /\ UNCHANGED pc

\* A read transaction becomes a write transaction: one request, no retry.
Upgrade(f) == At(f, "reading") /\ SetWait(f, TRUE) /\ Goto(f, "upgrading")
TryUpgrade(f) ==
  /\ At(f, "upgrading")
  /\ \/ LockReserved(f) /\ Goto(f, "writing")
     \/ LockPrecluded(f, RESERVED) /\ Goto(f, "refused")
Refused(f) == At(f, "refused") /\ SetWait(f, FALSE) /\ Goto(f, "reading")

\* sqlite3PagerExclusiveLock: pager_wait_on_lock(EXCLUSIVE_LOCK).
Commit(f) == At(f, "writing") /\ SetWait(f, TRUE) /\ Goto(f, "committing")
TryExclusive(f) ==
  /\ At(f, "committing")
  /\ eFileLock[f] < EXCLUSIVE
  /\ \/ LockExclusive(f) \/ LockPrecluded(f, EXCLUSIVE)
  /\ UNCHANGED pc
Committed(f) ==
  /\ At(f, "committing")
  /\ eFileLock[f] = EXCLUSIVE
  /\ SetWait(f, FALSE)
  /\ Goto(f, "exclusive")

\* pager_end_transaction after a commit or a rollback keeps SHARED until the
\* transaction ends; the end of a read transaction gives that back.
EndWrite(f) ==
  /\ At(f, "exclusive") \/ At(f, "writing")
  /\ Unlock(f, SHARED)
  /\ Goto(f, "ending")
EndRead(f) ==
  /\ At(f, "reading") \/ At(f, "ending")
  /\ Unlock(f, NO_LOCK)
  /\ Goto(f, "idle")

\* The thread of f runs on: a step it takes as soon as it may.
Run(f) == \/ TryShared(f) \/ Shared(f)
          \/ TryReserved(f) \/ BackOff(f) \/ BeginAgain(f)
          \/ TryUpgrade(f) \/ Refused(f)
          \/ TryExclusive(f) \/ Committed(f)
          \/ UnlockReturn(f) /\ UNCHANGED pc

PNext == \E f \in File :
           \/ \E wrflag \in BOOLEAN : Begin(f, wrflag)
           \/ Upgrade(f) \/ Commit(f) \/ EndWrite(f) \/ EndRead(f)
           \/ Run(f)
           \/ Timeout(f) /\ UNCHANGED pc

PSpec == PInit /\ [][PNext]_pvars

(***************************************************************************)
(* A thread inside a call runs on.  The application ends what it began: a   *)
(* writer commits or rolls back, and a reader, refused as writer or not,    *)
(* gives its transaction up some time.                                     *)
(***************************************************************************)
Fairness ==
  \A f \in File : /\ WF_pvars(Run(f))
                  /\ WF_pvars(Commit(f) \/ EndWrite(f))
                  /\ SF_pvars(EndRead(f))
PFairSpec == PSpec /\ Fairness

-----------------------------------------------------------------------------
PTypeOK == TypeOK /\ pc \in [File -> [at : PC, wrflag : BOOLEAN]]

\* A commit that waits for its readers gets its EXCLUSIVE lock when they end:
\* no wake-up is lost on the way, and new readers cannot hold it up for ever.
\* A wait that times out leaves its entry in the queue, so it is promised only to
\* who sees none.
CommitGetsExclusive ==
  \A f \in File :
    At(f, "committing") /\ timeouts = 0 ~> At(f, "exclusive") \/ timeouts > 0

\* A thread asleep for a lock is woken by an unlock, without its timeout.
SleeperIsWoken ==
  \A f \in File : f \in asleep /\ timeouts = 0 ~> f \notin asleep \/ timeouts > 0

\* A writer committing and a reader of the same process that asks to write
\* never sleep for each other (WouldDeadlock).
NoCircularWait ==
  ~ \E f, g \in asleep :
      ProcessOf[f] = ProcessOf[g] /\ At(f, "committing") /\ At(g, "refused")

\* Without a busy callback a refused transaction is answered SQLITE_BUSY.
NullCallbackReturnsBusy ==
  [][\A f \in File : At(f, "backingOff") /\ ~At(f, "backingOff")'
                      => At(f, "idle")']_pvars
=============================================================================
