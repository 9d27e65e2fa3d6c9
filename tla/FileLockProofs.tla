--------------------------- MODULE FileLockProofs ---------------------------
(***************************************************************************)
(* The lock protocol of FileLock.tla for any set of connections and         *)
(* processes: its inductive invariant, that it implements DatabaseLock.tla, *)
(* and that its wait queue wakes whoever can be served.                     *)
(***************************************************************************)
EXTENDS FileLock, FiniteSetTheorems, TLAPS

LockTypeOK ==
  /\ held \in [File -> Level]
  /\ eFileLock \in [File -> Level]
  /\ inode \in [Process -> [eFileLock : Level, nShared : Nat, nLock : Nat]]
  /\ os \in [Byte -> [Process -> ByteLock]]

LockInv == LockTypeOK /\ InodeAgrees /\ OsBacksLocks /\ OsLocksCompatible

USE DEF NO_LOCK, SHARED, RESERVED, PENDING, EXCLUSIVE, Level, Byte, ByteLock

LEMMA HoldersFinite ==
  ASSUME NEW p \in Process
  PROVE  IsFiniteSet(Holders(p)) /\ Cardinality(Holders(p)) \in Nat
<1>1. Holders(p) \subseteq File
  BY DEF Holders
<1> QED BY <1>1, FileLockAssumption, FS_Subset, FS_CardinalityType

LEMMA OneHolder ==
  ASSUME NEW p \in Process, NEW f \in Holders(p), Cardinality(Holders(p)) <= 1
  PROVE  Holders(p) = {f}
<1>1. IsFiniteSet(Holders(p)) /\ Cardinality(Holders(p)) \in Nat
  BY HoldersFinite
<1>2. Cardinality(Holders(p) \ {f}) = Cardinality(Holders(p)) - 1
  BY <1>1, FS_RemoveElement
<1>3. IsFiniteSet(Holders(p) \ {f}) /\ Cardinality(Holders(p) \ {f}) \in Nat
  BY <1>1, FS_RemoveElement, FS_CardinalityType
<1>4. Holders(p) \ {f} = {}
  BY <1>1, <1>2, <1>3, FS_EmptySet
<1> QED BY <1>4

LEMMA InitLockInv == Init => LockInv
<1> SUFFICES ASSUME Init PROVE LockInv
  OBVIOUS
<1>1. LockTypeOK
  BY DEF Init, LockTypeOK, FreshInode
<1>2. \A p \in Process : Holders(p) = {}
  BY DEF Init, Holders
<1>3. Cardinality({}) = 0
  BY FS_EmptySet
<1>4. InodeAgrees
  <2>1. InodeCountsHolders
    BY <1>2, <1>3 DEF Init, InodeCountsHolders, FreshInode
  <2>2. OneWriterPerInode
    BY DEF Init, OneWriterPerInode
  <2>3. InodeLevelIsHeld
    BY DEF Init, InodeLevelIsHeld, FreshInode
  <2> QED BY <2>1, <2>2, <2>3 DEF InodeAgrees
<1>5. OsBacksLocks /\ OsLocksCompatible
  BY DEF Init, OsBacksLocks, OsLocksCompatible, FreshInode
<1> QED BY <1>1, <1>4, <1>5 DEF LockInv

-----------------------------------------------------------------------------
(***************************************************************************)
(* What a step does to the sets of holders.                                *)
(***************************************************************************)
LEMMA HoldersRaise ==
  ASSUME LockTypeOK, NEW f \in File, NEW level \in SHARED..EXCLUSIVE,
         held' = [held EXCEPT ![f] = level]
  PROVE  /\ Holders(ProcessOf[f])' = Holders(ProcessOf[f]) \cup {f}
         /\ \A q \in Process \ {ProcessOf[f]} : Holders(q)' = Holders(q)
         /\ \A g \in File \ {f} : held'[g] = held[g]
         /\ held'[f] = level
BY DEF LockTypeOK, Holders

LEMMA HoldersRelease ==
  ASSUME LockTypeOK, NEW f \in File, held' = [held EXCEPT ![f] = NO_LOCK]
  PROVE  /\ Holders(ProcessOf[f])' = Holders(ProcessOf[f]) \ {f}
         /\ \A q \in Process \ {ProcessOf[f]} : Holders(q)' = Holders(q)
         /\ \A g \in File \ {f} : held'[g] = held[g]
         /\ held'[f] = NO_LOCK
BY DEF LockTypeOK, Holders

LEMMA CountRaise ==
  ASSUME NEW p \in Process, NEW f \in File
  PROVE  Cardinality(Holders(p) \cup {f}) =
           IF f \in Holders(p) THEN Cardinality(Holders(p)) ELSE Cardinality(Holders(p)) + 1
<1>1. CASE f \in Holders(p)
  <2>1. Holders(p) \cup {f} = Holders(p)
    BY <1>1
  <2> QED BY <1>1, <2>1
<1>2. CASE f \notin Holders(p)
  BY <1>2, HoldersFinite, FS_AddElement
<1> QED BY <1>1, <1>2

\* A step that touches one process only has to be looked at there.
LEMMA OneWriterElsewhere ==
  ASSUME OneWriterPerInode, NEW p \in Process,
         \A q \in Process \ {p} : Holders(q)' = Holders(q) /\ inode'[q] = inode[q],
         \A g \in File : ProcessOf[g] # p => held'[g] = held[g],
         \A g \in File : ProcessOf[g] = p /\ held'[g] > SHARED =>
           /\ held'[g] = inode'[p].eFileLock
           /\ \A k \in Holders(p)' \ {g} : held'[k] = SHARED
           /\ held'[g] = EXCLUSIVE => Holders(p)' = {g}
  PROVE  OneWriterPerInode'
<1> SUFFICES ASSUME NEW g \in File, held'[g] > SHARED
             PROVE  /\ held'[g] = inode'[ProcessOf[g]].eFileLock
                    /\ \A k \in Holders(ProcessOf[g])' \ {g} : held'[k] = SHARED
                    /\ held'[g] = EXCLUSIVE => Holders(ProcessOf[g])' = {g}
  BY DEF OneWriterPerInode
<1>1. CASE ProcessOf[g] = p
  BY <1>1
<1>2. CASE ProcessOf[g] # p
  <2> DEFINE q == ProcessOf[g]
  <2>1. q \in Process \ {p} /\ held'[g] = held[g]
    BY <1>2, FileLockAssumption
  <2>2. Holders(q)' = Holders(q) /\ inode'[q] = inode[q]
    BY <2>1
  <2>3. \A k \in Holders(q) : held'[k] = held[k]
    BY <1>2 DEF Holders
  <2>4. /\ held[g] = inode[q].eFileLock
        /\ \A k \in Holders(q) \ {g} : held[k] = SHARED
        /\ held[g] = EXCLUSIVE => Holders(q) = {g}
    BY <2>1 DEF OneWriterPerInode
  <2> QED BY <2>1, <2>2, <2>3, <2>4
<1> QED BY <1>1, <1>2

LEMMA CountsElsewhere ==
  ASSUME InodeCountsHolders, NEW p \in Process,
         \A q \in Process \ {p} : Holders(q)' = Holders(q) /\ inode'[q] = inode[q],
         inode'[p].nShared = Cardinality(Holders(p)'), inode'[p].nLock = inode'[p].nShared,
         inode'[p].eFileLock = NO_LOCK <=> Holders(p)' = {}
  PROVE  InodeCountsHolders'
<1> SUFFICES ASSUME NEW q \in Process \ {p}
             PROVE  /\ inode'[q].nShared = Cardinality(Holders(q)')
                    /\ inode'[q].nLock = inode'[q].nShared
                    /\ inode'[q].eFileLock = NO_LOCK <=> Holders(q)' = {}
  BY DEF InodeCountsHolders
<1>1. Holders(q)' = Holders(q) /\ inode'[q] = inode[q]
  OBVIOUS
<1> QED BY <1>1 DEF InodeCountsHolders

LEMMA LevelElsewhere ==
  ASSUME InodeLevelIsHeld, NEW p \in Process,
         \A q \in Process \ {p} : Holders(q)' = Holders(q) /\ inode'[q] = inode[q],
         \A g \in File : ProcessOf[g] # p => held'[g] = held[g],
         inode'[p].eFileLock # NO_LOCK =>
           \E g \in Holders(p)' : held'[g] = inode'[p].eFileLock
  PROVE  InodeLevelIsHeld'
<1> SUFFICES ASSUME NEW q \in Process \ {p}, inode'[q].eFileLock # NO_LOCK
             PROVE  \E g \in Holders(q)' : held'[g] = inode'[q].eFileLock
  BY DEF InodeLevelIsHeld
<1>1. Holders(q)' = Holders(q) /\ inode'[q] = inode[q]
  OBVIOUS
<1>2. PICK g \in Holders(q) : held[g] = inode[q].eFileLock
  BY <1>1 DEF InodeLevelIsHeld
<1>3. held'[g] = held[g]
  BY DEF Holders
<1> QED BY <1>1, <1>2, <1>3

-----------------------------------------------------------------------------
(***************************************************************************)
(* Each step of the protocol keeps the invariant.                          *)
(***************************************************************************)
LEMMA WaitStep ==
  ASSUME LockInv, UNCHANGED <<held, inode, os>>, eFileLock' \in [File -> Level]
  PROVE  LockInv'
<1>1. \A p : Holders(p)' = Holders(p)
  BY DEF Holders
<1>2. LockTypeOK'
  BY DEF LockInv, LockTypeOK
<1>3. InodeCountsHolders'
  BY <1>1 DEF LockInv, InodeAgrees, InodeCountsHolders
<1>4. OneWriterPerInode'
  BY <1>1 DEF LockInv, InodeAgrees, OneWriterPerInode
<1>5. InodeLevelIsHeld'
  BY <1>1 DEF LockInv, InodeAgrees, InodeLevelIsHeld
<1>6. OsBacksLocks' /\ OsLocksCompatible'
  BY DEF LockInv, OsBacksLocks, OsLocksCompatible
<1> QED BY <1>2, <1>3, <1>4, <1>5, <1>6 DEF LockInv, InodeAgrees

LEMMA SharedAgainStep ==
  ASSUME LockInv, NEW f \in File, LockSharedAgain(f)
  PROVE  LockInv'
<1> DEFINE p == ProcessOf[f]
<1>0. p \in Process /\ LockTypeOK /\ InodeAgrees
  BY FileLockAssumption DEF LockInv
<1>1. /\ eFileLock[f] = NO_LOCK /\ held[f] = NO_LOCK
      /\ inode[p].eFileLock \in {SHARED, RESERVED}
      /\ held' = [held EXCEPT ![f] = SHARED]
      /\ eFileLock' = [eFileLock EXCEPT ![f] = SHARED]
      /\ inode' = [inode EXCEPT ![p].nShared = @ + 1, ![p].nLock = @ + 1]
      /\ os' = os
  BY <1>0 DEF LockSharedAgain, LegalRequest, Free, Raise, LockTypeOK
<1>2. /\ Holders(p)' = Holders(p) \cup {f} /\ f \notin Holders(p)
      /\ \A q \in Process \ {p} : Holders(q)' = Holders(q)
      /\ \A g \in File \ {f} : held'[g] = held[g]
      /\ held'[f] = SHARED
  <2>1. f \notin Holders(p) /\ SHARED \in SHARED..EXCLUSIVE
    BY <1>1 DEF Holders
  <2> QED BY <1>0, <1>1, <2>1, HoldersRaise
<1>3. Cardinality(Holders(p) \cup {f}) = Cardinality(Holders(p)) + 1
  BY <1>0, <1>2, CountRaise
<1>4. /\ inode'[p].eFileLock = inode[p].eFileLock
      /\ inode'[p].nShared = inode[p].nShared + 1 /\ inode'[p].nLock = inode[p].nLock + 1
      /\ \A q \in Process \ {p} : inode'[q] = inode[q]
  BY <1>0, <1>1 DEF LockTypeOK
<1>5. LockTypeOK'
  BY <1>0, <1>1 DEF LockTypeOK
<1>6. InodeCountsHolders'
  <2>1. /\ inode[p].nShared = Cardinality(Holders(p)) /\ inode[p].nLock = inode[p].nShared
        /\ inode'[p].eFileLock # NO_LOCK
    BY <1>0, <1>1, <1>4 DEF InodeAgrees, InodeCountsHolders
  <2>2. Holders(p)' # {} /\ Cardinality(Holders(p)') = inode'[p].nShared
    BY <1>2, <1>3, <1>4, <2>1
  <2>3. inode'[p].nLock = inode'[p].nShared
    BY <1>4, <2>1
  <2> HIDE DEF p
  <2> QED BY <1>0, <1>2, <1>4, <2>1, <2>2, <2>3, CountsElsewhere DEF InodeAgrees
<1>7. OneWriterPerInode'
  <2>1. ASSUME NEW g \in File, ProcessOf[g] = p, held'[g] > SHARED
        PROVE  /\ held'[g] = inode'[p].eFileLock
               /\ \A k \in Holders(p)' \ {g} : held'[k] = SHARED
               /\ held'[g] # EXCLUSIVE
    <3>1. g # f /\ held'[g] = held[g]
      BY <1>2, <2>1
    <3>2. /\ held[g] = inode[p].eFileLock
          /\ \A k \in Holders(p) \ {g} : held[k] = SHARED
      BY <1>0, <2>1, <3>1 DEF InodeAgrees, OneWriterPerInode
    <3>3. Holders(p) \subseteq File
      BY DEF Holders
    <3> QED BY <1>1, <1>2, <1>4, <3>1, <3>2, <3>3
  <2>2. \A g \in File : ProcessOf[g] # p => held'[g] = held[g]
    BY <1>2
  <2> HIDE DEF p
  <2> QED BY <1>0, <1>2, <1>4, <2>1, <2>2, OneWriterElsewhere DEF InodeAgrees
<1>8. InodeLevelIsHeld'
  <2>1. PICK g \in Holders(p) : held[g] = inode[p].eFileLock
    BY <1>0, <1>1 DEF InodeAgrees, InodeLevelIsHeld
  <2>2. g \in Holders(p)' /\ held'[g] = inode'[p].eFileLock
    BY <1>2, <1>4, <2>1 DEF Holders
  <2>3. \A k \in File : ProcessOf[k] # p => held'[k] = held[k]
    BY <1>2
  <2> HIDE DEF p
  <2> QED BY <1>0, <1>2, <1>4, <2>2, <2>3, LevelElsewhere DEF InodeAgrees
<1>9. OsBacksLocks'
  <2>1. os' = os /\ \A q \in Process : inode'[q].eFileLock = inode[q].eFileLock
    BY <1>1, <1>4
  <2> QED BY <2>1 DEF LockInv, OsBacksLocks
<1>10. OsLocksCompatible'
  BY <1>1 DEF LockInv, OsLocksCompatible
<1> QED BY <1>5, <1>6, <1>7, <1>8, <1>9, <1>10 DEF LockInv, InodeAgrees

LEMMA SharedFirstStep ==
  ASSUME LockInv, NEW f \in File, LockSharedFirst(f)
  PROVE  LockInv'
<1> DEFINE p == ProcessOf[f]
<1>0. p \in Process /\ LockTypeOK /\ InodeAgrees
  BY FileLockAssumption DEF LockInv
<1>1. /\ eFileLock[f] = NO_LOCK /\ held[f] = NO_LOCK
      /\ inode[p].eFileLock = NO_LOCK
      /\ held' = [held EXCEPT ![f] = SHARED]
      /\ eFileLock' = [eFileLock EXCEPT ![f] = SHARED]
      /\ inode' = [inode EXCEPT ![p] =
                     [eFileLock |-> SHARED, nShared |-> 1, nLock |-> @.nLock + 1]]
      /\ os' = [os EXCEPT !["shared"][p] = "read"]
      /\ \A q \in Process \ {p} : os["shared"][q] # "write"
  BY <1>0 DEF LockSharedFirst, LegalRequest, Free, Raise, LockTypeOK, Precluded,
              MayRead, SetLock
<1>2. /\ Holders(p)' = Holders(p) \cup {f} /\ f \notin Holders(p)
      /\ \A q \in Process \ {p} : Holders(q)' = Holders(q)
      /\ \A g \in File \ {f} : held'[g] = held[g]
      /\ held'[f] = SHARED
  <2>1. f \notin Holders(p) /\ SHARED \in SHARED..EXCLUSIVE
    BY <1>1 DEF Holders
  <2> QED BY <1>0, <1>1, <2>1, HoldersRaise
<1>3. /\ Holders(p) = {} /\ Cardinality(Holders(p)) = 0
      /\ inode[p].nShared = 0 /\ inode[p].nLock = 0
  BY <1>0, <1>1, FS_EmptySet DEF InodeAgrees, InodeCountsHolders
<1>4. Cardinality(Holders(p)') = 1
  BY <1>0, <1>2, <1>3, CountRaise
<1>5. /\ inode'[p].eFileLock = SHARED /\ inode'[p].nShared = 1 /\ inode'[p].nLock = 1
      /\ \A q \in Process \ {p} : inode'[q] = inode[q]
  BY <1>0, <1>1, <1>3 DEF LockTypeOK
<1>6. LockTypeOK'
  BY <1>0, <1>1 DEF LockTypeOK
<1>a. Holders(p)' = {f} /\ \A g \in File : ProcessOf[g] # p => held'[g] = held[g]
  BY <1>2, <1>3
<1>7. InodeCountsHolders'
  <2>9. /\ inode'[p].nShared = Cardinality(Holders(p)') /\ inode'[p].nLock = inode'[p].nShared
        /\ inode'[p].eFileLock = NO_LOCK <=> Holders(p)' = {}
    BY <1>4, <1>5, <1>a
  <2> HIDE DEF p
  <2> QED BY <1>0, <1>2, <1>5, <2>9, CountsElsewhere DEF InodeAgrees
<1>8. OneWriterPerInode'
  <2>1. \A g \in File : ProcessOf[g] = p => ~(held'[g] > SHARED)
    BY <1>0, <1>2, <1>3 DEF Holders, LockTypeOK
  <2> HIDE DEF p
  <2> QED BY <1>0, <1>2, <1>5, <1>a, <2>1, OneWriterElsewhere DEF InodeAgrees
<1>9. InodeLevelIsHeld'
  <2>1. f \in Holders(p)' /\ held'[f] = inode'[p].eFileLock
    BY <1>2, <1>5
  <2> HIDE DEF p
  <2> QED BY <1>0, <1>2, <1>5, <1>a, <2>1, LevelElsewhere DEF InodeAgrees
<1>10. /\ os'["shared"][p] = "read"
       /\ \A b \in Byte : \A q \in Process :
            b # "shared" \/ q # p => os'[b][q] = os[b][q]
  BY <1>0, <1>1 DEF LockTypeOK
<1>11. OsBacksLocks'
  BY <1>0, <1>1, <1>5, <1>10 DEF LockInv, OsBacksLocks
<1>12. OsLocksCompatible'
  BY <1>0, <1>1, <1>10 DEF LockInv, OsLocksCompatible
<1> QED BY <1>6, <1>7, <1>8, <1>9, <1>11, <1>12 DEF LockInv, InodeAgrees

\* A connection that may ask for more than SHARED is the one at the inode's
\* level; the others of its process only read.
LEMMA Upgrader ==
  ASSUME LockInv, NEW f \in File, NEW level \in {RESERVED, EXCLUSIVE},
         LegalRequest(f, level), ~Precluded(f, level)
  PROVE  /\ held[f] = eFileLock[f] /\ f \in Holders(ProcessOf[f])
         /\ held[f] = inode[ProcessOf[f]].eFileLock
         /\ held[f] \in SHARED..PENDING
         /\ \A g \in Holders(ProcessOf[f]) \ {f} : held[g] = SHARED
<1>1. LockTypeOK /\ ProcessOf[f] \in Process
  BY FileLockAssumption DEF LockInv
<1>2. /\ held[f] = eFileLock[f] /\ held[f] \in SHARED..PENDING
      /\ held[f] = inode[ProcessOf[f]].eFileLock
  BY <1>1 DEF LegalRequest, Free, Precluded, LockTypeOK
<1>3. f \in Holders(ProcessOf[f])
  BY <1>2 DEF Holders
<1>4. ASSUME NEW g \in Holders(ProcessOf[f]) \ {f}
      PROVE  held[g] = SHARED
  <2>1. g \in File /\ ProcessOf[g] = ProcessOf[f] /\ held[g] >= SHARED /\ held[g] \in Level
    BY <1>1, <1>4 DEF Holders, LockTypeOK
  <2>2. CASE held[g] > SHARED
    <3>1. held[g] = held[f] /\ f \in Holders(ProcessOf[g]) \ {g}
      BY <1>2, <1>3, <1>4, <2>1, <2>2 DEF LockInv, InodeAgrees, OneWriterPerInode
    <3>2. held[f] = SHARED
      BY <2>1, <2>2, <3>1 DEF LockInv, InodeAgrees, OneWriterPerInode
    <3> QED BY <3>1, <3>2
  <2> QED BY <2>1, <2>2
<1> QED BY <1>2, <1>3, <1>4

LEMMA ReservedStep ==
  ASSUME LockInv, NEW f \in File, LockReserved(f)
  PROVE  LockInv'
<1> DEFINE p == ProcessOf[f]
<1>0. p \in Process /\ LockTypeOK /\ InodeAgrees
  BY FileLockAssumption DEF LockInv
<1>1. /\ held' = [held EXCEPT ![f] = RESERVED]
      /\ eFileLock' = [eFileLock EXCEPT ![f] = RESERVED]
      /\ inode' = [inode EXCEPT ![p].eFileLock = RESERVED]
      /\ os' = [os EXCEPT !["reserved"][p] = "write"]
      /\ \A q \in Process \ {p} : os["reserved"][q] = "none"
      /\ eFileLock[f] = SHARED
  BY DEF LockReserved, LegalRequest, Raise, MayWrite, SetLock
<1>2. /\ held[f] = SHARED /\ f \in Holders(p) /\ inode[p].eFileLock = SHARED
      /\ \A g \in Holders(p) \ {f} : held[g] = SHARED
  BY <1>1, Upgrader DEF LockReserved
<1>3. /\ Holders(p)' = Holders(p)
      /\ \A q \in Process \ {p} : Holders(q)' = Holders(q)
      /\ \A g \in File \ {f} : held'[g] = held[g]
      /\ held'[f] = RESERVED
  <2>1. RESERVED \in SHARED..EXCLUSIVE
    OBVIOUS
  <2>2. /\ Holders(p)' = Holders(p) \cup {f}
        /\ \A q \in Process \ {p} : Holders(q)' = Holders(q)
        /\ \A g \in File \ {f} : held'[g] = held[g]
        /\ held'[f] = RESERVED
    BY <1>0, <1>1, <2>1, HoldersRaise
  <2>3. Holders(p) \cup {f} = Holders(p)
    BY <1>2
  <2> QED BY <2>2, <2>3
<1>4. /\ inode'[p].eFileLock = RESERVED
      /\ inode'[p].nShared = inode[p].nShared /\ inode'[p].nLock = inode[p].nLock
      /\ \A q \in Process \ {p} : inode'[q] = inode[q]
  BY <1>0, <1>1 DEF LockTypeOK
<1>5. LockTypeOK'
  BY <1>0, <1>1 DEF LockTypeOK
<1>6. InodeCountsHolders'
  <2>1. inode[p].nShared = Cardinality(Holders(p)) /\ inode[p].nLock = inode[p].nShared
    BY <1>0 DEF InodeAgrees, InodeCountsHolders
  <2>2. /\ Holders(p)' # {} /\ inode'[p].eFileLock # NO_LOCK
        /\ inode'[p].nShared = Cardinality(Holders(p)') /\ inode'[p].nLock = inode'[p].nShared
    BY <1>2, <1>3, <1>4, <2>1
  <2> HIDE DEF p
  <2> QED BY <1>0, <1>3, <1>4, <2>2, CountsElsewhere DEF InodeAgrees
<1>a. \A g \in File : ProcessOf[g] # p => held'[g] = held[g]
  BY <1>3
<1>7. OneWriterPerInode'
  <2>1. \A g \in File : ProcessOf[g] = p /\ held'[g] > SHARED =>
          /\ held'[g] = inode'[p].eFileLock
          /\ \A k \in Holders(p)' \ {g} : held'[k] = SHARED
          /\ held'[g] # EXCLUSIVE
    <3>1. \A g \in File : ProcessOf[g] = p /\ held'[g] > SHARED => g = f
      BY <1>0, <1>2, <1>3 DEF Holders, LockTypeOK
    <3>2. Holders(p) \subseteq File
      BY DEF Holders
    <3> QED BY <1>2, <1>3, <1>4, <3>1, <3>2
  <2> HIDE DEF p
  <2> QED BY <1>0, <1>3, <1>4, <1>a, <2>1, OneWriterElsewhere DEF InodeAgrees
<1>8. InodeLevelIsHeld'
  <2>1. f \in Holders(p)' /\ held'[f] = inode'[p].eFileLock
    BY <1>2, <1>3, <1>4
  <2> HIDE DEF p
  <2> QED BY <1>0, <1>3, <1>4, <1>a, <2>1, LevelElsewhere DEF InodeAgrees
<1>9. /\ os'["reserved"][p] = "write"
      /\ \A b \in Byte : \A q \in Process :
           b # "reserved" \/ q # p => os'[b][q] = os[b][q]
  BY <1>0, <1>1 DEF LockTypeOK
<1>10. OsBacksLocks'
  BY <1>0, <1>2, <1>4, <1>9 DEF LockInv, OsBacksLocks
<1>11. OsLocksCompatible'
  BY <1>0, <1>1, <1>9 DEF LockInv, OsLocksCompatible
<1> QED BY <1>5, <1>6, <1>7, <1>8, <1>10, <1>11 DEF LockInv, InodeAgrees

\* What LockExclusive does, with the level it reaches as a name.
LEMMA ExclusiveEffect ==
  ASSUME LockInv, NEW f \in File, LockExclusive(f)
  PROVE  \E level \in {PENDING, EXCLUSIVE} :
           LET p == ProcessOf[f]
           IN  /\ held' = [held EXCEPT ![f] = level]
               /\ eFileLock' = [eFileLock EXCEPT ![f] = level]
               /\ inode' = [inode EXCEPT ![p].eFileLock = level]
               /\ level = EXCLUSIVE =>
                    inode[p].nShared <= 1 /\ MayWrite(p, "shared")
               /\ held[f] < PENDING => MayWrite(p, "pending")
               /\ os'["pending"][p] = "write"
               /\ level = EXCLUSIVE => os'["shared"][p] = "write"
               /\ level = PENDING => os'["shared"][p] = os["shared"][p]
               /\ os'["reserved"] = os["reserved"]
               /\ \A b \in Byte : \A q \in Process \ {p} : os'[b][q] = os[b][q]
               /\ os' \in [Byte -> [Process -> ByteLock]]
<1> DEFINE p == ProcessOf[f]
           alone == inode[p].nShared <= 1
           got == alone /\ MayWrite(p, "shared")
           withPending == IF NeedsPendingByte(f, EXCLUSIVE)
                          THEN SetLock(os, p, "pending", "write") ELSE os
<1>0. p \in Process /\ LockTypeOK
  BY FileLockAssumption DEF LockInv
<1>1. /\ held[f] = eFileLock[f] /\ held[f] = inode[p].eFileLock
      /\ held[f] \in SHARED..PENDING
  BY Upgrader DEF LockExclusive
<1>2. held[f] < PENDING => MayWrite(p, "pending")
  BY <1>1 DEF LockExclusive, MayHavePendingByte, NeedsPendingByte
<1>3. /\ withPending["pending"][p] = "write"
      /\ \A b \in Byte : \A q \in Process :
           b # "pending" \/ q # p => withPending[b][q] = os[b][q]
      /\ withPending \in [Byte -> [Process -> ByteLock]]
      /\ withPending["shared"] = os["shared"]
      /\ withPending["reserved"] = os["reserved"]
  <2>1. CASE NeedsPendingByte(f, EXCLUSIVE)
    BY <1>0, <2>1 DEF LockTypeOK, SetLock
  <2>2. CASE ~NeedsPendingByte(f, EXCLUSIVE)
    <3>1. held[f] = PENDING
      BY <1>1, <2>2 DEF NeedsPendingByte
    <3>2. inode[p].eFileLock >= PENDING
      BY <1>1, <3>1
    <3>4. os["pending"][p] = "write"
      BY <1>0, <3>2 DEF LockInv, OsBacksLocks
    <3>3. withPending = os
      BY <2>2
    <3> QED BY <1>0, <3>3, <3>4 DEF LockTypeOK
  <2> QED BY <2>1, <2>2
<1>4. CASE got
  <2>1. /\ held' = [held EXCEPT ![f] = EXCLUSIVE]
        /\ eFileLock' = [eFileLock EXCEPT ![f] = EXCLUSIVE]
        /\ inode' = [inode EXCEPT ![p].eFileLock = EXCLUSIVE]
        /\ os' = [withPending EXCEPT !["shared"][p] = "write"]
    BY <1>4 DEF LockExclusive, Raise, SetLock
  <2> QED BY <1>0, <1>2, <1>3, <1>4, <2>1
<1>5. CASE ~got
  <2>1. /\ held' = [held EXCEPT ![f] = PENDING]
        /\ eFileLock' = [eFileLock EXCEPT ![f] = PENDING]
        /\ inode' = [inode EXCEPT ![p].eFileLock = PENDING]
        /\ os' = withPending
    BY <1>5 DEF LockExclusive, Raise
  <2> QED BY <1>0, <1>2, <1>3, <2>1
<1> QED BY <1>4, <1>5

LEMMA ExclusiveStep ==
  ASSUME LockInv, NEW f \in File, LockExclusive(f)
  PROVE  LockInv'
<1> DEFINE p == ProcessOf[f]
<1>0. p \in Process /\ LockTypeOK /\ InodeAgrees
  BY FileLockAssumption DEF LockInv
<1>1. PICK level \in {PENDING, EXCLUSIVE} :
           /\ held' = [held EXCEPT ![f] = level]
           /\ eFileLock' = [eFileLock EXCEPT ![f] = level]
           /\ inode' = [inode EXCEPT ![p].eFileLock = level]
           /\ level = EXCLUSIVE =>
                inode[p].nShared <= 1 /\ MayWrite(p, "shared")
           /\ held[f] < PENDING => MayWrite(p, "pending")
           /\ os'["pending"][p] = "write"
           /\ level = EXCLUSIVE => os'["shared"][p] = "write"
           /\ level = PENDING => os'["shared"][p] = os["shared"][p]
           /\ os'["reserved"] = os["reserved"]
           /\ \A b \in Byte : \A q \in Process \ {p} : os'[b][q] = os[b][q]
           /\ os' \in [Byte -> [Process -> ByteLock]]
  BY ExclusiveEffect
<1>2. /\ held[f] = inode[p].eFileLock /\ held[f] \in SHARED..PENDING
      /\ f \in Holders(p)
      /\ \A g \in Holders(p) \ {f} : held[g] = SHARED
  BY Upgrader DEF LockExclusive
<1>3. /\ Holders(p)' = Holders(p)
      /\ \A q \in Process \ {p} : Holders(q)' = Holders(q)
      /\ \A g \in File \ {f} : held'[g] = held[g]
      /\ held'[f] = level
  <2>1. level \in SHARED..EXCLUSIVE
    BY <1>1
  <2>2. /\ Holders(p)' = Holders(p) \cup {f}
        /\ \A q \in Process \ {p} : Holders(q)' = Holders(q)
        /\ \A g \in File \ {f} : held'[g] = held[g]
        /\ held'[f] = level
    BY <1>0, <1>1, <2>1, HoldersRaise
  <2>3. Holders(p) \cup {f} = Holders(p)
    BY <1>2
  <2> QED BY <2>2, <2>3
<1>4. /\ inode'[p].eFileLock = level
      /\ inode'[p].nShared = inode[p].nShared /\ inode'[p].nLock = inode[p].nLock
      /\ \A q \in Process \ {p} : inode'[q] = inode[q]
  BY <1>0, <1>1 DEF LockTypeOK
<1>5. level = EXCLUSIVE => Holders(p) = {f}
  BY <1>0, <1>1, <1>2, OneHolder DEF InodeAgrees, InodeCountsHolders
<1>6. LockTypeOK'
  BY <1>0, <1>1 DEF LockTypeOK
<1>7. InodeCountsHolders'
  <2>1. inode[p].nShared = Cardinality(Holders(p)) /\ inode[p].nLock = inode[p].nShared
    BY <1>0 DEF InodeAgrees, InodeCountsHolders
  <2>2. /\ Holders(p)' # {} /\ inode'[p].eFileLock # NO_LOCK
        /\ inode'[p].nShared = Cardinality(Holders(p)') /\ inode'[p].nLock = inode'[p].nShared
    BY <1>1, <1>2, <1>3, <1>4, <2>1
  <2> HIDE DEF p
  <2> QED BY <1>0, <1>3, <1>4, <2>2, CountsElsewhere DEF InodeAgrees
<1>a. \A g \in File : ProcessOf[g] # p => held'[g] = held[g]
  BY <1>3
<1>8. OneWriterPerInode'
  <2>1. \A g \in File : ProcessOf[g] = p /\ held'[g] > SHARED =>
          /\ held'[g] = inode'[p].eFileLock
          /\ \A k \in Holders(p)' \ {g} : held'[k] = SHARED
          /\ held'[g] = EXCLUSIVE => Holders(p)' = {g}
    <3>1. \A g \in File : ProcessOf[g] = p /\ held'[g] > SHARED => g = f
      BY <1>0, <1>2, <1>3 DEF Holders, LockTypeOK
    <3>2. Holders(p) \subseteq File
      BY DEF Holders
    <3> QED BY <1>2, <1>3, <1>4, <1>5, <3>1, <3>2
  <2> HIDE DEF p
  <2> QED BY <1>0, <1>3, <1>4, <1>a, <2>1, OneWriterElsewhere DEF InodeAgrees
<1>9. InodeLevelIsHeld'
  <2>1. f \in Holders(p)' /\ held'[f] = inode'[p].eFileLock
    BY <1>2, <1>3, <1>4
  <2> HIDE DEF p
  <2> QED BY <1>0, <1>3, <1>4, <1>a, <2>1, LevelElsewhere DEF InodeAgrees
<1>10. OsBacksLocks'
  <2>1. os["shared"][p] = "read"
    BY <1>0, <1>2 DEF LockInv, OsBacksLocks
  <2> QED BY <1>0, <1>1, <1>4, <2>1 DEF LockInv, OsBacksLocks
<1>11. OsLocksCompatible'
  <2>1. os["pending"][p] = "write" \/ MayWrite(p, "pending")
    BY <1>0, <1>1, <1>2 DEF LockInv, OsBacksLocks
  <2>2. \A q \in Process \ {p} : os["pending"][q] = "none"
    BY <1>0, <2>1 DEF MayWrite, LockInv, OsLocksCompatible
  <2>3. \A q \in Process \ {p} : level = EXCLUSIVE => os["shared"][q] = "none"
    BY <1>1 DEF MayWrite
  <2> QED BY <1>0, <1>1, <2>2, <2>3 DEF LockInv, OsLocksCompatible
<1> QED BY <1>6, <1>7, <1>8, <1>9, <1>10, <1>11 DEF LockInv, InodeAgrees

\* Unlock is one of three: the last reader leaves, the upgraded connection
\* comes down, or a plain reader leaves the others behind.
Leaves(f, to) ==
  /\ to = NO_LOCK /\ Holders(ProcessOf[f]) = {f}
  /\ inode' = [inode EXCEPT ![ProcessOf[f]] =
                 [eFileLock |-> NO_LOCK, nShared |-> 0, nLock |-> 0]]
  /\ os' = DropLocks(ProcessOf[f])
Lowers(f, to) ==
  /\ held[f] > SHARED
  /\ to = NO_LOCK => Holders(ProcessOf[f]) # {f}
  /\ inode' = [inode EXCEPT ![ProcessOf[f]] =
                 [eFileLock |-> SHARED,
                  nShared |-> IF to = NO_LOCK THEN @.nShared - 1 ELSE @.nShared,
                  nLock |-> IF to = NO_LOCK THEN @.nShared - 1 ELSE @.nShared]]
  /\ os' \in [Byte -> [Process -> ByteLock]]
  /\ os'["shared"][ProcessOf[f]] = "read"
  /\ os'["pending"][ProcessOf[f]] = "none" /\ os'["reserved"][ProcessOf[f]] = "none"
  /\ \A b \in Byte : \A q \in Process \ {ProcessOf[f]} : os'[b][q] = os[b][q]
LeavesOthers(f, to) ==
  /\ held[f] = SHARED /\ to = NO_LOCK /\ Holders(ProcessOf[f]) # {f}
  /\ inode' = [inode EXCEPT ![ProcessOf[f]] =
                 [eFileLock |-> @.eFileLock, nShared |-> @.nShared - 1,
                  nLock |-> @.nShared - 1]]
  /\ os' = os

LEMMA UnlockEffect ==
  ASSUME LockInv, NEW f \in File, NEW to \in {NO_LOCK, SHARED}, Unlock(f, to)
  PROVE  /\ held' = [held EXCEPT ![f] = to]
         /\ eFileLock' = eFileLock
         /\ f \in Holders(ProcessOf[f])
         /\ Leaves(f, to) \/ Lowers(f, to) \/ LeavesOthers(f, to)
<1> DEFINE p == ProcessOf[f]
           last == to = NO_LOCK /\ inode[p].nShared = 1
           lowered == SetLock(SetLock(
                        IF to = SHARED THEN SetLock(os, p, "shared", "read") ELSE os,
                        p, "pending", "none"), p, "reserved", "none")
           nShared == IF to = NO_LOCK THEN inode[p].nShared - 1 ELSE inode[p].nShared
           level == IF last THEN NO_LOCK
                    ELSE IF eFileLock[f] > SHARED THEN SHARED
                    ELSE inode[p].eFileLock
<1>0. p \in Process /\ LockTypeOK /\ InodeAgrees
  BY FileLockAssumption DEF LockInv
<1>1. /\ held[f] = eFileLock[f] /\ to < held[f] /\ held[f] \in Level
      /\ held' = [held EXCEPT ![f] = to] /\ eFileLock' = eFileLock
  BY <1>0 DEF Unlock, Free, LockTypeOK
<1>2. f \in Holders(p)
  BY <1>1 DEF Holders
<1>3. /\ inode[p].nShared = Cardinality(Holders(p)) /\ inode[p].nLock = inode[p].nShared
      /\ inode[p].nShared \in Nat
  BY <1>0, HoldersFinite DEF InodeAgrees, InodeCountsHolders
<1>4. inode[p].nShared = 1 <=> Holders(p) = {f}
  <2>1. Cardinality({f}) = 1
    BY FS_Singleton
  <2> QED BY <1>0, <1>2, <1>3, <2>1, OneHolder
<1>5. inode' = [inode EXCEPT ![p] = [eFileLock |-> level, nShared |-> nShared, nLock |-> nShared]]
  BY <1>3 DEF Unlock
<1>6. os' = IF last THEN DropLocks(p) ELSE IF eFileLock[f] > SHARED THEN lowered ELSE os
  BY DEF Unlock
<1>7. CASE last
  BY <1>1, <1>2, <1>3, <1>4, <1>5, <1>6, <1>7 DEF Leaves
<1>8. CASE ~last /\ held[f] > SHARED
  <2>1. level = SHARED /\ os' = lowered
    BY <1>1, <1>6, <1>8
  <2>2. to = NO_LOCK => Holders(p) # {f}
    BY <1>4, <1>8
  <2>3. to = NO_LOCK => os["shared"][p] = "read"
    <3>1. to = NO_LOCK => held[f] # EXCLUSIVE
      BY <1>0, <1>8, <2>2 DEF InodeAgrees, OneWriterPerInode
    <3>2. held[f] = inode[p].eFileLock
      BY <1>0, <1>8 DEF InodeAgrees, OneWriterPerInode
    <3> QED BY <1>0, <1>1, <1>8, <3>1, <3>2 DEF LockInv, OsBacksLocks
  <2>4. CASE to = SHARED
    <3>1. os' = SetLock(SetLock(SetLock(os, p, "shared", "read"), p, "pending", "none"),
                        p, "reserved", "none")
      BY <2>1, <2>4
    <3>2. /\ os' \in [Byte -> [Process -> ByteLock]]
          /\ os'["shared"][p] = "read"
          /\ os'["pending"][p] = "none" /\ os'["reserved"][p] = "none"
          /\ \A b \in Byte : \A q \in Process \ {p} : os'[b][q] = os[b][q]
      BY <1>0, <3>1 DEF SetLock, LockTypeOK
    <3> QED BY <1>1, <1>2, <1>3, <1>5, <1>8, <2>1, <2>2, <2>4, <3>2 DEF Lowers
  <2>5. CASE to = NO_LOCK
    <3>1. os' = SetLock(SetLock(os, p, "pending", "none"), p, "reserved", "none")
      BY <2>1, <2>5
    <3>2. /\ os' \in [Byte -> [Process -> ByteLock]]
          /\ os'["shared"][p] = "read"
          /\ os'["pending"][p] = "none" /\ os'["reserved"][p] = "none"
          /\ \A b \in Byte : \A q \in Process \ {p} : os'[b][q] = os[b][q]
      BY <1>0, <2>3, <2>5, <3>1 DEF SetLock, LockTypeOK
    <3> QED BY <1>1, <1>2, <1>3, <1>5, <1>8, <2>1, <2>2, <2>5, <3>2 DEF Lowers
  <2> QED BY <2>4, <2>5
<1>9. CASE ~last /\ held[f] = SHARED
  <2>1. to = NO_LOCK /\ level = inode[p].eFileLock /\ os' = os
    BY <1>1, <1>6, <1>9
  <2> QED BY <1>1, <1>2, <1>3, <1>4, <1>5, <1>9, <2>1 DEF LeavesOthers
<1> QED BY <1>1, <1>7, <1>8, <1>9

LEMMA LastUnlockStep ==
  ASSUME LockInv, NEW f \in File, NEW to \in {NO_LOCK, SHARED},
         held' = [held EXCEPT ![f] = to], eFileLock' = eFileLock, Leaves(f, to)
  PROVE  LockInv'
<1> USE DEF Leaves
<1> DEFINE p == ProcessOf[f]
<1>0. p \in Process /\ LockTypeOK /\ InodeAgrees
  BY FileLockAssumption DEF LockInv
<1>1. /\ Holders(p)' = {}
      /\ \A q \in Process \ {p} : Holders(q)' = Holders(q)
      /\ \A g \in File \ {f} : held'[g] = held[g]
      /\ held'[f] = NO_LOCK
  BY <1>0, HoldersRelease
<1>2. /\ inode'[p].eFileLock = NO_LOCK /\ inode'[p].nShared = 0 /\ inode'[p].nLock = 0
      /\ \A q \in Process \ {p} : inode'[q] = inode[q]
  BY <1>0 DEF LockTypeOK
<1>3. /\ \A b \in Byte : os'[b][p] = "none"
      /\ \A b \in Byte : \A q \in Process \ {p} : os'[b][q] = os[b][q]
      /\ os' \in [Byte -> [Process -> ByteLock]]
  BY <1>0 DEF LockTypeOK, DropLocks
<1>4. LockTypeOK'
  BY <1>0, <1>3 DEF LockTypeOK
<1>a. \A g \in File : ProcessOf[g] # p => held'[g] = held[g]
  BY <1>1
<1>5. InodeCountsHolders'
  <2>1. Cardinality(Holders(p)') = 0
    BY <1>1, FS_EmptySet
  <2>9. /\ inode'[p].nShared = Cardinality(Holders(p)') /\ inode'[p].nLock = inode'[p].nShared
        /\ inode'[p].eFileLock = NO_LOCK <=> Holders(p)' = {}
    BY <1>1, <1>2, <2>1
  <2> HIDE DEF p
  <2> QED BY <1>0, <1>1, <1>2, <2>9, CountsElsewhere DEF InodeAgrees
<1>6. OneWriterPerInode'
  <2>1. ASSUME NEW g \in File, ProcessOf[g] = p
        PROVE  ~(held'[g] > SHARED)
    <3>1. held'[g] \in Level
      BY <1>4 DEF LockTypeOK
    <3>2. ~(held'[g] >= SHARED)
      BY <1>1, <2>1 DEF Holders
    <3> QED BY <3>1, <3>2
  <2> HIDE DEF p
  <2> QED BY <1>0, <1>1, <1>2, <1>a, <2>1, OneWriterElsewhere DEF InodeAgrees
<1>7. InodeLevelIsHeld'
  <2> HIDE DEF p
  <2> QED BY <1>0, <1>1, <1>2, <1>a, LevelElsewhere DEF InodeAgrees
<1>8. OsBacksLocks'
  BY <1>0, <1>2, <1>3 DEF LockInv, OsBacksLocks
<1>9. OsLocksCompatible'
  BY <1>0, <1>3 DEF LockInv, OsLocksCompatible
<1> QED BY <1>4, <1>5, <1>6, <1>7, <1>8, <1>9 DEF LockInv, InodeAgrees

LEMMA LowerStep ==
  ASSUME LockInv, NEW f \in File, NEW to \in {NO_LOCK, SHARED},
         f \in Holders(ProcessOf[f]),
         held' = [held EXCEPT ![f] = to], eFileLock' = eFileLock, Lowers(f, to)
  PROVE  LockInv'
<1> USE DEF Lowers
<1> DEFINE p == ProcessOf[f]
           n == Cardinality(Holders(p)')
<1>0. p \in Process /\ LockTypeOK /\ InodeAgrees
  BY FileLockAssumption DEF LockInv
<1>1. held[f] = inode[p].eFileLock /\ \A g \in Holders(p) \ {f} : held[g] = SHARED
  BY <1>0 DEF InodeAgrees, OneWriterPerInode
<1>2. /\ Holders(p)' = IF to = NO_LOCK THEN Holders(p) \ {f} ELSE Holders(p)
      /\ \A q \in Process \ {p} : Holders(q)' = Holders(q)
      /\ \A g \in File \ {f} : held'[g] = held[g]
      /\ held'[f] = to
  <2>1. CASE to = NO_LOCK
    BY <1>0, <2>1, HoldersRelease
  <2>a. SHARED \in SHARED..EXCLUSIVE
    OBVIOUS
  <2>2. CASE to = SHARED
    <3>1. Holders(p)' = Holders(p) \cup {f}
      BY <1>0, <2>2, <2>a, HoldersRaise
    <3>2. /\ \A q \in Process \ {p} : Holders(q)' = Holders(q)
          /\ \A g \in File \ {f} : held'[g] = held[g]
          /\ held'[f] = to
      BY <1>0, <2>2, <2>a, HoldersRaise
    <3> QED BY <2>2, <3>1, <3>2
  <2> QED BY <2>1, <2>2
<1>3. inode[p].nShared = Cardinality(Holders(p)) /\ inode[p].nShared \in Nat
  BY <1>0, HoldersFinite DEF InodeAgrees, InodeCountsHolders
<1>4. n = (IF to = NO_LOCK THEN inode[p].nShared - 1 ELSE inode[p].nShared) /\ n \in Nat
  <2>1. CASE to = NO_LOCK
    <3>1. /\ Cardinality(Holders(p) \ {f}) = Cardinality(Holders(p)) - 1
          /\ Cardinality(Holders(p) \ {f}) \in Nat
      BY <1>0, HoldersFinite, FS_RemoveElement, FS_CardinalityType
    <3> QED BY <1>2, <1>3, <2>1, <3>1
  <2>2. CASE to = SHARED
    BY <1>2, <1>3, <2>2
  <2> QED BY <2>1, <2>2
<1>5. Holders(p)' # {} /\ \A g \in Holders(p)' : held'[g] = SHARED
  BY <1>1, <1>2
<1>i. inode' = [inode EXCEPT ![p] = [eFileLock |-> SHARED, nShared |-> n, nLock |-> n]]
  BY <1>4
<1>6. /\ inode'[p].eFileLock = SHARED /\ inode'[p].nShared = n /\ inode'[p].nLock = n
      /\ \A q \in Process \ {p} : inode'[q] = inode[q]
  BY <1>0, <1>i DEF LockTypeOK
<1>7. LockTypeOK'
  BY <1>0, <1>4, <1>i DEF LockTypeOK
<1>a. \A g \in File : ProcessOf[g] # p => held'[g] = held[g]
  BY <1>2
<1>8. InodeCountsHolders'
  <2>9. /\ inode'[p].nShared = Cardinality(Holders(p)') /\ inode'[p].nLock = inode'[p].nShared
        /\ inode'[p].eFileLock = NO_LOCK <=> Holders(p)' = {}
    BY <1>5, <1>6
  <2> HIDE DEF p, n
  <2> QED BY <1>0, <1>2, <1>6, <2>9, CountsElsewhere DEF InodeAgrees
<1>9. OneWriterPerInode'
  <2>1. ASSUME NEW g \in File, ProcessOf[g] = p
        PROVE  ~(held'[g] > SHARED)
    <3>1. held'[g] \in Level
      BY <1>7 DEF LockTypeOK
    <3>2. g \in Holders(p)' \/ ~(held'[g] >= SHARED)
      BY <2>1 DEF Holders
    <3> QED BY <1>5, <3>1, <3>2
  <2> HIDE DEF p
  <2> QED BY <1>0, <1>2, <1>6, <1>a, <2>1, OneWriterElsewhere DEF InodeAgrees
<1>10. InodeLevelIsHeld'
  <2> HIDE DEF p
  <2> QED BY <1>0, <1>2, <1>5, <1>6, <1>a, LevelElsewhere DEF InodeAgrees
<1>11. OsBacksLocks'
  BY <1>0, <1>6 DEF LockInv, OsBacksLocks
<1>12. OsLocksCompatible'
  <2>1. os["shared"][p] # "none"
    BY <1>0, <1>1 DEF LockInv, OsBacksLocks, LockTypeOK
  <2>2. \A q \in Process \ {p} : os["shared"][q] # "write"
    BY <1>0, <2>1 DEF LockInv, OsLocksCompatible
  <2> QED BY <1>0, <2>2 DEF LockInv, OsLocksCompatible
<1> QED BY <1>7, <1>8, <1>9, <1>10, <1>11, <1>12 DEF LockInv, InodeAgrees

LEMMA LeaveStep ==
  ASSUME LockInv, NEW f \in File, NEW to \in {NO_LOCK, SHARED},
         f \in Holders(ProcessOf[f]),
         held' = [held EXCEPT ![f] = to], eFileLock' = eFileLock, LeavesOthers(f, to)
  PROVE  LockInv'
<1> USE DEF LeavesOthers
<1> DEFINE p == ProcessOf[f]
<1>0. p \in Process /\ LockTypeOK /\ InodeAgrees
  BY FileLockAssumption DEF LockInv
<1>1. /\ Holders(p)' = Holders(p) \ {f}
      /\ \A q \in Process \ {p} : Holders(q)' = Holders(q)
      /\ \A g \in File \ {f} : held'[g] = held[g]
      /\ held'[f] = NO_LOCK
  BY <1>0, HoldersRelease
<1>2. /\ inode[p].nShared = Cardinality(Holders(p)) /\ inode[p].nShared \in Nat
      /\ inode[p].eFileLock # NO_LOCK
  BY <1>0, HoldersFinite DEF InodeAgrees, InodeCountsHolders
<1>3. Cardinality(Holders(p)') = inode[p].nShared - 1 /\ inode[p].nShared - 1 \in Nat
  BY <1>0, <1>1, <1>2, HoldersFinite, FS_RemoveElement, FS_CardinalityType
<1>4. /\ inode'[p].eFileLock = inode[p].eFileLock
      /\ inode'[p].nShared = inode[p].nShared - 1
      /\ inode'[p].nLock = inode[p].nShared - 1
      /\ \A q \in Process \ {p} : inode'[q] = inode[q]
  BY <1>0 DEF LockTypeOK
<1>5. LockTypeOK'
  <2> DEFINE r == [eFileLock |-> inode[p].eFileLock, nShared |-> inode[p].nShared - 1,
                   nLock |-> inode[p].nShared - 1]
  <2>1. r \in [eFileLock : Level, nShared : Nat, nLock : Nat]
    BY <1>0, <1>3 DEF LockTypeOK
  <2>2. inode' = [inode EXCEPT ![p] = r]
    BY <1>0 DEF LockTypeOK
  <2> HIDE DEF r
  <2> QED BY <1>0, <2>1, <2>2 DEF LockTypeOK
<1>6. InodeCountsHolders'
  <2>1. /\ inode'[p].nShared = Cardinality(Holders(p)') /\ inode'[p].nLock = inode'[p].nShared
        /\ inode'[p].eFileLock = NO_LOCK <=> Holders(p)' = {}
    BY <1>1, <1>2, <1>3, <1>4
  <2> HIDE DEF p
  <2> QED BY <1>0, <1>1, <1>4, <2>1, CountsElsewhere DEF InodeAgrees
<1>7. \A g \in File : ProcessOf[g] # p => held'[g] = held[g]
  BY <1>1
<1>8. OneWriterPerInode'
  <2>1. ASSUME NEW g \in File, ProcessOf[g] = p, held'[g] > SHARED
        PROVE  /\ held'[g] = inode'[p].eFileLock
               /\ \A k \in Holders(p)' \ {g} : held'[k] = SHARED
               /\ held'[g] # EXCLUSIVE
    <3>1. g # f /\ held'[g] = held[g]
      BY <1>1, <2>1
    <3>2. /\ held[g] = inode[p].eFileLock
          /\ \A k \in Holders(p) \ {g} : held[k] = SHARED
          /\ held[g] # EXCLUSIVE
      BY <1>0, <2>1, <3>1 DEF InodeAgrees, OneWriterPerInode
    <3>3. Holders(p) \subseteq File
      BY DEF Holders
    <3> QED BY <1>1, <1>4, <3>1, <3>2, <3>3
  <2> HIDE DEF p
  <2> QED BY <1>0, <1>1, <1>4, <1>7, <2>1, OneWriterElsewhere DEF InodeAgrees
<1>9. InodeLevelIsHeld'
  <2>1. \E g \in Holders(p)' : held'[g] = inode'[p].eFileLock
    <3>1. PICK g \in Holders(p) : held[g] = inode[p].eFileLock
      BY <1>0, <1>2 DEF InodeAgrees, InodeLevelIsHeld
    <3>2. CASE g # f
      <4>1. g \in File
        BY DEF Holders
      <4> QED BY <1>1, <1>4, <3>1, <3>2, <4>1
    <3>3. CASE g = f
      <4>1. inode[p].eFileLock = SHARED
        BY <3>1, <3>3
      <4>2. PICK k \in Holders(p) \ {f} : TRUE
        OBVIOUS
      <4>3. held[k] \in SHARED..EXCLUSIVE /\ k \in File /\ ProcessOf[k] = p
        BY <1>0 DEF Holders, LockTypeOK
      <4>4. held[k] = SHARED
        BY <1>0, <4>1, <4>3 DEF InodeAgrees, OneWriterPerInode
      <4> QED BY <1>1, <1>4, <4>1, <4>3, <4>4
    <3> QED BY <3>2, <3>3
  <2> HIDE DEF p
  <2> QED BY <1>0, <1>1, <1>4, <1>7, <2>1, LevelElsewhere DEF InodeAgrees
<1>10. OsBacksLocks'
  <2>1. \A q \in Process : inode'[q].eFileLock = inode[q].eFileLock
    BY <1>4
  <2> QED BY <2>1 DEF LockInv, OsBacksLocks
<1>11. OsLocksCompatible'
  BY DEF LockInv, OsLocksCompatible
<1> QED BY <1>5, <1>6, <1>8, <1>9, <1>10, <1>11 DEF LockInv, InodeAgrees

LEMMA UnlockStep ==
  ASSUME LockInv, NEW f \in File, NEW to \in {NO_LOCK, SHARED}, Unlock(f, to)
  PROVE  LockInv'
BY UnlockEffect, LastUnlockStep, LowerStep, LeaveStep

\* A deferred close leaves the system's locks alone; any other close drops
\* locks the process does not hold.
LEMMA CloseStep ==
  ASSUME LockInv, NEW f \in File, Close(f)
  PROVE  LockInv'
<1> DEFINE p == ProcessOf[f]
<1>0. p \in Process /\ LockTypeOK
  BY FileLockAssumption DEF LockInv
<1>1. UNCHANGED <<held, inode>> /\ eFileLock' = eFileLock
  BY DEF Close
<1>2. os' = os
  <2>1. CASE inode[p].nLock > 0
    BY <2>1 DEF Close
  <2>2. CASE ~(inode[p].nLock > 0)
    <3>1. inode[p].nLock = inode[p].nShared /\ inode[p].nShared = Cardinality(Holders(p))
      BY <1>0 DEF LockInv, InodeAgrees, InodeCountsHolders
    <3>2. Cardinality(Holders(p)) = 0
      BY <1>0, <2>2, <3>1 DEF LockTypeOK
    <3>3. Holders(p) = {}
      BY <1>0, <3>2, HoldersFinite, FS_EmptySet
    <3>4. inode[p].eFileLock = NO_LOCK
      BY <1>0, <3>3 DEF LockInv, InodeAgrees, InodeCountsHolders
    <3>5. \A b \in Byte : os[b][p] = "none"
      BY <1>0, <3>4 DEF LockInv, OsBacksLocks
    <3>6. os' = DropLocks(p)
      BY <2>2 DEF Close
    <3>7. \A b \in Byte : [os[b] EXCEPT ![p] = "none"] = os[b]
      BY <1>0, <3>5 DEF LockTypeOK
    <3>8. DropLocks(p) = os
      BY <1>0, <3>7 DEF DropLocks, LockTypeOK
    <3> QED BY <3>6, <3>8
  <2> QED BY <2>1, <2>2
<1> QED BY <1>0, <1>1, <1>2, WaitStep DEF LockTypeOK

LEMMA NextLockInv == LockInv /\ [Next]_vars => LockInv'
<1> SUFFICES ASSUME LockInv, [Next]_vars PROVE LockInv'
  OBVIOUS
<1>0. LockTypeOK /\ eFileLock \in [File -> Level] /\ held \in [File -> Level]
  BY DEF LockInv, LockTypeOK
<1>1. ASSUME NEW f \in File, Open(f) PROVE LockInv'
  BY <1>0, <1>1, WaitStep DEF Open
<1>2. ASSUME NEW f \in File, Close(f) PROVE LockInv'
  BY <1>2, CloseStep
<1>3. ASSUME NEW f \in File, NEW b \in BOOLEAN, SetWait(f, b) PROVE LockInv'
  BY <1>0, <1>3, WaitStep DEF SetWait, lockVars
<1>4. ASSUME NEW f \in File, Lock(f) PROVE LockInv'
  <2>1. ASSUME NEW level \in {SHARED, RESERVED, EXCLUSIVE}, LockPrecluded(f, level)
        PROVE  LockInv'
    BY <1>0, <2>1, WaitStep DEF LockPrecluded, lockVars
  <2> QED BY <1>4, <2>1, SharedAgainStep, SharedFirstStep, ReservedStep, ExclusiveStep
      DEF Lock
<1>5. ASSUME NEW f \in File, Timeout(f) PROVE LockInv'
  BY <1>0, <1>5, WaitStep DEF Timeout, lockVars
<1>6. ASSUME NEW f \in File, NEW to \in {NO_LOCK, SHARED}, Unlock(f, to) PROVE LockInv'
  BY <1>6, UnlockStep
<1>7. ASSUME NEW f \in File, UnlockReturn(f) PROVE LockInv'
  <2>1. eFileLock' \in [File -> Level]
    BY <1>0, <1>7 DEF UnlockReturn
  <2> QED BY <1>7, <2>1, WaitStep DEF UnlockReturn
<1>8. CASE UNCHANGED vars
  BY <1>0, <1>8, WaitStep DEF vars
<1> QED BY <1>1, <1>2, <1>3, <1>4, <1>5, <1>6, <1>7, <1>8 DEF Next

THEOREM LockInvariant == Spec => []LockInv
<1> QED BY InitLockInv, NextLockInv, PTL DEF Spec

-----------------------------------------------------------------------------
\* The record all connections of a process share (unixInodeInfo) agrees with
\* what they hold: readers counted, one connection above SHARED, its level
\* held by one of them.
THEOREM InodeRecordAgrees == Spec => []InodeAgrees
<1>1. LockInv => InodeAgrees
  BY DEF LockInv
<1> QED BY <1>1, LockInvariant, PTL

\* The system's byte locks back every level a connection believes it holds,
\* whatever descriptors are opened and closed meanwhile (unixClose, pUnused).
THEOREM LocksAreBacked == Spec => []OsBacksLocks
<1>1. LockInv => OsBacksLocks
  BY DEF LockInv
<1> QED BY <1>1, LockInvariant, PTL

\* No two processes hold conflicting byte locks (unixLock asks fcntl for each).
THEOREM ByteLocksCompatible == Spec => []OsLocksCompatible
<1>1. LockInv => OsLocksCompatible
  BY DEF LockInv
<1> QED BY <1>1, LockInvariant, PTL

-----------------------------------------------------------------------------
(***************************************************************************)
(* What the byte locks say of a connection's level.                        *)
(***************************************************************************)
LEMMA BytesOfLevel ==
  ASSUME LockInv, NEW g \in File, held[g] >= SHARED
  PROVE  LET q == ProcessOf[g]
         IN  /\ inode[q].eFileLock # NO_LOCK
             /\ held[g] > SHARED => held[g] = inode[q].eFileLock
             /\ os["shared"][q] # "none"
             /\ held[g] = RESERVED => os["reserved"][q] = "write"
             /\ held[g] >= PENDING => os["pending"][q] = "write"
             /\ held[g] = EXCLUSIVE => os["shared"][q] = "write"
<1> DEFINE q == ProcessOf[g]
<1>0. q \in Process /\ LockTypeOK /\ held[g] \in Level /\ inode[q].eFileLock \in Level
  BY FileLockAssumption DEF LockInv, LockTypeOK
<1>1. inode[q].eFileLock # NO_LOCK
  <2>1. g \in Holders(q)
    BY DEF Holders
  <2> QED BY <1>0, <2>1 DEF LockInv, InodeAgrees, InodeCountsHolders
<1>2. held[g] > SHARED => held[g] = inode[q].eFileLock
  BY DEF LockInv, InodeAgrees, OneWriterPerInode
<1>3. /\ inode[q].eFileLock \in SHARED..PENDING => os["shared"][q] = "read"
      /\ inode[q].eFileLock = EXCLUSIVE => os["shared"][q] = "write"
      /\ inode[q].eFileLock = RESERVED => os["reserved"][q] = "write"
      /\ inode[q].eFileLock >= PENDING => os["pending"][q] = "write"
  BY <1>0 DEF LockInv, OsBacksLocks
<1>4. os["shared"][q] # "none"
  BY <1>0, <1>1, <1>3
<1> QED BY <1>0, <1>1, <1>2, <1>3, <1>4

LEMMA SharedMaps ==
  ASSUME LockInv, NEW f \in File, LockSharedAgain(f) \/ LockSharedFirst(f)
  PROVE  /\ held[f] = NO_LOCK /\ held' = [held EXCEPT ![f] = SHARED]
         /\ \A g \in File \ {f} : held[g] <= PENDING
         /\ \A g \in File : held[g] >= PENDING =>
              ProcessOf[f] # ProcessOf[g] /\ Holders(ProcessOf[f]) # {}
<1> DEFINE p == ProcessOf[f]
<1>0. p \in Process /\ LockTypeOK /\ inode[p].eFileLock \in Level
  BY FileLockAssumption DEF LockInv, LockTypeOK
<1>1. /\ eFileLock[f] = NO_LOCK /\ held[f] = NO_LOCK
      /\ held' = [held EXCEPT ![f] = SHARED]
      /\ inode[p].eFileLock < PENDING
  BY <1>0 DEF LockSharedAgain, LockSharedFirst, LegalRequest, Free, Raise, Precluded,
              LockTypeOK
<1>2. ASSUME NEW g \in File, held[g] >= PENDING
      PROVE  p # ProcessOf[g] /\ held[g] # EXCLUSIVE /\ Holders(p) # {}
  <2> DEFINE q == ProcessOf[g]
  <2>0. held[g] \in Level /\ held[g] >= SHARED /\ held[g] > SHARED /\ q \in Process
    BY <1>0, <1>2, FileLockAssumption DEF LockTypeOK
  <2>1. held[g] = inode[q].eFileLock /\ os["pending"][q] = "write"
        /\ (held[g] = EXCLUSIVE => os["shared"][q] = "write")
    BY <1>2, <2>0, BytesOfLevel
  <2>2. p # q
    <3>1. inode[p].eFileLock < PENDING /\ inode[q].eFileLock >= PENDING
      BY <1>1, <1>2, <2>1
    <3> QED BY <1>0, <2>0, <2>1, <3>1
  <2>3. CASE LockSharedAgain(f)
    <3>1. inode[p].eFileLock \in {SHARED, RESERVED}
      BY <2>3 DEF LockSharedAgain
    <3>2. os["shared"][p] = "read" /\ Holders(p) # {}
      BY <1>0, <3>1 DEF LockInv, OsBacksLocks, InodeAgrees, InodeCountsHolders
    <3>3. os["shared"][q] # "write"
      BY <1>0, <2>0, <2>2, <3>2 DEF LockInv, OsLocksCompatible
    <3> QED BY <2>1, <2>2, <3>2, <3>3
  <2>4. CASE LockSharedFirst(f)
    <3>1. NeedsPendingByte(f, SHARED)
      BY DEF NeedsPendingByte
    <3>2. MayRead(p, "pending")
      BY <2>4, <3>1 DEF LockSharedFirst, MayHavePendingByte
    <3> QED BY <2>0, <2>1, <2>2, <3>2 DEF MayRead
  <2> QED BY <2>2, <2>3, <2>4
<1>3. \A g \in File \ {f} : held[g] <= PENDING
  BY <1>0, <1>2 DEF LockTypeOK
<1> QED BY <1>1, <1>2, <1>3

LEMMA ReservedMaps ==
  ASSUME LockInv, NEW f \in File, LockReserved(f)
  PROVE  /\ held[f] = SHARED /\ held' = [held EXCEPT ![f] = RESERVED]
         /\ \A g \in File \ {f} : held[g] \notin {RESERVED, EXCLUSIVE}
<1> DEFINE p == ProcessOf[f]
<1>0. p \in Process /\ LockTypeOK
  BY FileLockAssumption DEF LockInv
<1>1. /\ eFileLock[f] = SHARED /\ held' = [held EXCEPT ![f] = RESERVED]
      /\ \A q \in Process \ {p} : os["reserved"][q] = "none"
  BY DEF LockReserved, LegalRequest, Raise, MayWrite
<1>2. /\ held[f] = SHARED
      /\ \A g \in Holders(p) \ {f} : held[g] = SHARED
  BY <1>1, Upgrader DEF LockReserved
<1>3. os["shared"][p] # "none"
  BY <1>2, BytesOfLevel
<1>4. ASSUME NEW g \in File \ {f}, held[g] \in {RESERVED, EXCLUSIVE}
      PROVE  FALSE
  <2>1. ProcessOf[g] # p
    BY <1>2, <1>4 DEF Holders
  <2>2. ProcessOf[g] \in Process \ {p}
    BY <2>1, FileLockAssumption
  <2>3. CASE held[g] = RESERVED
    <3>1. os["reserved"][ProcessOf[g]] = "write"
      BY <2>3, BytesOfLevel
    <3> QED BY <1>1, <2>2, <3>1
  <2>4. CASE held[g] = EXCLUSIVE
    <3>1. os["shared"][ProcessOf[g]] = "write"
      BY <2>4, BytesOfLevel
    <3> QED BY <1>0, <1>3, <2>2, <3>1 DEF LockInv, OsLocksCompatible
  <2> QED BY <1>4, <2>3, <2>4
<1> QED BY <1>1, <1>2, <1>4

LEMMA ExclusiveMaps ==
  ASSUME LockInv, NEW f \in File, LockExclusive(f)
  PROVE  \/ /\ held[f] \in {SHARED, RESERVED}
            /\ \A g \in File \ {f} : held[g] <= RESERVED
            /\ held' = [held EXCEPT ![f] = PENDING]
         \/ UNCHANGED held
         \/ /\ held[f] \in SHARED..PENDING
            /\ \A g \in File \ {f} : held[g] = NO_LOCK
            /\ held' = [held EXCEPT ![f] = EXCLUSIVE]
<1> DEFINE p == ProcessOf[f]
<1>0. p \in Process /\ LockTypeOK /\ \A g \in File : held[g] \in Level
  BY FileLockAssumption DEF LockInv, LockTypeOK
<1>1. PICK level \in {PENDING, EXCLUSIVE} :
           /\ held' = [held EXCEPT ![f] = level]
           /\ level = EXCLUSIVE => inode[p].nShared <= 1 /\ MayWrite(p, "shared")
           /\ held[f] < PENDING => MayWrite(p, "pending")
  BY ExclusiveEffect
<1>2. /\ held[f] \in SHARED..PENDING /\ f \in Holders(p)
      /\ \A g \in Holders(p) \ {f} : held[g] = SHARED
  BY Upgrader DEF LockExclusive
<1>3. CASE level = PENDING /\ held[f] = PENDING
  <2>1. held' = held
    BY <1>0, <1>1, <1>3 DEF LockTypeOK
  <2> QED BY <2>1
<1>4. CASE level = PENDING /\ held[f] # PENDING
  <2>1. held[f] \in {SHARED, RESERVED} /\ MayWrite(p, "pending")
    BY <1>1, <1>2, <1>4
  <2>2. ASSUME NEW g \in File \ {f}, held[g] > RESERVED
        PROVE  FALSE
    <3>0. held[g] \in Level /\ held[g] >= PENDING /\ held[g] >= SHARED
      BY <1>0, <2>2
    <3>1. ProcessOf[g] # p
      BY <1>2, <2>2, <3>0 DEF Holders
    <3>2. ProcessOf[g] \in Process \ {p}
      BY <3>1, FileLockAssumption
    <3>3. os["pending"][ProcessOf[g]] = "write"
      BY <3>0, BytesOfLevel
    <3> QED BY <2>1, <3>2, <3>3 DEF MayWrite
  <2>3. \A g \in File \ {f} : held[g] <= RESERVED
    BY <1>0, <2>2
  <2> QED BY <1>1, <1>4, <2>1, <2>3
<1>5. CASE level = EXCLUSIVE
  <2>1. Holders(p) = {f}
    BY <1>0, <1>1, <1>2, <1>5, OneHolder DEF LockInv, InodeAgrees, InodeCountsHolders
  <2>2. ASSUME NEW g \in File \ {f}, held[g] # NO_LOCK
        PROVE  FALSE
    <3>0. held[g] >= SHARED
      BY <1>0, <2>2
    <3>1. ProcessOf[g] # p
      BY <2>1, <3>0 DEF Holders
    <3>2. ProcessOf[g] \in Process \ {p}
      BY <3>1, FileLockAssumption
    <3>3. os["shared"][ProcessOf[g]] # "none"
      BY <3>0, BytesOfLevel
    <3> QED BY <1>1, <1>5, <3>2, <3>3 DEF MayWrite
  <2> QED BY <1>1, <1>2, <1>5, <2>2
<1> QED BY <1>1, <1>3, <1>4, <1>5

LEMMA UnlockMaps ==
  ASSUME LockInv, NEW f \in File, NEW to \in {NO_LOCK, SHARED}, Unlock(f, to)
  PROVE  to < held[f] /\ held' = [held EXCEPT ![f] = to]
BY DEF Unlock, Free

LEMMA KeepHeld ==
  ASSUME NEW f \in File,
         \/ Open(f) \/ Close(f) \/ \E b \in BOOLEAN : SetWait(f, b)
         \/ \E level \in {SHARED, RESERVED, EXCLUSIVE} : LockPrecluded(f, level)
         \/ Timeout(f) \/ UnlockReturn(f)
  PROVE  UNCHANGED held
BY DEF Open, Close, SetWait, LockPrecluded, Timeout, UnlockReturn, lockVars

-----------------------------------------------------------------------------
\* A connection that has PENDING keeps out every new reader that does not join
\* readers of its own process (unixLock: the pending byte, and eFileLock of
\* the inode).
THEOREM PendingKeepsOut == Spec => PendingKeepsNewReadersOut
<1>1. ASSUME LockInv, [Next]_vars, NEW f \in File, NEW g \in File,
             held[f] = NO_LOCK, held'[f] = SHARED, held[g] >= PENDING
      PROVE  ProcessOf[f] # ProcessOf[g] /\ Holders(ProcessOf[f]) # {}
  <2>0. held \in [File -> Level]
    BY <1>1 DEF LockInv, LockTypeOK
  <2>1. ASSUME NEW h \in File, LockSharedAgain(h) \/ LockSharedFirst(h)
        PROVE  ProcessOf[f] # ProcessOf[g] /\ Holders(ProcessOf[f]) # {}
    <3>1. held' = [held EXCEPT ![h] = SHARED]
      BY <1>1, <2>1, SharedMaps
    <3>2. h = f
      BY <1>1, <2>0, <3>1
    <3> QED BY <1>1, <2>1, <3>2, SharedMaps
  <2>2. ASSUME NEW h \in File, LockReserved(h)
        PROVE  FALSE
    BY <1>1, <2>0, <2>2, ReservedMaps
  <2>3. ASSUME NEW h \in File, LockExclusive(h)
        PROVE  FALSE
    BY <1>1, <2>0, <2>3, ExclusiveMaps
  <2>4. ASSUME NEW h \in File, NEW to \in {NO_LOCK, SHARED}, Unlock(h, to)
        PROVE  FALSE
    <3>1. to < held[h] /\ held' = [held EXCEPT ![h] = to]
      BY <1>1, <2>4, UnlockMaps
    <3>2. h = f
      BY <1>1, <2>0, <3>1
    <3> QED BY <1>1, <3>1, <3>2
  <2>5. UNCHANGED held => FALSE
    BY <1>1
  <2> QED BY <1>1, <2>1, <2>2, <2>3, <2>4, <2>5, KeepHeld DEF Next, Lock, vars
<1>2. LockInv /\ [Next]_vars =>
        [\A f, g \in File :
           /\ held[f] = NO_LOCK /\ held'[f] = SHARED
           /\ held[g] >= PENDING
           => ProcessOf[f] # ProcessOf[g] /\ Holders(ProcessOf[f]) # {}]_held
  BY <1>1
<1> QED BY <1>2, LockInvariant, PTL DEF Spec, PendingKeepsNewReadersOut

\* The lock protocol of the unix layer gives the connections of all processes
\* what DatabaseLock.tla promises.
THEOREM ImplementsDatabaseLocks == Spec => ImplementsDatabaseLock
<1> USE DEF Abstract!NO_LOCK, Abstract!SHARED, Abstract!RESERVED, Abstract!PENDING,
            Abstract!EXCLUSIVE
<1>1. Init => Abstract!Init
  BY DEF Init, Abstract!Init
<1>2. ASSUME LockInv, [Next]_vars
      PROVE  [Abstract!Next]_held
  <2>0. held \in [File -> Level]
    BY <1>2 DEF LockInv, LockTypeOK
  <2>1. ASSUME NEW f \in File, LockSharedAgain(f) \/ LockSharedFirst(f)
        PROVE  Abstract!Shared(f)
    BY <1>2, <2>1, SharedMaps DEF Abstract!Shared, Abstract!OthersAtMost
  <2>2. ASSUME NEW f \in File, LockReserved(f)
        PROVE  Abstract!Reserved(f)
    BY <1>2, <2>2, ReservedMaps DEF Abstract!Reserved
  <2>3. ASSUME NEW f \in File, LockExclusive(f)
        PROVE  Abstract!Pending(f) \/ UNCHANGED held \/ Abstract!Exclusive(f)
    <3>1. CASE /\ held[f] \in {SHARED, RESERVED}
               /\ \A g \in File \ {f} : held[g] <= RESERVED
               /\ held' = [held EXCEPT ![f] = PENDING]
      BY <3>1 DEF Abstract!Pending, Abstract!OthersAtMost
    <3>2. CASE /\ held[f] \in SHARED..PENDING
               /\ \A g \in File \ {f} : held[g] = NO_LOCK
               /\ held' = [held EXCEPT ![f] = EXCLUSIVE]
      <4>1. held[f] \in {SHARED, RESERVED, PENDING}
        BY <3>2
      <4> QED BY <3>2, <4>1 DEF Abstract!Exclusive, Abstract!OthersAtMost
    <3> QED BY <1>2, <2>3, <3>1, <3>2, ExclusiveMaps
  <2>4. ASSUME NEW f \in File, NEW to \in {NO_LOCK, SHARED}, Unlock(f, to)
        PROVE  Abstract!Lower(f)
    BY <1>2, <2>4, UnlockMaps DEF Abstract!Lower
  <2> QED BY <1>2, <2>1, <2>2, <2>3, <2>4, KeepHeld DEF Next, Lock, vars, Abstract!Next
<1> QED BY <1>1, <1>2, LockInvariant, PTL DEF Spec, ImplementsDatabaseLock, Abstract!Spec

-----------------------------------------------------------------------------
(***************************************************************************)
(* The wait queue.  Until a wait has timed out each entry is of a thread    *)
(* that sleeps, and its request is still refused: a waiter for others to    *)
(* leave holds PENDING, one for a lock to come down waits for a writer.     *)
(***************************************************************************)
WaitTypeOK ==
  /\ open \subseteq File
  /\ queue \in [Process -> Seq(WaitInfo)]
  /\ asleep \subseteq open
  /\ timeouts \in Nat

\* A connection asleep is inside unixLock, not behind posixUnlock.
SleepersKeepLevel == \A f \in asleep : held[f] = eFileLock[f]

\* The entries of a queue are those of threads of its process, asleep, once.
Neat(p) ==
  \A i \in 1..Len(queue[p]) :
    /\ queue[p][i].thread \in asleep
    /\ queue[p][i].pFile = queue[p][i].thread
    /\ ProcessOf[queue[p][i].thread] = p
    /\ \A j \in 1..Len(queue[p]) : queue[p][j].thread = queue[p][i].thread => i = j

\* Why the request of an entry is still refused.
Refused(w, levels, ino) ==
  \/ /\ w.eFlag = "WAIT_EXCLUSIVE" /\ w.eFileLock = EXCLUSIVE
     /\ levels[w.thread] = PENDING
  \/ /\ w.eFlag = "WAIT_SHARED" /\ w.eFileLock = SHARED
     /\ levels[w.thread] = NO_LOCK /\ ino.eFileLock >= PENDING
  \/ /\ w.eFlag = "WAIT_SHARED" /\ w.eFileLock > SHARED
     /\ levels[w.thread] = SHARED /\ ino.eFileLock > SHARED

AllRefused(p) == \A i \in 1..Len(queue[p]) : Refused(queue[p][i], held, inode[p])

\* Only at the front must a waiter for readers still have some to wait for.
FrontHasReaders(p) ==
  queue[p] # <<>> /\ queue[p][1].eFlag = "WAIT_EXCLUSIVE" => inode[p].nShared > 1

Punctual == \A p \in Process : Neat(p) /\ AllRefused(p) /\ FrontHasReaders(p)

WaitInv ==
  /\ WaitTypeOK
  /\ SleepersAreQueued
  /\ SleepersKeepLevel
  /\ timeouts = 0 => Punctual

-----------------------------------------------------------------------------
\* What the operations on a queue leave in it.
LEMMA EntryType ==
  ASSUME WaitTypeOK, NEW p \in Process, NEW i \in 1..Len(queue[p])
  PROVE  /\ queue[p] \in Seq(WaitInfo) /\ queue[p][i] \in WaitInfo
         /\ queue[p][i].thread \in File /\ queue[p][i].eFileLock \in Level
         /\ Len(queue[p]) \in Nat
<1>1. queue[p] \in Seq(WaitInfo)
  BY DEF WaitTypeOK
<1>2. queue[p][i] \in WaitInfo /\ Len(queue[p]) \in Nat
  BY <1>1
<1> QED BY <1>1, <1>2 DEF WaitInfo

LEMMA Enqueued ==
  ASSUME NEW q \in Seq(WaitInfo), NEW info \in WaitInfo
  PROVE  /\ Enqueue(q, info) \in Seq(WaitInfo)
         /\ Len(Enqueue(q, info)) = Len(q) + 1
         /\ \/ /\ Enqueue(q, info)[1] = info
               /\ \A i \in 1..Len(q) : Enqueue(q, info)[i + 1] = q[i]
            \/ /\ Enqueue(q, info)[Len(q) + 1] = info
               /\ \A i \in 1..Len(q) : Enqueue(q, info)[i] = q[i]
<1>1. CASE info.thread \in Main
  <2>1. Enqueue(q, info) = <<info>> \o q
    BY <1>1 DEF Enqueue
  <2>2. <<info>> \in Seq(WaitInfo) /\ Len(<<info>>) = 1
    OBVIOUS
  <2> QED BY <2>1, <2>2
<1>2. CASE info.thread \notin Main
  <2>1. Enqueue(q, info) = Append(q, info)
    BY <1>2 DEF Enqueue
  <2> QED BY <2>1
<1> QED BY <1>1, <1>2

\* The front n are woken and leave; nobody else does either.
Pops(p, n) ==
  /\ queue' = [queue EXCEPT ![p] = SubSeq(@, n + 1, Len(@))]
  /\ asleep' = asleep \ {queue[p][i].thread : i \in 1..n}

\* A thread that is awake falls asleep, queued for the given request.
Pushes(f, level, flag) ==
  /\ queue' = [queue EXCEPT ![ProcessOf[f]] =
                 Enqueue(@, [thread |-> f, pFile |-> f, eFileLock |-> level, eFlag |-> flag])]
  /\ asleep' = asleep \cup {f}

LEMMA PopEffect ==
  ASSUME WaitTypeOK, NEW p \in Process, NEW n \in 0..Len(queue[p]), Pops(p, n)
  PROVE  /\ queue' \in [Process -> Seq(WaitInfo)]
         /\ \A q \in Process \ {p} : queue'[q] = queue[q]
         /\ Len(queue'[p]) = Len(queue[p]) - n
         /\ \A i \in 1..Len(queue'[p]) :
              /\ i + n \in 1..Len(queue[p])
              /\ queue'[p][i] = queue[p][i + n]
<1>1. queue[p] \in Seq(WaitInfo) /\ Len(queue[p]) \in Nat
  BY DEF WaitTypeOK
<1> DEFINE r == SubSeq(queue[p], n + 1, Len(queue[p]))
<1>2. /\ r \in Seq(WaitInfo) /\ Len(r) = Len(queue[p]) - n
      /\ \A i \in 1..Len(r) : i + n \in 1..Len(queue[p]) /\ r[i] = queue[p][i + n]
  BY <1>1
<1>3. queue' = [queue EXCEPT ![p] = r]
  BY DEF Pops
<1> HIDE DEF r
<1> QED BY <1>2, <1>3 DEF WaitTypeOK

LEMMA PopQueued ==
  ASSUME WaitTypeOK, SleepersAreQueued, NEW p \in Process, NEW n \in 0..Len(queue[p]),
         Pops(p, n)
  PROVE  SleepersAreQueued'
<1> SUFFICES ASSUME NEW f \in asleep'
             PROVE  \E i \in DOMAIN queue'[ProcessOf[f]] : queue'[ProcessOf[f]][i].thread = f
  BY DEF SleepersAreQueued, Queued
<1>1. /\ f \in asleep /\ f \in File /\ ProcessOf[f] \in Process
      /\ \A i \in 1..n : queue[p][i].thread # f
  BY FileLockAssumption DEF Pops, WaitTypeOK
<1>2. /\ queue' \in [Process -> Seq(WaitInfo)]
      /\ \A q \in Process \ {p} : queue'[q] = queue[q]
      /\ Len(queue'[p]) = Len(queue[p]) - n
      /\ \A i \in 1..Len(queue'[p]) : queue'[p][i] = queue[p][i + n]
  BY PopEffect
<1>3. PICK i \in DOMAIN queue[ProcessOf[f]] : queue[ProcessOf[f]][i].thread = f
  BY <1>1 DEF SleepersAreQueued, Queued
<1>4. CASE ProcessOf[f] # p
  BY <1>1, <1>2, <1>3, <1>4
<1>5. CASE ProcessOf[f] = p
  <2>1. queue[p] \in Seq(WaitInfo) /\ queue'[p] \in Seq(WaitInfo)
    BY <1>2 DEF WaitTypeOK
  <2>2. i \in 1..Len(queue[p]) /\ ~(i \in 1..n)
    BY <1>1, <1>3, <1>5, <2>1
  <2>3. i - n \in 1..Len(queue'[p]) /\ (i - n) + n = i
    BY <1>2, <2>1, <2>2
  <2>4. queue'[p][i - n] = queue[p][i]
    BY <1>2, <2>3
  <2> QED BY <1>3, <1>5, <2>1, <2>3, <2>4
<1> QED BY <1>4, <1>5

LEMMA PopNeat ==
  ASSUME WaitTypeOK, \A q \in Process : Neat(q),
         NEW p \in Process, NEW n \in 0..Len(queue[p]), Pops(p, n)
  PROVE  \A q \in Process : Neat(q)'
<1>1. /\ \A q \in Process \ {p} : queue'[q] = queue[q]
      /\ Len(queue'[p]) = Len(queue[p]) - n
      /\ \A i \in 1..Len(queue'[p]) :
           i + n \in 1..Len(queue[p]) /\ queue'[p][i] = queue[p][i + n]
  BY PopEffect
<1>2. Len(queue[p]) \in Nat
  BY DEF WaitTypeOK
<1>3. \A i \in 1..n : i \in 1..Len(queue[p]) /\ ProcessOf[queue[p][i].thread] = p
  BY <1>2 DEF Neat
<1>4. Neat(p)'
  <2> SUFFICES ASSUME NEW i \in 1..Len(queue'[p])
               PROVE  /\ queue'[p][i].thread \in asleep'
                      /\ queue'[p][i].pFile = queue'[p][i].thread
                      /\ ProcessOf[queue'[p][i].thread] = p
                      /\ \A j \in 1..Len(queue'[p]) :
                           queue'[p][j].thread = queue'[p][i].thread => i = j
    BY DEF Neat
  <2>1. i + n \in 1..Len(queue[p]) /\ queue'[p][i] = queue[p][i + n]
    BY <1>1
  <2>2. /\ queue[p][i + n].thread \in asleep
        /\ queue[p][i + n].pFile = queue[p][i + n].thread
        /\ ProcessOf[queue[p][i + n].thread] = p
        /\ \A j \in 1..Len(queue[p]) :
             queue[p][j].thread = queue[p][i + n].thread => i + n = j
    BY <2>1 DEF Neat
  <2>3. \A j \in 1..n : queue[p][j].thread # queue[p][i + n].thread
    <3> SUFFICES ASSUME NEW j \in 1..n, queue[p][j].thread = queue[p][i + n].thread
                 PROVE  FALSE
      OBVIOUS
    <3>1. i + n = j
      BY <1>3, <2>2
    <3> QED BY <1>1, <1>2, <3>1
  <2>4. queue[p][i + n].thread \in asleep'
    BY <2>2, <2>3 DEF Pops
  <2>5. ASSUME NEW j \in 1..Len(queue'[p]), queue'[p][j].thread = queue'[p][i].thread
        PROVE  i = j
    <3>1. j + n \in 1..Len(queue[p]) /\ queue'[p][j] = queue[p][j + n]
      BY <1>1
    <3>2. i + n = j + n
      BY <2>1, <2>2, <2>5, <3>1
    <3> QED BY <1>1, <1>2, <3>2
  <2> QED BY <2>1, <2>2, <2>4, <2>5
<1>5. ASSUME NEW q \in Process \ {p} PROVE Neat(q)'
  <2>1. queue'[q] = queue[q] /\ Neat(q)
    BY <1>1
  <2>2. ASSUME NEW i \in 1..Len(queue[q]) PROVE queue[q][i].thread \in asleep'
    <3>1. queue[q][i].thread \in asleep /\ ProcessOf[queue[q][i].thread] = q
      BY <2>1 DEF Neat
    <3>2. \A j \in 1..n : queue[p][j].thread # queue[q][i].thread
      BY <1>3, <3>1
    <3> QED BY <3>1, <3>2 DEF Pops
  <2> QED BY <2>1, <2>2 DEF Neat
<1> QED BY <1>4, <1>5

LEMMA PushEffect ==
  ASSUME WaitTypeOK, NEW f \in File, NEW level \in Level,
         NEW flag \in {"WAIT_SHARED", "WAIT_EXCLUSIVE"}, Pushes(f, level, flag)
  PROVE  LET p == ProcessOf[f]
             info == [thread |-> f, pFile |-> f, eFileLock |-> level, eFlag |-> flag]
         IN  /\ queue' \in [Process -> Seq(WaitInfo)]
             /\ \A q \in Process \ {p} : queue'[q] = queue[q]
             /\ Len(queue'[p]) = Len(queue[p]) + 1
             /\ \/ /\ queue'[p][1] = info
                   /\ \A i \in 1..Len(queue[p]) : queue'[p][i + 1] = queue[p][i]
                \/ /\ queue'[p][Len(queue[p]) + 1] = info
                   /\ \A i \in 1..Len(queue[p]) : queue'[p][i] = queue[p][i]
<1> DEFINE p == ProcessOf[f]
           info == [thread |-> f, pFile |-> f, eFileLock |-> level, eFlag |-> flag]
           r == Enqueue(queue[p], info)
<1>1. p \in Process /\ info \in WaitInfo
  BY FileLockAssumption DEF WaitInfo
<1>2. queue[p] \in Seq(WaitInfo)
  BY <1>1 DEF WaitTypeOK
<1>3. queue' = [queue EXCEPT ![p] = r]
  BY DEF Pushes
<1> HIDE DEF info
<1>4. /\ r \in Seq(WaitInfo) /\ Len(r) = Len(queue[p]) + 1
      /\ \/ r[1] = info /\ \A i \in 1..Len(queue[p]) : r[i + 1] = queue[p][i]
         \/ r[Len(queue[p]) + 1] = info /\ \A i \in 1..Len(queue[p]) : r[i] = queue[p][i]
  BY <1>1, <1>2, Enqueued
<1> HIDE DEF r
<1>5. queue'[p] = r /\ queue' \in [Process -> Seq(WaitInfo)]
      /\ \A q \in Process \ {p} : queue'[q] = queue[q]
  BY <1>1, <1>3, <1>4 DEF WaitTypeOK
<1> QED BY <1>4, <1>5 DEF info

LEMMA PushQueued ==
  ASSUME WaitTypeOK, SleepersAreQueued, NEW f \in File, NEW level \in Level,
         NEW flag \in {"WAIT_SHARED", "WAIT_EXCLUSIVE"}, Pushes(f, level, flag)
  PROVE  SleepersAreQueued'
<1> SUFFICES ASSUME NEW g \in asleep'
             PROVE  \E i \in DOMAIN queue'[ProcessOf[g]] : queue'[ProcessOf[g]][i].thread = g
  BY DEF SleepersAreQueued, Queued
<1> DEFINE p == ProcessOf[f]
           info == [thread |-> f, pFile |-> f, eFileLock |-> level, eFlag |-> flag]
<1>1. /\ queue' \in [Process -> Seq(WaitInfo)]
      /\ \A q \in Process \ {p} : queue'[q] = queue[q]
      /\ Len(queue'[p]) = Len(queue[p]) + 1
      /\ \/ /\ queue'[p][1] = info
            /\ \A i \in 1..Len(queue[p]) : queue'[p][i + 1] = queue[p][i]
         \/ /\ queue'[p][Len(queue[p]) + 1] = info
            /\ \A i \in 1..Len(queue[p]) : queue'[p][i] = queue[p][i]
  BY PushEffect
<1>2. p \in Process /\ queue[p] \in Seq(WaitInfo) /\ queue'[p] \in Seq(WaitInfo)
  BY <1>1, FileLockAssumption DEF WaitTypeOK
<1>3. info.thread = f
  OBVIOUS
<1> HIDE DEF info
<1>4. DOMAIN queue'[p] = 1..(Len(queue[p]) + 1) /\ DOMAIN queue[p] = 1..Len(queue[p])
      /\ Len(queue[p]) \in Nat
  BY <1>1, <1>2
<1>5. CASE g = f
  <2>1. 1 \in DOMAIN queue'[p] /\ Len(queue[p]) + 1 \in DOMAIN queue'[p]
    BY <1>4
  <2> QED BY <1>1, <1>3, <1>5, <2>1
<1>6. CASE g # f
  <2>1. g \in asleep
    BY <1>6 DEF Pushes
  <2>2. PICK i \in DOMAIN queue[ProcessOf[g]] : queue[ProcessOf[g]][i].thread = g
    BY <2>1 DEF SleepersAreQueued, Queued
  <2>3. CASE ProcessOf[g] # p
    <3>1. ProcessOf[g] \in Process
      BY <2>1, FileLockAssumption DEF WaitTypeOK
    <3> QED BY <1>1, <2>2, <2>3, <3>1
  <2>4. CASE ProcessOf[g] = p
    <3>1. i \in 1..Len(queue[p]) /\ queue[p][i].thread = g
      BY <1>4, <2>2, <2>4
    <3>2. i \in DOMAIN queue'[p] /\ i + 1 \in DOMAIN queue'[p]
      BY <1>4, <3>1
    <3> QED BY <1>1, <2>4, <3>1, <3>2
  <2> QED BY <2>3, <2>4
<1> QED BY <1>5, <1>6

LEMMA PushNeat ==
  ASSUME WaitTypeOK, \A q \in Process : Neat(q), NEW f \in File \ asleep,
         NEW level \in Level, NEW flag \in {"WAIT_SHARED", "WAIT_EXCLUSIVE"},
         Pushes(f, level, flag)
  PROVE  \A q \in Process : Neat(q)'
<1> DEFINE p == ProcessOf[f]
           info == [thread |-> f, pFile |-> f, eFileLock |-> level, eFlag |-> flag]
<1>1. /\ queue' \in [Process -> Seq(WaitInfo)]
      /\ \A q \in Process \ {p} : queue'[q] = queue[q]
      /\ Len(queue'[p]) = Len(queue[p]) + 1
      /\ \/ /\ queue'[p][1] = info
            /\ \A i \in 1..Len(queue[p]) : queue'[p][i + 1] = queue[p][i]
         \/ /\ queue'[p][Len(queue[p]) + 1] = info
            /\ \A i \in 1..Len(queue[p]) : queue'[p][i] = queue[p][i]
  BY PushEffect
<1>2. p \in Process /\ Len(queue[p]) \in Nat
  BY FileLockAssumption DEF WaitTypeOK
<1>3. info.thread = f /\ info.pFile = f /\ ProcessOf[f] = p
  OBVIOUS
<1>4. asleep \subseteq asleep' /\ f \in asleep'
  BY DEF Pushes
<1> HIDE DEF info
<1>5. \A q \in Process \ {p} : Neat(q)'
  BY <1>1, <1>4 DEF Neat
<1>6. \A i \in 1..Len(queue[p]) :
        /\ queue[p][i].thread \in asleep /\ queue[p][i].thread # f
        /\ queue[p][i].pFile = queue[p][i].thread
        /\ ProcessOf[queue[p][i].thread] = p
        /\ \A j \in 1..Len(queue[p]) : queue[p][j].thread = queue[p][i].thread => i = j
  BY <1>2 DEF Neat
<1>7. CASE /\ queue'[p][1] = info
           /\ \A i \in 1..Len(queue[p]) : queue'[p][i + 1] = queue[p][i]
  <2>1. \A i \in 1..Len(queue'[p]) :
          i = 1 \/ (i - 1 \in 1..Len(queue[p]) /\ queue'[p][i] = queue[p][i - 1])
    <3> SUFFICES ASSUME NEW i \in 1..Len(queue'[p]), i # 1
                 PROVE  i - 1 \in 1..Len(queue[p]) /\ queue'[p][i] = queue[p][i - 1]
      OBVIOUS
    <3>1. i - 1 \in 1..Len(queue[p]) /\ (i - 1) + 1 = i
      BY <1>1, <1>2
    <3> QED BY <1>7, <3>1
  <2>2. \A i \in 1..Len(queue'[p]) :
          /\ queue'[p][i].thread \in asleep'
          /\ queue'[p][i].pFile = queue'[p][i].thread
          /\ ProcessOf[queue'[p][i].thread] = p
    <3> SUFFICES ASSUME NEW i \in 1..Len(queue'[p])
                 PROVE  /\ queue'[p][i].thread \in asleep'
                        /\ queue'[p][i].pFile = queue'[p][i].thread
                        /\ ProcessOf[queue'[p][i].thread] = p
      OBVIOUS
    <3>1. CASE i = 1
      BY <1>3, <1>4, <1>7, <3>1
    <3>2. CASE i # 1
      <4>1. i - 1 \in 1..Len(queue[p]) /\ queue'[p][i] = queue[p][i - 1]
        BY <2>1, <3>2
      <4>2. /\ queue[p][i - 1].thread \in asleep
            /\ queue[p][i - 1].pFile = queue[p][i - 1].thread
            /\ ProcessOf[queue[p][i - 1].thread] = p
        BY <1>6, <4>1
      <4> QED BY <1>4, <4>1, <4>2
    <3> QED BY <3>1, <3>2
  <2>3. ASSUME NEW i \in 1..Len(queue'[p]), NEW j \in 1..Len(queue'[p]),
               queue'[p][j].thread = queue'[p][i].thread
        PROVE  i = j
    <3>1. ASSUME NEW k \in 1..Len(queue'[p]), k # 1
          PROVE  queue'[p][k].thread # f
      <4>1. k - 1 \in 1..Len(queue[p]) /\ queue'[p][k] = queue[p][k - 1]
        BY <2>1, <3>1
      <4>2. queue[p][k - 1].thread # f
        BY <1>6, <4>1
      <4> QED BY <4>1, <4>2
    <3>2. CASE i = 1 \/ j = 1
      BY <1>3, <1>7, <2>3, <3>1, <3>2
    <3>3. CASE i # 1 /\ j # 1
      <4>1. /\ i - 1 \in 1..Len(queue[p]) /\ j - 1 \in 1..Len(queue[p])
            /\ queue[p][j - 1].thread = queue[p][i - 1].thread
        BY <2>1, <2>3, <3>3
      <4>2. i - 1 = j - 1
        BY <1>6, <4>1
      <4> QED BY <1>1, <1>2, <4>2
    <3> QED BY <3>2, <3>3
  <2> QED BY <1>5, <2>2, <2>3 DEF Neat
<1>8. CASE /\ queue'[p][Len(queue[p]) + 1] = info
           /\ \A i \in 1..Len(queue[p]) : queue'[p][i] = queue[p][i]
  <2>1. \A i \in 1..Len(queue'[p]) :
          i = Len(queue[p]) + 1 \/ (i \in 1..Len(queue[p]) /\ queue'[p][i] = queue[p][i])
    BY <1>1, <1>2, <1>8
  <2>2. \A i \in 1..Len(queue'[p]) :
          /\ queue'[p][i].thread \in asleep'
          /\ queue'[p][i].pFile = queue'[p][i].thread
          /\ ProcessOf[queue'[p][i].thread] = p
    BY SMTT(30), <1>3, <1>4, <1>6, <1>8, <2>1
  <2>3. ASSUME NEW i \in 1..Len(queue'[p]), NEW j \in 1..Len(queue'[p]),
               queue'[p][j].thread = queue'[p][i].thread
        PROVE  i = j
    <3> DEFINE last == Len(queue[p]) + 1
    <3>1. \A k \in 1..Len(queue'[p]) : k # last => queue'[p][k].thread # f
      BY <1>6, <2>1
    <3>2. CASE i = last \/ j = last
      BY <1>3, <1>8, <2>3, <3>1, <3>2
    <3>3. CASE i # last /\ j # last
      <4>1. /\ i \in 1..Len(queue[p]) /\ j \in 1..Len(queue[p])
            /\ queue[p][j].thread = queue[p][i].thread
        BY <2>1, <2>3, <3>3
      <4> QED BY <1>6, <4>1
    <3> QED BY <3>2, <3>3
  <2> QED BY <1>5, <2>2, <2>3 DEF Neat
<1> QED BY <1>1, <1>7, <1>8

-----------------------------------------------------------------------------
\* Each step keeps the invariant of the queue.  What a step must leave true of
\* the entries it keeps is named here once.
LEMMA WriterWaits ==
  ASSUME LockInv, WaitTypeOK, NEW p \in Process, Neat(p), AllRefused(p),
         NEW i \in 1..Len(queue[p])
  PROVE  /\ inode[p].eFileLock > SHARED
         /\ queue[p][i].eFlag = "WAIT_EXCLUSIVE" =>
              inode[p].eFileLock = PENDING /\ held[queue[p][i].thread] = PENDING
<1>1. /\ Refused(queue[p][i], held, inode[p])
      /\ ProcessOf[queue[p][i].thread] = p /\ queue[p][i].thread \in File
  BY EntryType DEF AllRefused, Neat
<1>2. inode[p].eFileLock \in Level
  BY DEF LockInv, LockTypeOK
<1>3. held[queue[p][i].thread] = PENDING => inode[p].eFileLock = PENDING
  BY <1>1 DEF LockInv, InodeAgrees, OneWriterPerInode
<1> QED BY <1>1, <1>2, <1>3 DEF Refused

\* Steps that leave the levels and the queues alone.
LEMMA QuietStep ==
  ASSUME WaitInv, UNCHANGED <<held, inode, queue, asleep, timeouts>>,
         asleep \subseteq open', open' \subseteq File,
         \A f \in asleep : eFileLock'[f] = eFileLock[f]
  PROVE  WaitInv'
<1>1. WaitTypeOK'
  BY DEF WaitInv, WaitTypeOK
<1>2. SleepersAreQueued'
  BY DEF WaitInv, SleepersAreQueued, Queued
<1>3. SleepersKeepLevel'
  BY DEF WaitInv, SleepersKeepLevel
<1>4. timeouts' = 0 => Punctual'
  BY DEF WaitInv, Punctual, Neat, AllRefused, Refused, FrontHasReaders
<1> QED BY <1>1, <1>2, <1>3, <1>4 DEF WaitInv

LEMMA TimeoutStep ==
  ASSUME WaitInv, NEW f \in File, Timeout(f)
  PROVE  WaitInv'
<1>1. /\ timeouts \in Nat /\ timeouts' = timeouts + 1 /\ asleep' = asleep \ {f}
      /\ UNCHANGED <<open, held, eFileLock, queue>>
  BY DEF Timeout, lockVars, WaitInv, WaitTypeOK
<1>2. WaitTypeOK' /\ timeouts' # 0
  BY <1>1 DEF WaitInv, WaitTypeOK
<1>3. SleepersAreQueued'
  BY <1>1 DEF WaitInv, SleepersAreQueued, Queued
<1>4. SleepersKeepLevel'
  BY <1>1 DEF WaitInv, SleepersKeepLevel
<1> QED BY <1>2, <1>3, <1>4 DEF WaitInv

\* A connection raises its level while the queues stay: f is awake, so the
\* entries keep their reasons if the level of the inode keeps them.
LEMMA RaiseStep ==
  ASSUME WaitInv, NEW f \in File \ asleep, NEW level \in Level, Raise(f, level),
         LockInv, LockInv', UNCHANGED <<open, queue, asleep, timeouts>>,
         \A q \in Process \ {ProcessOf[f]} : inode'[q] = inode[q],
         \A q \in Process : queue[q] # <<>> =>
           /\ inode'[q].eFileLock >= inode[q].eFileLock
           /\ inode'[q].nShared >= inode[q].nShared
  PROVE  WaitInv'
<1>1. /\ WaitTypeOK' /\ SleepersAreQueued'
  BY DEF WaitInv, WaitTypeOK, SleepersAreQueued, Queued
<1>2. \A g \in asleep : held'[g] = held[g] /\ eFileLock'[g] = eFileLock[g]
  BY DEF Raise, WaitInv, WaitTypeOK, LockInv, LockTypeOK
<1>3. SleepersKeepLevel'
  BY <1>2 DEF WaitInv, SleepersKeepLevel
<1>4. ASSUME timeouts = 0, NEW q \in Process
      PROVE  Neat(q)' /\ AllRefused(q)' /\ FrontHasReaders(q)'
  <2>1. Neat(q) /\ AllRefused(q) /\ FrontHasReaders(q)
    BY <1>4 DEF WaitInv, Punctual
  <2>2. Neat(q)'
    BY <2>1 DEF Neat
  <2>3. /\ inode[q] \in [eFileLock : Level, nShared : Nat, nLock : Nat]
        /\ inode'[q] \in [eFileLock : Level, nShared : Nat, nLock : Nat]
    BY DEF LockInv, LockTypeOK
  <2>4. AllRefused(q)'
    <3> SUFFICES ASSUME NEW i \in 1..Len(queue[q])
                 PROVE  Refused(queue[q][i], held', inode'[q])
      BY DEF AllRefused
    <3>1. Refused(queue[q][i], held, inode[q]) /\ queue[q][i].thread \in asleep /\ queue[q] # <<>>
      BY <2>1 DEF Neat, AllRefused
    <3>2. held'[queue[q][i].thread] = held[queue[q][i].thread]
      BY <1>2, <3>1
    <3>3. inode'[q].eFileLock >= inode[q].eFileLock
      BY <3>1
    <3> QED BY SMTT(30), <2>3, <3>1, <3>2, <3>3 DEF Refused
  <2>5. FrontHasReaders(q)'
    BY <2>1, <2>3 DEF FrontHasReaders
  <2> QED BY <2>2, <2>4, <2>5
<1> QED BY <1>1, <1>3, <1>4 DEF WaitInv, Punctual

\* Nothing waits while no writer holds more than SHARED.
LEMMA NobodyWaits ==
  ASSUME LockInv, WaitTypeOK, NEW p \in Process, Neat(p), AllRefused(p),
         inode[p].eFileLock <= SHARED
  PROVE  queue[p] = <<>>
<1> SUFFICES ASSUME queue[p] # <<>> PROVE FALSE
  OBVIOUS
<1>1. queue[p] \in Seq(WaitInfo)
  BY DEF WaitTypeOK
<1>2. 1 \in 1..Len(queue[p])
  BY <1>1
<1>3. inode[p].eFileLock > SHARED
  BY <1>2, WriterWaits
<1>4. inode[p].eFileLock \in Level
  BY DEF LockInv, LockTypeOK
<1> QED BY <1>3, <1>4

\* What a request knows of its connection: its thread is awake and holds the
\* level it goes by.
LEMMA RequestKnows ==
  ASSUME LockInv, NEW f \in File, NEW level, LegalRequest(f, level)
  PROVE  /\ f \in open /\ f \notin asleep /\ held[f] = eFileLock[f] /\ held[f] \in Level
         /\ level \in {SHARED, RESERVED, EXCLUSIVE} /\ level \in Level /\ level > held[f]
         /\ held[f] = NO_LOCK => level = SHARED
         /\ level = RESERVED => held[f] = SHARED
         /\ ProcessOf[f] \in Process /\ inode[ProcessOf[f]].eFileLock \in Level
         /\ inode[ProcessOf[f]].nShared \in Nat
         /\ held[f] > SHARED => held[f] = inode[ProcessOf[f]].eFileLock
BY FileLockAssumption
   DEF LegalRequest, Free, LockInv, LockTypeOK, InodeAgrees, OneWriterPerInode

LEMMA SharedAgainWaits ==
  ASSUME LockInv, LockInv', WaitInv, NEW f \in File, LockSharedAgain(f)
  PROVE  WaitInv'
<1> DEFINE p == ProcessOf[f]
<1>1. /\ f \notin asleep /\ Raise(f, SHARED) /\ SHARED \in Level /\ p \in Process
      /\ inode' = [inode EXCEPT ![p].nShared = @ + 1, ![p].nLock = @ + 1]
      /\ UNCHANGED <<open, queue, asleep, timeouts>>
  BY RequestKnows DEF LockSharedAgain, waitVars
<1>2. inode \in [Process -> [eFileLock : Level, nShared : Nat, nLock : Nat]]
  BY DEF LockInv, LockTypeOK
<1>3. /\ inode'[p].eFileLock = inode[p].eFileLock /\ inode'[p].nShared = inode[p].nShared + 1
      /\ \A q \in Process \ {p} : inode'[q] = inode[q]
  BY <1>1, <1>2
<1>4. \A q \in Process : /\ inode'[q].eFileLock >= inode[q].eFileLock
                         /\ inode'[q].nShared >= inode[q].nShared
  BY <1>2, <1>3
<1> QED BY <1>1, <1>3, <1>4, RaiseStep

\* Two steps start with no writer, and so with nobody waiting, in the process.
LEMMA CalmRaise ==
  ASSUME LockInv, LockInv', WaitInv, NEW f \in File \ asleep, NEW level \in Level,
         Raise(f, level), inode[ProcessOf[f]].eFileLock <= SHARED,
         NEW ino, inode' = [inode EXCEPT ![ProcessOf[f]] = ino],
         UNCHANGED <<open, queue, asleep, timeouts>>
  PROVE  WaitInv'
<1> DEFINE p == ProcessOf[f]
<1>1. p \in Process /\ inode \in [Process -> [eFileLock : Level, nShared : Nat, nLock : Nat]]
  BY FileLockAssumption DEF LockInv, LockTypeOK
<1>2. \A q \in Process \ {p} : inode'[q] = inode[q]
  BY <1>1
<1>3. CASE timeouts = 0
  <2>1. queue[p] = <<>>
    BY <1>1, <1>3, NobodyWaits DEF WaitInv, Punctual
  <2>2. \A q \in Process : queue[q] # <<>> =>
          /\ inode'[q].eFileLock >= inode[q].eFileLock
          /\ inode'[q].nShared >= inode[q].nShared
    BY <1>1, <1>2, <2>1
  <2> QED BY <1>2, <2>2, RaiseStep
<1>4. CASE timeouts # 0
  <2>1. WaitTypeOK' /\ SleepersAreQueued'
    BY DEF WaitInv, WaitTypeOK, SleepersAreQueued, Queued
  <2>2. SleepersKeepLevel'
    BY DEF Raise, WaitInv, WaitTypeOK, LockInv, LockTypeOK, SleepersKeepLevel
  <2> QED BY <1>4, <2>1, <2>2 DEF WaitInv
<1> QED BY <1>3, <1>4

LEMMA SharedFirstWaits ==
  ASSUME LockInv, LockInv', WaitInv, NEW f \in File, LockSharedFirst(f)
  PROVE  WaitInv'
<1> DEFINE p == ProcessOf[f]
<1>1. /\ f \notin asleep /\ Raise(f, SHARED) /\ SHARED \in Level
      /\ inode' = [inode EXCEPT ![p] =
                     [eFileLock |-> SHARED, nShared |-> 1, nLock |-> inode[p].nLock + 1]]
      /\ UNCHANGED <<open, queue, asleep, timeouts>>
  BY RequestKnows DEF LockSharedFirst, waitVars
<1>2. inode[p].eFileLock <= SHARED
  <2>1. held[f] = eFileLock[f] /\ SHARED > held[f] /\ held[f] \in Level
        /\ inode[p].eFileLock \in Level
    BY RequestKnows DEF LockSharedFirst
  <2>2. inode[p].eFileLock \notin {SHARED, RESERVED} /\ ~Precluded(f, SHARED)
    BY DEF LockSharedFirst
  <2> QED BY <2>1, <2>2 DEF Precluded
<1> QED BY <1>1, <1>2, CalmRaise

LEMMA ReservedWaits ==
  ASSUME LockInv, LockInv', WaitInv, NEW f \in File, LockReserved(f)
  PROVE  WaitInv'
<1> DEFINE p == ProcessOf[f]
<1>1. /\ f \notin asleep /\ Raise(f, RESERVED) /\ RESERVED \in Level
      /\ inode' = [inode EXCEPT ![p].eFileLock = RESERVED]
      /\ UNCHANGED <<open, queue, asleep, timeouts>>
  BY RequestKnows DEF LockReserved, waitVars
<1>2. inode[p].eFileLock <= SHARED
  <2>1. held[f] = eFileLock[f] /\ held[f] = SHARED
    BY RequestKnows DEF LockReserved
  <2> QED BY <2>1 DEF LockReserved, Precluded
<1>3. inode' = [inode EXCEPT ![p] = [inode[p] EXCEPT !.eFileLock = RESERVED]]
  BY <1>1
<1> QED BY <1>1, <1>2, <1>3, CalmRaise

\* Two that hold are two readers by the record.
LEMMA TwoHolders ==
  ASSUME LockInv, NEW p \in Process, NEW f \in Holders(p), NEW g \in Holders(p), f # g
  PROVE  inode[p].nShared > 1
<1>1. Cardinality(Holders(p)) \in Nat /\ inode[p].nShared = Cardinality(Holders(p))
  BY HoldersFinite DEF LockInv, InodeAgrees, InodeCountsHolders
<1>2. ~(Cardinality(Holders(p)) <= 1)
  BY OneHolder
<1> QED BY <1>1, <1>2

\* WCDBOsWait does one of three things.
LEMMA WaitCases ==
  ASSUME LockInv, WaitTypeOK, NEW f \in File, NEW level \in Level,
         NEW flag \in {"WAIT_SHARED", "WAIT_EXCLUSIVE"}, WCDBOsWait(f, level, flag)
  PROVE  \/ UNCHANGED <<queue, asleep>>
         \/ /\ level > SHARED /\ queue[ProcessOf[f]] # <<>>
            /\ 1 \in 0..Len(queue[ProcessOf[f]])
            /\ Pops(ProcessOf[f], 1)
         \/ Pushes(f, level, flag)
<1> DEFINE p == ProcessOf[f]
<1>1. p \in Process /\ queue[p] \in Seq(WaitInfo)
  BY FileLockAssumption DEF WaitTypeOK
<1>2. CASE bWait[f] /\ WouldDeadlock(queue[p], level)
  <2>1. level > SHARED /\ queue[p] # <<>>
    BY <1>2 DEF WouldDeadlock
  <2>2. /\ queue' = [queue EXCEPT ![p] = Tail(@)]
        /\ asleep' = asleep \ {Head(queue[p]).thread}
    BY <1>2 DEF WCDBOsWait
  <2>3. /\ Tail(queue[p]) = SubSeq(queue[p], 1 + 1, Len(queue[p]))
        /\ Head(queue[p]) = queue[p][1] /\ 1 \in 0..Len(queue[p])
    BY <1>1, <2>1
  <2>4. queue' = [queue EXCEPT ![p] = SubSeq(@, 1 + 1, Len(@))]
    BY <2>2, <2>3
  <2>5. asleep' = asleep \ {queue[p][i].thread : i \in 1..1}
    BY <2>2, <2>3
  <2> QED BY <2>1, <2>3, <2>4, <2>5 DEF Pops
<1>3. CASE ~(bWait[f] /\ WouldDeadlock(queue[p], level))
  BY <1>3 DEF WCDBOsWait, Pushes
<1> QED BY <1>2, <1>3

\* A step of f that works on the queue of its process only.
WorksOn(f, p) ==
  /\ f \in open /\ f \notin asleep /\ ProcessOf[f] = p
  /\ UNCHANGED <<open, timeouts>>
  /\ \A q \in Process \ {p} : inode'[q] = inode[q]
  /\ \A g \in File \ {f} : held'[g] = held[g] /\ eFileLock'[g] = eFileLock[g]
  /\ f \in asleep' => held'[f] = eFileLock'[f]
  /\ \/ UNCHANGED <<queue, asleep>>
     \/ \E n \in 0..Len(queue[p]) : Pops(p, n)
     \/ \E level \in Level, flag \in {"WAIT_SHARED", "WAIT_EXCLUSIVE"} :
          Pushes(f, level, flag)

LEMMA WorkStep ==
  ASSUME WaitInv, NEW f \in File, NEW p \in Process, WorksOn(f, p),
         timeouts = 0 => AllRefused(p)' /\ FrontHasReaders(p)'
  PROVE  WaitInv'
<1>1. WaitTypeOK /\ SleepersAreQueued /\ SleepersKeepLevel
  BY DEF WaitInv
<1>2. /\ queue' \in [Process -> Seq(WaitInfo)]
      /\ \A q \in Process \ {p} : queue'[q] = queue[q]
      /\ asleep' \subseteq asleep \cup {f}
      /\ SleepersAreQueued'
      /\ (\A q \in Process : Neat(q)) => \A q \in Process : Neat(q)'
  <2>1. CASE UNCHANGED <<queue, asleep>>
    BY <1>1, <2>1 DEF WaitTypeOK, SleepersAreQueued, Queued, Neat
  <2>2. ASSUME NEW n \in 0..Len(queue[p]), Pops(p, n)
        PROVE  <1>2!:
    <3>1. asleep' \subseteq asleep \cup {f}
      BY <2>2 DEF Pops
    <3> QED BY <1>1, <2>2, <3>1, PopEffect, PopQueued, PopNeat
  <2>3. ASSUME NEW level \in Level, NEW flag \in {"WAIT_SHARED", "WAIT_EXCLUSIVE"},
               Pushes(f, level, flag)
        PROVE  <1>2!:
    <3>1. asleep' \subseteq asleep \cup {f} /\ f \in File \ asleep /\ ProcessOf[f] = p
      BY <2>3 DEF Pushes, WorksOn
    <3> QED BY ZenonT(60), <1>1, <2>3, <3>1, PushEffect, PushQueued, PushNeat
  <2> QED BY <2>1, <2>2, <2>3 DEF WorksOn
<1>3. WaitTypeOK'
  BY <1>1, <1>2 DEF WaitTypeOK, WorksOn
<1>4. SleepersKeepLevel'
  BY <1>1, <1>2 DEF WaitTypeOK, WorksOn, SleepersKeepLevel
<1>5. ASSUME timeouts = 0, NEW q \in Process \ {p}
      PROVE  AllRefused(q)' /\ FrontHasReaders(q)'
  <2>1. Neat(q) /\ AllRefused(q) /\ FrontHasReaders(q)
    BY <1>5 DEF WaitInv, Punctual
  <2>2. queue'[q] = queue[q] /\ inode'[q] = inode[q]
    BY <1>2 DEF WorksOn
  <2>3. ASSUME NEW i \in 1..Len(queue[q])
        PROVE  Refused(queue[q][i], held', inode'[q])
    <3>1. Refused(queue[q][i], held, inode[q]) /\ ProcessOf[queue[q][i].thread] = q
      BY <2>1 DEF Neat, AllRefused
    <3>2. queue[q][i].thread \in File \ {f}
      BY <1>1, <3>1, EntryType DEF WorksOn
    <3>3. held'[queue[q][i].thread] = held[queue[q][i].thread]
      BY <3>2 DEF WorksOn
    <3> QED BY <2>2, <3>1, <3>3 DEF Refused
  <2>4. AllRefused(q)'
    BY <2>2, <2>3 DEF AllRefused, Refused
  <2> QED BY <2>1, <2>2, <2>4 DEF FrontHasReaders
<1>6. timeouts' = timeouts
  BY DEF WorksOn
<1>7. timeouts = 0 => Punctual'
  BY <1>2, <1>5 DEF Punctual, WaitInv
<1> QED BY <1>2, <1>3, <1>4, <1>6, <1>7 DEF WaitInv

\* The entries that are refused stay so, with the one pushed, if there is one.
LEMMA StillRefused ==
  ASSUME WaitTypeOK, NEW p \in Process, NEW f \in File, ProcessOf[f] = p,
         \A i \in 1..Len(queue[p]) : Refused(queue[p][i], held', inode'[p]),
         \/ UNCHANGED <<queue, asleep>>
         \/ \E n \in 0..Len(queue[p]) : Pops(p, n)
         \/ \E level \in Level, flag \in {"WAIT_SHARED", "WAIT_EXCLUSIVE"} :
              /\ Pushes(f, level, flag)
              /\ Refused([thread |-> f, pFile |-> f, eFileLock |-> level,
                          eFlag |-> flag], held', inode'[p])
  PROVE  AllRefused(p)'
<1>1. Len(queue[p]) \in Nat
  BY DEF WaitTypeOK
<1>2. SUFFICES ASSUME NEW i \in 1..Len(queue'[p])
               PROVE  Refused(queue'[p][i], held', inode'[p])
  BY DEF AllRefused, Refused
<1>3. CASE UNCHANGED <<queue, asleep>>
  BY <1>3 DEF Refused
<1>4. ASSUME NEW n \in 0..Len(queue[p]), Pops(p, n)
      PROVE  Refused(queue'[p][i], held', inode'[p])
  <2>1. i + n \in 1..Len(queue[p]) /\ queue'[p][i] = queue[p][i + n]
    BY <1>4, PopEffect
  <2>2. Refused(queue[p][i + n], held', inode'[p])
    BY <2>1
  <2> QED BY <2>1, <2>2 DEF Refused
<1>5. ASSUME NEW level \in Level, NEW flag \in {"WAIT_SHARED", "WAIT_EXCLUSIVE"},
             Pushes(f, level, flag),
             Refused([thread |-> f, pFile |-> f, eFileLock |-> level, eFlag |-> flag], held', inode'[p])
      PROVE  Refused(queue'[p][i], held', inode'[p])
  <2> DEFINE info == [thread |-> f, pFile |-> f, eFileLock |-> level, eFlag |-> flag]
  <2>1. /\ Len(queue'[p]) = Len(queue[p]) + 1
        /\ \/ /\ queue'[p][1] = info
              /\ \A k \in 1..Len(queue[p]) : queue'[p][k + 1] = queue[p][k]
           \/ /\ queue'[p][Len(queue[p]) + 1] = info
              /\ \A k \in 1..Len(queue[p]) : queue'[p][k] = queue[p][k]
    BY <1>5, PushEffect
  <2>2. Refused(info, held', inode'[p])
    BY <1>5
  <2> HIDE DEF info
  <2>3. CASE /\ queue'[p][1] = info
             /\ \A k \in 1..Len(queue[p]) : queue'[p][k + 1] = queue[p][k]
    <3>1. CASE i = 1
      BY <2>2, <2>3, <3>1 DEF Refused
    <3>2. CASE i # 1
      <4>1. i - 1 \in 1..Len(queue[p]) /\ (i - 1) + 1 = i
        BY <1>1, <2>1, <3>2
      <4>2. queue'[p][i] = queue[p][i - 1] /\ Refused(queue[p][i - 1], held', inode'[p])
        BY <2>3, <4>1
      <4> QED BY <4>2 DEF Refused
    <3> QED BY <3>1, <3>2
  <2>4. CASE /\ queue'[p][Len(queue[p]) + 1] = info
             /\ \A k \in 1..Len(queue[p]) : queue'[p][k] = queue[p][k]
    <3>1. CASE i = Len(queue[p]) + 1
      BY <2>2, <2>4, <3>1 DEF Refused
    <3>2. CASE i # Len(queue[p]) + 1
      <4>1. i \in 1..Len(queue[p])
        BY <1>1, <2>1, <3>2
      <4>2. queue'[p][i] = queue[p][i] /\ Refused(queue[p][i], held', inode'[p])
        BY <2>4, <4>1
      <4> QED BY <4>2 DEF Refused
    <3> QED BY <3>1, <3>2
  <2> QED BY <2>1, <2>3, <2>4
<1> QED BY <1>3, <1>4, <1>5

\* The front after a push is the front before, or the entry pushed.
LEMMA FrontOfPush ==
  ASSUME WaitTypeOK, NEW f \in File, NEW level \in Level,
         NEW flag \in {"WAIT_SHARED", "WAIT_EXCLUSIVE"}, Pushes(f, level, flag)
  PROVE  LET p == ProcessOf[f]
         IN  \/ queue'[p][1].eFlag = flag
             \/ queue[p] # <<>> /\ queue'[p][1] = queue[p][1]
<1> DEFINE p == ProcessOf[f]
           info == [thread |-> f, pFile |-> f, eFileLock |-> level, eFlag |-> flag]
<1>1. /\ \/ queue'[p][1] = info
         \/ /\ queue'[p][Len(queue[p]) + 1] = info
            /\ \A k \in 1..Len(queue[p]) : queue'[p][k] = queue[p][k]
  BY PushEffect
<1>2. queue[p] \in Seq(WaitInfo) /\ info.eFlag = flag
  BY FileLockAssumption DEF WaitTypeOK
<1> HIDE DEF info
<1>3. CASE queue[p] = <<>>
  BY <1>1, <1>2, <1>3
<1>4. CASE queue[p] # <<>>
  <2>1. 1 \in 1..Len(queue[p])
    BY <1>2, <1>4
  <2> QED BY <1>1, <1>2, <1>4, <2>1
<1> QED BY <1>3, <1>4

LEMMA PrecludedWaits ==
  ASSUME LockInv, WaitInv, NEW f \in File, NEW level \in {SHARED, RESERVED, EXCLUSIVE},
         LockPrecluded(f, level)
  PROVE  WaitInv'
<1> DEFINE p == ProcessOf[f]
<1>0. /\ LegalRequest(f, level) /\ Precluded(f, level)
      /\ WCDBOsWait(f, level, "WAIT_SHARED") /\ level \in Level
      /\ UNCHANGED <<open, held, eFileLock, inode, timeouts>>
  BY DEF LockPrecluded, lockVars
<1>1. /\ f \in open /\ f \notin asleep /\ held[f] = eFileLock[f] /\ held[f] \in Level
      /\ level > held[f] /\ (held[f] = NO_LOCK => level = SHARED)
      /\ p \in Process /\ inode[p].eFileLock \in Level
      /\ (held[f] > SHARED => held[f] = inode[p].eFileLock)
  BY <1>0, RequestKnows
<1>2. WaitTypeOK
  BY DEF WaitInv
<1>3. \/ UNCHANGED <<queue, asleep>>
      \/ /\ level > SHARED /\ queue[p] # <<>> /\ 1 \in 0..Len(queue[p])
         /\ Pops(p, 1)
      \/ Pushes(f, level, "WAIT_SHARED")
  BY <1>0, <1>2, WaitCases
<1>4. WorksOn(f, p)
  BY <1>0, <1>1, <1>3 DEF WorksOn
<1>5. ASSUME timeouts = 0 PROVE AllRefused(p)' /\ FrontHasReaders(p)'
  <2>1. Neat(p) /\ AllRefused(p) /\ FrontHasReaders(p)
    BY <1>1, <1>5 DEF WaitInv, Punctual
  <2>2. \A i \in 1..Len(queue[p]) : Refused(queue[p][i], held', inode'[p])
    BY <1>0, <2>1 DEF AllRefused, Refused
  <2>3. Refused([thread |-> f, pFile |-> f, eFileLock |-> level,
                 eFlag |-> "WAIT_SHARED"], held', inode'[p])
    <3>1. held[f] # inode[p].eFileLock /\ (inode[p].eFileLock >= PENDING \/ level > SHARED)
      BY <1>0, <1>1 DEF Precluded
    <3>2. held[f] \in {NO_LOCK, SHARED}
      BY <1>1, <3>1
    <3>3. held[f] = SHARED => inode[p].eFileLock # NO_LOCK
      <4>1. held[f] = SHARED => Holders(p) # {}
        BY DEF Holders
      <4> QED BY <1>1, <4>1 DEF LockInv, InodeAgrees, InodeCountsHolders
    <3>4. held[f] = NO_LOCK => level = SHARED
      BY <1>1
    <3>5. held[f] = SHARED => level > SHARED
      BY <1>1
    <3>6. held'[f] = held[f] /\ inode'[p].eFileLock = inode[p].eFileLock
      BY <1>0
    <3>7. \/ held'[f] = NO_LOCK /\ level = SHARED /\ inode'[p].eFileLock >= PENDING
          \/ held'[f] = SHARED /\ level > SHARED /\ inode'[p].eFileLock > SHARED
      BY <1>1, <3>1, <3>2, <3>3, <3>4, <3>5, <3>6
    <3> QED BY <3>7 DEF Refused
  <2>4. AllRefused(p)'
    BY <1>0, <1>1, <1>2, <1>3, <2>2, <2>3, StillRefused
  <2>5. FrontHasReaders(p)'
    <3>1. CASE UNCHANGED <<queue, asleep>>
      BY <1>0, <2>1, <3>1 DEF FrontHasReaders
    <3>2. CASE level > SHARED /\ queue[p] # <<>> /\ 1 \in 0..Len(queue[p]) /\ Pops(p, 1)
      <4> SUFFICES ASSUME queue'[p] # <<>>, queue'[p][1].eFlag = "WAIT_EXCLUSIVE"
                   PROVE  inode'[p].nShared > 1
        BY DEF FrontHasReaders
      <4>1. /\ queue' \in [Process -> Seq(WaitInfo)]
            /\ \A i \in 1..Len(queue'[p]) :
                 i + 1 \in 1..Len(queue[p]) /\ queue'[p][i] = queue[p][i + 1]
        BY <1>1, <1>2, <3>2, PopEffect
      <4>2. 1 \in 1..Len(queue'[p])
        BY <1>1, <4>1
      <4>3. 2 \in 1..Len(queue[p]) /\ queue'[p][1] = queue[p][2]
        BY <4>1, <4>2
      <4>4. held[queue[p][2].thread] = PENDING
        BY <1>1, <1>2, <2>1, <4>3, WriterWaits
      <4>5. /\ queue[p][2].thread \in File /\ queue[p][2].thread \in asleep
            /\ ProcessOf[queue[p][2].thread] = p
        BY <1>1, <1>2, <2>1, <4>3, EntryType DEF Neat
      <4>6. queue[p][2].thread \in Holders(p) /\ f \in Holders(p)
        BY <1>1, <3>2, <4>4, <4>5 DEF Holders
      <4> QED BY <1>0, <1>1, <4>5, <4>6, TwoHolders
    <3>3. CASE Pushes(f, level, "WAIT_SHARED")
      <4>1. \/ queue'[p][1].eFlag = "WAIT_SHARED"
            \/ queue[p] # <<>> /\ queue'[p][1] = queue[p][1]
        BY <1>0, <1>2, <3>3, FrontOfPush
      <4> QED BY <1>0, <2>1, <4>1 DEF FrontHasReaders
    <3> QED BY <1>3, <3>1, <3>2, <3>3
  <2> QED BY <2>4, <2>5
<1> QED BY <1>1, <1>4, <1>5, WorkStep

\* Whoever may ask for EXCLUSIVE is the writer, or there is none: no entry
\* waits for readers on behalf of another.
LEMMA ExclusiveWaits ==
  ASSUME LockInv, LockInv', WaitInv, NEW f \in File, LockExclusive(f)
  PROVE  WaitInv'
<1> DEFINE p == ProcessOf[f]
           alone == inode[p].nShared <= 1
<1>0. LegalRequest(f, EXCLUSIVE) /\ ~Precluded(f, EXCLUSIVE)
  BY DEF LockExclusive
<1>1. /\ f \in open /\ f \notin asleep /\ held[f] = eFileLock[f] /\ held[f] \in Level
      /\ held[f] # NO_LOCK
      /\ p \in Process /\ inode[p].eFileLock \in Level /\ inode[p].nShared \in Nat
      /\ held[f] = inode[p].eFileLock
  BY <1>0, RequestKnows DEF Precluded
<1>2. PICK level \in {PENDING, EXCLUSIVE} :
        /\ held' = [held EXCEPT ![f] = level]
        /\ eFileLock' = [eFileLock EXCEPT ![f] = level]
        /\ inode' = [inode EXCEPT ![p].eFileLock = level]
        /\ level = EXCLUSIVE => alone
  BY ExclusiveEffect
<1>3. /\ WaitTypeOK
      /\ held \in [File -> Level] /\ eFileLock \in [File -> Level]
      /\ inode \in [Process -> [eFileLock : Level, nShared : Nat, nLock : Nat]]
  BY DEF WaitInv, LockInv, LockTypeOK
<1>4. /\ held'[f] = level /\ eFileLock'[f] = level
      /\ \A g \in File \ {f} : held'[g] = held[g] /\ eFileLock'[g] = eFileLock[g]
      /\ inode'[p].eFileLock = level /\ inode'[p].nShared = inode[p].nShared
      /\ \A q \in Process \ {p} : inode'[q] = inode[q]
  BY <1>1, <1>2, <1>3
<1>5. /\ UNCHANGED <<open, timeouts>>
      /\ alone => UNCHANGED <<queue, asleep>>
      /\ ~alone => WCDBOsWait(f, EXCLUSIVE, "WAIT_EXCLUSIVE")
  BY DEF LockExclusive
<1>6. \/ UNCHANGED <<queue, asleep>>
      \/ ~alone /\ 1 \in 0..Len(queue[p]) /\ Pops(p, 1)
      \/ ~alone /\ Pushes(f, EXCLUSIVE, "WAIT_EXCLUSIVE")
  BY <1>3, <1>5, WaitCases
<1>7. WorksOn(f, p)
  BY <1>1, <1>4, <1>5, <1>6 DEF WorksOn
<1>8. ASSUME timeouts = 0 PROVE AllRefused(p)' /\ FrontHasReaders(p)'
  <2>1. Neat(p) /\ AllRefused(p) /\ FrontHasReaders(p)
    BY <1>1, <1>8 DEF WaitInv, Punctual
  <2>2. ASSUME NEW i \in 1..Len(queue[p])
        PROVE  /\ queue[p][i].eFlag # "WAIT_EXCLUSIVE"
               /\ Refused(queue[p][i], held', inode'[p])
    <3>1. /\ queue[p][i].thread \in File /\ queue[p][i].thread # f
          /\ ProcessOf[queue[p][i].thread] = p
          /\ Refused(queue[p][i], held, inode[p])
      BY <1>1, <1>3, <2>1, EntryType DEF Neat, AllRefused
    <3>2. held'[queue[p][i].thread] = held[queue[p][i].thread]
      BY <1>4, <3>1
    <3>3. held[queue[p][i].thread] # PENDING
      <4> SUFFICES ASSUME held[queue[p][i].thread] = PENDING PROVE FALSE
        OBVIOUS
      <4>1. held[f] = PENDING /\ f \in Holders(p)
        BY <1>1, <3>1 DEF LockInv, InodeAgrees, OneWriterPerInode, Holders
      <4>2. held[f] = SHARED
        BY <3>1, <4>1 DEF LockInv, InodeAgrees, OneWriterPerInode
      <4> QED BY <4>1, <4>2
    <3> QED BY <1>4, <3>1, <3>2, <3>3 DEF Refused
  <2>3. ~alone => Refused([thread |-> f, pFile |-> f, eFileLock |-> EXCLUSIVE,
                           eFlag |-> "WAIT_EXCLUSIVE"], held', inode'[p])
    BY <1>2, <1>4 DEF Refused
  <2>4. AllRefused(p)'
    <3>1. \A i \in 1..Len(queue[p]) : Refused(queue[p][i], held', inode'[p])
      BY <2>2
    <3>2. CASE UNCHANGED <<queue, asleep>>
      BY <1>1, <1>3, <3>1, <3>2, StillRefused
    <3>3. CASE 1 \in 0..Len(queue[p]) /\ Pops(p, 1)
      BY <1>1, <1>3, <3>1, <3>3, StillRefused
    <3>4. CASE ~alone /\ Pushes(f, EXCLUSIVE, "WAIT_EXCLUSIVE")
      <4>1. EXCLUSIVE \in Level
        OBVIOUS
      <4> HIDE DEF EXCLUSIVE, Level
      <4>2. \E l \in Level, flag \in {"WAIT_SHARED", "WAIT_EXCLUSIVE"} :
              /\ Pushes(f, l, flag)
              /\ Refused([thread |-> f, pFile |-> f, eFileLock |-> l, eFlag |-> flag],
                         held', inode'[p])
        BY <2>3, <3>4, <4>1
      <4> QED BY <1>1, <1>3, <3>1, <4>2, StillRefused
    <3> QED BY <1>6, <3>2, <3>3, <3>4
  <2>5. FrontHasReaders(p)'
    <3>1. CASE alone
      <4>1. queue' = queue
        BY <1>5, <3>1
      <4>2. queue[p] # <<>> => 1 \in 1..Len(queue[p])
        BY <1>1, <1>3 DEF WaitTypeOK
      <4> QED BY <2>2, <4>1, <4>2 DEF FrontHasReaders
    <3>2. CASE ~alone
      BY <1>1, <1>4, <3>2 DEF FrontHasReaders
    <3> QED BY <3>1, <3>2
  <2> QED BY <2>4, <2>5
<1> QED BY <1>1, <1>7, <1>8, WorkStep

\* When the front is blocked.
LEMMA Blocks ==
  ASSUME NEW w, NEW ino, NEW levels, FALSE \in Passes(w, ino, levels)
  PROVE  /\ w.eFlag = "WAIT_EXCLUSIVE" => w.eFileLock = EXCLUSIVE /\ ino.nShared > 1
         /\ w.eFlag # "WAIT_EXCLUSIVE" /\ w.pFile # Gone =>
              /\ levels[w.pFile] # ino.eFileLock
              /\ ino.eFileLock >= PENDING \/ w.eFileLock > SHARED
<1>1. ASSUME w.eFlag = "WAIT_EXCLUSIVE"
      PROVE  w.eFileLock = EXCLUSIVE /\ ino.nShared > 1
  <2> DEFINE P == w.eFileLock = EXCLUSIVE /\ ino.nShared > 1
  <2>1. FALSE \in {~P}
    BY <1>1 DEF Passes
  <2> HIDE DEF P
  <2>2. P
    BY <2>1
  <2> QED BY <2>2 DEF P
<1>2. ASSUME w.eFlag # "WAIT_EXCLUSIVE", w.pFile # Gone
      PROVE  /\ levels[w.pFile] # ino.eFileLock
             /\ ino.eFileLock >= PENDING \/ w.eFileLock > SHARED
  <2> DEFINE P == /\ levels[w.pFile] # ino.eFileLock
                  /\ ino.eFileLock >= PENDING \/ w.eFileLock > SHARED
  <2>1. FALSE \in {~P}
    BY <1>2 DEF Passes
  <2> HIDE DEF P
  <2>2. P
    BY <2>1
  <2> QED BY <2>2 DEF P
<1> QED BY <1>1, <1>2

\* An unlock that brings the inode down wakes all; one that only takes a reader
\* away stops at a front that is still refused.
LEMMA UnlockWaits ==
  ASSUME LockInv, WaitInv, NEW f \in File, NEW to \in {NO_LOCK, SHARED}, Unlock(f, to)
  PROVE  WaitInv'
<1> DEFINE p == ProcessOf[f]
<1>1. /\ f \in open /\ f \notin asleep /\ p \in Process
      /\ UNCHANGED <<open, timeouts>> /\ WaitTypeOK
      /\ held \in [File -> Level]
      /\ inode \in [Process -> [eFileLock : Level, nShared : Nat, nLock : Nat]]
  BY FileLockAssumption DEF Unlock, Free, WaitInv, LockInv, LockTypeOK
<1>2. /\ held' = [held EXCEPT ![f] = to] /\ eFileLock' = eFileLock /\ f \in Holders(p)
      /\ Leaves(f, to) \/ Lowers(f, to) \/ LeavesOthers(f, to)
  BY UnlockEffect
<1>3. /\ \A g \in File \ {f} : held'[g] = held[g]
      /\ \A q \in Process \ {p} : inode'[q] = inode[q]
  BY <1>1, <1>2 DEF Leaves, Lowers, LeavesOthers
<1>4. WCDBOsTrySignal(p, inode'[p])
  BY <1>1 DEF Unlock
<1>5. PICK n \in 0..Len(queue[p]) :
        /\ n < Len(queue[p]) => FALSE \in Passes(queue[p][n + 1], inode'[p], eFileLock)
        /\ Pops(p, n)
  BY <1>4 DEF WCDBOsTrySignal, Pops
<1>6. f \notin asleep'
  BY <1>1, <1>5 DEF Pops
<1>7. WorksOn(f, p)
  BY <1>1, <1>2, <1>3, <1>5, <1>6 DEF WorksOn
<1>8. /\ queue' \in [Process -> Seq(WaitInfo)] /\ Len(queue[p]) \in Nat
      /\ Len(queue'[p]) = Len(queue[p]) - n
      /\ \A i \in 1..Len(queue'[p]) :
           i + n \in 1..Len(queue[p]) /\ queue'[p][i] = queue[p][i + n]
  BY SMTT(30), <1>1, <1>5, PopEffect DEF WaitTypeOK
<1>9. ASSUME timeouts = 0 PROVE AllRefused(p)' /\ FrontHasReaders(p)'
  <2>1. Neat(p) /\ AllRefused(p)
    BY <1>1, <1>9 DEF WaitInv, Punctual
  <2>2. ASSUME NEW i \in 1..Len(queue[p])
        PROVE  /\ queue[p][i].thread \in File \ {f}
               /\ queue[p][i].pFile = queue[p][i].thread
               /\ ProcessOf[queue[p][i].thread] = p
               /\ held'[queue[p][i].thread] = held[queue[p][i].thread]
               /\ eFileLock[queue[p][i].thread] = held[queue[p][i].thread]
               /\ Refused(queue[p][i], held, inode[p])
               /\ queue[p][i].pFile # Gone
    <3>1. /\ queue[p][i].thread \in File /\ queue[p][i].thread \in asleep
          /\ queue[p][i].pFile = queue[p][i].thread
          /\ ProcessOf[queue[p][i].thread] = p
          /\ Refused(queue[p][i], held, inode[p])
      BY <1>1, <2>1, EntryType DEF Neat, AllRefused
    <3>2. eFileLock[queue[p][i].thread] = held[queue[p][i].thread]
      BY <3>1 DEF WaitInv, SleepersKeepLevel
    <3> QED BY <1>1, <1>3, <3>1, <3>2, FileLockAssumption
  <2>3. CASE Leaves(f, to) \/ Lowers(f, to)
    <3>1. \/ /\ inode'[p].eFileLock = NO_LOCK /\ inode'[p].nShared = 0
             /\ Holders(p) = {f}
          \/ inode'[p].eFileLock = SHARED /\ held[f] > SHARED
      BY <1>1, <2>3 DEF Leaves, Lowers
    <3>2. ASSUME NEW i \in 1..Len(queue[p]),
                 FALSE \in Passes(queue[p][i], inode'[p], eFileLock)
          PROVE  FALSE
      <4> DEFINE w == queue[p][i]
      <4>a. /\ w.eFlag = "WAIT_EXCLUSIVE" => inode'[p].nShared > 1
            /\ w.eFlag # "WAIT_EXCLUSIVE" /\ w.pFile # Gone =>
                 /\ eFileLock[w.pFile] # inode'[p].eFileLock
                 /\ inode'[p].eFileLock >= PENDING \/ w.eFileLock > SHARED
        BY <3>2, Blocks
      <4>0. /\ w.thread \in File \ {f} /\ w.pFile = w.thread /\ ProcessOf[w.thread] = p
            /\ eFileLock[w.pFile] = held[w.thread]
            /\ Refused(w, held, inode[p]) /\ w.pFile # Gone
        BY <2>2
      <4>1. held[w.thread] >= SHARED => w.thread \in Holders(p)
        BY <4>0 DEF Holders
      <4> HIDE DEF w
      <4>2. held[f] > SHARED => held[w.thread] # PENDING
        <5> SUFFICES ASSUME held[f] > SHARED, held[w.thread] = PENDING PROVE FALSE
          OBVIOUS
        <5>1. w.thread \in Holders(p)
          BY <4>1
        <5>2. held[w.thread] = SHARED
          BY <4>0, <5>1 DEF LockInv, InodeAgrees, OneWriterPerInode
        <5> QED BY <5>2
      <4>3. CASE w.eFlag = "WAIT_EXCLUSIVE"
        <5>1. held[w.thread] = PENDING
          BY <4>0, <4>3 DEF Refused
        <5>2. inode'[p].nShared = 0
          BY <3>1, <4>2, <5>1
        <5> QED BY <4>3, <4>a, <5>2
      <4>4. CASE w.eFlag # "WAIT_EXCLUSIVE"
        <5>2. inode'[p].eFileLock \in {NO_LOCK, SHARED}
          BY <3>1
        <5>3. w.eFileLock > SHARED => eFileLock[w.pFile] = inode'[p].eFileLock
          <6> SUFFICES ASSUME w.eFileLock > SHARED
                       PROVE  eFileLock[w.pFile] = inode'[p].eFileLock
            OBVIOUS
          <6>1. held[w.thread] = SHARED
            BY <4>0, <4>4 DEF Refused
          <6>2. w.thread \in Holders(p) /\ w.thread # f
            BY <4>0, <4>1, <6>1
          <6> QED BY <3>1, <4>0, <6>1, <6>2
        <5> QED BY <4>0, <4>4, <4>a, <5>2, <5>3
      <4> QED BY <4>3, <4>4 DEF w
    <3>3. n = Len(queue[p])
      <4> SUFFICES ASSUME n # Len(queue[p]) PROVE FALSE
        OBVIOUS
      <4>1. n < Len(queue[p]) /\ n + 1 \in 1..Len(queue[p])
        BY <1>8
      <4> QED BY <1>5, <3>2, <4>1
    <3>4. Len(queue'[p]) = 0
      BY <1>8, <3>3
    <3>5. queue'[p] = <<>>
      BY <1>1, <1>8, <3>4
    <3> QED BY <3>4, <3>5 DEF AllRefused, FrontHasReaders
  <2>4. CASE LeavesOthers(f, to)
    <3>1. inode'[p].eFileLock = inode[p].eFileLock
      BY <1>1, <2>4 DEF LeavesOthers
    <3>2. \A i \in 1..Len(queue[p]) : Refused(queue[p][i], held', inode'[p])
      BY <2>2, <3>1 DEF Refused
    <3>3. AllRefused(p)'
      BY <1>1, <1>5, <3>2, StillRefused
    <3>4. FrontHasReaders(p)'
      <4> SUFFICES ASSUME queue'[p] # <<>>, queue'[p][1].eFlag = "WAIT_EXCLUSIVE"
                   PROVE  inode'[p].nShared > 1
        BY DEF FrontHasReaders
      <4>1. 1 \in 1..Len(queue'[p])
        BY <1>1, <1>8
      <4>2. n + 1 \in 1..Len(queue[p]) /\ n < Len(queue[p])
            /\ queue'[p][1] = queue[p][n + 1]
        BY <1>8, <4>1
      <4>3. FALSE \in Passes(queue[p][n + 1], inode'[p], eFileLock)
        BY <1>5, <4>2
      <4> QED BY <4>2, <4>3, Blocks
    <3> QED BY <3>3, <3>4
  <2> QED BY <1>2, <2>3, <2>4
<1> QED BY <1>1, <1>7, <1>9, WorkStep

\* A close finds no entry of its own before a timeout, and the last one of the
\* process an empty queue; later the entries it orphans keep their threads.
LEMMA CloseWaits ==
  ASSUME WaitInv, NEW f \in File, Close(f)
  PROVE  WaitInv'
<1> DEFINE p == ProcessOf[f]
           lastOfInode == {g \in open : ProcessOf[g] = p} = {f}
           orphaned == [i \in DOMAIN queue[p] |->
                          IF queue[p][i].pFile = f THEN [queue[p][i] EXCEPT !.pFile = Gone]
                          ELSE queue[p][i]]
<1>1. /\ f \in open /\ f \notin asleep /\ p \in Process /\ WaitTypeOK
      /\ open' = open \ {f} /\ asleep \subseteq open'
      /\ UNCHANGED <<held, inode, eFileLock, asleep, timeouts>>
      /\ queue' = [queue EXCEPT ![p] = IF lastOfInode THEN <<>> ELSE orphaned]
  BY FileLockAssumption DEF Close, Free, WaitInv, WaitTypeOK
<1>2. queue[p] \in Seq(WaitInfo) /\ queue \in [Process -> Seq(WaitInfo)]
      /\ DOMAIN queue[p] = 1..Len(queue[p]) /\ Len(queue[p]) \in Nat
  BY <1>1 DEF WaitTypeOK
<1>3. /\ orphaned \in Seq(WaitInfo) /\ DOMAIN orphaned = DOMAIN queue[p]
      /\ \A i \in DOMAIN queue[p] : orphaned[i].thread = queue[p][i].thread
  <2>1. ASSUME NEW i \in DOMAIN queue[p]
        PROVE  orphaned[i] \in WaitInfo /\ orphaned[i].thread = queue[p][i].thread
    <3>1. queue[p][i] \in WaitInfo
      BY <1>2
    <3>2. [queue[p][i] EXCEPT !.pFile = Gone] \in WaitInfo
          /\ [queue[p][i] EXCEPT !.pFile = Gone].thread = queue[p][i].thread
      BY <3>1 DEF WaitInfo
    <3> QED BY <3>1, <3>2
  <2>2. orphaned \in [1..Len(queue[p]) -> WaitInfo]
    BY <1>2, <2>1
  <2> HIDE DEF orphaned
  <2> QED BY SMTT(30), <1>2, <2>1, <2>2
<1>4. \A g \in asleep : lastOfInode => ProcessOf[g] # p
  BY <1>1 DEF WaitTypeOK
<1> HIDE DEF orphaned
<1>5. /\ queue' \in [Process -> Seq(WaitInfo)]
      /\ queue'[p] = IF lastOfInode THEN <<>> ELSE orphaned
      /\ \A q \in Process \ {p} : queue'[q] = queue[q]
  <2>1. <<>> \in Seq(WaitInfo)
    OBVIOUS
  <2> QED BY <1>1, <1>2, <1>3, <2>1
<1>6. WaitTypeOK' /\ SleepersKeepLevel'
  BY <1>1, <1>5 DEF WaitInv, WaitTypeOK, SleepersKeepLevel
<1>7. SleepersAreQueued'
  <2> SUFFICES ASSUME NEW g \in asleep
               PROVE  \E i \in DOMAIN queue'[ProcessOf[g]] : queue'[ProcessOf[g]][i].thread = g
    BY <1>1 DEF SleepersAreQueued, Queued
  <2>1. PICK i \in DOMAIN queue[ProcessOf[g]] : queue[ProcessOf[g]][i].thread = g
    BY DEF WaitInv, SleepersAreQueued, Queued
  <2>2. ProcessOf[g] \in Process
    BY <1>1, FileLockAssumption DEF WaitTypeOK
  <2>3. CASE ProcessOf[g] = p
    <3>1. ~lastOfInode
      BY <1>4, <2>3
    <3>2. queue'[p] = orphaned
      BY <1>5, <3>1
    <3> QED BY <1>3, <2>1, <2>3, <3>2
  <2>4. CASE ProcessOf[g] # p
    BY <1>5, <2>1, <2>2, <2>4
  <2> QED BY <2>3, <2>4
<1>8. ASSUME timeouts = 0 PROVE queue' = queue /\ Punctual
  <2>1. Punctual /\ Neat(p)
    BY <1>1, <1>8 DEF WaitInv, Punctual
  <2>2. \A i \in DOMAIN queue[p] : queue[p][i].pFile # f /\ ~lastOfInode
    BY <1>1, <1>2, <1>4, <2>1 DEF Neat
  <2>3. orphaned = queue[p]
    <3>1. \A i \in DOMAIN queue[p] : orphaned[i] = queue[p][i]
      BY <2>2 DEF orphaned
    <3> QED BY SMTT(30), <1>2, <1>3, <3>1
  <2>4. lastOfInode => queue[p] = <<>>
    <3> SUFFICES ASSUME lastOfInode, queue[p] # <<>> PROVE FALSE
      OBVIOUS
    <3>1. 1 \in DOMAIN queue[p]
      BY <1>2
    <3> QED BY <2>2, <3>1
  <2>5. queue'[p] = queue[p]
    BY <1>5, <2>3, <2>4
  <2> QED BY <1>2, <1>5, <2>1, <2>5
<1>9. timeouts' = 0 => Punctual'
  BY <1>1, <1>8 DEF Punctual, Neat, AllRefused, Refused, FrontHasReaders
<1> QED BY <1>6, <1>7, <1>9 DEF WaitInv

LEMMA WaitInvInit == Init => WaitInv
<1> SUFFICES ASSUME Init PROVE WaitInv
  OBVIOUS
<1>1. \A p \in Process : queue[p] = <<>> /\ Len(queue[p]) = 0
  BY DEF Init
<1>2. WaitTypeOK
  BY DEF Init, WaitTypeOK
<1>3. SleepersAreQueued /\ SleepersKeepLevel
  BY DEF Init, SleepersAreQueued, SleepersKeepLevel
<1>4. Punctual
  BY <1>1 DEF Punctual, Neat, AllRefused, FrontHasReaders
<1> QED BY <1>2, <1>3, <1>4 DEF WaitInv

LEMMA WaitInvNext == WaitInv /\ LockInv /\ LockInv' /\ [Next]_vars => WaitInv'
<1> SUFFICES ASSUME WaitInv, LockInv, LockInv', [Next]_vars PROVE WaitInv'
  OBVIOUS
<1>0. open \subseteq File /\ asleep \subseteq open
      /\ \A g \in asleep : held[g] = eFileLock[g] /\ g \in File
  BY DEF WaitInv, WaitTypeOK, SleepersKeepLevel
<1>1. ASSUME NEW f \in File, Open(f) PROVE WaitInv'
  BY <1>0, <1>1, QuietStep DEF Open
<1>2. ASSUME NEW f \in File, Close(f) PROVE WaitInv'
  BY <1>2, CloseWaits
<1>3. ASSUME NEW f \in File, NEW b \in BOOLEAN, SetWait(f, b) PROVE WaitInv'
  BY <1>0, <1>3, QuietStep DEF SetWait, lockVars
<1>4. ASSUME NEW f \in File, Lock(f) PROVE WaitInv'
  BY <1>4, PrecludedWaits, SharedAgainWaits, SharedFirstWaits, ReservedWaits,
     ExclusiveWaits DEF Lock
<1>5. ASSUME NEW f \in File, Timeout(f) PROVE WaitInv'
  BY <1>5, TimeoutStep
<1>6. ASSUME NEW f \in File, NEW to \in {NO_LOCK, SHARED}, Unlock(f, to) PROVE WaitInv'
  BY <1>6, UnlockWaits
<1>7. ASSUME NEW f \in File, UnlockReturn(f) PROVE WaitInv'
  <2>1. \A g \in asleep : eFileLock'[g] = eFileLock[g]
    BY <1>0, <1>7 DEF UnlockReturn, LockInv, LockTypeOK
  <2> QED BY <1>0, <1>7, <2>1, QuietStep DEF UnlockReturn, waitVars
<1>8. CASE UNCHANGED vars
  BY <1>0, <1>8, QuietStep DEF vars
<1> QED BY <1>1, <1>2, <1>3, <1>4, <1>5, <1>6, <1>7, <1>8 DEF Next

\* Whoever sleeps for a lock is queued where an unlock finds it, and until a wait
\* has timed out each entry is of a sleeper whose request could not pass and of
\* a file its process still holds, so that an unlock is yet to come: for any
\* number of connections and processes (WCDBOsWait, WCDBOsTrySignal).
THEOREM SleepersCanBeWoken == Spec => []WaitQueueIsSound
<1>1. Spec => [](WaitInv /\ LockInv)
  <2>1. Init => WaitInv /\ LockInv
    BY WaitInvInit, InitLockInv
  <2>2. (WaitInv /\ LockInv) /\ [Next]_vars => (WaitInv /\ LockInv)'
    BY NextLockInv, WaitInvNext
  <2> QED BY <2>1, <2>2, PTL DEF Spec
<1>2. WaitInv /\ LockInv => WaitQueueIsSound
  <2> SUFFICES ASSUME WaitInv, LockInv PROVE WaitQueueIsSound
    OBVIOUS
  <2>1. SleepersAreQueued /\ WaitTypeOK
    BY DEF WaitInv
  <2>2. \A p \in Process : queue[p] \in Seq(WaitInfo) /\ DOMAIN queue[p] = 1..Len(queue[p])
    BY <2>1 DEF WaitTypeOK
  <2>3. NoStaleEntryWithoutTimeout
    BY <2>2 DEF WaitInv, Punctual, Neat, NoStaleEntryWithoutTimeout
  <2>4. NoLostWakeup
    <3> SUFFICES ASSUME timeouts = 0, NEW p \in Process, queue[p] # <<>>
                 PROVE  /\ Passes(Head(queue[p]), inode[p], eFileLock) = {FALSE}
                        /\ Holders(p) # {}
      BY DEF NoLostWakeup
    <3> DEFINE w == queue[p][1]
    <3>1. 1 \in 1..Len(queue[p]) /\ Head(queue[p]) = w
      BY <2>2
    <3>2. Neat(p) /\ AllRefused(p) /\ FrontHasReaders(p)
      BY DEF WaitInv, Punctual
    <3>3. /\ Refused(w, held, inode[p]) /\ w.thread \in asleep /\ w.thread \in File
          /\ w.pFile = w.thread
      BY <2>1, <3>1, <3>2, EntryType DEF AllRefused, Neat
    <3>4. eFileLock[w.pFile] = held[w.thread] /\ w.pFile # Gone
      BY <3>3, FileLockAssumption DEF WaitInv, SleepersKeepLevel
    <3>5. Holders(p) # {}
      <4>1. inode[p].eFileLock > SHARED
        BY <2>1, <3>1, <3>2, WriterWaits
      <4> QED BY <4>1 DEF LockInv, InodeAgrees, InodeCountsHolders
    <3>6. w.eFlag = "WAIT_EXCLUSIVE" => w.eFileLock = EXCLUSIVE /\ inode[p].nShared > 1
      BY <3>2, <3>3 DEF Refused, FrontHasReaders
    <3>7. w.eFlag # "WAIT_EXCLUSIVE" =>
            /\ eFileLock[w.pFile] # inode[p].eFileLock
            /\ inode[p].eFileLock >= PENDING \/ w.eFileLock > SHARED
      <4>1. inode[p].eFileLock \in Level
        BY DEF LockInv, LockTypeOK
      <4> QED BY <3>3, <3>4, <4>1 DEF Refused
    <3> HIDE DEF w
    <3>8. Passes(w, inode[p], eFileLock) = {FALSE}
      <4>1. CASE w.eFlag = "WAIT_EXCLUSIVE"
        BY <3>6, <4>1 DEF Passes
      <4>2. CASE w.eFlag # "WAIT_EXCLUSIVE"
        BY <3>4, <3>7, <4>2 DEF Passes
      <4> QED BY <4>1, <4>2
    <3> QED BY <3>1, <3>5, <3>8
  <2> QED BY <2>1, <2>3, <2>4 DEF WaitQueueIsSound
<1> QED BY <1>1, <1>2, PTL

=============================================================================
