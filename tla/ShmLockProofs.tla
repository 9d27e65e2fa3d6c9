--------------------------- MODULE ShmLockProofs ---------------------------
(***************************************************************************)
(* The shared-memory locks of ShmLock.tla for any set of connections,      *)
(* processes and slots: exclusion across processes, and that the last      *)
(* unmap of a process finds nobody waiting.                                *)
(***************************************************************************)
EXTENDS ShmLock, SequenceTheorems, TLAPS

MaskTypeOK ==
  /\ mapped \subseteq Conn
  /\ exclMask \in [Conn -> SUBSET Slot]
  /\ sharedMask \in [Conn -> SUBSET Slot]
  /\ os \in [Slot -> [Process -> ByteLock]]

\* An unmapped connection has no unixShm and so no lock.
OnlyMappedHold == \A c \in Conn \ mapped : exclMask[c] = {} /\ sharedMask[c] = {}

MaskInv == MaskTypeOK /\ OnlyMappedHold /\ ShmExclusion /\ OsMatchesMasks

QueueTypeOK ==
  /\ node \in [Process -> {"none", "probed", "truncated", "open", "purging"}]
  /\ queue \in [Process -> Seq(WaitInfo)]

ShmInv == MaskInv /\ QueueTypeOK /\ WaitersHaveHolder /\ PurgeEnds

LEMMA InitShmInv == Init => ShmInv
<1> SUFFICES ASSUME Init PROVE ShmInv
  OBVIOUS
<1>1. MaskTypeOK /\ OnlyMappedHold
  BY DEF Init, MaskTypeOK, OnlyMappedHold, ByteLock
<1>2. ShmExclusion /\ OsMatchesMasks
  <2>1. ShmExclusion
    BY DEF Init, ShmExclusion
  <2>2. \A q \in Process, s \in Slot : os[s][q] = "none"
    BY DEF Init
  <2>3. \A c \in Conn : exclMask[c] = {} /\ sharedMask[c] = {}
    BY DEF Init
  <2>4. \A q : ConnsOf(q) \subseteq Conn
    BY DEF ConnsOf
  <2> QED BY <2>1, <2>2, <2>3, <2>4 DEF OsMatchesMasks
<1>3. QueueTypeOK
  BY DEF Init, QueueTypeOK
<1>4. WaitersHaveHolder /\ PurgeEnds
  BY DEF Init, WaitersHaveHolder, PurgeEnds
<1> QED BY <1>1, <1>2, <1>3, <1>4 DEF ShmInv, MaskInv

-----------------------------------------------------------------------------
(***************************************************************************)
(* The masks and the byte locks.                                           *)
(***************************************************************************)
LEMMA SetLocksType ==
  ASSUME MaskTypeOK, NEW p \in Process, NEW mask \in SUBSET Slot, NEW type \in ByteLock,
         os' = SetLocks(p, mask, type)
  PROVE  /\ os' \in [Slot -> [Process -> ByteLock]]
         /\ \A s \in Slot : s \in mask => os'[s][p] = type
         /\ \A s \in Slot : s \notin mask => os'[s][p] = os[s][p]
         /\ \A s \in Slot, q \in Process : q # p => os'[s][q] = os[s][q]
BY DEF MaskTypeOK, SetLocks

\* A step that changes the masks of one connection only has to be looked at in
\* its process.
LEMMA MatchElsewhere ==
  ASSUME MaskInv, NEW c \in Conn,
         \A d \in Conn \ {c} : exclMask'[d] = exclMask[d] /\ sharedMask'[d] = sharedMask[d],
         \A s \in Slot, q \in Process : q # ProcessOf[c] => os'[s][q] = os[s][q],
         \A s \in Slot :
           /\ os'[s][ProcessOf[c]] = "write" <=>
                \E d \in ConnsOf(ProcessOf[c]) : s \in exclMask'[d]
           /\ os'[s][ProcessOf[c]] = "read" <=>
                \E d \in ConnsOf(ProcessOf[c]) : s \in sharedMask'[d]
  PROVE  OsMatchesMasks'
<1> SUFFICES ASSUME NEW q \in Process, NEW s \in Slot
             PROVE  /\ os'[s][q] = "write" <=> \E d \in ConnsOf(q) : s \in exclMask'[d]
                    /\ os'[s][q] = "read" <=> \E d \in ConnsOf(q) : s \in sharedMask'[d]
  BY DEF OsMatchesMasks, ConnsOf
<1>1. CASE q = ProcessOf[c]
  BY <1>1
<1>2. CASE q # ProcessOf[c]
  <2>1. os'[s][q] = os[s][q]
    BY <1>2
  <2>2. \A d \in ConnsOf(q) : exclMask'[d] = exclMask[d] /\ sharedMask'[d] = sharedMask[d]
    BY <1>2 DEF ConnsOf
  <2>3. /\ os[s][q] = "write" <=> \E d \in ConnsOf(q) : s \in exclMask[d]
        /\ os[s][q] = "read" <=> \E d \in ConnsOf(q) : s \in sharedMask[d]
    BY DEF MaskInv, OsMatchesMasks
  <2> QED BY <2>1, <2>2, <2>3
<1> QED BY <1>1, <1>2

LEMMA SharedStep ==
  ASSUME MaskInv, NEW c \in Conn, NEW s \in Slot, LockShared(c, s)
  PROVE  MaskInv'
<1> DEFINE p == ProcessOf[c]
           allShared == UNION {sharedMask[d] : d \in Siblings(c) \cap mapped}
<1>0. p \in Process /\ MaskTypeOK /\ OnlyMappedHold /\ c \in mapped
  BY ShmLockAssumption DEF MaskInv, LockShared, LegalRequest, Free
<1>1. /\ sharedMask' = [sharedMask EXCEPT ![c] = @ \cup {s}]
      /\ exclMask' = exclMask /\ mapped' = mapped
      /\ s \in allShared \/ MayRead(p, s)
      /\ os' = IF s \in allShared THEN os ELSE SetLocks(p, {s}, "read")
      /\ s \notin exclMask[c] /\ s \notin sharedMask[c]
  BY DEF LockShared, LegalRequest, Holds
<1>2. \A d \in ConnsOf(p) : s \notin exclMask[d]
  BY <1>0 DEF LockShared, Blocked, OnlyMappedHold, ConnsOf
<1>3. s \in allShared => \E d \in ConnsOf(p) : d # c /\ s \in sharedMask[d]
  BY DEF Siblings, ConnsOf
<1>4. \A d \in Conn : s \notin exclMask[d]
  <2>1. ASSUME NEW d \in Conn, s \in exclMask[d]
        PROVE  FALSE
    <3>1. ProcessOf[d] \in Process /\ ProcessOf[d] # p
      BY <1>2, <2>1, ShmLockAssumption DEF ConnsOf
    <3>2. CASE s \in allShared
      <4>1. PICK e \in ConnsOf(p) : s \in sharedMask[e]
        BY <1>3, <3>2
      <4>2. e \in Conn /\ e # d
        BY <3>1, <4>1 DEF ConnsOf
      <4> QED BY <2>1, <4>1, <4>2 DEF MaskInv, ShmExclusion
    <3>3. CASE MayRead(p, s)
      <4>1. d \in ConnsOf(ProcessOf[d])
        BY DEF ConnsOf
      <4>2. os[s][ProcessOf[d]] = "write"
        BY <2>1, <3>1, <4>1 DEF MaskInv, OsMatchesMasks
      <4> QED BY <3>1, <3>3, <4>2 DEF MayRead
    <3> QED BY <1>1, <3>2, <3>3
  <2> QED BY <2>1
<1>5. /\ sharedMask'[c] = sharedMask[c] \cup {s}
      /\ \A d \in Conn \ {c} : exclMask'[d] = exclMask[d] /\ sharedMask'[d] = sharedMask[d]
      /\ sharedMask' \in [Conn -> SUBSET Slot]
  BY <1>0, <1>1 DEF MaskTypeOK
<1>6. /\ os' \in [Slot -> [Process -> ByteLock]]
      /\ os'[s][p] = "read"
      /\ \A t \in Slot \ {s} : os'[t][p] = os[t][p]
      /\ \A t \in Slot, q \in Process : q # p => os'[t][q] = os[t][q]
  <2>1. CASE s \in allShared
    <3>1. os' = os
      BY <1>1, <2>1
    <3>2. os[s][p] = "read"
      BY <1>0, <1>3, <2>1 DEF MaskInv, OsMatchesMasks
    <3> QED BY <1>0, <3>1, <3>2 DEF MaskTypeOK
  <2>2. CASE s \notin allShared
    <3>1. os' = SetLocks(p, {s}, "read") /\ "read" \in ByteLock /\ {s} \in SUBSET Slot
      BY <1>1, <2>2 DEF ByteLock
    <3> DEFINE mask == {s}
    <3>2. /\ os' \in [Slot -> [Process -> ByteLock]]
          /\ \A t \in Slot : t \in mask => os'[t][p] = "read"
          /\ \A t \in Slot : t \notin mask => os'[t][p] = os[t][p]
          /\ \A t \in Slot, q \in Process : q # p => os'[t][q] = os[t][q]
      <4>1. mask \in SUBSET Slot /\ os' = SetLocks(p, mask, "read") /\ "read" \in ByteLock
        BY <3>1
      <4> HIDE DEF p, mask
      <4> QED BY <1>0, <4>1, SetLocksType
    <3> QED BY <3>2
  <2> QED BY <2>1, <2>2
<1>7. MaskTypeOK'
  BY <1>0, <1>1, <1>5, <1>6 DEF MaskTypeOK
<1>8. OnlyMappedHold'
  BY <1>0, <1>1, <1>5 DEF OnlyMappedHold
<1>9. ShmExclusion'
  <2> SUFFICES ASSUME NEW d \in Conn, NEW e \in Conn, d # e
               PROVE  exclMask'[d] \cap (exclMask'[e] \cup sharedMask'[e]) = {}
    BY DEF ShmExclusion
  <2>1. exclMask[d] \cap (exclMask[e] \cup sharedMask[e]) = {}
    BY DEF MaskInv, ShmExclusion
  <2>2. sharedMask'[e] \subseteq sharedMask[e] \cup {s}
    BY <1>5
  <2> QED BY <1>1, <1>4, <2>1, <2>2
<1>10. OsMatchesMasks'
  <2>1. ASSUME NEW t \in Slot
        PROVE  /\ os'[t][p] = "write" <=> \E d \in ConnsOf(p) : t \in exclMask'[d]
               /\ os'[t][p] = "read" <=> \E d \in ConnsOf(p) : t \in sharedMask'[d]
    <3>1. c \in ConnsOf(p) /\ ConnsOf(p) \subseteq Conn
      BY DEF ConnsOf
    <3>2. CASE t = s
      <4>1. os'[t][p] = "read" /\ t \in sharedMask'[c]
        BY <1>5, <1>6, <3>2
      <4>2. \A d \in ConnsOf(p) : t \notin exclMask'[d]
        BY <1>1, <1>4, <3>1, <3>2
      <4>3. os'[t][p] # "write" /\ ~\E d \in ConnsOf(p) : t \in exclMask'[d]
        BY <4>1, <4>2
      <4>4. \E d \in ConnsOf(p) : t \in sharedMask'[d]
        BY <3>1, <4>1
      <4> QED BY <4>1, <4>3, <4>4
    <3>3. CASE t # s
      <4>1. \A d \in Conn : /\ t \in exclMask'[d] <=> t \in exclMask[d]
                            /\ t \in sharedMask'[d] <=> t \in sharedMask[d]
        BY <1>1, <1>5, <3>3
      <4>2. os'[t][p] = os[t][p]
        BY <1>6, <3>3
      <4>3. /\ os[t][p] = "write" <=> \E d \in ConnsOf(p) : t \in exclMask[d]
            /\ os[t][p] = "read" <=> \E d \in ConnsOf(p) : t \in sharedMask[d]
        BY <1>0 DEF MaskInv, OsMatchesMasks
      <4> QED BY <3>1, <4>1, <4>2, <4>3
    <3> QED BY <3>2, <3>3
  <2> QED BY <1>5, <1>6, <2>1, MatchElsewhere
<1> QED BY <1>7, <1>8, <1>9, <1>10 DEF MaskInv

LEMMA ExclusiveStep ==
  ASSUME MaskInv, NEW c \in Conn, NEW mask \in SUBSET Slot, LockExclusive(c, mask)
  PROVE  MaskInv'
<1> DEFINE p == ProcessOf[c]
<1>0. p \in Process /\ MaskTypeOK /\ OnlyMappedHold /\ c \in mapped
  BY ShmLockAssumption DEF MaskInv, LockExclusive, LegalRequest, Free
<1>1. /\ exclMask' = [exclMask EXCEPT ![c] = @ \cup mask]
      /\ sharedMask' = sharedMask /\ mapped' = mapped
      /\ os' = SetLocks(p, mask, "write") /\ MayWrite(p, mask)
  BY DEF LockExclusive
<1>2. \A d \in ConnsOf(p) : exclMask[d] \cap mask = {} /\ sharedMask[d] \cap mask = {}
  BY <1>0 DEF LockExclusive, Blocked, OnlyMappedHold, ConnsOf
<1>3. \A d \in Conn : exclMask[d] \cap mask = {} /\ sharedMask[d] \cap mask = {}
  <2> SUFFICES ASSUME NEW d \in Conn, NEW s \in mask, s \in exclMask[d] \cup sharedMask[d]
               PROVE  FALSE
    OBVIOUS
  <2>1. ProcessOf[d] \in Process /\ d \in ConnsOf(ProcessOf[d]) /\ s \in Slot
    BY ShmLockAssumption DEF ConnsOf
  <2>2. ProcessOf[d] # p
    BY <1>2, <2>1
  <2>3. os[s][ProcessOf[d]] \in {"read", "write"}
    BY <2>1 DEF MaskInv, OsMatchesMasks
  <2> QED BY <1>1, <2>1, <2>2, <2>3 DEF MayWrite
<1>4. /\ exclMask'[c] = exclMask[c] \cup mask
      /\ \A d \in Conn \ {c} : exclMask'[d] = exclMask[d] /\ sharedMask'[d] = sharedMask[d]
      /\ exclMask' \in [Conn -> SUBSET Slot]
  BY <1>0, <1>1 DEF MaskTypeOK
<1>5. /\ os' \in [Slot -> [Process -> ByteLock]]
      /\ \A t \in Slot : t \in mask => os'[t][p] = "write"
      /\ \A t \in Slot : t \notin mask => os'[t][p] = os[t][p]
      /\ \A t \in Slot, q \in Process : q # p => os'[t][q] = os[t][q]
  <2>1. "write" \in ByteLock
    BY DEF ByteLock
  <2> HIDE DEF p
  <2> QED BY <1>0, <1>1, <2>1, SetLocksType
<1>6. MaskTypeOK'
  BY <1>0, <1>1, <1>4, <1>5 DEF MaskTypeOK
<1>7. OnlyMappedHold'
  BY <1>0, <1>1, <1>4 DEF OnlyMappedHold
<1>8. ShmExclusion'
  <2> SUFFICES ASSUME NEW d \in Conn, NEW e \in Conn, d # e
               PROVE  exclMask'[d] \cap (exclMask'[e] \cup sharedMask'[e]) = {}
    BY DEF ShmExclusion
  <2>1. exclMask[d] \cap (exclMask[e] \cup sharedMask[e]) = {}
    BY DEF MaskInv, ShmExclusion
  <2>2. CASE d = c
    <3>1. exclMask'[d] = exclMask[d] \cup mask /\ exclMask'[e] = exclMask[e]
      BY <1>4, <2>2
    <3> QED BY <1>1, <1>3, <2>1, <3>1
  <2>3. CASE d # c
    <3>1. exclMask'[d] = exclMask[d] /\ exclMask'[e] \subseteq exclMask[e] \cup mask
      BY <1>4, <2>3
    <3> QED BY <1>1, <1>3, <2>1, <3>1
  <2> QED BY <2>2, <2>3
<1>9. OsMatchesMasks'
  <2>1. ASSUME NEW t \in Slot
        PROVE  /\ os'[t][p] = "write" <=> \E d \in ConnsOf(p) : t \in exclMask'[d]
               /\ os'[t][p] = "read" <=> \E d \in ConnsOf(p) : t \in sharedMask'[d]
    <3>1. c \in ConnsOf(p) /\ ConnsOf(p) \subseteq Conn
      BY DEF ConnsOf
    <3>2. CASE t \in mask
      <4>1. os'[t][p] = "write" /\ t \in exclMask'[c]
        BY <1>4, <1>5, <3>2
      <4>2. \A d \in ConnsOf(p) : t \notin sharedMask'[d]
        BY <1>1, <1>3, <3>1, <3>2
      <4> QED BY <3>1, <4>1, <4>2
    <3>3. CASE t \notin mask
      <4>1. \A d \in Conn : t \in exclMask'[d] <=> t \in exclMask[d]
        BY <1>4, <3>3
      <4>2. os'[t][p] = os[t][p]
        BY <1>5, <3>3
      <4>3. /\ os[t][p] = "write" <=> \E d \in ConnsOf(p) : t \in exclMask[d]
            /\ os[t][p] = "read" <=> \E d \in ConnsOf(p) : t \in sharedMask[d]
        BY <1>0 DEF MaskInv, OsMatchesMasks
      <4> QED BY <1>1, <3>1, <4>1, <4>2, <4>3
    <3> QED BY <3>2, <3>3
  <2> QED BY <1>4, <1>5, <2>1, MatchElsewhere
<1> QED BY <1>6, <1>7, <1>8, <1>9 DEF MaskInv

\* What leaving the locks of mask does; a sibling keeps the byte it shares.
LEMMA UnlockMaskStep ==
  ASSUME MaskInv, NEW c \in Conn, NEW mask \in SUBSET Slot, Unlock(c, mask)
  PROVE  MaskInv'
<1> DEFINE p == ProcessOf[c]
           allMask == UNION {sharedMask[d] : d \in Siblings(c) \cap mapped}
<1>0. p \in Process /\ MaskTypeOK /\ OnlyMappedHold /\ c \in mapped
  BY ShmLockAssumption DEF MaskInv, Unlock, Free
<1>1. /\ exclMask' = [exclMask EXCEPT ![c] = @ \ mask]
      /\ sharedMask' = [sharedMask EXCEPT ![c] = @ \ mask]
      /\ mapped' = mapped
      /\ os' = IF mask \cap allMask = {} THEN SetLocks(p, mask, "none") ELSE os
      /\ mask \subseteq exclMask[c] \/ \E s \in sharedMask[c] : mask = {s}
  BY DEF Unlock
<1>2. /\ exclMask'[c] = exclMask[c] \ mask /\ sharedMask'[c] = sharedMask[c] \ mask
      /\ \A d \in Conn \ {c} : exclMask'[d] = exclMask[d] /\ sharedMask'[d] = sharedMask[d]
      /\ exclMask' \in [Conn -> SUBSET Slot] /\ sharedMask' \in [Conn -> SUBSET Slot]
  BY <1>0, <1>1 DEF MaskTypeOK
<1>3. \A d \in Conn : exclMask'[d] \subseteq exclMask[d] /\ sharedMask'[d] \subseteq sharedMask[d]
  BY <1>2
<1>4. \A d \in Conn \ {c} : exclMask[d] \cap mask = {}
  BY <1>1 DEF MaskInv, ShmExclusion
<1>5. \A s \in allMask : \E d \in ConnsOf(p) : d # c /\ s \in sharedMask[d]
  BY DEF Siblings, ConnsOf
<1>6. \A d \in ConnsOf(p) : d # c => sharedMask[d] \subseteq allMask
  BY <1>0 DEF Siblings, ConnsOf, OnlyMappedHold
<1>7. OnlyMappedHold'
  BY <1>0, <1>1, <1>2 DEF OnlyMappedHold
<1>8. ShmExclusion'
  <2> SUFFICES ASSUME NEW d \in Conn, NEW e \in Conn, d # e
               PROVE  exclMask'[d] \cap (exclMask'[e] \cup sharedMask'[e]) = {}
    BY DEF ShmExclusion
  <2>1. exclMask[d] \cap (exclMask[e] \cup sharedMask[e]) = {}
    BY DEF MaskInv, ShmExclusion
  <2> QED BY <1>3, <2>1
<1>a. \A d \in ConnsOf(p) : d \in Conn
  BY DEF ConnsOf
<1>9. CASE mask \cap allMask = {}
  <2>1. os' = SetLocks(p, mask, "none") /\ "none" \in ByteLock
    BY <1>1, <1>9 DEF ByteLock
  <2>2. /\ os' \in [Slot -> [Process -> ByteLock]]
        /\ \A t \in Slot : t \in mask => os'[t][p] = "none"
        /\ \A t \in Slot : t \notin mask => os'[t][p] = os[t][p]
        /\ \A t \in Slot, q \in Process : q # p => os'[t][q] = os[t][q]
    <3> HIDE DEF p
    <3> QED BY <1>0, <2>1, SetLocksType
  <2>3. ASSUME NEW t \in Slot
        PROVE  /\ os'[t][p] = "write" <=> \E d \in ConnsOf(p) : t \in exclMask'[d]
               /\ os'[t][p] = "read" <=> \E d \in ConnsOf(p) : t \in sharedMask'[d]
    <3>1. CASE t \in mask
      <4>1. \A d \in ConnsOf(p) : t \notin exclMask'[d] /\ t \notin sharedMask'[d]
        BY <1>2, <1>4, <1>6, <1>9, <1>a, <3>1
      <4>2. os'[t][p] = "none"
        BY <2>2, <3>1
      <4> QED BY <4>1, <4>2
    <3>2. CASE t \notin mask
      <4>1. \A d \in Conn : /\ t \in exclMask'[d] <=> t \in exclMask[d]
                            /\ t \in sharedMask'[d] <=> t \in sharedMask[d]
        BY <1>2, <3>2
      <4>2. os'[t][p] = os[t][p]
        BY <2>2, <3>2
      <4>3. /\ os[t][p] = "write" <=> \E d \in ConnsOf(p) : t \in exclMask[d]
            /\ os[t][p] = "read" <=> \E d \in ConnsOf(p) : t \in sharedMask[d]
        BY <1>0 DEF MaskInv, OsMatchesMasks
      <4> QED BY <1>a, <4>1, <4>2, <4>3
    <3> QED BY <3>1, <3>2
  <2>4. OsMatchesMasks'
    BY <1>2, <2>2, <2>3, MatchElsewhere
  <2>5. MaskTypeOK'
    BY <1>0, <1>1, <1>2, <2>2 DEF MaskTypeOK
  <2> QED BY <1>7, <1>8, <2>4, <2>5 DEF MaskInv
<1>10. CASE mask \cap allMask # {}
  <2>1. PICK s \in mask : s \in allMask
    BY <1>10
  <2>2. PICK e \in ConnsOf(p) : e # c /\ s \in sharedMask[e]
    BY <1>5, <2>1
  <2>3. s \notin exclMask[c]
    BY <1>a, <2>2 DEF MaskInv, ShmExclusion
  <2>4. mask = {s}
    BY <1>1, <2>1, <2>3
  <2>5. os' = os
    BY <1>1, <1>10
  <2>6. \A d \in Conn : exclMask'[d] = exclMask[d]
    BY <1>2, <2>3, <2>4
  <2>7. ASSUME NEW t \in Slot
        PROVE  /\ os'[t][p] = "write" <=> \E d \in ConnsOf(p) : t \in exclMask'[d]
               /\ os'[t][p] = "read" <=> \E d \in ConnsOf(p) : t \in sharedMask'[d]
    <3>1. /\ os[t][p] = "write" <=> \E d \in ConnsOf(p) : t \in exclMask[d]
          /\ os[t][p] = "read" <=> \E d \in ConnsOf(p) : t \in sharedMask[d]
      BY <1>0 DEF MaskInv, OsMatchesMasks
    <3>2. (\E d \in ConnsOf(p) : t \in sharedMask[d]) <=>
            (\E d \in ConnsOf(p) : t \in sharedMask'[d])
      BY <1>2, <1>a, <2>2, <2>4
    <3> QED BY <1>a, <2>5, <2>6, <3>1, <3>2
  <2>8. OsMatchesMasks'
    BY <1>2, <2>5, <2>7, MatchElsewhere
  <2>9. MaskTypeOK'
    BY <1>0, <1>1, <1>2, <2>5 DEF MaskTypeOK
  <2> QED BY <1>7, <1>8, <2>8, <2>9 DEF MaskInv
<1> QED BY <1>9, <1>10

\* What the last unmap or a crash of process p does to the masks: none is left.
LEMMA DropStep ==
  ASSUME MaskInv, NEW p \in Process,
         mapped' \subseteq mapped,
         \A c \in ConnsOf(p) : exclMask'[c] = {} /\ sharedMask'[c] = {},
         \A c \in Conn \ ConnsOf(p) :
           /\ exclMask'[c] = exclMask[c] /\ sharedMask'[c] = sharedMask[c]
           /\ c \in mapped <=> c \in mapped',
         exclMask' \in [Conn -> SUBSET Slot], sharedMask' \in [Conn -> SUBSET Slot],
         os' = SetLocks(p, Slot, "none")
  PROVE  MaskInv'
<1>0. MaskTypeOK /\ OnlyMappedHold /\ ConnsOf(p) \subseteq Conn
  BY DEF MaskInv, ConnsOf
<1>1. "none" \in ByteLock /\ Slot \in SUBSET Slot
  BY DEF ByteLock
<1>2. /\ os' \in [Slot -> [Process -> ByteLock]]
      /\ \A t \in Slot : os'[t][p] = "none"
      /\ \A t \in Slot, q \in Process : q # p => os'[t][q] = os[t][q]
  BY SMTT(30), <1>0, <1>1, SetLocksType
<1>3. MaskTypeOK'
  BY <1>0, <1>2 DEF MaskTypeOK
<1>4. OnlyMappedHold'
  BY <1>0 DEF OnlyMappedHold
<1>5. ShmExclusion'
  BY DEF MaskInv, ShmExclusion
<1>6. OsMatchesMasks'
  <2> SUFFICES ASSUME NEW q \in Process, NEW t \in Slot
               PROVE  /\ os'[t][q] = "write" <=> \E d \in ConnsOf(q) : t \in exclMask'[d]
                      /\ os'[t][q] = "read" <=> \E d \in ConnsOf(q) : t \in sharedMask'[d]
    BY DEF OsMatchesMasks, ConnsOf
  <2>1. CASE q = p
    BY <1>2, <2>1
  <2>2. CASE q # p
    <3>1. os'[t][q] = os[t][q]
      BY <1>2, <2>2
    <3>2. \A d \in ConnsOf(q) : exclMask'[d] = exclMask[d] /\ sharedMask'[d] = sharedMask[d]
      BY <2>2 DEF ConnsOf
    <3>3. /\ os[t][q] = "write" <=> \E d \in ConnsOf(q) : t \in exclMask[d]
          /\ os[t][q] = "read" <=> \E d \in ConnsOf(q) : t \in sharedMask[d]
      BY DEF MaskInv, OsMatchesMasks
    <3> QED BY <3>1, <3>2, <3>3
  <2> QED BY <2>1, <2>2
<1> QED BY <1>3, <1>4, <1>5, <1>6 DEF MaskInv

LEMMA UnmapMaskStep ==
  ASSUME MaskInv, NEW c \in Conn, Unmap(c)
  PROVE  MaskInv'
<1> DEFINE p == ProcessOf[c]
<1>0. p \in Process /\ MaskTypeOK /\ OnlyMappedHold /\ c \in mapped
  BY ShmLockAssumption DEF MaskInv, Unmap, Free
<1>1. /\ exclMask[c] = {} /\ sharedMask[c] = {}
      /\ mapped' = mapped \ {c} /\ exclMask' = exclMask /\ sharedMask' = sharedMask
  BY DEF Unmap
<1>2. CASE mapped \cap ConnsOf(p) = {c} /\ queue[p] = <<>>
  <2>1. os' = SetLocks(p, Slot, "none")
    BY <1>2 DEF Unmap
  <2>2. \A d \in ConnsOf(p) : exclMask'[d] = {} /\ sharedMask'[d] = {}
    BY <1>0, <1>1, <1>2 DEF OnlyMappedHold, ConnsOf
  <2>3. \A d \in Conn \ ConnsOf(p) : d # c
    BY DEF ConnsOf
  <2>4. /\ mapped' \subseteq mapped
        /\ \A d \in Conn \ ConnsOf(p) :
             /\ exclMask'[d] = exclMask[d] /\ sharedMask'[d] = sharedMask[d]
             /\ d \in mapped <=> d \in mapped'
        /\ exclMask' \in [Conn -> SUBSET Slot] /\ sharedMask' \in [Conn -> SUBSET Slot]
    BY <1>0, <1>1, <2>3 DEF MaskTypeOK
  <2> HIDE DEF p
  <2> QED BY <1>0, <2>1, <2>2, <2>4, DropStep
<1>3. CASE ~(mapped \cap ConnsOf(p) = {c} /\ queue[p] = <<>>)
  <2>1. os' = os
    BY <1>3 DEF Unmap
  <2>2. MaskTypeOK' /\ OnlyMappedHold'
    BY <1>0, <1>1, <2>1 DEF MaskTypeOK, OnlyMappedHold
  <2> QED BY <1>1, <2>1, <2>2 DEF MaskInv, ShmExclusion, OsMatchesMasks, ConnsOf
<1> QED BY <1>2, <1>3

LEMMA CrashMaskStep ==
  ASSUME MaskInv, NEW p \in Process, Crash(p)
  PROVE  MaskInv'
<1>0. MaskTypeOK /\ ConnsOf(p) \subseteq Conn
  BY DEF MaskInv, ConnsOf
<1>1. /\ mapped' = mapped \ ConnsOf(p)
      /\ exclMask' = [c \in Conn |-> IF c \in ConnsOf(p) THEN {} ELSE exclMask[c]]
      /\ sharedMask' = [c \in Conn |-> IF c \in ConnsOf(p) THEN {} ELSE sharedMask[c]]
      /\ os' = SetLocks(p, Slot, "none")
  BY DEF Crash
<1>2. exclMask' \in [Conn -> SUBSET Slot] /\ sharedMask' \in [Conn -> SUBSET Slot]
  BY <1>0, <1>1 DEF MaskTypeOK
<1> QED BY <1>0, <1>1, <1>2, DropStep

\* A step that keeps every lock and maps at most more connections.
LEMMA KeepMasks ==
  ASSUME MaskInv, UNCHANGED <<exclMask, sharedMask, os>>,
         mapped \subseteq mapped', mapped' \subseteq Conn
  PROVE  MaskInv'
<1>1. MaskTypeOK' /\ OnlyMappedHold'
  BY DEF MaskInv, MaskTypeOK, OnlyMappedHold
<1> QED BY <1>1 DEF MaskInv, ShmExclusion, OsMatchesMasks, ConnsOf

LEMMA NextMaskInv == MaskInv /\ [Next]_vars => MaskInv'
<1> SUFFICES ASSUME MaskInv, [Next]_vars PROVE MaskInv'
  OBVIOUS
<1>0. mapped \subseteq Conn
  BY DEF MaskInv, MaskTypeOK
<1>1. ASSUME NEW c \in Conn,
             \/ ProbeDms(c) \/ TakeDms(c) \/ MapAgain(c) \/ Timeout(c)
             \/ \E b \in BOOLEAN : SetWait(c, b)
             \/ \E mask \in Mask, eFlag \in {"SHARED", "EXCLUSIVE"} : LockBusy(c, mask, eFlag)
      PROVE  MaskInv'
  <2>1. /\ UNCHANGED <<exclMask, sharedMask, os>>
        /\ mapped \subseteq mapped' /\ mapped' \subseteq Conn
    BY <1>0, <1>1 DEF ProbeDms, TakeDms, MapAgain, Timeout, SetWait, LockBusy, maskVars
  <2> QED BY <2>1, KeepMasks
<1>2. ASSUME NEW c \in Conn, Unmap(c) PROVE MaskInv'
  BY <1>2, UnmapMaskStep
<1>3. ASSUME NEW c \in Conn, NEW s \in Slot, LockShared(c, s) PROVE MaskInv'
  BY <1>3, SharedStep
<1>4. ASSUME NEW c \in Conn, NEW mask \in Mask, LockExclusive(c, mask) \/ Unlock(c, mask)
      PROVE MaskInv'
  <2>1. mask \in SUBSET Slot
    BY DEF Mask
  <2> QED BY <1>4, <2>1, ExclusiveStep, UnlockMaskStep
<1>5. ASSUME NEW p \in Process, Crash(p) PROVE MaskInv'
  BY <1>5, CrashMaskStep
<1>6. CASE UNCHANGED vars
  <2>1. UNCHANGED <<exclMask, sharedMask, os, mapped>>
    BY <1>6 DEF vars
  <2> QED BY <1>0, <2>1, KeepMasks
<1> QED BY <1>1, <1>2, <1>3, <1>4, <1>5, <1>6 DEF Next

-----------------------------------------------------------------------------
(***************************************************************************)
(* The wait queue.                                                         *)
(***************************************************************************)
LEMMA BlockedHasHolder ==
  ASSUME NEW p \in Process, NEW mask \in SUBSET Slot, NEW eFlag,
         Blocked(p, mask, eFlag, exclMask, sharedMask)
  PROVE  \E c \in ConnsOf(p) \cap mapped : Holds(c, Slot)
BY DEF Blocked, Holds

LEMMA WaitQueueType ==
  ASSUME QueueTypeOK, NEW c \in Conn, NEW mask \in SUBSET Slot,
         NEW eFlag \in {"SHARED", "EXCLUSIVE"}, WCDBOsShmWait(c, mask, eFlag)
  PROVE  /\ queue' \in [Process -> Seq(WaitInfo)]
         /\ \A q \in Process \ {ProcessOf[c]} : queue'[q] = queue[q]
<1> DEFINE p == ProcessOf[c]
           info == [conn |-> c, oMask |-> mask, eFlag |-> eFlag]
<1>0. p \in Process /\ queue[p] \in Seq(WaitInfo) /\ info \in WaitInfo
  BY ShmLockAssumption DEF QueueTypeOK, WaitInfo
<1>1. CASE UNCHANGED queue
  BY <1>1 DEF QueueTypeOK
<1>2. ASSUME queue[p] # <<>>, queue' = [queue EXCEPT ![p] = Tail(@)]
      PROVE  /\ queue' \in [Process -> Seq(WaitInfo)]
             /\ \A q \in Process \ {p} : queue'[q] = queue[q]
  <2>1. Tail(queue[p]) \in Seq(WaitInfo)
    BY <1>0, <1>2
  <2> QED BY <1>0, <1>2, <2>1 DEF QueueTypeOK
<1>3. ASSUME queue' = [queue EXCEPT ![p] = IF c \in Main THEN <<info>> \o @ ELSE Append(@, info)]
      PROVE  /\ queue' \in [Process -> Seq(WaitInfo)]
             /\ \A q \in Process \ {p} : queue'[q] = queue[q]
  <2> HIDE DEF info
  <2>1. <<info>> \o queue[p] \in Seq(WaitInfo) /\ Append(queue[p], info) \in Seq(WaitInfo)
    BY <1>0
  <2> QED BY <1>0, <1>3, <2>1 DEF QueueTypeOK
<1> QED BY <1>1, <1>2, <1>3 DEF WCDBOsShmWait, WouldDeadlock

\* After the signals of an unlock the front of the queue, if any, is blocked.
LEMMA SignalEffect ==
  ASSUME QueueTypeOK, NEW p \in Process,
         WCDBOsShmTrySignal(p, exclMask', sharedMask'), mapped' = mapped
  PROVE  /\ queue' \in [Process -> Seq(WaitInfo)]
         /\ \A q \in Process \ {p} : queue'[q] = queue[q]
         /\ queue'[p] # <<>> => (\E c \in ConnsOf(p) \cap mapped : Holds(c, Slot))'
<1>0. queue[p] \in Seq(WaitInfo) /\ Len(queue[p]) \in Nat
  BY DEF QueueTypeOK
<1>1. PICK n \in 0..Len(queue[p]) :
        /\ n < Len(queue[p]) => Blocked(p, queue[p][n + 1].oMask, queue[p][n + 1].eFlag,
                                        exclMask', sharedMask')
        /\ queue' = [queue EXCEPT ![p] = SubSeq(@, n + 1, Len(@))]
  BY DEF WCDBOsShmTrySignal
<1>2. \A i \in (n + 1)..Len(queue[p]) : queue[p][i] \in WaitInfo
  BY <1>0
<1>3. /\ SubSeq(queue[p], n + 1, Len(queue[p])) \in Seq(WaitInfo)
      /\ Len(SubSeq(queue[p], n + 1, Len(queue[p]))) =
           IF n + 1 <= Len(queue[p]) THEN Len(queue[p]) - (n + 1) + 1 ELSE 0
  BY <1>0, <1>1, <1>2, SubSeqProperties
<1>4. queue' \in [Process -> Seq(WaitInfo)] /\ queue'[p] = SubSeq(queue[p], n + 1, Len(queue[p]))
  BY <1>1, <1>3 DEF QueueTypeOK
<1>5. \A q \in Process \ {p} : queue'[q] = queue[q]
  BY <1>1 DEF QueueTypeOK
<1>6. ASSUME queue'[p] # <<>>
      PROVE  (\E c \in ConnsOf(p) \cap mapped : Holds(c, Slot))'
  <2>1. n + 1 \in 1..Len(queue[p]) /\ n < Len(queue[p])
    BY <1>0, <1>1, <1>3, <1>4, <1>6
  <2>2. queue[p][n + 1].oMask \in SUBSET Slot
    BY <1>2, <2>1 DEF WaitInfo
  <2>3. Blocked(p, queue[p][n + 1].oMask, queue[p][n + 1].eFlag, exclMask', sharedMask')
    BY <1>1, <2>1
  <2>4. PICK c \in ConnsOf(p) \cap mapped :
          (exclMask'[c] \cup sharedMask'[c]) \cap queue[p][n + 1].oMask # {}
    BY <2>3 DEF Blocked
  <2>5. c \in ConnsOf(p)'
    BY DEF ConnsOf
  <2> QED BY <2>2, <2>4, <2>5 DEF Holds
<1> QED BY <1>4, <1>5, <1>6

LEMMA NextQueueInv == ShmInv /\ [Next]_vars => (QueueTypeOK /\ WaitersHaveHolder /\ PurgeEnds)'
<1> SUFFICES ASSUME ShmInv, [Next]_vars
             PROVE  (QueueTypeOK /\ WaitersHaveHolder /\ PurgeEnds)'
  OBVIOUS
<1>0. /\ QueueTypeOK /\ WaitersHaveHolder /\ PurgeEnds /\ MaskTypeOK /\ OnlyMappedHold
      /\ \A q \in Process : ConnsOf(q)' = ConnsOf(q) /\ ConnsOf(q) \subseteq Conn
      /\ \A c \in Conn : ProcessOf[c] \in Process
  BY ShmLockAssumption DEF ShmInv, MaskInv, ConnsOf
\* Steps that keep the node open or closed, the queue, and every lock.
<1>1. ASSUME queue' = queue, node' \in [Process -> {"none", "probed", "truncated", "open"}]
                \/ node' = node,
             \A c \in mapped : Holds(c, Slot) => c \in mapped' /\ Holds(c, Slot)'
      PROVE  (QueueTypeOK /\ WaitersHaveHolder /\ PurgeEnds)'
  <2>1. QueueTypeOK'
    BY <1>0, <1>1 DEF QueueTypeOK
  <2>2. WaitersHaveHolder'
    BY <1>0, <1>1 DEF WaitersHaveHolder
  <2>3. PurgeEnds'
    BY <1>0, <1>1 DEF PurgeEnds
  <2> QED BY <2>1, <2>2, <2>3
<1>2. ASSUME NEW c \in Conn, ProbeDms(c) \/ TakeDms(c) \/ MapAgain(c)
      PROVE  (QueueTypeOK /\ WaitersHaveHolder /\ PurgeEnds)'
  <2>1. queue' = queue /\ exclMask' = exclMask /\ sharedMask' = sharedMask
    BY <1>2 DEF ProbeDms, TakeDms, MapAgain, waitVars, maskVars
  <2>2. mapped \subseteq mapped'
    BY <1>2 DEF ProbeDms, TakeDms, MapAgain, waitVars, maskVars
  <2>3. node \in [Process -> {"none", "probed", "truncated", "open"}]
    BY <1>0 DEF QueueTypeOK, PurgeEnds
  <2>4. node' \in [Process -> {"none", "probed", "truncated", "open"}]
    BY <1>2, <2>3 DEF ProbeDms, TakeDms, MapAgain, nodeVars
  <2> QED BY <1>1, <2>1, <2>2, <2>4 DEF Holds
<1>3. ASSUME NEW c \in Conn, Unmap(c)
      PROVE  (QueueTypeOK /\ WaitersHaveHolder /\ PurgeEnds)'
  <2> DEFINE p == ProcessOf[c]
             last == mapped \cap ConnsOf(p) = {c}
  <2>1. /\ exclMask[c] = {} /\ sharedMask[c] = {} /\ mapped' = mapped \ {c}
        /\ queue' = queue /\ exclMask' = exclMask /\ sharedMask' = sharedMask
        /\ node' = [node EXCEPT ![p] = IF ~last THEN @
                                       ELSE IF last /\ queue[p] = <<>> THEN "none" ELSE "purging"]
    BY <1>3 DEF Unmap, waitVars
  <2>2. ~Holds(c, Slot)
    BY <2>1 DEF Holds
  <2>3. last => queue[p] = <<>>
    BY <1>0, <2>2 DEF WaitersHaveHolder
  <2>4. node' = node \/ node' = [node EXCEPT ![p] = "none"]
    BY <1>0, <2>1, <2>3 DEF QueueTypeOK
  <2>5. node \in [Process -> {"none", "probed", "truncated", "open"}]
    BY <1>0 DEF QueueTypeOK, PurgeEnds
  <2>6. node' \in [Process -> {"none", "probed", "truncated", "open"}]
    BY <2>4, <2>5
  <2> QED BY <1>1, <2>1, <2>2, <2>6 DEF Holds
<1>4. ASSUME NEW c \in Conn, NEW s \in Slot, LockShared(c, s)
      PROVE  (QueueTypeOK /\ WaitersHaveHolder /\ PurgeEnds)'
  <2>1. /\ queue' = queue /\ node' = node /\ mapped' = mapped /\ exclMask' = exclMask
        /\ sharedMask' = [sharedMask EXCEPT ![c] = @ \cup {s}]
    BY <1>4 DEF LockShared, waitVars, nodeVars
  <2>2. \A d \in Conn : sharedMask[d] \subseteq sharedMask'[d]
    BY <1>0, <2>1 DEF MaskTypeOK
  <2>3. \A d \in mapped : Holds(d, Slot) => Holds(d, Slot)'
    BY <1>0, <2>1, <2>2 DEF Holds, MaskTypeOK
  <2> QED BY <1>1, <2>1, <2>3
<1>5. ASSUME NEW c \in Conn, NEW mask \in Mask, LockExclusive(c, mask)
      PROVE  (QueueTypeOK /\ WaitersHaveHolder /\ PurgeEnds)'
  <2>1. /\ queue' = queue /\ node' = node /\ mapped' = mapped /\ sharedMask' = sharedMask
        /\ exclMask' = [exclMask EXCEPT ![c] = @ \cup mask]
    BY <1>5 DEF LockExclusive, waitVars, nodeVars
  <2>2. \A d \in Conn : exclMask[d] \subseteq exclMask'[d]
    BY <1>0, <2>1 DEF MaskTypeOK
  <2>3. \A d \in mapped : Holds(d, Slot) => Holds(d, Slot)'
    BY <1>0, <2>1, <2>2 DEF Holds, MaskTypeOK
  <2> QED BY <1>1, <2>1, <2>3
<1>6. ASSUME NEW c \in Conn, NEW mask \in Mask, Unlock(c, mask)
      PROVE  (QueueTypeOK /\ WaitersHaveHolder /\ PurgeEnds)'
  <2> DEFINE p == ProcessOf[c]
  <2>1. /\ WCDBOsShmTrySignal(p, exclMask', sharedMask') /\ mapped' = mapped /\ node' = node
        /\ exclMask' = [exclMask EXCEPT ![c] = @ \ mask]
        /\ sharedMask' = [sharedMask EXCEPT ![c] = @ \ mask]
    BY <1>6 DEF Unlock, nodeVars
  <2>2. /\ queue' \in [Process -> Seq(WaitInfo)]
        /\ \A q \in Process \ {p} : queue'[q] = queue[q]
        /\ queue'[p] # <<>> => (\E d \in ConnsOf(p) \cap mapped : Holds(d, Slot))'
    BY <1>0, <2>1, SignalEffect
  <2>3. QueueTypeOK' /\ PurgeEnds'
    BY <1>0, <2>1, <2>2 DEF QueueTypeOK, PurgeEnds
  <2>4. ASSUME NEW q \in Process, queue'[q] # <<>>
        PROVE  (\E d \in ConnsOf(q) \cap mapped : Holds(d, Slot))'
    <3>1. CASE q = p
      BY <2>2, <2>4, <3>1
    <3>2. CASE q # p
      <4>1. PICK d \in ConnsOf(q) \cap mapped : Holds(d, Slot)
        BY <1>0, <2>2, <2>4, <3>2 DEF WaitersHaveHolder
      <4>2. d # c /\ d \in Conn
        BY <3>2 DEF ConnsOf
      <4>3. exclMask'[d] = exclMask[d] /\ sharedMask'[d] = sharedMask[d]
        BY <1>0, <2>1, <4>2 DEF MaskTypeOK
      <4> QED BY <1>0, <2>1, <4>1, <4>3 DEF Holds
    <3> QED BY <3>1, <3>2
  <2> QED BY <2>3, <2>4 DEF WaitersHaveHolder
<1>7. ASSUME NEW c \in Conn, NEW mask \in Mask, NEW eFlag \in {"SHARED", "EXCLUSIVE"},
             LockBusy(c, mask, eFlag)
      PROVE  (QueueTypeOK /\ WaitersHaveHolder /\ PurgeEnds)'
  <2> DEFINE p == ProcessOf[c]
  <2>0. mask \in SUBSET Slot
    BY DEF Mask
  <2>1. /\ WCDBOsShmWait(c, mask, eFlag) /\ mapped' = mapped /\ node' = node
        /\ exclMask' = exclMask /\ sharedMask' = sharedMask
        /\ Blocked(p, mask, eFlag, exclMask, sharedMask)
    BY <1>7 DEF LockBusy, maskVars, nodeVars
  <2>2. /\ queue' \in [Process -> Seq(WaitInfo)]
        /\ \A q \in Process \ {p} : queue'[q] = queue[q]
    BY <1>0, <2>0, <2>1, WaitQueueType
  <2>3. \E d \in ConnsOf(p) \cap mapped : Holds(d, Slot)
    BY <1>0, <2>0, <2>1, BlockedHasHolder
  <2>4. QueueTypeOK' /\ PurgeEnds'
    BY <1>0, <2>1, <2>2 DEF QueueTypeOK, PurgeEnds
  <2>5. \A q \in Process : queue'[q] # <<>> => \E d \in ConnsOf(q) \cap mapped : Holds(d, Slot)
    BY <1>0, <2>2, <2>3 DEF WaitersHaveHolder
  <2>6. WaitersHaveHolder'
    BY <1>0, <2>1, <2>5 DEF WaitersHaveHolder, Holds
  <2> QED BY <2>4, <2>6
<1>8. ASSUME NEW c \in Conn, Timeout(c) \/ \E b \in BOOLEAN : SetWait(c, b)
      PROVE  (QueueTypeOK /\ WaitersHaveHolder /\ PurgeEnds)'
  <2>1. UNCHANGED <<queue, node, mapped, exclMask, sharedMask>>
    BY <1>8 DEF Timeout, SetWait, maskVars, nodeVars
  <2> QED BY <1>1, <2>1 DEF Holds
<1>9. ASSUME NEW p \in Process, Crash(p)
      PROVE  (QueueTypeOK /\ WaitersHaveHolder /\ PurgeEnds)'
  <2>1. /\ queue' = [queue EXCEPT ![p] = <<>>] /\ node' = [node EXCEPT ![p] = "none"]
        /\ mapped' = mapped \ ConnsOf(p)
        /\ exclMask' = [c \in Conn |-> IF c \in ConnsOf(p) THEN {} ELSE exclMask[c]]
        /\ sharedMask' = [c \in Conn |-> IF c \in ConnsOf(p) THEN {} ELSE sharedMask[c]]
    BY <1>9 DEF Crash
  <2>2. QueueTypeOK' /\ PurgeEnds'
    BY <1>0, <2>1 DEF QueueTypeOK, PurgeEnds
  <2>3. ASSUME NEW q \in Process, queue'[q] # <<>>
        PROVE  (\E d \in ConnsOf(q) \cap mapped : Holds(d, Slot))'
    <3>1. q # p /\ queue'[q] = queue[q]
      BY <1>0, <2>1, <2>3 DEF QueueTypeOK
    <3>2. PICK d \in ConnsOf(q) \cap mapped : Holds(d, Slot)
      BY <1>0, <2>3, <3>1 DEF WaitersHaveHolder
    <3>3. d \in Conn /\ d \notin ConnsOf(p)
      BY <3>1 DEF ConnsOf
    <3>4. d \in mapped' /\ exclMask'[d] = exclMask[d] /\ sharedMask'[d] = sharedMask[d]
      BY <2>1, <3>2, <3>3
    <3> QED BY <1>0, <3>2, <3>4 DEF Holds
  <2> QED BY <2>2, <2>3 DEF WaitersHaveHolder
<1>10. CASE UNCHANGED vars
  <2>1. UNCHANGED <<queue, node, mapped, exclMask, sharedMask>>
    BY <1>10 DEF vars
  <2> QED BY <1>1, <2>1 DEF Holds
<1> QED BY <1>2, <1>3, <1>4, <1>5, <1>6, <1>7, <1>8, <1>9, <1>10 DEF Next

THEOREM ShmInvariant == Spec => []ShmInv
<1>1. ShmInv /\ [Next]_vars => ShmInv'
  BY NextMaskInv, NextQueueInv DEF ShmInv
<1> QED BY InitShmInv, <1>1, PTL DEF Spec

-----------------------------------------------------------------------------
\* A lock held exclusively is held by no other connection of any process
\* (unixShmLock: the masks of a process and the byte locks together).
THEOREM ShmLocksExclude == Spec => []ShmExclusion
<1>1. ShmInv => ShmExclusion
  BY DEF ShmInv, MaskInv
<1> QED BY <1>1, ShmInvariant, PTL

\* The byte locks of a process are exactly the masks of its connections: no
\* unlock drops a byte a sibling shares or leaves one behind (unixShmLock).
THEOREM BytesMatchMasks == Spec => []OsMatchesMasks
<1>1. ShmInv => OsMatchesMasks
  BY DEF ShmInv, MaskInv
<1> QED BY <1>1, ShmInvariant, PTL

\* Threads wait only while a connection of their process holds a lock
\* (WCDBOsShmWait, WCDBOsShmTrySignal).
THEOREM WaitersAlwaysHaveHolder == Spec => []WaitersHaveHolder
<1>1. ShmInv => WaitersHaveHolder
  BY DEF ShmInv
<1> QED BY <1>1, ShmInvariant, PTL

\* unixShmPurge never meets a waiting thread, so its loop ends.
THEOREM PurgeAlwaysEnds == Spec => []PurgeEnds
<1>1. ShmInv => PurgeEnds
  BY DEF ShmInv
<1> QED BY <1>1, ShmInvariant, PTL

-----------------------------------------------------------------------------
(***************************************************************************)
(* The deadman switch.                                                     *)
(***************************************************************************)
\* What a process holds of the switch while its node is made or in use.
SwitchMatchesNode ==
  \A p \in Process :
    /\ node[p] \in {"open", "purging"} => dms[p] = "read"
    /\ node[p] = "truncated" => dms[p] = "write"

\* A unixShm belongs to a node that is open.
MappedIsOpen == \A c \in mapped : node[ProcessOf[c]] = "open"

SwitchInv ==
  /\ node \in [Process -> {"none", "probed", "truncated", "open", "purging"}]
  /\ dms \in [Process -> ByteLock]
  /\ mapped \subseteq Conn
  /\ SwitchMatchesNode
  /\ MappedIsOpen

LEMMA InitSwitchInv == Init => SwitchInv
BY DEF Init, SwitchInv, SwitchMatchesNode, MappedIsOpen, ByteLock

\* A step that touches the node and the switch of one process only.
LEMMA SwitchElsewhere ==
  ASSUME SwitchInv, NEW p \in Process,
         NEW n \in {"none", "probed", "truncated", "open", "purging"}, NEW b \in ByteLock,
         node' = [node EXCEPT ![p] = n], dms' = [dms EXCEPT ![p] = b],
         n \in {"open", "purging"} => b = "read", n = "truncated" => b = "write",
         mapped' \subseteq Conn,
         \A c \in mapped' : IF ProcessOf[c] = p THEN n = "open" ELSE c \in mapped
  PROVE  SwitchInv'
<1>1. /\ node' \in [Process -> {"none", "probed", "truncated", "open", "purging"}]
      /\ dms' \in [Process -> ByteLock]
  BY DEF SwitchInv
<1>2. /\ node'[p] = n /\ dms'[p] = b
      /\ \A q \in Process \ {p} : node'[q] = node[q] /\ dms'[q] = dms[q]
  BY DEF SwitchInv
<1>3. SwitchMatchesNode'
  BY <1>2 DEF SwitchInv, SwitchMatchesNode
<1>4. ASSUME NEW c \in mapped' PROVE node'[ProcessOf[c]] = "open"
  <2>1. ProcessOf[c] \in Process
    BY ShmLockAssumption
  <2>2. CASE ProcessOf[c] = p
    BY <1>2, <2>2
  <2>3. CASE ProcessOf[c] # p
    BY <1>2, <2>1, <2>3 DEF SwitchInv, MappedIsOpen
  <2> QED BY <2>2, <2>3
<1> QED BY <1>1, <1>3, <1>4 DEF SwitchInv, MappedIsOpen

LEMMA NextSwitchInv == SwitchInv /\ [Next]_vars => SwitchInv'
<1> SUFFICES ASSUME SwitchInv, [Next]_vars PROVE SwitchInv'
  OBVIOUS
<1>0. /\ \A c \in Conn : ProcessOf[c] \in Process
      /\ mapped \subseteq Conn
      /\ \A q \in Process : dms[q] \in ByteLock
      /\ {"none", "read", "write"} = ByteLock
  BY ShmLockAssumption DEF SwitchInv, ByteLock
<1>1. ASSUME NEW c \in Conn, ProbeDms(c) PROVE SwitchInv'
  <2> DEFINE p == ProcessOf[c]
             alone == \A q \in Process \ {p} : dms[q] = "none"
  <2>1. /\ node[p] = "none" /\ mapped' = mapped
        /\ node' = [node EXCEPT ![p] = IF alone THEN "truncated" ELSE "probed"]
        /\ dms' = IF alone THEN [dms EXCEPT ![p] = "write"] ELSE dms
    BY <1>1 DEF ProbeDms, maskVars
  <2>2. \A d \in mapped : ProcessOf[d] # p
    BY <2>1 DEF SwitchInv, MappedIsOpen
  <2>3. CASE alone
    <3>1. /\ node' = [node EXCEPT ![p] = "truncated"] /\ dms' = [dms EXCEPT ![p] = "write"]
      BY <2>1, <2>3
    <3> HIDE DEF alone, p
    <3> QED BY <1>0, <2>1, <2>2, <3>1, SwitchElsewhere DEF p
  <2>4. CASE ~alone
    <3> DEFINE b == dms[p]
    <3>1. node' = [node EXCEPT ![p] = "probed"] /\ dms' = [dms EXCEPT ![p] = b]
      BY <2>1, <2>4 DEF SwitchInv
    <3>2. b \in ByteLock /\ p \in Process
      BY <1>0
    <3> HIDE DEF alone, p, b
    <3> QED BY <1>0, <2>1, <2>2, <3>1, <3>2, SwitchElsewhere
  <2> QED BY <2>3, <2>4
<1>2. ASSUME NEW c \in Conn, TakeDms(c) PROVE SwitchInv'
  <2> DEFINE p == ProcessOf[c]
             granted == \A q \in Process \ {p} : dms[q] # "write"
  <2>1. /\ node[p] # "open" /\ p \in Process
        /\ node' = [node EXCEPT ![p] = IF granted THEN "open" ELSE "none"]
        /\ dms' = [dms EXCEPT ![p] = IF granted THEN "read" ELSE "none"]
        /\ mapped' = IF granted THEN mapped \cup {c} ELSE mapped
    BY <1>0, <1>2 DEF TakeDms
  <2>2. \A d \in mapped : ProcessOf[d] # p
    BY <2>1 DEF SwitchInv, MappedIsOpen
  <2>3. CASE granted
    <3>1. /\ node' = [node EXCEPT ![p] = "open"] /\ dms' = [dms EXCEPT ![p] = "read"]
          /\ mapped' \subseteq Conn
          /\ \A d \in mapped' : IF ProcessOf[d] = p THEN TRUE ELSE d \in mapped
      BY <1>0, <2>1, <2>3
    <3> HIDE DEF granted, p
    <3> QED BY <1>0, <2>1, <3>1, SwitchElsewhere
  <2>4. CASE ~granted
    <3>1. /\ node' = [node EXCEPT ![p] = "none"] /\ dms' = [dms EXCEPT ![p] = "none"]
          /\ mapped' = mapped
      BY <2>1, <2>4
    <3> HIDE DEF granted, p
    <3> QED BY <1>0, <2>1, <2>2, <3>1, SwitchElsewhere
  <2> QED BY <2>3, <2>4
<1>3. ASSUME NEW c \in Conn, MapAgain(c) PROVE SwitchInv'
  BY <1>3 DEF MapAgain, nodeVars, SwitchInv, SwitchMatchesNode, MappedIsOpen
<1>4. ASSUME NEW c \in Conn, Unmap(c) PROVE SwitchInv'
  <2> DEFINE p == ProcessOf[c]
             last == mapped \cap ConnsOf(p) = {c}
             purged == last /\ queue[p] = <<>>
             n == IF ~last THEN node[p] ELSE IF purged THEN "none" ELSE "purging"
             b == IF purged THEN "none" ELSE dms[p]
  <2>1. /\ c \in mapped /\ mapped' = mapped \ {c} /\ p \in Process
        /\ node' = [node EXCEPT ![p] = n]
        /\ dms' = IF purged THEN [dms EXCEPT ![p] = "none"] ELSE dms
    BY <1>0, <1>4 DEF Unmap, Free, SwitchInv
  <2>2. node[p] = "open" /\ dms[p] = "read"
    BY <2>1 DEF SwitchInv, SwitchMatchesNode, MappedIsOpen
  <2>3. dms' = [dms EXCEPT ![p] = b]
    BY <2>1 DEF SwitchInv
  <2>4. /\ n \in {"none", "open", "purging"} /\ b \in ByteLock
        /\ n \in {"open", "purging"} => b = "read"
    BY <1>0, <2>2
  <2>5. \A d \in mapped' : IF ProcessOf[d] = p THEN n = "open" ELSE d \in mapped
    <3>1. ASSUME NEW d \in mapped', ProcessOf[d] = p, last PROVE FALSE
      BY <1>0, <2>1, <3>1 DEF ConnsOf
    <3> QED BY <2>1, <2>2, <3>1
  <2> HIDE DEF n, b, last, purged, p
  <2> QED BY <1>0, <2>1, <2>3, <2>4, <2>5, SwitchElsewhere
<1>5. ASSUME NEW p \in Process, Crash(p) PROVE SwitchInv'
  <2>1. /\ node' = [node EXCEPT ![p] = "none"] /\ dms' = [dms EXCEPT ![p] = "none"]
        /\ mapped' = mapped \ ConnsOf(p)
    BY <1>5 DEF Crash
  <2>2. \A d \in mapped' : ProcessOf[d] # p /\ d \in mapped
    BY <1>0, <2>1 DEF ConnsOf
  <2> QED BY <1>0, <2>1, <2>2, SwitchElsewhere
<1>6. ASSUME UNCHANGED <<node, dms, mapped>> PROVE SwitchInv'
  BY <1>6 DEF SwitchInv, SwitchMatchesNode, MappedIsOpen
<1>7. ASSUME NEW c \in Conn,
             \/ Timeout(c) \/ \E b \in BOOLEAN : SetWait(c, b)
             \/ \E s \in Slot : LockShared(c, s)
             \/ \E mask \in Mask : LockExclusive(c, mask) \/ Unlock(c, mask)
             \/ \E mask \in Mask, eFlag \in {"SHARED", "EXCLUSIVE"} : LockBusy(c, mask, eFlag)
      PROVE  UNCHANGED <<node, dms, mapped>>
  BY <1>7 DEF Timeout, SetWait, LockShared, LockExclusive, Unlock, LockBusy, nodeVars, maskVars
<1>8. CASE UNCHANGED vars
  BY <1>6, <1>8 DEF vars
<1> QED BY <1>1, <1>2, <1>3, <1>4, <1>5, <1>6, <1>7, <1>8 DEF Next

\* Who truncates got the switch for writing, so the others have none of it.
LEMMA TruncatesAlone ==
  ASSUME SwitchInv, [Next]_vars, NEW p \in Process, node[p] = "none", node'[p] = "truncated",
         NEW q \in Process \ {p}
  PROVE  node[q] \in {"none", "probed"}
<1>1. PICK c \in Conn : ProbeDms(c) \/ TakeDms(c) \/ Unmap(c)
  BY DEF Next, vars, Timeout, SetWait, LockShared, LockExclusive, Unlock, LockBusy, MapAgain,
         Crash, nodeVars, SwitchInv
<1>2. ProcessOf[c] \in Process
  BY ShmLockAssumption
<1>3. ProbeDms(c) /\ ProcessOf[c] = p
  BY <1>1, <1>2 DEF ProbeDms, TakeDms, Unmap, SwitchInv
<1>4. dms[q] = "none"
  BY <1>3 DEF ProbeDms, SwitchInv
<1> QED BY <1>4 DEF SwitchInv, SwitchMatchesNode

\* The file is never truncated while another process has it mapped
\* (unixOpenSharedMemory: the two fcntl calls on the deadman switch).
THEOREM NeverTruncatedInUse == Spec => TruncatedOnlyAlone
<1>1. SwitchInv /\ [Next]_vars =>
        [\A p \in Process :
           node[p] = "none" /\ node'[p] = "truncated" =>
             \A q \in Process \ {p} : node[q] \in {"none", "probed"}]_vars
  BY TruncatesAlone
<1> QED BY InitSwitchInv, NextSwitchInv, <1>1, PTL DEF Spec, TruncatedOnlyAlone
=============================================================================
