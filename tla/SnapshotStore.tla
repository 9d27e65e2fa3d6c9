--------------------------- MODULE SnapshotStore ---------------------------
(***************************************************************************)
(* What a database in write-ahead mode promises: a list of committed       *)
(* contents, readers that each see one of them unchanged from the first to *)
(* the last read, one writer at a time who starts from the newest content, *)
(* and a loss of power that leaves a content that was committed, or that a *)
(* transaction was about to commit.  When durable nothing committed is     *)
(* lost; otherwise the newest commits may be.                              *)
(***************************************************************************)
EXTENDS Naturals, Sequences

CONSTANTS Conn, Content, None

VARIABLES
  durable,   \* a setting: a commit that has returned survives a loss of power
  past,      \* the committed contents, oldest first
  pending,   \* <<base, content>>: commits begun on past[base] and not acknowledged
  snap,      \* what a reader sees, None outside a read transaction
  writer     \* the connection in a write transaction, or None

vars == <<durable, past, pending, snap, writer>>

Current == past[Len(past)]

Init ==
  /\ durable \in BOOLEAN
  /\ past \in [1..1 -> Content]
  /\ pending = {}
  /\ snap = [c \in Conn |-> None]
  /\ writer = None

Begin(c) ==
  /\ snap[c] = None /\ writer # c
  /\ snap' = [snap EXCEPT ![c] = Current]
  /\ UNCHANGED <<past, pending, writer>>

End(c) ==
  /\ snap[c] # None
  /\ snap' = [snap EXCEPT ![c] = None]
  /\ UNCHANGED <<past, pending, writer>>

\* Only who sees the newest content may write: the history never forks.
BeginWrite(c) ==
  /\ snap[c] = Current /\ writer = None
  /\ snap' = [snap EXCEPT ![c] = None]
  /\ writer' = c
  /\ UNCHANGED <<past, pending>>

Attempt(c) ==
  /\ writer = c
  /\ \E x \in Content : pending' = pending \cup {<<Len(past), x>>}
  /\ UNCHANGED <<past, snap, writer>>

Commit(c) ==
  /\ writer = c
  /\ \E x \in Content :
       /\ <<Len(past), x>> \in pending
       /\ past' = Append(past, x)
       /\ snap' = [snap EXCEPT ![c] = x]
  /\ pending' = IF durable THEN {} ELSE pending
  /\ writer' = None

Rollback(c) ==
  /\ writer = c
  /\ writer' = None
  /\ snap' = [snap EXCEPT ![c] = Current]
  /\ UNCHANGED <<past, pending>>

\* A process ends: the transactions of its connections are gone, what one of them
\* was committing may remain.
Crash(D) ==
  /\ snap' = [c \in Conn |-> IF c \in D THEN None ELSE snap[c]]
  /\ writer' = IF writer \in D THEN None ELSE writer
  /\ UNCHANGED <<past, pending>>

\* Recovery by a surviving process may complete an unacknowledged commit.
Recover ==
  /\ writer = None
  /\ \E x \in Content :
       /\ <<Len(past), x>> \in pending
       /\ past' = Append(past, x)
  /\ pending' = IF durable THEN {} ELSE pending
  /\ UNCHANGED <<snap, writer>>

PowerLoss ==
  /\ \E n \in 1..Len(past) :
       /\ durable => n = Len(past)
       /\ \/ past' = SubSeq(past, 1, n)
          \/ \E x \in Content : /\ <<n, x>> \in pending
                                /\ past' = Append(SubSeq(past, 1, n), x)
  /\ pending' = {}
  /\ snap' = [c \in Conn |-> None]
  /\ writer' = None

Step ==
  \/ \E c \in Conn : \/ Begin(c) \/ End(c) \/ BeginWrite(c) \/ Attempt(c)
                     \/ Commit(c) \/ Rollback(c)
  \/ \E D \in SUBSET Conn : Crash(D)
  \/ Recover
  \/ PowerLoss

Next == Step /\ UNCHANGED durable

Spec == Init /\ [][Next]_vars
=============================================================================
