------------------------- MODULE MCRollbackJournal -------------------------
(* One or two connections, two or three pages, a journal of a few slots.     *)
(* Each environment brings one kind of trouble to one journal mode.          *)
EXTENDS RollbackJournal

CONSTANTS c1, c2

Both == [conns |-> {c1, c2}, writers |-> {c1, c2}, journal |-> "DELETE", sync |-> "FULL",
         same |-> FALSE, spills |-> FALSE, fails |-> FALSE, crashes |-> {}, losses |-> FALSE,
         orig |-> 1, pages |-> 2, vers |-> 3, slots |-> 3]
Alone == [Both EXCEPT !.conns = {c1}, !.writers = {c1}]

\* A process ends and leaves its journal to the other one.
ProcessEnds == [Both EXCEPT !.crashes = {c1, c2}]
\* Power is lost, with each way to finalize the journal.
LosesDelete == [Both EXCEPT !.crashes = {c1}, !.losses = TRUE, !.vers = 2]
LosesDeleteAlone == [LosesDelete EXCEPT !.conns = {c1}, !.writers = {c1}, !.vers = 3]
LosesExtra == [Alone EXCEPT !.sync = "EXTRA", !.spills = TRUE, !.losses = TRUE,
                            !.orig = 3, !.pages = 3, !.vers = 2, !.slots = 7]
LosesTruncate == [LosesDelete EXCEPT !.journal = "TRUNCATE", !.crashes = {}]
LosesTruncateAlone == [LosesDeleteAlone EXCEPT !.journal = "TRUNCATE", !.crashes = {}]
LosesPersist == [Both EXCEPT !.journal = "PERSIST", !.sync = "NORMAL", !.losses = TRUE,
                             !.orig = 2, !.vers = 2]
LosesPersistAlone == [LosesPersist EXCEPT !.conns = {c1}, !.writers = {c1}, !.vers = 3]
LosesPersistSpills == [LosesPersistAlone EXCEPT !.sync = "FULL", !.spills = TRUE, !.slots = 5]
\* A journal left over is written over, with headers of its own for what spills.
Spills == [Both EXCEPT !.writers = {c1}, !.journal = "PERSIST", !.spills = TRUE,
                       !.crashes = {c1}, !.orig = 2, !.vers = 2, !.slots = 5]
SpillsAlone == [Spills EXCEPT !.conns = {c1}, !.vers = 3]
\* Writes and syncs fail: of both, before the process ends, and before power is lost.
Fails == [Both EXCEPT !.spills = TRUE, !.fails = TRUE, !.vers = 2, !.slots = 4]
FailsTruncate == [Alone EXCEPT !.journal = "TRUNCATE", !.spills = TRUE, !.fails = TRUE,
                               !.crashes = {c1}, !.orig = 2, !.slots = 5]
FailsLoses == [Alone EXCEPT !.spills = TRUE, !.fails = TRUE, !.losses = TRUE,
                            !.vers = 2, !.slots = 4]

Surroundings == {ProcessEnds, LosesDelete, LosesDeleteAlone, LosesExtra, LosesTruncate,
                 LosesTruncateAlone, LosesPersist, LosesPersistAlone, LosesPersistSpills, Spills,
                 SpillsAlone, Fails, FailsTruncate, FailsLoses}

\* Where the statements of the source do not hold: two threads of one process find
\* a hot journal (NoHotJournalWhileReading); a commit fails above an older header
\* (CacheIsCurrent); a process ends while it zeroes the header; the directory of the
\* journal was never synced; no sync stands between the zero that hides an older
\* header and the count of the records before it (JournalRollsBack).
Race == {[Both EXCEPT !.same = TRUE, !.crashes = {c1, c2}, !.orig = 2, !.vers = 2]}
Leftover == {[Alone EXCEPT !.journal = "PERSIST", !.spills = TRUE, !.fails = TRUE,
                           !.orig = 2, !.slots = 5]}
Overwritten == {[Alone EXCEPT !.journal = "PERSIST", !.crashes = {c1}, !.losses = TRUE,
                              !.orig = 2]}
Directory == {[Alone EXCEPT !.sync = "NORMAL", !.crashes = {c1}, !.losses = TRUE,
                            !.orig = 2]}
Recognized == {[LosesPersistSpills EXCEPT !.sync = "NORMAL"]}
=============================================================================
