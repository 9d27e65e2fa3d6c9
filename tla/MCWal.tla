------------------------------- MODULE MCWal -------------------------------
(* Two connections, two pages, a log of a few frames.  Each environment      *)
(* brings one kind of trouble to a small history.                            *)
EXTENDS Wal

CONSTANTS c1, c2

Alone == [conns |-> {c1}, writers |-> {c1}, checkpointers |-> {c1},
          modes |-> {"PASSIVE"}, full |-> TRUE, spills |-> FALSE, fails |-> FALSE,
          crashes |-> {}, losses |-> FALSE, frames |-> 2, vers |-> 2, salts |-> 2]
Two == [Alone EXCEPT !.conns = {c1, c2}]

\* The log is restarted under a reader.
Restarts == [Two EXCEPT !.salts = 3]
\* Another connection checkpoints a log that is not restarted.
Checkpoints == [Two EXCEPT !.checkpointers = {c2}, !.frames = 3, !.salts = 1]
\* Checkpoints that wait for their locks and empty the log: by another connection,
\* and with both that write and checkpoint.
Waits == [Two EXCEPT !.checkpointers = {c2}, !.modes = {"FULL", "TRUNCATE"}]
BothWait == [Waits EXCEPT !.writers = {c1, c2}, !.checkpointers = {c1, c2},
                          !.modes = {"TRUNCATE"}, !.vers = 1]
\* The process of a writer ends, and that of a writer that checkpoints.
WriterEnds == [Two EXCEPT !.crashes = {c1}, !.checkpointers = {}, !.salts = 1]
CheckpointerEnds == [Two EXCEPT !.crashes = {c1}, !.vers = 1, !.salts = 1]
\* Power is lost, with synchronous=FULL, more commits or more frames, and NORMAL.
Loses == [Alone EXCEPT !.losses = TRUE, !.vers = 3]
LosesLonger == [Alone EXCEPT !.losses = TRUE, !.frames = 3]
LosesNormal == [Alone EXCEPT !.losses = TRUE, !.full = FALSE, !.vers = 3]
\* The cache spills, writes fail, the process ends.
Fails == [Alone EXCEPT !.spills = TRUE, !.fails = TRUE, !.crashes = {c1},
                       !.frames = 3, !.vers = 3, !.salts = 1]

Surroundings == {Restarts, Checkpoints, Waits, BothWait, WriterEnds, CheckpointerEnds,
                 Loses, LosesLonger, LosesNormal, Fails}

\* A writer restarts the log while another connection checkpoints.
Overtaken == {[Two EXCEPT !.checkpointers = {c2}, !.frames = 3, !.vers = 3, !.salts = 3]}

\* The process of a writer ends while it restarts the log: BackfillWithinLog.
RestarterEnds == {[Two EXCEPT !.crashes = {c1}, !.salts = 3]}
=============================================================================
