-------------------------- MODULE MCConnectionPool --------------------------
(* Small instances of ConnectionPool for TLC.                                *)
EXTENDS ConnectionPool

CONSTANTS c1, c2, c3, c4, k1, k2

\* Four callers of a pool of two, with cancellation, failures and housekeeping.
Crowded ==
    [callers |-> {c1, c2, c3, c4}, closers |-> {}, max_size |-> 2, min_idle |-> 1,
     uses |-> {}, spoils |-> 1]

\* All that two borrowers may leave behind on their sessions.
Borrowed ==
    [callers |-> {c1, c2}, closers |-> {}, max_size |-> 2, min_idle |-> 1,
     uses |-> {"raw", "drop", "token", "timeout"}, spoils |-> 1]

\* Three callers and two closers.
Closing ==
    [callers |-> {c1, c2, c3}, closers |-> {k1, k2}, max_size |-> 2, min_idle |-> 1,
     uses |-> {}, spoils |-> 1]

\* A pool of three that is refilled to two while four callers and a closer come.
Refilled ==
    [Crowded EXCEPT !.closers = {k1}, !.max_size = 3, !.min_idle = 2]

Scenes == {Crowded, Borrowed, Closing, Refilled}

=============================================================================
