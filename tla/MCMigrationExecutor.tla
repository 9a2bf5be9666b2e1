------------------------ MODULE MCMigrationExecutor ------------------------
(* Small instances of MigrationExecutor for TLC: a catalogue of migrations   *)
(* each, as its edges, and what deployers do with it.                        *)
EXTENDS MigrationExecutor

CONSTANTS d1, d2

Relation(pairs) == [v \in Versions |-> {w \in Versions : <<v, w>> \in pairs}]

Plain ==
    [versions |-> {1, 2}, deployers |-> {d1, d2}, batches |-> {{1, 2}}, targets |-> {},
     depends_on |-> Relation({}), supersedes |-> Relation({}),
     two_phase |-> {}, replayable |-> {}, guarded |-> {}, conditional |-> {},
     repeatable |-> {}, reversible |-> {}, expand |-> {}, contract |-> {}, editable |-> {},
     max_edits |-> 0, max_rollbacks |-> 0, max_faults |-> 1]

\* An index built concurrently under a precondition, edited at some time, and
\* an up that cannot be run twice.
Recovered ==
    [Plain EXCEPT !.two_phase = {1, 2}, !.replayable = {1},
                  !.guarded = {2}, !.conditional = {1}, !.editable = {1}, !.max_edits = 1]

\* The same, deployed in part or as a whole, with two crashes or failures.
Interrupted ==
    [Recovered EXCEPT !.deployers = {d1}, !.batches = {{1}, {1, 2}}, !.max_faults = 2]

\* One migration of each path on two sessions, with failing statements.
Bracketed ==
    [Plain EXCEPT !.targets = {<<"steps", 1>>}, !.depends_on = Relation({<<2, 1>>}),
                  !.two_phase = {2}, !.replayable = {2}, !.reversible = {1},
                  !.max_rollbacks = 1, !.max_faults = 3]

\* A chain of three, a view and an edit, with every target, forced or not.
RolledBack ==
    [Plain EXCEPT !.versions = {1, 2, 3, 4}, !.deployers = {d1},
                  !.batches = {{1}, {1, 2}, {1, 2, 3}, {1, 2, 3, 4}},
                  !.targets = {<<"all">>} \cup ({"steps"} \X (1..2)) \cup ({"to"} \X (1..3)),
                  !.depends_on = Relation({<<2, 1>>, <<3, 2>>}), !.conditional = {2},
                  !.repeatable = {4}, !.reversible = {1, 2}, !.expand = {1},
                  !.contract = {2}, !.editable = {2}, !.max_edits = 1, !.max_rollbacks = 1]

\* Two versions, a squash of them, a version after it, and a squash of all
\* that; a squash joins the set it supersedes and may outlive it there.
Squashed ==
    [Plain EXCEPT !.versions = {1, 2, 3, 4, 5}, !.deployers = {d1},
                  !.batches = {{1}, {1, 2}, {1, 2, 3}, {3, 4}, {1, 2, 3, 4, 5}, {4, 5}},
                  !.targets = {<<"steps", 2>>}, !.depends_on = Relation({<<4, 3>>}),
                  !.supersedes = Relation({<<3, 1>>, <<3, 2>>, <<5, 1>>, <<5, 2>>, <<5, 4>>}),
                  !.conditional = {2}, !.reversible = {1, 2, 4}, !.max_rollbacks = 2]

\* A table, an index built concurrently, an up that cannot be run twice, and a
\* view that is edited; the set is deployed again and again.
Landed ==
    [Plain EXCEPT !.versions = {1, 2, 3, 4}, !.batches = {{1, 2, 3, 4}},
                  !.depends_on = Relation({<<2, 1>>, <<4, 2>>}), !.two_phase = {2, 3},
                  !.replayable = {2}, !.repeatable = {4}, !.editable = {4},
                  !.max_edits = 1, !.max_faults = 2]

Scenes == {Recovered, Interrupted, Bracketed, RolledBack, Squashed, Landed}

\* What the proofs about journal and schema ask of a project, each of these has.
ASSUME ScenesOrderly == \A p \in Scenes : Orderly(p)
=============================================================================
