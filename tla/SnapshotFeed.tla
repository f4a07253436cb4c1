---------------------------- MODULE SnapshotFeed ----------------------------
(***************************************************************************)
(* What the screen may rely on, whatever stands between it and the polling *)
(* thread: it is shown snapshots in the order they were made, each once,   *)
(* may miss some, and is never left with an old one when a newer exists.   *)
(***************************************************************************)
EXTENDS Naturals

CONSTANT Last           \* bound: the snapshots that are made

VARIABLES made,         \* the number of the newest snapshot
          seen          \* the number of the snapshot shown last

feedVars == <<made, seen>>

FeedInit == made = 0 /\ seen = 0

Make == made < Last /\ made' = made + 1 /\ seen' = seen

Show == (\E n \in (seen + 1)..made : seen' = n) /\ made' = made

FeedNext == Make \/ Show

FeedSpec == FeedInit /\ [][FeedNext]_feedVars /\ WF_feedVars(Show)

=============================================================================
