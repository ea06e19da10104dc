--------------------------- MODULE MCRunLifecycle ---------------------------
(* RunLifecycle for TLC: a run and a run nested in its child, one session. *)
EXTENDS RunLifecycle, SequencesExt
CONSTANTS r1, r2, s1
MCRuns == {r1, r2}
MCOuter == [r \in MCRuns |-> IF r = r2 THEN r1 ELSE None]
MCAbove == [r \in MCRuns |-> IF r = r2 THEN {r1} ELSE {}]
MCUnobserved == {r2}
MCSessions == {s1}

\* ReplayWAL is what the registry's fold computes, over every short log of two runs.
MCFrames == {Frame(k, r, None, FALSE) : k \in Appends, r \in MCRuns}
ASSUME ReplayIsFold ==
    \A n \in 0..3 : \A frames \in [1..n -> MCFrames] :
        ReplayWAL(frames) = FoldLeft(Fold, NoRegistry, frames)
=============================================================================
