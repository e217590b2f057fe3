-------------------------- MODULE MCBackgroundJobs --------------------------
(* Instances of BackgroundJobs for TLC.                                    *)
EXTENDS BackgroundJobs

(* The questions of t1 can form two clusters, with the one that is too     *)
(* long in one of them, which then fails before or after the other was     *)
(* drafted, or in none, and then two drafts compete for one knowledge      *)
(* base.  The single question of t2 forms no cluster.                      *)
MCQuestions == [t1 |-> {"q1", "q2", "q3", "q4", "q5"}, t2 |-> {"q6"}]
=============================================================================
