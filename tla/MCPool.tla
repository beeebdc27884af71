------------------------------ MODULE MCPool ------------------------------
(* Instances of Pool for TLC: two tasks, and enough sockets that a connect   *)
(* always finds one that is not open.                                        *)
EXTENDS Pool, TLC

CONSTANTS t1, t2, c1, c2, c3, c4

MCTasks  == {t1, t2}
MCConns3 == {c1, c2, c3}
MCConns  == {c1, c2, c3, c4}

Symmetry == Permutations(MCTasks) \cup Permutations(MCConns)

(* The smallest pool that can be exhausted.                                  *)
Base == [max_size |-> 1, min_idle |-> 0, test_on_acquire |-> FALSE,
         acquire_timeout |-> TRUE, max_lifetime |-> FALSE, idle_timeout |-> FALSE,
         before_return |-> FALSE, tokio_transport |-> TRUE]

Tested   == [Base EXCEPT !.test_on_acquire = TRUE]
Sleeping == [Base EXCEPT !.tokio_transport = FALSE]
Two      == [Base EXCEPT !.max_size = 2]
Checked  == [Base EXCEPT !.min_idle = 1, !.test_on_acquire = TRUE, !.max_lifetime = TRUE]
Untimed  == [Base EXCEPT !.min_idle = 1, !.acquire_timeout = FALSE, !.idle_timeout = TRUE,
                         !.before_return = TRUE]

SafetyConfigs   == {Base, Sleeping, Two, Checked, Untimed}
LivenessConfigs == {Base, Tested}
BaseOnly        == {Base}
=============================================================================
