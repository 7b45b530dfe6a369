----------------------------- MODULE MCSoakLoop -----------------------------
(* Two sessions of a few cycles, every way a pass can end.                 *)
EXTENDS SoakLoop

TwoSessions == <<2, 4>>
Fast == {0, 1}
NoneOrOne == {0, 1}

Fresh == [closed |-> TRUE, aligned |-> TRUE, context |-> "fresh",
          index |-> "none", stablecoin |-> "none", clock |-> "unknown"]
SomeInputs == {Fresh, [Fresh EXCEPT !.context = "stale"],
               [Fresh EXCEPT !.closed = FALSE]}

Quiet == NoPass
Applied == [NoPass EXCEPT !.transport = TRUE, !.attempted = TRUE,
                          !.applied = TRUE]
Recovered == [Applied EXCEPT !.convergence = "converged_terminal",
                             !.queries = 1, !.last = "success"]
Unresolved == [Recovered EXCEPT !.applied = FALSE, !.last = "failed",
                                !.convergence = "pending", !.queries = 2]
Manual == [Unresolved EXCEPT !.convergence = "unreconciled_manual_attention"]
SomePasses == {Quiet, Recovered, Unresolved, Manual}
SomeStreams == {"authoritative", "degraded", "terminated"}
=============================================================================
