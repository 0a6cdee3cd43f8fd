--------------------------- MODULE MCRunLifecycle ---------------------------
(* Small instances of RunLifecycle.                                        *)
EXTENDS RunLifecycle, TLC

CONSTANTS c1, c2, c3, r1, r2, v1, v2

\* The user interface: every call has an id of its own.
FreshIds == {<<c1, r1, v1>>, <<c2, r2, v1>>, <<c2, r2, v2>>}

\* Callers of the command that submit an id again, from either revision.
ReusedIds == {<<c1, r1, v1>>, <<c2, r1, v1>>, <<c2, r1, v2>>, <<c3, r1, v2>>}

NoFaults == {}
AllFaults == FaultKinds
CrashFaults == {"storage", "panic", "crash"}
OnlyCrash == {"crash"}
OnlyReset == {"reset"}
=============================================================================
