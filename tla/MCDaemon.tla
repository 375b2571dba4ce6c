------------------------------- MODULE MCDaemon -------------------------------
(* Small instances of Daemon.                                              *)
EXTENDS Daemon

CONSTANTS hook, tick, e1, e2, e3

Both == {hook, tick}
HookOnly == {hook}
SmallEvents == {e1, e2, e3}

\* Three requests of one webhook.
BurstOf == [e \in SmallEvents |-> hook]

\* Two requests of a webhook and a tick of a schedule.
MixedOf == [e \in SmallEvents |-> IF e = e3 THEN tick ELSE hook]
=============================================================================
