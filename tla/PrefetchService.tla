--------------------------- MODULE PrefetchService ---------------------------
(***************************************************************************)
(* What the prefetch engine promises, without threads, locks or queue      *)
(* internals: the lifecycle of engine.py:22-34 and the life of a task.  A  *)
(* task is accepted only while RUNNING, waits, is begun in order of        *)
(* urgency and ends exactly once, or is withdrawn while it waits; the      *)
(* service is STOPPED only after everything accepted has ended.            *)
(* PrefetchEngine implements it when one thread controls the engine.       *)
(***************************************************************************)
EXTENDS Integers, FiniteSets

CONSTANTS Tasks, Capacity, MaxAccepted

VARIABLES phase, waiting, active, outcome, accepted

serviceVars == <<phase, waiting, active, outcome, accepted>>

Ends == {"COMPLETED", "CANCELLED", "FAILED", "lost"}

Init ==
    /\ phase = "STOPPED"
    /\ waiting = {}
    /\ active = {}
    /\ accepted = 0
    /\ outcome = [i \in 0 .. MaxAccepted - 1 |-> "future"]

Open == phase = "STOPPED" /\ phase' = "RUNNING" /\ UNCHANGED <<waiting, active, outcome, accepted>>

Close == phase = "RUNNING" /\ phase' = "STOPPING" /\ UNCHANGED <<waiting, active, outcome, accepted>>

Halt ==
    /\ phase = "STOPPING"
    /\ waiting = {} /\ active = {}
    /\ phase' = "STOPPED"
    /\ UNCHANGED <<waiting, active, outcome, accepted>>

Accept(t) ==
    /\ phase = "RUNNING"
    /\ \A x \in waiting : x.expert # t.expert
    /\ Cardinality(waiting) < Capacity
    /\ accepted < MaxAccepted
    /\ waiting' = waiting \cup {[expert |-> t.expert, priority |-> t.priority, seq |-> accepted]}
    /\ outcome' = [outcome EXCEPT ![accepted] = "accepted"]
    /\ accepted' = accepted + 1
    /\ UNCHANGED <<phase, active>>

(* Nothing that waits is more urgent, and nothing equally urgent is older. *)
Begin(x) ==
    /\ phase # "STOPPED"
    /\ \A y \in waiting : y.priority < x.priority \/ (y.priority = x.priority /\ x.seq <= y.seq)
    /\ waiting' = waiting \ {x}
    /\ active' = active \cup {x}
    /\ UNCHANGED <<phase, outcome, accepted>>

End(x, s) ==
    /\ active' = active \ {x}
    /\ outcome' = [outcome EXCEPT ![x.seq] = s]
    /\ UNCHANGED <<phase, waiting, accepted>>

Withdraw(x) ==
    /\ waiting' = waiting \ {x}
    /\ outcome' = [outcome EXCEPT ![x.seq] = "withdrawn"]
    /\ UNCHANGED <<phase, active, accepted>>

Next ==
    \/ Open \/ Close \/ Halt
    \/ \E t \in Tasks : Accept(t)
    \/ \E x \in waiting : Begin(x) \/ Withdraw(x)
    \/ \E x \in active, s \in Ends : End(x, s)

Spec == Init /\ [][Next]_serviceVars
=============================================================================
