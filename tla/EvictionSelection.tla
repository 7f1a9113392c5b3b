-------------------------- MODULE EvictionSelection --------------------------
(***************************************************************************)
(* SchedulerPolicy.select_evictions() with candidates_from_states(),       *)
(* required_free_mb() and select_eviction_candidates() of the capacity     *)
(* manager (predictive_scheduler/policy.py, capacity.py): which experts    *)
(* have to leave the GPU for one that does not fit.                        *)
(***************************************************************************)
EXTENDS Ordering

CONSTANT EvictionCalls     (* the calls that are made                       *)

(* What the model of ExpertState keeps, with the expert's priority; "free" *)
(* is free_mb of the capacity manager, "size" that of the expert to load.  *)
ExpertState == [expert : Nat, size : Nat \ {0}, priority : Int, onGpu : BOOLEAN]
EvictionCall == [states : Seq(ExpertState), size : Nat \ {0}, free : Nat]

ASSUME EvictionAssumption ==
       /\ EvictionCalls \subseteq EvictionCall
       /\ \A c \in EvictionCalls : \A i, j \in DOMAIN c.states :
             c.states[i].expert = c.states[j].expert => i = j

VARIABLES phase,      (* where the selection is, or how it ended            *)
          asked,      (* its arguments                                      *)
          ordered,    (* the candidates not yet selected                    *)
          selected,   (* selected                                           *)
          released    (* released_mb                                        *)

evictionVars == <<phase, asked, ordered, selected, released>>

NothingAsked == [states |-> <<>>, size |-> 1, free |-> 1]

EvictionInit ==
    /\ phase = "idle" /\ asked = NothingAsked
    /\ ordered = <<>> /\ selected = <<>> /\ released = 0
-----------------------------------------------------------------------------
OnGpu(s) == s.onGpu

CandidatesOf(states) == SubSequence(states, {i \in DOMAIN states : OnGpu(states[i])})

RequiredFree(c) == IF c.size > c.free THEN c.size - c.free ELSE 0

(* Mutant: the smaller one of two equal candidates first.                  *)
SmallerFirst(x, y) == x.priority < y.priority \/ (x.priority = y.priority /\ x.size < y.size)

EvictedBefore(x, y) == x.priority < y.priority \/ (x.priority = y.priority /\ x.size > y.size)

(* sorted() is stable: what the two keys do not tell apart stays in order. *)
Sorted(s) == StableSort(s, OrderOn(ToSet(s), EvictedBefore))

SelectEvictions(c) ==
    /\ asked' = c
    /\ \/ RequiredFree(c) = 0 /\ phase' = "returned" /\ UNCHANGED ordered
       \/ RequiredFree(c) > 0 /\ phase' = "select" /\ ordered' = Sorted(CandidatesOf(c.states))
    /\ UNCHANGED <<selected, released>>

(* Mutant: exactly enough is not enough.                                   *)
EnoughWithNext == released + Head(ordered).size > RequiredFree(asked)

Enough == released + Head(ordered).size >= RequiredFree(asked)

Select ==
    /\ phase = "select" /\ ordered # <<>>
    /\ selected' = Append(selected, Head(ordered))
    /\ released' = released + Head(ordered).size
    /\ ordered' = Tail(ordered)
    /\ phase' = IF Enough THEN "returned" ELSE "select"
    /\ UNCHANGED asked

(* "insufficient eviction candidates"                                      *)
NotEnough ==
    /\ phase = "select" /\ ordered = <<>>
    /\ phase' = "raised" /\ selected' = <<>>
    /\ UNCHANGED <<asked, ordered, released>>

SelectionReturns ==
    /\ phase \in {"returned", "raised"}
    /\ phase' = "idle" /\ asked' = NothingAsked
    /\ ordered' = <<>> /\ selected' = <<>> /\ released' = 0

EvictionNext ==
    \/ phase = "idle" /\ \E c \in EvictionCalls : SelectEvictions(c)
    \/ Select
    \/ NotEnough
    \/ SelectionReturns
-----------------------------------------------------------------------------
Candidates == {s \in ToSet(asked.states) : OnGpu(s)}
Freed(S) == SumFunction([s \in S |-> s.size])

(* What is returned makes room for the expert, and no selected expert but  *)
(* the last would have: the loop stops as soon as it may (capacity.py:     *)
(* 158-163).  No expert leaves while a less important one stays            *)
(* (capacity.py:13, 136).  It fails only when all of the GPU would not be  *)
(* enough.                                                                 *)
JustEnough ==
    /\ phase = "returned" =>
          /\ asked.free + Freed(ToSet(selected)) >= asked.size
          /\ selected # <<>> => asked.free + Freed(ToSet(Front(selected))) < asked.size
          /\ \A x \in ToSet(selected), y \in Candidates \ ToSet(selected) :
                x.priority <= y.priority
    /\ phase = "raised" => asked.free + Freed(Candidates) < asked.size

(* "As few evictions as possible" (capacity.py:139) holds for experts of   *)
(* one priority: no smaller set of candidates, however chosen, would do.   *)
FewestAmongEquals ==
    phase = "returned" /\ (\A x, y \in Candidates : x.priority = y.priority) =>
        \A S \in SUBSET Candidates :
            asked.free + Freed(S) >= asked.size => Cardinality(S) >= Len(selected)
=============================================================================
