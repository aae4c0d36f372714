------------------------------- MODULE StallUnion -------------------------------
(***************************************************************************)
(* The clock of stalled wall time (StallUnion): the time during which at    *)
(* least one compute thread waits for an expert slice.  Threads enter and   *)
(* leave their stalls concurrently; the wrapper takes the timestamp inside  *)
(* its critical section, so the order of the transitions is the order of    *)
(* their timestamps.                                                        *)
(***************************************************************************)
EXTENDS Integers, FiniteSets

CONSTANTS
  Threads,         (* the compute threads                                   *)
  MaxTime          (* bound on the clock                                    *)

ASSUME StallUnionAssumption == IsFiniteSet(Threads) /\ MaxTime \in Nat

VARIABLES
  now,             (* the monotonic clock                                   *)
  pc,              (* where each thread is                                  *)
  asked,           (* the time at which a thread came for the mutex         *)
  stalled, openAt, total,   (* StallUnionState                              *)
  truth            (* the stalled time, counted tick by tick                *)

stateVars == <<stalled, openAt, total>>
vars == <<now, pc, asked, stateVars, truth>>

\* The threads whose stall has begun and not ended.
Stalling == {t \in Threads : pc[t] \in {"in", "leaving"}}

Init ==
  /\ now = 0 /\ pc = [t \in Threads |-> "out"] /\ asked = [t \in Threads |-> 0]
  /\ stalled = 0 /\ openAt = 0 /\ total = 0 /\ truth = 0

Tick ==
  /\ now < MaxTime
  /\ now' = now + 1
  /\ truth' = IF Stalling # {} THEN truth + 1 ELSE truth
  /\ UNCHANGED <<pc, asked, stateVars>>

\* The thread reaches enter() or exit() and contends for the mutex.
Arrive(t, from, to) ==
  /\ pc[t] = from
  /\ pc' = [pc EXCEPT ![t] = to]
  /\ asked' = [asked EXCEPT ![t] = now]
  /\ UNCHANGED <<now, stateVars, truth>>

\* steady_ns() is read after the mutex is held.
EarlyStamp(t) == asked[t]
Stamp(t) == now

Enter(t) ==
  /\ pc[t] = "entering"
  /\ pc' = [pc EXCEPT ![t] = "in"]
  /\ stalled' = stalled + 1
  /\ openAt' = IF stalled = 0 THEN Stamp(t) ELSE openAt
  /\ UNCHANGED <<now, asked, total, truth>>

\* What a closing thread adds to the total.
SwappedElapsed(t) == openAt - Stamp(t)
Elapsed(t) == Stamp(t) - openAt

\* An exit with nothing stalled is refused.
Exit(t) ==
  /\ pc[t] = "leaving"
  /\ pc' = [pc EXCEPT ![t] = "out"]
  /\ stalled' = IF stalled = 0 THEN 0 ELSE stalled - 1
  /\ IF stalled = 1
       THEN total' = total + Elapsed(t) /\ openAt' = 0
       ELSE UNCHANGED <<total, openAt>>
  /\ UNCHANGED <<now, asked, truth>>

Next ==
  \/ Tick
  \/ \E t \in Threads : \/ Arrive(t, "out", "entering") \/ Enter(t)
                        \/ Arrive(t, "in", "leaving") \/ Exit(t)

Spec == Init /\ [][Next]_vars
-----------------------------------------------------------------------------
\* total_ns: a snapshot counts the interval still open.
ClosedOnly == total
Snapshot == total + (IF stalled > 0 THEN now - openAt ELSE 0)

\* Every variable has its type.
TypeOK ==
  /\ now \in Nat /\ pc \in [Threads -> {"out", "entering", "in", "leaving"}]
  /\ asked \in [Threads -> Nat]
  /\ stalled \in Nat /\ openAt \in Nat /\ total \in Nat /\ truth \in Nat

\* A snapshot is exactly the time during which some thread was stalled:
\* overlapping stalls count once, and no interval is lost.
UnionExact == Snapshot = truth

\* A later snapshot is never smaller, so a token's share of the stalled time
\* is never negative.
SnapshotNeverShrinks == [][Snapshot' >= Snapshot]_vars
=============================================================================
