------------------------------- MODULE Lanes --------------------------------
(***************************************************************************)
(* The queue of one worker (Absolute-Runtime/src/tasks.cpp, WorkerQueue,   *)
(* LaneSet, ChoosePriorityLocked, TakeLaneLocked, TakeLocalLocked,         *)
(* TakeStealableLocked, EnqueueLaneLocked).  Work waits in two lane sets:  *)
(* "ready" (new tasks, any worker may take them) and "pinned"              *)
(* (continuations of fibers the worker owns).  A lane set has one FIFO     *)
(* lane per priority level and role.  The owner takes from both sets, a    *)
(* thief from "ready" only; each has credits of its own per level.         *)
(* Everything happens under Scheduler::mutex, so an action is a call.      *)
(* A lane is the number of its entries: push_back and pop_front of one     *)
(* deque keep them in order.                                               *)
(***************************************************************************)
EXTENDS Integers, FiniteSets, FiniteSetsExt, SequencesExt

CONSTANTS
    Levels,       \* the priority levels in use, priority + 4 of the source
    Roles,        \* the role labels
    MaxQueued     \* bound of the entries queued at a time

ASSUME LanesAssumption ==
    /\ Levels \subseteq 1 .. 7
    /\ MaxQueued \in Nat

VARIABLES
    lane,         \* lanes[level][role].size() of each lane set
    roles,        \* readyRoles[level] of each lane set
    credits,      \* localCredits of the owner, stealCredits of the thieves
    takePinnedNext,
    \* History, read by the properties only:
    skipped,      \* calls that served another level while a level had work
    passed        \* owner calls at a level that served the other lane set

vars == <<lane, roles, credits, takePinnedNext, skipped, passed>>

Sets == {"ready", "pinned"}
Takers == {"owner", "thief"}
Other(s) == IF s = "ready" THEN "pinned" ELSE "ready"

priorityWeights == <<1, 2, 3, 4, 6, 8, 12>>

\* The lane sets a taker takes from.
Sources(t) == IF t = "owner" THEN Sets ELSE {"ready"}

Init ==
    /\ lane = [s \in Sets |-> [l \in Levels |-> [r \in Roles |-> 0]]]
    /\ roles = [s \in Sets |-> [l \in Levels |-> <<>>]]
    /\ credits = [t \in Takers |-> [l \in Levels |-> 0]]
    /\ takePinnedNext = [l \in Levels |-> FALSE]
    /\ skipped = [t \in Takers |-> [l \in Levels |-> 0]]
    /\ passed = [s \in Sets |-> [l \in Levels |-> 0]]

\* counts[level] > 0.
Has(s, l) == \E r \in Roles : lane[s][l][r] > 0
Active(t) == {l \in Levels : \E s \in Sources(t) : Has(s, l)}

Queued ==
    MapThenSumSet(LAMBDA x : lane[x[1]][x[2]][x[3]], Sets \X Levels \X Roles)

-----------------------------------------------------------------------------
(* EnqueueLaneLocked *)

\* A definition marked Fault is a broken variant of the one that follows it.

\* Fault: the role is listed at every push.
EnqueueListsAgain(s, l, r) ==
    /\ Queued < MaxQueued
    /\ roles' = [roles EXCEPT ![s][l] = Append(@, r)]
    /\ lane' = [lane EXCEPT ![s][l][r] = @ + 1]
    /\ UNCHANGED <<credits, takePinnedNext, skipped, passed>>

Enqueue(s, l, r) ==
    /\ Queued < MaxQueued
    /\ roles' = IF lane[s][l][r] = 0
                  THEN [roles EXCEPT ![s][l] = Append(@, r)]
                  ELSE roles
    /\ lane' = [lane EXCEPT ![s][l][r] = @ + 1]
    /\ UNCHANGED <<credits, takePinnedNext, skipped, passed>>

-----------------------------------------------------------------------------
(* ChoosePriorityLocked: smooth weighted round-robin.  The credit of a     *)
(* level without work is dropped.                                          *)

Charged(c, A) ==
    [l \in Levels |-> IF l \in A THEN c[l] + priorityWeights[l] ELSE 0]

\* Fault: the highest level with work is taken whatever its credit.
HighestLevel(c, A) == CHOOSE l \in A : \A k \in A : k <= l

\* The most credit; among equals the highest level.
Selected(c, A) ==
    CHOOSE l \in A : \A k \in A :
        \/ Charged(c, A)[k] < Charged(c, A)[l]
        \/ Charged(c, A)[k] = Charged(c, A)[l] /\ k <= l

Paid(c, A) ==
    [Charged(c, A) EXCEPT ![Selected(c, A)] =
        @ - MapThenSumSet(LAMBDA l : priorityWeights[l], A)]

-----------------------------------------------------------------------------
(* Taking *)

\* TakeLaneLocked: one entry of the first role, which goes to the back if it
\* has more.
TakeLane(s, l) ==
    LET r == Head(roles[s][l]) IN
    /\ lane' = [lane EXCEPT ![s][l][r] = @ - 1]
    /\ roles' = [roles EXCEPT ![s][l] =
                    IF lane[s][l][r] = 1 THEN Tail(@) ELSE Append(Tail(@), r)]

\* Fault: takePinnedNext is not looked at.
PrefersReady(l) == IF Has("ready", l) THEN "ready" ELSE "pinned"

\* Where the owner takes from at a level with work.
Source(l) ==
    IF Has("pinned", l) /\ (~ Has("ready", l) \/ takePinnedNext[l])
      THEN "pinned" ELSE "ready"

Turn(l) ==
    takePinnedNext' =
        IF Has("ready", l) /\ Has("pinned", l)
          THEN [takePinnedNext EXCEPT ![l] = Source(l) = "ready"]
          ELSE takePinnedNext

\* History: a level waits on while it has work and another one is served.
Skip(t, l) ==
    skipped' = [u \in Takers |-> [k \in Levels |->
        IF u = t
          THEN IF k \in Active(t) \ {l} THEN skipped[t][k] + 1 ELSE 0
          ELSE IF k \in Active(u)' THEN skipped[u][k] ELSE 0]]

\* History: a lane set waits on at l while the owner serves the other one.
Pass(l, s) ==
    passed' = [passed EXCEPT
        ![s][l] = 0,
        ![Other(s)][l] = IF Has(Other(s), l) THEN @ + 1 ELSE 0]

\* t chooses level l and pays for it.
Choose(t, l) ==
    /\ l \in Active(t)
    /\ l = Selected(credits[t], Active(t))
    /\ credits' = [credits EXCEPT ![t] = Paid(@, Active(t))]

TakeLocal ==
    \E l \in Levels :
        /\ Choose("owner", l)
        /\ TakeLane(Source(l), l)
        /\ Turn(l)
        /\ Skip("owner", l)
        /\ Pass(l, Source(l))

TakeStealable ==
    \E l \in Levels :
        /\ Choose("thief", l)
        /\ TakeLane("ready", l)
        /\ Skip("thief", l)
        /\ passed' = [passed EXCEPT !["ready"][l] =
                         IF Has("ready", l)' THEN @ ELSE 0]
        /\ UNCHANGED takePinnedNext

\* The choice was made in vain: every credit of the taker is dropped.
TakeNone(t) ==
    /\ Active(t) = {}
    /\ credits' = [credits EXCEPT ![t] = Charged(@, {})]
    /\ UNCHANGED <<lane, roles, takePinnedNext, skipped, passed>>

-----------------------------------------------------------------------------
Next ==
    \/ \E s \in Sets, l \in Levels, r \in Roles : Enqueue(s, l, r)
    \/ TakeLocal
    \/ TakeStealable
    \/ \E t \in Takers : TakeNone(t)

Spec == Init /\ [][Next]_vars

-----------------------------------------------------------------------------
(* Properties *)

TypeOK ==
    /\ lane \in [Sets -> [Levels -> [Roles -> Nat]]]
    /\ roles \in [Sets -> [Levels -> Seq(Roles)]]
    /\ credits \in [Takers -> [Levels -> Int]]
    /\ takePinnedNext \in [Levels -> BOOLEAN]
    /\ skipped \in [Takers -> [Levels -> Nat]]
    /\ passed \in [Sets -> [Levels -> Nat]]

\* The roles listed at a level are those with entries, each once: the aborts
\* of TakeLaneLocked are unreachable and no entry is out of every taker's sight.
RolesExact ==
    \A s \in Sets, l \in Levels :
        /\ ToSet(roles[s][l]) = {r \in Roles : lane[s][l][r] > 0}
        /\ IsInjective(roles[s][l])

\* Of two levels, one that has work all the time is served at least once in
\* every W / w choices of a taker (w its weight, W that of both), however the
\* other one runs dry, loses its credit and fills up again.  (Three levels that
\* run dry in turns leave their debts behind: a wait may then be longer.)
ShareKept ==
    \A t \in Takers, l \in Levels :
        skipped[t][l] * priorityWeights[l]
            < MapThenSumSet(LAMBDA k : priorityWeights[k], Levels)

\* New tasks and continuations of one level alternate.
SourcesAlternate == \A s \in Sets, l \in Levels : passed[s][l] <= 1
=============================================================================
