----------------------------- MODULE TaskGroups ------------------------------
(***************************************************************************)
(* Task handles, task groups and cancellation                              *)
(* (Absolute-Runtime/src/tasks.cpp, TaskControl, absolute_task_await,      *)
(* absolute_task_destroy, absolute_task_cancel, the task group calls).     *)
(* A task has at most one group, which it creates, may join once and       *)
(* destroys (bounds: another group would be one more task's); it may pass  *)
(* it to the tasks added to it, which may add tasks of their own and       *)
(* cancel.  How a task waits for another one is FiberScheduler's matter:   *)
(* here it stays at the call until the other is done.  A deadline is       *)
(* whether it has passed: the earliest of the ancestry has passed when any *)
(* has.                                                                    *)
(***************************************************************************)
EXTENDS Naturals, FiniteSets

CONSTANTS
    Tasks,        \* task handles; a handle is not used again once deleted
    Main,         \* the task the program starts with
    MaxLate       \* bound of the deadlines that pass

ASSUME MainAssumption == Main \in Tasks /\ MaxLate \in Nat

VARIABLES
    status,       \* "free", "running", the call it is in, "done", "gone"
    parent,       \* TaskControl::parent, itself for Main
    cancelRequested,
    late,         \* tasks whose own deadline has passed
    handles,      \* the task handles each task owns
    awaited,      \* the handles the call a task is in waits for
    group,        \* of each task's group: "none", "open", "closed", "deleted"
    children,     \* TaskGroupImpl::children
    member        \* the groups a task knows, named by their creators

vars == <<status, parent, cancelRequested, late, handles, awaited, group,
          children, member>>

\* "await": absolute_task_await or _destroy.  "join": absolute_task_group_join.
\* "cancelled", "cancel_join", "destroy_cancelled", "destroy": the two halves
\* of absolute_task_group_cancel_and_join, called alone or by _destroy.
InCall == {"await", "join", "cancelled", "cancel_join",
           "destroy_cancelled", "destroy"}

Init ==
    /\ status = [t \in Tasks |-> IF t = Main THEN "running" ELSE "free"]
    /\ parent = [t \in Tasks |-> t]
    /\ cancelRequested = {}
    /\ late = {}
    /\ handles = [t \in Tasks |-> {}]
    /\ awaited = [t \in Tasks |-> {}]
    /\ group = [t \in Tasks |-> "none"]
    /\ children = [t \in Tasks |-> {}]
    /\ member = [t \in Tasks |-> {}]

Running(t) == status[t] = "running"
Goes(t, s) == status' = [status EXCEPT ![t] = s]

\* The task and its ancestors: the least set with t that is closed under
\* parent.
Ancestry(t) ==
    {a \in Tasks : \A S \in SUBSET Tasks :
        t \in S /\ (\A u \in S : parent[u] \in S) => a \in S}

\* Fault: only the task's own flag and deadline are looked at.
CancelledItself(t) == t \in cancelRequested \cup late

\* ControlCancelled.
Cancelled(t) == Ancestry(t) \cap (cancelRequested \cup late) # {}

-----------------------------------------------------------------------------
(* Tasks *)

\* A definition marked Fault is a broken variant of the one that follows it.

\* Fault: the control node is not linked to the spawning task.
SpawnUnlinked(t, c) ==
    /\ Running(t)
    /\ status[c] = "free"
    /\ Goes(c, "running")
    /\ handles' = [handles EXCEPT ![t] = @ \cup {c}]
    /\ UNCHANGED <<parent, cancelRequested, late, awaited, group, children,
                   member>>

\* absolute_task_spawn_config.
Spawn(t, c) ==
    /\ Running(t)
    /\ status[c] = "free"
    /\ Goes(c, "running")
    /\ parent' = [parent EXCEPT ![c] = t]
    /\ handles' = [handles EXCEPT ![t] = @ \cup {c}]
    /\ UNCHANGED <<cancelRequested, late, awaited, group, children, member>>

\* absolute_task_cancel.
Cancel(t, c) ==
    /\ Running(t)
    /\ c \in handles[t]
    /\ cancelRequested' = cancelRequested \cup {c}
    /\ UNCHANGED <<status, parent, late, handles, awaited, group, children,
                   member>>

\* A deadline set with absolute_task_current_set_deadline_after passes.
DeadlinePasses(t) ==
    /\ status[t] \notin {"free", "gone"}
    /\ Cardinality(late) < MaxLate
    /\ late' = late \cup {t}
    /\ UNCHANGED <<status, parent, cancelRequested, handles, awaited, group,
                   children, member>>

\* absolute_task_await or absolute_task_destroy of a handle.
Await(t, c) ==
    /\ Running(t)
    /\ c \in handles[t]
    /\ Goes(t, "await")
    /\ handles' = [handles EXCEPT ![t] = @ \ {c}]
    /\ awaited' = [awaited EXCEPT ![t] = {c}]
    /\ UNCHANGED <<parent, cancelRequested, late, group, children, member>>

\* The task function returns: its handles are consumed, its group destroyed.
Finish(t) ==
    /\ Running(t)
    /\ handles[t] = {}
    /\ group[t] \in {"none", "deleted"}
    /\ Goes(t, "done")
    /\ UNCHANGED <<parent, cancelRequested, late, handles, awaited, group,
                   children, member>>

\* Wait has seen that c is done; c is deleted.
Reap(t, c) ==
    /\ c \in awaited[t]
    /\ status[c] = "done"
    /\ Goes(c, "gone")
    /\ awaited' = [awaited EXCEPT ![t] = @ \ {c}]
    /\ UNCHANGED <<parent, cancelRequested, late, handles, group, children,
                   member>>

-----------------------------------------------------------------------------
(* Groups.  The group of g is named g. *)

Create(t) ==
    /\ Running(t)
    /\ group[t] = "none"
    /\ group' = [group EXCEPT ![t] = "open"]
    /\ member' = [member EXCEPT ![t] = @ \cup {t}]
    /\ UNCHANGED <<status, parent, cancelRequested, late, handles, awaited,
                   children>>

\* Fault: the closed group returns false and leaves the child alone.
AddEscapes(t, g, c) ==
    /\ Running(t)
    /\ g \in member[t]
    /\ c \in handles[t]
    /\ handles' = [handles EXCEPT ![t] = @ \ {c}]
    /\ children' = IF group[g] = "open"
                     THEN [children EXCEPT ![g] = @ \cup {c}] ELSE children
    /\ member' = [member EXCEPT ![c] = @ \cup {g}]
    /\ UNCHANGED <<status, parent, cancelRequested, late, awaited, group>>

\* absolute_task_group_add: the child is the group's, or is cancelled and
\* waited for when the group is closed.
Add(t, g, c) ==
    /\ Running(t)
    /\ g \in member[t]
    /\ c \in handles[t]
    /\ handles' = [handles EXCEPT ![t] = @ \ {c}]
    /\ IF group[g] = "open"
         THEN /\ children' = [children EXCEPT ![g] = @ \cup {c}]
              /\ member' = [member EXCEPT ![c] = @ \cup {g}]
              /\ UNCHANGED <<status, cancelRequested, awaited>>
         ELSE /\ cancelRequested' = cancelRequested \cup {c}
              /\ awaited' = [awaited EXCEPT ![t] = {c}]
              /\ Goes(t, "await")
              /\ UNCHANGED <<children, member>>
    /\ UNCHANGED <<parent, late, group>>

\* absolute_task_group_cancel, under the mutex of the group.
CancelChildren(g) == cancelRequested' = cancelRequested \cup children[g]

GroupCancel(t, g) ==
    /\ Running(t)
    /\ g \in member[t]
    /\ CancelChildren(g)
    /\ UNCHANGED <<status, parent, late, handles, awaited, group, children,
                   member>>

\* Fault: the group stays open.
TakeChildrenOpen(t) ==
    /\ awaited' = [awaited EXCEPT ![t] = children[t]]
    /\ children' = [children EXCEPT ![t] = {}]
    /\ UNCHANGED group

\* absolute_task_group_join up to its first wait, under the mutex.
TakeChildren(t) ==
    /\ group' = [group EXCEPT ![t] = "closed"]
    /\ awaited' = [awaited EXCEPT ![t] = children[t]]
    /\ children' = [children EXCEPT ![t] = {}]

Join(t) ==
    /\ Running(t)
    /\ group[t] = "open"
    /\ TakeChildren(t)
    /\ Goes(t, "join")
    /\ UNCHANGED <<parent, cancelRequested, late, handles, member>>

\* The first half of absolute_task_group_cancel_and_join ...
CancelFirst(t, s) ==
    /\ Running(t)
    /\ \/ s = "cancelled" /\ group[t] = "open"
       \/ s = "destroy_cancelled" /\ group[t] \in {"open", "closed"}
    /\ CancelChildren(t)
    /\ Goes(t, s)
    /\ UNCHANGED <<parent, late, handles, awaited, group, children, member>>

\* ... and the second.
ThenJoin(t) ==
    /\ status[t] \in {"cancelled", "destroy_cancelled"}
    /\ TakeChildren(t)
    /\ Goes(t, IF status[t] = "cancelled" THEN "cancel_join" ELSE "destroy")
    /\ UNCHANGED <<parent, cancelRequested, late, handles, member>>

\* The call a task is in returns; absolute_task_group_destroy deletes the
\* group first.
Returns(t) ==
    /\ status[t] \in {"await", "join", "cancel_join", "destroy"}
    /\ awaited[t] = {}
    /\ Goes(t, "running")
    /\ IF status[t] = "destroy"
         THEN /\ group' = [group EXCEPT ![t] = "deleted"]
              /\ children' = [children EXCEPT ![t] = {}]
         ELSE UNCHANGED <<group, children>>
    /\ UNCHANGED <<member, parent, cancelRequested, late, handles, awaited>>

-----------------------------------------------------------------------------
\* The runtime's part: a call goes on.
Continue(t) ==
    \/ ThenJoin(t)
    \/ Returns(t)
    \/ \E c \in Tasks : Reap(t, c)

Next ==
    \E t \in Tasks :
        \/ Continue(t)
        \/ Create(t)
        \/ Finish(t)
        \/ DeadlinePasses(t)
        \/ Join(t)
        \/ \E s \in {"cancelled", "destroy_cancelled"} : CancelFirst(t, s)
        \/ \E c \in Tasks : Spawn(t, c) \/ Cancel(t, c) \/ Await(t, c)
        \/ \E g \in Tasks :
            \/ GroupCancel(t, g)
            \/ \E c \in Tasks : Add(t, g, c)

Spec == Init /\ [][Next]_vars

\* The end of the scope: the group is destroyed, the handles are awaited.
WindUp(t) ==
    \/ CancelFirst(t, "destroy_cancelled")
    \/ \E c \in Tasks : Await(t, c)
    \/ Finish(t)

\* A call goes on, and a task that is cancelled winds up; one that is not may
\* run for ever.
FairSpec ==
    /\ Spec
    /\ \A t \in Tasks : WF_vars(Continue(t) \/ (Cancelled(t) /\ WindUp(t)))

-----------------------------------------------------------------------------
(* Properties *)

Live == {t \in Tasks : status[t] \notin {"free", "gone"}}

\* The owners of a task: handles, groups and calls that wait for it.
Owners(c) ==
    {<<"handle", t>> : t \in {t \in Tasks : c \in handles[t]}}
      \cup {<<"group", t>> : t \in {t \in Tasks : c \in children[t]}}
      \cup {<<"call", t>> : t \in {t \in Tasks : c \in awaited[t]}}

\* Every task but Main is owned once until it is deleted and never after: it is
\* waited for once, no group cancels a deleted child, none escapes.
OneOwner ==
    \A c \in Tasks \ {Main} :
        /\ c \in Live <=> Owners(c) # {}
        /\ \A x, y \in Owners(c) : x = y

\* A task that is done has left nothing behind, and the group a running task
\* may still add to or cancel is not deleted.
GroupOutlivesMembers ==
    \A t \in Tasks :
        /\ status[t] \in {"done", "gone"} =>
              handles[t] \cup children[t] \cup awaited[t] = {}
        /\ status[t] \notin {"done", "gone"} =>
              \A g \in member[t] \ {t} : group[g] # "deleted"

\* Whatever cancel_and_join waits for has been told: a task added after the
\* children were marked, and before the group was closed, is a descendant of
\* one that was marked.
WaitsForCancelled ==
    \A t \in Tasks :
        status[t] \in {"cancel_join", "destroy"} =>
            \A c \in awaited[t] : Cancelled(c)

\* Destroying a group ends: cancelled children wind up, however deep.
DestroyReturns ==
    \A t \in Tasks :
        status[t] = "destroy_cancelled" ~> status[t] # "destroy_cancelled"
                                            /\ status[t] # "destroy"
=============================================================================
