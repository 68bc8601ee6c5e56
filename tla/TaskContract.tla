----------------------------- MODULE TaskContract -----------------------------
(***************************************************************************)
(* What the task runtime promises a program, without queues, timers or     *)
(* wake-ups: a task is spawned by the main thread or by a running task,    *)
(* which then holds its handle and may hand it to another living holder;   *)
(* it runs on one worker at a time and always on the same one; it is       *)
(* consumed exactly once, by whoever holds its handle then, and only after *)
(* it completed.  Nothing is promised about the order in which a task and  *)
(* the tasks it spawned complete.                                          *)
(***************************************************************************)

CONSTANTS Tasks, Workers, Main, None

VARIABLES
    phase,      \* of every task: none, live, done, consumed
    holder,     \* who holds the task's handle
    boundTo,    \* the worker a started task is bound to
    onWorker    \* the task each worker is executing

vars == <<phase, holder, boundTo, onWorker>>

Init ==
    /\ phase = [t \in Tasks |-> "none"]
    /\ holder = [t \in Tasks |-> None]
    /\ boundTo = [t \in Tasks |-> None]
    /\ onWorker = [w \in Workers |-> None]

\* p is the main thread or a task that is being executed.
Acting(p) == p = Main \/ \E w \in Workers : onWorker[w] = p

\* p can still consume a handle it is given.
Living(p) == p = Main \/ (p \in Tasks /\ phase[p] = "live")

Spawn(p, t) ==
    /\ Acting(p)
    /\ phase[t] = "none"
    /\ phase' = [phase EXCEPT ![t] = "live"]
    /\ holder' = [holder EXCEPT ![t] = p]
    /\ UNCHANGED <<boundTo, onWorker>>

\* The holder gives the handle away, to a group of q.
HandOver(p, t, q) ==
    /\ Acting(p)
    /\ holder[t] = p
    /\ phase[t] \in {"live", "done"}
    /\ Living(q) /\ q # t
    /\ holder' = [holder EXCEPT ![t] = q]
    /\ UNCHANGED <<phase, boundTo, onWorker>>

Run(w, t) ==
    /\ phase[t] = "live"
    /\ onWorker[w] = None
    /\ \A v \in Workers : onWorker[v] # t
    /\ boundTo[t] \in {None, w}
    /\ boundTo' = [boundTo EXCEPT ![t] = w]
    /\ onWorker' = [onWorker EXCEPT ![w] = t]
    /\ UNCHANGED <<phase, holder>>

\* The task waits for something; it will run again on the same worker.
Leave(w, t) ==
    /\ onWorker[w] = t
    /\ onWorker' = [onWorker EXCEPT ![w] = None]
    /\ UNCHANGED <<phase, holder, boundTo>>

Complete(w, t) ==
    /\ onWorker[w] = t
    /\ phase' = [phase EXCEPT ![t] = "done"]
    /\ onWorker' = [onWorker EXCEPT ![w] = None]
    /\ UNCHANGED <<holder, boundTo>>

Consume(p, t) ==
    /\ Acting(p)
    /\ holder[t] = p
    /\ phase[t] = "done"
    /\ phase' = [phase EXCEPT ![t] = "consumed"]
    /\ UNCHANGED <<holder, boundTo, onWorker>>

Next ==
    \E t \in Tasks :
        \/ \E p \in Tasks \cup {Main} :
              \/ Spawn(p, t)
              \/ Consume(p, t)
              \/ \E q \in Tasks \cup {Main} : HandOver(p, t, q)
        \/ \E w \in Workers : Run(w, t) \/ Leave(w, t) \/ Complete(w, t)

Spec == Init /\ [][Next]_vars
=============================================================================
