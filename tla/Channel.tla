------------------------------ MODULE Channel -------------------------------
(***************************************************************************)
(* The channel of values and the channel of transfer capsules              *)
(* (Absolute-Runtime/src/tasks.cpp, absolute_channel_send and the others,  *)
(* absolute_transfer_channel_send and the others): the two differ in what  *)
(* a queue element is, which is left out here, only their number counts.   *)
(* Destroying a channel, and with it the capsules still in a transfer      *)
(* channel, comes after its last call and is left out too.                 *)
(* Capacity 0 means unbounded; the queue is then cut at MaxCount.          *)
(***************************************************************************)
EXTENDS Blocking

CONSTANTS
    Capacity,     \* as given to absolute_channel_create, 0 for no bound
    MaxCount      \* bound of the queue when Capacity is 0

ASSUME CapacityAssumption == Capacity \in Nat /\ MaxCount \in Nat

VARIABLES
    count,        \* queue.size()
    closed,
    failed        \* processes whose last call returned false

chanState == <<count, closed, failed>>
chanVars == <<procVars, chanState>>

ChanOps == {"send", "receive", "close"}

ChanInit ==
    /\ AllIdle("send")
    /\ count = 0
    /\ closed = FALSE
    /\ failed = {}

HasRoom == Capacity = 0 \/ count < Capacity

\* The call returns true or false.
Succeeds(p) == failed' = failed \ {p}
Fails(p)    == failed' = failed \cup {p}

BeginCall(p, o) ==
    /\ Enter(p, o)
    /\ failed' = failed \ {p}
    /\ UNCHANGED <<count, closed>>

-----------------------------------------------------------------------------
(* Sending *)

\* A definition marked Fault is a broken variant of the one that follows it.

\* Fault: no receiver is taken from the deque.
PushSilently(p) ==
    /\ ~ closed
    /\ HasRoom
    /\ Capacity = 0 => count < MaxCount
    /\ count' = count + 1
    /\ Signal(p, "send", {})
    /\ Succeeds(p)
    /\ UNCHANGED closed

\* The value is queued and one waiting receiver popped.
Push(p) ==
    /\ ~ closed
    /\ HasRoom
    /\ Capacity = 0 => count < MaxCount
    /\ count' = count + 1
    /\ \E S \in SUBSET Waiters("receive") :
        /\ PoppedFrom(S, "receive", 1)
        /\ Signal(p, "send", S)
    /\ Succeeds(p)
    /\ UNCHANGED closed

Send(p) == Tries(p, "send") /\ Push(p)

SendClosed(p) ==
    /\ Tries(p, "send")
    /\ closed
    /\ Leave(p)
    /\ Fails(p)
    /\ UNCHANGED <<count, closed>>

SendBlocks(p) ==
    /\ Tries(p, "send")
    /\ ~ closed
    /\ ~ HasRoom
    /\ Wait(p)
    /\ UNCHANGED chanState

TrySend(p) == pc[p] = "idle" /\ Push(p)

-----------------------------------------------------------------------------
(* Receiving.  What is queued when the channel is closed is still received. *)

\* Fault: the room made by a receive is not passed on to a waiting sender.
PopSilently(p) ==
    /\ count > 0
    /\ count' = count - 1
    /\ Signal(p, "receive", {})
    /\ Succeeds(p)
    /\ UNCHANGED closed

\* The first value is taken and one waiting sender popped.
Pop(p) ==
    /\ count > 0
    /\ count' = count - 1
    /\ \E S \in SUBSET Waiters("send") :
        /\ PoppedFrom(S, "send", 1)
        /\ Signal(p, "receive", S)
    /\ Succeeds(p)
    /\ UNCHANGED closed

Receive(p) == Tries(p, "receive") /\ Pop(p)

\* Fault: closed is tested before the queue.
ReceiveClosedFirst(p) ==
    /\ Tries(p, "receive")
    /\ closed
    /\ Leave(p)
    /\ Fails(p)
    /\ UNCHANGED <<count, closed>>

ReceiveClosed(p) ==
    /\ Tries(p, "receive")
    /\ count = 0
    /\ closed
    /\ Leave(p)
    /\ Fails(p)
    /\ UNCHANGED <<count, closed>>

ReceiveBlocks(p) ==
    /\ Tries(p, "receive")
    /\ count = 0
    /\ ~ closed
    /\ Wait(p)
    /\ UNCHANGED chanState

TryReceive(p) == pc[p] = "idle" /\ Pop(p)

-----------------------------------------------------------------------------
(* Closing *)

\* Fault: only the waiting receivers are popped.
CloseForReceivers(p) ==
    /\ pc[p] = "idle"
    /\ closed' = TRUE
    /\ Signal(p, "close", Waiters("receive"))
    /\ Succeeds(p)
    /\ UNCHANGED count

Close(p) ==
    /\ pc[p] = "idle"
    /\ closed' = TRUE
    /\ Signal(p, "close", Waiters("send") \cup Waiters("receive"))
    /\ Succeeds(p)
    /\ UNCHANGED count

\* cv_recv after a send, cv_send after a receive, both after a close.
ChanNotify(p) ==
    /\ \/ op[p] = "send" /\ NotifyOne(p, "receive")
       \/ op[p] = "receive" /\ NotifyOne(p, "send")
       \/ op[p] = "close" /\ NotifyAll(p, {"send", "receive"})
    /\ UNCHANGED chanState

ChanWake(p) == (ResumeOne(p) \/ Resumed(p)) /\ UNCHANGED chanState

-----------------------------------------------------------------------------
ChanContinue(p) ==
    \/ Send(p) \/ SendClosed(p) \/ SendBlocks(p)
    \/ Receive(p) \/ ReceiveClosed(p) \/ ReceiveBlocks(p)
    \/ ChanNotify(p)
    \/ ChanWake(p)

ChanNext ==
    \E p \in Procs :
        \/ BeginCall(p, "send")
        \/ BeginCall(p, "receive")
        \/ TrySend(p)
        \/ TryReceive(p)
        \/ Close(p)
        \/ ChanContinue(p)
        \/ SpuriousWake(p) /\ UNCHANGED chanState

\* A call that has begun goes on; nobody has to begin one.
ChanSpec     == ChanInit /\ [][ChanNext]_chanVars
ChanFairSpec == ChanSpec /\ \A p \in Procs : WF_chanVars(ChanContinue(p))

-----------------------------------------------------------------------------
(* Properties *)

\* The types; in particular a bounded channel never holds more values than
\* its capacity.
ChanTypeOK ==
    /\ ProcsOK(ChanOps)
    /\ count \in 0 .. (IF Capacity = 0 THEN MaxCount ELSE Capacity)
    /\ closed \in BOOLEAN
    /\ failed \subseteq Procs

\* Those on their way to the operation o: trying, popped to be resumed, or to
\* be woken by a notification a process at `by' still has to give.
Coming(o, by) ==
    Trying(o) \cup {p \in At("notify") : op[p] = by}

\* Receivers wait only as long as every queued value is spoken for: by a
\* receiver on its way, or (for a native thread) by a notification on its way.
\* Senders of an open channel wait only as long as every free place is.
NoneStranded ==
    /\ Waiters("receive") # {} => count <= Cardinality(Trying("receive"))
    /\ Parked("receive") # {} => count <= Cardinality(Coming("receive", "send"))
    /\ ~ closed /\ Waiters("send") # {} =>
          Capacity - count <= Cardinality(Trying("send"))
    /\ ~ closed /\ Parked("send") # {} =>
          Capacity - count <= Cardinality(Coming("send", "receive"))

\* A receive reports the end of the channel only when it is closed and
\* drained, so no accepted value is lost to a close.  That holds of both kinds
\* of channel, also of the one for which CloseDestroysQueued is documented.
EndMeansDrained ==
    \A p \in failed : closed /\ (op[p] = "receive" => count = 0)

\* Whoever is blocked in receive while something is queued tries again, unless
\* others take it all.
ValueIsOffered ==
    \A p \in Procs :
        p \in Blocked("receive") /\ count > 0
            ~> p \notin Blocked("receive") \/ count = 0

\* What docs/standard-library.md:185 says of the transfer channel: closing it
\* destroys every queued owner that was not received.  Both close functions
\* leave the queue alone, and its elements can still be received; only
\* absolute_transfer_channel_destroy destroys them.  So this does not hold.
CloseDestroysQueued ==
    closed /\ (\A p \in Procs : op[p] = "close" => pc[p] = "idle") => count = 0

\* Every call returns, or is about to, once the channel is closed.
CloseReleasesAll ==
    \A p \in Procs :
        closed ~> p \notin Blocked("send") \cup Blocked("receive")
=============================================================================
