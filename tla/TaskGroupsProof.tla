-------------------------- MODULE TaskGroupsProof --------------------------
(***************************************************************************)
(* Proofs about TaskGroups, for any set of tasks: every task has one owner *)
(* until it is deleted, a group outlives the tasks that may still use it,  *)
(* and what cancel_and_join waits for is cancelled.                        *)
(***************************************************************************)
EXTENDS TaskGroups, TLAPS

Types ==
    /\ status \in [Tasks -> {"free", "running", "done", "gone"} \cup InCall]
    /\ parent \in [Tasks -> Tasks]
    /\ cancelRequested \subseteq Tasks
    /\ late \subseteq Tasks
    /\ handles \in [Tasks -> SUBSET Tasks]
    /\ awaited \in [Tasks -> SUBSET Tasks]
    /\ group \in [Tasks -> {"none", "open", "closed", "deleted"}]
    /\ children \in [Tasks -> SUBSET Tasks]
    /\ member \in [Tasks -> SUBSET Tasks]

Held(t) == handles[t] \cup children[t] \cup awaited[t]

\* Who is held lives, once, and everybody but Main who lives is held.
Ownership ==
    /\ \A t \in Tasks : \A c \in Held(t) : c \in Live /\ c # Main
    /\ \A c \in Live \ {Main} : \E t \in Tasks : c \in Held(t)
    /\ \A t, u \in Tasks :
        /\ t # u => Held(t) \cap Held(u) = {}
        /\ handles[t] \cap children[t] = {}
        /\ handles[t] \cap awaited[t] = {}
        /\ children[t] \cap awaited[t] = {}

\* What the place of a task says of what it holds.
Phases ==
    \A t \in Tasks :
        /\ status[t] \in {"free", "done", "gone"} => Held(t) = {}
        /\ awaited[t] # {} =>
              status[t] \in {"await", "join", "cancel_join", "destroy"}
        /\ children[t] # {} => group[t] = "open"
        /\ status[t] = "free" => group[t] = "none" /\ member[t] = {}
        /\ status[t] \in {"done", "gone"} => group[t] \in {"none", "deleted"}
        /\ status[t] \in {"cancelled", "destroy_cancelled"} =>
              group[t] \in {"open", "closed"}
        /\ status[t] = "destroy" => group[t] = "closed"
        /\ status[Main] \notin {"free", "gone"}

\* Handles stay with the task that spawned the child.
Family ==
    \A t \in Tasks :
        /\ status[t] # "free" => status[parent[t]] # "free"
        /\ \A c \in handles[t] : parent[c] = t

\* A living task that knows the group of another one is held by it.
Membership ==
    \A t \in Tasks :
        status[t] \notin {"done", "gone"} =>
            \A g \in member[t] \ {t} :
                group[g] # "deleted" /\ t \in children[g] \cup awaited[g]

\* Cancelling a group reaches what it then waits for.
Marked ==
    \A t \in Tasks :
        /\ status[t] \in {"cancelled", "destroy_cancelled"} =>
              \A c \in children[t] : Cancelled(c)
        /\ status[t] \in {"cancel_join", "destroy"} =>
              \A c \in awaited[t] : Cancelled(c)

IInv == Types /\ Ownership /\ Phases /\ Family /\ Membership /\ Marked

-----------------------------------------------------------------------------
(* Ancestors *)

\* A task is an ancestor of itself, and inherits the ancestors of its parent.
LEMMA AncestryStep ==
    ASSUME Types, NEW c \in Tasks
    PROVE  /\ c \in Ancestry(c)
           /\ Ancestry(parent[c]) \subseteq Ancestry(c)
BY DEF Ancestry, Types

\* A child of a cancelled task is cancelled.
LEMMA ChildCancelled ==
    ASSUME Types, NEW c \in Tasks, Cancelled(parent[c])
    PROVE  Cancelled(c)
BY AncestryStep DEF Cancelled

\* Being cancelled lasts: flags are never taken back and only tasks that are
\* not in use yet get another parent.
LEMMA CancelledStays ==
    ASSUME IInv, Types', NEW t \in Tasks, status[t] # "free", Cancelled(t),
           \A u \in Tasks : status[u] # "free" => parent'[u] = parent[u],
           cancelRequested \subseteq cancelRequested', late \subseteq late'
    PROVE  Cancelled(t)'
<1> DEFINE used == {u \in Tasks : status[u] # "free"}
<1>1. \A u \in used : parent[u] \in used
    BY DEF IInv, Family, Types
<1>2. Ancestry(t) \subseteq Ancestry(t)'
    <2> SUFFICES ASSUME NEW a \in Ancestry(t), NEW S \in SUBSET Tasks, t \in S,
                        \A u \in S : parent'[u] \in S
                 PROVE  a \in S
        BY DEF Ancestry
    <2>1. /\ S \cap used \in SUBSET Tasks
          /\ t \in S \cap used
          /\ \A u \in S \cap used : parent[u] \in S \cap used
        BY <1>1
    <2> QED BY <2>1 DEF Ancestry
<1> QED BY <1>2 DEF Cancelled

\* So Marked survives a step that adds nothing to what it speaks of.
LEMMA MarkedStays ==
    ASSUME IInv, Types', NEW t \in Tasks, NEW W \in SUBSET Held(t),
           \A c \in W : Cancelled(c),
           \A u \in Tasks : status[u] # "free" => parent'[u] = parent[u],
           cancelRequested \subseteq cancelRequested', late \subseteq late'
    PROVE  \A c \in W : Cancelled(c)'
<1> SUFFICES ASSUME NEW c \in W PROVE Cancelled(c)'
    OBVIOUS
<1>1. c \in Tasks /\ status[c] # "free"
    BY DEF IInv, Types, Ownership, Live, Held
<1> QED BY <1>1, CancelledStays

\* A step that leaves what a call waits for, or a group holds, as it is.
LEMMA MarkedKept ==
    ASSUME IInv, Types',
           \A u \in Tasks :
               /\ status'[u] \in {"cancelled", "destroy_cancelled"} =>
                     status'[u] = status[u] /\ children'[u] \subseteq children[u]
               /\ status'[u] \in {"cancel_join", "destroy"} =>
                     status'[u] = status[u] /\ awaited'[u] \subseteq awaited[u],
           \A u \in Tasks : status[u] # "free" => parent'[u] = parent[u],
           cancelRequested \subseteq cancelRequested', late \subseteq late'
    PROVE  Marked'
<1> SUFFICES ASSUME NEW u \in Tasks
             PROVE  /\ status'[u] \in {"cancelled", "destroy_cancelled"} =>
                          \A d \in children'[u] : Cancelled(d)'
                    /\ status'[u] \in {"cancel_join", "destroy"} =>
                          \A d \in awaited'[u] : Cancelled(d)'
    BY DEF Marked
<1>1. children[u] \in SUBSET Held(u) /\ awaited[u] \in SUBSET Held(u)
    BY DEF Held
<1>2. CASE status'[u] \in {"cancelled", "destroy_cancelled"}
    <2>1. \A d \in children[u] : Cancelled(d)
        BY <1>2 DEF IInv, Marked
    <2>2. \A d \in children[u] : Cancelled(d)'
        BY <1>1, <2>1, MarkedStays
    <2> QED BY <1>2, <2>2
<1>3. CASE status'[u] \in {"cancel_join", "destroy"}
    <2>1. \A d \in awaited[u] : Cancelled(d)
        BY <1>3 DEF IInv, Marked
    <2>2. \A d \in awaited[u] : Cancelled(d)'
        BY <1>1, <2>1, MarkedStays
    <2> QED BY <1>3, <2>2
<1> QED BY <1>2, <1>3

-----------------------------------------------------------------------------
LEMMA InitIInv == Init => IInv
<1> SUFFICES ASSUME Init PROVE IInv
    OBVIOUS
<1>1. Types
    BY MainAssumption DEF Init, Types, InCall
<1>2. Ownership /\ Phases /\ Family
    BY MainAssumption DEF Init, Ownership, Phases, Family, Held, Live
<1>3. Membership /\ Marked
    BY DEF Init, Membership, Marked
<1> QED BY <1>1, <1>2, <1>3 DEF IInv

LEMMA SpawnKeeps ==
    ASSUME IInv, NEW t \in Tasks, NEW c \in Tasks, Spawn(t, c)
    PROVE  IInv'
<1> USE DEF Spawn, Goes, Running
<1>1. Types'
    BY DEF IInv, Types
<1>2. Ownership'
    BY DEF IInv, Types, Ownership, Phases, Held, Live
<1>3. Phases'
    BY DEF IInv, Types, Phases, Held, InCall
<1>4. Family'
    BY DEF IInv, Types, Ownership, Family, Held, Live
<1>5. Membership'
    BY DEF IInv, Types, Phases, Membership
<1>6. Marked'
    BY <1>1, MarkedKept DEF IInv, Types
<1> QED BY <1>1, <1>2, <1>3, <1>4, <1>5, <1>6 DEF IInv


LEMMA CancelKeeps ==
    ASSUME IInv, NEW t \in Tasks, NEW c \in Tasks, Cancel(t, c)
    PROVE  IInv'
<1> USE DEF Cancel, Goes, Running
<1>1. Types'
    BY DEF IInv, Types
<1>2. Ownership'
    BY DEF IInv, Types, Ownership, Phases, Held, Live
<1>3. Phases'
    BY DEF IInv, Types, Phases, Held, InCall
<1>4. Family'
    BY DEF IInv, Types, Ownership, Family, Held, Live
<1>5. Membership'
    BY DEF IInv, Types, Ownership, Phases, Membership, Held, Live
<1>6. Marked'
    BY <1>1, MarkedKept DEF IInv, Types
<1> QED BY <1>1, <1>2, <1>3, <1>4, <1>5, <1>6 DEF IInv

LEMMA DeadlineKeeps ==
    ASSUME IInv, NEW t \in Tasks, DeadlinePasses(t)
    PROVE  IInv'
<1> USE DEF DeadlinePasses, Goes, Running
<1>1. Types'
    BY DEF IInv, Types
<1>2. Ownership'
    BY DEF IInv, Types, Ownership, Phases, Held, Live
<1>3. Phases'
    BY DEF IInv, Types, Phases, Held, InCall
<1>4. Family'
    BY DEF IInv, Types, Ownership, Family, Held, Live
<1>5. Membership'
    BY DEF IInv, Types, Ownership, Phases, Membership, Held, Live
<1>6. Marked'
    BY <1>1, MarkedKept DEF IInv, Types
<1> QED BY <1>1, <1>2, <1>3, <1>4, <1>5, <1>6 DEF IInv

LEMMA AwaitKeeps ==
    ASSUME IInv, NEW t \in Tasks, NEW c \in Tasks, Await(t, c)
    PROVE  IInv'
<1> USE DEF Await, Goes, Running, InCall
<1>1. Types'
    BY DEF IInv, Types
<1>2. Ownership'
    BY DEF IInv, Types, Ownership, Phases, Held, Live
<1>3. Phases'
    BY DEF IInv, Types, Phases, Held, InCall
<1>4. Family'
    BY DEF IInv, Types, Ownership, Family, Held, Live
<1>5. Membership'
    BY DEF IInv, Types, Ownership, Phases, Membership, Held, Live
<1>6. Marked'
    BY <1>1, MarkedKept DEF IInv, Types
<1> QED BY <1>1, <1>2, <1>3, <1>4, <1>5, <1>6 DEF IInv

LEMMA FinishKeeps ==
    ASSUME IInv, NEW t \in Tasks, Finish(t)
    PROVE  IInv'
<1> USE DEF Finish, Goes, Running, InCall
<1>1. Types'
    BY DEF IInv, Types
<1>2. Ownership'
    BY DEF IInv, Types, Ownership, Phases, Held, Live
<1>3. Phases'
    BY DEF IInv, Types, Phases, Held, InCall
<1>4. Family'
    BY DEF IInv, Types, Ownership, Family, Held, Live
<1>5. Membership'
    BY DEF IInv, Types, Ownership, Phases, Membership, Held, Live
<1>6. Marked'
    BY <1>1, MarkedKept DEF IInv, Types
<1> QED BY <1>1, <1>2, <1>3, <1>4, <1>5, <1>6 DEF IInv

LEMMA ReapKeeps ==
    ASSUME IInv, NEW t \in Tasks, NEW c \in Tasks, Reap(t, c)
    PROVE  IInv'
<1> USE DEF Reap, Goes, Running, InCall
<1>1. Types'
    BY DEF IInv, Types
<1>2. Ownership'
    BY DEF IInv, Types, Ownership, Phases, Held, Live
<1>3. Phases'
    <2>1. c # Main
        BY DEF IInv, Ownership, Held
    <2> QED BY <2>1 DEF IInv, Types, Phases, Held, InCall
<1>4. Family'
    BY DEF IInv, Types, Ownership, Family, Held, Live
<1>5. Membership'
    BY DEF IInv, Types, Ownership, Phases, Membership, Held, Live
<1>6. Marked'
    BY <1>1, MarkedKept DEF IInv, Types
<1> QED BY <1>1, <1>2, <1>3, <1>4, <1>5, <1>6 DEF IInv

LEMMA CreateKeeps ==
    ASSUME IInv, NEW t \in Tasks, Create(t)
    PROVE  IInv'
<1> USE DEF Create, Goes, Running, InCall
<1>1. Types'
    BY DEF IInv, Types
<1>2. Ownership'
    BY DEF IInv, Types, Ownership, Phases, Held, Live
<1>3. Phases'
    BY DEF IInv, Types, Phases, Held, InCall
<1>4. Family'
    BY DEF IInv, Types, Ownership, Family, Held, Live
<1>5. Membership'
    BY DEF IInv, Types, Ownership, Phases, Membership, Held, Live
<1>6. Marked'
    BY <1>1, MarkedKept DEF IInv, Types
<1> QED BY <1>1, <1>2, <1>3, <1>4, <1>5, <1>6 DEF IInv

LEMMA GroupCancelKeeps ==
    ASSUME IInv, NEW t \in Tasks, NEW g \in Tasks, GroupCancel(t, g)
    PROVE  IInv'
<1> USE DEF GroupCancel, CancelChildren, Goes, Running, InCall
<1>1. Types'
    BY DEF IInv, Types
<1>2. Ownership'
    BY DEF IInv, Types, Ownership, Phases, Held, Live
<1>3. Phases'
    BY DEF IInv, Types, Phases, Held, InCall
<1>4. Family'
    BY DEF IInv, Types, Ownership, Family, Held, Live
<1>5. Membership'
    BY DEF IInv, Types, Ownership, Phases, Membership, Held, Live
<1>6. Marked'
    BY <1>1, MarkedKept DEF IInv, Types
<1> QED BY <1>1, <1>2, <1>3, <1>4, <1>5, <1>6 DEF IInv

\* A handle that goes to a group ...
LEMMA HandleMoves ==
    ASSUME Ownership, NEW t \in Tasks, NEW g \in Tasks, NEW c \in handles[t],
           handles'[t] = handles[t] \ {c}, children'[g] = children[g] \cup {c},
           \A u \in Tasks \ {t} : handles'[u] = handles[u],
           \A u \in Tasks \ {g} : children'[u] = children[u],
           awaited' = awaited, Live' = Live
    PROVE  Ownership'
<1>1. \A u \in Tasks : \A d : d # c => (d \in Held(u)' <=> d \in Held(u))
    BY DEF Held
<1>2. \A u \in Tasks : c \in Held(u)' <=> u = g
    BY DEF Held, Ownership
<1>3. /\ \A u \in Tasks : \A d \in Held(u)' : d \in Live /\ d # Main
      /\ \A d \in Live \ {Main} : \E u \in Tasks : d \in Held(u)'
      /\ \A u, v \in Tasks : u # v => Held(u)' \cap Held(v)' = {}
    <2>1. c \in Live /\ c # Main
        BY DEF Ownership, Held
    <2>2. \A d \in Live \ {Main} : \E u \in Tasks : d \in Held(u)
        BY DEF Ownership
    <2>3. \A u \in Tasks : \A d \in Held(u) : d \in Live /\ d # Main
        BY DEF Ownership
    <2>4. \A u, v \in Tasks : u # v => Held(u) \cap Held(v) = {}
        BY DEF Ownership
    <2> HIDE DEF Held, Live
    <2>5. \A u \in Tasks : \A d \in Held(u)' : d \in Live /\ d # Main
        BY <1>1, <2>1, <2>3
    <2>6. \A d \in Live \ {Main} : \E u \in Tasks : d \in Held(u)'
        BY <1>1, <1>2, <2>2
    <2>7. \A u, v \in Tasks : u # v => Held(u)' \cap Held(v)' = {}
        BY <1>1, <1>2, <2>4
    <2> QED BY <2>5, <2>6, <2>7
<1>4. \A u \in Tasks : /\ handles'[u] \cap children'[u] = {}
                       /\ handles'[u] \cap awaited'[u] = {}
                       /\ children'[u] \cap awaited'[u] = {}
    <2>1. \A u \in Tasks : c \notin children[u] /\ c \notin awaited[u]
        BY DEF Ownership, Held
    <2>2. \A u \in Tasks \ {t} : c \notin handles[u]
        BY DEF Ownership, Held
    <2> QED BY <2>1, <2>2 DEF Ownership
<1> QED BY <1>3, <1>4 DEF Ownership

\* ... and one that is waited for.
LEMMA HandleIsAwaited ==
    ASSUME Ownership, NEW t \in Tasks, NEW c \in handles[t], awaited[t] = {},
           handles'[t] = handles[t] \ {c}, awaited'[t] = {c},
           \A u \in Tasks \ {t} : handles'[u] = handles[u] /\ awaited'[u] = awaited[u],
           children' = children, Live' = Live
    PROVE  Ownership'
<1>1. \A u \in Tasks : Held(u)' = Held(u)
    BY DEF Held
<1>2. \A u \in Tasks : /\ handles'[u] \cap children'[u] = {}
                       /\ handles'[u] \cap awaited'[u] = {}
                       /\ children'[u] \cap awaited'[u] = {}
    <2>1. \A u \in Tasks : c \notin children[u]
        BY DEF Ownership, Held
    <2> QED BY <2>1 DEF Ownership
<1> QED BY <1>1, <1>2 DEF Ownership

\* A closed group's children become what its call waits for: they change hands
\* within one task.
LEMMA TakeChildrenOwnership ==
    ASSUME IInv, NEW t \in Tasks, TakeChildren(t), awaited[t] = {},
           handles' = handles, Live' = Live
    PROVE  Ownership'
<1>1. /\ children'[t] = {} /\ awaited'[t] = children[t]
      /\ \A u \in Tasks \ {t} : children'[u] = children[u] /\ awaited'[u] = awaited[u]
    BY DEF TakeChildren, IInv, Types
<1>2. \A u \in Tasks : Held(u)' = Held(u)
    BY <1>1 DEF Held
<1>3. \A u \in Tasks : /\ handles'[u] \cap children'[u] = {}
                       /\ handles'[u] \cap awaited'[u] = {}
                       /\ children'[u] \cap awaited'[u] = {}
    BY <1>1 DEF IInv, Ownership
<1>4. /\ \A u \in Tasks : \A c \in Held(u) : c \in Live /\ c # Main
      /\ \A c \in Live \ {Main} : \E u \in Tasks : c \in Held(u)
      /\ \A u, v \in Tasks : u # v => Held(u) \cap Held(v) = {}
    BY DEF IInv, Ownership
<1> HIDE DEF Held, Live
<1> QED BY <1>2, <1>3, <1>4 DEF Ownership

LEMMA JoinKeeps ==
    ASSUME IInv, NEW t \in Tasks, Join(t)
    PROVE  IInv'
<1> USE DEF Join, TakeChildren, Goes, Running, InCall
<1>1. Types'
    BY DEF IInv, Types
<1>2. Ownership'
    <2>1. awaited[t] = {}
        BY DEF IInv, Phases
    <2>2. Live' = Live
        BY DEF Live, IInv, Types
    <2> QED BY <2>1, <2>2, TakeChildrenOwnership
<1>3. Phases'
    BY DEF IInv, Types, Phases, Held, InCall
<1>4. Family'
    BY DEF IInv, Types, Ownership, Family, Held, Live
<1>5. Membership'
    BY DEF IInv, Types, Ownership, Phases, Membership, Held, Live
<1>6. Marked'
    BY <1>1, MarkedKept DEF IInv, Types
<1> QED BY <1>1, <1>2, <1>3, <1>4, <1>5, <1>6 DEF IInv

LEMMA ReturnsKeeps ==
    ASSUME IInv, NEW t \in Tasks, Returns(t)
    PROVE  IInv'
<1> USE DEF Returns, Goes, Running, InCall
<1>1. Types'
    BY DEF IInv, Types
<1>2. Ownership'
    <2>1. children' = children
        <3>1. status[t] = "destroy" => children[t] = {}
            BY DEF IInv, Phases
        <3>2. CASE status[t] = "destroy"
            <4>1. children' = [children EXCEPT ![t] = children[t]]
                BY <3>1, <3>2
            <4> QED BY <4>1 DEF IInv, Types
        <3>3. CASE status[t] # "destroy"
            BY <3>3
        <3> QED BY <3>2, <3>3
    <2>2. Live' = Live
        BY DEF Live, IInv, Types
    <2> QED BY <2>1, <2>2 DEF IInv, Ownership, Held
<1>3. Phases'
    BY DEF IInv, Types, Phases, Held, InCall
<1>4. Family'
    BY DEF IInv, Types, Ownership, Family, Held, Live
<1>5. Membership'
    <2>1. /\ awaited[t] = {} /\ UNCHANGED <<member, awaited>>
          /\ status[t] = "destroy" => children[t] = {}
          /\ \A u \in Tasks \ {t} : /\ status'[u] = status[u]
                                    /\ children'[u] = children[u]
                                    /\ group'[u] = group[u]
          /\ status[t] \notin {"done", "gone"}
        BY DEF IInv, Types, Phases
    <2>2. children'[t] = children[t]
        BY <2>1 DEF IInv, Types
    <2>3. status[t] # "destroy" => group'[t] = group[t]
        OBVIOUS
    <2> SUFFICES ASSUME NEW u \in Tasks, status'[u] \notin {"done", "gone"},
                        NEW g \in member[u] \ {u}
                 PROVE  /\ group'[g] # "deleted"
                        /\ u \in children'[g] \cup awaited'[g]
        BY <2>1 DEF Membership
    <2>4. group[g] # "deleted" /\ u \in children[g] \cup awaited[g] /\ g \in Tasks
        BY <2>1 DEF IInv, Types, Membership
    <2>5. CASE g # t
        BY <2>1, <2>4, <2>5
    <2>6. CASE g = t
        BY <2>1, <2>2, <2>3, <2>4, <2>6
    <2> QED BY <2>5, <2>6
<1>6. Marked'
    BY <1>1, MarkedKept DEF IInv, Types
<1> QED BY <1>1, <1>2, <1>3, <1>4, <1>5, <1>6 DEF IInv

LEMMA CancelFirstKeeps ==
    ASSUME IInv, NEW t \in Tasks, NEW s \in {"cancelled", "destroy_cancelled"}, CancelFirst(t, s)
    PROVE  IInv'
<1> USE DEF CancelFirst, CancelChildren, Goes, Running, InCall
<1>1. Types'
    BY DEF IInv, Types
<1>2. Ownership'
    BY DEF IInv, Types, Ownership, Phases, Held, Live
<1>3. Phases'
    BY DEF IInv, Types, Phases, Held, InCall
<1>4. Family'
    BY DEF IInv, Types, Ownership, Family, Held, Live
<1>5. Membership'
    BY DEF IInv, Types, Ownership, Phases, Membership, Held, Live
<1>6. Marked'
    <2> SUFFICES ASSUME NEW u \in Tasks
                 PROVE  /\ status'[u] \in {"cancelled", "destroy_cancelled"} =>
                              \A d \in children'[u] : Cancelled(d)'
                        /\ status'[u] \in {"cancel_join", "destroy"} =>
                              \A d \in awaited'[u] : Cancelled(d)'
        BY DEF Marked
    <2>1. children[u] \in SUBSET Held(u) /\ awaited[u] \in SUBSET Held(u)
        BY DEF Held
    <2>2. CASE u = t
        <3>1. \A d \in children[t] : d \in Ancestry(d)'
            BY <1>1 DEF Ancestry, IInv, Types
        <3>2. \A d \in children[t] : Cancelled(d)'
            BY <3>1 DEF Cancelled
        <3> QED BY <2>2, <3>2 DEF IInv, Types
    <2>3. CASE u # t
        <3>1. status'[u] = status[u]
            BY <2>3 DEF IInv, Types
        <3> QED BY <1>1, <2>1, <3>1, MarkedStays DEF IInv, Types, Marked
    <2> QED BY <2>2, <2>3
<1> QED BY <1>1, <1>2, <1>3, <1>4, <1>5, <1>6 DEF IInv

LEMMA ThenJoinKeeps ==
    ASSUME IInv, NEW t \in Tasks, ThenJoin(t)
    PROVE  IInv'
<1> USE DEF ThenJoin, TakeChildren, Goes, Running, InCall
<1>1. Types'
    BY DEF IInv, Types
<1>2. Ownership'
    <2>1. awaited[t] = {}
        BY DEF IInv, Phases
    <2>2. Live' = Live
        BY DEF Live, IInv, Types
    <2> QED BY <2>1, <2>2, TakeChildrenOwnership
<1>3. Phases'
    BY DEF IInv, Types, Phases, Held, InCall
<1>4. Family'
    BY DEF IInv, Types, Ownership, Family, Held, Live
<1>5. Membership'
    BY DEF IInv, Types, Ownership, Phases, Membership, Held, Live
<1>6. Marked'
    <2> SUFFICES ASSUME NEW u \in Tasks
                 PROVE  /\ status'[u] \in {"cancelled", "destroy_cancelled"} =>
                              \A d \in children'[u] : Cancelled(d)'
                        /\ status'[u] \in {"cancel_join", "destroy"} =>
                              \A d \in awaited'[u] : Cancelled(d)'
        BY DEF Marked
    <2>1. children[u] \in SUBSET Held(u) /\ awaited[u] \in SUBSET Held(u)
        BY DEF Held
    <2>2. CASE u = t
        <3>1. \A d \in children[t] : Cancelled(d)'
            BY <1>1, <2>1, <2>2, MarkedStays DEF IInv, Types, Marked
        <3>2. /\ children'[t] = {}
              /\ awaited'[t] = children[t]
            BY DEF IInv, Types
        <3> QED BY <2>2, <3>1, <3>2
    <2>3. CASE u # t
        <3>1. /\ status'[u] = status[u]
              /\ children'[u] = children[u]
              /\ awaited'[u] = awaited[u]
            BY <2>3 DEF IInv, Types
        <3>2. /\ status[u] \in {"cancelled", "destroy_cancelled"} =>
                    \A d \in children[u] : Cancelled(d)'
              /\ status[u] \in {"cancel_join", "destroy"} =>
                    \A d \in awaited[u] : Cancelled(d)'
            BY <1>1, <2>1, MarkedStays DEF IInv, Marked
        <3> QED BY <3>1, <3>2
    <2> QED BY <2>2, <2>3
<1> QED BY <1>1, <1>2, <1>3, <1>4, <1>5, <1>6 DEF IInv

LEMMA AddKeeps ==
    ASSUME IInv, NEW t \in Tasks, NEW g \in Tasks, NEW c \in Tasks, Add(t, g, c)
    PROVE  IInv'
<1> USE DEF Add, Goes, Running, InCall
<1>1. Types'
    BY DEF IInv, Types
<1>2. Ownership'
    <2>1. Live' = Live
        BY DEF Live, IInv, Types
    <2>2. /\ handles'[t] = handles[t] \ {c} /\ c \in handles[t]
          /\ \A u \in Tasks \ {t} : handles'[u] = handles[u]
        BY DEF IInv, Types
    <2>3. CASE group[g] = "open"
        <3>1. /\ children'[g] = children[g] \cup {c}
              /\ \A u \in Tasks \ {g} : children'[u] = children[u]
              /\ awaited' = awaited
            BY <2>3 DEF IInv, Types
        <3> QED BY <2>1, <2>2, <3>1, HandleMoves DEF IInv
    <2>4. CASE group[g] # "open"
        <3>1. awaited[t] = {}
            BY DEF IInv, Phases
        <3>2. /\ awaited'[t] = {c}
              /\ \A u \in Tasks \ {t} : awaited'[u] = awaited[u]
              /\ children' = children
            BY <2>4 DEF IInv, Types
        <3> QED BY <2>1, <2>2, <3>1, <3>2, HandleIsAwaited DEF IInv
    <2> QED BY <2>3, <2>4
<1>3. Phases'
    <2>1. group[g] = "open" => status[g] \notin {"free", "done", "gone"}
        BY DEF IInv, Phases
    <2>2. Held(t)' \subseteq Held(t) \cup {c}
        BY DEF IInv, Types, Held
    <2>3. CASE group[g] = "open"
        <3>1. /\ UNCHANGED <<status, group, awaited>>
              /\ \A u \in Tasks \ {g} : children'[u] = children[u]
              /\ \A u \in Tasks \ {t} : handles'[u] = handles[u]
              /\ handles'[t] \subseteq handles[t]
              /\ \A u \in Tasks : status[u] = "free" => member'[u] = member[u]
            BY <2>3 DEF IInv, Types, Ownership, Held, Live
        <3> QED BY <2>1, <2>3, <3>1 DEF IInv, Phases, Held
    <2>4. CASE group[g] # "open"
        <3>1. /\ UNCHANGED <<group, children, member>>
              /\ \A u \in Tasks \ {t} : /\ Held(u)' = Held(u)
                                        /\ status'[u] = status[u]
                                        /\ awaited'[u] = awaited[u]
              /\ status'[t] = "await"
            BY <2>4 DEF IInv, Types, Held
        <3>2. t # Main => status'[Main] = status[Main]
            BY <3>1, MainAssumption
        <3> QED BY <3>1, <3>2 DEF IInv, Types, Phases
    <2> QED BY <2>3, <2>4
<1>4. Family'
    BY DEF IInv, Types, Ownership, Family, Held, Live
<1>5. Membership'
    BY DEF IInv, Types, Ownership, Phases, Membership, Held, Live
<1>6. Marked'
    <2>1. CASE group[g] = "open" /\ status[g] \in {"cancelled", "destroy_cancelled"}
        <3>1. t # g /\ t \in children[g]
            BY <2>1 DEF IInv, Phases, Membership
        <3>2. Cancelled(t)
            BY <2>1, <3>1 DEF IInv, Marked
        <3>3. Cancelled(c)
            BY <3>2, ChildCancelled DEF IInv, Family
        <3>4. UNCHANGED <<status, parent, cancelRequested, late, awaited>>
            BY <2>1
        <3>5. Cancelled(c)' /\ \A d \in Tasks : Cancelled(d) => Cancelled(d)'
            BY <3>3, <3>4 DEF Cancelled, Ancestry
        <3>6. \A u \in Tasks : \A d \in children'[u] : d = c \/ d \in children[u]
            BY <2>1 DEF IInv, Types
        <3> QED BY <3>4, <3>5, <3>6 DEF IInv, Types, Marked
    <2>2. CASE group[g] = "open" /\ status[g] \notin {"cancelled", "destroy_cancelled"}
        BY <1>1, <2>2, MarkedKept DEF IInv, Types
    <2>3. CASE group[g] # "open"
        BY <1>1, <2>3, MarkedKept DEF IInv, Types
    <2> QED BY <2>1, <2>2, <2>3
<1> QED BY <1>1, <1>2, <1>3, <1>4, <1>5, <1>6 DEF IInv

-----------------------------------------------------------------------------
LEMMA NextIInv == IInv /\ [Next]_vars => IInv'
<1> SUFFICES ASSUME IInv, [Next]_vars PROVE IInv'
    OBVIOUS
<1>1. CASE Next
    <2> PICK t \in Tasks :
            \/ Continue(t)
            \/ Create(t)
            \/ Finish(t)
            \/ DeadlinePasses(t)
            \/ Join(t)
            \/ \E s \in {"cancelled", "destroy_cancelled"} : CancelFirst(t, s)
            \/ \E c \in Tasks : Spawn(t, c) \/ Cancel(t, c) \/ Await(t, c)
            \/ \E g \in Tasks :
                \/ GroupCancel(t, g)
                \/ \E c \in Tasks : Add(t, g, c)
        BY <1>1 DEF Next
    <2>1. CASE Continue(t)
        BY <2>1, ThenJoinKeeps, ReturnsKeeps, ReapKeeps DEF Continue
    <2>2. CASE \E c \in Tasks : Spawn(t, c) \/ Cancel(t, c) \/ Await(t, c)
        BY <2>2, SpawnKeeps, CancelKeeps, AwaitKeeps
    <2>3. CASE \E g \in Tasks : \/ GroupCancel(t, g)
                                \/ \E c \in Tasks : Add(t, g, c)
        BY <2>3, GroupCancelKeeps, AddKeeps
    <2> QED BY <2>1, <2>2, <2>3, CreateKeeps, FinishKeeps, DeadlineKeeps,
            JoinKeeps, CancelFirstKeeps
<1>2. CASE UNCHANGED vars
    <2>1. Types'
        BY <1>2 DEF vars, IInv, Types
    <2>2. Ownership' /\ Phases' /\ Family' /\ Membership'
        BY <1>2 DEF vars, IInv, Ownership, Phases, Family, Membership, Held, Live
    <2>3. Marked'
        BY <1>2, <2>1, MarkedKept DEF vars, IInv
    <2> QED BY <2>1, <2>2, <2>3 DEF IInv
<1> QED BY <1>1, <1>2

LEMMA Invariance == Spec => []IInv
<1>1. Init => IInv
    BY InitIInv
<1>2. IInv /\ [Next]_vars => IInv'
    BY NextIInv
<1> QED BY <1>1, <1>2, PTL DEF Spec

\* A task is waited for and deleted exactly once, whoever adds it to a group
\* that is open, closed or being joined.
THEOREM AlwaysOneOwner == Spec => []OneOwner
<1>1. ASSUME IInv, NEW c \in Tasks \ {Main}
      PROVE  /\ c \in Live <=> Owners(c) # {}
             /\ \A x, y \in Owners(c) : x = y
    <2>1. c \in Live <=> \E t \in Tasks : c \in Held(t)
        BY <1>1 DEF IInv, Ownership
    <2>2. Owners(c) # {} <=> \E t \in Tasks : c \in Held(t)
        BY DEF Owners, Held
    <2>3. \A x \in Owners(c) : \E t \in Tasks :
              \/ x = <<"handle", t>> /\ c \in handles[t]
              \/ x = <<"group", t>> /\ c \in children[t]
              \/ x = <<"call", t>> /\ c \in awaited[t]
        BY DEF Owners
    <2>4. \A t, u \in Tasks : c \in Held(t) /\ c \in Held(u) => t = u
        BY <1>1 DEF IInv, Ownership
    <2>5. \A t \in Tasks :
              /\ ~ (c \in handles[t] /\ c \in children[t])
              /\ ~ (c \in handles[t] /\ c \in awaited[t])
              /\ ~ (c \in children[t] /\ c \in awaited[t])
        BY <1>1 DEF IInv, Ownership
    <2>6. \A x, y \in Owners(c) : x = y
        BY <2>3, <2>4, <2>5 DEF Held
    <2> QED BY <2>1, <2>2, <2>6
<1>2. IInv => OneOwner
    BY <1>1 DEF OneOwner
<1> QED BY <1>2, Invariance, PTL

\* A task may use the groups it knows as long as it runs.
THEOREM GroupsAlwaysOutlive == Spec => []GroupOutlivesMembers
<1>1. IInv => GroupOutlivesMembers
    BY DEF IInv, Phases, Membership, Held, GroupOutlivesMembers
<1> QED BY <1>1, Invariance, PTL

\* Whatever is added between the two halves of cancel_and_join is cancelled
\* through its ancestors.
THEOREM AlwaysWaitsForCancelled == Spec => []WaitsForCancelled
<1>1. IInv => WaitsForCancelled
    BY DEF IInv, Marked, WaitsForCancelled
<1> QED BY <1>1, Invariance, PTL
=============================================================================
