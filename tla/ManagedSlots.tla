---------------------------- MODULE ManagedSlots ----------------------------
(***************************************************************************)
(* The table of managed pointers (Absolute-Runtime/src/pointers.cpp).      *)
(*                                                                         *)
(* A managed pointer is a handle: the number of a slot and the generation  *)
(* the slot had when the handle was made.  The slot holds the address and  *)
(* the type of the object; a handle is expired when its generation is no   *)
(* longer the slot's.  Whatever changes a slot holds slotsMutex, but       *)
(* absolute_managed_get and absolute_managed_type take no lock at all:     *)
(* they read the generation, the field, and the generation again, so every *)
(* single store made under the mutex is visible to them.                   *)
(*                                                                         *)
(* Granularity.  One action per load or store of a slot's field; stores    *)
(* that no reader can tell apart are joined.  The interleaving is          *)
(* sequentially consistent: readers load with acquire, and the stores that *)
(* publish (slotCount, pointer, type, generation) are releases.            *)
(* An Object stands for one allocation; its type is named by the object.   *)
(* Chunks are never moved or freed and have no state of their own.         *)
(*                                                                         *)
(* A capsule carries an owner to another task: sealing transfers the       *)
(* object to a new handle that nobody but the capsule knows.  Whether the  *)
(* capsule is in a message or queued in a channel makes no difference      *)
(* here.  The program opens or destroys a capsule once, it leads to one    *)
(* receiver; its flag `transferred' guards against the rest.               *)
(***************************************************************************)
EXTENDS Integers, Sequences, FiniteSets

CONSTANTS
    Threads,         \* threads that use managed pointers
    Objects,         \* allocations the program may make
    NumSlots,        \* bound: MaxChunks * SlotsPerChunk in the code
    MaxGeneration,   \* the largest generation, 2^32 - 1 in the code
    MaxChanges,      \* bound: how often generations change in a behaviour
    None             \* "no object", "no thread"

ASSUME ConstantsAssumption ==
    /\ NumSlots \in Nat \ {0}
    /\ MaxGeneration \in Nat \ {0}
    /\ MaxChanges \in Nat
    /\ None \notin Threads \cup Objects

Slots       == 0 .. NumSlots - 1
Generations == 1 .. MaxGeneration

VARIABLES
    pointer,      \* Slot::pointer
    type,         \* Slot::type
    generation,   \* Slot::generation
    slotCount,    \* slots that have ever been used
    freeSlots,    \* the stack of slots to use again
    slotsMutex,   \* its holder
    pc,           \* control point of each thread
    slot,         \* the slot ...
    gen,          \* ... and generation of the handle a thread works on
    field,        \* the field a reader asks for
    object,       \* the object a thread registers, destroys or has read
    issued,       \* every handle ever made, with the object it names
    known,        \* those the program has been given
    sealed,       \* those inside a capsule
    deleted,      \* objects whose deleter has run
    changes       \* generation changes so far (bounded by MaxChanges)

table  == <<pointer, type, generation, slotCount, freeSlots>>
locals == <<slot, gen, field, object>>
ghosts == <<issued, known, sealed, deleted, changes>>
vars   == <<table, slotsMutex, pc, locals, ghosts>>

Handle(s, g, o) == [slot |-> s, gen |-> g, object |-> o]

\* Objects that have been allocated.
Registered == {h.object : h \in issued}
Allocated  == Registered \cup {object[t] : t \in {u \in Threads : pc[u] = "publish"}}

\* A definition marked Fault is a broken variant of the one that follows it.

FirstGeneration == 1

Init ==
    /\ pointer = [s \in Slots |-> None]
    /\ type = [s \in Slots |-> None]
    /\ generation = [s \in Slots |-> FirstGeneration]
    /\ slotCount = 0
    /\ freeSlots = <<>>
    /\ slotsMutex = None
    /\ pc = [t \in Threads |-> "idle"]
    /\ slot = [t \in Threads |-> 0]
    /\ gen = [t \in Threads |-> 1]
    /\ field = [t \in Threads |-> "pointer"]
    /\ object = [t \in Threads |-> None]
    /\ issued = {}
    /\ known = {}
    /\ sealed = {}
    /\ deleted = {}
    /\ changes = 0

\* Fault: the generation a slot is given back with is the one it had.
NextKept(g) == g

\* The 32-bit increment; generation 0 is skipped, it would make the handle of
\* slot 0 the null handle.
NextGeneration(g) == IF g = MaxGeneration THEN 1 ELSE g + 1

\* The locked lookup: h still names its slot.
Find(h) == h.slot < slotCount /\ generation[h.slot] = h.gen

\* A thread that starts to work on the handle h with its next step at point p.
WorkOn(t, h, p) ==
    /\ pc[t] = "idle"
    /\ pc' = [pc EXCEPT ![t] = p]
    /\ slot' = [slot EXCEPT ![t] = h.slot]
    /\ gen' = [gen EXCEPT ![t] = h.gen]

-----------------------------------------------------------------------------
(* absolute_managed_create and absolute_managed_adopt_raw                   *)

\* Fault: the slot is read from the top of the stack and left there.
ReuseKeepsTop == freeSlots' = freeSlots

ReusePopsTop == freeSlots' = SubSeq(freeSlots, 1, Len(freeSlots) - 1)

\* The slot is chosen: the one freed last, else a new one.
RegisterAllocation(t, o) ==
    /\ slotsMutex = None
    /\ o \notin Allocated
    /\ \E s \in Slots :
        /\ \/ /\ freeSlots # <<>>
              /\ s = freeSlots[Len(freeSlots)]
              /\ ReusePopsTop
              /\ UNCHANGED slotCount
           \/ /\ freeSlots = <<>>
              /\ s = slotCount
              /\ slotCount' = slotCount + 1
              /\ UNCHANGED freeSlots
        /\ type' = [type EXCEPT ![s] = None]
        /\ WorkOn(t, Handle(s, generation[s], o), "publish")
    /\ slotsMutex' = t
    /\ object' = [object EXCEPT ![t] = o]
    /\ UNCHANGED <<pointer, generation, field, ghosts>>

\* Fault: the handle is given out before the pointer has been stored.
PublishEarly(t) ==
    /\ pc[t] = "publish"
    /\ LET h == Handle(slot[t], gen[t], object[t]) IN
        \/ /\ h \notin issued
           /\ issued' = issued \cup {h}
           /\ known' = known \cup {h}
           /\ UNCHANGED <<pointer, slotsMutex, pc>>
        \/ /\ h \in issued
           /\ pointer' = [pointer EXCEPT ![slot[t]] = object[t]]
           /\ slotsMutex' = None
           /\ pc' = [pc EXCEPT ![t] = "idle"]
           /\ UNCHANGED <<issued, known>>
    /\ UNCHANGED <<type, generation, slotCount, freeSlots, locals, sealed,
                   deleted, changes>>

\* The pointer store makes the slot live; the handle is returned.
Publish(t) ==
    /\ pc[t] = "publish"
    /\ pointer' = [pointer EXCEPT ![slot[t]] = object[t]]
    /\ issued' = issued \cup {Handle(slot[t], gen[t], object[t])}
    /\ known' = known \cup {Handle(slot[t], gen[t], object[t])}
    /\ slotsMutex' = None
    /\ pc' = [pc EXCEPT ![t] = "idle"]
    /\ UNCHANGED <<type, generation, slotCount, freeSlots, locals, sealed,
                   deleted, changes>>

\* absolute_managed_set_type; an expired handle is ignored.
SetType(t, h) ==
    /\ pc[t] = "idle"
    /\ slotsMutex = None
    /\ Find(h)
    /\ type' = [type EXCEPT ![h.slot] = h.object]
    /\ UNCHANGED <<pointer, generation, slotCount, freeSlots, slotsMutex, pc,
                   locals, ghosts>>

-----------------------------------------------------------------------------
(* absolute_managed_destroy                                                 *)

\* The pointer is taken out of the slot.  A handle that is expired, or whose
\* slot holds nothing, is ignored.
Destroy(t, h) ==
    /\ slotsMutex = None
    /\ Find(h)
    /\ pointer[h.slot] # None
    /\ changes < MaxChanges
    /\ WorkOn(t, h, "clearType")
    /\ slotsMutex' = t
    /\ object' = [object EXCEPT ![t] = pointer[h.slot]]
    /\ pointer' = [pointer EXCEPT ![h.slot] = None]
    /\ UNCHANGED <<type, generation, slotCount, freeSlots, field, issued, known,
                   deleted, changes>>

DestroyOwner(t, h) == Destroy(t, h) /\ UNCHANGED sealed

\* absolute_capsule_destroy.  The destructor it runs first reads the pointer
\* and may destroy the managed fields of the object, each in a slot of its
\* own: calls like any other, which the thread makes before this one.
DestroyCapsule(t, c) == Destroy(t, c) /\ sealed' = sealed \ {c}

ClearType(t) ==
    /\ pc[t] = "clearType"
    /\ type' = [type EXCEPT ![slot[t]] = None]
    /\ pc' = [pc EXCEPT ![t] = "bump"]
    /\ UNCHANGED <<pointer, generation, slotCount, freeSlots, slotsMutex,
                   locals, ghosts>>

\* The generation is stored last, and the slot is free.
Bump(t) ==
    /\ pc[t] = "bump"
    /\ generation' = [generation EXCEPT ![slot[t]] = NextGeneration(@)]
    /\ changes' = changes + 1
    /\ freeSlots' = Append(freeSlots, slot[t])
    /\ slotsMutex' = None
    /\ pc' = [pc EXCEPT ![t] = "delete"]
    /\ UNCHANGED <<pointer, type, slotCount, locals, issued, known, sealed,
                   deleted>>

\* The deleter runs after the unlock.
Delete(t) ==
    /\ pc[t] = "delete"
    /\ deleted' = deleted \cup {object[t]}
    /\ pc' = [pc EXCEPT ![t] = "idle"]
    /\ UNCHANGED <<table, slotsMutex, locals, issued, known, sealed, changes>>

-----------------------------------------------------------------------------
(* Capsules                                                                 *)

\* Fault: the capsule keeps the handle of the owner.
TransferKeeps(t, h) ==
    /\ pc[t] = "idle"
    /\ slotsMutex = None
    /\ Find(h)
    /\ pointer[h.slot] # None
    /\ changes < MaxChanges
    /\ sealed' = sealed \cup {h}
    /\ UNCHANGED <<table, slotsMutex, pc, locals, issued, known, deleted, changes>>

\* absolute_capsule_create_typed and the absolute_managed_transfer in it: the
\* object stays, every handle to it expires but the one in the capsule.  (An
\* expired handle ends the process.)
Transfer(t, h) ==
    /\ pc[t] = "idle"
    /\ slotsMutex = None
    /\ Find(h)
    /\ pointer[h.slot] # None
    /\ changes < MaxChanges
    /\ LET next == NextGeneration(generation[h.slot]) IN
        /\ generation' = [generation EXCEPT ![h.slot] = next]
        /\ issued' = issued \cup {Handle(h.slot, next, pointer[h.slot])}
        /\ sealed' = sealed \cup {Handle(h.slot, next, pointer[h.slot])}
    /\ changes' = changes + 1
    /\ UNCHANGED <<pointer, type, slotCount, freeSlots, slotsMutex, pc, locals,
                   known, deleted>>

\* absolute_capsule_unwrap: the receiver has the owner.
Unwrap(t, c) ==
    /\ pc[t] = "idle"
    /\ sealed' = sealed \ {c}
    /\ known' = known \cup {c}
    /\ UNCHANGED <<table, slotsMutex, pc, locals, issued, deleted, changes>>

-----------------------------------------------------------------------------
(* absolute_managed_get (field "pointer") and absolute_managed_type ("type")*)

Get(t, h, f) ==
    /\ h.slot < slotCount
    /\ WorkOn(t, h, IF generation[h.slot] = h.gen THEN "read" ELSE "returned")
    /\ field' = [field EXCEPT ![t] = f]
    /\ object' = [object EXCEPT ![t] = None]
    /\ UNCHANGED <<table, slotsMutex, ghosts>>

Read(t) ==
    /\ pc[t] = "read"
    /\ object' = [object EXCEPT ![t] =
                    IF field[t] = "pointer" THEN pointer[slot[t]] ELSE type[slot[t]]]
    /\ pc' = [pc EXCEPT ![t] = "recheck"]
    /\ UNCHANGED <<table, slotsMutex, slot, gen, field, ghosts>>

\* Fault: the generation is not read a second time.
RecheckSkipped(t) ==
    /\ pc[t] = "recheck"
    /\ pc' = [pc EXCEPT ![t] = "returned"]
    /\ UNCHANGED <<table, slotsMutex, locals, ghosts>>

Recheck(t) ==
    /\ pc[t] = "recheck"
    /\ object' = [object EXCEPT ![t] =
                    IF generation[slot[t]] = gen[t] THEN @ ELSE None]
    /\ pc' = [pc EXCEPT ![t] = "returned"]
    /\ UNCHANGED <<table, slotsMutex, slot, gen, field, ghosts>>

\* The caller has used the result.
Return(t) ==
    /\ pc[t] = "returned"
    /\ pc' = [pc EXCEPT ![t] = "idle"]
    /\ UNCHANGED <<table, slotsMutex, locals, ghosts>>

-----------------------------------------------------------------------------
Step(t) ==
    \/ \E o \in Objects : RegisterAllocation(t, o)
    \/ Publish(t)
    \/ \E c \in sealed : Unwrap(t, c) \/ DestroyCapsule(t, c)
    \/ \E h \in known :
        \/ SetType(t, h)
        \/ DestroyOwner(t, h)
        \/ Transfer(t, h)
        \/ \E f \in {"pointer", "type"} : Get(t, h, f)
    \/ ClearType(t)
    \/ Bump(t)
    \/ Delete(t)
    \/ Read(t)
    \/ Recheck(t)
    \/ Return(t)

Next == \E t \in Threads : Step(t)

Spec == Init /\ [][Next]_vars

-----------------------------------------------------------------------------
(* Properties *)

Points == {"idle", "publish", "clearType", "bump", "delete", "read", "recheck",
           "returned"}

\* The types; in particular no slot is ever at generation 0, whose handle in
\* slot 0 would be the null handle.
TypeOK ==
    /\ pointer \in [Slots -> Objects \cup {None}]
    /\ type \in [Slots -> Objects \cup {None}]
    /\ generation \in [Slots -> Generations]
    /\ slotCount \in 0 .. NumSlots
    /\ freeSlots \in Seq(Slots)
    /\ slotsMutex \in Threads \cup {None}
    /\ pc \in [Threads -> Points]
    /\ slot \in [Threads -> Slots]
    /\ gen \in [Threads -> Generations]
    /\ field \in [Threads -> {"pointer", "type"}]
    /\ object \in [Threads -> Objects \cup {None}]
    /\ issued \subseteq [slot : Slots, gen : Generations, object : Objects]
    /\ known \subseteq issued
    /\ sealed \subseteq issued
    /\ deleted \subseteq Objects
    /\ changes \in 0 .. MaxChanges

\* What a handle leads to at this moment.
Resolve(h) == IF generation[h.slot] = h.gen THEN pointer[h.slot] ELSE None

\* A slot that is used again never revives an old handle: whatever was
\* created, destroyed or transferred since, a handle leads to the object it
\* was made for or to nothing.
NoRevival == \A h \in issued : Resolve(h) \in {h.object, None}

Returned(t) == Handle(slot[t], gen[t], object[t])

\* The lock-free read returns nothing, or the pointer or the type of the
\* object its handle was made for, even when the slot is destroyed and used
\* again between its loads.
ReadsOwnObject ==
    \A t \in Threads :
        pc[t] = "returned" /\ object[t] # None => Returned(t) \in issued

\* absolute_managed_get returns null only for a handle that has expired or is
\* being destroyed, never for one that leads to an object.
NullMeansExpired ==
    \A t \in Threads :
        pc[t] = "returned" /\ field[t] = "pointer" /\ object[t] = None =>
            \/ generation[slot[t]] # gen[t]
            \/ pointer[slot[t]] = None

Destroying(t) == pc[t] \in {"clearType", "bump", "delete"}

\* A capsule leads to its object until it is opened: no alias of the sender
\* can destroy the object while it is on its way.
CapsuleAlive == \A c \in sealed : Resolve(c) = c.object

\* Where an allocation is: in a slot, in the hands of a thread that registers
\* or deletes it, or deleted.
Places(o) ==
    {<<"slot", s>> : s \in {r \in Slots : pointer[r] = o}}
        \cup {<<"thread", t>> : t \in {u \in Threads :
                    object[u] = o /\ (pc[u] = "publish" \/ Destroying(u))}}
        \cup {<<"deleted", d>> : d \in deleted \cap {o}}

\* Every allocation is at one place, and what a capsule holds is in its slot.
\* No object is leaked, deleted twice, or deleted while a slot or a capsule
\* still leads to it.
EveryObjectOnce ==
    /\ \A o \in Objects :
        /\ o \in Allocated <=> Places(o) # {}
        /\ \A x, y \in Places(o) : x = y
    /\ CapsuleAlive

\* absolute_managed_destroy with an old handle never destroys the object that
\* uses the slot now.
DestroysOwnObject ==
    \A t \in Threads :
        Destroying(t) => Returned(t) \in issued
=============================================================================
