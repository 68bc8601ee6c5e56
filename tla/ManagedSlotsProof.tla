------------------------- MODULE ManagedSlotsProof --------------------------
(***************************************************************************)
(* Proofs about ManagedSlots, for every number of threads, objects and     *)
(* slots, as long as the generations do not wrap around:                   *)
(* MaxChanges < MaxGeneration.                                             *)
(*                                                                         *)
(* The argument rests on IssuedInv: no handle ever issued is ahead of its  *)
(* slot's generation, and one that is level with it leads to its object or *)
(* to a slot somebody is emptying.  A slot on the free stack, or one being *)
(* filled, is ahead of every handle issued for it (FreeInv, PublishInv).   *)
(* The handle in a capsule is level with its slot and known to nobody, so  *)
(* nobody can expire it (CapsuleInv).                                      *)
(***************************************************************************)
EXTENDS ManagedSlots, SequenceTheorems, TLAPS

\* The thread inside the critical section holds the mutex.
Inside(t) == pc[t] \in {"publish", "clearType", "bump"}
MutexInv == \A t \in Threads : Inside(t) => slotsMutex = t

\* The thread in the critical section has emptied s and not yet advanced it.
Emptying(s) ==
    /\ slotsMutex # None
    /\ pc[slotsMutex] \in {"clearType", "bump"}
    /\ slot[slotsMutex] = s

\* The slot s has moved on from every handle issued for it.
Ahead(s) == \A h \in issued : h.slot = s => h.gen < generation[s]

\* A generation grows by one per change; a slot never taken is empty.
GenerationInv ==
    \A s \in Slots :
        /\ generation[s] <= changes + 1
        /\ s >= slotCount => pointer[s] = None

\* No handle is ahead of its slot; one level with it leads to its object.
IssuedInv ==
    \A h \in issued :
        /\ h.slot < slotCount
        /\ h.gen <= generation[h.slot]
        /\ h.gen = generation[h.slot] =>
              /\ \/ pointer[h.slot] = h.object
                 \/ pointer[h.slot] = None /\ Emptying(h.slot)
              /\ type[h.slot] \in {h.object, None}

\* The free stack holds distinct, empty slots that no handle resolves to.
FreeInv ==
    \A i \in 1 .. Len(freeSlots) :
        /\ freeSlots[i] < slotCount
        /\ Ahead(freeSlots[i])
        /\ pointer[freeSlots[i]] = None
        /\ \A t \in Threads : Inside(t) => slot[t] # freeSlots[i]
        /\ \A j \in 1 .. Len(freeSlots) : i # j => freeSlots[i] # freeSlots[j]

\* So is the slot a thread is filling.
PublishInv ==
    \A t \in Threads :
        pc[t] = "publish" =>
            /\ slot[t] < slotCount
            /\ gen[t] = generation[slot[t]]
            /\ pointer[slot[t]] = None
            /\ type[slot[t]] = None
            /\ object[t] # None
            /\ Ahead(slot[t])

\* A thread destroys the object of a handle that was issued.
DestroyInv ==
    \A t \in Threads :
        /\ Destroying(t) => Returned(t) \in issued
        /\ pc[t] \in {"clearType", "bump"} =>
              /\ gen[t] = generation[slot[t]]
              /\ pointer[slot[t]] = None
              /\ changes < MaxChanges

\* What a reader holds, as long as its slot has not moved on.
ReadInv ==
    \A t \in Threads :
        pc[t] \in {"read", "recheck", "returned"} =>
            /\ \E h \in issued : h.slot = slot[t] /\ h.gen = gen[t]
            /\ pc[t] = "recheck" /\ generation[slot[t]] = gen[t] =>
                  /\ object[t] # None => Returned(t) \in issued
                  /\ field[t] = "pointer" /\ object[t] = None =>
                        pointer[slot[t]] = None
            /\ pc[t] = "returned" =>
                  /\ object[t] # None => Returned(t) \in issued
                  /\ field[t] = "pointer" /\ object[t] = None
                        /\ generation[slot[t]] = gen[t] =>
                            pointer[slot[t]] = None

\* The handle in a capsule leads to its object, and no other handle does.
CapsuleInv ==
    \A c \in sealed :
        /\ c \notin known
        /\ generation[c.slot] = c.gen
        /\ pointer[c.slot] = c.object

\* A thread that registers or deletes an object.
Holds(t) == pc[t] = "publish" \/ Destroying(t)

\* No allocation is at two places ...
ApartInv ==
    /\ \A s, r \in Slots : pointer[s] = pointer[r] => s = r \/ pointer[s] = None
    /\ \A s \in Slots : pointer[s] \notin deleted
    /\ \A t \in Threads :
        Holds(t) =>
            /\ object[t] \in Objects /\ object[t] \notin deleted
            /\ \A s \in Slots : pointer[s] # object[t]
            /\ \A u \in Threads : Holds(u) /\ object[u] = object[t] => u = t

HasPlace(o) ==
    \/ o \in deleted
    \/ \E s \in Slots : pointer[s] = o
    \/ \E t \in Threads : Holds(t) /\ object[t] = o

\* ... every one is at a place, and what is at a place was allocated.
PlaceInv ==
    /\ \A h \in issued : HasPlace(h.object)
    /\ \A s \in Slots : pointer[s] \in Registered \cup {None}
    /\ \A t \in Threads : Destroying(t) => object[t] \in Registered
    /\ deleted \subseteq Registered

\* The inductive invariant.
IInv ==
    /\ TypeOK
    /\ MutexInv
    /\ GenerationInv
    /\ IssuedInv
    /\ FreeInv
    /\ PublishInv
    /\ DestroyInv
    /\ ReadInv
    /\ CapsuleInv
    /\ ApartInv
    /\ PlaceInv

\* Popping the free stack keeps every entry below the top and its place.
LEMMA Pop ==
    ASSUME NEW S, NEW stack \in Seq(S), stack # <<>>
    PROVE  LET rest == SubSeq(stack, 1, Len(stack) - 1)
           IN  /\ rest \in Seq(S)
               /\ Len(rest) = Len(stack) - 1
               /\ \A i \in 1 .. Len(rest) : rest[i] = stack[i]
               /\ Len(stack) \in 1 .. Len(stack)
<1>1. Len(stack) \in Nat \ {0} /\ \A i \in 1 .. Len(stack) : stack[i] \in S
  BY EmptySeq, LenProperties, ElementOfSeq
<1> DEFINE n == Len(stack) - 1
           rest == SubSeq(stack, 1, n)
<1>2. n \in Int /\ \A i \in 1 .. n : stack[i] \in S
  BY <1>1
<1>3. /\ rest \in Seq(S)
      /\ Len(rest) = IF 1 <= n THEN n - 1 + 1 ELSE 0
      /\ \A i \in 1 .. n - 1 + 1 : rest[i] = stack[1 + i - 1]
  BY <1>2, SubSeqProperties
<1>4. Len(rest) = n /\ \A i \in 1 .. n : rest[i] = stack[i]
  <2> HIDE DEF rest
  <2>1. ASSUME NEW i \in 1 .. n
        PROVE  rest[i] = stack[i]
    <3>1. i \in 1 .. n - 1 + 1 /\ 1 + i - 1 = i
      BY <1>1
    <3> QED
      BY <1>3, <3>1
  <2>2. n \in Nat
    BY <1>1
  <2>3. Len(rest) = n
    <3> HIDE DEF n
    <3> QED
      BY <1>3, <2>2
  <2> QED
    BY <2>1, <2>3
<1> QED
  BY <1>1, <1>3, <1>4

\* A generation about to be advanced is advanced by one: only 2^32 - 1 becomes 1, and the
\* bound on the changes keeps it out of reach.
LEMMA NoWrap ==
    ASSUME IInv, MaxChanges < MaxGeneration, changes < MaxChanges,
           NEW s \in Slots
    PROVE  /\ NextGeneration(generation[s]) = generation[s] + 1
           /\ NextGeneration(generation[s]) \in Generations
  BY ConstantsAssumption DEF IInv, TypeOK, GenerationInv, NextGeneration, Generations

\* Every issued handle is the record its three fields build.
LEMMA IsHandle ==
    ASSUME TypeOK, NEW h \in issued
    PROVE  /\ h = Handle(h.slot, h.gen, h.object)
           /\ h.slot \in Slots /\ h.gen \in Generations /\ h.object \in Objects
  BY DEF TypeOK, Handle

\* What a new handle adds to the registered objects.
LEMMA RegisteredGrows ==
    ASSUME NEW s, NEW g, NEW o, issued' = issued \cup {Handle(s, g, o)}
    PROVE  Registered' = Registered \cup {o}
<1>1. Handle(s, g, o).object = o
  BY DEF Handle
<1>2. \A x : x \in Registered' <=> \E h \in issued' : x = h.object
  BY DEF Registered
<1>3. \A x : x \in Registered <=> \E h \in issued : x = h.object
  BY DEF Registered
<1>4. \A x : x \in Registered' <=> x \in Registered \/ x = o
  BY <1>1, <1>2, <1>3
<1> QED
  BY <1>4

\* Taking a slot in absolute_managed_register_allocation preserves IInv: the slot, fresh or
\* popped, is ahead of every handle issued for it.
LEMMA RegisterAllocationStep ==
    ASSUME IInv, MaxChanges < MaxGeneration, NEW t \in Threads, NEW o \in Objects,
           RegisterAllocation(t, o)
    PROVE  IInv'
<1> PICK s \in Slots :
       /\ \/ /\ freeSlots # <<>>
             /\ s = freeSlots[Len(freeSlots)]
             /\ ReusePopsTop
             /\ UNCHANGED slotCount
          \/ /\ freeSlots = <<>>
             /\ s = slotCount
             /\ slotCount' = slotCount + 1
             /\ UNCHANGED freeSlots
       /\ type' = [type EXCEPT ![s] = None]
       /\ WorkOn(t, Handle(s, generation[s], o), "publish")
  BY DEF RegisterAllocation
<1> DEFINE rest == SubSeq(freeSlots, 1, Len(freeSlots) - 1)
<1>a. freeSlots # <<>> =>
        /\ rest \in Seq(Slots)
        /\ Len(rest) = Len(freeSlots) - 1
        /\ \A i \in 1 .. Len(rest) : rest[i] = freeSlots[i]
        /\ Len(freeSlots) \in 1 .. Len(freeSlots)
  BY Pop DEF IInv, TypeOK
<1>b. /\ freeSlots' \in Seq(Slots)
      /\ Len(freeSlots) \in Nat
      /\ Len(freeSlots') <= Len(freeSlots)
      /\ \A i \in 1 .. Len(freeSlots') :
            freeSlots'[i] = freeSlots[i] /\ i \in 1 .. Len(freeSlots)
      /\ \A i \in 1 .. Len(freeSlots') : freeSlots[i] # s
  <2>1. CASE freeSlots # <<>>
    <3>1. freeSlots' = rest /\ s = freeSlots[Len(freeSlots)]
      BY <2>1 DEF ReusePopsTop
    <3>2. Len(freeSlots) \in Nat
      BY LenProperties DEF IInv, TypeOK
    <3> HIDE DEF rest
    <3>3. \A i \in 1 .. Len(rest) :
            i \in 1 .. Len(freeSlots) /\ i # Len(freeSlots)
      BY <1>a, <2>1, <3>2
    <3>4. \A i \in 1 .. Len(rest) : freeSlots[i] # s
      BY <1>a, <2>1, <3>1, <3>3 DEF IInv, FreeInv
    <3> QED
      BY <1>a, <2>1, <3>1, <3>2, <3>3, <3>4
  <2>2. CASE freeSlots = <<>>
    BY <2>2, EmptySeq DEF IInv, TypeOK
  <2> QED
    BY <2>1, <2>2
<1>c. /\ slotCount' \in 0 .. NumSlots /\ slotCount <= slotCount'
      /\ s < slotCount'
      /\ Ahead(s) /\ pointer[s] = None
      /\ \A u \in Threads : ~ Inside(u)
  <2>0. \A u \in Threads : ~ Inside(u)
    BY ConstantsAssumption DEF IInv, MutexInv, RegisterAllocation
  <2>1. CASE freeSlots # <<>>
    <3> HIDE DEF rest
    <3>1. Len(freeSlots) \in 1 .. Len(freeSlots) /\ s = freeSlots[Len(freeSlots)]
          /\ slotCount' = slotCount
      BY <1>a, <2>1
    <3>2. s < slotCount /\ Ahead(s) /\ pointer[s] = None
      BY <3>1 DEF IInv, FreeInv
    <3> QED
      BY <2>0, <3>1, <3>2, ConstantsAssumption DEF IInv, TypeOK, Slots
  <2>2. CASE freeSlots = <<>>
    BY <2>0, <2>2, ConstantsAssumption
       DEF IInv, TypeOK, IssuedInv, GenerationInv, Ahead, Slots
  <2> QED
    BY <2>1, <2>2
<1>d. /\ pc[t] = "idle" /\ pc' = [pc EXCEPT ![t] = "publish"]
      /\ slot' = [slot EXCEPT ![t] = s]
      /\ gen' = [gen EXCEPT ![t] = generation[s]]
      /\ slotsMutex = None /\ slotsMutex' = t
      /\ object' = [object EXCEPT ![t] = o]
      /\ UNCHANGED <<pointer, generation, field, issued, known, sealed, deleted,
                     changes>>
  BY DEF RegisterAllocation, WorkOn, Handle, ghosts
<1>1. TypeOK'
  BY <1>b, <1>c, <1>d DEF IInv, TypeOK, Points
<1>2. MutexInv'
  BY <1>d, ConstantsAssumption DEF IInv, MutexInv, Inside
<1>3. GenerationInv'
  BY <1>d DEF IInv, GenerationInv, Slots
<1>4. IssuedInv'
  BY <1>d DEF IInv, TypeOK, IssuedInv, Emptying, Slots
<1>5. FreeInv'
  BY <1>b, <1>c, <1>d, SMTT(30) DEF IInv, TypeOK, FreeInv, Ahead, Inside
<1>6. PublishInv'
  BY <1>c, <1>d, ConstantsAssumption DEF IInv, TypeOK, PublishInv, Inside, Ahead
<1>7. DestroyInv'
  BY <1>d DEF IInv, DestroyInv, Destroying, Returned
<1>8. ReadInv'
  BY <1>d DEF IInv, ReadInv, Returned
<1>9. CapsuleInv'
  BY <1>d DEF IInv, CapsuleInv
<1>10. ApartInv'
  <2>1. o \notin deleted /\ \A r \in Slots : pointer[r] # o
    BY ConstantsAssumption DEF IInv, TypeOK, PlaceInv, RegisterAllocation, Allocated
  <2>2. \A u \in Threads : Holds(u) => object[u] # o
    BY DEF IInv, PlaceInv, RegisterAllocation, Allocated, Holds
  <2> QED
    BY <1>d, <2>1, <2>2 DEF IInv, TypeOK, ApartInv, Holds, Destroying
<1>11. PlaceInv'
  <2>1. Registered' = Registered
    BY <1>d DEF Registered
  <2> QED
    BY <1>d, <2>1 DEF IInv, TypeOK, PlaceInv, HasPlace, Holds, Destroying
<1> QED
  BY <1>1, <1>2, <1>3, <1>4, <1>5, <1>6, <1>7, <1>8, <1>9, <1>10, <1>11
     DEF IInv

\* Publishing the object and issuing its handle preserves IInv: until now no handle was level
\* with the slot.
LEMMA PublishStep ==
    ASSUME IInv, MaxChanges < MaxGeneration, NEW t \in Threads, Publish(t)
    PROVE  IInv'
<1>1. TypeOK'
  BY DEF IInv, TypeOK, Points, PublishInv, Publish, Handle, locals
<1>2. MutexInv'
  BY DEF IInv, TypeOK, MutexInv, Inside, Publish
<1>3. GenerationInv'
  BY DEF IInv, TypeOK, GenerationInv, PublishInv, Publish, Slots
<1>4. IssuedInv'
  BY DEF IInv, TypeOK, Points, MutexInv, IssuedInv, FreeInv, PublishInv, ReadInv,
         Inside, Emptying, Ahead, Returned, Publish, Generations, Handle
<1>5. FreeInv'
  BY DEF IInv, FreeInv, Inside, Ahead, Publish, Handle, locals
<1>6. PublishInv'
  BY DEF IInv, TypeOK, MutexInv, PublishInv, Inside, Publish
<1>7. DestroyInv'
  BY DEF IInv, MutexInv, DestroyInv, Inside, Destroying, Returned, Publish, locals
<1>8. ReadInv'
  BY DEF IInv, TypeOK, PublishInv, ReadInv, Ahead, Returned, Publish, Generations,
         locals
<1>9. CapsuleInv'
  <2>1. \A c \in sealed : c # Handle(slot[t], gen[t], object[t]) /\ c.slot # slot[t]
    BY IsHandle DEF IInv, TypeOK, CapsuleInv, PublishInv, Publish, Ahead, Handle,
                    Generations
  <2> QED
    BY <2>1 DEF IInv, TypeOK, CapsuleInv, Publish
<1>10. ApartInv'
  <2>1. slot[t] \in Slots /\ pointer[slot[t]] = None
    BY DEF IInv, TypeOK, PublishInv, Publish
  <2> QED
    BY <2>1, ConstantsAssumption
       DEF IInv, TypeOK, ApartInv, Publish, locals, Holds, Destroying
<1>11. PlaceInv'
  <2>1. Registered' = Registered \cup {object[t]}
    BY RegisteredGrows DEF Publish
  <2>2. slot[t] \in Slots /\ pointer[slot[t]] = None
    BY DEF IInv, TypeOK, PublishInv, Publish
  <2>3. pointer'[slot[t]] = object[t]
    BY <2>2 DEF IInv, TypeOK, Publish
  <2>4. \A o \in Objects : HasPlace(o) => HasPlace(o)'
    BY <2>2, <2>3, ConstantsAssumption
       DEF IInv, TypeOK, HasPlace, Publish, locals, Holds, Destroying
  <2>5. HasPlace(object[t])'
    <3>1. object'[t] = object[t]
      BY DEF Publish, locals
    <3> QED
      BY <2>2, <2>3, <3>1 DEF HasPlace
  <2> QED
    BY <2>1, <2>4, <2>5, IsHandle
       DEF IInv, TypeOK, PlaceInv, Publish, Handle, locals, Destroying
<1> QED
  BY <1>1, <1>2, <1>3, <1>4, <1>5, <1>6, <1>7, <1>8, <1>9, <1>10, <1>11
     DEF IInv

\* absolute_managed_set_type preserves IInv: it checks the generation under the mutex.
LEMMA SetTypeStep ==
    ASSUME IInv, MaxChanges < MaxGeneration, NEW t \in Threads, NEW h \in issued,
           SetType(t, h)
    PROVE  IInv'
<1>1. TypeOK'
  BY DEF IInv, TypeOK, SetType, locals, ghosts
<1>2. MutexInv'
  BY DEF IInv, MutexInv, Inside, SetType
<1>3. GenerationInv'
  BY DEF IInv, GenerationInv, SetType, ghosts
<1>4. IssuedInv'
  BY DEF IInv, IssuedInv, Emptying, SetType, ghosts, Find
<1>5. FreeInv'
  BY DEF IInv, FreeInv, Inside, Ahead, SetType, locals, ghosts
<1>6. PublishInv'
  BY DEF IInv, IssuedInv, PublishInv, Emptying, Ahead, SetType, locals, ghosts, Find
<1>7. DestroyInv'
  BY DEF IInv, DestroyInv, Destroying, Returned, SetType, locals, ghosts
<1>8. ReadInv'
  BY DEF IInv, ReadInv, Returned, SetType, locals, ghosts
<1>9. CapsuleInv'
  BY DEF IInv, CapsuleInv, SetType, ghosts
<1>10. ApartInv'
  BY DEF IInv, TypeOK, ApartInv, SetType, locals, ghosts, Holds, Destroying
<1>11. PlaceInv'
  BY DEF IInv, TypeOK, PlaceInv, HasPlace, Registered, SetType, locals, ghosts,
         Holds, Destroying
<1> QED
  BY <1>1, <1>2, <1>3, <1>4, <1>5, <1>6, <1>7, <1>8, <1>9, <1>10, <1>11
     DEF IInv

\* The first half of absolute_managed_destroy, which empties the slot, preserves IInv.
LEMMA DestroyStep ==
    ASSUME IInv, MaxChanges < MaxGeneration, NEW t \in Threads, NEW h \in issued,
           Destroy(t, h), sealed' \subseteq sealed, h \notin sealed'
    PROVE  IInv'
<1>1. TypeOK'
  BY DEF IInv, TypeOK, Points, Destroy, WorkOn
<1>2. MutexInv'
  BY ConstantsAssumption DEF IInv, MutexInv, Inside, Destroy, WorkOn
<1>3. GenerationInv'
  BY DEF IInv, GenerationInv, Destroy
<1>4. IssuedInv'
  BY ConstantsAssumption DEF IInv, TypeOK, IssuedInv, Emptying, Destroy, WorkOn
<1>5. FreeInv'
  BY DEF IInv, TypeOK, FreeInv, Inside, Ahead, Destroy, WorkOn
<1>6. PublishInv'
  BY DEF IInv, PublishInv, Ahead, Destroy, WorkOn
<1>7. DestroyInv'
  BY DEF IInv, TypeOK, IssuedInv, DestroyInv, Destroying, Returned, Destroy, Handle,
         Find, WorkOn
<1>8. ReadInv'
  BY DEF IInv, ReadInv, Returned, Destroy, WorkOn
<1>9. CapsuleInv'
  <2>1. \A c \in sealed' : c.slot # h.slot
    BY IsHandle DEF IInv, TypeOK, CapsuleInv, IssuedInv, Destroy, Find
  <2> QED
    BY <2>1 DEF IInv, CapsuleInv, Destroy
<1>10. ApartInv'
  <2>1. h.slot \in Slots /\ pointer[h.slot] # None
    BY IsHandle DEF IInv, Destroy
  <2> QED
    BY <2>1, ConstantsAssumption
       DEF IInv, TypeOK, ApartInv, Destroy, WorkOn, Holds, Destroying
<1>11. PlaceInv'
  <2>1. h.slot \in Slots /\ pointer[h.slot] # None
    BY IsHandle DEF IInv, Destroy
  <2>2. Registered' = Registered
    BY DEF Registered, Destroy
  <2>3. \A o \in Objects : HasPlace(o) => HasPlace(o)'
    BY <2>1 DEF IInv, TypeOK, HasPlace, Destroy, WorkOn, Holds, Destroying
  <2> QED
    BY <2>1, <2>2, <2>3, IsHandle
       DEF IInv, TypeOK, PlaceInv, Destroy, WorkOn, Destroying
<1> QED
  BY <1>1, <1>2, <1>3, <1>4, <1>5, <1>6, <1>7, <1>8, <1>9, <1>10, <1>11
     DEF IInv

\* Clearing the type of a slot being destroyed preserves IInv.
LEMMA ClearTypeStep ==
    ASSUME IInv, MaxChanges < MaxGeneration, NEW t \in Threads, ClearType(t)
    PROVE  IInv'
<1>1. TypeOK'
  BY DEF IInv, TypeOK, Points, ClearType, locals, ghosts
<1>2. MutexInv'
  BY DEF IInv, MutexInv, Inside, ClearType
<1>3. GenerationInv'
  BY DEF IInv, GenerationInv, ClearType, ghosts
<1>4. IssuedInv'
  BY DEF IInv, IssuedInv, Emptying, ClearType, locals, ghosts
<1>5. FreeInv'
  BY DEF IInv, FreeInv, Inside, Ahead, ClearType, locals, ghosts
<1>6. PublishInv'
  BY DEF IInv, PublishInv, Ahead, ClearType, locals, ghosts
<1>7. DestroyInv'
  BY DEF IInv, DestroyInv, Destroying, Returned, ClearType, locals, ghosts
<1>8. ReadInv'
  BY DEF IInv, ReadInv, Returned, ClearType, locals, ghosts
<1>9. CapsuleInv'
  BY DEF IInv, CapsuleInv, ClearType, ghosts
<1>10. ApartInv'
  BY DEF IInv, TypeOK, ApartInv, ClearType, locals, ghosts, Holds, Destroying
<1>11. PlaceInv'
  BY DEF IInv, TypeOK, PlaceInv, HasPlace, Registered, ClearType, locals, ghosts,
         Holds, Destroying
<1> QED
  BY <1>1, <1>2, <1>3, <1>4, <1>5, <1>6, <1>7, <1>8, <1>9, <1>10, <1>11
     DEF IInv

\* Advancing the generation and pushing the slot on the free stack preserves IInv: the slot
\* becomes ahead of every handle issued for it, so it may be reused.
LEMMA BumpStep ==
    ASSUME IInv, MaxChanges < MaxGeneration, NEW t \in Threads, Bump(t)
    PROVE  IInv'
<1>a. /\ NextGeneration(generation[slot[t]]) = generation[slot[t]] + 1
      /\ NextGeneration(generation[slot[t]]) \in Generations
  BY NoWrap DEF Bump, IInv, TypeOK, DestroyInv
<1>b. /\ freeSlots' \in Seq(Slots)
      /\ Len(freeSlots) \in Nat
      /\ Len(freeSlots') = Len(freeSlots) + 1
      /\ \A i \in 1 .. Len(freeSlots) : freeSlots'[i] = freeSlots[i]
      /\ freeSlots'[Len(freeSlots) + 1] = slot[t]
  BY AppendProperties, LenProperties DEF Bump, IInv, TypeOK
<1>c. /\ pc[t] = "bump" /\ pc' = [pc EXCEPT ![t] = "delete"]
      /\ generation' =
            [generation EXCEPT ![slot[t]] = NextGeneration(generation[slot[t]])]
      /\ changes' = changes + 1 /\ slotsMutex' = None /\ slotsMutex = t
      /\ UNCHANGED <<pointer, type, slotCount, slot, gen, field, object, issued,
                     known, sealed, deleted>>
  BY DEF Bump, locals, IInv, MutexInv, Inside
<1>d. /\ slot[t] \in Slots /\ slot[t] < slotCount
      /\ changes < MaxChanges /\ pointer[slot[t]] = None
      /\ \A i \in 1 .. Len(freeSlots) : freeSlots[i] # slot[t]
  <2>1. Returned(t) \in issued /\ Returned(t).slot = slot[t]
    BY <1>c DEF IInv, DestroyInv, Destroying, Returned, Handle
  <2> QED
    BY <1>c, <2>1
       DEF IInv, TypeOK, DestroyInv, IssuedInv, FreeInv, Inside
<1>e. Ahead(slot[t])'
  <2>1. \A h \in issued : h.slot = slot[t] => h.gen <= generation[slot[t]]
    BY DEF IInv, IssuedInv
  <2>2. generation[slot[t]] \in Nat /\ \A h \in issued : h.gen \in Nat
    BY <1>d, IsHandle, ConstantsAssumption DEF IInv, TypeOK, Generations
  <2>3. generation'[slot[t]] = generation[slot[t]] + 1
    BY <1>a, <1>c, <1>d DEF IInv, TypeOK
  <2> QED
    BY <1>c, <2>1, <2>2, <2>3 DEF Ahead
<1>1. TypeOK'
  BY <1>a, <1>b, <1>c, <1>d, ConstantsAssumption
     DEF IInv, TypeOK, Points, MutexInv, IssuedInv, DestroyInv, ReadInv, Emptying,
         Returned
<1>2. MutexInv'
  BY <1>c DEF IInv, TypeOK, MutexInv, Inside
<1>3. GenerationInv'
  BY <1>a, <1>c DEF IInv, TypeOK, GenerationInv, IssuedInv, Generations
<1>4. IssuedInv'
  BY <1>a, <1>c DEF IInv, TypeOK, IssuedInv, Emptying, Generations
<1>5. FreeInv'
  <2>1. \A u \in Threads : ~ Inside(u)'
    BY <1>c, ConstantsAssumption DEF IInv, TypeOK, MutexInv, Inside
  <2>3. \A i \in 1 .. Len(freeSlots') :
          i \in 1 .. Len(freeSlots) \/ i = Len(freeSlots) + 1
    BY <1>b
  <2>4. ASSUME NEW i \in 1 .. Len(freeSlots')
        PROVE  /\ freeSlots'[i] < slotCount'
               /\ Ahead(freeSlots[i])'
               /\ pointer'[freeSlots'[i]] = None
    <3>1. CASE i \in 1 .. Len(freeSlots)
      <4> DEFINE s == freeSlots[i]
      <4>1. s \in Slots /\ s # slot[t] /\ freeSlots'[i] = s
        BY <1>b, <1>d, <3>1, ElementOfSeq DEF IInv, TypeOK
      <4>2. s < slotCount /\ Ahead(s) /\ pointer[s] = None
        BY <3>1 DEF IInv, FreeInv
      <4>3. \A h \in issued : h.slot = s => h.gen < generation'[s]
        BY <1>c, <1>d, <4>1, <4>2 DEF IInv, TypeOK, Ahead
      <4> QED
        BY <1>c, <4>1, <4>2, <4>3 DEF Ahead
    <3>2. CASE i = Len(freeSlots) + 1
      BY <1>b, <1>c, <1>d, <1>e, <3>2 DEF Ahead
    <3> QED
      BY <2>3, <3>1, <3>2
  <2>5. ASSUME NEW i \in 1 .. Len(freeSlots'), NEW j \in 1 .. Len(freeSlots'),
               i # j
        PROVE  freeSlots'[i] # freeSlots'[j]
    BY <1>b, <1>d, <2>3, <2>5 DEF IInv, FreeInv
  <2> QED
    BY <2>1, <2>4, <2>5 DEF FreeInv
<1>6. PublishInv'
  BY <1>c DEF IInv, MutexInv, PublishInv, Inside
<1>7. DestroyInv'
  BY <1>c DEF IInv, TypeOK, MutexInv, DestroyInv, Inside, Destroying, Returned
<1>8. ReadInv'
  BY <1>a, <1>c, <1>e DEF IInv, ReadInv, Ahead, Returned, Generations
<1>9. CapsuleInv'
  <2>1. \A c \in sealed : c.slot # slot[t]
    BY <1>d, IsHandle, ConstantsAssumption DEF IInv, TypeOK, CapsuleInv
  <2> QED
    BY <1>c, <2>1 DEF IInv, TypeOK, CapsuleInv
<1>10. ApartInv'
  BY <1>c DEF IInv, TypeOK, ApartInv, Holds, Destroying
<1>11. PlaceInv'
  BY <1>c DEF IInv, TypeOK, PlaceInv, HasPlace, Registered, Holds, Destroying
<1> QED
  BY <1>1, <1>2, <1>3, <1>4, <1>5, <1>6, <1>7, <1>8, <1>9, <1>10, <1>11
     DEF IInv

\* Deleting the object outside the mutex preserves IInv.
LEMMA DeleteStep ==
    ASSUME IInv, MaxChanges < MaxGeneration, NEW t \in Threads, Delete(t)
    PROVE  IInv'
<1>a. object[t] \in Objects
  BY IsHandle DEF Delete, IInv, DestroyInv, Destroying, Returned, Handle
<1>1. TypeOK'
  BY <1>a DEF Delete, IInv, TypeOK, Points, table, locals
<1>2. MutexInv'
  BY DEF IInv, MutexInv, Inside, Delete
<1>3. GenerationInv'
  BY DEF IInv, GenerationInv, Delete, table
<1>4. IssuedInv'
  BY DEF IInv, IssuedInv, Emptying, Delete, table, locals
<1>5. FreeInv'
  BY DEF IInv, FreeInv, Inside, Ahead, Delete, table, locals
<1>6. PublishInv'
  BY DEF IInv, PublishInv, Ahead, Delete, table, locals
<1>7. DestroyInv'
  BY DEF IInv, DestroyInv, Destroying, Returned, Delete, table, locals
<1>8. ReadInv'
  BY DEF IInv, ReadInv, Returned, Delete, table, locals
<1>9. CapsuleInv'
  BY DEF IInv, CapsuleInv, Delete, table
<1>10. ApartInv'
  BY DEF IInv, TypeOK, ApartInv, Delete, table, locals, Holds, Destroying
<1>11. PlaceInv'
  <2>1. Registered' = Registered
    BY DEF Registered, Delete
  <2>2. \A o \in Objects : HasPlace(o) => HasPlace(o)'
    BY DEF IInv, TypeOK, HasPlace, Delete, table, locals, Holds, Destroying
  <2> QED
    BY <2>1, <2>2, IsHandle
       DEF IInv, TypeOK, PlaceInv, Delete, table, locals, Destroying
<1> QED
  BY <1>1, <1>2, <1>3, <1>4, <1>5, <1>6, <1>7, <1>8, <1>9, <1>10, <1>11
     DEF IInv

\* A transfer, which advances the generation of an occupied slot and issues a new handle,
\* preserves IInv.
LEMMA TransferStep ==
    ASSUME IInv, MaxChanges < MaxGeneration, NEW t \in Threads, NEW h \in issued,
           h \notin sealed, Transfer(t, h)
    PROVE  IInv'
<1>a. /\ NextGeneration(generation[h.slot]) = generation[h.slot] + 1
      /\ NextGeneration(generation[h.slot]) \in Generations
  BY NoWrap, IsHandle DEF Transfer, IInv
<1>1. TypeOK'
  BY ConstantsAssumption
     DEF IInv, TypeOK, MutexInv, GenerationInv, PublishInv, DestroyInv, ReadInv,
         Transfer, Generations, Handle, locals, NextGeneration
<1>2. MutexInv'
  BY DEF IInv, MutexInv, Inside, Transfer
<1>3. GenerationInv'
  BY DEF IInv, TypeOK, GenerationInv, Transfer, Generations, NextGeneration
<1>4. IssuedInv'
  BY ConstantsAssumption
     DEF IInv, TypeOK, GenerationInv, IssuedInv, Emptying, Transfer, Generations,
         Handle, Find, NextGeneration
<1>5. FreeInv'
  BY DEF IInv, FreeInv, Inside, Ahead, Transfer, Handle, locals
<1>6. PublishInv'
  BY DEF IInv, PublishInv, Ahead, Transfer, Handle, locals
<1>7. DestroyInv'
  BY ConstantsAssumption
     DEF IInv, MutexInv, DestroyInv, Inside, Destroying, Returned, Transfer, locals
<1>8. ReadInv'
  <2>1. /\ UNCHANGED <<pointer, pc, slot, gen, field, object>>
        /\ issued \subseteq issued'
        /\ generation' =
              [generation EXCEPT ![h.slot] = generation[h.slot] + 1]
    BY <1>a DEF Transfer, locals
  <2>2. \A g \in issued : generation'[g.slot] = g.gen => generation[g.slot] = g.gen
    BY <2>1, IsHandle, ConstantsAssumption
       DEF IInv, TypeOK, IssuedInv, Generations
  <2> QED
    BY <2>1, <2>2 DEF IInv, ReadInv, Returned
<1>9. CapsuleInv'
  <2> DEFINE new == Handle(h.slot, generation[h.slot] + 1, pointer[h.slot])
  <2>1. /\ sealed' = sealed \cup {new} /\ UNCHANGED <<pointer, known>>
        /\ generation' =
              [generation EXCEPT ![h.slot] = generation[h.slot] + 1]
    BY <1>a DEF Transfer
  <2>2. \A c \in sealed : c.slot # h.slot
    BY IsHandle DEF IInv, TypeOK, CapsuleInv, IssuedInv, Transfer, Find
  <2>3. new \notin issued
    BY ConstantsAssumption DEF IInv, TypeOK, IssuedInv, Generations, Handle
  <2> QED
    BY <2>1, <2>2, <2>3, IsHandle DEF IInv, TypeOK, CapsuleInv, Handle
<1>10. ApartInv'
  BY DEF IInv, ApartInv, Transfer, locals, Holds, Destroying
<1>11. PlaceInv'
  <2>1. Registered' = Registered \cup {pointer[h.slot]}
    BY RegisteredGrows DEF Transfer
  <2>2. h.slot \in Slots
    BY IsHandle DEF IInv
  <2>3. HasPlace(pointer[h.slot])' /\ \A o : HasPlace(o)' <=> HasPlace(o)
    BY <2>2 DEF HasPlace, Transfer, locals, Holds, Destroying
  <2> QED
    BY <2>1, <2>3 DEF IInv, PlaceInv, Transfer, Handle, locals, Destroying
<1> QED
  BY <1>1, <1>2, <1>3, <1>4, <1>5, <1>6, <1>7, <1>8, <1>9, <1>10, <1>11
     DEF IInv

\* Opening a capsule preserves IInv: its handle is known from now on.
LEMMA UnwrapStep ==
    ASSUME IInv, NEW t \in Threads, NEW c \in sealed, Unwrap(t, c)
    PROVE  IInv'
<1> USE DEF IInv, Unwrap, table, locals
<1>1. TypeOK' /\ MutexInv' /\ GenerationInv'
  BY DEF TypeOK, MutexInv, Inside, GenerationInv
<1>2. IssuedInv' /\ FreeInv' /\ PublishInv'
  BY DEF IssuedInv, FreeInv, PublishInv, Inside, Emptying, Ahead
<1>3. DestroyInv' /\ ReadInv' /\ CapsuleInv'
  BY DEF DestroyInv, ReadInv, CapsuleInv, Destroying, Returned
<1>4. ApartInv' /\ PlaceInv'
  BY DEF ApartInv, PlaceInv, HasPlace, Registered, Holds, Destroying
<1> QED
  BY <1>1, <1>2, <1>3, <1>4

\* Starting a lock-free read preserves IInv.
LEMMA GetStep ==
    ASSUME IInv, MaxChanges < MaxGeneration, NEW t \in Threads, NEW h \in issued, NEW
           f \in {"pointer", "type"}, Get(t, h, f)
    PROVE  IInv'
<1>1. TypeOK'
  BY DEF IInv, TypeOK, Points, Get, table, ghosts, WorkOn
<1>2. MutexInv'
  BY DEF IInv, MutexInv, Inside, Get, WorkOn
<1>3. GenerationInv'
  BY DEF IInv, GenerationInv, Get, table, ghosts
<1>4. IssuedInv'
  BY DEF IInv, IssuedInv, Emptying, Get, table, ghosts, WorkOn
<1>5. FreeInv'
  BY DEF IInv, FreeInv, Inside, Ahead, Get, table, ghosts, WorkOn
<1>6. PublishInv'
  BY DEF IInv, PublishInv, Ahead, Get, table, ghosts, WorkOn
<1>7. DestroyInv'
  BY DEF IInv, DestroyInv, Destroying, Returned, Get, table, ghosts, WorkOn
<1>8. ReadInv'
  BY DEF IInv, TypeOK, ReadInv, Returned, Get, table, ghosts, WorkOn
<1>9. CapsuleInv'
  BY DEF IInv, CapsuleInv, Get, table, ghosts
<1>10. ApartInv'
  BY DEF IInv, TypeOK, ApartInv, Get, table, ghosts, WorkOn, Holds, Destroying
<1>11. PlaceInv'
  BY DEF IInv, TypeOK, PlaceInv, HasPlace, Registered, Get, table, ghosts, WorkOn,
         Holds, Destroying
<1> QED
  BY <1>1, <1>2, <1>3, <1>4, <1>5, <1>6, <1>7, <1>8, <1>9, <1>10, <1>11
     DEF IInv

\* The read of the field preserves IInv: what it reads belongs to the handle if the generation
\* is still the handle's.
LEMMA ReadStep ==
    ASSUME IInv, MaxChanges < MaxGeneration, NEW t \in Threads, Read(t)
    PROVE  IInv'
<1>a. \A h \in issued : h = Handle(h.slot, h.gen, h.object)
  BY IsHandle DEF IInv
<1>1. TypeOK'
  BY DEF IInv, TypeOK, Points, Read, table, ghosts
<1>2. MutexInv'
  BY DEF IInv, MutexInv, Inside, Read
<1>3. GenerationInv'
  BY DEF IInv, GenerationInv, Read, table, ghosts
<1>4. IssuedInv'
  BY DEF IInv, IssuedInv, Emptying, Read, table, ghosts
<1>5. FreeInv'
  BY DEF IInv, FreeInv, Inside, Ahead, Read, table, ghosts
<1>6. PublishInv'
  BY DEF IInv, PublishInv, Ahead, Read, table, ghosts
<1>7. DestroyInv'
  BY DEF IInv, DestroyInv, Destroying, Returned, Read, table, ghosts
<1>8. ReadInv'
  BY <1>a DEF Read, IInv, TypeOK, ReadInv, IssuedInv, Returned, table, ghosts
<1>9. CapsuleInv'
  BY DEF IInv, CapsuleInv, Read, table, ghosts
<1>10. ApartInv'
  BY DEF IInv, TypeOK, ApartInv, Read, table, ghosts, Holds, Destroying
<1>11. PlaceInv'
  BY DEF IInv, TypeOK, PlaceInv, HasPlace, Registered, Read, table, ghosts,
         Holds, Destroying
<1> QED
  BY <1>1, <1>2, <1>3, <1>4, <1>5, <1>6, <1>7, <1>8, <1>9, <1>10, <1>11
     DEF IInv

\* The second read of the generation preserves IInv: it keeps the result only if the slot has
\* not moved on.
LEMMA RecheckStep ==
    ASSUME IInv, MaxChanges < MaxGeneration, NEW t \in Threads, Recheck(t)
    PROVE  IInv'
<1>1. TypeOK'
  BY DEF IInv, TypeOK, Points, Recheck, table, ghosts
<1>2. MutexInv'
  BY DEF IInv, MutexInv, Inside, Recheck
<1>3. GenerationInv'
  BY DEF IInv, GenerationInv, Recheck, table, ghosts
<1>4. IssuedInv'
  BY DEF IInv, IssuedInv, Emptying, Recheck, table, ghosts
<1>5. FreeInv'
  BY DEF IInv, FreeInv, Inside, Ahead, Recheck, table, ghosts
<1>6. PublishInv'
  BY DEF IInv, PublishInv, Ahead, Recheck, table, ghosts
<1>7. DestroyInv'
  BY DEF IInv, DestroyInv, Destroying, Returned, Recheck, table, ghosts
<1>8. ReadInv'
  BY DEF IInv, TypeOK, ReadInv, Returned, Recheck, table, ghosts
<1>9. CapsuleInv'
  BY DEF IInv, CapsuleInv, Recheck, table, ghosts
<1>10. ApartInv'
  BY DEF IInv, TypeOK, ApartInv, Recheck, table, ghosts, Holds, Destroying
<1>11. PlaceInv'
  BY DEF IInv, TypeOK, PlaceInv, HasPlace, Registered, Recheck, table, ghosts,
         Holds, Destroying
<1> QED
  BY <1>1, <1>2, <1>3, <1>4, <1>5, <1>6, <1>7, <1>8, <1>9, <1>10, <1>11
     DEF IInv

\* Returning from a read preserves IInv.
LEMMA ReturnStep ==
    ASSUME IInv, MaxChanges < MaxGeneration, NEW t \in Threads, Return(t)
    PROVE  IInv'
<1>1. TypeOK'
  BY DEF IInv, TypeOK, Points, Return, table, locals, ghosts
<1>2. MutexInv'
  BY DEF IInv, MutexInv, Inside, Return
<1>3. GenerationInv'
  BY DEF IInv, GenerationInv, Return, table, ghosts
<1>4. IssuedInv'
  BY DEF IInv, IssuedInv, Emptying, Return, table, locals, ghosts
<1>5. FreeInv'
  BY DEF IInv, FreeInv, Inside, Ahead, Return, table, locals, ghosts
<1>6. PublishInv'
  BY DEF IInv, PublishInv, Ahead, Return, table, locals, ghosts
<1>7. DestroyInv'
  BY DEF IInv, DestroyInv, Destroying, Returned, Return, table, locals, ghosts
<1>8. ReadInv'
  BY DEF IInv, ReadInv, Returned, Return, table, locals, ghosts
<1>9. CapsuleInv'
  BY DEF IInv, CapsuleInv, Return, table, ghosts
<1>10. ApartInv'
  BY DEF IInv, TypeOK, ApartInv, Return, table, locals, ghosts, Holds, Destroying
<1>11. PlaceInv'
  BY DEF IInv, TypeOK, PlaceInv, HasPlace, Registered, Return, table, locals, ghosts,
         Holds, Destroying
<1> QED
  BY <1>1, <1>2, <1>3, <1>4, <1>5, <1>6, <1>7, <1>8, <1>9, <1>10, <1>11
     DEF IInv

\* The empty table satisfies IInv.
LEMMA InitEstablishes == Init => IInv
<1> SUFFICES ASSUME Init
             PROVE  IInv
  OBVIOUS
<1>1. TypeOK
  BY ConstantsAssumption, EmptySeq
     DEF Init, FirstGeneration, TypeOK, Points, Slots, Generations
<1>2. MutexInv /\ GenerationInv /\ IssuedInv /\ PublishInv /\ DestroyInv /\ ReadInv
      /\ CapsuleInv /\ ApartInv /\ PlaceInv
  BY DEF Init, FirstGeneration, MutexInv, GenerationInv, IssuedInv, PublishInv,
         DestroyInv, ReadInv, CapsuleInv, ApartInv, PlaceInv,
         Inside, Destroying, Holds, Slots
<1>3. FreeInv
  BY EmptySeq DEF Init, FreeInv
<1> QED
  BY <1>1, <1>2, <1>3 DEF IInv

\* Every step of the specification, and every stutter, preserves IInv.
LEMMA StepPreserves ==
    ASSUME IInv, MaxChanges < MaxGeneration, [Next]_vars
    PROVE  IInv'
<1>1. CASE UNCHANGED vars
  BY <1>1 DEF IInv, TypeOK, MutexInv, GenerationInv, IssuedInv, FreeInv, PublishInv,
              DestroyInv, ReadInv, CapsuleInv, ApartInv, PlaceInv, Inside, Emptying,
              Ahead, Destroying, Holds, HasPlace, Registered, Returned,
              Handle, vars, table, locals, ghosts
<1>2. ASSUME NEW t \in Threads, Step(t)
      PROVE  IInv'
  <2>1. ASSUME NEW o \in Objects, RegisterAllocation(t, o)
        PROVE  IInv'
    BY <2>1, RegisterAllocationStep
  <2>0. known \subseteq issued /\ sealed \subseteq issued
    BY DEF IInv, TypeOK
  <2>2. ASSUME NEW h \in known,
               SetType(t, h) \/ DestroyOwner(t, h) \/ Transfer(t, h)
        PROVE  IInv'
    BY <2>0, <2>2, SetTypeStep, DestroyStep, TransferStep
       DEF DestroyOwner, IInv, CapsuleInv
  <2>5. ASSUME NEW c \in sealed, Unwrap(t, c) \/ DestroyCapsule(t, c)
        PROVE  IInv'
    BY <2>0, <2>5, UnwrapStep, DestroyStep DEF DestroyCapsule
  <2>3. ASSUME NEW h \in known, NEW f \in {"pointer", "type"}, Get(t, h, f)
        PROVE  IInv'
    BY <2>0, <2>3, GetStep
  <2>4. ASSUME \/ Publish(t) \/ ClearType(t) \/ Bump(t) \/ Delete(t)
               \/ Read(t) \/ Recheck(t) \/ Return(t)
        PROVE  IInv'
    BY <2>4, PublishStep, ClearTypeStep, BumpStep, DeleteStep, ReadStep,
       RecheckStep, ReturnStep
  <2> QED
    BY <1>2, <2>1, <2>2, <2>3, <2>4, <2>5 DEF Step
<1> QED
  BY <1>1, <1>2 DEF Next

\* The inductive invariant holds throughout.
THEOREM Invariance ==
    ASSUME MaxChanges < MaxGeneration
    PROVE  Spec => []IInv
<1>1. Init => IInv
  BY InitEstablishes
<1>2. IInv /\ [Next]_vars => IInv'
  BY StepPreserves
<1> QED
  BY <1>1, <1>2, PTL DEF Spec

\* The types.
THEOREM TypeCorrect ==
    ASSUME MaxChanges < MaxGeneration
    PROVE  Spec => []TypeOK
<1>1. IInv => TypeOK
  BY DEF IInv
<1> QED
  BY <1>1, Invariance, PTL

\* Reusing a slot cannot revive an old handle.
THEOREM NeverRevives ==
    ASSUME MaxChanges < MaxGeneration
    PROVE  Spec => []NoRevival
<1>1. IInv => NoRevival
  BY DEF IInv, IssuedInv, NoRevival, Resolve
<1> QED
  BY <1>1, Invariance, PTL

\* The lock-free reads are safe against every interleaving with a destroy and
\* the reuse of the slot.
THEOREM AlwaysReadsOwnObject ==
    ASSUME MaxChanges < MaxGeneration
    PROVE  Spec => []ReadsOwnObject
<1>1. IInv => ReadsOwnObject
  BY DEF IInv, ReadInv, ReadsOwnObject
<1> QED
  BY <1>1, Invariance, PTL

\* A null result is never wrong.
THEOREM NullAlwaysMeansExpired ==
    ASSUME MaxChanges < MaxGeneration
    PROVE  Spec => []NullMeansExpired
<1>1. IInv => NullMeansExpired
  BY DEF IInv, ReadInv, NullMeansExpired
<1> QED
  BY <1>1, Invariance, PTL

\* No object is leaked, deleted twice, or deleted while a slot or a capsule leads
\* to it.
THEOREM AlwaysEveryObjectOnce ==
    ASSUME MaxChanges < MaxGeneration
    PROVE  Spec => []EveryObjectOnce
<1>1. ASSUME IInv, NEW o \in Objects
      PROVE  /\ o \in Allocated <=> Places(o) # {}
             /\ \A x, y \in Places(o) : x = y
  <2>1. Places(o) # {} <=> HasPlace(o)
    BY DEF Places, HasPlace, Holds
  <2>2. o \in Allocated <=> HasPlace(o)
    BY <1>1, ConstantsAssumption
       DEF IInv, PlaceInv, HasPlace, Holds, Allocated, Registered
  <2>3. \A x \in Places(o) :
          \/ \E s \in Slots : x = <<"slot", s>> /\ pointer[s] = o
          \/ \E t \in Threads : x = <<"thread", t>> /\ Holds(t) /\ object[t] = o
          \/ x = <<"deleted", o>> /\ o \in deleted
    BY DEF Places, Holds
  <2>4. /\ \A s, r \in Slots : pointer[s] = o /\ pointer[r] = o => s = r
        /\ \A t, u \in Threads :
              Holds(t) /\ Holds(u) /\ object[t] = o /\ object[u] = o => t = u
        /\ \A s \in Slots, t \in Threads :
              pointer[s] = o => ~ (Holds(t) /\ object[t] = o)
        /\ o \in deleted =>
              /\ \A s \in Slots : pointer[s] # o
              /\ \A t \in Threads : ~ (Holds(t) /\ object[t] = o)
    BY <1>1, ConstantsAssumption DEF IInv, ApartInv
  <2>5. \A x, y \in Places(o) : x = y
    BY <2>3, <2>4
  <2> QED
    BY <2>1, <2>2, <2>5
<1>2. IInv => EveryObjectOnce
  BY <1>1 DEF EveryObjectOnce, IInv, CapsuleInv, CapsuleAlive, Resolve
<1> QED
  BY <1>2, Invariance, PTL

\* A capsule leads to its object until it is opened or destroyed.
THEOREM CapsulesStayAlive ==
    ASSUME MaxChanges < MaxGeneration
    PROVE  Spec => []CapsuleAlive
<1>1. IInv => CapsuleAlive
  BY DEF IInv, CapsuleInv, CapsuleAlive, Resolve
<1> QED
  BY <1>1, Invariance, PTL

\* absolute_managed_destroy deletes the object of its handle and no other.
THEOREM AlwaysDestroysOwnObject ==
    ASSUME MaxChanges < MaxGeneration
    PROVE  Spec => []DestroysOwnObject
<1>1. IInv => DestroysOwnObject
  BY DEF IInv, DestroyInv, DestroysOwnObject
<1> QED
  BY <1>1, Invariance, PTL
=============================================================================
