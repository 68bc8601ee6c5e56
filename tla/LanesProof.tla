----------------------------- MODULE LanesProof -----------------------------
(***************************************************************************)
(* Proofs about Lanes, for any levels, roles and bound: the roles listed   *)
(* are exactly those with work, the two lane sets of a level alternate,    *)
(* and each of two levels gets its share of the choices.                   *)
(***************************************************************************)
EXTENDS Lanes, SequenceTheorems, TLAPS

\* RolesExact for one lane set and level: q is its readyRoles, f its lanes.
Listed(q, f) ==
    /\ ToSet(q) = {r \in Roles : f[r] > 0}
    /\ IsInjective(q)

\* The types the first proofs need; the credits decide which level is served,
\* and neither the lists nor the turns depend on that.
LaneTypes ==
    /\ lane \in [Sets -> [Levels -> [Roles -> Nat]]]
    /\ roles \in [Sets -> [Levels -> Seq(Roles)]]
    /\ takePinnedNext \in [Levels -> BOOLEAN]
    /\ passed \in [Sets -> [Levels -> Nat]]

\* The lane set that was passed last time is the next one to be served.
TurnKept ==
    \A l \in Levels :
        /\ passed["pinned"][l] > 0 => passed["pinned"][l] = 1 /\ takePinnedNext[l]
        /\ passed["ready"][l] > 0 => passed["ready"][l] = 1 /\ ~ takePinnedNext[l]

IInv == LaneTypes /\ RolesExact /\ TurnKept

-----------------------------------------------------------------------------
(* The list of roles *)

\* A sequence without duplicates that gets a new element at its end.
LEMMA AppendListed ==
    ASSUME NEW q \in Seq(Roles), IsInjective(q), NEW r \in Roles, r \notin ToSet(q)
    PROVE  /\ Append(q, r) \in Seq(Roles)
           /\ IsInjective(Append(q, r))
           /\ ToSet(Append(q, r)) = ToSet(q) \cup {r}
<1> DEFINE p == Append(q, r)
<1>1. /\ p \in Seq(Roles)
      /\ Len(p) = Len(q) + 1
      /\ \A i \in 1 .. Len(q) : p[i] = q[i]
      /\ p[Len(q) + 1] = r
    BY AppendProperties
<1>2. /\ Len(q) \in Nat
      /\ DOMAIN q = 1 .. Len(q)
      /\ DOMAIN p = 1 .. (Len(q) + 1)
    BY <1>1, LenProperties
<1>3. \A i \in DOMAIN q : q[i] # r
    BY DEF ToSet
<1>4. IsInjective(p)
    BY <1>1, <1>2, <1>3 DEF IsInjective
<1>5. ToSet(p) = ToSet(q) \cup {r}
    <2>1. \A x \in ToSet(p) : x \in ToSet(q) \cup {r}
        BY <1>1, <1>2 DEF ToSet
    <2>2. \A x \in ToSet(q) : x \in ToSet(p)
        BY <1>1, <1>2 DEF ToSet
    <2>3. r \in ToSet(p)
        BY <1>1, <1>2 DEF ToSet
    <2> QED BY <2>1, <2>2, <2>3
<1> QED BY <1>1, <1>4, <1>5

\* A sequence without duplicates that loses its first element.
LEMMA TailListed ==
    ASSUME NEW q \in Seq(Roles), IsInjective(q), q # <<>>
    PROVE  /\ Head(q) \in Roles
           /\ Head(q) \in ToSet(q)
           /\ Tail(q) \in Seq(Roles)
           /\ IsInjective(Tail(q))
           /\ ToSet(Tail(q)) = ToSet(q) \ {Head(q)}
<1> DEFINE p == Tail(q)
<1>1. /\ Head(q) \in Roles
      /\ p \in Seq(Roles)
      /\ Len(p) = Len(q) - 1
      /\ \A i \in 1 .. Len(p) : p[i] = q[i + 1]
    BY HeadTailProperties
<1>2. /\ Len(q) \in Nat \ {0}
      /\ DOMAIN q = 1 .. Len(q)
      /\ DOMAIN p = 1 .. (Len(q) - 1)
      /\ Head(q) = q[1]
    BY <1>1, LenProperties, EmptySeq
<1>3. \A i, j \in DOMAIN q : q[i] = q[j] => i = j
    BY DEF IsInjective
<1>4. \A i, j \in DOMAIN p : p[i] = p[j] => i = j
    BY <1>1, <1>2, <1>3
<1>5. \A x \in ToSet(p) : x \in ToSet(q) /\ x # Head(q)
    BY <1>1, <1>2, <1>3 DEF ToSet
<1>6. \A x \in ToSet(q) : x # Head(q) => x \in ToSet(p)
    <2> SUFFICES ASSUME NEW i \in DOMAIN q, q[i] # Head(q)
                 PROVE  q[i] \in ToSet(p)
        BY DEF ToSet
    <2>1. i - 1 \in DOMAIN p /\ p[i - 1] = q[i]
        BY <1>1, <1>2
    <2> QED BY <2>1 DEF ToSet
<1>7. Head(q) \in ToSet(q)
    BY <1>2 DEF ToSet
<1> QED BY <1>1, <1>4, <1>5, <1>6, <1>7 DEF IsInjective

\* One entry more: what Enqueue does to the lanes of a level.
LEMMA ListedAfterEnqueue ==
    ASSUME NEW q \in Seq(Roles), NEW f \in [Roles -> Nat], Listed(q, f),
           NEW r \in Roles
    PROVE  LET q2 == IF f[r] = 0 THEN Append(q, r) ELSE q
               f2 == [f EXCEPT ![r] = @ + 1]
           IN  /\ q2 \in Seq(Roles)
               /\ f2 \in [Roles -> Nat]
               /\ Listed(q2, f2)
<1> DEFINE f2 == [f EXCEPT ![r] = @ + 1]
<1>1. /\ f2 \in [Roles -> Nat]
      /\ {x \in Roles : f2[x] > 0} = {x \in Roles : f[x] > 0} \cup {r}
    OBVIOUS
<1>2. CASE f[r] = 0
    <2>1. r \notin ToSet(q)
        BY <1>2 DEF Listed
    <2> QED BY <1>1, <1>2, <2>1, AppendListed DEF Listed
<1>3. CASE f[r] # 0
    <2>1. r \in {x \in Roles : f[x] > 0}
        BY <1>3
    <2> QED BY <1>1, <1>3, <2>1 DEF Listed
<1> QED BY <1>2, <1>3

\* One entry less: what TakeLane does to the lanes of a level with work.
LEMMA ListedAfterTake ==
    ASSUME NEW q \in Seq(Roles), NEW f \in [Roles -> Nat], Listed(q, f),
           \E x \in Roles : f[x] > 0
    PROVE  LET r == Head(q)
               q2 == IF f[r] = 1 THEN Tail(q) ELSE Append(Tail(q), r)
               f2 == [f EXCEPT ![r] = @ - 1]
           IN  /\ q2 \in Seq(Roles)
               /\ f2 \in [Roles -> Nat]
               /\ Listed(q2, f2)
<1> DEFINE r == Head(q)
           f2 == [f EXCEPT ![r] = @ - 1]
<1>1. q # <<>>
    BY DEF Listed, ToSet
<1>2. /\ r \in Roles
      /\ r \in ToSet(q)
      /\ Tail(q) \in Seq(Roles)
      /\ IsInjective(Tail(q))
      /\ ToSet(Tail(q)) = ToSet(q) \ {r}
    BY <1>1, TailListed DEF Listed
<1>3. f[r] > 0
    BY <1>2 DEF Listed
<1>4. f2 \in [Roles -> Nat]
    BY <1>2, <1>3
<1>5. CASE f[r] = 1
    <2>1. {x \in Roles : f2[x] > 0} = {x \in Roles : f[x] > 0} \ {r}
        BY <1>2, <1>5
    <2> QED BY <1>2, <1>4, <1>5, <2>1 DEF Listed
<1>6. CASE f[r] # 1
    <2>1. {x \in Roles : f2[x] > 0} = ({x \in Roles : f[x] > 0} \ {r}) \cup {r}
        BY <1>2, <1>3, <1>6
    <2>2. /\ Append(Tail(q), r) \in Seq(Roles)
          /\ IsInjective(Append(Tail(q), r))
          /\ ToSet(Append(Tail(q), r)) = ToSet(Tail(q)) \cup {r}
        <3>1. r \notin ToSet(Tail(q))
            BY <1>2
        <3> QED BY <1>2, <3>1, AppendListed
    <2> QED BY <1>2, <1>4, <1>6, <2>1, <2>2 DEF Listed
<1> QED BY <1>5, <1>6

-----------------------------------------------------------------------------
(* The inductive invariant *)

\* Every lane set lists its roles at the start: there are none.
LEMMA InitIInv == Init => IInv
<1> SUFFICES ASSUME Init PROVE IInv
    OBVIOUS
<1>1. LaneTypes
    BY DEF Init, LaneTypes
<1>2. RolesExact
    <2> SUFFICES ASSUME NEW s \in Sets, NEW l \in Levels
                 PROVE  /\ ToSet(roles[s][l]) = {r \in Roles : lane[s][l][r] > 0}
                        /\ IsInjective(roles[s][l])
        BY DEF RolesExact
    <2>1. roles[s][l] = <<>> /\ \A r \in Roles : lane[s][l][r] = 0
        BY DEF Init
    <2>2. ToSet(<<>>) = {} /\ IsInjective(<<>>)
        BY DEF ToSet, IsInjective
    <2> QED BY <2>1, <2>2
<1>3. TurnKept
    BY DEF Init, TurnKept, Sets
<1> QED BY <1>1, <1>2, <1>3 DEF IInv

\* RolesExact is Listed everywhere.
LEMMA RolesExactListed ==
    RolesExact <=> \A s \in Sets, l \in Levels : Listed(roles[s][l], lane[s][l])
BY DEF RolesExact, Listed

\* An entry that is queued keeps the lists exact.
LEMMA EnqueueKeeps ==
    ASSUME IInv, NEW s \in Sets, NEW l \in Levels, NEW r \in Roles,
           Enqueue(s, l, r)
    PROVE  IInv'
<1> DEFINE q == roles[s][l]
           f == lane[s][l]
           q2 == IF f[r] = 0 THEN Append(q, r) ELSE q
           f2 == [f EXCEPT ![r] = @ + 1]
<1>1. q \in Seq(Roles) /\ f \in [Roles -> Nat] /\ Listed(q, f)
    BY RolesExactListed DEF IInv, LaneTypes
<1>2. q2 \in Seq(Roles) /\ f2 \in [Roles -> Nat] /\ Listed(q2, f2)
    BY <1>1, ListedAfterEnqueue
<1> HIDE DEF q2, f2
<1>3. /\ roles' = [roles EXCEPT ![s] = [@ EXCEPT ![l] = q2]]
      /\ lane' = [lane EXCEPT ![s] = [@ EXCEPT ![l] = f2]]
      /\ UNCHANGED <<takePinnedNext, passed>>
    BY DEF Enqueue, q2, f2, IInv, LaneTypes
<1>4. LaneTypes'
    BY <1>2, <1>3 DEF IInv, LaneTypes
<1>5. RolesExact'
    <2> SUFFICES ASSUME NEW u \in Sets, NEW k \in Levels
                 PROVE  Listed(roles'[u][k], lane'[u][k])
        BY DEF RolesExact, Listed
    <2>1. CASE u = s /\ k = l
        BY <1>2, <1>3, <2>1 DEF IInv, LaneTypes
    <2>2. CASE ~ (u = s /\ k = l)
        <3>1. roles'[u][k] = roles[u][k] /\ lane'[u][k] = lane[u][k]
            BY <1>3, <2>2 DEF IInv, LaneTypes
        <3> QED BY <3>1, RolesExactListed DEF IInv
    <2> QED BY <2>1, <2>2
<1>6. TurnKept'
    BY <1>3 DEF IInv, TurnKept
<1> QED BY <1>4, <1>5, <1>6 DEF IInv

\* So does one that is taken from a lane set with work.
LEMMA TakeKeeps ==
    ASSUME IInv, NEW s \in Sets, NEW l \in Levels, Has(s, l), TakeLane(s, l)
    PROVE  /\ lane' \in [Sets -> [Levels -> [Roles -> Nat]]]
           /\ roles' \in [Sets -> [Levels -> Seq(Roles)]]
           /\ RolesExact'
<1> DEFINE q == roles[s][l]
           f == lane[s][l]
           r == Head(q)
           q2 == IF f[r] = 1 THEN Tail(q) ELSE Append(Tail(q), r)
           f2 == [f EXCEPT ![r] = @ - 1]
<1>1. q \in Seq(Roles) /\ f \in [Roles -> Nat] /\ Listed(q, f)
    BY RolesExactListed DEF IInv, LaneTypes
<1>2. q2 \in Seq(Roles) /\ f2 \in [Roles -> Nat] /\ Listed(q2, f2)
    BY <1>1, ListedAfterTake DEF Has
<1> HIDE DEF q2, f2
<1>3. /\ roles' = [roles EXCEPT ![s] = [@ EXCEPT ![l] = q2]]
      /\ lane' = [lane EXCEPT ![s] = [@ EXCEPT ![l] = f2]]
    BY DEF TakeLane, q2, f2, IInv, LaneTypes
<1>4. /\ lane' \in [Sets -> [Levels -> [Roles -> Nat]]]
      /\ roles' \in [Sets -> [Levels -> Seq(Roles)]]
    BY <1>2, <1>3 DEF IInv, LaneTypes
<1>5. RolesExact'
    <2> SUFFICES ASSUME NEW u \in Sets, NEW k \in Levels
                 PROVE  Listed(roles'[u][k], lane'[u][k])
        BY DEF RolesExact, Listed
    <2>1. CASE u = s /\ k = l
        BY <1>2, <1>3, <2>1 DEF IInv, LaneTypes
    <2>2. CASE ~ (u = s /\ k = l)
        <3>1. roles'[u][k] = roles[u][k] /\ lane'[u][k] = lane[u][k]
            BY <1>3, <2>2 DEF IInv, LaneTypes
        <3> QED BY <3>1, RolesExactListed DEF IInv
    <2> QED BY <2>1, <2>2
<1> QED BY <1>4, <1>5

\* The owner serves a lane set: the turn goes to the other one if it waits.
LEMMA TakeLocalKeeps ==
    ASSUME IInv, TakeLocal
    PROVE  IInv'
<1> PICK l \in Levels : /\ Choose("owner", l)
                        /\ TakeLane(Source(l), l)
                        /\ Turn(l)
                        /\ Skip("owner", l)
                        /\ Pass(l, Source(l))
    BY DEF TakeLocal
<1> DEFINE s == Source(l)
<1>1. s \in Sets /\ Other(s) \in Sets /\ s # Other(s)
    BY DEF Source, Sets, Other
<1>2. Has("ready", l) \/ Has("pinned", l)
    BY DEF Choose, Active, Sources, Sets
<1>3. Has(s, l)
    BY <1>2 DEF Source
<1>4. /\ lane' \in [Sets -> [Levels -> [Roles -> Nat]]]
      /\ roles' \in [Sets -> [Levels -> Seq(Roles)]]
      /\ RolesExact'
    BY <1>1, <1>3, TakeKeeps
<1>5. passed' = [passed EXCEPT
          ![s] = [@ EXCEPT ![l] = 0],
          ![Other(s)] = [@ EXCEPT ![l] =
              IF Has(Other(s), l) THEN passed[Other(s)][l] + 1 ELSE 0]]
    BY <1>1 DEF Pass, IInv, LaneTypes
<1>6. takePinnedNext' \in [Levels -> BOOLEAN]
    BY DEF Turn, IInv, LaneTypes
<1>7. /\ passed' \in [Sets -> [Levels -> Nat]]
      /\ \A u \in Sets, k \in Levels \ {l} : passed'[u][k] = passed[u][k]
      /\ passed'[s][l] = 0
      /\ ~ Has(Other(s), l) => passed'[Other(s)][l] = 0
      /\ Has(Other(s), l) => passed'[Other(s)][l] = passed[Other(s)][l] + 1
    <2> DEFINE n == IF Has(Other(s), l) THEN passed[Other(s)][l] + 1 ELSE 0
    <2>1. /\ passed \in [Sets -> [Levels -> Nat]]
          /\ n \in Nat
        BY <1>1 DEF IInv, LaneTypes
    <2>2. n = IF Has(Other(s), l) THEN passed[Other(s)][l] + 1 ELSE 0
        OBVIOUS
    <2> HIDE DEF n
    <2> QED BY <1>1, <1>5, <2>1, <2>2
<1>8. TurnKept'
    <2> SUFFICES ASSUME NEW k \in Levels
                 PROVE  /\ passed'["pinned"][k] > 0 =>
                              passed'["pinned"][k] = 1 /\ takePinnedNext'[k]
                        /\ passed'["ready"][k] > 0 =>
                              passed'["ready"][k] = 1 /\ ~ takePinnedNext'[k]
        BY DEF TurnKept
    <2>1. CASE k # l
        <3>1. takePinnedNext'[k] = takePinnedNext[k]
            BY <2>1 DEF Turn, IInv, LaneTypes
        <3>2. /\ passed'["pinned"][k] = passed["pinned"][k]
              /\ passed'["ready"][k] = passed["ready"][k]
            BY <1>7, <2>1 DEF Sets
        <3> QED BY <3>1, <3>2 DEF TurnKept, IInv
    <2>2. CASE k = l /\ s = "ready"
        <3>1. Has("pinned", l) => takePinnedNext'[l] /\ ~ takePinnedNext[l]
            BY <1>3, <2>2 DEF Turn, Source, IInv, LaneTypes
        <3>2. /\ passed'["ready"][l] = 0
              /\ passed["pinned"][l] \in Nat
              /\ ~ Has("pinned", l) => passed'["pinned"][l] = 0
              /\ Has("pinned", l) =>
                     passed'["pinned"][l] = passed["pinned"][l] + 1
            BY <1>7, <2>2 DEF Other, Sets, IInv, LaneTypes
        <3>3. Has("pinned", l) => passed["pinned"][l] = 0
            <4>1. ~ takePinnedNext[l] => ~ passed["pinned"][l] > 0
                BY DEF TurnKept, IInv
            <4> QED BY <3>1, <3>2, <4>1
        <3>4. passed'["pinned"][l] > 0 =>
                  Has("pinned", l) /\ passed'["pinned"][l] = 1
            BY <3>2, <3>3
        <3>5. ~ passed'["ready"][l] > 0
            BY <3>2
        <3> QED BY <2>2, <3>1, <3>4, <3>5
    <2>3. CASE k = l /\ s = "pinned"
        <3>1. Has("ready", l) => ~ takePinnedNext'[l] /\ takePinnedNext[l]
            BY <1>3, <2>3 DEF Turn, Source, IInv, LaneTypes
        <3>2. /\ passed'["pinned"][l] = 0
              /\ passed["ready"][l] \in Nat
              /\ ~ Has("ready", l) => passed'["ready"][l] = 0
              /\ Has("ready", l) => passed'["ready"][l] = passed["ready"][l] + 1
            BY <1>7, <2>3 DEF Other, Sets, IInv, LaneTypes
        <3>3. Has("ready", l) => passed["ready"][l] = 0
            <4>1. takePinnedNext[l] => ~ passed["ready"][l] > 0
                BY DEF TurnKept, IInv
            <4> QED BY <3>1, <3>2, <4>1
        <3>4. passed'["ready"][l] > 0 =>
                  Has("ready", l) /\ passed'["ready"][l] = 1
            BY <3>2, <3>3
        <3>5. ~ passed'["pinned"][l] > 0
            BY <3>2
        <3> QED BY <2>3, <3>1, <3>4, <3>5
    <2> QED BY <1>1, <2>1, <2>2, <2>3 DEF Sets
<1> QED BY <1>4, <1>6, <1>7, <1>8 DEF IInv, LaneTypes

\* A thief leaves the turns alone.
LEMMA TakeStealableKeeps ==
    ASSUME IInv, TakeStealable
    PROVE  IInv'
<1> PICK l \in Levels : /\ Choose("thief", l)
                        /\ TakeLane("ready", l)
                        /\ passed' = [passed EXCEPT !["ready"][l] =
                               IF Has("ready", l)' THEN @ ELSE 0]
                        /\ UNCHANGED takePinnedNext
    BY DEF TakeStealable
<1>1. Has("ready", l)
    BY DEF Choose, Active, Sources
<1>2. /\ lane' \in [Sets -> [Levels -> [Roles -> Nat]]]
      /\ roles' \in [Sets -> [Levels -> Seq(Roles)]]
      /\ RolesExact'
    BY <1>1, TakeKeeps DEF Sets
<1>3. /\ passed' \in [Sets -> [Levels -> Nat]]
      /\ \A s \in Sets, k \in Levels :
            passed'[s][k] = passed[s][k] \/ passed'[s][k] = 0
    BY DEF IInv, LaneTypes, Sets
<1>4. TurnKept'
    BY <1>3 DEF TurnKept, IInv, Sets
<1> QED BY <1>2, <1>3, <1>4 DEF IInv, LaneTypes

\* Every step keeps the inductive invariant.
LEMMA NextIInv == IInv /\ [Next]_vars => IInv'
<1> SUFFICES ASSUME IInv, [Next]_vars PROVE IInv'
    OBVIOUS
<1>1. CASE \E s \in Sets, l \in Levels, r \in Roles : Enqueue(s, l, r)
    BY <1>1, EnqueueKeeps
<1>2. CASE TakeLocal
    BY <1>2, TakeLocalKeeps
<1>3. CASE TakeStealable
    BY <1>3, TakeStealableKeeps
<1>4. CASE \E t \in Takers : TakeNone(t)
    BY <1>4 DEF TakeNone, IInv, LaneTypes, RolesExact, TurnKept
<1>5. CASE UNCHANGED vars
    BY <1>5 DEF vars, IInv, LaneTypes, RolesExact, TurnKept
<1> QED BY <1>1, <1>2, <1>3, <1>4, <1>5 DEF Next

LEMMA Invariance == Spec => []IInv
<1>1. Init => IInv
    BY InitIInv
<1>2. IInv /\ [Next]_vars => IInv'
    BY NextIInv
<1> QED BY <1>1, <1>2, PTL DEF Spec

\* The aborts of TakeLaneLocked are unreachable, whatever is queued and taken.
THEOREM AlwaysRolesExact == Spec => []RolesExact
<1>1. IInv => RolesExact
    BY DEF IInv
<1> QED BY <1>1, Invariance, PTL

\* New tasks and continuations alternate at every level, whatever thieves take.
THEOREM AlwaysAlternate == Spec => []SourcesAlternate
<1>1. ASSUME IInv, NEW s \in Sets, NEW l \in Levels PROVE passed[s][l] <= 1
    <2>1. passed[s][l] \in Nat
        BY <1>1 DEF IInv, LaneTypes
    <2>2. passed[s][l] > 0 => passed[s][l] = 1
        BY <1>1 DEF IInv, TurnKept, Sets
    <2> QED BY <2>1, <2>2
<1>2. IInv => SourcesAlternate
    BY <1>1 DEF SourcesAlternate
<1> QED BY <1>2, Invariance, PTL

-----------------------------------------------------------------------------
(* The share of two levels *)

\* MapThenSumSet is the value of some function that takes one element after the
\* other; SumOfOne and SumOfTwo show such a function, so there is one.
Pick(s) == CHOOSE x \in s : TRUE

\* What that function is worth at the whole set.
LEMMA WeightSum ==
    ASSUME NEW f, NEW S,
           f = [s \in SUBSET S |->
                  IF s = {} THEN 0 ELSE priorityWeights[Pick(s)] + f[s \ {Pick(s)}]]
    PROVE  \E g : /\ g = [s \in SUBSET S |->
                       IF s = {} THEN 0
                       ELSE priorityWeights[Pick(s)] + g[s \ {Pick(s)}]]
                  /\ MapThenSumSet(LAMBDA l : priorityWeights[l], S) = g[S]
<1> DEFINE Is(g) == g = [s \in SUBSET S |->
                  IF s = {} THEN 0 ELSE priorityWeights[Pick(s)] + g[s \ {Pick(s)}]]
           iter == CHOOSE g : Is(g)
<1>1. Is(iter)
    OBVIOUS
<1>2. MapThenSumSet(LAMBDA l : priorityWeights[l], S) = iter[S]
    BY DEF MapThenSumSet, MapThenFoldSet, Pick
<1> QED BY <1>1, <1>2

LEMMA WeightType == \A l \in 1 .. 7 : priorityWeights[l] \in Nat \ {0}
BY DEF priorityWeights

\* What selecting costs, when one level or two have work.
LEMMA SumOfOne ==
    ASSUME NEW h \in 1 .. 7
    PROVE  MapThenSumSet(LAMBDA l : priorityWeights[l], {h}) = priorityWeights[h]
<1> DEFINE S == {h}
           f == [s \in SUBSET S |-> IF s = {} THEN 0 ELSE priorityWeights[h]]
<1>1. \A s \in SUBSET S : s # {} => s = S /\ Pick(s) = h /\ s \ {Pick(s)} = {}
    BY DEF Pick
<1>2. f = [s \in SUBSET S |->
              IF s = {} THEN 0 ELSE priorityWeights[Pick(s)] + f[s \ {Pick(s)}]]
  <2>1. f[{}] = 0
    OBVIOUS
  <2>2. \A s \in SUBSET S : f[s] =
          IF s = {} THEN 0 ELSE priorityWeights[Pick(s)] + f[s \ {Pick(s)}]
    <3> SUFFICES ASSUME NEW s \in SUBSET S, s # {}
                 PROVE  f[s] = priorityWeights[Pick(s)] + f[s \ {Pick(s)}]
      BY <2>1
    <3>1. f[s] = priorityWeights[h] /\ f[s \ {Pick(s)}] = 0
      BY <1>1, <2>1
    <3> QED BY <1>1, <3>1, WeightType
  <2> QED BY <2>2
<1>3. PICK g : /\ g = [s \in SUBSET S |->
                     IF s = {} THEN 0
                     ELSE priorityWeights[Pick(s)] + g[s \ {Pick(s)}]]
               /\ MapThenSumSet(LAMBDA l : priorityWeights[l], S) = g[S]
  <2> HIDE DEF f
  <2> QED BY <1>2, WeightSum
<1>4. g[{}] = 0
    BY <1>3
<1>5. g[S] = priorityWeights[Pick(S)] + g[S \ {Pick(S)}]
    BY <1>3
<1> QED BY <1>1, <1>3, <1>4, <1>5, WeightType

LEMMA SumOfTwo ==
    ASSUME NEW h \in 1 .. 7, NEW k \in 1 .. 7, h # k
    PROVE  MapThenSumSet(LAMBDA l : priorityWeights[l], {h, k})
              = priorityWeights[h] + priorityWeights[k]
<1> DEFINE S == {h, k}
           weigh(x, s) == IF x \in s THEN priorityWeights[x] ELSE 0
           f == [s \in SUBSET S |-> weigh(h, s) + weigh(k, s)]
<1>1. \A s \in SUBSET S : s # {} => Pick(s) \in s
    BY DEF Pick
<1>2. f = [s \in SUBSET S |->
              IF s = {} THEN 0 ELSE priorityWeights[Pick(s)] + f[s \ {Pick(s)}]]
  <2> DEFINE e(s) == IF s = {} THEN 0 ELSE priorityWeights[Pick(s)] + f[s \ {Pick(s)}]
  <2> SUFFICES ASSUME NEW s \in SUBSET S
               PROVE  f[s] = e(s)
    <3> HIDE DEF S, weigh, e
    <3>1. f = [s \in SUBSET S |-> f[s]]
      OBVIOUS
    <3> HIDE DEF f
    <3>2. (\A s \in SUBSET S : f[s] = e(s)) => f = [s \in SUBSET S |-> e(s)]
      BY <3>1
    <3> QED BY <3>2 DEF e
  <2>1. CASE s = {}
    BY <2>1
  <2>2. CASE s # {}
    <3>1. Pick(s) \in s /\ Pick(s) \in S /\ s \ {Pick(s)} \in SUBSET S
      BY <1>1, <2>2
    <3>2. f[s \ {Pick(s)}] = weigh(h, s \ {Pick(s)}) + weigh(k, s \ {Pick(s)})
      BY <3>1
    <3> QED BY <2>2, <3>1, <3>2, WeightType
  <2> QED BY <2>1, <2>2
<1>3. PICK g : /\ g = [s \in SUBSET S |->
                     IF s = {} THEN 0
                     ELSE priorityWeights[Pick(s)] + g[s \ {Pick(s)}]]
               /\ MapThenSumSet(LAMBDA l : priorityWeights[l], S) = g[S]
  <2> HIDE DEF f
  <2> QED BY <1>2, WeightSum
<1>4. g[{}] = 0
    BY <1>3
<1>5. ASSUME NEW x \in S
      PROVE  g[{x}] = priorityWeights[x]
  <2>1. Pick({x}) = x /\ {x} \ {Pick({x})} = {} /\ {x} \in SUBSET S
    BY DEF Pick
  <2>2. g[{x}] = priorityWeights[Pick({x})] + g[{x} \ {Pick({x})}]
    BY <1>3, <2>1
  <2> QED BY <1>4, <2>1, <2>2, WeightType
<1>6. g[S] = priorityWeights[Pick(S)] + g[S \ {Pick(S)}]
    BY <1>3
<1>7. \/ Pick(S) = h /\ S \ {Pick(S)} = {k}
      \/ Pick(S) = k /\ S \ {Pick(S)} = {h}
    BY <1>1
<1>8. g[{h}] = priorityWeights[h] /\ g[{k}] = priorityWeights[k]
    BY <1>5
<1>9. g[S] = priorityWeights[h] + priorityWeights[k]
  <2> HIDE DEF S
  <2>1. priorityWeights[h] \in Nat /\ priorityWeights[k] \in Nat
    BY WeightType
  <2>2. CASE Pick(S) = h /\ S \ {Pick(S)} = {k}
    BY <1>6, <1>8, <2>2
  <2>3. CASE Pick(S) = k /\ S \ {Pick(S)} = {h}
    <3>1. g[S] = priorityWeights[k] + priorityWeights[h]
      BY <1>6, <1>8, <2>3
    <3> QED BY <2>1, <3>1
  <2> QED BY <1>7, <2>2, <2>3
<1> QED BY <1>3, <1>9

\* What a taker owes the levels h > k, which are all there are: the credit h is
\* ahead by stays within one round, less what a level that waits is due.
Weight(h, k) == priorityWeights[h] + priorityWeights[k]
Balanced(c, s, h, k) ==
    /\ - Weight(h, k) <= c[h] + c[k]
    /\ c[h] + c[k] <= Weight(h, k)
    /\ 2 * (s[h] * priorityWeights[h]) - Weight(h, k) <= c[h] - c[k]
    /\ c[h] - c[k] < Weight(h, k) - 2 * (s[k] * priorityWeights[k])

\* What a choice of l among the levels with work adds to the waits.
Waits(s, A, l) == [j \in Levels |-> IF j \in A \ {l} THEN s[j] + 1 ELSE 0]

\* A level that has work alone is chosen and its credit is what it was.
LEMMA ChooseOne ==
    ASSUME NEW h \in 1 .. 7, h \in Levels, NEW c \in [Levels -> Int]
    PROVE  /\ Selected(c, {h}) = h
           /\ Paid(c, {h}) \in [Levels -> Int]
           /\ Paid(c, {h})[h] = c[h]
           /\ \A j \in Levels \ {h} : Paid(c, {h})[j] = 0
<1>1. Selected(c, {h}) = h
    BY DEF Selected
<1>2. /\ Charged(c, {h})[h] = c[h] + priorityWeights[h]
      /\ \A j \in Levels \ {h} : Charged(c, {h})[j] = 0
      /\ Charged(c, {h}) \in [Levels -> Int]
    BY WeightType DEF Charged
<1>3. Paid(c, {h}) = [Charged(c, {h}) EXCEPT ![h] = @ - priorityWeights[h]]
    BY <1>1, SumOfOne DEF Paid
<1> DEFINE d == Charged(c, {h})
<1>4. c[h] \in Int /\ d[h] \in Int
    BY <1>2
<1>5. priorityWeights[h] \in Int
    BY WeightType
<1>6. d[h] - priorityWeights[h] \in Int
    BY <1>4, <1>5
<1> HIDE DEF d
<1>7. /\ Paid(c, {h})[h] = d[h] - priorityWeights[h]
      /\ \A j \in Levels \ {h} : Paid(c, {h})[j] = d[j]
      /\ Paid(c, {h}) \in [Levels -> Int]
    BY <1>2, <1>3, <1>4, <1>5, <1>6 DEF d
<1>8. Paid(c, {h})[h] = c[h]
    BY <1>2, <1>4, <1>5, <1>7 DEF d
<1> QED BY <1>1, <1>2, <1>7, <1>8 DEF d

\* With work at both, the one with more credit pays, the higher of equals.
LEMMA ChooseTwo ==
    ASSUME NEW h \in 1 .. 7, NEW k \in 1 .. 7, k < h, Levels = {h, k},
           NEW c \in [Levels -> Int]
    PROVE  LET ahead == c[h] - c[k] >= priorityWeights[k] - priorityWeights[h]
           IN  /\ Selected(c, {h, k}) = IF ahead THEN h ELSE k
               /\ Paid(c, {h, k}) \in [Levels -> Int]
               /\ Paid(c, {h, k})[h] = IF ahead THEN c[h] - priorityWeights[k]
                                                ELSE c[h] + priorityWeights[h]
               /\ Paid(c, {h, k})[k] = IF ahead THEN c[k] + priorityWeights[k]
                                                ELSE c[k] - priorityWeights[h]
<1> DEFINE A == {h, k}
           ahead == c[h] - c[k] >= priorityWeights[k] - priorityWeights[h]
           d == Charged(c, A)
<1>1. /\ d[h] = c[h] + priorityWeights[h]
      /\ d[k] = c[k] + priorityWeights[k]
      /\ d \in [Levels -> Int]
    BY WeightType DEF Charged
<1>2. /\ c[h] \in Int /\ c[k] \in Int
      /\ priorityWeights[h] \in Int /\ priorityWeights[k] \in Int
      /\ h # k
    BY WeightType
<1>3. Selected(c, A) = CHOOSE l \in A : \A j \in A :
          \/ d[j] < d[l]
          \/ d[j] = d[l] /\ j <= l
    BY DEF Selected
<1>4. Paid(c, A) = [d EXCEPT ![Selected(c, A)] =
                       @ - (priorityWeights[h] + priorityWeights[k])]
    BY <1>2, SumOfTwo DEF Paid
<1>5. Selected(c, A) = IF ahead THEN h ELSE k
  <2> DEFINE Best(l) == l \in A /\ \A j \in A : d[j] < d[l] \/ (d[j] = d[l] /\ j <= l)
  <2>1. Selected(c, A) = CHOOSE l : Best(l)
    BY <1>3
  <2>2. \A l : Best(l) => l = h \/ l = k
    OBVIOUS
  <2> HIDE DEF d
  <2>3. ahead <=> d[h] >= d[k]
    BY <1>1, <1>2
  <2>4. ahead => Best(h) /\ ~ Best(k)
    BY <1>1, <1>2, <2>3
  <2>5. ~ ahead => Best(k) /\ ~ Best(h)
    BY <1>1, <1>2, <2>3
  <2> HIDE DEF Best, ahead
  <2>6. Best(CHOOSE l : Best(l))
    BY <2>4, <2>5
  <2> QED BY <2>1, <2>2, <2>4, <2>5, <2>6
<1> HIDE DEF d, A
<1>6. CASE ahead
  <2>1. Paid(c, A) = [d EXCEPT ![h] = @ - (priorityWeights[h] + priorityWeights[k])]
    BY <1>4, <1>5, <1>6
  <2>2. /\ Paid(c, A)[h] = c[h] - priorityWeights[k]
        /\ Paid(c, A)[k] = c[k] + priorityWeights[k]
        /\ Paid(c, A) \in [Levels -> Int]
    BY <1>1, <1>2, <2>1
  <2> QED BY <1>5, <1>6, <2>2 DEF A
<1>7. CASE ~ ahead
  <2>1. Paid(c, A) = [d EXCEPT ![k] = @ - (priorityWeights[h] + priorityWeights[k])]
    BY <1>4, <1>5, <1>7
  <2>2. /\ Paid(c, A)[h] = c[h] + priorityWeights[h]
        /\ Paid(c, A)[k] = c[k] - priorityWeights[h]
        /\ Paid(c, A) \in [Levels -> Int]
    BY <1>1, <1>2, <2>1
  <2> QED BY <1>5, <1>7, <2>2 DEF A
<1> QED BY <1>6, <1>7

\* A wait that grows shorter leaves the balance.
LEMMA ShorterWaits ==
    ASSUME NEW h \in 1 .. 7, NEW k \in 1 .. 7, Levels = {h, k},
           NEW c \in [Levels -> Int], NEW s \in [Levels -> Nat],
           NEW s2 \in [Levels -> Nat],
           \A j \in Levels : s2[j] = s[j] \/ s2[j] = 0,
           Balanced(c, s, h, k)
    PROVE  Balanced(c, s2, h, k)
<1> DEFINE u == s[h] * priorityWeights[h]
           v == s[k] * priorityWeights[k]
           u2 == s2[h] * priorityWeights[h]
           v2 == s2[k] * priorityWeights[k]
<1>1. /\ c[h] \in Int /\ c[k] \in Int
      /\ priorityWeights[h] \in Nat /\ priorityWeights[k] \in Nat
      /\ s[h] \in Nat /\ s[k] \in Nat
    BY WeightType
<1>2. u \in Nat /\ v \in Nat
    BY <1>1
<1>3. (u2 = u \/ u2 = 0) /\ (v2 = v \/ v2 = 0)
    BY <1>1
<1>4. Weight(h, k) \in Int
    BY <1>1 DEF Weight
<1>5. /\ - Weight(h, k) <= c[h] + c[k]
      /\ c[h] + c[k] <= Weight(h, k)
      /\ 2 * u - Weight(h, k) <= c[h] - c[k]
      /\ c[h] - c[k] < Weight(h, k) - 2 * v
    BY DEF Balanced
<1> HIDE DEF u, v, u2, v2
<1>6. /\ 2 * u2 - Weight(h, k) <= c[h] - c[k]
      /\ c[h] - c[k] < Weight(h, k) - 2 * v2
    BY <1>1, <1>2, <1>3, <1>4, <1>5
<1> QED BY <1>5, <1>6 DEF Balanced, u2, v2

\* A taker that owes nothing is balanced.
LEMMA NothingOwed ==
    ASSUME NEW h \in 1 .. 7, NEW k \in 1 .. 7, Levels = {h, k},
           NEW c, c[h] = 0, c[k] = 0, NEW s, s[h] = 0, s[k] = 0
    PROVE  Balanced(c, s, h, k)
<1>1. priorityWeights[h] \in Nat \ {0} /\ priorityWeights[k] \in Nat \ {0}
    BY WeightType
<1>2. s[h] * priorityWeights[h] = 0 /\ s[k] * priorityWeights[k] = 0
    BY <1>1
<1> QED BY <1>1, <1>2 DEF Balanced, Weight

\* A choice keeps the balance: the level that is passed over gains at least its
\* weight twice on the other one for every wait, and the one that is served has
\* none left.
LEMMA ChoiceBalanced ==
    ASSUME NEW h \in 1 .. 7, NEW k \in 1 .. 7, k < h, Levels = {h, k},
           NEW c \in [Levels -> Int], NEW s \in [Levels -> Nat],
           Balanced(c, s, h, k),
           NEW A \in SUBSET Levels, NEW l \in A, l = Selected(c, A)
    PROVE  /\ Paid(c, A) \in [Levels -> Int]
           /\ Balanced(Paid(c, A), Waits(s, A, l), h, k)
<1> DEFINE c2 == Paid(c, A)
           s2 == Waits(s, A, l)
           wh == priorityWeights[h]
           wk == priorityWeights[k]
<1>1. /\ c[h] \in Int /\ c[k] \in Int
      /\ wh \in Nat \ {0} /\ wk \in Nat \ {0}
      /\ s[h] \in Nat /\ s[k] \in Nat
      /\ s[h] * wh \in Nat /\ s[k] * wk \in Nat
      /\ h # k
    BY WeightType
<1>2. /\ - (wh + wk) <= c[h] + c[k]
      /\ c[h] + c[k] <= wh + wk
      /\ 2 * (s[h] * wh) - (wh + wk) <= c[h] - c[k]
      /\ c[h] - c[k] < (wh + wk) - 2 * (s[k] * wk)
    BY DEF Balanced, Weight
<1>3. Balanced(c2, s2, h, k) <=>
         /\ - (wh + wk) <= c2[h] + c2[k]
         /\ c2[h] + c2[k] <= wh + wk
         /\ 2 * (s2[h] * wh) - (wh + wk) <= c2[h] - c2[k]
         /\ c2[h] - c2[k] < (wh + wk) - 2 * (s2[k] * wk)
    BY DEF Balanced, Weight
<1>4. A = {h, k} \/ A = {h} \/ A = {k}
    OBVIOUS
<1>5. /\ s2[h] = IF h \in A \ {l} THEN s[h] + 1 ELSE 0
      /\ s2[k] = IF k \in A \ {l} THEN s[k] + 1 ELSE 0
    BY DEF Waits
<1>6. /\ (s[h] + 1) * wh = s[h] * wh + wh
      /\ (s[k] + 1) * wk = s[k] * wk + wk
      /\ 0 * wh = 0 /\ 0 * wk = 0
    BY <1>1
<1> DEFINE ahead == c[h] - c[k] >= wk - wh
<1>7. A = {h, k} => /\ l = IF ahead THEN h ELSE k
                    /\ c2 \in [Levels -> Int]
                    /\ c2[h] = IF ahead THEN c[h] - wk ELSE c[h] + wh
                    /\ c2[k] = IF ahead THEN c[k] + wk ELSE c[k] - wh
  <2> SUFFICES ASSUME A = {h, k}
               PROVE  /\ l = IF ahead THEN h ELSE k
                      /\ c2 \in [Levels -> Int]
                      /\ c2[h] = IF ahead THEN c[h] - wk ELSE c[h] + wh
                      /\ c2[k] = IF ahead THEN c[k] + wk ELSE c[k] - wh
    OBVIOUS
  <2>1. LET a == c[h] - c[k] >= wk - wh
        IN  /\ Selected(c, {h, k}) = IF a THEN h ELSE k
            /\ Paid(c, {h, k}) \in [Levels -> Int]
            /\ Paid(c, {h, k})[h] = IF a THEN c[h] - wk ELSE c[h] + wh
            /\ Paid(c, {h, k})[k] = IF a THEN c[k] + wk ELSE c[k] - wh
    BY ChooseTwo
  <2>2. c2 = Paid(c, {h, k}) /\ l = Selected(c, {h, k})
    OBVIOUS
  <2> HIDE DEF c2, wh, wk
  <2> QED BY <2>1, <2>2
<1>8. \A j \in {h, k} : A = {j} => /\ l = j
                                   /\ c2 \in [Levels -> Int]
                                   /\ c2[j] = c[j]
                                   /\ \A i \in Levels \ {j} : c2[i] = 0
    BY ChooseOne
<1> DEFINE u == s[h] * wh
           v == s[k] * wk
           u2 == s2[h] * wh
           v2 == s2[k] * wk
<1> SUFFICES /\ c2 \in [Levels -> Int]
             /\ - (wh + wk) <= c2[h] + c2[k]
             /\ c2[h] + c2[k] <= wh + wk
             /\ 2 * u2 - (wh + wk) <= c2[h] - c2[k]
             /\ c2[h] - c2[k] < (wh + wk) - 2 * v2
    BY <1>3
<1> HIDE DEF c2, s2, wh, wk
<1>9. CASE A = {h, k} /\ ahead
  <2>1. l = h /\ c2[h] = c[h] - wk /\ c2[k] = c[k] + wk
    BY <1>7, <1>9
  <2>2. u2 = 0 /\ v2 = v + wk
    BY <1>1, <1>5, <1>6, <1>9, <2>1
  <2> HIDE DEF u, v, u2, v2
  <2>3. u \in Nat /\ v \in Nat
    BY <1>1 DEF u, v
  <2>4. /\ 2 * u - (wh + wk) <= c[h] - c[k]
        /\ c[h] - c[k] < (wh + wk) - 2 * v
    BY <1>2 DEF u, v
  <2> QED BY <1>1, <1>2, <1>7, <1>9, <2>1, <2>2, <2>3, <2>4
<1>10. CASE A = {h, k} /\ ~ ahead
  <2>1. l = k /\ c2[h] = c[h] + wh /\ c2[k] = c[k] - wh
    BY <1>7, <1>10
  <2>2. u2 = u + wh /\ v2 = 0
    BY <1>1, <1>5, <1>6, <1>10, <2>1
  <2> HIDE DEF u, v, u2, v2
  <2>3. u \in Nat /\ v \in Nat
    BY <1>1 DEF u, v
  <2>4. /\ 2 * u - (wh + wk) <= c[h] - c[k]
        /\ c[h] - c[k] < (wh + wk) - 2 * v
    BY <1>2 DEF u, v
  <2> QED BY <1>1, <1>2, <1>7, <1>10, <2>1, <2>2, <2>3, <2>4
<1>11. ASSUME NEW j \in {h, k}, A = {j}
       PROVE  u2 = 0 /\ v2 = 0
  <2>1. s2[h] = 0 /\ s2[k] = 0
    BY <1>5, <1>8, <1>11
  <2> QED BY <1>6, <2>1
<1>12. CASE A = {h}
  <2>1. c2[h] = c[h] /\ c2[k] = 0
    BY <1>1, <1>8, <1>12
  <2>2. u2 = 0 /\ v2 = 0
    BY <1>11, <1>12
  <2> HIDE DEF u, v, u2, v2
  <2>3. /\ 2 * u - (wh + wk) <= c[h] - c[k]
        /\ c[h] - c[k] < (wh + wk) - 2 * v
        /\ u \in Nat /\ v \in Nat
    BY <1>1, <1>2 DEF u, v
  <2> QED BY <1>1, <1>2, <1>8, <1>12, <2>1, <2>2, <2>3
<1>13. CASE A = {k}
  <2>1. c2[h] = 0 /\ c2[k] = c[k]
    BY <1>1, <1>8, <1>13
  <2>2. u2 = 0 /\ v2 = 0
    BY <1>11, <1>13
  <2> HIDE DEF u, v, u2, v2
  <2>3. /\ 2 * u - (wh + wk) <= c[h] - c[k]
        /\ c[h] - c[k] < (wh + wk) - 2 * v
        /\ u \in Nat /\ v \in Nat
    BY <1>1, <1>2 DEF u, v
  <2> QED BY <1>1, <1>2, <1>8, <1>13, <2>1, <2>2, <2>3
<1> QED BY <1>4, <1>9, <1>10, <1>12, <1>13

\* What a taker that is balanced lets a level wait.
LEMMA BalancedShare ==
    ASSUME NEW h \in 1 .. 7, NEW k \in 1 .. 7, Levels = {h, k},
           NEW c \in [Levels -> Int], NEW s \in [Levels -> Nat],
           Balanced(c, s, h, k)
    PROVE  \A l \in Levels : s[l] * priorityWeights[l] < Weight(h, k)
<1> DEFINE u == s[h] * priorityWeights[h]
           v == s[k] * priorityWeights[k]
           d == c[h] - c[k]
<1>1. u \in Nat /\ v \in Nat /\ Weight(h, k) \in Nat /\ d \in Int
    BY WeightType DEF Weight
<1>2. 2 * u - Weight(h, k) <= d /\ d < Weight(h, k) - 2 * v
    BY DEF Balanced
<1> HIDE DEF u, v, d
<1>3. u < Weight(h, k) /\ v < Weight(h, k)
    BY <1>1, <1>2
<1> QED BY <1>3 DEF u, v

\* A level that was passed over still has work.
Waiting == \A t \in Takers, l \in Levels : skipped[t][l] > 0 => l \in Active(t)

\* What every step keeps of the levels h > k.
Sharing(h, k) ==
    /\ credits \in [Takers -> [Levels -> Int]]
    /\ skipped \in [Takers -> [Levels -> Nat]]
    /\ Waiting
    /\ \A t \in Takers : Balanced(credits[t], skipped[t], h, k)

Two(h, k) == k < h /\ Levels = {h, k}
TwoLevels == \E h, k \in Levels : Two(h, k)
ShareInv == \A h, k \in Levels : Two(h, k) => Sharing(h, k)

\* Nobody owes anything at the start.
LEMMA InitShare == Init => ShareInv
<1> SUFFICES ASSUME Init, NEW h \in Levels, NEW k \in Levels, Two(h, k)
             PROVE  Sharing(h, k)
    BY DEF ShareInv
<1>1. \A t \in Takers : /\ credits[t][h] = 0 /\ credits[t][k] = 0
                        /\ skipped[t][h] = 0 /\ skipped[t][k] = 0
    BY DEF Init
<1>2. \A t \in Takers : Balanced(credits[t], skipped[t], h, k)
    BY <1>1, NothingOwed, LanesAssumption DEF Two
<1>3. Waiting
    BY DEF Init, Waiting
<1>4. credits \in [Takers -> [Levels -> Int]] /\ skipped \in [Takers -> [Levels -> Nat]]
    BY DEF Init
<1> QED BY <1>2, <1>3, <1>4 DEF Sharing

\* A level that is not served keeps its work.
LEMMA OthersKeepWork ==
    ASSUME IInv, NEW s \in Sets, NEW l \in Levels, TakeLane(s, l),
           NEW t \in Takers, NEW j \in Levels \ {l}, j \in Active(t)
    PROVE  j \in Active(t)'
<1>1. \A u \in Sets : lane'[u][j] = lane[u][j]
    BY DEF TakeLane, IInv, LaneTypes
<1>2. \A u \in Sets : Has(u, j) => Has(u, j)'
    BY <1>1 DEF Has
<1>3. Sources(t) \subseteq Sets
    BY DEF Sources, Sets
<1>4. PICK u \in Sources(t) : Has(u, j)
    BY DEF Active
<1>5. u \in Sources(t)' /\ Has(u, j)'
    BY <1>2, <1>3, <1>4 DEF Sources
<1> QED BY <1>5 DEF Active

\* A taker chooses a level: its own credits pay, the waits of the other one end
\* where the work does.
LEMMA TakeShares ==
    ASSUME IInv, NEW h \in Levels, NEW k \in Levels, Two(h, k), Sharing(h, k),
           NEW t \in Takers, NEW l \in Levels, Choose(t, l), Skip(t, l),
           NEW s \in Sets, TakeLane(s, l)
    PROVE  Sharing(h, k)'
<1> DEFINE A == Active(t)
<1>1. /\ h \in 1 .. 7 /\ k \in 1 .. 7
      /\ k < h /\ Levels = {h, k}
      /\ A \in SUBSET Levels
    BY LanesAssumption DEF Two, Active
<1>2. /\ credits \in [Takers -> [Levels -> Int]]
      /\ skipped \in [Takers -> [Levels -> Nat]]
      /\ \A u \in Takers : Balanced(credits[u], skipped[u], h, k)
    BY DEF Sharing
<1>3. l \in A /\ l = Selected(credits[t], A)
      /\ credits' = [credits EXCEPT ![t] = Paid(credits[t], A)]
    BY <1>2 DEF Choose
<1> HIDE DEF A
<1>4. /\ Paid(credits[t], A) \in [Levels -> Int]
      /\ Balanced(Paid(credits[t], A), Waits(skipped[t], A, l), h, k)
    BY <1>1, <1>2, <1>3, ChoiceBalanced
<1>5. credits' \in [Takers -> [Levels -> Int]]
    BY <1>2, <1>3, <1>4
<1>6. /\ skipped'[t] = Waits(skipped[t], A, l)
      /\ skipped' \in [Takers -> [Levels -> Nat]]
      /\ \A u \in Takers \ {t}, j \in Levels :
            skipped'[u][j] = IF j \in Active(u)' THEN skipped[u][j] ELSE 0
    BY <1>2 DEF Skip, Waits, A
<1>7. Waiting'
  <2> SUFFICES ASSUME NEW u \in Takers, NEW j \in Levels, skipped'[u][j] > 0
               PROVE  j \in Active(u)'
    BY DEF Waiting
  <2>1. CASE u = t
    <3>1. j \in Active(t) \ {l}
      BY <1>6, <2>1 DEF Waits, A
    <3> QED BY <2>1, <3>1, OthersKeepWork
  <2>2. CASE u # t
    BY <1>6, <2>2
  <2> QED BY <2>1, <2>2
<1>8. ASSUME NEW u \in Takers
      PROVE  Balanced(credits'[u], skipped'[u], h, k)
  <2>1. CASE u = t
    BY <1>2, <1>3, <1>4, <1>6, <2>1
  <2>2. CASE u # t
    <3>1. credits'[u] = credits[u] /\ credits[u] \in [Levels -> Int]
      BY <1>2, <1>3, <2>2
    <3>2. \A j \in Levels : skipped'[u][j] = skipped[u][j] \/ skipped'[u][j] = 0
      BY <1>6, <2>2
    <3>3. skipped[u] \in [Levels -> Nat] /\ skipped'[u] \in [Levels -> Nat]
      BY <1>2, <1>6
    <3> QED BY <1>1, <1>2, <3>1, <3>2, <3>3, ShorterWaits
  <2> QED BY <2>1, <2>2
<1> QED BY <1>5, <1>6, <1>7, <1>8 DEF Sharing

\* An entry more, at a level that has work or gets it.
LEMMA EnqueueShares ==
    ASSUME IInv, NEW h \in Levels, NEW k \in Levels, Two(h, k), Sharing(h, k),
           NEW s \in Sets, NEW l \in Levels, NEW r \in Roles, Enqueue(s, l, r)
    PROVE  Sharing(h, k)'
<1>1. UNCHANGED <<credits, skipped>>
    BY DEF Enqueue
<1>2. ASSUME NEW t \in Takers, NEW j \in Levels, j \in Active(t)
      PROVE  j \in Active(t)'
  <2>1. PICK u \in Sources(t) : Has(u, j)
    BY <1>2 DEF Active
  <2>2. u \in Sets /\ u \in Sources(t)'
    BY DEF Sources, Sets
  <2>3. PICK x \in Roles : lane[u][j][x] > 0
    BY <2>1 DEF Has
  <2>4. lane'[u][j][x] >= lane[u][j][x]
    <3> DEFINE f2 == [lane[s][l] EXCEPT ![r] = @ + 1]
    <3>1. /\ lane \in [Sets -> [Levels -> [Roles -> Nat]]]
          /\ lane[u][j] \in [Roles -> Nat] /\ lane[s][l] \in [Roles -> Nat]
      <4>1. lane \in [Sets -> [Levels -> [Roles -> Nat]]]
        BY DEF IInv, LaneTypes
      <4>2. lane[u] \in [Levels -> [Roles -> Nat]] /\ lane[s] \in [Levels -> [Roles -> Nat]]
        BY <2>2, <4>1
      <4> QED BY <4>1, <4>2
    <3>2. f2[x] >= lane[s][l][x] /\ lane[u][j][x] \in Nat
      BY <3>1
    <3> HIDE DEF f2
    <3>3. lane' = [lane EXCEPT ![s] = [@ EXCEPT ![l] = f2]]
      BY <3>1 DEF Enqueue, f2
    <3>4. CASE u = s /\ j = l
      <4>1. lane'[u][j] = f2
        BY <3>1, <3>3, <3>4
      <4> QED BY <3>2, <3>4, <4>1
    <3>5. CASE ~ (u = s /\ j = l)
      <4>1. lane'[u][j] = lane[u][j]
        BY <2>2, <3>1, <3>3, <3>5
      <4> QED BY <3>2, <4>1
    <3> QED BY <3>4, <3>5
  <2>5. lane[u][j][x] \in Nat
    BY <2>2 DEF IInv, LaneTypes
  <2>6. lane'[u][j][x] > 0
    <3>1. lane' \in [Sets -> [Levels -> [Roles -> Nat]]]
      BY EnqueueKeeps DEF IInv, LaneTypes
    <3>2. lane'[u][j][x] \in Nat
      BY <2>2, <3>1
    <3> QED BY <2>3, <2>4, <2>5, <3>2
  <2> QED BY <2>2, <2>6 DEF Active, Has
<1>3. Waiting'
    BY <1>1, <1>2 DEF Sharing, Waiting
<1> QED BY <1>1, <1>3 DEF Sharing

\* A choice without any work: nobody waits, so nothing is owed either.
LEMMA NoneShares ==
    ASSUME NEW h \in Levels, NEW k \in Levels, Two(h, k), Sharing(h, k),
           NEW t \in Takers, TakeNone(t)
    PROVE  Sharing(h, k)'
<1>1. /\ credits \in [Takers -> [Levels -> Int]]
      /\ skipped \in [Takers -> [Levels -> Nat]]
      /\ \A u \in Takers : Balanced(credits[u], skipped[u], h, k)
    BY DEF Sharing
<1>2. /\ skipped' = skipped
      /\ credits' = [credits EXCEPT ![t] = Charged(@, {})]
      /\ UNCHANGED lane
    BY DEF TakeNone
<1>3. Charged(credits[t], {}) = [l \in Levels |-> 0]
    BY DEF Charged
<1>4. skipped[t][h] = 0 /\ skipped[t][k] = 0
    BY <1>1 DEF Sharing, Waiting, TakeNone
<1>5. credits' \in [Takers -> [Levels -> Int]]
    BY <1>1, <1>2, <1>3
<1>6. ASSUME NEW u \in Takers
      PROVE  Balanced(credits'[u], skipped'[u], h, k)
  <2>1. CASE u = t
    <3>1. credits'[t][h] = 0 /\ credits'[t][k] = 0
      BY <1>1, <1>2, <1>3
    <3> QED BY <1>2, <1>4, <2>1, <3>1, NothingOwed, LanesAssumption DEF Two
  <2>2. CASE u # t
    BY <1>1, <1>2, <2>2
  <2> QED BY <2>1, <2>2
<1>7. Waiting'
    BY <1>2 DEF Sharing, Waiting, Active, Has, Sources, Sets
<1> QED BY <1>1, <1>2, <1>5, <1>6, <1>7 DEF Sharing

\* Every step keeps the shares.
LEMMA NextShare == IInv /\ ShareInv /\ [Next]_vars => ShareInv'
<1> SUFFICES ASSUME IInv, ShareInv, [Next]_vars,
                    NEW h \in Levels, NEW k \in Levels, Two(h, k)
             PROVE  Sharing(h, k)'
    BY DEF ShareInv, Two
<1>1. Sharing(h, k)
    BY DEF ShareInv
<1>2. CASE \E s \in Sets, l \in Levels, r \in Roles : Enqueue(s, l, r)
    BY <1>1, <1>2, EnqueueShares
<1>3. CASE TakeLocal
  <2>1. PICK l \in Levels : /\ Choose("owner", l)
                            /\ TakeLane(Source(l), l)
                            /\ Skip("owner", l)
    BY <1>3 DEF TakeLocal
  <2>2. Source(l) \in Sets /\ "owner" \in Takers
    BY DEF Source, Sets, Takers
  <2> QED BY <1>1, <2>1, <2>2, TakeShares
<1>4. CASE TakeStealable
  <2>1. PICK l \in Levels : /\ Choose("thief", l)
                            /\ TakeLane("ready", l)
                            /\ Skip("thief", l)
    BY <1>4 DEF TakeStealable
  <2>2. "ready" \in Sets /\ "thief" \in Takers
    BY DEF Sets, Takers
  <2> QED BY <1>1, <2>1, <2>2, TakeShares
<1>5. CASE \E t \in Takers : TakeNone(t)
    BY <1>1, <1>5, NoneShares
<1>6. CASE UNCHANGED vars
  <2>1. UNCHANGED <<lane, credits, skipped>>
    BY <1>6 DEF vars
  <2>2. Waiting'
    BY <1>1, <2>1 DEF Sharing, Waiting, Active, Has, Sources, Sets
  <2> QED BY <1>1, <2>1, <2>2 DEF Sharing
<1> QED BY <1>2, <1>3, <1>4, <1>5, <1>6 DEF Next

\* The shares are what ShareKept says.
LEMMA ShareOfTwo == ShareInv => (TwoLevels => ShareKept)
<1> SUFFICES ASSUME ShareInv, NEW h \in Levels, NEW k \in Levels, Two(h, k)
             PROVE  ShareKept
    BY DEF TwoLevels
<1>1. /\ h \in 1 .. 7 /\ k \in 1 .. 7 /\ h # k
      /\ Levels = {h, k}
    BY LanesAssumption DEF Two
<1>2. MapThenSumSet(LAMBDA j : priorityWeights[j], Levels) = Weight(h, k)
    BY <1>1, SumOfTwo DEF Weight
<1>3. Sharing(h, k)
    BY DEF ShareInv
<1>4. \A t \in Takers, l \in Levels :
          skipped[t][l] * priorityWeights[l] < Weight(h, k)
    BY <1>1, <1>3, BalancedShare DEF Sharing
<1> QED BY <1>2, <1>4 DEF ShareKept

\* ShareKept, for any two levels, roles and bound: ChoosePriorityLocked serves a
\* level that has work all the time at least once in every W / w choices of a
\* taker, whatever is queued meanwhile.
THEOREM TwoLevelsShare == Spec => [](TwoLevels => ShareKept)
<1>1. Init => IInv /\ ShareInv
    BY InitIInv, InitShare
<1>2. (IInv /\ ShareInv) /\ [Next]_vars => (IInv /\ ShareInv)'
    BY NextIInv, NextShare
<1>3. (IInv /\ ShareInv) => (TwoLevels => ShareKept)
    BY ShareOfTwo
<1> QED BY <1>1, <1>2, <1>3, PTL DEF Spec
=============================================================================
