------------------------- MODULE PinnedPools_proofs -------------------------
(***************************************************************************)
(* The pools of pinned memory keep their budget: for every budget, every   *)
(* set of names and sizes and every number of reservations.                *)
(***************************************************************************)
EXTENDS PinnedPools, FiniteSetTheorems, WellFoundedInduction, TLAPS

-----------------------------------------------------------------------------
(***************************************************************************)
(* SumFunction adds the values of a function, one member of its domain     *)
(* after the other in an order nobody knows.  What the pools need of it is *)
(* that the order does not matter: any member can be taken out first.      *)
(***************************************************************************)

\* The member the sum takes out of a set.
Pick(s) == CHOOSE x \in s : TRUE

\* A holds the sum of f over every subset of S.
Sums(A, f, S) ==
    A = [s \in SUBSET S |-> IF s = {} THEN 0 ELSE f[Pick(s)] + A[s \ {Pick(s)}]]

\* A non-empty set of naturals has a least element.
LEMMA LeastNatural ==
    ASSUME NEW I \in SUBSET Nat, I # {}
    PROVE  \E m \in I : \A i \in I : m <= i
<1>1. \E m \in I : \A i \in I : ~ (<<i, m>> \in OpToRel(<, Nat))
  BY NatLessThanWellFounded, WFMin
<1>2. PICK m \in I : \A i \in I : ~ (i < m)
  BY <1>1 DEF OpToRel
<1>. QED  BY <1>2

\* A non-empty set of finite sets has one none of whose proper subsets is in it.
LEMMA SmallestSet ==
    ASSUME NEW S, IsFiniteSet(S), NEW B \in SUBSET (SUBSET S), B # {}
    PROVE  \E t \in B : \A u \in B : ~ (u \subseteq t /\ u # t)
<1>1. B \subseteq FiniteSubsetsOf(S)
  BY FS_Subset DEF FiniteSubsetsOf
<1>2. PICK t \in B : \A u \in B : ~ (<<u, t>> \in StrictSubsetOrdering(S))
  BY <1>1, FS_StrictSubsetOrderingWellFounded, WFMin
<1>3. ASSUME NEW u \in B, u \subseteq t, u # t
      PROVE  FALSE
  BY <1>1, <1>2, <1>3 DEF StrictSubsetOrdering, FiniteSubsetsOf
<1>. QED  BY <1>3

LEMMA PickIsIn ==
    ASSUME NEW s, s # {}
    PROVE  Pick(s) \in s
BY DEF Pick

\* The subsets of S with at most n members.
UpTo(S, n) == {s \in SUBSET S : Cardinality(s) <= n}

\* The equation of Sums, on the subsets with at most n members.
SumsUpTo(A, f, S, n) ==
    A = [s \in UpTo(S, n) |-> IF s = {} THEN 0 ELSE f[Pick(s)] + A[s \ {Pick(s)}]]

\* The recursive definition behind SumFunction has a solution.
LEMMA SumsExist ==
    ASSUME NEW S, IsFiniteSet(S), NEW f
    PROVE  \E A : Sums(A, f, S)
<1>. DEFINE Bad == {n \in Nat : ~ \E A : SumsUpTo(A, f, S, n)}
<1>1. Bad = {}
  <2>1. SUFFICES ASSUME Bad # {}
                 PROVE  FALSE
    OBVIOUS
  <2>2. PICK n \in Bad : \A i \in Bad : n <= i
    BY <2>1, LeastNatural
  <2>3. CASE n = 0
    <3>1. \A s \in UpTo(S, 0) : s = {}
      BY FS_Subset, FS_EmptySet, FS_CardinalityType DEF UpTo
    <3>2. SumsUpTo([s \in UpTo(S, 0) |-> 0], f, S, 0)
      BY <3>1 DEF SumsUpTo
    <3>. QED  BY <2>2, <2>3, <3>2
  <2>4. CASE n # 0
    <3>1. n - 1 \in Nat /\ n - 1 \notin Bad
      BY <2>2, <2>4
    <3>2. PICK A : SumsUpTo(A, f, S, n - 1)
      BY <3>1
    <3>. DEFINE B == [s \in UpTo(S, n) |-> IF s = {} THEN 0
                                           ELSE f[Pick(s)] + A[s \ {Pick(s)}]]
    <3>3. ASSUME NEW s \in UpTo(S, n), s # {}
          PROVE  s \ {Pick(s)} \in UpTo(S, n - 1)
      <4>1. s \in SUBSET S /\ IsFiniteSet(s) /\ Cardinality(s) <= n
        BY FS_Subset DEF UpTo
      <4>2. Cardinality(s \ {Pick(s)}) = Cardinality(s) - 1
        BY <3>3, <4>1, PickIsIn, FS_RemoveElement
      <4>3. Cardinality(s) \in Nat
        BY <4>1, FS_CardinalityType
      <4>. QED  BY <2>2, <4>1, <4>2, <4>3 DEF UpTo
    <3>4. ASSUME NEW s \in UpTo(S, n - 1)
          PROVE  s \in UpTo(S, n) /\ B[s] = A[s]
      <4>1. s \in UpTo(S, n)
        <5>1. Cardinality(s) \in Nat
          BY FS_Subset, FS_CardinalityType DEF UpTo
        <5>. QED  BY <2>2, <5>1 DEF UpTo
      <4>. QED  BY <3>2, <4>1 DEF SumsUpTo
    <3>5. \A s \in UpTo(S, n) : s # {} => B[s \ {Pick(s)}] = A[s \ {Pick(s)}]
      BY <3>3, <3>4
    <3>6. SumsUpTo(B, f, S, n)
      BY <3>5, Zenon DEF SumsUpTo
    <3>. QED  BY <2>2, <3>6
  <2>. QED  BY <2>3, <2>4
<1>2. PICK A : SumsUpTo(A, f, S, Cardinality(S))
  BY <1>1, FS_CardinalityType
<1>3. UpTo(S, Cardinality(S)) = SUBSET S
  BY FS_Subset DEF UpTo
<1>. QED  BY <1>2, <1>3 DEF Sums, SumsUpTo

\* SumFunction is the solution at the whole domain.
LEMMA SumFunctionIsSums ==
    ASSUME NEW f, IsFiniteSet(DOMAIN f)
    PROVE  \E A : Sums(A, f, DOMAIN f) /\ SumFunction(f) = A[DOMAIN f]
<1>1. PICK B : Sums(B, f, DOMAIN f)
  BY SumsExist
<1>. DEFINE sums == CHOOSE A : Sums(A, f, DOMAIN f)
<1>2. Sums(sums, f, DOMAIN f)
  BY <1>1
<1>3. SumFunction(f) = sums[DOMAIN f]
  BY DEF SumFunction, SumFunctionOnSet, FoldFunctionOnSet, MapThenFoldSet, Sums, Pick
<1>. QED  BY <1>2, <1>3

\* What the equation says of one subset.
LEMMA SumsAt ==
    ASSUME NEW S, NEW f, NEW A, Sums(A, f, S), NEW s \in SUBSET S
    PROVE  /\ s = {} => A[s] = 0
           /\ s # {} => A[s] = f[Pick(s)] + A[s \ {Pick(s)}]
BY DEF Sums

\* Naturals add up to a natural.
LEMMA SumsAreNatural ==
    ASSUME NEW S, IsFiniteSet(S), NEW f, \A x \in S : f[x] \in Nat,
           NEW A, Sums(A, f, S), NEW s \in SUBSET S
    PROVE  A[s] \in Nat
<1>0. \A u \in SUBSET S : /\ u = {} => A[u] = 0
                          /\ u # {} => A[u] = f[Pick(u)] + A[u \ {Pick(u)}]
  BY SumsAt
<1>. DEFINE Bad == {t \in SUBSET S : A[t] \notin Nat}
<1>1. SUFFICES ASSUME Bad # {}
               PROVE  FALSE
  OBVIOUS
<1>2. PICK t \in Bad : \A u \in Bad : ~ (u \subseteq t /\ u # t)
  <2>1. Bad \in SUBSET (SUBSET S)
    OBVIOUS
  <2>. HIDE DEF Bad
  <2>. QED  BY <1>1, <2>1, SmallestSet
<1>3. t # {} /\ A[t] = f[Pick(t)] + A[t \ {Pick(t)}]
  <2>1. t \in SUBSET S /\ A[t] \notin Nat
    OBVIOUS
  <2>. HIDE DEF Bad
  <2>2. ASSUME t = {} PROVE FALSE
    <3>1. A[t] = 0
      BY <1>0, <2>1, <2>2
    <3>2. A[t] \in Nat
      BY <3>1
    <3>. QED  BY <2>1, <3>2
  <2>. QED  BY <1>0, <2>1, <2>2
<1>4. Pick(t) \in t /\ t \ {Pick(t)} \in SUBSET S
  BY <1>3, PickIsIn
<1>5. A[t \ {Pick(t)}] \in Nat /\ f[Pick(t)] \in Nat
  BY <1>2, <1>4
<1>. QED  BY <1>2, <1>3, <1>5

\* Any member may be taken out first.
LEMMA SumsInAnyOrder ==
    ASSUME NEW S, IsFiniteSet(S), NEW f, \A x \in S : f[x] \in Nat,
           NEW A, Sums(A, f, S), NEW s \in SUBSET S, NEW x \in s
    PROVE  A[s] = f[x] + A[s \ {x}]
<1>. DEFINE Bad == {t \in SUBSET S : \E y \in t : A[t] # f[y] + A[t \ {y}]}
<1>1. SUFFICES ASSUME Bad # {}
               PROVE  FALSE
  OBVIOUS
<1>2. PICK t \in Bad : \A u \in Bad : ~ (u \subseteq t /\ u # t)
  <2>1. Bad \in SUBSET (SUBSET S)
    OBVIOUS
  <2>. HIDE DEF Bad
  <2>. QED  BY <1>1, <2>1, SmallestSet
<1>3. PICK y \in t : A[t] # f[y] + A[t \ {y}]
  BY <1>2
<1>. DEFINE p == Pick(t)
<1>4. p \in t /\ A[t] = f[p] + A[t \ {p}]
  BY <1>2, SumsAt, PickIsIn
<1>5. y # p
  BY <1>3, <1>4
<1>. HIDE DEF p
<1>6. A[t \ {p}] = f[y] + A[(t \ {p}) \ {y}]
  <2>1. t \ {p} \in SUBSET S /\ t \ {p} \subseteq t /\ t \ {p} # t /\ y \in t \ {p}
    BY <1>4, <1>5
  <2>. QED  BY <1>2, <2>1
<1>7. A[t \ {y}] = f[p] + A[(t \ {y}) \ {p}]
  <2>1. t \ {y} \in SUBSET S /\ t \ {y} \subseteq t /\ t \ {y} # t /\ p \in t \ {y}
    BY <1>4, <1>5
  <2>. QED  BY <1>2, <2>1
<1>8. A[(t \ {p}) \ {y}] = A[(t \ {y}) \ {p}]
  <2>1. (t \ {p}) \ {y} = (t \ {y}) \ {p}
    OBVIOUS
  <2>. QED  BY <2>1
<1>9. f[p] \in Nat /\ f[y] \in Nat /\ A[(t \ {y}) \ {p}] \in Nat
  BY <1>4, SumsAreNatural
<1>. QED  BY <1>3, <1>4, <1>6, <1>7, <1>8, <1>9

\* A sum looks at the function on its own set only.
LEMMA SumsAgree ==
    ASSUME NEW S, NEW T, IsFiniteSet(S), S \subseteq T, NEW f, NEW g,
           \A x \in S : f[x] = g[x],
           NEW A, Sums(A, f, S), NEW B, Sums(B, g, T)
    PROVE  A[S] = B[S]
<1>. DEFINE Bad == {t \in SUBSET S : A[t] # B[t]}
<1>1. SUFFICES ASSUME Bad # {}
               PROVE  FALSE
  OBVIOUS
<1>2. PICK t \in Bad : \A u \in Bad : ~ (u \subseteq t /\ u # t)
  <2>1. Bad \in SUBSET (SUBSET S)
    OBVIOUS
  <2>. HIDE DEF Bad
  <2>. QED  BY <1>1, <2>1, SmallestSet
<1>3. t \in SUBSET S /\ t \in SUBSET T
  BY <1>2
<1>4. /\ t = {} => A[t] = 0
      /\ t # {} => A[t] = f[Pick(t)] + A[t \ {Pick(t)}]
  BY <1>3, SumsAt
<1>5. /\ t = {} => B[t] = 0
      /\ t # {} => B[t] = g[Pick(t)] + B[t \ {Pick(t)}]
  BY <1>3, SumsAt
<1>6. t # {}
  BY <1>4, <1>5
<1>7. Pick(t) \in t /\ t \ {Pick(t)} \in SUBSET S
  BY <1>2, <1>6, PickIsIn
<1>8. A[t \ {Pick(t)}] = B[t \ {Pick(t)}]
  BY <1>2, <1>7
<1>. QED  BY <1>3, <1>4, <1>5, <1>6, <1>7, <1>8

LEMMA SumIsNatural ==
    ASSUME NEW f, IsFiniteSet(DOMAIN f), \A x \in DOMAIN f : f[x] \in Nat
    PROVE  SumFunction(f) \in Nat
BY SumFunctionIsSums, SumsAreNatural

LEMMA SumOfNothing ==
    ASSUME NEW f, DOMAIN f = {}
    PROVE  SumFunction(f) = 0
BY SumFunctionIsSums, SumsAt, FS_EmptySet

\* A function is one of its values and the rest of it.
LEMMA SumSplits ==
    ASSUME NEW f, IsFiniteSet(DOMAIN f), \A y \in DOMAIN f : f[y] \in Nat,
           NEW x \in DOMAIN f,
           NEW g, DOMAIN g = DOMAIN f \ {x}, \A y \in DOMAIN g : g[y] = f[y]
    PROVE  SumFunction(f) = f[x] + SumFunction(g)
<1>1. PICK A : Sums(A, f, DOMAIN f) /\ SumFunction(f) = A[DOMAIN f]
  BY SumFunctionIsSums
<1>2. IsFiniteSet(DOMAIN g) /\ DOMAIN g \subseteq DOMAIN f
  BY FS_RemoveElement
<1>3. PICK B : Sums(B, g, DOMAIN g) /\ SumFunction(g) = B[DOMAIN g]
  BY <1>2, SumFunctionIsSums
<1>4. A[DOMAIN f] = f[x] + A[DOMAIN f \ {x}]
  BY <1>1, SumsInAnyOrder
<1>5. B[DOMAIN g] = A[DOMAIN g]
  BY <1>1, <1>2, <1>3, SumsAgree
<1>. QED  BY <1>1, <1>3, <1>4, <1>5

-----------------------------------------------------------------------------
(***************************************************************************)
(* The budget.                                                             *)
(***************************************************************************)

\* As many whole slots as a number of bytes holds.
LEMMA WholeSlots ==
    ASSUME NEW n \in Nat, NEW bytes \in Nat, NEW size \in Nat \ {0},
           n * size <= bytes
    PROVE  n \in 0 .. bytes \div size
<1>. DEFINE q == bytes \div size
<1>1. q \in Nat /\ bytes < (q + 1) * size
  OBVIOUS
<1>2. n >= q + 1 => n * size >= (q + 1) * size
  BY <1>1
<1>. QED  BY <1>1, <1>2

\* What a pool holds has a domain that is finite and natural sizes.
LEMMA ReservationFacts ==
    ASSUME NEW r \in Reservations
    PROVE  /\ DOMAIN r \subseteq Name
           /\ IsFiniteSet(DOMAIN r)
           /\ \A name \in DOMAIN r : r[name] \in Size /\ r[name] \in Nat
           /\ SumFunction(r) \in Nat
<1>1. PICK names \in SUBSET Name : r \in [names -> Size]
  BY DEF Reservations
<1>2. /\ DOMAIN r \subseteq Name
      /\ IsFiniteSet(DOMAIN r)
      /\ \A name \in DOMAIN r : r[name] \in Size /\ r[name] \in Nat
  BY <1>1, PoolsAssumption, FS_Subset
<1>. QED  BY <1>2, SumIsNatural

\* The counter stays within the budget and the pools hold sizes by name.
BudgetWithin == used \in 0 .. Budget

BudgetTyped == BudgetWithin /\ held \in [Pool -> Reservations]

\* The inductive invariant: the counter is within the budget and it is what
\* the four pools hold.  The bound on the number of slots follows.
BudgetInv ==
    /\ BudgetTyped
    /\ created \in Nat
    /\ Accounted

\* What the three pools with names hold together, as Accounted adds it up.
Together(h) ==
    SumFunction(h["staging"]) + SumFunction(h["staging_pool"])
        + SumFunction(h["expert_staging"])

LEMMA HeldTogether ==
    ASSUME NEW h \in [Pool -> Reservations], NEW p \in Pool,
           NEW r \in Reservations
    PROVE  /\ Together(h) \in Nat
           /\ SumFunction(h[p]) <= Together(h)
           /\ Together([h EXCEPT ![p] = r])
                  = Together(h) - SumFunction(h[p]) + SumFunction(r)
<1>1. \A q \in Pool : SumFunction(h[q]) \in Nat
  BY ReservationFacts
<1>2. SumFunction(r) \in Nat
  BY ReservationFacts
<1>. QED  BY <1>1, <1>2 DEF Pool, Together

-----------------------------------------------------------------------------
\* One name more.
LEMMA TakeHolds ==
    ASSUME NEW p \in Pool, NEW name \in Name, NEW bytes \in Size,
           held \in [Pool -> Reservations], name \notin DOMAIN held[p],
           held' = [held EXCEPT ![p] =
                      [n \in DOMAIN @ \cup {name} |-> IF n = name THEN bytes ELSE @[n]]]
    PROVE  /\ held' \in [Pool -> Reservations]
           /\ held'[p] \in Reservations
           /\ SumFunction(held'[p]) = SumFunction(held[p]) + bytes
<1>. DEFINE r == held[p]
            more == [n \in DOMAIN r \cup {name} |-> IF n = name THEN bytes ELSE r[n]]
<1>1. /\ DOMAIN more = DOMAIN r \cup {name}
      /\ more[name] = bytes
      /\ \A n \in DOMAIN r : more[n] = r[n]
      /\ held'[p] = more
  OBVIOUS
<1>2. more \in Reservations
  <2>1. DOMAIN r \subseteq Name /\ \A n \in DOMAIN r : r[n] \in Size
    BY ReservationFacts
  <2>2. \A n \in DOMAIN r \cup {name} : more[n] \in Size
    BY <1>1, <2>1
  <2>3. more \in [DOMAIN r \cup {name} -> Size]
    BY <1>1, <2>2
  <2>. QED  BY <2>1, <2>3 DEF Reservations
<1>3. SumFunction(more) = bytes + SumFunction(r)
  <2>1. DOMAIN r = DOMAIN more \ {name}
    BY <1>1
  <2>2. IsFiniteSet(DOMAIN more) /\ \A n \in DOMAIN more : more[n] \in Nat
    BY <1>2, ReservationFacts
  <2>3. name \in DOMAIN more /\ \A n \in DOMAIN r : r[n] = more[n]
    BY <1>1
  <2>. HIDE DEF more, r
  <2>4. SumFunction(more) = more[name] + SumFunction(r)
    BY <2>1, <2>2, <2>3, SumSplits
  <2>. QED  BY <1>1, <2>4
<1>4. SumFunction(r) \in Nat /\ bytes \in Nat
  BY PoolsAssumption, ReservationFacts
<1>. QED  BY <1>2, <1>3, <1>4

\* One name less.
LEMMA GiveBackHolds ==
    ASSUME NEW p \in Pool, NEW name \in DOMAIN held[p],
           held \in [Pool -> Reservations],
           held' = [held EXCEPT ![p] = Restrict(@, DOMAIN @ \ {name})]
    PROVE  /\ held' \in [Pool -> Reservations]
           /\ held'[p] \in Reservations
           /\ SumFunction(held[p]) = held[p][name] + SumFunction(held'[p])
<1>. DEFINE r == held[p]
            rest == Restrict(r, DOMAIN r \ {name})
<1>1. rest = [n \in DOMAIN r \ {name} |-> r[n]]
  BY DEF Restrict
<1>2. rest \in Reservations
  <2>1. DOMAIN r \subseteq Name /\ \A n \in DOMAIN r : r[n] \in Size
    BY ReservationFacts
  <2>2. rest \in [DOMAIN r \ {name} -> Size]
    BY <1>1, <2>1
  <2>. QED  BY <2>1, <2>2 DEF Reservations
<1>3. SumFunction(r) = r[name] + SumFunction(rest)
  <2>1. IsFiniteSet(DOMAIN r) /\ \A n \in DOMAIN r : r[n] \in Nat
    BY ReservationFacts
  <2>2. DOMAIN rest = DOMAIN r \ {name} /\ \A n \in DOMAIN rest : rest[n] = r[n]
    BY <1>1
  <2>. HIDE DEF rest, r
  <2>3. name \in DOMAIN r
    BY DEF r
  <2>. QED  BY <2>1, <2>2, <2>3, SumSplits
<1>4. held'[p] = rest
  OBVIOUS
<1>. QED  BY <1>2, <1>3, <1>4

-----------------------------------------------------------------------------
\* Nothing the pools do takes the counter outside the budget, not even a
\* destroy while others hold reservations.
THEOREM BudgetNeverOverrun == PoolsSpec => [](used \in 0 .. Budget)
<1>1. PoolsInit => BudgetTyped
  <2>. SUFFICES ASSUME PoolsInit
                PROVE  BudgetTyped
    OBVIOUS
  <2>1. << >> \in Reservations
    <3>1. << >> \in [{} -> Size]
      OBVIOUS
    <3>. QED  BY <3>1 DEF Reservations
  <2>. QED  BY <2>1, PoolsAssumption DEF PoolsInit, BudgetTyped, BudgetWithin
<1>2. BudgetTyped /\ [PoolsNext]_poolVars => BudgetTyped'
  <2>. SUFFICES ASSUME BudgetTyped, [PoolsNext]_poolVars
                PROVE  BudgetTyped'
    OBVIOUS
  <2>. USE PoolsAssumption DEF BudgetTyped, BudgetWithin, CanReserve, Released
  <2>1. CASE \E p \in Pool, name \in Name, bytes \in Size : Take(p, name, bytes)
    BY <2>1, TakeHolds DEF Take
  <2>2. CASE \E name \in Name, bytes \in Size : PinFails(name, bytes)
    BY <2>2 DEF PinFails
  <2>3. CASE \E p \in Pool, name \in Name : GiveBack(p, name)
    <3>1. PICK p \in Pool, name \in Name : GiveBack(p, name) /\ name \in DOMAIN held[p]
      BY <2>3 DEF GiveBack
    <3>2. held[p][name] \in Nat
      BY <3>1, ReservationFacts
    <3>3. held' \in [Pool -> Reservations]
      BY <3>1, GiveBackHolds DEF GiveBack
    <3>. QED  BY <3>1, <3>2, <3>3 DEF GiveBack
  <2>4. CASE CreateSlot
    BY <2>4 DEF CreateSlot
  <2>5. CASE Destroy
    BY <2>5 DEF Destroy
  <2>6. CASE UNCHANGED poolVars
    BY <2>6 DEF poolVars
  <2>. QED  BY <2>1, <2>2, <2>3, <2>4, <2>5, <2>6 DEF PoolsNext
<1>3. BudgetTyped => used \in 0 .. Budget
  BY DEF BudgetTyped, BudgetWithin
<1>. QED  BY <1>1, <1>2, <1>3, PTL DEF PoolsSpec

LEMMA InitIsAccounted ==
    ASSUME PoolsInit
    PROVE  BudgetInv
<1>1. << >> \in Reservations
  <2>1. << >> \in [{} -> Size]
    OBVIOUS
  <2>. QED  BY <2>1 DEF Reservations
<1>2. \A p \in Pool : HeldBy(p) = 0
  BY SumOfNothing DEF HeldBy, PoolsInit
<1>3. created * SlotSize = 0
  BY PoolsAssumption DEF PoolsInit
<1>. QED  BY <1>1, <1>2, <1>3, PoolsAssumption
          DEF BudgetInv, BudgetTyped, BudgetWithin, PoolsInit, Accounted, Pool

\* A step of clients that destroy the reusable pool last keeps the books.
LEMMA StepIsAccounted ==
    ASSUME DestroyAlone, BudgetInv, [PoolsNext]_poolVars
    PROVE  BudgetInv'
<1>0. /\ used = Together(held) + created * SlotSize
      /\ Accounted' <=> used' = Together(held') + created' * SlotSize
  BY DEF BudgetInv, Accounted, HeldBy, Together
<1>1. /\ held \in [Pool -> Reservations]
      /\ used \in Nat /\ used <= Budget
      /\ created \in Nat /\ created * SlotSize \in Nat
      /\ Budget \in Nat /\ SlotSize \in Nat /\ Size \subseteq Nat
  BY PoolsAssumption DEF BudgetInv, BudgetTyped, BudgetWithin
<1>2. CASE \E p \in Pool, name \in Name, bytes \in Size : Take(p, name, bytes)
  <2>1. PICK p \in Pool, name \in Name, bytes \in Size : Take(p, name, bytes)
    BY <1>2
  <2>2. /\ held' \in [Pool -> Reservations]
        /\ held'[p] \in Reservations
        /\ SumFunction(held'[p]) = SumFunction(held[p]) + bytes
    BY <1>1, <2>1, TakeHolds DEF Take
  <2>3. held' = [held EXCEPT ![p] = held'[p]]
    BY <1>1, <2>1 DEF Take
  <2>4. /\ Together(held) \in Nat
        /\ Together(held') = Together(held) - SumFunction(held[p]) + SumFunction(held'[p])
    BY <1>1, <2>2, <2>3, HeldTogether
  <2>5. SumFunction(held[p]) \in Nat /\ bytes \in Nat
    BY <1>1, ReservationFacts
  <2>6. Together(held') = Together(held) + bytes
    BY <2>2, <2>4, <2>5
  <2>. QED  BY <1>0, <1>1, <2>1, <2>2, <2>4, <2>5, <2>6
            DEF Take, CanReserve, BudgetInv, BudgetTyped, BudgetWithin
<1>3. CASE \E name \in Name, bytes \in Size : PinFails(name, bytes)
  <2>1. PICK name \in Name, bytes \in Size : PinFails(name, bytes)
    BY <1>3
  <2>2. used' = used
    BY <1>1, <2>1 DEF PinFails, Released
  <2>. QED  BY <1>0, <1>1, <2>1, <2>2 DEF PinFails, BudgetInv, BudgetTyped, BudgetWithin
<1>4. CASE \E p \in Pool, name \in Name : GiveBack(p, name)
  <2>1. PICK p \in Pool, name \in Name : GiveBack(p, name) /\ name \in DOMAIN held[p]
    BY <1>4 DEF GiveBack
  <2>2. /\ held' \in [Pool -> Reservations]
        /\ held'[p] \in Reservations
        /\ SumFunction(held[p]) = held[p][name] + SumFunction(held'[p])
    BY <1>1, <2>1, GiveBackHolds DEF GiveBack
  <2>3. held' = [held EXCEPT ![p] = held'[p]]
    BY <1>1, <2>1 DEF GiveBack
  <2>4. /\ Together(held) \in Nat
        /\ SumFunction(held[p]) <= Together(held)
        /\ Together(held') = Together(held) - SumFunction(held[p]) + SumFunction(held'[p])
    BY <1>1, <2>2, <2>3, HeldTogether
  <2>5. SumFunction(held[p]) \in Nat /\ SumFunction(held'[p]) \in Nat
           /\ held[p][name] \in Nat
    BY <1>1, <2>1, <2>2, ReservationFacts
  <2>6. Together(held') = Together(held) - held[p][name] /\ held[p][name] <= Together(held)
    BY <2>2, <2>4, <2>5
  <2>7. used' = used - held[p][name]
    BY <1>0, <1>1, <2>1, <2>4, <2>5, <2>6 DEF GiveBack, Released
  <2>. QED  BY <1>0, <1>1, <2>1, <2>2, <2>4, <2>5, <2>6, <2>7
            DEF GiveBack, BudgetInv, BudgetTyped, BudgetWithin
<1>5. CASE CreateSlot
  <2>1. (created + 1) * SlotSize = created * SlotSize + SlotSize
    BY <1>1
  <2>2. Together(held') = Together(held) /\ Together(held) \in Nat
    <3>1. \A q \in Pool : SumFunction(held[q]) \in Nat
      BY <1>1, ReservationFacts
    <3>. QED  BY <1>5, <3>1 DEF CreateSlot, Pool, Together
  <2>. QED  BY <1>0, <1>1, <1>5, <2>1, <2>2
            DEF CreateSlot, CanReserve, BudgetInv, BudgetTyped, BudgetWithin
<1>6. CASE Destroy
  <2>1. \A p \in Pool : SumFunction(held[p]) = 0
    BY <1>6, SumOfNothing DEF Destroy
  <2>2. Together(held') = 0
    BY <1>6, <2>1 DEF Destroy, Pool, Together
  <2>3. 0 * SlotSize = 0
    BY <1>1
  <2>. QED  BY <1>0, <1>1, <1>6, <2>2, <2>3 DEF Destroy, BudgetInv, BudgetTyped, BudgetWithin
<1>7. CASE UNCHANGED poolVars
  BY <1>0, <1>1, <1>7 DEF poolVars, BudgetInv, BudgetTyped, BudgetWithin
<1>. QED  BY <1>2, <1>3, <1>4, <1>5, <1>6, <1>7 DEF PoolsNext

\* Pools whose clients destroy the reusable one last account for every byte:
\* the counter of PinnedMemoryBudget is at any time what the four pools hold,
\* after refused requests and failed stagings too.
THEOREM BudgetAccounted ==
    ASSUME DestroyAlone
    PROVE  PoolsSpec => []Accounted
<1>1. BudgetInv /\ [PoolsNext]_poolVars => BudgetInv'
  BY StepIsAccounted
<1>2. BudgetInv => Accounted
  BY DEF BudgetInv
<1>. QED  BY InitIsAccounted, <1>1, <1>2, PTL DEF PoolsSpec

\* With that, the pools keep their types; what says most is the bound on the
\* reusable slots, which the code does not count against the budget but asks
\* the budget for one by one.
THEOREM PoolsTypeCorrect ==
    ASSUME DestroyAlone
    PROVE  PoolsSpec => []PoolsTypeOK
<1>1. BudgetInv /\ [PoolsNext]_poolVars => BudgetInv'
  BY StepIsAccounted
<1>2. BudgetInv => PoolsTypeOK
  <2>. SUFFICES ASSUME BudgetInv
                PROVE  PoolsTypeOK
    OBVIOUS
  <2>1. \A p \in Pool : HeldBy(p) \in Nat
    BY ReservationFacts DEF BudgetInv, BudgetTyped, HeldBy
  <2>2. created \in Nat /\ created * SlotSize \in Nat
    BY PoolsAssumption DEF BudgetInv
  <2>3. created * SlotSize <= Budget
    BY <2>1, <2>2, PoolsAssumption DEF BudgetInv, BudgetTyped, BudgetWithin, Accounted, Pool
  <2>4. created \in 0 .. Budget \div SlotSize
    BY <2>2, <2>3, PoolsAssumption, WholeSlots
  <2>. QED  BY <2>4 DEF BudgetInv, BudgetTyped, BudgetWithin, PoolsTypeOK
<1>. QED  BY InitIsAccounted, <1>1, <1>2, PTL DEF PoolsSpec

\* A release of what is held never meets a counter that is smaller: the
\* underflow for which PinnedMemoryBudget.release raises does not happen.
THEOREM NoReleaseUnderflows ==
    ASSUME DestroyAlone
    PROVE  PoolsSpec => [](\A p \in Pool : \A name \in DOMAIN held[p] :
                               held[p][name] <= used)
<1>1. BudgetInv /\ [PoolsNext]_poolVars => BudgetInv'
  BY StepIsAccounted
<1>2. BudgetInv => \A p \in Pool : \A name \in DOMAIN held[p] : held[p][name] <= used
  <2>. SUFFICES ASSUME BudgetInv, NEW p \in Pool, NEW name \in DOMAIN held[p]
                PROVE  held[p][name] <= used
    OBVIOUS
  <2>. DEFINE r    == held[p]
              rest == [n \in DOMAIN r \ {name} |-> r[n]]
  <2>1. r \in Reservations /\ \A q \in Pool : HeldBy(q) \in Nat
    BY ReservationFacts DEF BudgetInv, BudgetTyped, HeldBy
  <2>2. IsFiniteSet(DOMAIN r) /\ \A n \in DOMAIN r : r[n] \in Nat
    BY <2>1, ReservationFacts
  <2>3. IsFiniteSet(DOMAIN rest) /\ \A n \in DOMAIN rest : rest[n] = r[n] /\ rest[n] \in Nat
    BY <2>2, FS_RemoveElement
  <2>4. DOMAIN rest = DOMAIN r \ {name} /\ name \in DOMAIN r
    OBVIOUS
  <2>. HIDE DEF r, rest
  <2>5. SumFunction(r) = r[name] + SumFunction(rest) /\ SumFunction(rest) \in Nat
    BY <2>2, <2>3, <2>4, SumSplits, SumIsNatural
  <2>6. r[name] <= HeldBy(p)
    BY <2>2, <2>4, <2>5 DEF HeldBy, r
  <2>7. created * SlotSize \in Nat
    BY PoolsAssumption DEF BudgetInv
  <2>. QED  BY <2>1, <2>2, <2>4, <2>6, <2>7 DEF BudgetInv, Accounted, Pool, r
<1>. QED  BY InitIsAccounted, <1>1, <1>2, PTL DEF PoolsSpec
=============================================================================
