--------------------------- MODULE Discovery_proofs ---------------------------
(***************************************************************************)
(* Proofs about Discovery, for any sources, queries, pages and bounds:     *)
(* every variable keeps its kind, a settled page is never taken up again   *)
(* in its run, a cancel leaves each source one more page at most, and the  *)
(* floor of every source at work stays covered.                            *)
(***************************************************************************)
EXTENDS Discovery, FiniteSetTheorems, TLAPS

-------------------------------------------------------------------------------
(* Sums.  A sum is defined by recursion over the sets of its elements; it  *)
(* counts units, and the facts about it are facts about finite sets.       *)

\* By well-foundedness of < : what an induction over the naturals would show is shown
\* of the least counterexample.
LEMMA LeastNat ==
    ASSUME NEW T, T \subseteq Nat, T # {}
    PROVE  \E x \in T : \A y \in T : x <= y
<1> DEFINE R == {p \in Nat \X Nat : p[1] < p[2]}
<1>1. IsWellFoundedOn(R, Nat) BY NatLessThanWellFounded DEF OpToRel
<1>2. \A y, x \in Nat : y < x => <<y, x>> \in R OBVIOUS
<1> HIDE DEF R
<1>3. PICK x \in T : \A y \in T : ~ (<<y, x>> \in R) BY <1>1, WFMin
<1>4. ASSUME NEW y \in T PROVE x <= y
    <2>1. x \in Nat /\ y \in Nat OBVIOUS
    <2>2. ~ (<<y, x>> \in R) BY <1>3
    <2>3. ~ (y < x) BY <2>1, <2>2, <1>2
    <2> QED BY <2>1, <2>3
<1> QED BY <1>3, <1>4

\* A sum counts: so many units for each element.
Units(f, S) == UNION {{x} \X (1..f[x]) : x \in S}

\* One element contributes its own units.
LEMMA UnitsSplit ==
    ASSUME NEW S, IsFiniteSet(S), NEW f, \A y \in S : f[y] \in Nat,
           NEW T \in SUBSET S, NEW x \in T
    PROVE  /\ IsFiniteSet(Units(f, T)) /\ Cardinality(Units(f, T)) \in Nat
           /\ Cardinality(Units(f, T)) = f[x] + Cardinality(Units(f, T \ {x}))
<1>1. IsFiniteSet(T) /\ IsFiniteSet(T \ {x})
  BY FS_Subset, FS_RemoveElement
<1>2. \A y \in S : IsFiniteSet({y} \X (1..f[y])) /\ Cardinality({y} \X (1..f[y])) = f[y]
  <2> SUFFICES ASSUME NEW y \in S
               PROVE  IsFiniteSet({y} \X (1..f[y])) /\ Cardinality({y} \X (1..f[y])) = f[y]
    OBVIOUS
  <2>1. IsFiniteSet({y}) /\ Cardinality({y}) = 1
    BY FS_Singleton
  <2>2. IsFiniteSet(1..f[y]) /\ Cardinality(1..f[y]) = f[y]
    <3>1. f[y] \in Nat
      OBVIOUS
    <3>2. \A n \in Nat : IsFiniteSet(1..n) /\ Cardinality(1..n) = n
      BY FS_Interval
    <3> QED BY <3>1, <3>2
  <2>3. /\ IsFiniteSet({y} \X (1..f[y]))
        /\ Cardinality({y} \X (1..f[y])) = Cardinality({y}) * Cardinality(1..f[y])
    BY <2>1, <2>2, FS_Product, Zenon
  <2>4. \A n \in Nat : 1 * n = n
    OBVIOUS
  <2> QED BY <2>1, <2>2, <2>3, <2>4
<1>3. ASSUME NEW U \in SUBSET S PROVE IsFiniteSet(Units(f, U))
  <2> DEFINE F == {{y} \X (1..f[y]) : y \in U}
  <2>1. IsFiniteSet(U)
    BY FS_Subset
  <2>2. IsFiniteSet(F)
    <3> DEFINE h == [y \in U |-> {y} \X (1..f[y])]
    <3>1. h \in Surjection(U, F)
      BY DEF Surjection
    <3> QED BY <2>1, <3>1, FS_Surjection
  <2>3. \A P \in F : IsFiniteSet(P)
    BY <1>2
  <2>4. IsFiniteSet(UNION F)
    <3> HIDE DEF F
    <3> QED BY <2>2, <2>3, FS_UNION
  <2> QED BY <2>4 DEF Units
<1>4. /\ Units(f, T) = Units(f, T \ {x}) \cup ({x} \X (1..f[x]))
      /\ Units(f, T \ {x}) \cap ({x} \X (1..f[x])) = {}
  BY DEF Units
<1>5. IsFiniteSet(Units(f, T \ {x})) /\ IsFiniteSet(Units(f, T))
  BY <1>3
<1>6. /\ Cardinality(Units(f, T)) \in Nat /\ Cardinality(Units(f, T \ {x})) \in Nat
  BY <1>5, FS_CardinalityType
<1>7. Cardinality(Units(f, T)) = Cardinality(Units(f, T \ {x})) + f[x] - Cardinality({})
  <2> DEFINE own == {x} \X (1..f[x])
             rest == Units(f, T \ {x})
  <2>1. IsFiniteSet(own) /\ Cardinality(own) = f[x]
    BY <1>2
  <2>2. Units(f, T) = rest \cup own /\ rest \cap own = {} /\ IsFiniteSet(rest)
    BY <1>4, <1>5
  <2> HIDE DEF own, rest
  <2>3. Cardinality(rest \cup own) =
            Cardinality(rest) + Cardinality(own) - Cardinality(rest \cap own)
    BY <2>1, <2>2, FS_Union
  <2>4. Cardinality(Units(f, T)) = Cardinality(rest) + f[x] - Cardinality({})
    BY <2>1, <2>2, <2>3
  <2> QED BY <2>4 DEF rest
<1> QED BY <1>5, <1>6, <1>7, FS_EmptySet

\* However the recursion picks its elements, the sum is the number of units.
LEMMA SumIsCount ==
    ASSUME NEW S, IsFiniteSet(S), NEW f, \A y \in S : f[y] \in Nat
    PROVE  SumFunctionOnSet(f, S) = Cardinality(Units(f, S))
<1> DEFINE Sums(it) ==
        it = [T \in SUBSET S |->
                IF T = {} THEN 0
                ELSE f[CHOOSE x \in T : TRUE] + it[T \ {CHOOSE x \in T : TRUE}]]
<1>1. SumFunctionOnSet(f, S) = (CHOOSE it : Sums(it))[S]
  BY DEF SumFunctionOnSet, FoldFunctionOnSet, MapThenFoldSet
<1> DEFINE counts == [T \in SUBSET S |-> Cardinality(Units(f, T))]
<1>2. Cardinality(Units(f, {})) = 0
  BY FS_EmptySet DEF Units
<1>3. Sums(counts)
  <2> SUFFICES ASSUME NEW T \in SUBSET S
               PROVE  counts[T] = IF T = {} THEN 0
                                  ELSE f[CHOOSE x \in T : TRUE]
                                         + counts[T \ {CHOOSE x \in T : TRUE}]
    BY Zenon
  <2>1. CASE T = {}
    BY <1>2, <2>1
  <2>2. CASE T # {}
    <3>1. PICK x : x = CHOOSE y \in T : TRUE
      OBVIOUS
    <3>2. x \in T
      BY <2>2, <3>1
    <3>3. counts[T] = f[x] + counts[T \ {x}]
      BY <3>2, UnitsSplit
    <3> HIDE DEF counts
    <3> QED BY <2>2, <3>1, <3>3
  <2> QED BY <2>1, <2>2
<1> DEFINE it == CHOOSE it : Sums(it)
<1>4. Sums(it)
  BY <1>3
<1> HIDE DEF it
<1> DEFINE Wrong == {T \in SUBSET S : it[T] # counts[T]}
           Sizes == {n \in Nat : \E T \in Wrong : Cardinality(T) = n}
<1>5. Wrong = {}
  <2> SUFFICES ASSUME Wrong # {} PROVE FALSE
    OBVIOUS
  <2>1. \A T \in SUBSET S : IsFiniteSet(T) /\ Cardinality(T) \in Nat
    BY FS_Subset, FS_CardinalityType
  <2>2. Sizes # {} /\ Sizes \subseteq Nat
    BY <2>1
  <2>3. PICK n \in Sizes : \A m \in Sizes : n <= m
    <3> HIDE DEF Sizes
    <3> QED BY <2>2, LeastNat
  <2>4. PICK T \in Wrong : Cardinality(T) = n
    OBVIOUS
  <2>5. T # {}
    <3>1. it[{}] = 0
      BY <1>4
    <3> QED BY <1>2, <3>1
  <2>6. PICK x : x = CHOOSE y \in T : TRUE
    OBVIOUS
  <2>7. x \in T
    BY <2>5, <2>6
  <2>8. it[T] = f[x] + it[T \ {x}]
    BY <1>4, <2>5, <2>6
  <2>9. counts[T] = f[x] + counts[T \ {x}]
    BY <2>7, UnitsSplit
  <2>10. T \ {x} \in Wrong
    <3> HIDE DEF counts
    <3> QED BY <2>8, <2>9
  <2>11. Cardinality(T \ {x}) = n - 1
    BY <2>1, <2>4, <2>7, FS_RemoveElement
  <2>12. T \ {x} \in SUBSET S /\ n \in Nat
    OBVIOUS
  <2>13. Cardinality(T \ {x}) \in Sizes
    <3>1. Cardinality(T \ {x}) \in Nat
      BY <2>1, <2>12
    <3> HIDE DEF Wrong
    <3> QED BY <3>1, <2>10
  <2>14. n <= n - 1
    <3> HIDE DEF Sizes
    <3> QED BY <2>3, <2>11, <2>13
  <2> QED BY <2>12, <2>14
<1> QED BY <1>1, <1>5 DEF it

\* A sum takes its elements in any order.
LEMMA SumSplits ==
    ASSUME NEW S, IsFiniteSet(S), NEW f, \A y \in S : f[y] \in Nat, NEW x \in S
    PROVE  /\ SumFunctionOnSet(f, S) \in Nat /\ SumFunctionOnSet(f, S \ {x}) \in Nat
           /\ SumFunctionOnSet(f, S) = f[x] + SumFunctionOnSet(f, S \ {x})
<1>1. IsFiniteSet(S \ {x}) /\ \A y \in S \ {x} : f[y] \in Nat
  BY FS_RemoveElement
<1>2. /\ SumFunctionOnSet(f, S) = Cardinality(Units(f, S))
      /\ SumFunctionOnSet(f, S \ {x}) = Cardinality(Units(f, S \ {x}))
  BY <1>1, SumIsCount
<1>3. IsFiniteSet(Units(f, S \ {x}))
  <2>1. Units(f, S \ {x}) \subseteq Units(f, S)
    BY DEF Units
  <2>2. IsFiniteSet(Units(f, S))
    BY UnitsSplit
  <2> QED BY <2>1, <2>2, FS_Subset
<1> QED BY <1>2, <1>3, UnitsSplit, FS_CardinalityType

LEMMA SumType ==
    ASSUME NEW S, IsFiniteSet(S), NEW f, \A y \in S : f[y] \in Nat
    PROVE  SumFunctionOnSet(f, S) \in Nat
<1>1. CASE S = {}
  <2>1. SumFunctionOnSet(f, S) = Cardinality(Units(f, S)) /\ Units(f, S) = {}
    BY <1>1, SumIsCount DEF Units
  <2> QED BY <2>1, FS_EmptySet
<1>2. CASE S # {}
  BY <1>2, SumSplits
<1> QED BY <1>1, <1>2

\* Functions that differ in one element.
LEMMA SumChanges ==
    ASSUME NEW S, IsFiniteSet(S), NEW f, NEW g, NEW x \in S,
           \A y \in S : f[y] \in Nat /\ g[y] \in Nat,
           \A y \in S \ {x} : g[y] = f[y]
    PROVE  SumFunctionOnSet(g, S) = SumFunctionOnSet(f, S) + g[x] - f[x]
<1>1. /\ SumFunctionOnSet(f, S) = f[x] + SumFunctionOnSet(f, S \ {x})
      /\ SumFunctionOnSet(g, S) = g[x] + SumFunctionOnSet(g, S \ {x})
      /\ SumFunctionOnSet(f, S \ {x}) \in Nat
  BY SumSplits
<1>2. Units(f, S \ {x}) = Units(g, S \ {x})
  BY DEF Units
<1>3. IsFiniteSet(S \ {x})
  BY FS_RemoveElement
<1>4. SumFunctionOnSet(f, S \ {x}) = SumFunctionOnSet(g, S \ {x})
  BY <1>2, <1>3, SumIsCount
<1> QED BY <1>1, <1>4

\* Functions that agree.
LEMMA SumOfSame ==
    ASSUME NEW S, IsFiniteSet(S), NEW f, NEW g,
           \A y \in S : f[y] \in Nat /\ g[y] \in Nat,
           \A y \in S : g[y] = f[y]
    PROVE  SumFunctionOnSet(g, S) = SumFunctionOnSet(f, S)
<1>1. Units(f, S) = Units(g, S)
  BY DEF Units
<1> QED BY <1>1, SumIsCount

\* Equal summands.
LEMMA SumOfEqual ==
    ASSUME NEW S, IsFiniteSet(S), NEW c \in Nat, NEW f, \A y \in S : f[y] = c
    PROVE  SumFunctionOnSet(f, S) = Cardinality(S) * c
<1>1. Units(f, S) = S \X (1..c)
  BY DEF Units
<1>2. IsFiniteSet(1..c) /\ Cardinality(1..c) = c
  BY FS_Interval
<1>3. Cardinality(S \X (1..c)) = Cardinality(S) * Cardinality(1..c)
  BY <1>2, FS_Product, Zenon
<1>4. SumFunctionOnSet(f, S) = Cardinality(Units(f, S))
  BY SumIsCount
<1> QED BY <1>1, <1>2, <1>3, <1>4

-------------------------------------------------------------------------------
(* The kinds of the variables, and settled pages. *)

USE SourcesAssumption, PagesAssumption, SizesAssumption, WebAssumption, LivesAssumption

Fetching == {"lookup", "attempt", "pay", "wait"}

\* What a thread holds: the query it has recorded, the page it fetches, and the rest of
\* its batch, all of whose rows are in flight.
ItemsAtWork ==
    \A s \in Sources :
        /\ pc[s] = "enqueue" => item[s] \in Queries
        /\ pc[s] \in Fetching => /\ item[s] \in Urls \ batch[s]
                                 /\ frontier[s][item[s]] = "inflight"
        /\ \A u \in batch[s] : frontier[s][u] = "inflight"

IInv == TypeOK /\ ItemsAtWork

\* The flag is never reset; a source that is about to pay has looked at it.
LateOnce ==
    \A s \in Sources : /\ ~cancelled \/ pc[s] = "pay" => late[s] = 0
                       /\ late[s] <= 1

\* The frontiers' kind.
Frontiers == [Sources -> [Urls -> ItemStates]]

\* The exploration allowance of a run is a number of pages.
LEMMA AllowanceOK ==
    ASSUME NEW r \in Int
    PROVE  Allowance(r) \in Nat
<1>1. Cardinality(Sources) \in Nat /\ (Sources # {} => Cardinality(Sources) # 0)
  BY FS_CardinalityType, FS_EmptySet
<1>2. \A n \in Nat : r > 0 /\ n # 0 => r \div n \in Nat
  OBVIOUS
<1>3. CASE r <= 0 \/ Sources = {}
  BY <1>3 DEF Allowance
<1>4. CASE ~(r <= 0 \/ Sources = {})
  <2>1. r > 0 /\ r \div Cardinality(Sources) \in Nat
    BY <1>1, <1>2, <1>4
  <2> QED BY <2>1, <1>4 DEF Allowance
<1> QED BY <1>3, <1>4

\* Enqueueing changes rows of one source only, and of those only what it has not
\* begun.
LEMMA EnqueuedOK ==
    ASSUME frontier \in Frontiers, NEW s \in Sources, NEW us
    PROVE  /\ Enqueued(s, us) \in Frontiers
           /\ \A o \in Sources : \A v \in Urls :
                Enqueued(s, us)[o][v] # frontier[o][v] =>
                    o = s /\ frontier[o][v] \in {"none", "pending"}
<1> DEFINE row == [u \in Urls |-> IF u \in us /\ frontier[s][u] \in {"none", "pending"}
                                 THEN "pending" ELSE frontier[s][u]]
<1>1. row \in [Urls -> ItemStates]
  BY DEF ItemStates, Frontiers
<1>2. Enqueued(s, us) = [frontier EXCEPT ![s] = row]
  BY DEF Enqueued
<1>3. Enqueued(s, us) \in Frontiers
  BY <1>1, <1>2 DEF Frontiers
<1>4. \A v \in Urls : row[v] # frontier[s][v] => frontier[s][v] \in {"none", "pending"}
  OBVIOUS
<1>5. \A o \in Sources : Enqueued(s, us)[o] = IF o = s THEN row ELSE frontier[o]
  BY <1>2 DEF Frontiers
<1> HIDE DEF row
<1> QED BY <1>3, <1>4, <1>5

\* Completing changes one row.
LEMMA CompletedOK ==
    ASSUME frontier \in Frontiers, NEW s \in Sources, NEW u \in Urls,
           NEW state \in ItemStates
    PROVE  /\ Completed(s, u, state) \in Frontiers
           /\ \A o \in Sources : \A v \in Urls :
                Completed(s, u, state)[o][v] # frontier[o][v] => o = s /\ v = u
BY DEF Completed, Frontiers

\* What Ingest does to the frontier: rows that were not begun, and the page itself.
LEMMA IngestedOK ==
    ASSUME frontier \in Frontiers, NEW s \in Sources, NEW u \in Urls, Ingest(s, u)
    PROVE  /\ frontier' \in Frontiers
           /\ \A o \in Sources : \A v \in Urls :
                frontier'[o][v] # frontier[o][v] =>
                    o = s /\ (v = u \/ frontier[o][v] \in {"none", "pending"})
<1> DEFINE f == Enqueued(s, Taken(s, u))
<1>1. /\ f \in Frontiers
      /\ \A o \in Sources : \A v \in Urls :
            f[o][v] # frontier[o][v] => o = s /\ frontier[o][v] \in {"none", "pending"}
  BY EnqueuedOK
<1>2. frontier' = [f EXCEPT ![s][u] = "done"]
  BY DEF Ingest
<1> HIDE DEF f
<1>3. "done" \in ItemStates
  BY DEF ItemStates, Terminal
<1>4. frontier' \in Frontiers
  BY <1>1, <1>2, <1>3 DEF Frontiers
<1>5. \A o \in Sources : \A v \in Urls :
        frontier'[o][v] = IF o = s /\ v = u THEN "done" ELSE f[o][v]
  BY <1>1, <1>2 DEF Frontiers
<1> QED BY <1>1, <1>4, <1>5

\* What Ingest does to the other variables.
LEMMA IngestKinds ==
    ASSUME TypeOK, NEW s \in Sources, NEW u \in Urls, Ingest(s, u)
    PROVE  /\ known' \subseteq Sources \X Urls
           /\ claims' \in [Sources -> Nat]
           /\ item' \in [Sources -> Urls \cup Queries \cup {NoItem}]
           /\ pc' \in [Sources -> {"ready", "enqueue", "lookup", "attempt", "pay", "wait",
                                   "ended"}]
<1> USE DEF TypeOK
<1>1. known' \subseteq Sources \X Urls
  BY DEF Ingest, Taken
<1>2. claims' \in [Sources -> Nat]
  BY DEF Ingest, AfterFetch, Unclaimed
<1>3. item' = [item EXCEPT ![s] = NoItem] /\ pc' = [pc EXCEPT ![s] = "ready"]
  BY DEF Ingest
<1> QED BY <1>1, <1>2, <1>3

\* The initial states are of the invariant.
LEMMA InitOK == Init => IInv /\ LateOnce
<1> SUFFICES ASSUME Init PROVE IInv /\ LateOnce
  OBVIOUS
<1>1. TypeOK
  <2>1. frontier \in Frontiers
    BY DEF Init, Frontiers, ItemStates
  <2>2. /\ saved \in 0..Ceiling /\ used \in 0..Ceiling
        /\ run \in 0..MaxRuns /\ crashes \in 0..MaxCrashes
    BY DEF Init
  <2> QED BY <2>1, <2>2 DEF Init, TypeOK, Frontiers
<1>2. ItemsAtWork
  BY DEF Init, ItemsAtWork, Fetching
<1>3. LateOnce
  BY DEF Init, LateOnce
<1> QED BY <1>1, <1>2, <1>3 DEF IInv

\* Every step keeps the variables' kinds, in a state where the threads hold what their
\* place says.
LEMMA TypeStep == IInv /\ [Next]_vars => TypeOK'
<1> SUFFICES ASSUME TypeOK, ItemsAtWork, [Next]_vars PROVE TypeOK'
  BY DEF IInv
<1> USE DEF TypeOK, Unclaimed, Claimed
<1>0. frontier \in Frontiers
  BY DEF Frontiers
<1>1. CASE BeginRun
  <2>1. Remaining \in Nat
    BY DEF Remaining
  <2>2. allowance' \in Nat
    BY <1>1, <2>1, AllowanceOK DEF BeginRun
  <2>3. frontier' \in Frontiers
    BY <1>1 DEF BeginRun, Frontiers, ItemStates
  <2>4. run' \in 0..MaxRuns
    BY <1>1 DEF BeginRun
  <2>5. saved' \in 0..Ceiling /\ used' \in 0..Ceiling /\ crashes' \in 0..MaxCrashes
    BY <1>1 DEF BeginRun
  <2>6. /\ budget' \in Nat /\ memory' \subseteq Sources \X Queries
        /\ cache' \subseteq Sources \X Urls /\ known' \subseteq Sources \X Urls
        /\ phase' \in {"idle", "work", "over", "down"} /\ cancelled' \in BOOLEAN
    BY <1>1, <2>1 DEF BeginRun
  <2>7. /\ claims' \in [Sources -> Nat] /\ finished' \subseteq Sources
        /\ worked' \in [Sources -> Nat] /\ tries' \in [Sources -> Nat]
        /\ before' \in [Sources -> Nat] /\ paid' \in [Sources -> Nat]
        /\ late' \in [Sources -> Nat]
    BY <1>1 DEF BeginRun
  <2>8. /\ todo' \in [Sources -> SUBSET Queries] /\ batch' \in [Sources -> SUBSET Urls]
        /\ item' \in [Sources -> Urls \cup Queries \cup {NoItem}]
        /\ pc' \in [Sources -> {"ready", "enqueue", "lookup", "attempt", "pay", "wait",
                                "ended"}]
        /\ exit' \in [Sources -> {"none", "loop", "blocked", "budget", "cancelled",
                                  "raised"}]
    BY <1>1 DEF BeginRun
  <2> QED BY <2>2, <2>3, <2>4, <2>5, <2>6, <2>7, <2>8 DEF Frontiers
<1>2. CASE Collect
  BY <1>2 DEF Collect, reserve, thread, history
<1>3. CASE Cancel
  BY <1>3 DEF Cancel, disk, reserve, thread, history
<1>4. CASE Crash
  BY <1>4 DEF Crash, disk, reserve
<1>5. ASSUME NEW s \in Sources, NEW q \in Queries, SkipQuery(s, q) PROVE TypeOK'
  BY <1>5 DEF SkipQuery, disk, reserve, history
<1>6. ASSUME NEW s \in Sources, NEW q \in Queries, RecordQuery(s, q) PROVE TypeOK'
  BY <1>6 DEF RecordQuery, reserve, history
<1>7. ASSUME NEW s \in Sources, NEW q \in Queries, DiscoverBlocked(s, q) PROVE TypeOK'
  BY <1>7 DEF DiscoverBlocked, Leave, disk
<1>8. ASSUME NEW s \in Sources, EnqueueUrls(s) PROVE TypeOK'
  <2>1. frontier' \in Frontiers
    BY <1>0, <1>8, EnqueuedOK DEF EnqueueUrls
  <2>2. UrlsOf[s][item[s]] \subseteq Urls
    BY <1>8 DEF ItemsAtWork, EnqueueUrls
  <2> QED BY <1>8, <2>1, <2>2 DEF EnqueueUrls, Frontiers, reserve
<1>9. ASSUME NEW s \in Sources, Pop(s) PROVE TypeOK'
  <2>1. PICK b \in SUBSET Pending(s) :
          /\ batch' = [batch EXCEPT ![s] = b]
          /\ frontier' = [frontier EXCEPT ![s] =
                            [u \in Urls |-> IF u \in b THEN "inflight" ELSE @[u]]]
    BY <1>9 DEF Pop
  <2>2. b \subseteq Urls
    BY DEF Pending
  <2>3. frontier' \in Frontiers
    BY <1>0, <2>1 DEF Frontiers, ItemStates
  <2> QED BY <1>9, <2>1, <2>2, <2>3 DEF Pop, Frontiers, reserve, history
<1>10. ASSUME NEW s \in Sources, LeaveLoop(s) PROVE TypeOK'
  BY <1>10 DEF LeaveLoop, Leave, disk
<1>11. ASSUME NEW s \in Sources, NEW u \in Urls, Refuse(s, u) PROVE TypeOK'
  <2>1. frontier' \in Frontiers
    BY <1>0, <1>11, CompletedOK DEF Refuse, ItemStates, Terminal
  <2>2. batch' \in [Sources -> SUBSET Urls] /\ worked' \in [Sources -> Nat]
    BY <1>11 DEF Refuse, BeginItem
  <2> QED BY <1>11, <2>1, <2>2 DEF Refuse, Frontiers, reserve, history
<1>12. ASSUME NEW s \in Sources, NEW u \in Urls, FindExhausted(s, u) PROVE TypeOK'
  <2>1. frontier' \in Frontiers
    BY <1>0, <1>12, CompletedOK DEF FindExhausted, ItemStates, Terminal
  <2>2. /\ batch' \in [Sources -> SUBSET Urls] /\ worked' \in [Sources -> Nat]
        /\ finished' \subseteq Sources
    BY <1>12 DEF FindExhausted, BeginItem, Leave
  <2>3. /\ pc' \in [Sources -> {"ready", "enqueue", "lookup", "attempt", "pay", "wait",
                                "ended"}]
        /\ exit' \in [Sources -> {"none", "loop", "blocked", "budget", "cancelled",
                                  "raised"}]
    BY <1>12 DEF FindExhausted, Leave
  <2> QED BY <1>12, <2>1, <2>2, <2>3 DEF FindExhausted, Frontiers
<1>13. ASSUME NEW s \in Sources, NEW u \in Urls, Claim(s, u) PROVE TypeOK'
  BY <1>13 DEF Claim, BeginItem, disk, history
<1>14. ASSUME NEW s \in Sources, LookUp(s) PROVE TypeOK'
  <2>1. pc[s] = "lookup" /\ item[s] \in Urls
    BY <1>14 DEF LookUp, ItemsAtWork, Fetching
  <2>2. CASE <<s, item[s]>> \in cache
    <3>1. Ingest(s, item[s])
      BY <1>14, <2>2 DEF LookUp
    <3>2. frontier' \in Frontiers
      BY <1>0, <2>1, <3>1, IngestedOK
    <3> QED BY <1>14, <2>1, <3>1, <3>2, IngestKinds DEF LookUp, Frontiers
  <2>3. CASE <<s, item[s]>> \notin cache
    BY <1>14, <2>3 DEF LookUp
  <2> QED BY <2>2, <2>3
<1>15. ASSUME NEW s \in Sources, Attempt(s) PROVE TypeOK'
  <2>1. pc[s] = "attempt" /\ item[s] \in Urls
    BY <1>15 DEF Attempt, ItemsAtWork, Fetching
  <2>2. CASE StopsAttempt
    <3>1. frontier' \in Frontiers
      BY <1>0, <1>15, <2>1, <2>2, CompletedOK DEF Attempt, ItemStates, Terminal
    <3>2. /\ item' = [item EXCEPT ![s] = NoItem]
          /\ pc' = [pc EXCEPT ![s] = "ended"]
          /\ finished' = finished \cup {s}
          /\ exit' = [exit EXCEPT ![s] = "cancelled"]
      BY <1>15, <2>2 DEF Attempt, Leave
    <3> QED BY <1>15, <3>1, <3>2 DEF Attempt, Frontiers
  <2>3. CASE ~StopsAttempt
    BY <1>15, <2>3 DEF Attempt
  <2> QED BY <2>2, <2>3
<1>16. ASSUME NEW s \in Sources, Pay(s) PROVE TypeOK'
  <2>1. used' \in 0..Ceiling
    BY <1>16 DEF Pay, WouldExceed
  <2> QED BY <1>16, <2>1 DEF Pay, disk, reserve
<1>17. ASSUME NEW s \in Sources, PayRefused(s) PROVE TypeOK'
  <2>1. item[s] \in Urls
    BY <1>17 DEF PayRefused, ItemsAtWork, Fetching
  <2>2. frontier' \in Frontiers
    BY <1>0, <1>17, <2>1, CompletedOK DEF PayRefused, ItemStates, Terminal
  <2> QED BY <1>17, <2>2 DEF PayRefused, Leave, Frontiers
<1>18. ASSUME NEW s \in Sources, AnswerFound(s) PROVE TypeOK'
  <2>1. item[s] \in Urls /\ Ingest(s, item[s])
    BY <1>18 DEF AnswerFound, ItemsAtWork, Fetching
  <2>2. frontier' \in Frontiers
    BY <1>0, <2>1, IngestedOK
  <2>3. cache' \subseteq Sources \X Urls
    BY <1>18, <2>1 DEF AnswerFound
  <2> QED BY <1>18, <2>1, <2>2, <2>3, IngestKinds DEF AnswerFound, Frontiers
<1>19. ASSUME NEW s \in Sources, AnswerOther(s) PROVE TypeOK'
  <2>1. item[s] \in Urls
    BY <1>19 DEF AnswerOther, ItemsAtWork, Fetching
  <2>2. frontier' \in Frontiers
    BY <1>0, <1>19, <2>1, CompletedOK DEF AnswerOther, ItemStates, Terminal
  <2> QED BY <1>19, <2>2 DEF AnswerOther, Frontiers, reserve, history
<1>20. ASSUME NEW s \in Sources, AnswerRetry(s) PROVE TypeOK'
  BY <1>20 DEF AnswerRetry, disk, reserve, history
<1>21. ASSUME NEW s \in Sources, AnswerRaises(s) PROVE TypeOK'
  <2>1. item[s] \in Urls
    BY <1>21 DEF AnswerRaises, ItemsAtWork, Fetching
  <2> QED BY <1>21, <2>1 DEF AnswerRaises, Leave
<1>22. CASE UNCHANGED vars
  BY <1>22 DEF vars, disk, reserve, thread, history
<1> QED
  BY <1>1, <1>2, <1>3, <1>4, <1>5, <1>6, <1>7, <1>8, <1>9, <1>10, <1>11, <1>12, <1>13,
     <1>14, <1>15, <1>16, <1>17, <1>18, <1>19, <1>20, <1>21, <1>22
  DEF Next, SourceStep

\* Rows in flight stay in flight, whichever row changes, if it is not theirs.
LEMMA ItemsStep == IInv /\ [Next]_vars => ItemsAtWork'
<1> SUFFICES ASSUME TypeOK, ItemsAtWork, [Next]_vars PROVE ItemsAtWork'
  BY DEF IInv
<1> USE DEF ItemsAtWork, Fetching
<1>0. /\ frontier \in Frontiers
      /\ pc \in [Sources -> {"ready", "enqueue", "lookup", "attempt", "pay", "wait",
                             "ended"}]
      /\ batch \in [Sources -> SUBSET Urls]
      /\ item \in [Sources -> Urls \cup Queries \cup {NoItem}]
  BY DEF Frontiers, TypeOK
<1>1. CASE BeginRun
  BY <1>1 DEF BeginRun
<1>2. CASE Collect \/ Cancel
  BY <1>2 DEF Collect, Cancel, disk, thread
<1>3. CASE Crash
  BY <1>3, <1>0 DEF Crash, disk
<1>4. ASSUME NEW s \in Sources, NEW q \in Queries, SkipQuery(s, q) PROVE ItemsAtWork'
  BY <1>4 DEF SkipQuery, disk
<1>5. ASSUME NEW s \in Sources, NEW q \in Queries, RecordQuery(s, q) PROVE ItemsAtWork'
  BY <1>5, <1>0 DEF RecordQuery
<1>6. ASSUME NEW s \in Sources, NEW q \in Queries, DiscoverBlocked(s, q)
      PROVE ItemsAtWork'
  BY <1>6, <1>0 DEF DiscoverBlocked, Leave, disk
<1>7. ASSUME NEW s \in Sources, EnqueueUrls(s) PROVE ItemsAtWork'
  <2>1. \A o \in Sources : \A v \in Urls :
          frontier[o][v] = "inflight" => frontier'[o][v] = "inflight"
    BY <1>7, <1>0, EnqueuedOK DEF EnqueueUrls
  <2> QED BY <1>7, <1>0, <2>1 DEF EnqueueUrls
<1>8. ASSUME NEW s \in Sources, Pop(s) PROVE ItemsAtWork'
  <2>1. PICK b \in SUBSET Pending(s) :
          /\ batch' = [batch EXCEPT ![s] = b]
          /\ frontier' = [frontier EXCEPT ![s] =
                            [u \in Urls |-> IF u \in b THEN "inflight" ELSE @[u]]]
    BY <1>8 DEF Pop
  <2>2. \A u \in b : u \in Urls /\ frontier'[s][u] = "inflight"
    BY <1>0, <2>1 DEF Pending, Frontiers
  <2>3. \A o \in Sources \ {s} : frontier'[o] = frontier[o] /\ batch'[o] = batch[o]
    BY <1>0, <2>1 DEF Frontiers
  <2>4. batch'[s] = b /\ pc'[s] = "ready" /\ pc' = pc /\ item' = item
    BY <1>0, <1>8, <2>1 DEF Pop, AtLoop
  <2> QED BY <2>2, <2>3, <2>4
<1>9. ASSUME NEW s \in Sources, LeaveLoop(s) PROVE ItemsAtWork'
  BY <1>9, <1>0 DEF LeaveLoop, Leave, disk
<1>10. ASSUME NEW s \in Sources, NEW u \in Urls, Refuse(s, u) PROVE ItemsAtWork'
  <2>1. \A o \in Sources : \A v \in Urls :
          frontier'[o][v] # frontier[o][v] => o = s /\ v = u
    BY <1>0, <1>10, CompletedOK DEF Refuse, ItemStates, Terminal
  <2>2. /\ pc' = pc /\ item' = item /\ pc[s] = "ready"
        /\ batch' = [batch EXCEPT ![s] = @ \ {u}]
    BY <1>10 DEF Refuse, BeginItem
  <2> QED BY <1>0, <2>1, <2>2
<1>11. ASSUME NEW s \in Sources, NEW u \in Urls, FindExhausted(s, u) PROVE ItemsAtWork'
  <2>1. \A o \in Sources : \A v \in Urls :
          frontier'[o][v] # frontier[o][v] => o = s /\ v = u
    BY <1>0, <1>11, CompletedOK DEF FindExhausted, ItemStates, Terminal
  <2>2. /\ pc' = [pc EXCEPT ![s] = "ended"] /\ item' = item
        /\ batch' = [batch EXCEPT ![s] = @ \ {u}]
    BY <1>11 DEF FindExhausted, BeginItem, Leave
  <2>3. pc'[s] = "ended" /\ \A v \in batch'[s] : frontier'[s][v] = "inflight"
    BY <1>0, <2>1, <2>2
  <2>4. \A o \in Sources \ {s} :
          /\ pc'[o] = pc[o] /\ item'[o] = item[o] /\ batch'[o] = batch[o]
          /\ \A v \in Urls : frontier'[o][v] = frontier[o][v]
    BY <1>0, <2>1, <2>2
  <2> QED
    <3> SUFFICES ASSUME NEW o \in Sources
                 PROVE  /\ pc'[o] = "enqueue" => item'[o] \in Queries
                        /\ pc'[o] \in Fetching => /\ item'[o] \in Urls \ batch'[o]
                                                 /\ frontier'[o][item'[o]] = "inflight"
                        /\ \A v \in batch'[o] : frontier'[o][v] = "inflight"
      OBVIOUS
    <3>1. CASE o = s
      BY <2>3, <3>1
    <3>2. CASE o # s
      <4>1. /\ pc'[o] = pc[o] /\ item'[o] = item[o] /\ batch'[o] = batch[o]
            /\ \A v \in Urls : frontier'[o][v] = frontier[o][v]
        BY <2>4, <3>2
      <4>2. batch[o] \subseteq Urls
        BY <1>0
      <4> QED BY <4>1, <4>2
    <3> QED BY <3>1, <3>2
<1>12. ASSUME NEW s \in Sources, NEW u \in Urls, Claim(s, u) PROVE ItemsAtWork'
  <2>1. frontier' = frontier /\ u \in batch[s]
    BY <1>12 DEF Claim, BeginItem, disk
  <2>2. /\ pc' = [pc EXCEPT ![s] = "lookup"] /\ item' = [item EXCEPT ![s] = u]
        /\ batch' = [batch EXCEPT ![s] = @ \ {u}]
    BY <1>12 DEF Claim, BeginItem
  <2> QED BY <1>0, <2>1, <2>2
<1>13. ASSUME NEW s \in Sources, NEW u \in Urls, pc[s] \in Fetching, u = item[s],
              Ingest(s, u), UNCHANGED batch
       PROVE  ItemsAtWork'
  <2>1. \A o \in Sources : \A v \in Urls :
          frontier'[o][v] # frontier[o][v] =>
              o = s /\ (v = u \/ frontier[o][v] \in {"none", "pending"})
    <3> HIDE DEF ItemsAtWork, Fetching
    <3> QED BY <1>0, <1>13, IngestedOK
  <2>2. item' = [item EXCEPT ![s] = NoItem] /\ pc' = [pc EXCEPT ![s] = "ready"]
    BY <1>13 DEF Ingest
  <2> QED BY <1>0, <1>13, <2>1, <2>2
<1>14. ASSUME NEW s \in Sources, NEW u \in Urls, NEW state \in ItemStates,
              pc[s] \in Fetching, u = item[s], frontier' = Completed(s, u, state),
              item' = [item EXCEPT ![s] = NoItem],
              \E p \in {"ready", "ended"} : pc' = [pc EXCEPT ![s] = p], UNCHANGED batch
       PROVE  ItemsAtWork'
  <2>1. \A o \in Sources : \A v \in Urls :
          frontier'[o][v] # frontier[o][v] => o = s /\ v = u
    BY <1>0, <1>14, CompletedOK
  <2> QED BY <1>0, <1>14, <2>1
<1>15. ASSUME NEW s \in Sources, LookUp(s) PROVE ItemsAtWork'
  <2>1. CASE <<s, item[s]>> \in cache
    BY <1>13, <1>15, <2>1 DEF LookUp
  <2>2. CASE <<s, item[s]>> \notin cache
    BY <1>0, <1>15, <2>2 DEF LookUp
  <2> QED BY <2>1, <2>2
<1>16. ASSUME NEW s \in Sources, Attempt(s) PROVE ItemsAtWork'
  <2>1. CASE StopsAttempt
    BY <1>14, <1>16, <2>1 DEF Attempt, Leave, ItemStates, Terminal
  <2>2. CASE ~StopsAttempt
    BY <1>0, <1>16, <2>2 DEF Attempt
  <2> QED BY <2>1, <2>2
<1>17. ASSUME NEW s \in Sources, Pay(s) PROVE ItemsAtWork'
  BY <1>0, <1>17 DEF Pay, disk
<1>18. ASSUME NEW s \in Sources, PayRefused(s) PROVE ItemsAtWork'
  BY <1>14, <1>18 DEF PayRefused, Leave, ItemStates, Terminal
<1>19. ASSUME NEW s \in Sources, AnswerFound(s) PROVE ItemsAtWork'
  BY <1>13, <1>19 DEF AnswerFound
<1>20. ASSUME NEW s \in Sources, AnswerOther(s) PROVE ItemsAtWork'
  BY <1>14, <1>20 DEF AnswerOther, ItemStates, Terminal
<1>21. ASSUME NEW s \in Sources, AnswerRetry(s) PROVE ItemsAtWork'
  BY <1>0, <1>21 DEF AnswerRetry, disk
<1>22. ASSUME NEW s \in Sources, AnswerRaises(s) PROVE ItemsAtWork'
  BY <1>0, <1>22 DEF AnswerRaises, Leave
<1>23. CASE UNCHANGED vars
  BY <1>23 DEF vars, disk, thread
<1> QED
  BY <1>1, <1>2, <1>3, <1>4, <1>5, <1>6, <1>7, <1>8, <1>9, <1>10, <1>11, <1>12, <1>15,
     <1>16, <1>17, <1>18, <1>19, <1>20, <1>21, <1>22, <1>23
  DEF Next, SourceStep

\* The invariant that the theorems rest on.
LEMMA Inductive == Spec => []IInv
<1>1. Init => IInv
  BY InitOK
<1>2. IInv /\ [Next]_vars => IInv'
  BY TypeStep, ItemsStep DEF IInv
<1> QED BY <1>1, <1>2, PTL DEF Spec

\* Every variable keeps its kind: in particular no page is charged beyond the sealed
\* ceiling, however the source threads interleave (consume, charged under its lock).
THEOREM DiscoveryTypeCorrect == Spec => []TypeOK
<1>1. IInv => TypeOK
  BY DEF IInv
<1> QED BY <1>1, Inductive, PTL

\* A step inside a run leaves settled pages alone.
Settled ==
    run' = run =>
        \A s \in Sources : \A u \in Urls :
            frontier[s][u] \in Terminal => frontier'[s][u] = frontier[s][u]

\* A step changes rows that were not begun, or the row of the page at work, which is in
\* flight.
LEMMA SettledStep == IInv /\ [Next]_vars => Settled
<1> SUFFICES ASSUME TypeOK, ItemsAtWork, [Next]_vars PROVE Settled
  BY DEF IInv
<1> USE DEF Settled, Terminal, Fetching
<1>0. frontier \in Frontiers /\ batch \in [Sources -> SUBSET Urls]
  BY DEF Frontiers, TypeOK
<1>1. CASE BeginRun
  <2>1. run' # run
    BY <1>1 DEF BeginRun, TypeOK
  <2> QED BY <2>1
<1>2. ASSUME NEW s \in Sources, NEW u \in Urls, NEW state \in ItemStates,
             frontier[s][u] = "inflight", frontier' = Completed(s, u, state)
      PROVE  Settled
  <2>1. \A o \in Sources : \A v \in Urls :
          frontier'[o][v] # frontier[o][v] => o = s /\ v = u
    BY <1>0, <1>2, CompletedOK
  <2> QED BY <1>2, <2>1
<1>3. ASSUME NEW s \in Sources, pc[s] \in Fetching, Ingest(s, item[s]) PROVE Settled
  <2>1. item[s] \in Urls /\ frontier[s][item[s]] = "inflight"
    BY <1>3 DEF ItemsAtWork
  <2>2. \A o \in Sources : \A v \in Urls :
          frontier'[o][v] # frontier[o][v] =>
              o = s /\ (v = item[s] \/ frontier[o][v] \in {"none", "pending"})
    BY <1>0, <1>3, <2>1, IngestedOK
  <2> QED BY <2>1, <2>2
<1>4. ASSUME NEW s \in Sources, pc[s] \in Fetching
      PROVE  item[s] \in Urls /\ frontier[s][item[s]] = "inflight"
  BY <1>4 DEF ItemsAtWork
<1>5. ASSUME NEW s \in Sources, NEW u \in Urls, BeginItem(s, u)
      PROVE  frontier[s][u] = "inflight"
  BY <1>5 DEF BeginItem, ItemsAtWork
<1>6. CASE UNCHANGED frontier
  BY <1>6
<1>7. ASSUME NEW s \in Sources, EnqueueUrls(s) PROVE Settled
  <2>1. \A o \in Sources : \A v \in Urls :
          frontier'[o][v] # frontier[o][v] => frontier[o][v] \in {"none", "pending"}
    BY <1>0, <1>7, EnqueuedOK DEF EnqueueUrls
  <2> QED BY <2>1
<1>8. ASSUME NEW s \in Sources, Pop(s) PROVE Settled
  <2>1. PICK b \in SUBSET Pending(s) :
          frontier' = [frontier EXCEPT ![s] =
                         [u \in Urls |-> IF u \in b THEN "inflight" ELSE @[u]]]
    BY <1>8 DEF Pop
  <2>2. \A u \in b : frontier[s][u] = "pending"
    BY DEF Pending
  <2> QED BY <1>0, <2>1, <2>2 DEF Frontiers
<1>9. ASSUME NEW s \in Sources, NEW u \in Urls, Refuse(s, u) \/ FindExhausted(s, u)
      PROVE  Settled
  <2>1. \E state \in ItemStates : frontier' = Completed(s, u, state)
    BY <1>9 DEF Refuse, FindExhausted, ItemStates
  <2>2. frontier[s][u] = "inflight"
    BY <1>5, <1>9 DEF Refuse, FindExhausted
  <2> QED BY <1>2, <2>1, <2>2
<1>10. ASSUME NEW s \in Sources, LookUp(s) PROVE Settled
  BY <1>3, <1>6, <1>10 DEF LookUp
<1>11. ASSUME NEW s \in Sources, Attempt(s) PROVE Settled
  BY <1>2, <1>4, <1>6, <1>11 DEF Attempt, ItemStates
<1>12. ASSUME NEW s \in Sources, PayRefused(s) PROVE Settled
  BY <1>2, <1>4, <1>12 DEF PayRefused, ItemStates
<1>13. ASSUME NEW s \in Sources, AnswerFound(s) PROVE Settled
  BY <1>3, <1>13 DEF AnswerFound
<1>14. ASSUME NEW s \in Sources, AnswerOther(s) PROVE Settled
  BY <1>2, <1>4, <1>14 DEF AnswerOther, ItemStates
<1>15. CASE Collect \/ Cancel \/ Crash \/ UNCHANGED vars
  BY <1>6, <1>15 DEF Collect, Cancel, Crash, vars, disk
<1>16. ASSUME NEW s \in Sources, NEW q \in Queries,
              SkipQuery(s, q) \/ RecordQuery(s, q) \/ DiscoverBlocked(s, q)
       PROVE  Settled
  BY <1>6, <1>16 DEF SkipQuery, RecordQuery, DiscoverBlocked, disk
<1>17. ASSUME NEW s \in Sources, NEW u \in Urls, Claim(s, u) PROVE Settled
  BY <1>6, <1>17 DEF Claim, disk
<1>18. ASSUME NEW s \in Sources, LeaveLoop(s) \/ Pay(s) \/ AnswerRetry(s) \/ AnswerRaises(s)
       PROVE  Settled
  BY <1>6, <1>18 DEF LeaveLoop, Pay, AnswerRetry, AnswerRaises, disk
<1> QED
  BY <1>1, <1>7, <1>8, <1>9, <1>10, <1>11, <1>12, <1>13, <1>14, <1>15, <1>16, <1>17, <1>18
  DEF Next, SourceStep

\* Inhibition of return: within a run, no page that is settled is taken up again,
\* whatever links lead back to it (Frontier.enqueue and expand_index).
THEOREM PagesStaySettled == Spec => InhibitionOfReturn
<1>1. IInv /\ [Next]_vars => [Settled]_vars
  BY SettledStep
<1> QED BY <1>1, Inductive, PTL DEF Spec, InhibitionOfReturn, Settled

\* The flag is never reset, and it was looked at before a source may pay.
LEMMA LateStep == IInv /\ LateOnce /\ [Next]_vars => LateOnce'
<1> SUFFICES ASSUME TypeOK, LateOnce, [Next]_vars PROVE LateOnce'
  BY DEF IInv
<1> USE DEF LateOnce
<1>0. /\ late \in [Sources -> Nat] /\ cancelled \in BOOLEAN
      /\ pc \in [Sources -> {"ready", "enqueue", "lookup", "attempt", "pay", "wait",
                             "ended"}]
  BY DEF TypeOK
<1>1. CASE BeginRun
  BY <1>0, <1>1 DEF BeginRun
<1>2. CASE Collect \/ Cancel
  BY <1>0, <1>2 DEF Collect, Cancel, thread, history
<1>3. CASE Crash
  BY <1>0, <1>3 DEF Crash
<1>4. ASSUME NEW s \in Sources,
             NEW p \in {"ready", "enqueue", "lookup", "attempt", "wait", "ended"},
             pc' = [pc EXCEPT ![s] = p] \/ pc' = pc, UNCHANGED <<cancelled, late>>
      PROVE  LateOnce'
  BY <1>0, <1>4
<1>5. ASSUME NEW s \in Sources, Attempt(s) PROVE LateOnce'
  <2>1. CASE cancelled
    BY <1>4, <1>5, <2>1 DEF Attempt, StopsAttempt, Leave
  <2>2. CASE ~cancelled
    BY <1>0, <1>5, <2>2 DEF Attempt, StopsAttempt
  <2> QED BY <1>0, <2>1, <2>2
<1>6. ASSUME NEW s \in Sources, Pay(s) PROVE LateOnce'
  <2>1. late[s] = 0
    BY <1>6 DEF Pay
  <2>2. /\ cancelled' = cancelled
        /\ late' = [late EXCEPT ![s] = IF cancelled THEN @ + 1 ELSE @]
        /\ pc' = [pc EXCEPT ![s] = "wait"]
    BY <1>6 DEF Pay
  <2> QED BY <1>0, <2>1, <2>2
<1>7. ASSUME NEW s \in Sources, NEW q \in Queries,
             SkipQuery(s, q) \/ RecordQuery(s, q) \/ DiscoverBlocked(s, q)
      PROVE  LateOnce'
  BY <1>4, <1>7 DEF SkipQuery, RecordQuery, DiscoverBlocked, Leave, history
<1>8. ASSUME NEW s \in Sources, EnqueueUrls(s) \/ Pop(s) \/ LeaveLoop(s) PROVE LateOnce'
  BY <1>4, <1>8 DEF EnqueueUrls, Pop, LeaveLoop, Leave, history
<1>9. ASSUME NEW s \in Sources, NEW u \in Urls,
             Refuse(s, u) \/ FindExhausted(s, u) \/ Claim(s, u)
      PROVE  LateOnce'
  BY <1>4, <1>9 DEF Refuse, FindExhausted, Claim, Leave, history
<1>10. ASSUME NEW s \in Sources, LookUp(s) PROVE LateOnce'
  BY <1>4, <1>10 DEF LookUp, Ingest
<1>11. ASSUME NEW s \in Sources,
              PayRefused(s) \/ AnswerFound(s) \/ AnswerOther(s) \/ AnswerRetry(s)
                  \/ AnswerRaises(s)
       PROVE  LateOnce'
  BY <1>4, <1>11 DEF PayRefused, AnswerFound, Ingest, AnswerOther, AnswerRetry,
                     AnswerRaises, Leave, history
<1>12. CASE UNCHANGED vars
  BY <1>0, <1>12 DEF vars, thread, history
<1> QED
  BY <1>1, <1>2, <1>3, <1>5, <1>6, <1>7, <1>8, <1>9, <1>10, <1>11, <1>12
  DEF Next, SourceStep

\* A cancel stops new work: after it each source pays for one more page at most, retries
\* included (raise_if_cancelled before every attempt).
THEOREM CancelBoundsFetching == Spec => []CancelStopsFetching
<1>1. Init => LateOnce
  BY InitOK
<1>2. LateOnce => CancelStopsFetching
  BY DEF LateOnce, CancelStopsFetching
<1> QED BY <1>1, <1>2, LateStep, Inductive, PTL DEF Spec

-------------------------------------------------------------------------------
(* The floor. *)

LEMMA MaxWithZero ==
    ASSUME NEW d \in Int
    PROVE  Max({0, d}) = IF d >= 0 THEN d ELSE 0
<1>1. PICK zero \in Int : zero = 0
  OBVIOUS
<1>2. \E x \in {zero, d} : \A y \in {zero, d} : x >= y
  BY <1>1
<1>3. Max({zero, d}) \in {zero, d} /\ \A y \in {zero, d} : Max({zero, d}) >= y
  BY <1>2 DEF Max
<1> QED BY <1>1, <1>3

\* The claims of a source that is over are its own business no more.
FinishedEnded == \A s \in finished : pc[s] = "ended"

\* What is left of an allowance.
LEMMA UnusedOK ==
    ASSUME NEW a \in Nat, NEW n \in Nat
    PROVE  Max({0, a - n}) = IF a >= n THEN a - n ELSE 0
<1>1. Max({0, a - n}) = IF a - n >= 0 THEN a - n ELSE 0
  BY MaxWithZero
<1> QED BY <1>1

\* The reserve's account in any state.
LEMMA Account ==
    ASSUME TypeOK
    PROVE  /\ IsFiniteSet(Sources) /\ IsFiniteSet(Sources \ finished)
           /\ allowance \in Nat /\ budget \in Nat
           /\ \A s \in Sources : claims[s] \in Nat /\ Unused[s] \in Nat
           /\ \A s \in Sources :
                Unused[s] = IF allowance >= claims[s] THEN allowance - claims[s] ELSE 0
           /\ SumFunctionOnSet(claims, Sources) \in Nat
<1>1. IsFiniteSet(Sources) /\ IsFiniteSet(Sources \ finished)
  BY FS_Difference
<1>2. allowance \in Nat /\ budget \in Nat /\ \A s \in Sources : claims[s] \in Nat
  BY DEF TypeOK
<1>3. \A s \in Sources :
        Unused[s] = IF allowance >= claims[s] THEN allowance - claims[s] ELSE 0
  BY <1>2, UnusedOK DEF Unused
<1>4. \A s \in Sources : Unused[s] \in Nat
  BY <1>2, <1>3
<1>5. SumFunctionOnSet(claims, Sources) \in Nat
  BY <1>1, <1>2, SumType
<1> QED BY <1>1, <1>2, <1>3, <1>4, <1>5

\* One source claims or gives back pages, and leaves or goes on: the floor of the others
\* is held if its own side of the account is.
LEMMA FloorAt ==
    ASSUME TypeOK, TypeOK', NEW s \in Sources \ finished,
           UNCHANGED <<allowance, budget>>,
           \A o \in Sources \ {s} : claims'[o] = claims[o],
           finished' \in {finished, finished \cup {s}},
           budget - (SumFunctionOnSet(claims, Sources) + claims'[s] - claims[s]) >=
               SumFunctionOnSet(Unused, (Sources \ finished) \ {s})
                 + (IF s \in finished' THEN 0 ELSE Unused'[s])
    PROVE  FloorHeld'
<1> DEFINE rest == (Sources \ finished) \ {s}
<1>1. /\ IsFiniteSet(Sources) /\ IsFiniteSet(Sources \ finished)
      /\ \A o \in Sources : claims[o] \in Nat /\ Unused[o] \in Nat
  BY Account
<1>2. allowance' \in Nat /\ \A o \in Sources : claims'[o] \in Nat
  BY DEF TypeOK
<1>3. SumFunctionOnSet(claims', Sources) =
        SumFunctionOnSet(claims, Sources) + claims'[s] - claims[s]
  BY <1>1, <1>2, SumChanges
<1>4. \A o \in Sources : Unused'[o] \in Nat
  <2> SUFFICES ASSUME NEW o \in Sources PROVE Unused'[o] \in Nat
    OBVIOUS
  <2>1. Unused'[o] = Max({0, allowance' - claims'[o]})
    BY DEF Unused
  <2>2. allowance' \in Nat /\ claims'[o] \in Nat
    BY <1>2
  <2>3. Max({0, allowance' - claims'[o]}) =
          IF allowance' >= claims'[o] THEN allowance' - claims'[o] ELSE 0
    BY <2>2, UnusedOK
  <2> QED BY <2>1, <2>2, <2>3
<1>5. \A o \in rest : Unused'[o] = Unused[o]
  BY DEF Unused
<1>6. IsFiniteSet(rest)
  BY <1>1, FS_RemoveElement
<1>7. SumFunctionOnSet(Unused', rest) = SumFunctionOnSet(Unused, rest)
  BY <1>1, <1>4, <1>5, <1>6, SumOfSame
<1>8. SumFunctionOnSet(Unused', Sources \ finished') =
        SumFunctionOnSet(Unused', rest) + (IF s \in finished' THEN 0 ELSE Unused'[s])
  <2>1. CASE finished' = finished \cup {s}
    <3>1. Sources \ finished' = rest
      BY <2>1
    <3>2. SumFunctionOnSet(Unused', rest) \in Nat
      BY <1>4, <1>6, SumType
    <3>3. s \in finished'
      BY <2>1
    <3>4. SumFunctionOnSet(Unused', Sources \ finished') = SumFunctionOnSet(Unused', rest)
      BY <3>1, Zenon
    <3>5. \A n \in Nat : n = n + 0
      OBVIOUS
    <3> QED BY <3>2, <3>3, <3>4, <3>5
  <2>2. CASE finished' = finished
    <3>1. /\ SumFunctionOnSet(Unused', rest) \in Nat
          /\ SumFunctionOnSet(Unused', Sources \ finished) =
               Unused'[s] + SumFunctionOnSet(Unused', rest)
      BY <1>1, <1>4, SumSplits
    <3> QED BY <1>4, <2>2, <3>1
  <2> QED BY <2>1, <2>2
<1> QED BY <1>3, <1>7, <1>8 DEF FloorHeld, RemainingAfterClaims

\* Held for all the sources together, the allowance is never more than there is.
LEMMA AllowanceFits ==
    ASSUME NEW r \in Nat
    PROVE  Cardinality(Sources) * Allowance(r) <= r
<1>1. Cardinality(Sources) \in Nat /\ (Sources # {} => Cardinality(Sources) # 0)
  BY FS_CardinalityType, FS_EmptySet
<1>2. CASE r <= 0 \/ Sources = {}
  BY <1>1, <1>2 DEF Allowance
<1>3. CASE ~(r <= 0 \/ Sources = {}) /\ Floor * Cardinality(Sources) <= r
  BY <1>1, <1>3 DEF Allowance
<1>4. CASE ~(r <= 0 \/ Sources = {}) /\ ~(Floor * Cardinality(Sources) <= r)
  <2>1. \A n \in Nat \ {0} : n * (r \div n) <= r
    OBVIOUS
  <2> QED BY <1>1, <1>4, <2>1 DEF Allowance
<1> QED BY <1>2, <1>3, <1>4

\* A run starts with the floor of every source covered.
LEMMA FloorAtStart == TypeOK /\ BeginRun => FloorHeld'
<1> SUFFICES ASSUME TypeOK, BeginRun PROVE FloorHeld'
  OBVIOUS
<1>1. Remaining \in Nat
  BY DEF TypeOK, Remaining
<1>2. /\ budget' = Remaining /\ allowance' = Allowance(Remaining)
      /\ finished' = {} /\ \A s \in Sources : claims'[s] = 0
  BY DEF BeginRun
<1>3. allowance' \in Nat
  BY <1>1, <1>2, AllowanceOK
<1>4. \A s \in Sources : Unused'[s] = allowance'
  <2> SUFFICES ASSUME NEW s \in Sources PROVE Unused'[s] = allowance'
    OBVIOUS
  <2>1. Unused'[s] = Max({0, allowance' - claims'[s]})
    BY DEF Unused
  <2>2. claims'[s] \in Nat /\ allowance' >= claims'[s] /\ allowance' - claims'[s] = allowance'
    BY <1>2, <1>3
  <2> QED BY <1>3, <2>1, <2>2, UnusedOK
<1>5. Cardinality(Sources) \in Nat
  BY FS_CardinalityType
<1>6. SumFunctionOnSet(claims', Sources) = 0
  <2>1. SumFunctionOnSet(claims', Sources) = Cardinality(Sources) * 0
    BY <1>2, SumOfEqual
  <2> QED BY <1>5, <2>1
<1>7. SumFunctionOnSet(Unused', Sources) = Cardinality(Sources) * allowance'
  BY <1>3, <1>4, SumOfEqual
<1>8. Sources \ finished' = Sources
  BY <1>2
<1>9. Cardinality(Sources) * allowance' <= Remaining
  BY <1>1, <1>2, AllowanceFits
<1>10. budget' - SumFunctionOnSet(claims', Sources) >= SumFunctionOnSet(Unused', Sources)
  BY <1>1, <1>2, <1>6, <1>7, <1>9
<1> QED BY <1>8, <1>10 DEF FloorHeld, RemainingAfterClaims

\* What the floor leaves to a source that is at work.
LEMMA FloorSplit ==
    ASSUME TypeOK, NEW s \in Sources \ finished
    PROVE  /\ SumFunctionOnSet(Unused, Sources \ finished) =
                Unused[s] + SumFunctionOnSet(Unused, (Sources \ finished) \ {s})
           /\ SumFunctionOnSet(Unused, (Sources \ finished) \ {s}) \in Nat
           /\ allowance = 0 => SumFunctionOnSet(Unused, (Sources \ finished) \ {s}) = 0
<1>1. IsFiniteSet(Sources \ finished) /\ \A o \in Sources : Unused[o] \in Nat
  BY Account
<1>2. /\ SumFunctionOnSet(Unused, Sources \ finished) =
           Unused[s] + SumFunctionOnSet(Unused, (Sources \ finished) \ {s})
      /\ SumFunctionOnSet(Unused, (Sources \ finished) \ {s}) \in Nat
  BY <1>1, SumSplits
<1>3. ASSUME allowance = 0
      PROVE  SumFunctionOnSet(Unused, (Sources \ finished) \ {s}) = 0
  <2> DEFINE rest == (Sources \ finished) \ {s}
  <2>1. \A o \in rest : Unused[o] = 0
    BY <1>3, Account
  <2>2. IsFiniteSet(rest)
    BY <1>1, FS_RemoveElement
  <2>3. Cardinality(rest) \in Nat
    BY <2>2, FS_CardinalityType
  <2>4. SumFunctionOnSet(Unused, rest) = Cardinality(rest) * 0
    <3> HIDE DEF rest
    <3> QED BY <2>1, <2>2, SumOfEqual
  <2> QED BY <2>3, <2>4
<1> QED BY <1>2, <1>3

\* A claim takes from the source's own allowance, or from what no other source is owed.
LEMMA FloorAfterClaim ==
    ASSUME TypeOK, TypeOK', FloorHeld, NEW s \in Sources \ finished, MayClaim(s),
           claims' = Claimed(s), UNCHANGED <<allowance, budget, finished>>
    PROVE  FloorHeld'
<1> DEFINE total == SumFunctionOnSet(claims, Sources)
           others == SumFunctionOnSet(Unused, (Sources \ finished) \ {s})
<1>1. /\ allowance \in Nat /\ budget \in Nat /\ claims[s] \in Nat /\ total \in Nat
      /\ Unused[s] = IF allowance >= claims[s] THEN allowance - claims[s] ELSE 0
  BY Account
<1>2. /\ budget - total >= Unused[s] + others /\ others \in Nat
      /\ allowance = 0 => others = 0
  BY FloorSplit DEF FloorHeld, RemainingAfterClaims
<1>3. Sources \ (finished \cup {s}) = (Sources \ finished) \ {s}
  OBVIOUS
<1>4. /\ budget - total > 0
      /\ allowance > 0 /\ claims[s] >= allowance => budget - total > others
  BY <1>3 DEF MayClaim, RemainingAfterClaims, ReservedForOthers
<1>5. /\ claims'[s] = claims[s] + 1
      /\ \A o \in Sources \ {s} : claims'[o] = claims[o]
  BY DEF Claimed, TypeOK
<1>6. Unused'[s] = IF allowance >= claims[s] + 1 THEN allowance - (claims[s] + 1) ELSE 0
  <2>1. Unused'[s] = Max({0, allowance - (claims[s] + 1)})
    BY <1>5 DEF Unused
  <2>2. claims[s] + 1 \in Nat
    BY <1>1
  <2> QED BY <1>1, <2>1, <2>2, UnusedOK
<1>7. budget - (total + claims'[s] - claims[s]) >= others + Unused'[s]
  <2> HIDE DEF total, others
  <2> QED BY <1>1, <1>2, <1>4, <1>5, <1>6
<1> QED BY <1>5, <1>7, FloorAt

\* A source that gives a claim back, or is over, owes the others nothing for it.
LEMMA FloorAfterReturn ==
    ASSUME TypeOK, TypeOK', FloorHeld, NEW s \in Sources \ finished,
           claims' \in {claims, Unclaimed(s)}, UNCHANGED <<allowance, budget>>,
           finished' \in {finished, finished \cup {s}}
    PROVE  FloorHeld'
<1> DEFINE total == SumFunctionOnSet(claims, Sources)
           others == SumFunctionOnSet(Unused, (Sources \ finished) \ {s})
<1>1. /\ allowance \in Nat /\ budget \in Nat /\ claims[s] \in Nat /\ total \in Nat
      /\ Unused[s] = IF allowance >= claims[s] THEN allowance - claims[s] ELSE 0
  BY Account
<1>2. budget - total >= Unused[s] + others /\ others \in Nat
  BY FloorSplit DEF FloorHeld, RemainingAfterClaims
<1>3. /\ claims'[s] \in Nat
      /\ claims'[s] = claims[s] \/ claims'[s] = claims[s] - 1
      /\ \A o \in Sources \ {s} : claims'[o] = claims[o]
  BY DEF Unclaimed, TypeOK
<1>4. Unused'[s] = IF allowance >= claims'[s] THEN allowance - claims'[s] ELSE 0
  <2>1. Unused'[s] = Max({0, allowance - claims'[s]})
    BY DEF Unused
  <2> QED BY <1>1, <1>3, <2>1, UnusedOK
<1>5. budget - (total + claims'[s] - claims[s]) >= others + Unused'[s]
  <2> HIDE DEF total, others
  <2> QED BY <1>1, <1>2, <1>3, <1>4
<1>6. budget - (total + claims'[s] - claims[s]) >= others
  <2> HIDE DEF total, others
  <2> QED BY <1>1, <1>2, <1>3
<1>7. others \in Nat
  BY <1>2
<1>8. budget - (total + claims'[s] - claims[s]) >=
          others + (IF s \in finished' THEN 0 ELSE Unused'[s])
  <2> HIDE DEF total, others
  <2> QED BY <1>5, <1>6, <1>7
<1> QED BY <1>3, <1>8, FloorAt

FloorKept == FloorHeld' /\ FinishedEnded'

\* The steps that touch the reserve: a run starts, a claim, a claim given back, a source
\* that is over.
LEMMA FloorStep ==
    ASSUME TypeOK, TypeOK', FloorHeld, FinishedEnded, [Next]_vars
    PROVE  FloorKept
<1>0. /\ pc \in [Sources -> {"ready", "enqueue", "lookup", "attempt", "pay", "wait",
                             "ended"}]
      /\ \A s \in Sources : pc[s] # "ended" => s \in Sources \ finished
  BY DEF TypeOK, FinishedEnded
<1> DEFINE Goes(s) == \E p : pc' = [pc EXCEPT ![s] = p]
           Leaves(s) == pc' = [pc EXCEPT ![s] = "ended"] /\ finished' = finished \cup {s}
           Stays(s) == finished' = finished /\ (pc' = pc \/ Goes(s))
<1>1. ASSUME UNCHANGED reserve, \/ pc' = pc
                                \/ \E s \in Sources : pc[s] # "ended" /\ Goes(s)
      PROVE  FloorKept
  <2>1. FloorHeld'
    BY <1>1 DEF FloorHeld, RemainingAfterClaims, Unused, reserve
  <2>2. finished' = finished
    BY <1>1 DEF reserve
  <2>3. CASE pc' = pc
    BY <2>1, <2>2, <2>3 DEF FloorKept, FinishedEnded
  <2>4. ASSUME NEW s \in Sources, pc[s] # "ended", NEW p, pc' = [pc EXCEPT ![s] = p]
        PROVE  FinishedEnded'
    <3>1. \A o \in Sources : o # s => pc'[o] = pc[o]
      BY <1>0, <2>4
    <3> QED BY <1>0, <2>2, <2>4, <3>1 DEF FinishedEnded, TypeOK
  <2> QED BY <1>1, <2>1, <2>3, <2>4 DEF FloorKept
<1>2. ASSUME NEW s \in Sources, pc[s] # "ended", claims' \in {claims, Unclaimed(s)},
             UNCHANGED <<allowance, budget>>, Leaves(s) \/ Stays(s)
      PROVE  FloorKept
  <2>1. s \in Sources \ finished /\ finished' \in {finished, finished \cup {s}}
    BY <1>0, <1>2
  <2>2. FloorHeld'
    BY <1>2, <2>1, FloorAfterReturn
  <2>3. FinishedEnded'
    BY <1>0, <1>2, <2>1 DEF FinishedEnded, TypeOK
  <2> QED BY <2>2, <2>3 DEF FloorKept
<1>3. CASE BeginRun
  <2>1. FinishedEnded'
    BY <1>3 DEF BeginRun, FinishedEnded
  <2> QED BY <1>3, <2>1, FloorAtStart DEF FloorKept
<1>4. CASE Collect \/ Cancel \/ UNCHANGED vars
  <2>1. UNCHANGED reserve /\ pc' = pc
    BY <1>4 DEF Collect, Cancel, thread, vars
  <2> QED BY <1>1, <2>1
<1>5. CASE Crash
  <2>1. FloorHeld'
    BY <1>5 DEF Crash, FloorHeld, RemainingAfterClaims, Unused, reserve
  <2>2. FinishedEnded'
    BY <1>5 DEF Crash, FinishedEnded, TypeOK, reserve
  <2> QED BY <2>1, <2>2 DEF FloorKept
<1>6. ASSUME NEW s \in Sources, NEW q \in Queries, SkipQuery(s, q) \/ RecordQuery(s, q)
      PROVE  FloorKept
  BY <1>1, <1>6 DEF SkipQuery, RecordQuery
<1>7. ASSUME NEW s \in Sources, NEW q \in Queries, DiscoverBlocked(s, q) PROVE FloorKept
  BY <1>2, <1>7 DEF DiscoverBlocked, Leave
<1>8. ASSUME NEW s \in Sources, EnqueueUrls(s) \/ Pop(s) \/ Pay(s) PROVE FloorKept
  BY <1>1, <1>8 DEF EnqueueUrls, Pop, AtLoop, Pay
<1>9. ASSUME NEW s \in Sources, LeaveLoop(s) PROVE FloorKept
  BY <1>2, <1>9 DEF LeaveLoop, AtLoop, Leave
<1>10. ASSUME NEW s \in Sources, NEW u \in Urls, Refuse(s, u) PROVE FloorKept
  BY <1>1, <1>10 DEF Refuse
<1>11. ASSUME NEW s \in Sources, NEW u \in Urls, FindExhausted(s, u) PROVE FloorKept
  BY <1>2, <1>11 DEF FindExhausted, BeginItem, Leave
<1>12. ASSUME NEW s \in Sources, NEW u \in Urls, Claim(s, u) PROVE FloorKept
  <2>1. pc[s] # "ended" /\ MayClaim(s) /\ claims' = Claimed(s)
    BY <1>12 DEF Claim, BeginItem
  <2>2. UNCHANGED <<allowance, budget, finished>> /\ pc' = [pc EXCEPT ![s] = "lookup"]
    BY <1>12 DEF Claim
  <2>3. FloorHeld'
    BY <1>0, <2>1, <2>2, FloorAfterClaim
  <2>4. FinishedEnded'
    BY <1>0, <2>1, <2>2 DEF FinishedEnded
  <2> QED BY <2>3, <2>4 DEF FloorKept
<1>13. ASSUME NEW s \in Sources, LookUp(s) PROVE FloorKept
  <2>1. CASE <<s, item[s]>> \in cache
    <3>1. /\ pc[s] # "ended" /\ claims' \in {claims, Unclaimed(s)} /\ finished' = finished
          /\ UNCHANGED <<allowance, budget>> /\ pc' = [pc EXCEPT ![s] = "ready"]
      BY <1>13, <2>1 DEF LookUp, Ingest, AfterFetch
    <3> QED BY <1>2, <3>1
  <2>2. CASE <<s, item[s]>> \notin cache
    BY <1>1, <1>13, <2>2 DEF LookUp, reserve
  <2> QED BY <2>1, <2>2
<1>14. ASSUME NEW s \in Sources, Attempt(s) PROVE FloorKept
  BY <1>2, <1>14 DEF Attempt, Leave
<1>15. ASSUME NEW s \in Sources, PayRefused(s) PROVE FloorKept
  BY <1>2, <1>15 DEF PayRefused, Leave
<1>16. ASSUME NEW s \in Sources, AnswerFound(s) PROVE FloorKept
  <2>1. /\ pc[s] # "ended" /\ claims' \in {claims, Unclaimed(s)} /\ finished' = finished
        /\ UNCHANGED <<allowance, budget>> /\ pc' = [pc EXCEPT ![s] = "ready"]
    BY <1>16 DEF AnswerFound, Ingest, AfterFetch
  <2> QED BY <1>2, <2>1
<1>17. ASSUME NEW s \in Sources, AnswerOther(s) \/ AnswerRetry(s) PROVE FloorKept
  BY <1>1, <1>17 DEF AnswerOther, AnswerRetry
<1>18. ASSUME NEW s \in Sources, AnswerRaises(s) PROVE FloorKept
  BY <1>2, <1>18 DEF AnswerRaises, Leave
<1> QED
  BY <1>3, <1>4, <1>5, <1>6, <1>7, <1>8, <1>9, <1>10, <1>11, <1>12, <1>13, <1>14, <1>15,
     <1>16, <1>17, <1>18
  DEF Next, SourceStep

\* Concurrent sources cannot overdraw: however their claims interleave, what is left of
\* the budget covers the floor of every source that is still at work (ExplorationReserve).
THEOREM FloorIsHeld == Spec => []FloorHeld
<1>1. Init => FloorHeld /\ FinishedEnded
  <2> SUFFICES ASSUME Init PROVE FloorHeld /\ FinishedEnded
    OBVIOUS
  <2>1. TypeOK
    BY InitOK DEF IInv
  <2>2. /\ \A s \in Sources : claims[s] = 0 /\ Unused[s] = 0
        /\ budget = 0 /\ finished = {} /\ allowance = 0
    <3>1. allowance = 0 /\ budget = 0 /\ finished = {} /\ \A s \in Sources : claims[s] = 0
      BY DEF Init
    <3> QED BY <2>1, <3>1, Account
  <2>3. SumFunctionOnSet(claims, Sources) = 0 /\ SumFunctionOnSet(Unused, Sources) = 0
    <3>1. /\ SumFunctionOnSet(claims, Sources) = Cardinality(Sources) * 0
          /\ SumFunctionOnSet(Unused, Sources) = Cardinality(Sources) * 0
      BY <2>2, SumOfEqual
    <3>2. Cardinality(Sources) \in Nat
      BY FS_CardinalityType
    <3> QED BY <3>1, <3>2
  <2>4. Sources \ finished = Sources
    BY <2>2
  <2> QED BY <2>2, <2>3, <2>4 DEF FloorHeld, RemainingAfterClaims, FinishedEnded
<1>2. IInv /\ IInv' /\ FloorHeld /\ FinishedEnded /\ [Next]_vars
        => FloorHeld' /\ FinishedEnded'
  BY FloorStep DEF IInv, FloorKept
<1> QED BY <1>1, <1>2, Inductive, PTL DEF Spec
===============================================================================
