------------------------------ MODULE Api_proofs -------------------------------
(***************************************************************************)
(* Proofs about the parts of the API process that the API and the workers  *)
(* share.  Of Budget, for any processes, threads and ceilings: no process  *)
(* and no stored row ever holds more than the sealed ceilings, since what  *)
(* is stored and restored is a copy, and as long as nothing dies and one   *)
(* process is up, what was fetched exceeds what was paid for by no more    *)
(* than one response of each worker of the pool.  Of Service, for any      *)
(* searches, requests at once and restarts: a create starts nothing twice, *)
(* a purge that nobody raced leaves nothing, for ever, and a run with      *)
(* discovery that is over has told of each known source, and once.         *)
(***************************************************************************)
EXTENDS Budget, Service, FiniteSetTheorems, TLAPS

USE HomesAssumption, CeilingAssumption, SizesAssumption

IInv == TypeOK /\ NeverExceedsCeiling

\* Adding and subtracting amounts gives amounts again.
LEMMA AmountsAdd ==
    ASSUME NEW a \in [Dims -> Int], NEW b \in Amounts
    PROVE  Plus(a, b) \in [Dims -> Int] /\ Minus(a, b) \in [Dims -> Int]
BY DEF Plus, Minus, Amounts

\* Amount builds an amount of natural numbers.
LEMMA AmountOK ==
    ASSUME NEW x \in Nat, NEW y \in Nat, NEW z \in Nat
    PROVE  Amount(x, y, z) \in Amounts
BY DEF Amount, Amounts, Dims

LEMMA NoneOK == None \in Amounts
BY AmountOK DEF None

LEMMA NaturalSum ==
    ASSUME NEW a \in Amounts, NEW b \in Amounts
    PROVE  Plus(a, b) \in Amounts
BY DEF Plus, Amounts

LEMMA InitOK == Init => IInv
<1> SUFFICES ASSUME Init PROVE IInv
  OBVIOUS
<1>1. None \in Amounts /\ None \in [Dims -> Int] /\ \A d \in Dims : None[d] = 0
  BY NoneOK DEF None, Amount, Amounts, Dims
<1>2. TypeOK
  BY <1>1 DEF Init, TypeOK
<1>3. NeverExceedsCeiling
  BY <1>1 DEF Init, NeverExceedsCeiling, Used, Plus, Amounts
<1> QED BY <1>2, <1>3 DEF IInv

\* Every step keeps the variables' kinds.
LEMMA TypeStep == TypeOK /\ [Next]_vars => TypeOK'
<1> SUFFICES ASSUME TypeOK, [Next]_vars PROVE TypeOK'
  OBVIOUS
<1> USE DEF TypeOK
<1>1. ASSUME NEW t \in Threads, Reserve(t) PROVE TypeOK'
  <2>1. Plus(reserved[Home[t]], ask[t]) \in [Dims -> Int]
    BY AmountsAdd
  <2> QED BY <1>1, <2>1 DEF Reserve
<1>2. ASSUME NEW t \in Threads, Commit(t) PROVE TypeOK'
  <2>1. /\ Plus(committed[Home[t]], hold[t]) \in [Dims -> Int]
        /\ Cleared(Home[t], hold[t]) \in [Dims -> Int]
    BY AmountsAdd DEF Cleared
  <2> QED BY <1>2, <2>1, NoneOK DEF Commit
<1>3. ASSUME NEW t \in Threads, WantPage(t) PROVE TypeOK'
  BY <1>3, AmountOK DEF WantPage, usage
<1>4. ASSUME NEW t \in Threads, GetPage(t) PROVE TypeOK'
  <2>1. PICK n \in Sizes : /\ spent' = Plus(spent, Amount(1, 0, n))
                           /\ ask' = [ask EXCEPT ![t] = Amount(0, 0, n)]
    BY <1>4 DEF GetPage
  <2>2. Amount(1, 0, n) \in Amounts /\ Amount(0, 0, n) \in Amounts
    BY AmountOK
  <2>3. Plus(spent, Amount(1, 0, n)) \in Amounts
    BY <2>2, NaturalSum
  <2>4. ask' \in [Threads -> Amounts]
    BY <2>1, <2>2
  <2>5. pc' \in [Threads -> {"idle", "stopped", "page", "get", "bytes", "look", "store",
                            "charge", "commit"}]
    BY <1>4 DEF GetPage
  <2>6. UNCHANGED <<committed, reserved, hold, disk, stage, marked, failed, crashes>>
    BY <1>4 DEF GetPage, usage
  <2> QED BY <2>1, <2>3, <2>4, <2>5, <2>6
<1>5. ASSUME NEW t \in Threads, PageRefused(t) PROVE TypeOK'
  BY <1>5, NoneOK DEF PageRefused, usage
<1>6. ASSUME NEW t \in Threads, WantImage(t) PROVE TypeOK'
  BY <1>6, AmountOK DEF WantImage, usage
<1>7. ASSUME NEW t \in Threads, LookAgain(t) PROVE TypeOK'
  <2>1. pc' \in [Threads -> {"idle", "stopped", "page", "get", "bytes", "look", "store",
                            "charge", "commit"}]
    BY <1>7 DEF LookAgain
  <2>2. ask' \in [Threads -> Amounts]
    BY <1>7, NoneOK DEF LookAgain
  <2>3. UNCHANGED <<committed, reserved, hold, disk, stage, marked, failed, spent, crashes>>
    BY <1>7 DEF LookAgain, usage
  <2> QED BY <2>1, <2>2, <2>3
<1>8. ASSUME NEW t \in Threads, StoreImage(t) PROVE TypeOK'
  <2>1. Plus(spent, ask[t]) \in Amounts
    BY NaturalSum
  <2> QED BY <1>8, <2>1 DEF StoreImage, usage
<1>9. ASSUME NEW t \in Threads, ChargeRefused(t) PROVE TypeOK'
  BY <1>9, NoneOK DEF ChargeRefused, usage
<1>10. ASSUME NEW t \in Threads, JobsDone(t) PROVE TypeOK'
  BY <1>10 DEF JobsDone, usage
<1>11. ASSUME NEW p \in Procs, Load(p) PROVE TypeOK'
  BY <1>11 DEF Load, threads
<1>12. ASSUME NEW p \in Procs, OpenPool(p) PROVE TypeOK'
  BY <1>12 DEF OpenPool, usage
<1>13. ASSUME NEW p \in Procs, Persist(p) PROVE TypeOK'
  BY <1>13 DEF Persist, Snapshot, usage, threads
<1>14. ASSUME NEW p \in Procs, Mark(p) PROVE TypeOK'
  BY <1>14 DEF Mark, usage, threads
<1>15. ASSUME NEW p \in Procs, Crash(p) PROVE TypeOK'
  <2>1. None \in Amounts /\ None \in [Dims -> Int]
    BY NoneOK DEF Amounts
  <2>2. committed' \in [Procs -> [Dims -> Int]] /\ reserved' \in [Procs -> [Dims -> Int]]
    BY <1>15, <2>1 DEF Crash
  <2>3. ask' \in [Threads -> Amounts] /\ hold' \in [Threads -> Amounts]
    BY <1>15, <2>1 DEF Crash
  <2>4. crashes' \in 0..MaxCrashes
    BY <1>15 DEF Crash
  <2> QED BY <1>15, <2>2, <2>3, <2>4 DEF Crash
<1>16. ASSUME NEW p \in Procs, Resume(p) PROVE TypeOK'
  BY <1>16 DEF Resume, usage, threads
<1>17. CASE UNCHANGED vars
  BY <1>17 DEF vars, usage, threads
<1> QED
  BY <1>1, <1>2, <1>3, <1>4, <1>5, <1>6, <1>7, <1>8, <1>9, <1>10, <1>11, <1>12, <1>13,
     <1>14, <1>15, <1>16, <1>17 DEF Next, ThreadStep, MainStep

\* A step that leaves the usage of every process and the stored row alone keeps the bound.
LEMMA BoundKept ==
    ASSUME NeverExceedsCeiling, UNCHANGED <<committed, reserved, disk>>
    PROVE  NeverExceedsCeiling'
BY DEF NeverExceedsCeiling, Used

\* Every step keeps every usage, and the stored one, within the ceilings.
LEMMA BoundStep == IInv /\ [Next]_vars => NeverExceedsCeiling'
<1> SUFFICES ASSUME IInv, [Next]_vars PROVE NeverExceedsCeiling'
  OBVIOUS
<1> USE DEF IInv
<1>1. ASSUME NEW t \in Threads, Reserve(t) PROVE NeverExceedsCeiling'
  <2> DEFINE h == Home[t]
  <2>1. h \in Procs /\ reserved[h] \in [Dims -> Int] /\ ask[t] \in Amounts
    BY DEF TypeOK
  <2>2. ASSUME NEW d \in Dims PROVE committed[h][d] + (reserved[h][d] + ask[t][d]) <= Ceiling[d]
    <3>1. committed[h][d] + reserved[h][d] <= Ceiling[d]
      BY <2>1 DEF NeverExceedsCeiling, Used, Plus
    <3>2. ask[t][d] > 0 => (committed[h][d] + reserved[h][d]) + ask[t][d] <= Ceiling[d]
      BY <1>1, <2>1 DEF Reserve, WouldExceed, Used, Plus, TypeOK, Amounts
    <3> QED BY <2>1, <3>1, <3>2 DEF TypeOK, Amounts
  <2>3. reserved' = [reserved EXCEPT ![h] = Plus(@, ask[t])] /\ UNCHANGED <<committed, disk>>
    BY <1>1 DEF Reserve
  <2>4. ASSUME NEW p \in Procs, NEW d \in Dims PROVE Used(p)'[d] <= Ceiling[d]
    <3>1. CASE p = h
      BY <2>1, <2>2, <2>3, <3>1 DEF Used, Plus, TypeOK
    <3>2. CASE p # h
      BY <2>3, <3>2 DEF NeverExceedsCeiling, Used, TypeOK
    <3> QED BY <3>1, <3>2
  <2> QED BY <2>3, <2>4 DEF NeverExceedsCeiling
<1>2. ASSUME NEW t \in Threads, Commit(t) PROVE NeverExceedsCeiling'
  <2> DEFINE h == Home[t]
  <2>1. h \in Procs /\ hold[t] \in Amounts
    BY DEF TypeOK
  <2>2. /\ committed' = [committed EXCEPT ![h] = Plus(@, hold[t])]
        /\ reserved' = [reserved EXCEPT ![h] = Minus(reserved[h], hold[t])]
        /\ UNCHANGED disk
    BY <1>2 DEF Commit, Cleared
  <2>3. ASSUME NEW p \in Procs, NEW d \in Dims PROVE Used(p)'[d] <= Ceiling[d]
    <3>1. Used(p)[d] <= Ceiling[d] /\ Used(p)[d] = committed[p][d] + reserved[p][d]
      BY DEF NeverExceedsCeiling, Used, Plus
    <3>2. CASE p = h
      <4>1. committed'[p][d] = committed[p][d] + hold[t][d]
        BY <2>1, <2>2, <3>2 DEF Plus, TypeOK
      <4>2. reserved'[p][d] = reserved[p][d] - hold[t][d]
        BY <2>1, <2>2, <3>2 DEF Minus, TypeOK
      <4>3. Used(p)'[d] = committed'[p][d] + reserved'[p][d]
        BY DEF Used, Plus
      <4> QED BY <2>1, <3>1, <3>2, <4>1, <4>2, <4>3 DEF TypeOK, Amounts
    <3>3. CASE p # h
      BY <2>2, <3>1, <3>3 DEF Used, Plus, TypeOK
    <3> QED BY <3>2, <3>3
  <2> QED BY <2>2, <2>3 DEF NeverExceedsCeiling
<1>3. ASSUME NEW p \in Procs, Load(p) PROVE NeverExceedsCeiling'
  BY <1>3 DEF Load, NeverExceedsCeiling, Used, Plus, TypeOK
<1>4. ASSUME NEW p \in Procs, Persist(p) PROVE NeverExceedsCeiling'
  BY <1>4 DEF Persist, Snapshot, NeverExceedsCeiling, Used, Plus, TypeOK, usage
<1>5. ASSUME NEW p \in Procs, Crash(p) PROVE NeverExceedsCeiling'
  <2>1. None \in Amounts /\ \A d \in Dims : None[d] = 0
    BY NoneOK DEF None, Amount, Dims
  <2>2. \A q \in Procs : \A d \in Dims : Used(q)'[d] <= Ceiling[d]
    BY <1>5, <2>1 DEF Crash, NeverExceedsCeiling, Used, Plus, TypeOK, Amounts
  <2> QED BY <1>5, <2>2 DEF Crash, NeverExceedsCeiling
<1>6. ASSUME UNCHANGED <<committed, reserved, disk>> PROVE NeverExceedsCeiling'
  BY <1>6, BoundKept
<1>7. ASSUME NEW t \in Threads,
             \/ WantPage(t) \/ GetPage(t) \/ PageRefused(t) \/ WantImage(t) \/ LookAgain(t)
             \/ StoreImage(t) \/ ChargeRefused(t) \/ JobsDone(t)
      PROVE  NeverExceedsCeiling'
  BY <1>6, <1>7 DEF WantPage, GetPage, PageRefused, WantImage, LookAgain, StoreImage,
                    ChargeRefused, JobsDone, usage
<1>8. ASSUME NEW p \in Procs, OpenPool(p) \/ Mark(p) \/ Resume(p) PROVE NeverExceedsCeiling'
  BY <1>6, <1>8 DEF OpenPool, Mark, Resume, usage
<1>9. CASE UNCHANGED vars
  BY <1>6, <1>9 DEF vars, usage
<1> QED
  BY <1>1, <1>2, <1>3, <1>4, <1>5, <1>7, <1>8, <1>9 DEF Next, ThreadStep, MainStep

\* The variables of the budget keep their kinds, whatever the threads do.
THEOREM BudgetTypeCorrect == Spec => []TypeOK
<1>1. Init => TypeOK
  BY InitOK DEF IInv
<1> QED BY <1>1, TypeStep, PTL DEF Spec

\* For any number of processes and threads, through crashes and resumes, the usage of each
\* process and the stored usage stay within the sealed ceilings (BudgetUsage.reserve).
THEOREM CeilingHolds == Spec => []NeverExceedsCeiling
<1>1. IInv /\ [Next]_vars => IInv'
  BY TypeStep, BoundStep DEF IInv
<1>2. IInv => NeverExceedsCeiling
  BY DEF IInv
<1> QED BY InitOK, <1>1, <1>2, PTL DEF Spec

-------------------------------------------------------------------------------
(* While one process works on the campaign and does not die.  Every image  *)
(* it stores is paid for or about to be; a thread about to store one has   *)
(* seen that the usage, which never falls, was below the ceiling.          *)

\* No process has died, and none but the one that created the campaign is at work.
Alone == crashes = 0 /\ \A p \in Procs \ {ApiProc} : stage[p] = "down"

\* How many threads of the campaign's process are at w.
Count(w) == Cardinality({t \in Pool(ApiProc) : pc[t] = w})

Workers == Cardinality(Pool(ApiProc))

UsedImages == Used(ApiProc)["images"]

\* The campaign's process is between two pools.
Rests == stage[ApiProc] \in {"load", "next", "discovered", "acquired", "over"}

\* Who is at work, and what was loaded.
OneAtWork ==
    /\ \A t \in Threads : Home[t] # ApiProc => pc[t] = "stopped"
    /\ Rests => Quiet(ApiProc)
    /\ stage[ApiProc] # "down"
    /\ stage[ApiProc] = "load" =>
          /\ disk = [committed |-> None, reserved |-> None]
          /\ spent = None /\ ~failed[ApiProc]

\* What a thread wants to consume fits the place where it is.
AskFits ==
    \A t \in Threads :
        /\ pc[t] \in {"page", "bytes"} => ask[t]["images"] = 0
        /\ pc[t] \in {"look", "store", "charge"} => ask[t]["pages"] = 0 /\ ask[t]["images"] = 1

\* A page is paid for before it is asked for.
PagesPaid == spent["pages"] + Count("get") <= committed[ApiProc]["pages"]

\* What is stored is paid for or being paid for, and not every thread can be storing or
\* paying at the ceiling.
ImagesPaid ==
    /\ spent["images"] = UsedImages + Count("charge")
    /\ UsedImages + Count("store") + Count("charge") <= Ceiling["images"] + Workers - 1

\* After a refused payment no image is begun, and those begun are stored only while the
\* usage is below the ceiling.
ImagesFinishing ==
    /\ spent["images"] + Count("store") <= Ceiling["images"] + Workers - 1
    /\ UsedImages < Ceiling["images"] =>
          spent["images"] + Count("store") + Count("look") <= Ceiling["images"] + Workers - 1

AloneInv ==
    /\ OneAtWork /\ AskFits /\ PagesPaid
    /\ ~failed[ApiProc] => ImagesPaid
    /\ failed[ApiProc] => ImagesFinishing


LEMMA AmountParts ==
    ASSUME NEW x, NEW y, NEW z
    PROVE  /\ Amount(x, y, z)["pages"] = x /\ Amount(x, y, z)["images"] = y
           /\ None["pages"] = 0 /\ None["images"] = 0
BY DEF Amount, None, Dims

\* The counts are of finite sets.
LEMMA CountNat == Workers \in Nat /\ Workers > 0 /\ \A w : Count(w) \in Nat
<1>1. IsFiniteSet(Pool(ApiProc))
  BY PoolAssumption, FS_Subset DEF Pool
<1>2. Workers \in Nat
  BY <1>1, FS_CardinalityType DEF Workers
<1>3. Pool(ApiProc) # {}
  BY PoolAssumption DEF Pool
<1>4. Workers > 0
  BY <1>1, <1>2, <1>3, FS_EmptySet DEF Workers
<1>5. ASSUME NEW w PROVE Count(w) \in Nat
  BY <1>1, FS_Subset, FS_CardinalityType DEF Count
<1> QED BY <1>2, <1>4, <1>5

\* A thread is at one place: those at three places are no more than the pool has.
LEMMA CountSum ==
    ASSUME NEW u, NEW v, NEW w, u # v, u # w, v # w
    PROVE  Count(u) + Count(v) <= Workers /\ Count(u) + Count(v) + Count(w) <= Workers
<1> DEFINE Those(x) == {t \in Pool(ApiProc) : pc[t] = x}
<1>1. IsFiniteSet(Pool(ApiProc))
  BY PoolAssumption, FS_Subset DEF Pool
<1>2. IsFiniteSet(Those(u)) /\ IsFiniteSet(Those(v)) /\ IsFiniteSet(Those(w))
  BY <1>1, FS_Subset
<1>3. Those(u) \cap Those(v) = {} /\ (Those(u) \cup Those(v)) \cap Those(w) = {}
  OBVIOUS
<1> HIDE DEF At
<1>4. /\ IsFiniteSet(Those(u) \cup Those(v))
      /\ Cardinality(Those(u) \cup Those(v)) = Cardinality(Those(u)) + Cardinality(Those(v)) - Cardinality({})
  BY <1>2, <1>3, FS_Union
<1>5. /\ IsFiniteSet(Those(u) \cup Those(v) \cup Those(w))
      /\ Cardinality(Those(u) \cup Those(v) \cup Those(w))
             = Cardinality(Those(u) \cup Those(v)) + Cardinality(Those(w)) - Cardinality({})
  BY <1>2, <1>3, <1>4, FS_Union
<1>6. /\ Those(u) \cup Those(v) \subseteq Pool(ApiProc)
      /\ Those(u) \cup Those(v) \cup Those(w) \subseteq Pool(ApiProc)
  BY DEF At
<1>7. /\ Cardinality(Those(u) \cup Those(v)) <= Workers
      /\ Cardinality(Those(u) \cup Those(v) \cup Those(w)) <= Workers
  BY <1>1, <1>6, FS_Subset DEF Workers
<1>8. Cardinality({}) = 0
  BY FS_EmptySet
<1>9. Count(u) = Cardinality(Those(u)) /\ Count(v) = Cardinality(Those(v)) /\ Count(w) = Cardinality(Those(w))
  BY DEF Count, At
<1> QED BY <1>4, <1>5, <1>7, <1>8, <1>9, CountNat

\* One thread has moved from a place to another.
Moved(a, b) ==
    \A w : /\ a # w /\ b # w => Count(w)' = Count(w)
           /\ a # w /\ b = w => Count(w)' = Count(w) + 1
           /\ a = w /\ b # w => Count(w)' = Count(w) - 1

\* A thread that moves leaves one count and enters another.
LEMMA CountMoves ==
    ASSUME TypeOK, NEW t \in Threads, Home[t] = ApiProc, NEW q,
           pc' = [pc EXCEPT ![t] = q]
    PROVE  Moved(pc[t], q)
<1> SUFFICES ASSUME NEW CONSTANT w
             PROVE  /\ pc[t] # w /\ q # w => Count(w)' = Count(w)
                    /\ pc[t] # w /\ q = w => Count(w)' = Count(w) + 1
                    /\ pc[t] = w /\ q # w => Count(w)' = Count(w) - 1
  BY DEF Moved
<1> DEFINE S == {s \in Pool(ApiProc) : pc[s] = w}
<1> DEFINE T == {s \in Pool(ApiProc) : pc'[s] = w}
<1>1. IsFiniteSet(S)
  BY PoolAssumption, FS_Subset DEF Pool
<1>2. \A s \in Pool(ApiProc) : pc'[s] = IF s = t THEN q ELSE pc[s]
  BY DEF TypeOK, Pool
<1>3. t \in Pool(ApiProc)
  BY DEF Pool
<1>4. Count(w) = Cardinality(S) /\ Count(w)' = Cardinality(T)
  BY DEF Count, Pool
<1>5. CASE pc[t] # w /\ q # w
  <2>1. S = T
    BY <1>2, <1>5
  <2> QED BY <2>1, <1>4, <1>5
<1>6. CASE pc[t] # w /\ q = w
  <2>1. T = S \cup {t} /\ t \notin S
    BY <1>2, <1>3, <1>6
  <2> HIDE DEF S, T
  <2> QED BY <1>1, <1>4, <1>6, <2>1, FS_AddElement
<1>7. CASE pc[t] = w /\ q # w
  <2>1. T = S \ {t} /\ t \in S
    BY <1>2, <1>3, <1>7
  <2> HIDE DEF S, T
  <2> QED BY <1>1, <1>4, <1>7, <2>1, FS_RemoveElement
<1> QED BY <1>5, <1>6, <1>7

\* Where no thread is, the count is zero.
LEMMA CountZero ==
    ASSUME NEW w, \A t \in Pool(ApiProc) : pc[t] # w
    PROVE  Count(w) = 0
<1>1. {t \in Pool(ApiProc) : pc[t] = w} = {}
  OBVIOUS
<1> QED BY <1>1, FS_EmptySet DEF Count

\* Where a thread is, the count is not zero.
LEMMA CountSome ==
    ASSUME NEW t \in Threads, Home[t] = ApiProc
    PROVE  Count(pc[t]) > 0
<1> DEFINE S == {s \in Pool(ApiProc) : pc[s] = pc[t]}
<1>1. IsFiniteSet(S)
  BY PoolAssumption, FS_Subset DEF Pool
<1>2. S # {}
  BY DEF Pool
<1> HIDE DEF S
<1>3. Cardinality(S) \in Nat /\ Cardinality(S) # 0
  BY <1>1, <1>2, FS_EmptySet, FS_CardinalityType
<1> QED BY <1>3 DEF Count, S

\* Nobody dies or joins unnoticed: who is alone after a step was so before it.
LEMMA AloneBefore == TypeOK /\ [Next]_vars /\ Alone' => Alone
<1> SUFFICES ASSUME TypeOK, [Next]_vars, Alone' PROVE Alone
  OBVIOUS
<1>1. ASSUME NEW t \in Threads, ThreadStep(t) PROVE UNCHANGED <<stage, crashes>>
  BY <1>1 DEF ThreadStep, WantPage, GetPage, PageRefused, WantImage, LookAgain, StoreImage,
              ChargeRefused, Reserve, Commit, JobsDone
<1>2. ASSUME NEW p \in Procs, Load(p) \/ OpenPool(p) \/ Persist(p) \/ Mark(p)
      PROVE  Alone
  <2>1. crashes' = crashes /\ p = ApiProc
    BY <1>2 DEF Load, OpenPool, Persist, Mark, TypeOK, Alone
  <2>2. \A o \in Procs \ {ApiProc} : stage'[o] = stage[o]
    BY <1>2, <2>1 DEF Load, OpenPool, Persist, Mark, TypeOK
  <2> QED BY <2>1, <2>2 DEF Alone
<1>3. ASSUME NEW p \in Procs, Crash(p) PROVE FALSE
  BY <1>3 DEF Crash, Alone, TypeOK
<1>4. ASSUME NEW p \in Procs, Resume(p) PROVE FALSE
  BY <1>4 DEF Resume, Alone, TypeOK
<1>5. CASE UNCHANGED vars
  BY <1>5 DEF vars, Alone
<1>6. CASE UNCHANGED <<stage, crashes>>
  BY <1>6 DEF Alone
<1> QED BY <1>1, <1>2, <1>3, <1>4, <1>5, <1>6 DEF Next, MainStep

\* A thread that takes a step is one of the campaign's process, which is not between two
\* pools.
LEMMA ThreadOfOne ==
    ASSUME TypeOK, OneAtWork, NEW t \in Threads, pc[t] # "stopped", NEW q,
           pc' = [pc EXCEPT ![t] = q], stage' = stage
    PROVE  Home[t] = ApiProc /\ OneAtWork'
<1>1. Home[t] = ApiProc
  BY DEF OneAtWork
<1>2. ~Rests
  BY <1>1 DEF OneAtWork, Quiet, Pool
<1>3. ~Rests' /\ stage'[ApiProc] # "load"
  BY <1>2 DEF Rests
<1>4. \A s \in Threads : Home[s] # ApiProc => pc'[s] = "stopped"
  BY <1>1 DEF OneAtWork, TypeOK
<1> QED BY <1>1, <1>3, <1>4 DEF OneAtWork

\* The other threads want what they wanted.
LEMMA AskKept ==
    ASSUME TypeOK, AskFits, NEW t \in Threads, NEW q, pc' = [pc EXCEPT ![t] = q],
           \A s \in Threads \ {t} : ask'[s] = ask[s],
           q \in {"page", "bytes"} => ask'[t]["images"] = 0,
           q \in {"look", "store", "charge"} => ask'[t]["pages"] = 0 /\ ask'[t]["images"] = 1
    PROVE  AskFits'
<1>1. ASSUME NEW s \in Threads
      PROVE  /\ pc'[s] \in {"page", "bytes"} => ask'[s]["images"] = 0
             /\ pc'[s] \in {"look", "store", "charge"} =>
                   ask'[s]["pages"] = 0 /\ ask'[s]["images"] = 1
  <2>1. CASE s = t
    BY <2>1 DEF TypeOK
  <2>2. CASE s # t
    BY <2>2 DEF TypeOK, AskFits
  <2> QED BY <2>1, <2>2
<1> QED BY <1>1 DEF AskFits

\* The sums are of integers.
LEMMA SumsOK ==
    ASSUME TypeOK
    PROVE  /\ UsedImages = committed[ApiProc]["images"] + reserved[ApiProc]["images"]
           /\ committed[ApiProc]["images"] \in Int /\ reserved[ApiProc]["images"] \in Int
           /\ UsedImages \in Int /\ committed[ApiProc]["pages"] \in Int
           /\ spent["images"] \in Nat /\ spent["pages"] \in Nat
           /\ Ceiling["images"] \in Nat
BY DEF UsedImages, Used, Plus, Dims, TypeOK, Amounts

\* A payment that is admitted, and a look that says yes, find the usage below the ceiling.
LEMMA BelowCeiling ==
    ASSUME TypeOK, NEW a, a["images"] = 1, ~WouldExceed(ApiProc, a)
    PROVE  UsedImages < Ceiling["images"]
<1>1. ~(a["images"] > 0 /\ UsedImages + a["images"] > Ceiling["images"])
  BY DEF WouldExceed, UsedImages, Dims
<1> QED BY <1>1, SumsOK

\* A move that neither begins an image nor stores nor pays leaves the sums in order.
LEMMA IdleMove ==
    ASSUME TypeOK, AloneInv, NEW t \in Threads, Home[t] = ApiProc, NEW q,
           pc' = [pc EXCEPT ![t] = q], q \notin {"get", "look", "store", "charge"},
           pc[t] \notin {"get", "store", "charge"},
           UNCHANGED <<spent, committed, reserved, failed>>
    PROVE  /\ PagesPaid' /\ (~failed'[ApiProc] => ImagesPaid')
           /\ (failed'[ApiProc] => ImagesFinishing')
<1>m. Moved(pc[t], q)
  BY CountMoves
<1>1. /\ Count("get")' = Count("get") /\ Count("store")' = Count("store")
      /\ Count("charge")' = Count("charge")
  BY <1>m DEF Moved
<1>2. Count("look")' = Count("look") \/ Count("look")' = Count("look") - 1
  BY <1>m DEF Moved
<1>3. UsedImages' = UsedImages /\ Workers' = Workers
  BY DEF UsedImages, Used, Workers, Pool
<1>4. PagesPaid'
  BY <1>1 DEF AloneInv, PagesPaid
<1>5. ~failed[ApiProc] => ImagesPaid'
  BY <1>1, <1>3 DEF AloneInv, ImagesPaid
<1>6. failed[ApiProc] => ImagesFinishing'
  BY <1>1, <1>2, <1>3, SumsOK, CountNat DEF AloneInv, ImagesFinishing
<1> QED BY <1>4, <1>5, <1>6

LEMMA ReserveStep ==
    ASSUME TypeOK, AloneInv, NEW t \in Threads, Reserve(t)
    PROVE  AloneInv'
<1>1. /\ pc[t] \in {"page", "bytes", "charge"} /\ pc' = [pc EXCEPT ![t] = "commit"]
      /\ ~WouldExceed(Home[t], ask[t])
      /\ reserved' = [reserved EXCEPT ![Home[t]] = Plus(@, ask[t])]
      /\ UNCHANGED <<committed, ask, stage, failed, spent>>
  BY DEF Reserve
<1>2. Home[t] = ApiProc /\ OneAtWork'
  BY <1>1, ThreadOfOne DEF AloneInv
<1>m. Moved(pc[t], "commit")
  BY <1>1, <1>2, CountMoves
<1>3. AskFits'
  BY <1>1, AskKept DEF AloneInv
<1>4. Count("get")' = Count("get") /\ Count("store")' = Count("store")
  BY <1>1, <1>m DEF Moved
<1>5. Count("look")' = Count("look") /\ Workers' = Workers
  BY <1>1, <1>m DEF Moved, Workers, Pool
<1>6. PagesPaid'
  BY <1>1, <1>4 DEF AloneInv, PagesPaid
<1>7. UsedImages' = UsedImages + ask[t]["images"]
  BY <1>1, <1>2 DEF UsedImages, Used, Plus, TypeOK, Dims, Amounts
<1>8. CASE pc[t] # "charge"
  <2>1. ask[t]["images"] = 0 /\ Count("charge")' = Count("charge")
    <3>1. ask[t]["images"] = 0
      BY <1>1, <1>8 DEF AloneInv, AskFits
    <3> QED BY <1>1, <1>8, <3>1, <1>m DEF Moved
  <2>2. UsedImages' = UsedImages
    BY <1>7, <2>1, SumsOK
  <2>3. ~failed[ApiProc] => ImagesPaid'
    BY <1>1, <1>4, <1>5, <2>1, <2>2 DEF AloneInv, ImagesPaid
  <2>4. failed[ApiProc] => ImagesFinishing'
    BY <1>1, <1>4, <1>5, <2>1, <2>2 DEF AloneInv, ImagesFinishing
  <2> QED BY <1>1, <1>2, <1>3, <1>6, <2>3, <2>4 DEF AloneInv
<1>9. CASE pc[t] = "charge"
  <2>1. ask[t]["images"] = 1 /\ Count("charge")' = Count("charge") - 1
    <3>1. ask[t]["images"] = 1
      BY <1>9 DEF AloneInv, AskFits
    <3>2. Count("charge")' = Count("charge") - 1
      BY <1>1, <1>9, <1>m DEF Moved
    <3> QED BY <3>1, <3>2
  <2>2. UsedImages' = UsedImages + 1
    BY <1>7, <2>1
  <2>3. ~failed[ApiProc] => ImagesPaid'
    BY <1>1, <1>4, <1>5, <2>1, <2>2, SumsOK, CountNat DEF AloneInv, ImagesPaid
  <2>4. failed[ApiProc] => ImagesFinishing'
    BY <1>1, <1>4, <1>5, <2>2, SumsOK, CountNat DEF AloneInv, ImagesFinishing
  <2> QED BY <1>1, <1>2, <1>3, <1>6, <2>3, <2>4 DEF AloneInv
<1> QED BY <1>8, <1>9

LEMMA CommitStep ==
    ASSUME TypeOK, AloneInv, NEW t \in Threads, Commit(t)
    PROVE  AloneInv'
<1> DEFINE q == IF hold[t]["pages"] > 0 THEN "get" ELSE "idle"
<1>1. /\ pc[t] = "commit" /\ pc' = [pc EXCEPT ![t] = q]
      /\ committed' = [committed EXCEPT ![Home[t]] = Plus(@, hold[t])]
      /\ reserved' = [reserved EXCEPT ![Home[t]] = Minus(reserved[Home[t]], hold[t])]
      /\ ask' = [ask EXCEPT ![t] = None]
      /\ UNCHANGED <<stage, failed, spent>>
  BY DEF Commit, Cleared
<1>2. q \in {"get", "idle"}
  OBVIOUS
<1> HIDE DEF q
<1>3. Home[t] = ApiProc /\ OneAtWork'
  BY <1>1, ThreadOfOne DEF AloneInv
<1>m. Moved("commit", q)
  BY <1>1, <1>3, CountMoves
<1>4. AskFits'
  BY <1>1, <1>2, AskKept DEF AloneInv, TypeOK
<1>5. /\ Count("store")' = Count("store") /\ Count("charge")' = Count("charge")
      /\ Count("look")' = Count("look")
  BY <1>1, <1>2, <1>m DEF Moved
<1>6. Workers' = Workers
  BY DEF Workers, Pool
<1>7. hold[t]["pages"] \in Nat /\ hold[t]["images"] \in Nat
  BY DEF TypeOK, Amounts, Dims
<1>8. /\ committed'[ApiProc]["images"] = committed[ApiProc]["images"] + hold[t]["images"]
      /\ reserved'[ApiProc]["images"] = reserved[ApiProc]["images"] - hold[t]["images"]
      /\ committed'[ApiProc]["pages"] = committed[ApiProc]["pages"] + hold[t]["pages"]
  BY <1>1, <1>3 DEF Plus, Minus, TypeOK, Dims
<1>9. UsedImages' = UsedImages
  <2>1. UsedImages' = committed'[ApiProc]["images"] + reserved'[ApiProc]["images"]
    BY DEF UsedImages, Used, Plus, Dims
  <2> QED BY <1>7, <1>8, <2>1, SumsOK
<1>10. PagesPaid'
  <2>1. CASE hold[t]["pages"] > 0
    <3>1. q = "get"
      BY <2>1 DEF q
    <3>2. Count("get")' = Count("get") + 1
      BY <1>1, <1>3, <3>1, <1>m DEF Moved
    <3> QED BY <1>1, <1>7, <1>8, <2>1, <3>2, SumsOK, CountNat DEF AloneInv, PagesPaid
  <2>2. CASE ~(hold[t]["pages"] > 0)
    <3>1. q = "idle"
      BY <2>2 DEF q
    <3>2. Count("get")' = Count("get")
      BY <1>1, <1>3, <3>1, <1>m DEF Moved
    <3> QED BY <1>1, <1>7, <1>8, <2>2, <3>2, SumsOK, CountNat DEF AloneInv, PagesPaid
  <2> QED BY <2>1, <2>2
<1>11. ~failed[ApiProc] => ImagesPaid'
  BY <1>1, <1>5, <1>6, <1>9 DEF AloneInv, ImagesPaid
<1>12. failed[ApiProc] => ImagesFinishing'
  BY <1>1, <1>5, <1>6, <1>9 DEF AloneInv, ImagesFinishing
<1> QED BY <1>1, <1>3, <1>4, <1>10, <1>11, <1>12 DEF AloneInv

\* The source threads' other steps, and the end of a thread's jobs.
LEMMA PageStep ==
    ASSUME TypeOK, AloneInv, NEW t \in Threads,
           WantPage(t) \/ PageRefused(t) \/ JobsDone(t)
    PROVE  AloneInv'
<1>1. PICK q \in {"page", "stopped", "idle"} : pc' = [pc EXCEPT ![t] = q]
  BY DEF WantPage, PageRefused, JobsDone
<1>2. /\ pc[t] \in {"idle", "page", "bytes"}
      /\ UNCHANGED <<committed, reserved, stage, failed, spent>>
  BY DEF WantPage, PageRefused, JobsDone, usage
<1>3. Home[t] = ApiProc /\ OneAtWork'
  BY <1>1, <1>2, ThreadOfOne DEF AloneInv
<1>4. ask' = [ask EXCEPT ![t] = Amount(1, 0, 0)] \/ ask' = [ask EXCEPT ![t] = None] \/ ask' = ask
  BY DEF WantPage, PageRefused, JobsDone
<1>5. q = "page" => ask' = [ask EXCEPT ![t] = Amount(1, 0, 0)]
  <2>1. CASE WantPage(t)
    BY <2>1 DEF WantPage
  <2>2. CASE PageRefused(t) \/ JobsDone(t)
    <3>1. pc'[t] \in {"stopped", "idle"}
      BY <2>2 DEF PageRefused, JobsDone, TypeOK
    <3> QED BY <1>1, <3>1 DEF TypeOK
  <2> QED BY <2>1, <2>2
<1>6. q = "page" => ask'[t]["images"] = 0
  BY <1>5, AmountParts DEF TypeOK
<1>7. \A s \in Threads \ {t} : ask'[s] = ask[s]
  BY <1>4 DEF TypeOK
<1>8. AskFits'
  BY <1>1, <1>6, <1>7, AskKept DEF AloneInv
<1>9. /\ PagesPaid' /\ (~failed'[ApiProc] => ImagesPaid')
      /\ (failed'[ApiProc] => ImagesFinishing')
  BY <1>1, <1>2, <1>3, IdleMove
<1> QED BY <1>3, <1>8, <1>9 DEF AloneInv

LEMMA GetStep ==
    ASSUME TypeOK, AloneInv, NEW t \in Threads, GetPage(t)
    PROVE  AloneInv'
<1>1. /\ pc[t] = "get" /\ pc' = [pc EXCEPT ![t] = "bytes"]
      /\ UNCHANGED <<committed, reserved, stage, failed>>
  BY DEF GetPage, usage
<1>2. PICK n \in Sizes : /\ spent' = Plus(spent, Amount(1, 0, n))
                         /\ ask' = [ask EXCEPT ![t] = Amount(0, 0, n)]
  BY DEF GetPage
<1>3. Home[t] = ApiProc /\ OneAtWork'
  BY <1>1, ThreadOfOne DEF AloneInv
<1>m. Moved("get", "bytes")
  BY <1>1, <1>3, CountMoves
<1>4. ask'[t]["images"] = 0 /\ \A s \in Threads \ {t} : ask'[s] = ask[s]
  BY <1>2, AmountParts DEF TypeOK
<1>5. AskFits'
  BY <1>1, <1>4, AskKept DEF AloneInv
<1>6. spent'["pages"] = spent["pages"] + 1 /\ spent'["images"] = spent["images"]
  BY <1>2, AmountParts, SumsOK DEF Plus, Dims
<1>7. Count("get")' = Count("get") - 1
  BY <1>1, <1>3, <1>m DEF Moved
<1>8. /\ Count("store")' = Count("store") /\ Count("charge")' = Count("charge")
      /\ Count("look")' = Count("look")
  BY <1>1, <1>3, <1>m DEF Moved
<1>9. UsedImages' = UsedImages /\ Workers' = Workers
  BY <1>1 DEF UsedImages, Used, Workers, Pool
<1>10. PagesPaid'
  BY <1>1, <1>6, <1>7, SumsOK, CountNat DEF AloneInv, PagesPaid
<1>11. ~failed[ApiProc] => ImagesPaid'
  BY <1>6, <1>8, <1>9 DEF AloneInv, ImagesPaid
<1>12. failed[ApiProc] => ImagesFinishing'
  BY <1>6, <1>8, <1>9 DEF AloneInv, ImagesFinishing
<1> QED BY <1>1, <1>3, <1>5, <1>10, <1>11, <1>12 DEF AloneInv

LEMMA WantImageStep ==
    ASSUME TypeOK, AloneInv, NEW t \in Threads, WantImage(t)
    PROVE  AloneInv'
<1>1. /\ pc[t] = "idle" /\ pc' = [pc EXCEPT ![t] = "look"] /\ ~failed[Home[t]]
      /\ UNCHANGED <<committed, reserved, stage, failed, spent>>
  BY DEF WantImage, usage
<1>2. PICK n \in Sizes : ask' = [ask EXCEPT ![t] = Amount(0, 1, n)]
  BY DEF WantImage
<1>3. Home[t] = ApiProc /\ OneAtWork'
  BY <1>1, ThreadOfOne DEF AloneInv
<1>m. Moved("idle", "look")
  BY <1>1, <1>3, CountMoves
<1>4. /\ ask'[t]["pages"] = 0 /\ ask'[t]["images"] = 1
      /\ \A s \in Threads \ {t} : ask'[s] = ask[s]
  BY <1>2, AmountParts DEF TypeOK
<1>5. AskFits'
  BY <1>1, <1>4, AskKept DEF AloneInv
<1>6. /\ Count("get")' = Count("get") /\ Count("store")' = Count("store")
      /\ Count("charge")' = Count("charge")
  BY <1>1, <1>3, <1>m DEF Moved
<1>7. UsedImages' = UsedImages /\ Workers' = Workers
  BY <1>1 DEF UsedImages, Used, Workers, Pool
<1>8. PagesPaid'
  BY <1>1, <1>6 DEF AloneInv, PagesPaid
<1>9. ImagesPaid'
  BY <1>1, <1>3, <1>6, <1>7 DEF AloneInv, ImagesPaid
<1> QED BY <1>1, <1>3, <1>5, <1>8, <1>9 DEF AloneInv

LEMMA LookStep ==
    ASSUME TypeOK, AloneInv, NEW t \in Threads, LookAgain(t)
    PROVE  AloneInv'
<1>1. pc[t] = "look" /\ UNCHANGED <<committed, reserved, stage, failed, spent>>
  BY DEF LookAgain, usage
<1>2. CASE WouldExceed(Home[t], ask[t])
  <2>1. pc' = [pc EXCEPT ![t] = "idle"] /\ ask' = [ask EXCEPT ![t] = None]
    BY <1>2 DEF LookAgain
  <2>2. Home[t] = ApiProc /\ OneAtWork'
    BY <1>1, <2>1, ThreadOfOne DEF AloneInv
  <2>3. AskFits'
    BY <2>1, AskKept DEF AloneInv, TypeOK
  <2>4. /\ PagesPaid' /\ (~failed'[ApiProc] => ImagesPaid')
        /\ (failed'[ApiProc] => ImagesFinishing')
    BY <1>1, <2>1, <2>2, IdleMove
  <2> QED BY <2>2, <2>3, <2>4 DEF AloneInv
<1>3. CASE ~WouldExceed(Home[t], ask[t])
  <2>1. pc' = [pc EXCEPT ![t] = "store"] /\ ask' = ask
    BY <1>3 DEF LookAgain
  <2>2. Home[t] = ApiProc /\ OneAtWork'
    BY <1>1, <2>1, ThreadOfOne DEF AloneInv
  <2>m. Moved("look", "store")
    BY <1>1, <2>1, <2>2, CountMoves
  <2>s. Count("look") > 0
    BY <1>1, <2>2, CountSome
  <2>3. ask[t]["pages"] = 0 /\ ask[t]["images"] = 1
    BY <1>1 DEF AloneInv, AskFits
  <2>4. AskFits'
    BY <2>1, <2>3, AskKept DEF AloneInv
  <2>5. UsedImages < Ceiling["images"]
    BY <1>3, <2>2, <2>3, BelowCeiling
  <2>6. Count("store")' = Count("store") + 1 /\ Count("look")' = Count("look") - 1
    BY <2>m DEF Moved
  <2>7. Count("charge")' = Count("charge") /\ Count("get")' = Count("get")
    BY <2>m DEF Moved
  <2>8. UsedImages' = UsedImages /\ Workers' = Workers
    BY <1>1 DEF UsedImages, Used, Workers, Pool
  <2>9. PagesPaid'
    BY <1>1, <2>7 DEF AloneInv, PagesPaid
  <2>10. Count("store")' + Count("charge")' <= Workers
    <3>1. Count("store") + Count("charge") + Count("look") <= Workers
      BY CountSum
    <3> QED BY <2>s, <2>6, <2>7, <3>1, CountNat
  <2>11. ~failed[ApiProc] => ImagesPaid'
    BY <1>1, <2>5, <2>6, <2>7, <2>8, <2>10, SumsOK, CountNat DEF AloneInv, ImagesPaid
  <2>12. failed[ApiProc] => ImagesFinishing'
    BY <1>1, <2>s, <2>5, <2>6, <2>8, SumsOK, CountNat DEF AloneInv, ImagesFinishing
  <2> QED BY <1>1, <2>2, <2>4, <2>9, <2>11, <2>12 DEF AloneInv
<1> QED BY <1>2, <1>3

LEMMA StoreStep ==
    ASSUME TypeOK, AloneInv, NEW t \in Threads, StoreImage(t)
    PROVE  AloneInv'
<1>1. /\ pc[t] = "store" /\ pc' = [pc EXCEPT ![t] = "charge"] /\ spent' = Plus(spent, ask[t])
      /\ UNCHANGED <<committed, reserved, stage, failed, ask>>
  BY DEF StoreImage, usage
<1>2. Home[t] = ApiProc /\ OneAtWork'
  BY <1>1, ThreadOfOne DEF AloneInv
<1>m. Moved("store", "charge")
  BY <1>1, <1>2, CountMoves
<1>3. ask[t]["pages"] = 0 /\ ask[t]["images"] = 1
  BY <1>1 DEF AloneInv, AskFits
<1>4. AskFits'
  BY <1>1, <1>3, AskKept DEF AloneInv
<1>5. spent'["pages"] = spent["pages"] /\ spent'["images"] = spent["images"] + 1
  BY <1>1, <1>3, SumsOK DEF Plus, Dims
<1>6. Count("store")' = Count("store") - 1 /\ Count("charge")' = Count("charge") + 1
  BY <1>1, <1>m DEF Moved
<1>7. Count("get")' = Count("get") /\ Count("look")' = Count("look")
  BY <1>1, <1>m DEF Moved
<1>8. UsedImages' = UsedImages /\ Workers' = Workers
  BY <1>1 DEF UsedImages, Used, Workers, Pool
<1>9. PagesPaid'
  BY <1>1, <1>5, <1>7 DEF AloneInv, PagesPaid
<1>10. ~failed[ApiProc] => ImagesPaid'
  BY <1>1, <1>5, <1>6, <1>8, SumsOK, CountNat DEF AloneInv, ImagesPaid
<1>11. failed[ApiProc] => ImagesFinishing'
  BY <1>1, <1>5, <1>6, <1>7, <1>8, SumsOK, CountNat DEF AloneInv, ImagesFinishing
<1> QED BY <1>1, <1>2, <1>4, <1>9, <1>10, <1>11 DEF AloneInv

LEMMA RefusedStep ==
    ASSUME TypeOK, AloneInv, NeverExceedsCeiling, NEW t \in Threads, ChargeRefused(t)
    PROVE  AloneInv'
<1>1. /\ pc[t] = "charge" /\ pc' = [pc EXCEPT ![t] = "idle"]
      /\ ask' = [ask EXCEPT ![t] = None] /\ failed' = [failed EXCEPT ![Home[t]] = TRUE]
      /\ UNCHANGED <<committed, reserved, stage, spent>>
  BY DEF ChargeRefused, usage
<1>2. Home[t] = ApiProc /\ OneAtWork'
  BY <1>1, ThreadOfOne DEF AloneInv
<1>m. Moved("charge", "idle")
  BY <1>1, <1>2, CountMoves
<1>3. AskFits'
  BY <1>1, AskKept DEF AloneInv, TypeOK
<1>4. /\ Count("get")' = Count("get") /\ Count("store")' = Count("store")
      /\ Count("look")' = Count("look")
  BY <1>1, <1>m DEF Moved
<1>5. UsedImages' = UsedImages /\ Workers' = Workers
  BY <1>1 DEF UsedImages, Used, Workers, Pool
<1>6. PagesPaid'
  BY <1>1, <1>4 DEF AloneInv, PagesPaid
<1>7. ImagesFinishing'
  <2>1. CASE failed[ApiProc]
    BY <1>1, <1>4, <1>5, <2>1 DEF AloneInv, ImagesFinishing
  <2>2. CASE ~failed[ApiProc]
    <3>1. ImagesPaid
      BY <2>2 DEF AloneInv
    <3>2. Count("store") + Count("charge") + Count("look") <= Workers
      BY CountSum
    <3> QED BY <1>1, <1>4, <1>5, <3>1, <3>2, SumsOK, CountNat DEF ImagesPaid, ImagesFinishing
  <2> QED BY <2>1, <2>2
<1>8. failed'[ApiProc]
  BY <1>1, <1>2 DEF TypeOK
<1> QED BY <1>2, <1>3, <1>6, <1>7, <1>8 DEF AloneInv

\* A step of the campaign thread that leaves usage, spending and the counts alone.
LEMMA SumsKept ==
    ASSUME AloneInv, UNCHANGED <<committed, reserved, spent, failed>>,
           \A w \in {"get", "look", "store", "charge"} :
              \A t \in Pool(ApiProc) : pc'[t] = w <=> pc[t] = w
    PROVE  /\ PagesPaid' /\ (~failed'[ApiProc] => ImagesPaid')
           /\ (failed'[ApiProc] => ImagesFinishing')
<1>1. ASSUME NEW w \in {"get", "look", "store", "charge"} PROVE Count(w)' = Count(w)
  <2>1. {t \in Pool(ApiProc) : pc'[t] = w} = {t \in Pool(ApiProc) : pc[t] = w}
    OBVIOUS
  <2> QED BY <2>1 DEF Count, Pool
<1>2. /\ Count("get")' = Count("get") /\ Count("look")' = Count("look")
      /\ Count("store")' = Count("store") /\ Count("charge")' = Count("charge")
  BY <1>1
<1>3. UsedImages' = UsedImages /\ Workers' = Workers
  BY DEF UsedImages, Used, Workers, Pool
<1>4. PagesPaid'
  BY <1>2 DEF AloneInv, PagesPaid
<1>5. ~failed[ApiProc] => ImagesPaid'
  BY <1>2, <1>3 DEF AloneInv, ImagesPaid
<1>6. failed[ApiProc] => ImagesFinishing'
  BY <1>2, <1>3 DEF AloneInv, ImagesFinishing
<1> QED BY <1>4, <1>5, <1>6

LEMMA LoadStep ==
    ASSUME TypeOK, AloneInv, Load(ApiProc)
    PROVE  AloneInv'
<1>1. /\ stage[ApiProc] = "load" /\ UNCHANGED <<pc, ask, spent, failed>>
      /\ committed' = [committed EXCEPT ![ApiProc] = disk.committed]
      /\ reserved' = [reserved EXCEPT ![ApiProc] = disk.reserved]
      /\ stage' = [stage EXCEPT ![ApiProc] = "next"]
  BY DEF Load, threads
<1>2. /\ disk = [committed |-> None, reserved |-> None] /\ spent = None
      /\ ~failed[ApiProc] /\ Quiet(ApiProc)
  BY <1>1 DEF AloneInv, OneAtWork, Rests
<1>3. stage'[ApiProc] = "next"
  BY <1>1 DEF TypeOK
<1>4. OneAtWork' /\ AskFits'
  BY <1>1, <1>2, <1>3 DEF AloneInv, OneAtWork, AskFits, Quiet, Pool
<1>5. committed'[ApiProc] = None /\ reserved'[ApiProc] = None
  BY <1>1, <1>2 DEF TypeOK
<1>6. UsedImages' = 0 /\ Workers' = Workers
  <2>1. UsedImages' = committed'[ApiProc]["images"] + reserved'[ApiProc]["images"]
    BY DEF UsedImages, Used, Plus, Dims
  <2> QED BY <1>5, <2>1, AmountParts DEF Workers, Pool
<1>7. \A w : w # "stopped" => Count(w) = 0
  BY <1>2, CountZero DEF Quiet
<1>8. \A w : w # "stopped" => Count(w)' = 0
  BY <1>1, <1>7 DEF Count, Pool
<1>9. PagesPaid'
  BY <1>1, <1>2, <1>5, <1>8, AmountParts DEF PagesPaid
<1>10. ImagesPaid'
  BY <1>1, <1>2, <1>6, <1>8, AmountParts, CountNat, SumsOK DEF ImagesPaid
<1> QED BY <1>1, <1>2, <1>4, <1>9, <1>10 DEF AloneInv

LEMMA OpenStep ==
    ASSUME TypeOK, AloneInv, OpenPool(ApiProc)
    PROVE  AloneInv'
<1>1. /\ stage[ApiProc] = "next" /\ UNCHANGED <<committed, reserved, ask, disk, failed, spent>>
      /\ pc' = [t \in Threads |-> IF Home[t] = ApiProc /\ stage'[ApiProc] # "over"
                                  THEN "idle" ELSE pc[t]]
  BY DEF OpenPool, usage
<1>2. stage'[ApiProc] \in {"discover", "acquire", "over"}
  BY DEF OpenPool, TypeOK
<1>3. \A t \in Threads : Home[t] = ApiProc => pc[t] = "stopped"
  BY <1>1 DEF AloneInv, OneAtWork, Rests, Quiet, Pool
<1>4. /\ \A t \in Threads : Home[t] # ApiProc => pc'[t] = pc[t]
      /\ stage'[ApiProc] = "over" => \A t \in Threads : pc'[t] = pc[t]
      /\ \A t \in Threads : Home[t] = ApiProc => pc'[t] \in {"idle", "stopped"}
  BY <1>1, <1>3 DEF TypeOK
<1>5. OneAtWork'
  <2>1. \A t \in Threads : Home[t] # ApiProc => pc'[t] = "stopped"
    BY <1>4 DEF AloneInv, OneAtWork
  <2>2. Rests' => Quiet(ApiProc)'
    BY <1>2, <1>3, <1>4 DEF Rests, Quiet, Pool
  <2> QED BY <1>2, <2>1, <2>2 DEF OneAtWork
<1>6. AskFits'
  <2>1. \A t \in Threads : pc'[t] \in {"idle", "stopped"}
    BY <1>4 DEF AloneInv, OneAtWork
  <2> QED BY <2>1 DEF AskFits
<1>7. \A w \in {"get", "look", "store", "charge"} :
         \A t \in Pool(ApiProc) : pc'[t] = w <=> pc[t] = w
  BY <1>3, <1>4 DEF Pool
<1>8. /\ PagesPaid' /\ (~failed'[ApiProc] => ImagesPaid')
      /\ (failed'[ApiProc] => ImagesFinishing')
  BY <1>1, <1>7, SumsKept
<1> QED BY <1>5, <1>6, <1>8 DEF AloneInv

\* The pool has been joined before a stage is persisted, and stays so.
LEMMA StageStep ==
    ASSUME TypeOK, AloneInv, Persist(ApiProc) \/ Mark(ApiProc)
    PROVE  AloneInv'
<1>1. UNCHANGED <<committed, reserved, pc, ask, failed, spent>>
  BY DEF Persist, Mark, usage, threads
<1>2. stage'[ApiProc] \in {"over", "discovered", "acquired", "next"} /\ Quiet(ApiProc)
  <2>1. CASE Persist(ApiProc)
    BY <2>1 DEF Persist, TypeOK
  <2>2. CASE Mark(ApiProc)
    BY <2>2 DEF Mark, TypeOK, AloneInv, OneAtWork, Rests
  <2> QED BY <2>1, <2>2
<1>3. OneAtWork'
  BY <1>1, <1>2 DEF AloneInv, OneAtWork, Quiet, Pool
<1>4. AskFits'
  BY <1>1 DEF AloneInv, AskFits
<1>5. /\ PagesPaid' /\ (~failed'[ApiProc] => ImagesPaid')
      /\ (failed'[ApiProc] => ImagesFinishing')
  BY <1>1, SumsKept
<1> QED BY <1>3, <1>4, <1>5 DEF AloneInv

\* A step that leaves every process alone with its work keeps what holds for it.
LEMMA AloneStep == IInv /\ (Alone => AloneInv) /\ [Next]_vars => (Alone => AloneInv)'
<1> SUFFICES ASSUME IInv, Alone => AloneInv, [Next]_vars, Alone' PROVE AloneInv'
  OBVIOUS
<1>1. TypeOK /\ NeverExceedsCeiling
  BY DEF IInv
<1>2. Alone /\ AloneInv
  BY <1>1, AloneBefore
<1>3. ASSUME NEW t \in Threads, ThreadStep(t) PROVE AloneInv'
  BY <1>1, <1>2, <1>3, ReserveStep, CommitStep, PageStep, GetStep, WantImageStep, LookStep,
     StoreStep, RefusedStep DEF ThreadStep
<1>4. ASSUME NEW p \in Procs, Load(p) \/ OpenPool(p) \/ Persist(p) \/ Mark(p) PROVE AloneInv'
  <2>1. p = ApiProc
    BY <1>2, <1>4 DEF Load, OpenPool, Persist, Mark, Alone
  <2> QED BY <1>1, <1>2, <1>4, <2>1, LoadStep, OpenStep, StageStep
<1>5. ASSUME NEW p \in Procs, Crash(p) PROVE FALSE
  BY <1>1, <1>2, <1>5 DEF Crash, Alone
<1>6. ASSUME NEW p \in Procs, Resume(p) PROVE FALSE
  BY <1>1, <1>6 DEF Resume, Alone, TypeOK
<1>7. CASE UNCHANGED vars
  <2>1. UNCHANGED <<committed, reserved, disk, stage, failed, pc, ask, spent>>
    BY <1>7 DEF vars, usage, threads
  <2>2. OneAtWork' /\ AskFits'
    BY <1>2, <2>1 DEF AloneInv, OneAtWork, AskFits, Rests, Quiet, Pool
  <2>3. /\ PagesPaid' /\ (~failed'[ApiProc] => ImagesPaid')
        /\ (failed'[ApiProc] => ImagesFinishing')
    BY <1>2, <2>1, SumsKept
  <2> QED BY <2>2, <2>3 DEF AloneInv
<1> QED BY <1>3, <1>4, <1>5, <1>6, <1>7 DEF Next, MainStep

LEMMA AloneStart == Init => AloneInv
<1> SUFFICES ASSUME Init PROVE AloneInv
  OBVIOUS
<1>1. TypeOK
  BY InitOK DEF IInv
<1>2. /\ OneAtWork /\ AskFits
      /\ committed[ApiProc] = None /\ reserved[ApiProc] = None /\ spent = None
      /\ ~failed[ApiProc] /\ \A t \in Threads : pc[t] = "stopped"
  BY DEF Init, OneAtWork, AskFits, Quiet, Pool
<1>3. \A w : w # "stopped" => Count(w) = 0
  BY <1>2, CountZero DEF Pool
<1>4. UsedImages = 0
  BY <1>1, <1>2, SumsOK, AmountParts
<1>5. PagesPaid
  BY <1>2, <1>3, AmountParts DEF PagesPaid
<1>6. ImagesPaid
  BY <1>1, <1>2, <1>3, <1>4, AmountParts, CountNat, SumsOK DEF ImagesPaid
<1> QED BY <1>2, <1>5, <1>6 DEF AloneInv

\* What is paid for or being paid for bounds what was spent.
LEMMA SpendingBounded == TypeOK /\ AloneInv =>
    /\ spent["pages"] <= committed[ApiProc]["pages"]
    /\ spent["images"] <= Ceiling["images"] + Workers - 1
<1> SUFFICES ASSUME TypeOK, AloneInv
             PROVE  /\ spent["pages"] <= committed[ApiProc]["pages"]
                    /\ spent["images"] <= Ceiling["images"] + Workers - 1
  OBVIOUS
<1>1. spent["pages"] <= committed[ApiProc]["pages"]
  BY SumsOK, CountNat DEF AloneInv, PagesPaid
<1>2. CASE failed[ApiProc]
  BY <1>1, <1>2, SumsOK, CountNat DEF AloneInv, ImagesFinishing
<1>3. CASE ~failed[ApiProc]
  BY <1>1, <1>3, SumsOK, CountNat DEF AloneInv, ImagesPaid
<1> QED BY <1>2, <1>3

\* However many threads share a campaign's budget: while its process is the only one and
\* does not die, no page is asked for that was not paid for (Escalator.fetch), and at
\* most one image for each further thread is stored beyond the sealed ceiling
\* (_download_listing_image, which pays after it stored).
THEOREM SpendingStaysClose == Spec => []OvershootBounded
<1>1. IInv /\ [Next]_vars => IInv'
  BY TypeStep, BoundStep DEF IInv
<1>2. Init => (Alone => AloneInv)
  BY AloneStart
<1>3. IInv /\ (Alone => AloneInv) => OvershootBounded
  BY SpendingBounded DEF IInv, OvershootBounded, Alone, Workers
<1> QED BY InitOK, AloneStep, <1>1, <1>2, <1>3, PTL DEF Spec

-------------------------------------------------------------------------------
(* Service: the rows of searches.  A step is one of seven kinds, and what  *)
(* the invariant asks of it is asked of its kind.                          *)

USE SearchesAssumption

StageNames == {"wave", "discover", "judge", "publish", "consult", "seal"}

\* Where a thread may be.
Places ==
    Returned \cup {"begin"}
    \cup IF live
         THEN {"account", "stop", "early", "ending", "wave", "discover", "judge", "publish", "seal", "wave.work",
               "discover.work", "judge.work", "publish.work", "seal.work"}
         ELSE {"wave", "consult", "seal", "wave.work", "consult.work", "seal.work"}

RowStates == {"none", "open"} \cup Ended

\* The tables with rows of a search, what a request is, and where it may be.
TableNames ==
    {"hypotheses", "queries", "tasks", "checkpoints", "events", "receipts", "source_runs",
     "fetch_attempts", "discovery_pages", "frontier", "candidates", "candidate_images",
     "clusters", "evidence_metadata", "scores", "decisions", "results", "feedback",
     "budget_usage"}
Requests == {"none", "cancel", "delete", "refresh", "feedback"}
Waits ==
    {"idle", "flag", "end", "wait", "purge", "redact", "mark", "check", "tell", "evidence", "row"}

ServiceTypes ==
    /\ live \in BOOLEAN
    /\ row \in [Ids -> [state : RowStates, key : {NoKey} \cup {f.key : f \in Forms},
                        deleted : BOOLEAN, intent : BOOLEAN]]
    /\ tables \in [Ids -> SUBSET TableNames]
    /\ thread \in [Ids -> [at : Places, starts : Nat]]
    /\ request \in [Slots -> [kind : Requests, s : Ids \cup {0}, at : Waits]]
    /\ raced \subseteq Ids \cup {0}

\* A search that is not created has no thread, no rows, and no request is about it.
NothingBefore ==
    \A s \in Ids : row[s].state = "none" =>
        /\ thread[s] = [at |-> "none", starts |-> 0]
        /\ tables[s] = {} /\ ~row[s].deleted
        /\ \A r \in Slots : request[r].s # s

\* What a purge leaves of s, of which no thread and no request in these slots knows.
Untouched(s, slots) ==
    /\ tables[s] \subseteq Kept /\ thread[s].at \in Returned
    /\ \A q \in slots : request[q].s # s

\* A purge by r that nothing races leaves nothing to anybody until the row is deleted.
PurgeHeld(r) ==
    request[r].kind = "delete" =>
        /\ request[r].s \in Ids
        /\ request[r].at \in {"redact", "mark"} /\ request[r].s \notin raced
              => Untouched(request[r].s, Slots \ {r})
        /\ request[r].at = "mark" => ~row[request[r].s].intent

PurgeAlone == \A r \in Slots : PurgeHeld(r)

\* And nobody knows of what is deleted.
DeletedAlone ==
    \A s \in Ids : row[s].deleted =>
        ~row[s].intent /\ (s \notin raced => Untouched(s, Slots))

ServiceInv ==
    ServiceTypes /\ StartedOnce /\ NothingBefore /\ PurgeAlone /\ DeletedAlone

-------------------------------------------------------------------------------
(* The kinds of step *)

\* A search is created, with a thread or without one.
Created(s) ==
    /\ row[s].state = "none" /\ UNCHANGED <<live, request, raced>>
    /\ \E state \in {"open"} \cup Ended, key \in {NoKey} \cup {f.key : f \in Forms} :
          /\ key # NoKey => ByKey(key) = {}
          /\ row' = [row EXCEPT ![s] =
                        [state |-> state, key |-> key, deleted |-> FALSE, intent |-> TRUE]]
    /\ \E names \in SUBSET TableNames : Write(s, names)
    /\ StartThread(s) \/ UNCHANGED thread

\* The thread of s does something of its own.
Worked(s) ==
    /\ thread[s].at \notin Returned /\ UNCHANGED <<live, request, raced>>
    /\ \E place \in Places : Goes(s, place)
    /\ \/ UNCHANGED row
       \/ row[s].state = "open" /\ \E state \in Ended : row' = [row EXCEPT ![s].state = state]
    /\ \E names \in SUBSET TableNames : Write(s, names)

\* A request about s is received.
Entered(r, s) ==
    /\ Found(s) /\ UNCHANGED <<live, row, tables, thread>>
    /\ \E kind \in Requests, at \in Waits :
          /\ at \notin {"redact", "mark"}
          /\ request' = [request EXCEPT ![r] = [kind |-> kind, s |-> s, at |-> at]]
    /\ raced' = IF InPurge(s) THEN raced \cup {s} ELSE raced

\* A request gets on, to a place or to its end, without a purge, and may write rows.
GetsOn(r) ==
    \/ \E at \in Waits \ {"redact", "mark"} : Step(r, at)
    \/ Finish(r)

Wrote(r) ==
    /\ request[r].kind # "delete" /\ GetsOn(r) /\ UNCHANGED <<live, thread, raced>>
    /\ \/ UNCHANGED row
       \/ row[request[r].s].state = "open" /\ row' = [row EXCEPT ![request[r].s].state = "CANCELLED"]
    /\ \E names \in SUBSET TableNames : Write(request[r].s, names)

Waited(r) == GetsOn(r) /\ UNCHANGED <<live, row, tables, thread, raced>>

Restarted ==
    /\ thread' = [s \in Ids |-> [thread[s] EXCEPT !.at = "none"]]
    /\ request' = [r \in Slots |-> Idle]
    /\ UNCHANGED <<live, row, tables, raced>>

StepKinds ==
    \/ \E s \in Ids : Created(s) \/ Worked(s)
    \/ \E r \in Slots : \/ \E s \in Ids : Entered(r, s)
                        \/ Wrote(r) \/ Waited(r)
                        \/ PurgeRows(r) \/ RedactIntent(r) \/ MarkDeleted(r)
    \/ Restarted

USE DEF StageNames, Returned

\* The rows a step writes have names.
LEMMA RowNames ==
    /\ \A name \in StageNames \ {"seal"} : RowsOf(name) \in SUBSET TableNames
    /\ \A n \in {EndRows, LogRows, UsageRows, EvidenceRows, ListingRows, CheckpointRows,
                 FeedbackRows, ReceiptRows} : n \in SUBSET TableNames
<1>1. /\ \A n \in {LogRows, CheckpointRows, ReceiptRows, EvidenceRows, FeedbackRows, UsageRows,
                   TaskRows, RunRows, PageRows, FrontierRows, ListingRows, ClusterRows} :
             n \in SUBSET TableNames
  BY DEF LogRows, CheckpointRows, ReceiptRows, EvidenceRows, FeedbackRows, UsageRows, TaskRows,
         RunRows, PageRows, FrontierRows, ListingRows, ClusterRows, TableNames
<1>2. \A a, b \in SUBSET TableNames : a \cup b \in SUBSET TableNames
  OBVIOUS
<1>3. {"hypotheses", "queries"} \in SUBSET TableNames /\ {"scores", "decisions"} \in SUBSET TableNames
      /\ {"results"} \in SUBSET TableNames
  BY DEF TableNames
<1>4. /\ WaveRows \in SUBSET TableNames /\ DiscoveryRows \in SUBSET TableNames
      /\ JudgedRows \in SUBSET TableNames /\ ResultRows \in SUBSET TableNames /\ EndRows \in SUBSET TableNames
  BY <1>1, <1>3 DEF WaveRows, DiscoveryRows, JudgedRows, ResultRows, EndRows
<1>5. ASSUME NEW name \in StageNames, name # "seal" PROVE RowsOf(name) \in SUBSET TableNames
  <2>1. CASE name = "wave"  BY <1>4, <2>1 DEF RowsOf
  <2>2. CASE name = "discover"  BY <1>4, <2>2 DEF RowsOf
  <2>3. CASE name = "judge"  BY <1>4, <2>3 DEF RowsOf
  <2>4. CASE name = "publish"  BY <1>4, <2>4 DEF RowsOf
  <2>5. CASE name = "consult"
    <3>1. RowsOf(name) = ListingRows \cup JudgedRows \cup ResultRows
      BY <2>5 DEF RowsOf
    <3>. QED  BY <1>1, <1>4, <3>1
  <2>. QED  BY <1>5, <2>1, <2>2, <2>3, <2>4, <2>5
<1>. QED  BY <1>1, <1>4, <1>5

\* After a stage comes one that the run has.
LEMMA NextStageIs ==
    ASSUME live \in BOOLEAN
    PROVE  /\ live => /\ NextStage("wave") = "discover" /\ NextStage("discover") = "judge"
                      /\ NextStage("judge") = "publish" /\ NextStage("publish") = "seal"
           /\ ~live => NextStage("wave") = "consult" /\ NextStage("consult") = "seal"
<1>1. ASSUME live PROVE /\ NextStage("wave") = "discover" /\ NextStage("discover") = "judge"
                        /\ NextStage("judge") = "publish" /\ NextStage("publish") = "seal"
  <2>1. Stages = LiveStages /\ DOMAIN LiveStages = 1..5
    BY <1>1 DEF Stages, LiveStages
  <2>2. \A k \in 1..5 : /\ LiveStages[k] = "wave" <=> k = 1 
                        /\ LiveStages[k] = "discover" <=> k = 2
                        /\ LiveStages[k] = "judge" <=> k = 3
                        /\ LiveStages[k] = "publish" <=> k = 4
    BY DEF LiveStages
  <2>3. /\ (CHOOSE k \in 1..5 : LiveStages[k] = "wave") = 1
        /\ (CHOOSE k \in 1..5 : LiveStages[k] = "discover") = 2
        /\ (CHOOSE k \in 1..5 : LiveStages[k] = "judge") = 3
        /\ (CHOOSE k \in 1..5 : LiveStages[k] = "publish") = 4
    BY <2>2
  <2>. QED  BY <2>1, <2>3 DEF NextStage, LiveStages
<1>2. ASSUME ~live PROVE NextStage("wave") = "consult" /\ NextStage("consult") = "seal"
  <2>1. Stages = ReferenceStages /\ DOMAIN ReferenceStages = 1..3
    BY <1>2 DEF Stages, ReferenceStages
  <2>2. \A k \in 1..3 : /\ ReferenceStages[k] = "wave" <=> k = 1
                        /\ ReferenceStages[k] = "consult" <=> k = 2
    BY DEF ReferenceStages
  <2>3. /\ (CHOOSE k \in 1..3 : ReferenceStages[k] = "wave") = 1
        /\ (CHOOSE k \in 1..3 : ReferenceStages[k] = "consult") = 2
    BY <2>2
  <2>. QED  BY <2>1, <2>3 DEF NextStage, ReferenceStages
<1>. QED  BY <1>1, <1>2


\* Where a thread is at a stage, or on it.
LEMMA PlacesAre ==
    ASSUME live \in BOOLEAN
    PROVE  /\ {"none", "begin", "over", "left", "wave"} \subseteq Places /\ AfterStop \in Places
           /\ \A name \in StageNames :
                 /\ Underway[name] \notin Returned /\ name \notin Returned
                 /\ name \in Places => Underway[name] \in Places
                 /\ name # "seal" /\ Underway[name] \in Places => NextStage(name) \in Places
<1>1. /\ {"none", "begin", "over", "left", "wave"} \subseteq Places /\ AfterStop \in Places
  BY DEF Places, AfterStop, Returned
<1>2. \A name \in StageNames : /\ Underway[name] \notin Returned
                               /\ name \notin Returned
                               /\ name \in Places => Underway[name] \in Places
  BY DEF Places, Underway, Returned
<1>3. ASSUME NEW name \in StageNames, name # "seal", Underway[name] \in Places
      PROVE  NextStage(name) \in Places
  <2>1. CASE live
    <3>1. name \in {"wave", "discover", "judge", "publish"}
      BY <1>3, <2>1 DEF Places, Underway
    <3>. QED  BY <2>1, <3>1, NextStageIs DEF Places
  <2>2. CASE ~live
    <3>1. name \in {"wave", "consult"}
      BY <1>3, <2>2 DEF Places, Underway
    <3>. QED  BY <2>2, <3>1, NextStageIs DEF Places
  <2>. QED  BY <2>1, <2>2
<1>. QED  BY <1>1, <1>2, <1>3

LEMMA StagesOfNext ==
    {LiveStages[k] : k \in 1..5} \cup {"consult"} \subseteq StageNames
BY DEF LiveStages

\* Only a fresh row is made: the key was looked at, and nothing came between.
LEMMA CreateIsCreated ==
    ASSUME ServiceTypes, NEW form \in Forms, NEW how \in {"fine", "input", "internal"},
           CreateSearch(form, how)
    PROVE  \E s \in Ids : Created(s)
<1>1. PICK s \in Inserted(form) :
          \/ s \in Fresh /\ Ingested(s, form, how)
          \/ s \notin Fresh /\ row[s].state = "open" /\ StartThread(s) /\ UNCHANGED <<row, tables>>
  BY DEF CreateSearch
<1>2. form.key # NoKey => ByKey(form.key) = {}
  BY DEF CreateSearch, Existing
<1>3. s \in Fresh
  BY <1>1, <1>2 DEF Inserted
<1>4. s \in Ids /\ row[s].state = "none"
  BY <1>3 DEF Fresh
<1>5. Ingested(s, form, how)
  BY <1>1, <1>3
<1>6. UNCHANGED <<live, request, raced>>
  BY DEF CreateSearch
<1>7. /\ \E state \in {"open"} \cup Ended, key \in {NoKey} \cup {f.key : f \in Forms} :
             /\ key # NoKey => ByKey(key) = {}
             /\ row' = [row EXCEPT ![s] =
                           [state |-> state, key |-> key, deleted |-> FALSE, intent |-> TRUE]]
  <2>1. form.key \in {NoKey} \cup {f.key : f \in Forms}
    OBVIOUS
  <2>2. \E state \in {"open"} \cup Ended : row' = [row EXCEPT ![s] =
            [state |-> state, key |-> form.key, deleted |-> FALSE, intent |-> TRUE]]
    <3>1. CASE how = "fine"  BY <1>5, <3>1 DEF Ingested, Ended
    <3>2. CASE how = "internal"  BY <1>5, <3>2 DEF Ingested, Ended
    <3>3. CASE how = "input"  BY <1>5, <3>3 DEF Ingested, Ended
    <3>. QED  BY <3>1, <3>2, <3>3
  <2>. QED  BY <1>2, <2>1, <2>2
<1>8. \E names \in SUBSET TableNames : Write(s, names)
  <2>1. UsageRows \cup LogRows \cup (IF how = "fine" THEN EvidenceRows ELSE EndRows)
            \in SUBSET TableNames
    BY RowNames
  <2>. QED  BY <1>5, <2>1 DEF Ingested
<1>9. StartThread(s) \/ UNCHANGED thread
  BY <1>5 DEF Ingested
<1>. QED  BY <1>4, <1>6, <1>7, <1>8, <1>9 DEF Created

\* What the thread of a search may do to its row.
LEMMA SealIs ==
    ASSUME ServiceTypes, NEW s \in Ids, NEW state \in Ended, Seal(s, state)
    PROVE  /\ \/ UNCHANGED row
              \/ row[s].state = "open" /\ \E end \in Ended : row' = [row EXCEPT ![s].state = end]
           /\ \E names \in SUBSET TableNames : Write(s, names)
<1>1. \E names \in SUBSET TableNames : Write(s, names)
  <2>1. EndRows \in SUBSET TableNames /\ {} \in SUBSET TableNames
    BY RowNames
  <2>. QED  BY <2>1 DEF Seal
<1>2. CASE row[s].state = "open" /\ s \notin cancelled
  BY <1>1, <1>2 DEF Seal, Sealed
<1>3. CASE ~(row[s].state = "open" /\ s \notin cancelled)
  <2>1. row' = [row EXCEPT ![s].state = row[s].state]
    BY <1>3 DEF Seal, Sealed
  <2>2. row' = row
    BY <2>1 DEF ServiceTypes
  <2>. QED  BY <1>1, <2>2
<1>. QED  BY <1>2, <1>3

\* A step that writes nothing writes an empty set of rows.
LEMMA WritesNothing ==
    ASSUME ServiceTypes, NEW s \in Ids \cup {0}, UNCHANGED tables
    PROVE  \E names \in SUBSET TableNames : Write(s, names)
<1>1. tables' = [tables EXCEPT ![s] = @ \cup {}]
  BY DEF ServiceTypes
<1>. QED  BY <1>1 DEF Write

\* A stop of the budget leaves the rows of a stage, and what is salvaged.
LEMMA StopWrites ==
    ASSUME ServiceTypes, NEW s \in Ids, NEW stg \in Charging, NEW early \in BOOLEAN,
           BudgetStop(s, stg, early)
    PROVE  \E names \in SUBSET TableNames : Write(s, names)
<1>1. \A names : Salvaged(s, names) \in SUBSET TableNames
  <2>1. ResultRows \in SUBSET TableNames /\ {"decisions"} \in SUBSET TableNames
    BY RowNames DEF LogRows, ResultRows, TableNames
  <2>. QED  BY <2>1 DEF Salvaged
<1>2. \A early_ \in BOOLEAN : \A names \in IF early_ THEN {{}} ELSE {{}, RowsOf(stg)} :
          names \in SUBSET TableNames
  <2>1. RowsOf(stg) \in SUBSET TableNames
    BY RowNames DEF Charging
  <2>. QED  BY <2>1
<1>3. CASE Write(s, Salvaged(s, tables[s]))
  BY <1>1, <1>3
<1>4. ASSUME NEW names \in SUBSET TableNames, Write(s, names \cup Salvaged(s, tables[s] \cup names))
      PROVE  \E more \in SUBSET TableNames : Write(s, more)
  <2>1. names \cup Salvaged(s, tables[s] \cup names) \in SUBSET TableNames
    BY <1>1
  <2>. QED  BY <1>4, <2>1
<1>. QED  BY <1>2, <1>3, <1>4 DEF BudgetStop

\* Each step of a thread is work.
LEMMA ThreadsWork ==
    ASSUME ServiceTypes, NEW s \in Ids,
           \/ Begin(s) \/ SealWork(s) \/ Account(s) \/ StopLooks(s) \/ StopEnds(s)
           \/ \E stg \in Charging, early \in BOOLEAN : BudgetStop(s, stg, early)
           \/ \E stg \in StageNames :
                 \/ Look(s, stg) \/ Work(s, stg)
                 \/ \E how \in {"input", "internal"} : Raise(s, stg, how)
    PROVE  Worked(s)
<1>. live \in BOOLEAN /\ thread[s].at \in Places
  BY DEF ServiceTypes
<1>1. CASE Begin(s)
  <2>1. Goes(s, "over") \/ Goes(s, "wave")
    BY <1>1 DEF Begin
  <2>2. \E place \in Places : Goes(s, place)
    BY <2>1, PlacesAre
  <2>. QED  BY <1>1, <2>2, WritesNothing DEF Begin, rest, Worked
<1>2. CASE SealWork(s)
  <2>1. Seal(s, IF live THEN "COMPLETE" ELSE "BLOCKED") /\ Goes(s, AfterStop)
    BY <1>2 DEF SealWork
  <2>2. (IF live THEN "COMPLETE" ELSE "BLOCKED") \in Ended
    BY DEF Ended
  <2>3. thread[s].at \notin Returned /\ UNCHANGED <<live, request, raced>>
    BY <1>2 DEF SealWork, rest
  <2>. QED  BY <2>1, <2>2, <2>3, SealIs, PlacesAre DEF Worked
<1>3. CASE Account(s)
  <2>1. \E names \in SUBSET TableNames : Write(s, names)
    BY <1>3, WritesNothing, RowNames DEF Account
  <2>2. Goes(s, "over") /\ UNCHANGED <<live, request, raced, row>>
    BY <1>3 DEF Account, rest
  <2>3. thread[s].at \notin Returned
    BY <1>3 DEF Account
  <2>. QED  BY <2>1, <2>2, <2>3, PlacesAre DEF Worked
<1>4. ASSUME NEW stg \in StageNames, Look(s, stg) PROVE Worked(s)
  <2>1. Goes(s, AfterStop) \/ Goes(s, Underway[stg])
    BY <1>4 DEF Look
  <2>2. stg \in Places
    BY <1>4 DEF Look
  <2>3. \E place \in Places : Goes(s, place)
    BY <2>1, <2>2, PlacesAre
  <2>4. thread[s].at \notin Returned
    BY <1>4, PlacesAre DEF Look
  <2>5. UNCHANGED <<live, request, raced, row, tables>>
    BY <1>4 DEF Look, rest
  <2>. QED  BY <2>3, <2>4, <2>5, WritesNothing DEF Worked
<1>5. ASSUME NEW stg \in StageNames, Work(s, stg) PROVE Worked(s)
  <2>1. stg # "seal" /\ thread[s].at = Underway[stg] /\ Goes(s, NextStage(stg))
        /\ Write(s, RowsOf(stg))
    BY <1>5 DEF Work
  <2>2. \E place \in Places : Goes(s, place)
    BY <2>1, PlacesAre
  <2>3. thread[s].at \notin Returned
    BY <2>1, PlacesAre
  <2>4. UNCHANGED <<live, request, raced, row>>
    BY <1>5 DEF Work, rest
  <2>5. \E names \in SUBSET TableNames : Write(s, names)
    BY <2>1, RowNames
  <2>. QED  BY <2>2, <2>3, <2>4, <2>5 DEF Worked
<1>6. ASSUME NEW stg \in StageNames, NEW how \in {"input", "internal"}, Raise(s, stg, how)
      PROVE  Worked(s)
  <2>1. Seal(s, IF live \/ how = "internal" THEN "FAILED" ELSE "BLOCKED") /\ Goes(s, AfterStop)
    BY <1>6 DEF Raise
  <2>2. (IF live \/ how = "internal" THEN "FAILED" ELSE "BLOCKED") \in Ended
    BY DEF Ended
  <2>3. thread[s].at \notin Returned /\ UNCHANGED <<live, request, raced>>
    BY <1>6, PlacesAre DEF Raise, rest
  <2>. QED  BY <2>1, <2>2, <2>3, SealIs, PlacesAre DEF Worked
<1>7. ASSUME NEW stg \in Charging, NEW early \in BOOLEAN, BudgetStop(s, stg, early)
      PROVE  Worked(s)
  <2>1. stg \in StageNames
    BY DEF Charging
  <2>2. \E place \in Places : Goes(s, place)
    BY <1>7 DEF BudgetStop, Places
  <2>3. thread[s].at \notin Returned
    BY <1>7, <2>1, PlacesAre DEF BudgetStop
  <2>4. UNCHANGED <<live, request, raced, row>>
    BY <1>7 DEF BudgetStop, rest
  <2>5. \E names \in SUBSET TableNames : Write(s, names)
    BY <1>7, StopWrites
  <2>. QED  BY <2>2, <2>3, <2>4, <2>5 DEF Worked
<1>8. CASE StopLooks(s)
  <2>1. live
    BY <1>8 DEF StopLooks, Places, Returned
  <2>2. \E place \in Places : Goes(s, place)
    BY <1>8, <2>1, PlacesAre DEF StopLooks, Places
  <2>3. thread[s].at \notin Returned /\ UNCHANGED <<live, request, raced>>
    BY <1>8 DEF StopLooks, rest, Returned
  <2>4. UNCHANGED <<row, tables>> \/ Seal(s, "FAILED")
    BY <1>8 DEF StopLooks
  <2>. QED  BY <2>2, <2>3, <2>4, SealIs, WritesNothing DEF Worked, Ended
<1>9. CASE StopEnds(s)
  <2>1. live
    BY <1>9 DEF StopEnds, Places, Returned
  <2>2. \E place \in Places : Goes(s, place)
    BY <1>9, <2>1, PlacesAre DEF StopEnds, Places
  <2>3. thread[s].at \notin Returned /\ UNCHANGED <<live, request, raced>>
    BY <1>9 DEF StopEnds, rest, Returned
  <2>4. \/ UNCHANGED <<row, tables>>
        \/ /\ row[s].state = "open" /\ Write(s, EndRows)
           /\ row' = [row EXCEPT ![s].state = "COMPLETE"]
    BY <1>9 DEF StopEnds
  <2>. QED  BY <2>2, <2>3, <2>4, RowNames, WritesNothing DEF Worked, Ended
<1>. QED  BY <1>1, <1>2, <1>3, <1>4, <1>5, <1>6, <1>7, <1>8, <1>9


\* Each request that is received is about a search that is there: what has results was made.
LEMMA ReceivedIsEntered ==
    ASSUME ServiceTypes, NothingBefore, NEW r \in Slots, NEW s \in Ids,
           \/ BeginCancel(r, s) \/ BeginDelete(r, s) \/ BeginRefresh(r, s) \/ BeginFeedback(r, s)
    PROVE  Entered(r, s)
<1>1. CASE BeginCancel(r, s)
  BY <1>1 DEF BeginCancel, Enter, asked, others, Entered, Requests, Waits
<1>2. CASE BeginDelete(r, s)
  BY <1>2 DEF BeginDelete, Enter, asked, others, Entered, Requests, Waits
<1>3. CASE BeginRefresh(r, s)
  BY <1>3 DEF BeginRefresh, Enter, asked, others, Entered, Requests, Waits
<1>4. CASE BeginFeedback(r, s)
  <2>1. Found(s)
    BY <1>4 DEF BeginFeedback, Found, NothingBefore
  <2>. QED  BY <1>4, <2>1 DEF BeginFeedback, Enter, asked, others, Entered, Requests, Waits
<1>. QED  BY <1>1, <1>2, <1>3, <1>4

\* What a request does on its way, other than a purge.
LEMMA WritersWrite ==
    ASSUME ServiceTypes, NEW r \in Slots,
           \/ CancelRow(r) \/ FeedbackEvidence(r) \/ InsertFeedback(r)
           \/ RefreshLive(r) \/ RefreshTold(r)
    PROVE  Wrote(r)
<1>. request[r].s \in Ids \cup {0}
  BY DEF ServiceTypes
<1>1. CASE CancelRow(r)
  <2>1. /\ request[r].kind # "delete" /\ GetsOn(r) /\ UNCHANGED <<live, thread, raced>>
    BY <1>1 DEF CancelRow, At, GetsOn, steady, others
  <2>2. CASE row[request[r].s].state = "open"
    <3>1. Write(request[r].s, CheckpointRows \cup LogRows)
          /\ row' = [row EXCEPT ![request[r].s].state = "CANCELLED"]
      BY <1>1, <2>2 DEF CancelRow
    <3>2. CheckpointRows \cup LogRows \in SUBSET TableNames
      BY RowNames
    <3>. QED  BY <2>1, <2>2, <3>1, <3>2 DEF Wrote
  <2>3. CASE row[request[r].s].state # "open"
    <3>1. UNCHANGED <<row, tables>>
      BY <1>1, <2>3 DEF CancelRow
    <3>. QED  BY <2>1, <3>1, WritesNothing DEF Wrote
  <2>. QED  BY <2>2, <2>3
<1>2. CASE FeedbackEvidence(r)
  <2>1. GetsOn(r)
    BY <1>2 DEF FeedbackEvidence, GetsOn, Waits
  <2>. QED  BY <1>2, <2>1, RowNames DEF FeedbackEvidence, At, steady, others, Wrote
<1>3. CASE InsertFeedback(r)
  <2>1. GetsOn(r) /\ FeedbackRows \cup ReceiptRows \in SUBSET TableNames
    BY <1>3, RowNames DEF InsertFeedback, GetsOn
  <2>. QED  BY <1>3, <2>1 DEF InsertFeedback, At, steady, others, Wrote
<1>4. CASE RefreshLive(r)
  <2>1. GetsOn(r)
    BY <1>4 DEF RefreshLive, GetsOn, Waits
  <2>2. (IF live /\ "results" \in tables[request[r].s] THEN ListingRows ELSE {})
            \in SUBSET TableNames
    BY RowNames
  <2>. QED  BY <1>4, <2>1, <2>2 DEF RefreshLive, At, steady, others, Wrote
<1>5. CASE RefreshTold(r)
  <2>1. GetsOn(r) /\ LogRows \cup ReceiptRows \in SUBSET TableNames
    BY <1>5, RowNames DEF RefreshTold, GetsOn
  <2>. QED  BY <1>5, <2>1 DEF RefreshTold, At, steady, others, Wrote
<1>. QED  BY <1>1, <1>2, <1>3, <1>4, <1>5

LEMMA WaitersWait ==
    ASSUME NEW r \in Slots, Flag(r) \/ Wait(r)
    PROVE  Waited(r)
<1>1. CASE Flag(r)
  BY <1>1 DEF Flag, steady, others, Waited, GetsOn, Waits
<1>2. CASE Wait(r)
  BY <1>2 DEF Wait, steady, others, Waited, GetsOn, Waits
<1>. QED  BY <1>1, <1>2

LEMMA StepIsOfAKind == ServiceTypes /\ NothingBefore /\ ServiceNext => StepKinds
<1> SUFFICES ASSUME ServiceTypes, NothingBefore, ServiceNext PROVE StepKinds
  OBVIOUS
<1>1. ASSUME NEW form \in Forms, NEW how \in {"fine", "input", "internal"},
             CreateSearch(form, how)
      PROVE  StepKinds
  BY <1>1, CreateIsCreated DEF StepKinds
<1>2. ASSUME NEW s \in Ids,
             \/ Begin(s) \/ SealWork(s) \/ Account(s) \/ StopLooks(s) \/ StopEnds(s)
             \/ \E stg \in Charging, early \in BOOLEAN : BudgetStop(s, stg, early)
      PROVE  StepKinds
  BY <1>2, ThreadsWork DEF StepKinds
<1>3. ASSUME NEW s \in Ids, NEW stg \in {LiveStages[k] : k \in 1..5} \cup {"consult"},
             \/ Look(s, stg) \/ Work(s, stg)
             \/ \E how \in {"input", "internal"} : Raise(s, stg, how)
      PROVE  StepKinds
  <2>1. stg \in StageNames
    BY StagesOfNext
  <2>2. Worked(s)
    BY <1>3, <2>1, ThreadsWork
  <2>. QED  BY <2>2 DEF StepKinds
<1>4. ASSUME NEW r \in Slots, NEW s \in Ids,
             \/ BeginCancel(r, s) \/ BeginDelete(r, s) \/ BeginRefresh(r, s)
             \/ BeginFeedback(r, s)
      PROVE  StepKinds
  BY <1>4, ReceivedIsEntered DEF StepKinds
<1>5. ASSUME NEW r \in Slots,
             \/ CancelRow(r) \/ FeedbackEvidence(r) \/ InsertFeedback(r)
             \/ RefreshLive(r) \/ RefreshTold(r)
      PROVE  StepKinds
  BY <1>5, WritersWrite DEF StepKinds
<1>6. ASSUME NEW r \in Slots, Flag(r) \/ Wait(r) PROVE StepKinds
  BY <1>6, WaitersWait DEF StepKinds
<1>7. ASSUME NEW r \in Slots, PurgeRows(r) \/ RedactIntent(r) \/ MarkDeleted(r) PROVE StepKinds
  BY <1>7 DEF StepKinds
<1>8. CASE Restart
  BY <1>8 DEF Restart, Restarted, StepKinds
<1>. QED
  BY <1>1, <1>2, <1>3, <1>4, <1>5, <1>6, <1>7, <1>8 DEF ServiceNext


\* A request that gets on is still about its search, or over, and no other is touched.
LEMMA GettingOn ==
    ASSUME ServiceTypes, NEW r \in Slots, GetsOn(r)
    PROVE  /\ request' \in [Slots -> [kind : Requests, s : Ids \cup {0}, at : Waits]]
           /\ \A q \in Slots \ {r} : request'[q] = request[q]
           /\ \/ request'[r] = Idle
              \/ request'[r].kind = request[r].kind /\ request'[r].s = request[r].s
           /\ request'[r].at \notin {"redact", "mark"}
<1>0. Idle \in [kind : Requests, s : Ids \cup {0}, at : Waits] /\ Idle.at \notin {"redact", "mark"}
  BY DEF Idle, Requests, Waits
<1>1. CASE Finish(r)
  BY <1>0, <1>1 DEF Finish, ServiceTypes
<1>2. ASSUME NEW at \in Waits \ {"redact", "mark"}, Step(r, at)
      PROVE  /\ request' \in [Slots -> [kind : Requests, s : Ids \cup {0}, at : Waits]]
             /\ \A q \in Slots \ {r} : request'[q] = request[q]
             /\ request'[r].kind = request[r].kind /\ request'[r].s = request[r].s
             /\ request'[r].at \notin {"redact", "mark"}
  BY <1>2 DEF Step, ServiceTypes
<1>. QED  BY <1>1, <1>2 DEF GetsOn

\* A search that is made has a row of its own, and no other search is touched.
LEMMA CreatedIs ==
    ASSUME ServiceTypes, NEW s \in Ids, Created(s)
    PROVE  /\ UNCHANGED <<live, request, raced>> /\ row[s].state = "none"
           /\ row'[s].state # "none" /\ ~row'[s].deleted
           /\ row'[s].key # NoKey => ByKey(row'[s].key) = {}
           /\ \/ thread'[s].starts = thread[s].starts + 1 \/ UNCHANGED thread
           /\ \A i \in Ids \ {s} : /\ row'[i] = row[i] /\ tables'[i] = tables[i]
                                    /\ thread'[i] = thread[i]
<1>1. PICK state \in {"open"} \cup Ended, key \in {NoKey} \cup {f.key : f \in Forms} :
          /\ key # NoKey => ByKey(key) = {}
          /\ row' = [row EXCEPT ![s] =
                        [state |-> state, key |-> key, deleted |-> FALSE, intent |-> TRUE]]
  BY DEF Created
<1>2. row'[s] = [state |-> state, key |-> key, deleted |-> FALSE, intent |-> TRUE]
      /\ \A i \in Ids \ {s} : row'[i] = row[i]
  BY <1>1 DEF ServiceTypes
<1>3. state # "none"
  BY DEF Ended
<1>4. \A i \in Ids \ {s} : tables'[i] = tables[i]
  BY DEF Created, Write, ServiceTypes
<1>5. /\ thread'[s].starts = thread[s].starts + 1 \/ UNCHANGED thread
      /\ \A i \in Ids \ {s} : thread'[i] = thread[i]
  BY DEF Created, StartThread, ServiceTypes
<1>. QED  BY <1>1, <1>2, <1>3, <1>4, <1>5 DEF Created

\* What a thread does is about its own search: it may end its row, and starts none.
LEMMA WorkedIs ==
    ASSUME ServiceTypes, NEW s \in Ids, Worked(s)
    PROVE  /\ UNCHANGED <<live, request, raced>> /\ thread[s].at \notin Returned
           /\ row'[s].state = "none" <=> row[s].state = "none"
           /\ row'[s].deleted = row[s].deleted /\ row'[s].intent = row[s].intent
           /\ row'[s].key = row[s].key /\ thread'[s].starts = thread[s].starts
           /\ \A i \in Ids \ {s} : /\ row'[i] = row[i] /\ tables'[i] = tables[i]
                                    /\ thread'[i] = thread[i]
<1>1. /\ row'[s].state = "none" <=> row[s].state = "none"
      /\ row'[s].deleted = row[s].deleted /\ row'[s].intent = row[s].intent
      /\ row'[s].key = row[s].key
      /\ \A i \in Ids \ {s} : row'[i] = row[i]
  BY DEF Worked, ServiceTypes, Ended
<1>2. \A i \in Ids \ {s} : tables'[i] = tables[i]
  BY DEF Worked, Write, ServiceTypes
<1>3. thread'[s].starts = thread[s].starts /\ \A i \in Ids \ {s} : thread'[i] = thread[i]
  BY DEF Worked, Goes, ServiceTypes
<1>. QED  BY <1>1, <1>2, <1>3 DEF Worked

\* What a request writes is about its search, which it may cancel.
LEMMA WroteIs ==
    ASSUME ServiceTypes, NEW r \in Slots, Wrote(r)
    PROVE  /\ UNCHANGED <<live, thread, raced>> /\ request[r].kind # "delete"
           /\ \A i \in Ids : /\ row'[i].state = "none" <=> row[i].state = "none"
                             /\ row'[i].deleted = row[i].deleted
                             /\ row'[i].intent = row[i].intent /\ row'[i].key = row[i].key
                             /\ request[r].s # i => row'[i] = row[i] /\ tables'[i] = tables[i]
<1>1. \A i \in Ids : /\ row'[i].state = "none" <=> row[i].state = "none"
                     /\ row'[i].deleted = row[i].deleted
                     /\ row'[i].intent = row[i].intent /\ row'[i].key = row[i].key
                     /\ request[r].s # i => row'[i] = row[i]
  <2>1. CASE UNCHANGED row
    BY <2>1
  <2>2. CASE /\ row[request[r].s].state = "open"
             /\ row' = [row EXCEPT ![request[r].s].state = "CANCELLED"]
    BY <2>2 DEF ServiceTypes
  <2>. QED  BY <2>1, <2>2 DEF Wrote
<1>2. \A i \in Ids : request[r].s # i => tables'[i] = tables[i]
  BY DEF Wrote, Write, ServiceTypes
<1>. QED  BY <1>1, <1>2 DEF Wrote

\* A change of one field of a search leaves its row a row.
LEMMA RowFields ==
    ASSUME NEW S, NEW A, NEW B, NEW i, NEW v \in A,
           NEW f \in [S -> [state : A, key : B, deleted : BOOLEAN, intent : BOOLEAN]]
    PROVE  /\ [f EXCEPT ![i].state = v]
                 \in [S -> [state : A, key : B, deleted : BOOLEAN, intent : BOOLEAN]]
           /\ [f EXCEPT ![i].intent = FALSE]
                 \in [S -> [state : A, key : B, deleted : BOOLEAN, intent : BOOLEAN]]
           /\ [f EXCEPT ![i].deleted = TRUE]
                 \in [S -> [state : A, key : B, deleted : BOOLEAN, intent : BOOLEAN]]
  OBVIOUS

\* Deletion of one search changes nothing else of a row.
LEMMA RowDeleted ==
    ASSUME ServiceTypes, NEW s \in Ids, row' = [row EXCEPT ![s].deleted = TRUE],
           NEW i \in Ids
    PROVE  row'[i].intent = row[i].intent /\ (i # s => row'[i].deleted = row[i].deleted)
<1>1. /\ DOMAIN row = Ids
      /\ row[i] \in [state : RowStates, key : {NoKey} \cup {f.key : f \in Forms},
                     deleted : BOOLEAN, intent : BOOLEAN]
  BY DEF ServiceTypes
<1>2. CASE i = s
  <2>1. row'[i] = [row[i] EXCEPT !.deleted = TRUE]
    BY <1>1, <1>2
  <2>. QED  BY <1>1, <1>2, <2>1
<1>3. CASE i # s
  <2>1. row'[i] = row[i]
    BY <1>1, <1>3
  <2>. QED  BY <1>3, <2>1
<1>. QED  BY <1>2, <1>3

\* Every variable keeps its kind.
LEMMA ServiceTypesStep ==
    ServiceTypes /\ NothingBefore /\ [ServiceNext]_serviceVars
        => ServiceTypes'
<1> SUFFICES ASSUME ServiceTypes, NothingBefore, [ServiceNext]_serviceVars PROVE ServiceTypes'
  OBVIOUS
<1> USE DEF ServiceTypes
<1>0. /\ {"open"} \cup Ended \subseteq RowStates /\ "CANCELLED" \in RowStates
      /\ Idle \in [kind : Requests, s : Ids \cup {0}, at : Waits]
      /\ {"redact", "mark"} \subseteq Waits /\ {"none", "begin", "over"} \subseteq Places
      /\ ReceiptRows \in SUBSET TableNames
  BY RowNames DEF RowStates, Ended, Idle, Requests, Waits, Places
<1>1. ASSUME NEW s \in Ids, Created(s) PROVE ServiceTypes'
  <2>1. live' \in BOOLEAN /\ Places' = Places
    BY <1>1 DEF Created, StartThread, Write, Places
  <2>2. row' \in [Ids -> [state : RowStates, key : {NoKey} \cup {f.key : f \in Forms},
                        deleted : BOOLEAN, intent : BOOLEAN]]
    BY <1>1, <1>0 DEF Created, StartThread, Write
  <2>3. tables' \in [Ids -> SUBSET TableNames]
    BY <1>1, <1>0 DEF Created, StartThread, Write
  <2>4. thread' \in [Ids -> [at : Places, starts : Nat]]
    BY <1>1, <1>0 DEF Created, StartThread, Write
  <2>5. request' \in [Slots -> [kind : Requests, s : Ids \cup {0}, at : Waits]]
    BY <1>1, <1>0 DEF Created, StartThread, Write
  <2>6. raced' \subseteq Ids \cup {0}
    BY <1>1, <1>0 DEF Created, StartThread, Write
  <2>. QED  BY <2>1, <2>2, <2>3, <2>4, <2>5, <2>6
<1>2. ASSUME NEW s \in Ids, Worked(s) PROVE ServiceTypes'
  <2>1. live' \in BOOLEAN /\ Places' = Places
    BY <1>2 DEF Worked, Goes, Write, Places
  <2>2. row' \in [Ids -> [state : RowStates, key : {NoKey} \cup {f.key : f \in Forms},
                        deleted : BOOLEAN, intent : BOOLEAN]]
    <3>1. CASE UNCHANGED row
      BY <3>1
    <3>2. ASSUME NEW state \in Ended, row' = [row EXCEPT ![s].state = state]
          PROVE  row' \in [Ids -> [state : RowStates, key : {NoKey} \cup {f.key : f \in Forms},
                                  deleted : BOOLEAN, intent : BOOLEAN]]
      <4>1. state \in RowStates
        BY <1>0
      <4> QED  BY <3>2, <4>1, RowFields
    <3>. QED  BY <1>2, <3>1, <3>2 DEF Worked
  <2>3. tables' \in [Ids -> SUBSET TableNames]
    BY <1>2, <1>0, SMTT(30) DEF Worked, Goes, Write
  <2>4. thread' \in [Ids -> [at : Places, starts : Nat]]
    BY <1>2, <1>0, SMTT(30) DEF Worked, Goes, Write
  <2>5. request' \in [Slots -> [kind : Requests, s : Ids \cup {0}, at : Waits]]
    BY <1>2, <1>0 DEF Worked, Goes, Write
  <2>6. raced' \subseteq Ids \cup {0}
    BY <1>2, <1>0 DEF Worked, Goes, Write
  <2>. QED  BY <2>1, <2>2, <2>3, <2>4, <2>5, <2>6
<1>3. ASSUME NEW r \in Slots, NEW s \in Ids, Entered(r, s) PROVE ServiceTypes'
  <2>1. live' \in BOOLEAN /\ Places' = Places
    BY <1>3 DEF Entered, Places
  <2>2. row' \in [Ids -> [state : RowStates, key : {NoKey} \cup {f.key : f \in Forms},
                        deleted : BOOLEAN, intent : BOOLEAN]]
    BY <1>3, <1>0 DEF Entered
  <2>3. tables' \in [Ids -> SUBSET TableNames]
    BY <1>3, <1>0 DEF Entered
  <2>4. thread' \in [Ids -> [at : Places, starts : Nat]]
    BY <1>3, <1>0 DEF Entered
  <2>5. request' \in [Slots -> [kind : Requests, s : Ids \cup {0}, at : Waits]]
    BY <1>3, <1>0 DEF Entered
  <2>6. raced' \subseteq Ids \cup {0}
    BY <1>3, <1>0 DEF Entered
  <2>. QED  BY <2>1, <2>2, <2>3, <2>4, <2>5, <2>6
<1>4. ASSUME NEW r \in Slots, Wrote(r) PROVE ServiceTypes'
  <2>1. live' \in BOOLEAN /\ Places' = Places
    BY <1>4 DEF Wrote, GetsOn, Step, Finish, Idle, Write, Places
  <2>2. row' \in [Ids -> [state : RowStates, key : {NoKey} \cup {f.key : f \in Forms},
                        deleted : BOOLEAN, intent : BOOLEAN]]
    <3>1. CASE UNCHANGED row
      BY <3>1
    <3>2. CASE row' = [row EXCEPT ![request[r].s].state = "CANCELLED"]
      <4>1. "CANCELLED" \in RowStates
        BY <1>0
      <4> QED  BY <3>2, <4>1, RowFields
    <3>. QED  BY <1>4, <3>1, <3>2 DEF Wrote
  <2>3. tables' \in [Ids -> SUBSET TableNames]
    <3>1. PICK names \in SUBSET TableNames : Write(request[r].s, names)
      BY <1>4 DEF Wrote
    <3>2. tables' = [tables EXCEPT ![request[r].s] = @ \cup names]
      BY <3>1 DEF Write
    <3>. QED  BY <3>2
  <2>4. thread' \in [Ids -> [at : Places, starts : Nat]]
    BY <1>4, <1>0 DEF Wrote
  <2>5. request' \in [Slots -> [kind : Requests, s : Ids \cup {0}, at : Waits]]
    BY <1>4, GettingOn DEF Wrote
  <2>6. raced' \subseteq Ids \cup {0}
    BY <1>4, <1>0 DEF Wrote
  <2>. QED  BY <2>1, <2>2, <2>3, <2>4, <2>5, <2>6
<1>5. ASSUME NEW r \in Slots, Waited(r) PROVE ServiceTypes'
  <2>1. live' \in BOOLEAN /\ Places' = Places
    BY <1>5 DEF Waited, GetsOn, Step, Finish, Idle, Places
  <2>2. row' \in [Ids -> [state : RowStates, key : {NoKey} \cup {f.key : f \in Forms},
                        deleted : BOOLEAN, intent : BOOLEAN]]
    BY <1>5, <1>0 DEF Waited, GetsOn, Step, Finish, Idle
  <2>3. tables' \in [Ids -> SUBSET TableNames]
    BY <1>5, <1>0 DEF Waited, GetsOn, Step, Finish, Idle
  <2>4. thread' \in [Ids -> [at : Places, starts : Nat]]
    BY <1>5, <1>0 DEF Waited, GetsOn, Step, Finish, Idle
  <2>5. request' \in [Slots -> [kind : Requests, s : Ids \cup {0}, at : Waits]]
    BY <1>5, GettingOn DEF Waited
  <2>6. raced' \subseteq Ids \cup {0}
    BY <1>5, <1>0 DEF Waited, GetsOn, Step, Finish, Idle
  <2>. QED  BY <2>1, <2>2, <2>3, <2>4, <2>5, <2>6
<1>6. ASSUME NEW r \in Slots, PurgeRows(r) PROVE ServiceTypes'
  <2>1. live' \in BOOLEAN /\ Places' = Places
    BY <1>6 DEF PurgeRows, Step, Finish, Idle, steady, others, Places
  <2>2. row' \in [Ids -> [state : RowStates, key : {NoKey} \cup {f.key : f \in Forms},
                        deleted : BOOLEAN, intent : BOOLEAN]]
    BY <1>6, <1>0 DEF PurgeRows, Step, Finish, Idle, steady, others
  <2>3. tables' \in [Ids -> SUBSET TableNames]
    BY <1>6, <1>0 DEF PurgeRows, Step, Finish, Idle, steady, others
  <2>4. thread' \in [Ids -> [at : Places, starts : Nat]]
    BY <1>6, <1>0 DEF PurgeRows, Step, Finish, Idle, steady, others
  <2>5. request' \in [Slots -> [kind : Requests, s : Ids \cup {0}, at : Waits]]
    <3>1. Finish(r) \/ Step(r, "redact")
      BY <1>6 DEF PurgeRows
    <3>2. CASE Finish(r)  BY <1>0, <3>2 DEF Finish
    <3>3. CASE Step(r, "redact")  BY <1>0, <3>3 DEF Step
    <3>. QED  BY <3>1, <3>2, <3>3
  <2>6. raced' \subseteq Ids \cup {0}
    BY <1>6, <1>0 DEF PurgeRows, Step, Finish, Idle, steady, others
  <2>. QED  BY <2>1, <2>2, <2>3, <2>4, <2>5, <2>6
<1>7. ASSUME NEW r \in Slots, RedactIntent(r) PROVE ServiceTypes'
  <2>1. live' \in BOOLEAN /\ Places' = Places
    BY <1>7 DEF RedactIntent, Step, steady, others, Places
  <2>2. row' \in [Ids -> [state : RowStates, key : {NoKey} \cup {f.key : f \in Forms},
                        deleted : BOOLEAN, intent : BOOLEAN]]
    <3>1. row' = [row EXCEPT ![request[r].s].intent = FALSE] /\ "open" \in RowStates
      BY <1>7 DEF RedactIntent, RowStates
    <3> QED  BY <3>1, RowFields
  <2>3. tables' \in [Ids -> SUBSET TableNames]
    BY <1>7, <1>0 DEF RedactIntent, Step, steady, others
  <2>4. thread' \in [Ids -> [at : Places, starts : Nat]]
    BY <1>7, <1>0 DEF RedactIntent, Step, steady, others
  <2>5. request' \in [Slots -> [kind : Requests, s : Ids \cup {0}, at : Waits]]
    BY <1>7, <1>0 DEF RedactIntent, Step, steady, others
  <2>6. raced' \subseteq Ids \cup {0}
    BY <1>7, <1>0 DEF RedactIntent, Step, steady, others
  <2>. QED  BY <2>1, <2>2, <2>3, <2>4, <2>5, <2>6
<1>8. ASSUME NEW r \in Slots, MarkDeleted(r) PROVE ServiceTypes'
  <2>1. live' \in BOOLEAN /\ Places' = Places
    BY <1>8 DEF MarkDeleted, Finish, Idle, Write, steady, others, Places
  <2>2. row' \in [Ids -> [state : RowStates, key : {NoKey} \cup {f.key : f \in Forms},
                        deleted : BOOLEAN, intent : BOOLEAN]]
    <3>1. row' = [row EXCEPT ![request[r].s].deleted = TRUE] /\ "open" \in RowStates
      BY <1>8 DEF MarkDeleted, RowStates
    <3> QED  BY <3>1, RowFields
  <2>3. tables' \in [Ids -> SUBSET TableNames]
    BY <1>8, <1>0 DEF MarkDeleted, Finish, Idle, Write, steady, others
  <2>4. thread' \in [Ids -> [at : Places, starts : Nat]]
    BY <1>8, <1>0 DEF MarkDeleted, Finish, Idle, Write, steady, others
  <2>5. request' \in [Slots -> [kind : Requests, s : Ids \cup {0}, at : Waits]]
    BY <1>8, <1>0 DEF MarkDeleted, Finish, Idle, Write, steady, others
  <2>6. raced' \subseteq Ids \cup {0}
    BY <1>8, <1>0 DEF MarkDeleted, Finish, Idle, Write, steady, others
  <2>. QED  BY <2>1, <2>2, <2>3, <2>4, <2>5, <2>6
<1>9. CASE Restarted
  <2>1. live' \in BOOLEAN /\ Places' = Places
    BY <1>9 DEF Restarted, Idle, Places
  <2>2. row' \in [Ids -> [state : RowStates, key : {NoKey} \cup {f.key : f \in Forms},
                        deleted : BOOLEAN, intent : BOOLEAN]]
    BY <1>9, <1>0 DEF Restarted, Idle
  <2>3. tables' \in [Ids -> SUBSET TableNames]
    BY <1>9, <1>0 DEF Restarted, Idle
  <2>4. thread' \in [Ids -> [at : Places, starts : Nat]]
    BY <1>9, <1>0 DEF Restarted, Idle
  <2>5. request' \in [Slots -> [kind : Requests, s : Ids \cup {0}, at : Waits]]
    BY <1>9, <1>0 DEF Restarted, Idle
  <2>6. raced' \subseteq Ids \cup {0}
    BY <1>9, <1>0 DEF Restarted, Idle
  <2>. QED  BY <2>1, <2>2, <2>3, <2>4, <2>5, <2>6
<1>10. CASE UNCHANGED serviceVars
  BY <1>10 DEF serviceVars, Places
<1>. QED
  BY <1>1, <1>2, <1>3, <1>4, <1>5, <1>6, <1>7, <1>8, <1>9, <1>10, StepIsOfAKind DEF
     StepKinds

\* What is not created is not worked on.
LEMMA NothingBeforeStep ==
    ServiceTypes /\ NothingBefore /\ [ServiceNext]_serviceVars
        => NothingBefore'
<1> SUFFICES ASSUME ServiceTypes, NothingBefore, [ServiceNext]_serviceVars PROVE NothingBefore'
  OBVIOUS
<1> USE DEF NothingBefore, Ids
<1>1. ASSUME NEW s \in Ids, Created(s) PROVE NothingBefore'
  BY <1>1, CreatedIs
<1>2. ASSUME NEW s \in Ids, Worked(s) PROVE NothingBefore'
  BY <1>2, WorkedIs
<1>3. ASSUME NEW r \in Slots, NEW s \in Ids, Entered(r, s) PROVE NothingBefore'
  BY <1>3 DEF Entered, Found, ServiceTypes
<1>4. ASSUME NEW r \in Slots, Wrote(r) PROVE NothingBefore'
  <2>1. GetsOn(r)
    BY <1>4 DEF Wrote
  <2>2. \A q \in Slots : request'[q].s = request[q].s \/ request'[q].s = 0
    BY <2>1, GettingOn DEF Idle
  <2>3. /\ thread' = thread
        /\ \A i \in Ids : /\ row'[i].state = "none" <=> row[i].state = "none"
                          /\ row'[i].deleted = row[i].deleted
                          /\ request[r].s # i => tables'[i] = tables[i]
    BY <1>4, WroteIs
  <2>. QED  BY <2>2, <2>3
<1>5. ASSUME NEW r \in Slots, Waited(r) PROVE NothingBefore'
  <2>1. GetsOn(r) /\ UNCHANGED <<live, row, tables, thread, raced>>
    BY <1>5 DEF Waited
  <2>. QED  BY <2>1, GettingOn DEF Idle
<1>6. ASSUME NEW r \in Slots, PurgeRows(r) PROVE NothingBefore'
  BY <1>6, SMTT(30) DEF PurgeRows, Step, Finish, Idle, steady, others, ServiceTypes
<1>7. ASSUME NEW r \in Slots, RedactIntent(r) PROVE NothingBefore'
  BY <1>7 DEF RedactIntent, Step, steady, others, ServiceTypes
<1>8. ASSUME NEW r \in Slots, MarkDeleted(r) PROVE NothingBefore'
  BY <1>8 DEF MarkDeleted, Finish, Idle, Write, steady, others, ServiceTypes
<1>9. CASE Restarted
  BY <1>9 DEF Restarted, Idle, ServiceTypes
<1>10. CASE UNCHANGED serviceVars
  BY <1>10 DEF serviceVars, Found, Untouched, At
<1>. QED
  BY <1>1, <1>2, <1>3, <1>4, <1>5, <1>6, <1>7, <1>8, <1>9, <1>10, StepIsOfAKind DEF
     StepKinds

\* A thread is started for a search that had none, and its key was not taken.
LEMMA StartedStep ==
    ServiceTypes /\ NothingBefore /\ StartedOnce /\ [ServiceNext]_serviceVars
        => StartedOnce'
<1> SUFFICES ASSUME ServiceTypes, NothingBefore, StartedOnce, [ServiceNext]_serviceVars PROVE StartedOnce'
  OBVIOUS
<1> USE DEF StartedOnce, Ids
<1>1. ASSUME NEW s \in Ids, Created(s) PROVE StartedOnce'
  <2>1. thread[s].starts = 0
    BY <1>1, CreatedIs DEF NothingBefore
  <2>2. \A i \in Ids : thread'[i].starts <= 1
    BY <1>1, <2>1, CreatedIs
  <2>3. \A i \in Ids \ {s} : Found(i)' => row[i].key # row'[s].key \/ row'[s].key = NoKey
    BY <1>1, CreatedIs DEF Found, ByKey
  <2>4. \A i, j \in Ids :
            i # j /\ Found(i)' /\ Found(j)' => row'[i].key # row'[j].key \/ row'[i].key = NoKey
    BY <1>1, <2>3, CreatedIs DEF Found
  <2>. QED  BY <2>2, <2>4
<1>2. ASSUME NEW s \in Ids, Worked(s) PROVE StartedOnce'
  BY <1>2, WorkedIs DEF Found
<1>3. ASSUME NEW r \in Slots, NEW s \in Ids, Entered(r, s) PROVE StartedOnce'
  BY <1>3 DEF Entered, Found, ServiceTypes, Found
<1>4. ASSUME NEW r \in Slots, Wrote(r) PROVE StartedOnce'
  <2>1. GetsOn(r)
    BY <1>4 DEF Wrote
  <2>. QED  BY <1>4, <2>1, WroteIs, GettingOn DEF Idle, Found
<1>5. ASSUME NEW r \in Slots, Waited(r) PROVE StartedOnce'
  <2>1. GetsOn(r) /\ UNCHANGED <<live, row, tables, thread, raced>>
    BY <1>5 DEF Waited
  <2>. QED  BY <2>1, GettingOn DEF Idle, Found
<1>6. ASSUME NEW r \in Slots, PurgeRows(r) PROVE StartedOnce'
  BY <1>6 DEF PurgeRows, Step, Finish, Idle, steady, others, ServiceTypes, Found
<1>7. ASSUME NEW r \in Slots, RedactIntent(r) PROVE StartedOnce'
  BY <1>7 DEF RedactIntent, Step, steady, others, ServiceTypes, Found
<1>8. ASSUME NEW r \in Slots, MarkDeleted(r) PROVE StartedOnce'
  BY <1>8 DEF MarkDeleted, Finish, Idle, Write, steady, others, ServiceTypes, Found
<1>9. CASE Restarted
  BY <1>9 DEF Restarted, Idle, ServiceTypes, Found
<1>10. CASE UNCHANGED serviceVars
  BY <1>10 DEF serviceVars, Found, Untouched, At
<1>. QED
  BY <1>1, <1>2, <1>3, <1>4, <1>5, <1>6, <1>7, <1>8, <1>9, <1>10, StepIsOfAKind DEF
     StepKinds


\* Between a purge and its end nobody comes to what is purged, or it is raced.
LEMMA PurgeStep ==
    ServiceTypes /\ NothingBefore /\ PurgeAlone /\ [ServiceNext]_serviceVars
        => PurgeAlone'
<1> SUFFICES ASSUME ServiceTypes, NothingBefore, PurgeAlone, [ServiceNext]_serviceVars PROVE PurgeAlone'
  OBVIOUS
<1> USE DEF PurgeAlone
<1>1. ASSUME NEW s \in Ids, Created(s) PROVE PurgeAlone'
  <2> SUFFICES ASSUME NEW q \in Slots PROVE PurgeHeld(q)'
    OBVIOUS
  <2>1. PurgeHeld(q) /\ request' = request /\ raced' = raced
    BY <1>1, CreatedIs
  <2>2. CASE request[q].kind = "delete"
    <3>1. request[q].s \in Ids /\ request[q].s # s
      BY <1>1, <2>1, <2>2, CreatedIs DEF NothingBefore, PurgeHeld
    <3>. QED  BY <1>1, <2>1, <2>2, <3>1, CreatedIs DEF PurgeHeld, Untouched
  <2>. QED  BY <2>1, <2>2 DEF PurgeHeld
<1>2. ASSUME NEW s \in Ids, Worked(s) PROVE PurgeAlone'
  <2> SUFFICES ASSUME NEW q \in Slots PROVE PurgeHeld(q)'
    OBVIOUS
  <2>1. PurgeHeld(q) /\ request' = request /\ raced' = raced
    BY <1>2, WorkedIs
  <2>2. CASE request[q].kind = "delete" /\ request[q].s # s
    BY <1>2, <2>1, <2>2, WorkedIs DEF PurgeHeld, Untouched
  <2>3. CASE request[q].kind = "delete" /\ request[q].s = s
    BY <1>2, <2>1, <2>3, WorkedIs DEF PurgeHeld, Untouched
  <2>. QED  BY <2>1, <2>2, <2>3 DEF PurgeHeld
<1>3. ASSUME NEW r \in Slots, NEW s \in Ids, Entered(r, s) PROVE PurgeAlone'
  <2> SUFFICES ASSUME NEW q \in Slots PROVE PurgeHeld(q)'
    OBVIOUS
  <2>0. PurgeHeld(q) /\ UNCHANGED <<row, tables, thread>>
    BY <1>3 DEF Entered
  <2>1. PICK kind \in Requests, at \in Waits :
            /\ at \notin {"redact", "mark"}
            /\ request' = [request EXCEPT ![r] = [kind |-> kind, s |-> s, at |-> at]]
    BY <1>3 DEF Entered
  <2>2. CASE q = r
    BY <2>1, <2>2 DEF PurgeHeld, ServiceTypes
  <2>3. CASE q # r
    <3>1. request'[q] = request[q]
      BY <2>1, <2>3 DEF ServiceTypes
    <3>2. ASSUME request[q].kind = "delete", request[q].at \in {"redact", "mark"},
                 request[q].s \notin raced'
          PROVE  Untouched(request[q].s, Slots \ {q})'
      <4>1. request[q].s \notin raced
        BY <1>3, <3>2 DEF Entered
      <4>2. request[q].s # s
        BY <1>3, <3>2 DEF Entered, InPurge
      <4>3. \A z \in Slots : request'[z].s # request[z].s => request'[z].s = s
        BY <2>1 DEF ServiceTypes
      <4>. QED  BY <2>0, <3>1, <3>2, <4>1, <4>2, <4>3 DEF PurgeHeld, Untouched
    <3>. QED  BY <2>0, <3>1, <3>2 DEF PurgeHeld
  <2>. QED  BY <2>2, <2>3
<1>4. ASSUME NEW r \in Slots, Wrote(r) PROVE PurgeAlone'
  <2> SUFFICES ASSUME NEW q \in Slots PROVE PurgeHeld(q)'
    OBVIOUS
  <2>1. GetsOn(r) /\ PurgeHeld(q)
    BY <1>4 DEF Wrote
  <2>2. CASE q = r
    BY <1>4, <2>1, <2>2, GettingOn, WroteIs DEF PurgeHeld, Idle
  <2>3. CASE q # r /\ request[q].kind = "delete"
    <3>1. request'[q] = request[q] /\ request[q].s \in Ids
      BY <2>1, <2>3, GettingOn DEF PurgeHeld
    <3>2. CASE request[q].at \in {"redact", "mark"} /\ request[q].s \notin raced
      <4>1. request[r].s # request[q].s
        BY <2>1, <2>3, <3>2 DEF PurgeHeld, Untouched
      <4>2. \A z \in Slots : request'[z].s # request[z].s => request'[z].s = 0
        BY <2>1, GettingOn DEF Idle
      <4>3. request[q].s # 0
        BY <3>1 DEF Ids
      <4>4. Untouched(request[q].s, Slots \ {q})'
        BY <1>4, <2>1, <2>3, <3>1, <3>2, <4>1, <4>2, <4>3, WroteIs DEF PurgeHeld, Untouched
      <4>. QED  BY <1>4, <2>1, <2>3, <3>1, <4>4, WroteIs DEF PurgeHeld
    <3>3. CASE ~(request[q].at \in {"redact", "mark"} /\ request[q].s \notin raced)
      BY <1>4, <2>1, <2>3, <3>1, <3>3, WroteIs DEF PurgeHeld
    <3>. QED  BY <3>2, <3>3
  <2>4. CASE q # r /\ request[q].kind # "delete"
    BY <2>1, <2>4, GettingOn DEF PurgeHeld
  <2>. QED  BY <2>2, <2>3, <2>4
<1>5. ASSUME NEW r \in Slots, Waited(r) PROVE PurgeAlone'
  <2> SUFFICES ASSUME NEW q \in Slots PROVE PurgeHeld(q)'
    OBVIOUS
  <2>1. GetsOn(r) /\ PurgeHeld(q) /\ UNCHANGED <<row, tables, thread, raced>>
    BY <1>5 DEF Waited
  <2>2. CASE q = r
    BY <2>1, <2>2, GettingOn DEF PurgeHeld, Idle
  <2>3. CASE q # r
    <3>1. request'[q] = request[q]
      BY <2>1, <2>3, GettingOn
    <3>2. \A z \in Slots : request'[z].s # request[z].s => request'[z].s = 0
      BY <2>1, GettingOn DEF Idle
    <3>. QED  BY <2>1, <3>1, <3>2 DEF PurgeHeld, Untouched, Ids
  <2>. QED  BY <2>2, <2>3
<1>6. ASSUME NEW r \in Slots, PurgeRows(r) PROVE PurgeAlone'
  <2> SUFFICES ASSUME NEW q \in Slots PROVE PurgeHeld(q)'
    OBVIOUS
  <2>0. PurgeHeld(q) /\ PurgeHeld(r) /\ UNCHANGED <<row, thread>>
    BY <1>6 DEF PurgeRows, steady, others
  <2>1. At(r, "delete", "purge") /\ request[r].s \in Ids
    BY <1>6, <2>0 DEF PurgeRows, At, PurgeHeld
  <2>2. CASE row[request[r].s].deleted
    <3>1. Finish(r) /\ UNCHANGED <<tables, raced>>
      BY <1>6, <2>2 DEF PurgeRows
    <3>2. GetsOn(r)
      BY <3>1 DEF GetsOn
    <3>3. CASE q = r
      BY <3>1, <3>3 DEF Finish, Idle, PurgeHeld, ServiceTypes
    <3>4. CASE q # r
      <4>1. request'[q] = request[q]
        BY <3>2, <3>4, GettingOn
      <4>2. \A z \in Slots : request'[z].s # request[z].s => request'[z].s = 0
        BY <3>2, GettingOn DEF Idle
      <4>. QED  BY <2>0, <3>1, <4>1, <4>2 DEF PurgeHeld, Untouched, Ids
    <3>. QED  BY <3>3, <3>4
  <2>3. CASE ~row[request[r].s].deleted
    <3>1. /\ Step(r, "redact")
          /\ tables' = [tables EXCEPT ![request[r].s] = @ \cap Kept]
          /\ raced' = IF AtWork(request[r].s, r) THEN raced \cup {request[r].s} ELSE raced
      BY <1>6, <2>3 DEF PurgeRows
    <3>2. /\ \A z \in Slots : request'[z].s = request[z].s /\ request'[z].kind = request[z].kind
          /\ request'[r].at = "redact" /\ \A z \in Slots \ {r} : request'[z].at = request[z].at
      BY <3>1 DEF Step, ServiceTypes
    <3>3. tables'[request[r].s] \subseteq Kept /\ \A i \in Ids : tables'[i] \subseteq tables[i]
      BY <2>1, <3>1 DEF ServiceTypes
    <3>4. CASE q = r
      <4>1. ASSUME request[r].s \notin raced' PROVE Untouched(request[r].s, Slots \ {r})'
        <5>1. ~AtWork(request[r].s, r)
          BY <3>1, <4>1
        <5>2. /\ thread'[request[r].s].at \in Returned
              /\ \A z \in Slots \ {r} : request'[z].s # request[r].s
          BY <2>0, <3>2, <5>1 DEF AtWork
        <5>. QED  BY <3>2, <3>3, <5>2 DEF Untouched
      <4>. QED  BY <2>1, <3>2, <3>4, <4>1 DEF PurgeHeld
    <3>5. CASE q # r
      BY <2>0, <3>1, <3>2, <3>3, <3>5 DEF PurgeHeld, Untouched
    <3>. QED  BY <3>4, <3>5
  <2>. QED  BY <2>2, <2>3
<1>7. ASSUME NEW r \in Slots, RedactIntent(r) PROVE PurgeAlone'
  <2> SUFFICES ASSUME NEW q \in Slots PROVE PurgeHeld(q)'
    OBVIOUS
  <2>0. /\ PurgeHeld(q) /\ PurgeHeld(r) /\ At(r, "delete", "redact")
        /\ UNCHANGED <<tables, thread, raced>> /\ Step(r, "mark")
        /\ row' = [row EXCEPT ![request[r].s].intent = FALSE]
    BY <1>7 DEF RedactIntent, steady, others
  <2>1. /\ \A z \in Slots : request'[z].s = request[z].s /\ request'[z].kind = request[z].kind
        /\ request'[r].at = "mark" /\ \A z \in Slots \ {r} : request'[z].at = request[z].at
    BY <2>0 DEF Step, ServiceTypes
  <2>2. request[r].s \in Ids /\ request[r].at = "redact" /\ request[r].kind = "delete"
    BY <2>0 DEF PurgeHeld, At
  <2>3. ~row'[request[r].s].intent /\ \A i \in Ids : row'[i].intent => row[i].intent
    BY <2>0, <2>2 DEF ServiceTypes
  <2>4. CASE q = r
    BY <2>0, <2>1, <2>2, <2>3, <2>4 DEF PurgeHeld, Untouched
  <2>5. CASE q # r
    BY <2>0, <2>1, <2>3, <2>5 DEF PurgeHeld, Untouched
  <2>. QED  BY <2>4, <2>5
<1>8. ASSUME NEW r \in Slots, MarkDeleted(r) PROVE PurgeAlone'
  <2> SUFFICES ASSUME NEW q \in Slots PROVE PurgeHeld(q)'
    OBVIOUS
  <2>0. /\ PurgeHeld(q) /\ PurgeHeld(r) /\ At(r, "delete", "mark") /\ Finish(r)
        /\ UNCHANGED <<thread, raced>> /\ Write(request[r].s, ReceiptRows)
        /\ row' = [row EXCEPT ![request[r].s].deleted = TRUE]
    BY <1>8 DEF MarkDeleted, steady, others
  <2>1. /\ request'[r] = Idle /\ \A z \in Slots \ {r} : request'[z] = request[z]
    BY <2>0 DEF Finish, ServiceTypes
  <2>2. request[r].s \in Ids /\ \A i \in Ids : row'[i].intent = row[i].intent
    BY <2>0 DEF PurgeHeld, At, ServiceTypes
  <2>3. \A i \in Ids : tables[i] \subseteq Kept => tables'[i] \subseteq Kept
    BY <2>0, <2>2 DEF Write, ReceiptRows, Kept, ServiceTypes
  <2>4. CASE q = r
    BY <2>1, <2>4 DEF PurgeHeld, Idle
  <2>5. CASE q # r
    BY <2>0, <2>1, <2>2, <2>3, <2>5 DEF PurgeHeld, Untouched, Idle, Ids
  <2>. QED  BY <2>4, <2>5
<1>9. CASE Restarted
  BY <1>9 DEF Restarted, Idle, PurgeHeld, ServiceTypes
<1>10. CASE UNCHANGED serviceVars
  BY <1>10 DEF serviceVars, PurgeHeld, Untouched
<1>. QED
  BY <1>1, <1>2, <1>3, <1>4, <1>5, <1>6, <1>7, <1>8, <1>9, <1>10, StepIsOfAKind DEF
     StepKinds

\* Nobody comes to what is deleted.
LEMMA DeletedStep ==
    ServiceTypes /\ NothingBefore /\ PurgeAlone /\ DeletedAlone /\ [ServiceNext]_serviceVars
        => DeletedAlone'
<1> SUFFICES ASSUME ServiceTypes, NothingBefore, PurgeAlone, DeletedAlone,
                    [ServiceNext]_serviceVars
             PROVE  DeletedAlone'
  OBVIOUS
<1> USE DEF DeletedAlone, Untouched, Ids
<1>1. ASSUME NEW s \in Ids, Created(s) PROVE DeletedAlone'
  BY <1>1, CreatedIs DEF Found, PurgeAlone, PurgeHeld, NothingBefore, At
<1>2. ASSUME NEW s \in Ids, Worked(s) PROVE DeletedAlone'
  BY <1>2, WorkedIs DEF Found, PurgeAlone, PurgeHeld, NothingBefore, At
<1>3. ASSUME NEW r \in Slots, NEW s \in Ids, Entered(r, s) PROVE DeletedAlone'
  BY <1>3 DEF Entered, Found, ServiceTypes, Found, PurgeAlone, PurgeHeld,
         NothingBefore, At
<1>4. ASSUME NEW r \in Slots, Wrote(r) PROVE DeletedAlone'
  <2>1. GetsOn(r)
    BY <1>4 DEF Wrote
  <2>. QED  BY <1>4, <2>1, WroteIs, GettingOn DEF Idle, Found, PurgeAlone, PurgeHeld, NothingBefore, At
<1>5. ASSUME NEW r \in Slots, Waited(r) PROVE DeletedAlone'
  <2>1. GetsOn(r) /\ UNCHANGED <<live, row, tables, thread, raced>>
    BY <1>5 DEF Waited
  <2>. QED  BY <2>1, GettingOn DEF Idle, Found, PurgeAlone, PurgeHeld, NothingBefore, At
<1>6. ASSUME NEW r \in Slots, PurgeRows(r) PROVE DeletedAlone'
  <2>1. UNCHANGED <<row, thread>>
    BY <1>6 DEF PurgeRows, steady, others
  <2>2. /\ \A i \in Ids : tables'[i] \subseteq tables[i]
        /\ \A z \in Slots : request'[z].s = request[z].s \/ request'[z].s = 0
        /\ raced \subseteq raced'
    <3>1. CASE Finish(r) /\ UNCHANGED <<tables, raced>>
      BY <3>1 DEF Finish, Idle, ServiceTypes
    <3>2. CASE /\ Step(r, "redact")
               /\ tables' = [tables EXCEPT ![request[r].s] = @ \cap Kept]
               /\ raced' = IF AtWork(request[r].s, r) THEN raced \cup {request[r].s} ELSE raced
      <4>1. \A i \in Ids : tables'[i] \subseteq tables[i]
        BY <3>2 DEF ServiceTypes
      <4>2. \A z \in Slots : request'[z].s = request[z].s
        BY <3>2 DEF Step, ServiceTypes
      <4>. QED  BY <3>2, <4>1, <4>2
    <3>. QED  BY <1>6, <3>1, <3>2 DEF PurgeRows
  <2>. QED  BY <2>1, <2>2
<1>7. ASSUME NEW r \in Slots, RedactIntent(r) PROVE DeletedAlone'
  BY <1>7 DEF RedactIntent, Step, steady, others, ServiceTypes, Found, PurgeAlone,
         PurgeHeld, NothingBefore, At
<1>8. ASSUME NEW r \in Slots, MarkDeleted(r) PROVE DeletedAlone'
  <2>0. /\ PurgeHeld(r) /\ At(r, "delete", "mark") /\ Finish(r)
        /\ UNCHANGED <<thread, raced>> /\ Write(request[r].s, ReceiptRows)
        /\ row' = [row EXCEPT ![request[r].s].deleted = TRUE]
    BY <1>8 DEF MarkDeleted, PurgeAlone, steady, others
  <2>1. /\ request'[r] = Idle /\ \A z \in Slots \ {r} : request'[z] = request[z]
    BY <2>0 DEF Finish, ServiceTypes
  <2>2. /\ request[r].s \in Ids
        /\ \A i \in Ids : /\ row'[i].intent = row[i].intent
                          /\ i # request[r].s => row'[i].deleted = row[i].deleted
    <3>1. request[r].s \in Ids
      BY <2>0 DEF PurgeHeld, At
    <3>2. row' = [row EXCEPT ![request[r].s].deleted = TRUE]
      BY <2>0
    <3>3. \A i \in Ids : /\ row'[i].intent = row[i].intent
                         /\ i # request[r].s => row'[i].deleted = row[i].deleted
      BY <3>1, <3>2, RowDeleted
    <3> QED  BY <3>1, <3>3
  <2>3. \A i \in Ids : tables[i] \subseteq Kept => tables'[i] \subseteq Kept
    BY <2>0, <2>2 DEF Write, ReceiptRows, Kept, ServiceTypes
  <2>4. Idle.s = 0
    BY DEF Idle
  <2>5. ~row[request[r].s].intent
        /\ (request[r].s \notin raced => Untouched(request[r].s, Slots \ {r}))
    BY <2>0 DEF PurgeHeld, At
  <2>. QED  BY <2>0, <2>1, <2>2, <2>3, <2>4, <2>5
<1>9. CASE Restarted
  BY <1>9 DEF Restarted, Idle, ServiceTypes, Found, PurgeAlone, PurgeHeld,
         NothingBefore, At
<1>10. CASE UNCHANGED serviceVars
  BY <1>10 DEF serviceVars
<1>. QED
  BY <1>1, <1>2, <1>3, <1>4, <1>5, <1>6, <1>7, <1>8, <1>9, <1>10, StepIsOfAKind DEF
     StepKinds

-------------------------------------------------------------------------------
(* The theorems *)

LEMMA ServiceInvInit == ServiceInit => ServiceInv
<1> SUFFICES ASSUME ServiceInit PROVE ServiceInv
  OBVIOUS
<1>1. ServiceTypes
  BY DEF ServiceInit, ServiceTypes, RowStates, Places, Idle, Requests, Waits
<1>2. StartedOnce /\ NothingBefore
  BY DEF ServiceInit, StartedOnce, NothingBefore, Found, Idle, Ids
<1>3. PurgeAlone /\ DeletedAlone
  BY DEF ServiceInit, PurgeAlone, PurgeHeld, DeletedAlone, Idle, Ids
<1>. QED  BY <1>1, <1>2, <1>3 DEF ServiceInv

LEMMA ServiceInvStep == ServiceInv /\ [ServiceNext]_serviceVars => ServiceInv'
BY ServiceTypesStep, NothingBeforeStep, StartedStep, PurgeStep, DeletedStep DEF ServiceInv

LEMMA ServiceInvHolds == ServiceSpec => []ServiceInv
<1>1. ServiceInit => ServiceInv  BY ServiceInvInit
<1>2. ServiceInv /\ [ServiceNext]_serviceVars => ServiceInv'  BY ServiceInvStep
<1>. QED  BY <1>1, <1>2, PTL DEF ServiceSpec

\* No search gets a second thread and no two live searches have the same client's key, for
\* any number of searches, requests at once and restarts: a thread is started only for a row
\* that create_search has just inserted, and what is not inserted has no thread.
THEOREM CreatesAreIdempotent == ServiceSpec => []StartedOnce
<1>1. ServiceInv => StartedOnce  BY DEF ServiceInv
<1>. QED  BY <1>1, ServiceInvHolds, PTL

\* A deleted search keeps nothing that the purge is to take, unless another was at work on it:
\* the end of the flag, wait, purge, redact and mark steps of delete_search, which any other
\* request and the thread of the search interleave with.
THEOREM PurgeIsLasting == ServiceSpec => []NothingAfterPurge
<1>1. ServiceInv => NothingAfterPurge
  BY DEF ServiceInv, DeletedAlone, Untouched, Kept, NothingAfterPurge
<1>. QED  BY <1>1, ServiceInvHolds, PTL

-------------------------------------------------------------------------------
(* What the coverage of a search tells of its sources.  Queries are written by the first *)
(* stage of a run and by nothing else, and with discovery a thread is over only where it *)
(* has not begun a stage, or where its sources are accounted for.                        *)

USE OrderAssumption, WalksAssumption

ToldOnce(cov) == \A e, f \in cov : e.id = f.id => e = f
ToldAll(cov) == \A src \in Order : src.id \in Seen(cov)

\* The row has an end of its own, and its thread is not on the way to the accounting.
Stray(s) == row[s].state = "COMPLETE" /\ thread[s].at \notin {"none", "over", "account"}

CoverageHeld(s) ==
    /\ ToldOnce(coverage[s])
    /\ thread[s].at = "begin" => "queries" \notin tables[s]
    /\ thread[s].at = "over" /\ "queries" \in tables[s] => ToldAll(coverage[s])
    /\ ~Stray(s)

CoverageInv ==
    /\ coverage = [s \in Ids |-> coverage[s]]
    /\ live => \A s \in Ids : CoverageHeld(s)

\* A step that leaves the coverage of s alone, and its thread, unless that is on its way.
Aside(s) ==
    /\ coverage'[s] = coverage[s]
    /\ \/ thread'[s].at \notin {"begin", "over"}
       \/ thread'[s].at = thread[s].at /\ ("queries" \in tables'[s] => "queries" \in tables[s])
    /\ Stray(s)' => Stray(s)

LEMMA AsideHolds == ASSUME NEW s, CoverageHeld(s), Aside(s) PROVE CoverageHeld(s)'
BY DEF CoverageHeld, Aside, ToldOnce, ToldAll, Seen

\* No request and no end of a search writes a query.
LEMMA NoQueries ==
    \A rows \in {LogRows, CheckpointRows, ReceiptRows, EvidenceRows, FeedbackRows, UsageRows,
                 EndRows, ListingRows, {}} : "queries" \notin rows
BY DEF LogRows, CheckpointRows, ReceiptRows, EvidenceRows, FeedbackRows, UsageRows, EndRows,
       ListingRows

\* What a write of other rows leaves of the queries.
LEMMA WriteKeeps ==
    ASSUME ServiceTypes, NEW t, NEW names, "queries" \notin names, Write(t, names), NEW s \in Ids
    PROVE  "queries" \in tables'[s] => "queries" \in tables[s]
<1>1. CASE s = t
  BY <1>1 DEF Write, ServiceTypes
<1>2. CASE s # t
  BY <1>2 DEF Write, ServiceTypes
<1>. QED  BY <1>1, <1>2

\* A thread that goes somewhere is there, and the others are where they were.
LEMMA GoneIs ==
    ASSUME ServiceTypes, NEW s \in Ids, NEW at, Goes(s, at)
    PROVE  thread'[s].at = at /\ \A t \in Ids \ {s} : thread'[t] = thread[t]
BY DEF Goes, ServiceTypes

\* The accounting leaves out no source, and tells of none again.
LEMMA AccountedTells ==
    ASSUME NEW cov, ToldOnce(cov)
    PROVE  ToldOnce(Accounted(cov)) /\ ToldAll(Accounted(cov))
<1> DEFINE missing == {src \in Order : src.id \notin Seen(cov)}
<1>1. \A e \in LeftOut(missing) :
          \E src \in missing : e = Entry(src.id, Declined(src), "account", "blocked")
  BY DEF LeftOut
<1>2. \A e \in LeftOut(missing) : e.id \notin Seen(cov)
  BY <1>1 DEF Entry
<1>3. \A e, f \in LeftOut(missing) : e.id = f.id => e = f
  BY <1>1 DEF Entry
<1>4. ToldOnce(Accounted(cov))
  BY <1>2, <1>3 DEF ToldOnce, Accounted, Seen
<1>5. ASSUME NEW src \in Order PROVE src.id \in Seen(Accounted(cov))
  <2>1. CASE src.id \in Seen(cov)
    BY <2>1 DEF Seen, Accounted
  <2>2. CASE src.id \notin Seen(cov)
    <3>1. Entry(src.id, Declined(src), "account", "blocked") \in Accounted(cov)
      BY <2>2 DEF Accounted, LeftOut
    <3>. QED  BY <3>1 DEF Seen, Entry
  <2>. QED  BY <2>1, <2>2
<1>. QED  BY <1>4, <1>5 DEF ToldAll

\* A discovery tells of a source once.
LEMMA DiscoveryTellsOnce == ASSUME NEW walk \in Walks PROVE ToldOnce(UiCoverage(walk))
BY DEF ToldOnce, UiCoverage, Entry

\* A search that is created has no queries, and its thread, if it has one, is to begin.
LEMMA CreationHolds ==
    ASSUME ServiceTypes, NothingBefore, CoverageInv, live, NEW form \in Forms,
           NEW how \in {"fine", "input", "internal"}, CreateSearch(form, how), NEW s \in Ids
    PROVE  CoverageHeld(s)'
<1>1. PICK t \in Inserted(form) :
          \/ t \in Fresh /\ Ingested(t, form, how)
          \/ t \notin Fresh /\ row[t].state = "open" /\ StartThread(t) /\ UNCHANGED <<row, tables>>
  BY DEF CreateSearch
<1>2. form.key # NoKey => ByKey(form.key) = {}
  BY DEF CreateSearch, Existing
<1>3. t \in Fresh /\ Ingested(t, form, how)
  BY <1>1, <1>2 DEF Inserted
<1>4. t \in Ids /\ tables[t] = {} /\ thread[t].at = "none" /\ coverage' = coverage
  BY <1>3 DEF Fresh, NothingBefore, CreateSearch
<1>5. "queries" \notin (UsageRows \cup LogRows \cup IF how = "fine" THEN EvidenceRows ELSE EndRows)
  BY NoQueries
<1>6. "queries" \in tables'[s] => "queries" \in tables[s]
  BY <1>3, <1>5, WriteKeeps DEF Ingested
<1>7. CASE s = t
  <2>1. thread'[s].at \in {"begin", "none"} /\ "queries" \notin tables'[s]
    BY <1>3, <1>4, <1>6, <1>7 DEF Ingested, StartThread, ServiceTypes
  <2>2. thread'[s].at = "begin" => row'[s].state = "open"
    BY <1>3, <1>4, <1>7 DEF Ingested, ServiceTypes
  <2>. QED  BY <1>4, <2>1, <2>2 DEF CoverageHeld, CoverageInv, Stray
<1>8. CASE s # t
  <2>1. thread'[s] = thread[s]
    BY <1>3, <1>8 DEF Ingested, StartThread, ServiceTypes
  <2>2. row'[s] = row[s]
    BY <1>3, <1>8 DEF Ingested, ServiceTypes
  <2>3. Aside(s)
    BY <1>4, <1>6, <2>1, <2>2 DEF Aside, Stray
  <2>. QED  BY <2>3, AsideHolds DEF CoverageInv
<1>. QED  BY <1>7, <1>8

\* A step of the thread of t leaves the other searches as they were.
LEMMA ThreadsApart ==
    ASSUME ServiceTypes, CoverageInv, NEW t \in Ids, NEW s \in Ids \ {t}, CoverageHeld(s),
           \/ Begin(t) \/ SealWork(t) \/ Account(t) \/ StopLooks(t) \/ StopEnds(t)
           \/ \E stg \in Charging, early \in BOOLEAN : BudgetStop(t, stg, early)
           \/ \E stg \in StageNames :
                 \/ Look(t, stg) \/ Work(t, stg)
                 \/ \E how \in {"input", "internal"} : Raise(t, stg, how)
    PROVE  CoverageHeld(s)'
<1>1. row'[s] = row[s] /\ tables'[s] = tables[s] /\ thread'[s] = thread[s]
  BY ThreadsWork, WorkedIs
<1>2. coverage' = coverage \/ \E cov : coverage' = [coverage EXCEPT ![t] = cov]
  BY DEF Begin, SealWork, Account, StopLooks, StopEnds, BudgetStop, Look, Work, Raise
<1>3. coverage'[s] = coverage[s]
  BY <1>2 DEF CoverageInv
<1>. QED  BY <1>1, <1>3, AsideHolds DEF Aside, Stray

\* And what it leaves of its own.
LEMMA ThreadsHold ==
    ASSUME ServiceTypes, CoverageInv, live, NEW t \in Ids,
           \/ Begin(t) \/ SealWork(t) \/ Account(t) \/ StopLooks(t) \/ StopEnds(t)
           \/ \E stg \in Charging, early \in BOOLEAN : BudgetStop(t, stg, early)
           \/ \E stg \in StageNames :
                 \/ Look(t, stg) \/ Work(t, stg)
                 \/ \E how \in {"input", "internal"} : Raise(t, stg, how)
    PROVE  CoverageHeld(t)'
<1>0. CoverageHeld(t) /\ coverage = [i \in Ids |-> coverage[i]]
  BY DEF CoverageInv
<1>. AfterStop = "account"
  BY DEF AfterStop
<1>1. CASE Begin(t)
  <2>1. /\ UNCHANGED <<row, tables, coverage>> /\ thread[t].at = "begin"
        /\ Goes(t, "over") \/ Goes(t, "wave")
    BY <1>1 DEF Begin
  <2>. QED  BY <1>0, <2>1, GoneIs DEF CoverageHeld, Stray
<1>2. CASE SealWork(t)
  <2>1. coverage' = coverage /\ Goes(t, "account")
    BY <1>2 DEF SealWork
  <2>. QED  BY <1>0, <2>1, GoneIs DEF CoverageHeld, Stray
<1>3. CASE Account(t)
  <2>1. thread[t].at = "account" /\ thread'[t].at = "over"
    BY <1>3, GoneIs DEF Account
  <2>2. CASE UNCHANGED <<coverage, tables>>
    <3>1. "queries" \in tables[t] => Accounted(coverage[t]) = coverage[t]
      <4>1. CASE "queries" \in tables[t] /\ Accounted(coverage[t]) # coverage[t]
        <5>1. coverage' = [coverage EXCEPT ![t] = Accounted(@)]
          BY <1>3, <4>1 DEF Account
        <5>. QED  BY <1>0, <2>2, <4>1, <5>1
      <4>. QED  BY <4>1
    <3>. QED  BY <1>0, <2>1, <2>2, <3>1, AccountedTells DEF CoverageHeld, Stray
  <2>3. CASE coverage' = [coverage EXCEPT ![t] = Accounted(@)] /\ Write(t, LogRows)
    <3>1. coverage'[t] = Accounted(coverage[t])
      BY <1>0, <2>3
    <3>. QED  BY <1>0, <2>1, <3>1, AccountedTells DEF CoverageHeld, Stray
  <2>. QED  BY <1>3, <2>2, <2>3 DEF Account
<1>4. ASSUME NEW stg \in StageNames, Look(t, stg) PROVE CoverageHeld(t)'
  <2>1. UNCHANGED <<row, coverage>> /\ (Goes(t, "account") \/ Goes(t, Underway[stg]))
        /\ thread[t].at = stg
    BY <1>4 DEF Look
  <2>2. Underway[stg] \notin {"begin", "over"}
    BY DEF Underway
  <2>. QED  BY <1>0, <2>1, <2>2, GoneIs DEF CoverageHeld, Stray
<1>5. ASSUME NEW stg \in StageNames, Work(t, stg) PROVE CoverageHeld(t)'
  <2>1. /\ Goes(t, NextStage(stg)) /\ stg # "seal" /\ UNCHANGED row
        /\ thread[t].at = Underway[stg]
    BY <1>5 DEF Work
  <2>2. NextStage(stg) \notin {"begin", "over"} /\ Underway[stg] \notin {"none", "over", "account"}
    <3>1. Underway[stg] \in Places
      BY <2>1 DEF ServiceTypes
    <3>2. stg \in {"wave", "discover", "judge", "publish"}
      BY <2>1, <3>1 DEF Places, Underway
    <3>. QED  BY <3>2, NextStageIs DEF Underway
  <2>3. ToldOnce(coverage'[t])
    <3>1. CASE stg = "discover"
      <4>1. PICK walk \in Walks : coverage' = [coverage EXCEPT ![t] = UiCoverage(walk)]
        BY <1>5, <3>1 DEF Work
      <4>. QED  BY <1>0, <4>1, DiscoveryTellsOnce
    <3>2. CASE stg # "discover"
      BY <1>0, <1>5, <3>2 DEF Work, CoverageHeld
    <3>. QED  BY <3>1, <3>2
  <2>. QED  BY <1>0, <2>1, <2>2, <2>3, GoneIs DEF CoverageHeld, Stray
<1>6. ASSUME NEW stg \in StageNames, NEW how \in {"input", "internal"}, Raise(t, stg, how)
      PROVE  CoverageHeld(t)'
  <2>1. coverage' = coverage /\ Goes(t, "account")
    BY <1>6 DEF Raise
  <2>. QED  BY <1>0, <2>1, GoneIs DEF CoverageHeld, Stray
<1>7. ASSUME NEW stg \in Charging, NEW early \in BOOLEAN, BudgetStop(t, stg, early)
      PROVE  CoverageHeld(t)'
  <2>1. (Goes(t, "early") \/ Goes(t, "stop")) /\ UNCHANGED row
        /\ thread[t].at \in {stg, Underway[stg]}
    BY <1>7 DEF BudgetStop
  <2>2. thread[t].at \notin {"none", "over", "account"}
    BY <2>1 DEF Charging, Underway
  <2>3. coverage' = coverage
        \/ \E walk \in Walks : coverage' = [coverage EXCEPT ![t] = UiCoverage(walk)]
    BY <1>7 DEF BudgetStop
  <2>4. ToldOnce(coverage'[t])
    BY <1>0, <2>3, DiscoveryTellsOnce DEF CoverageHeld
  <2>. QED  BY <1>0, <2>1, <2>2, <2>4, GoneIs DEF CoverageHeld, Stray
<1>8. CASE StopLooks(t)
  <2>1. coverage' = coverage /\ thread[t].at \in {"stop", "early"} /\ row[t].state # "COMPLETE"
    BY <1>0, <1>8 DEF StopLooks, CoverageHeld, Stray
  <2>2. CASE Goes(t, "account")
    BY <1>0, <2>1, <2>2, GoneIs DEF CoverageHeld, Stray
  <2>3. CASE UNCHANGED row /\ Goes(t, "ending")
    BY <1>0, <2>1, <2>3, GoneIs DEF CoverageHeld, Stray
  <2>4. CASE Goes(t, "left") /\ Seal(t, "FAILED")
    <3>1. row'[t].state # "COMPLETE"
      BY <2>1, <2>4 DEF Seal, Sealed, ServiceTypes
    <3>. QED  BY <1>0, <2>1, <2>4, <3>1, GoneIs DEF CoverageHeld, Stray
  <2>. QED  BY <1>8, <2>2, <2>3, <2>4 DEF StopLooks
<1>9. CASE StopEnds(t)
  <2>1. coverage' = coverage /\ thread[t].at = "ending" /\ row[t].state # "COMPLETE"
    BY <1>0, <1>9 DEF StopEnds, CoverageHeld, Stray
  <2>2. CASE Goes(t, "account")
    BY <1>0, <2>1, <2>2, GoneIs DEF CoverageHeld, Stray
  <2>3. CASE Goes(t, "left") /\ UNCHANGED row
    BY <1>0, <2>1, <2>3, GoneIs DEF CoverageHeld, Stray
  <2>. QED  BY <1>9, <2>2, <2>3 DEF StopEnds
<1>. QED  BY <1>1, <1>2, <1>3, <1>4, <1>5, <1>6, <1>7, <1>8, <1>9

\* A request writes no queries and moves no thread.
LEMMA RequestsAreAside ==
    ASSUME ServiceTypes, NEW s \in Ids, NEW r \in Slots,
           \/ \E t \in Ids : \/ BeginCancel(r, t) \/ BeginDelete(r, t)
                             \/ BeginRefresh(r, t) \/ BeginFeedback(r, t)
           \/ Flag(r) \/ CancelRow(r) \/ Wait(r) \/ PurgeRows(r) \/ RedactIntent(r) \/ MarkDeleted(r)
           \/ FeedbackEvidence(r) \/ InsertFeedback(r) \/ RefreshLive(r) \/ RefreshTold(r)
    PROVE  Aside(s)
<1>1. UNCHANGED <<thread, coverage>>
  BY DEF BeginCancel, BeginDelete, BeginRefresh, BeginFeedback, asked, others, steady, Flag,
         CancelRow, Wait, PurgeRows, RedactIntent, MarkDeleted, FeedbackEvidence,
         InsertFeedback, RefreshLive, RefreshTold
<1>2. \/ UNCHANGED tables
      \/ tables' = [tables EXCEPT ![request[r].s] = @ \cap Kept]
      \/ \E names : "queries" \notin names /\ Write(request[r].s, names)
  <2>1. CASE CancelRow(r)
    <3>1. "queries" \notin CheckpointRows \cup LogRows
      BY NoQueries
    <3>. QED  BY <2>1, <3>1 DEF CancelRow
  <2>2. CASE PurgeRows(r)
    BY <2>2 DEF PurgeRows
  <2>3. CASE MarkDeleted(r)
    BY <2>3, NoQueries DEF MarkDeleted
  <2>4. CASE FeedbackEvidence(r)
    BY <2>4, NoQueries DEF FeedbackEvidence
  <2>5. CASE InsertFeedback(r)
    <3>1. "queries" \notin FeedbackRows \cup ReceiptRows
      BY NoQueries
    <3>. QED  BY <2>5, <3>1 DEF InsertFeedback
  <2>6. CASE RefreshLive(r)
    BY <2>6, NoQueries DEF RefreshLive
  <2>7. CASE RefreshTold(r)
    <3>1. "queries" \notin LogRows \cup ReceiptRows
      BY NoQueries
    <3>. QED  BY <2>7, <3>1 DEF RefreshTold
  <2>8. CASE \/ Flag(r) \/ Wait(r) \/ RedactIntent(r)
             \/ \E t \in Ids : \/ BeginCancel(r, t) \/ BeginDelete(r, t)
                               \/ BeginRefresh(r, t) \/ BeginFeedback(r, t)
    BY <2>8 DEF Flag, Wait, RedactIntent, BeginCancel, BeginDelete, BeginRefresh,
                BeginFeedback, asked
  <2>. QED  BY <2>1, <2>2, <2>3, <2>4, <2>5, <2>6, <2>7, <2>8
<1>3. "queries" \in tables'[s] => "queries" \in tables[s]
  <2>1. CASE UNCHANGED tables
    BY <2>1
  <2>2. CASE tables' = [tables EXCEPT ![request[r].s] = @ \cap Kept]
    BY <2>2 DEF ServiceTypes
  <2>3. CASE \E names : "queries" \notin names /\ Write(request[r].s, names)
    BY <2>3, WriteKeeps
  <2>. QED  BY <1>2, <2>1, <2>2, <2>3
<1>4. \/ row'[s].state = row[s].state \/ row'[s].state = "CANCELLED"
  BY DEF BeginCancel, BeginDelete, BeginRefresh, BeginFeedback, asked, Flag, CancelRow, Wait,
         PurgeRows, RedactIntent, MarkDeleted, FeedbackEvidence, InsertFeedback, RefreshLive,
         RefreshTold, ServiceTypes
<1>. QED  BY <1>1, <1>3, <1>4 DEF Aside, Stray

\* Whether there is discovery is settled, and every search keeps a coverage.
LEMMA SettingsStay == ServiceNext => live' = live
BY ZenonT(60) DEF ServiceNext, CreateSearch, Begin, SealWork, Account, StopLooks, StopEnds, BudgetStop, Look,
       Work, Raise, rest, BeginCancel,
       BeginDelete, BeginRefresh, BeginFeedback, asked, others, steady, Flag, CancelRow, Wait,
       PurgeRows, RedactIntent, MarkDeleted, FeedbackEvidence, InsertFeedback, RefreshLive,
       RefreshTold, Restart

LEMMA CoverageOfEach ==
    ASSUME coverage = [s \in Ids |-> coverage[s]], ServiceNext
    PROVE  coverage' = [s \in Ids |-> coverage'[s]]
<1>1. coverage' = coverage \/ \E s \in Ids : \E cov : coverage' = [coverage EXCEPT ![s] = cov]
  BY ZenonT(60) DEF ServiceNext, CreateSearch, Begin, SealWork, Account, StopLooks, StopEnds, BudgetStop, Look,
         Work, Raise, rest, BeginCancel,
         BeginDelete, BeginRefresh, BeginFeedback, asked, others, steady, Flag, CancelRow, Wait,
         PurgeRows, RedactIntent, MarkDeleted, FeedbackEvidence, InsertFeedback, RefreshLive,
         RefreshTold, Restart
<1>. QED  BY <1>1

LEMMA CoverageInit == ServiceInit => CoverageInv
BY DEF ServiceInit, CoverageInv, CoverageHeld, ToldOnce, EmptyCoverage, Stray

LEMMA CoverageStep ==
    ServiceTypes /\ NothingBefore /\ CoverageInv /\ [ServiceNext]_serviceVars => CoverageInv'
<1> SUFFICES ASSUME ServiceTypes, NothingBefore, CoverageInv, [ServiceNext]_serviceVars
             PROVE  CoverageInv'
  OBVIOUS
<1>1. live' = live
  BY SettingsStay DEF serviceVars
<1>2. coverage' = [s \in Ids |-> coverage'[s]]
  BY CoverageOfEach DEF CoverageInv, serviceVars
<1>3. ASSUME live, NEW s \in Ids PROVE CoverageHeld(s)'
  <2>1. ASSUME NEW form \in Forms, NEW how \in {"fine", "input", "internal"},
               CreateSearch(form, how)
        PROVE  CoverageHeld(s)'
    BY <1>3, <2>1, CreationHolds
  <2>. CoverageHeld(s)
    BY <1>3 DEF CoverageInv
  <2>2. ASSUME NEW t \in Ids,
               \/ Begin(t) \/ SealWork(t) \/ Account(t) \/ StopLooks(t) \/ StopEnds(t)
               \/ \E stg \in Charging, early \in BOOLEAN : BudgetStop(t, stg, early)
        PROVE  CoverageHeld(s)'
    <3>1. CASE s = t
      BY <1>3, <2>2, <3>1, ThreadsHold
    <3>2. CASE s # t
      BY <2>2, <3>2, ThreadsApart
    <3>. QED  BY <3>1, <3>2
  <2>3. ASSUME NEW t \in Ids, NEW stg \in {LiveStages[k] : k \in 1..5} \cup {"consult"},
               \/ Look(t, stg) \/ Work(t, stg)
               \/ \E how \in {"input", "internal"} : Raise(t, stg, how)
        PROVE  CoverageHeld(s)'
    <3>1. stg \in StageNames
      BY StagesOfNext
    <3>2. CASE s = t
      BY <1>3, <2>3, <3>1, <3>2, ThreadsHold
    <3>3. CASE s # t
      BY <2>3, <3>1, <3>3, ThreadsApart
    <3>. QED  BY <3>2, <3>3
  <2>4. ASSUME NEW r \in Slots,
               \/ \E t \in Ids : \/ BeginCancel(r, t) \/ BeginDelete(r, t)
                                 \/ BeginRefresh(r, t) \/ BeginFeedback(r, t)
               \/ Flag(r) \/ CancelRow(r) \/ Wait(r) \/ PurgeRows(r) \/ RedactIntent(r)
               \/ MarkDeleted(r) \/ FeedbackEvidence(r) \/ InsertFeedback(r)
               \/ RefreshLive(r) \/ RefreshTold(r)
        PROVE  CoverageHeld(s)'
    <3>1. Aside(s)
      BY <2>4, RequestsAreAside
    <3>. QED  BY <1>3, <3>1, AsideHolds DEF CoverageInv
  <2>5. CASE Restart
    <3>1. thread'[s].at = "none" /\ coverage' = coverage
      BY <2>5 DEF Restart, ServiceTypes
    <3>. QED  BY <1>3, <3>1, AsideHolds DEF Aside, Stray, CoverageInv
  <2>6. CASE UNCHANGED serviceVars
    BY <1>3, <2>6, AsideHolds DEF serviceVars, Aside, Stray, CoverageInv
  <2>. QED  BY <2>1, <2>2, <2>3, <2>4, <2>5, <2>6 DEF ServiceNext
<1>. QED  BY <1>1, <1>2, <1>3 DEF CoverageInv

\* With discovery, when the thread of a search with queries is over, the coverage of the
\* search tells of each known source, and once: whatever was cancelled, failed, stopped or
\* deleted in between, for any sources, walks, searches and restarts.  A thread that the stop
\* of a budget takes out of run() leaves none told of twice, and no row that came to its end.
THEOREM SourcesAreTold == ServiceSpec => []EverySourceTold
<1>1. CoverageInv => EverySourceTold
  <2> SUFFICES ASSUME CoverageInv, live, NEW s \in Ids, NEW src \in Order,
                      "queries" \in tables[s]
               PROVE  LET told == Cardinality({e \in coverage[s] : e.id = src.id})
                      IN  /\ thread[s].at = "over" => told = 1
                          /\ thread[s].at = "left" => told <= 1 /\ row[s].state # "COMPLETE"
    BY DEF EverySourceTold
  <2> DEFINE entries == {e \in coverage[s] : e.id = src.id}
  <2>1. ToldOnce(coverage[s]) /\ ~Stray(s) /\ (thread[s].at = "over" => ToldAll(coverage[s]))
    BY DEF CoverageInv, CoverageHeld
  <2>2. \A e \in entries : entries = {e}
    BY <2>1 DEF ToldOnce
  <2>3. thread[s].at = "over" => entries # {}
    BY <2>1 DEF ToldAll, Seen
  <2>4. \A e \in entries : Cardinality(entries) = 1
    BY <2>2, FS_Singleton
  <2>5. entries = {} => Cardinality(entries) = 0
    BY FS_EmptySet
  <2>6. /\ thread[s].at = "over" => Cardinality(entries) = 1
        /\ Cardinality(entries) \in {0, 1}
    BY <2>3, <2>4, <2>5
  <2>7. thread[s].at = "left" => row[s].state # "COMPLETE"
    BY <2>1 DEF Stray
  <2>. QED  BY <2>6, <2>7
<1>2. ServiceInv => ServiceTypes /\ NothingBefore  BY DEF ServiceInv
<1>. QED
  BY <1>1, <1>2, ServiceInvHolds, CoverageInit, CoverageStep, PTL DEF ServiceSpec
===============================================================================
