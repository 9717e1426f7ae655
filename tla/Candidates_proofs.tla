-------------------------- MODULE Candidates_proofs -------------------------
(***************************************************************************)
(* How listings become candidates: the walks through the catalogues, for   *)
(* any number of sources, any feeds and caps; the clusters, for any number *)
(* of listings and whatever they look like; and the warm index, for any    *)
(* number of campaigns, any pack, any lifetime and any number of deaths.   *)
(***************************************************************************)
EXTENDS Clusters, Catalogue, WarmIndex, FiniteSetTheorems, WellFoundedInduction, TLAPS

-----------------------------------------------------------------------------
(* Least and greatest elements, and the first in an order. *)

LEMMA LeastNat ==
    ASSUME NEW T, T \subseteq Nat, T # {}
    PROVE  \E x \in T : \A y \in T : x <= y
<1> DEFINE R == {p \in Nat \X Nat : p[1] < p[2]}
<1>1. IsWellFoundedOn(R, Nat) BY NatLessThanWellFounded DEF OpToRel
<1>2. \A y, x \in Nat : y < x => <<y, x>> \in R OBVIOUS
<1> HIDE DEF R
<1>3. PICK x \in T : \A y \in T : ~ (<<y, x>> \in R) BY <1>1, WFMin
<1>4. ASSUME NEW y \in T PROVE x <= y
    <2>1. x \in Nat /\ y \in Nat OBVIOUS
    <2>2. ~ (<<y, x>> \in R) BY <1>3
    <2>3. ~ (y < x) BY <2>1, <2>2, <1>2
    <2> QED BY <2>1, <2>3
<1> QED BY <1>3, <1>4

\* The greatest element of a finite set, by way of a least set that has none.
LEMMA GreatestNat ==
    ASSUME NEW T, T \subseteq Nat, T # {}, IsFiniteSet(T)
    PROVE  \E x \in T : \A y \in T : x >= y
<1> DEFINE Bare(S) == /\ S \subseteq Nat /\ S # {} /\ IsFiniteSet(S)
                      /\ ~ \E x \in S : \A y \in S : x >= y
           Sizes == {n \in Nat : \E S \in SUBSET Nat : Bare(S) /\ Cardinality(S) = n}
<1>1. SUFFICES ASSUME Bare(T) PROVE FALSE
    OBVIOUS
<1>2. Cardinality(T) \in Sizes
    BY <1>1, FS_CardinalityType
<1>3. PICK n \in Sizes : \A m \in Sizes : n <= m
    <2> HIDE DEF Bare
    <2>. QED BY <1>2, LeastNat
<1>4. PICK S \in SUBSET Nat : Bare(S) /\ Cardinality(S) = n
    OBVIOUS
<1>5. PICK a \in S : TRUE
    BY <1>4
<1> DEFINE U == S \ {a}
<1>6. IsFiniteSet(U) /\ Cardinality(U) = n - 1
    BY <1>4, <1>5, FS_RemoveElement
<1>7. CASE U = {}
    <2>1. S = {a}
        BY <1>5, <1>7
    <2>. QED BY <2>1, <1>4, <1>5
<1>8. CASE U # {} /\ \E x \in U : \A y \in U : x >= y
    <2>1. PICK x \in U : \A y \in U : x >= y
        BY <1>8
    <2>2. \A y \in S : y # a => x >= y
        BY <2>1
    <2>3. CASE x >= a
        BY <2>1, <2>2, <2>3, <1>4
    <2>4. CASE ~(x >= a)
        <3>1. x \in Nat /\ a \in Nat
            BY <1>4, <1>5, <2>1
        <3>2. \A y \in S : a >= y
            BY <2>2, <2>4, <3>1
        <3>. QED BY <3>2, <1>4, <1>5
    <2>. QED BY <2>3, <2>4
<1>9. CASE U # {} /\ ~ \E x \in U : \A y \in U : x >= y
    <2>1. Bare(U) /\ U \in SUBSET Nat
        BY <1>4, <1>6, <1>9
    <2>2. n - 1 \in Nat
        BY <1>6, FS_CardinalityType
    <2>3. n - 1 \in Sizes
        BY <2>1, <2>2, <1>6
    <2>. QED BY <2>3, <2>2, <1>3
<1>. QED BY <1>7, <1>8, <1>9

LEMMA MaxFacts ==
    ASSUME NEW T, T \subseteq Nat, T # {}, IsFiniteSet(T)
    PROVE  Max(T) \in T /\ \A y \in T : Max(T) >= y
BY GreatestNat DEF Max

LEMMA MinOfTwo ==
    ASSUME NEW a \in Int, NEW b \in Int
    PROVE  Min({a, b}) \in {a, b} /\ Min({a, b}) <= a /\ Min({a, b}) <= b
<1>1. \E x \in {a, b} : \A y \in {a, b} : x <= y
    BY a <= b \/ b <= a
<1>. QED BY <1>1 DEF Min

LEMMA MaxOfTwo ==
    ASSUME NEW a \in Int, NEW b \in Int
    PROVE  Max({a, b}) \in {a, b} /\ Max({a, b}) >= a /\ Max({a, b}) >= b
<1>1. \E x \in {a, b} : \A y \in {a, b} : x >= y
    BY a <= b \/ b <= a
<1>. QED BY <1>1 DEF Max

\* What is left of a cap: a difference, or nothing.
LEMMA MaxWithZero ==
    ASSUME NEW d \in Int
    PROVE  Max({0, d}) \in Nat /\ (d >= 0 => Max({0, d}) = d)
<1>1. PICK zero \in Int : zero = 0
    OBVIOUS
<1>2. /\ Max({zero, d}) \in {zero, d}
      /\ Max({zero, d}) >= zero /\ Max({zero, d}) >= d
    BY MaxOfTwo
<1>. QED BY <1>1, <1>2

\* R is a strict order of all of S; and the elements with fewer than n before them.
Orders(R, S) ==
    /\ \A x \in S : <<x, x>> \notin R
    /\ \A x, y, z \in S : <<x, y>> \in R /\ <<y, z>> \in R => <<x, z>> \in R
    /\ \A x, y \in S : x = y \/ <<x, y>> \in R \/ <<y, x>> \in R
Before(R, S) == [x \in S |-> {y \in S : <<y, x>> \in R}]
FirstN(R, S, n) == {x \in S : Cardinality(Before(R, S)[x]) < n}

LEMMA FirstInOrder ==
    ASSUME NEW S, IsFiniteSet(S), NEW R, Orders(R, S), NEW n \in Nat
    PROVE  IsFiniteSet(FirstN(R, S, n)) /\ Cardinality(FirstN(R, S, n)) <= n
<1> DEFINE before == Before(R, S)
           F == FirstN(R, S, n)
           rank == [x \in F |-> Cardinality(before[x])]
<1>0. F = {x \in S : Cardinality(before[x]) < n}
    BY DEF FirstN
<1>1. \A x \in S : IsFiniteSet(before[x]) /\ Cardinality(before[x]) \in Nat
    <2>1. \A x \in S : before[x] \subseteq S
        BY DEF Before
    <2>. QED BY <2>1, FS_Subset, FS_CardinalityType
<1>2. ASSUME NEW x \in S, NEW y \in S, <<x, y>> \in R
      PROVE  Cardinality(before[x]) < Cardinality(before[y])
    <2>1. before[x] \subseteq before[y] /\ before[x] # before[y]
        BY <1>2 DEF Orders, Before
    <2>. QED BY <2>1, <1>1, FS_Subset
<1> HIDE DEF before, F
<1>3. IsFiniteSet(0..n - 1) /\ Cardinality(0..n - 1) = n
    BY FS_Interval
<1>4. rank \in [F -> 0..n - 1]
    BY <1>0, <1>1
<1>5. ASSUME NEW x \in F, NEW y \in F, rank[x] = rank[y]
      PROVE  x = y
    <2>1. x \in S /\ y \in S /\ Cardinality(before[x]) = Cardinality(before[y])
        BY <1>0, <1>5
    <2>2. <<x, y>> \notin R /\ <<y, x>> \notin R
        BY <2>1, <1>1, <1>2
    <2>. QED BY <2>1, <2>2 DEF Orders
<1>6. IsFiniteSet(F)
    BY <1>0, FS_Subset
<1>7. Cardinality(F) <= n
    <2> HIDE DEF rank
    <2>1. IsInjective(rank)
        BY <1>5, <1>4 DEF IsInjective
    <2>. QED BY <2>1, <1>3, <1>4, FS_Injection DEF Injection
<1>. QED BY <1>6, <1>7 DEF F

-----------------------------------------------------------------------------
(* Clusters. *)

\* A Cluster stays with its representative, and every listing's cluster has a Cluster.
EntriesFollow ==
    pc # "link" =>
        /\ \A e \in Cands : entry[e] # 0 => lead[e] \in Cands /\ assigned[lead[e]] = entry[e]
        /\ \A c \in Cands : \E e \in Cands : entry[e] = assigned[c]

\* The title pass compares listings of the clusters it merges.
RepsFollow == pc = "text" => \A k \in Cands : reps[k] # 0 => assigned[reps[k]] = k

Visiting == /\ left \subseteq page[at].families
            /\ pc = "link" => at = 1 /\ \A f \in Families : owner[f] = 0

\* What holds of a labelling that respects the links: clusters and labels agree, and
\* whoever is in the cluster remembered for an image family has the label of a listing
\* with that family.
Justified(label) == \A c, d \in Cands : assigned[c] = assigned[d] => label[c] = label[d]
OwnersHave(label) ==
    \A f \in Families, c \in Cands :
        owner[f] # 0 /\ assigned[c] = owner[f] =>
            \E d \in Cands : f \in page[d].families /\ label[d] = label[c]

Labels == \A label \in [Cands -> Cands] :
              Respects(label) => Justified(label) /\ OwnersHave(label)

IInv == TypeOK /\ EntriesFollow /\ RepsFollow /\ Visiting /\ Labels

-----------------------------------------------------------------------------
(* What First, Latest and Best pick. *)

LEMMA CandsAreNat == Cands \subseteq Nat /\ N \in Nat /\ 1 \in Cands
BY ClustersAssumption DEF Cands

LEMMA FirstIn == ASSUME NEW S, S \subseteq Cands, S # {} PROVE First(S) \in S
<1>1. PICK x \in S : \A y \in S : x <= y BY CandsAreNat, LeastNat
<1> QED BY <1>1 DEF First

LEMMA LatestIn == ASSUME NEW S, S \subseteq Cands, S # {} PROVE Latest(S) \in S
<1> DEFINE T == {N - c : c \in S}
<1>1. \A c \in S : c \in Int /\ N - c \in Nat BY ClustersAssumption DEF Cands
<1>2. PICK t \in T : \A u \in T : t <= u BY <1>1, LeastNat
<1>3. PICK x \in S : t = N - x OBVIOUS
<1>4. \A y \in S : y <= x
    <2> TAKE y \in S
    <2>1. N - x <= N - y BY <1>2, <1>3
    <2> QED BY <2>1, <1>1, ClustersAssumption
<1> QED BY <1>4 DEF Latest

LEMMA BestIn ==
    ASSUME TypeOK, NEW S, S \subseteq Cands, S # {} PROVE Best(S) \in S
<1>1. \A c \in S : c \in Nat /\ page[c].place \in Nat
    BY CandsAreNat, ClustersAssumption DEF TypeOK
<1> DEFINE T == {page[c].place : c \in S}
<1>2. PICK t \in T : \A u \in T : t <= u BY <1>1, LeastNat
<1> DEFINE U == {c \in S : page[c].place = t}
<1>3. PICK x \in U : \A y \in U : x <= y BY <1>1, LeastNat
<1>4. \A d \in S : Better(x, d)
    <2> TAKE d \in S
    <2>1. t <= page[d].place BY <1>2
    <2>2. page[x].place = t OBVIOUS
    <2>3. CASE page[d].place = t BY <2>3, <2>2, <1>3 DEF Better
    <2>4. CASE page[d].place # t
        <3>1. page[x].place < page[d].place BY <2>1, <2>2, <2>4, <1>1
        <3> QED BY <3>1 DEF Better
    <2> QED BY <2>3, <2>4
<1> QED BY <1>4 DEF Best

LEMMA GroupFacts ==
    ASSUME NEW c \in Cands
    PROVE  /\ c \in Group(c) /\ Group(c) \subseteq Cands
           /\ \A d \in Group(c) : Group(d) = Group(c)
           /\ First(Group(c)) \in Group(c)
<1>1. c \in Group(c) /\ Group(c) \subseteq Cands BY DEF Group
<1>2. \A d \in Group(c) : Group(d) = Group(c) BY DEF Group
<1>3. First(Group(c)) \in Group(c) BY <1>1, FirstIn
<1> QED BY <1>1, <1>2, <1>3

-----------------------------------------------------------------------------
(* Merging two clusters. *)

\* The members of drop become members of keep and nobody else moves.
LEMMA MergeMoves ==
    ASSUME TypeOK, NEW keep \in Cands, NEW drop \in Cands,
           assigned' = Merged(keep, drop), entry' = Renamed(keep, drop)
    PROVE  /\ assigned' \in [Cands -> Cands] /\ entry' \in [Cands -> Cands \cup {0}]
           /\ \A c \in Cands : assigned'[c] = IF assigned[c] = drop THEN keep ELSE assigned[c]
           /\ \A e \in Cands : entry'[e] = IF entry[e] = drop THEN keep ELSE entry[e]
<1>1. 0 \notin Cands BY DEF Cands
<1> QED BY <1>1 DEF TypeOK, Merged, Renamed

LEMMA MergeFollows ==
    ASSUME TypeOK, EntriesFollow, pc # "link", NEW keep \in Cands, NEW drop \in Cands,
           assigned' = Merged(keep, drop), entry' = Renamed(keep, drop), lead' = lead
    PROVE  /\ \A e \in Cands : entry'[e] # 0 =>
                  lead'[e] \in Cands /\ assigned'[lead'[e]] = entry'[e]
           /\ \A c \in Cands : \E e \in Cands : entry'[e] = assigned'[c]
<1>1. 0 \notin Cands BY DEF Cands
<1>2. ASSUME NEW e \in Cands, entry'[e] # 0
      PROVE  lead'[e] \in Cands /\ assigned'[lead'[e]] = entry'[e]
    <2>1. entry[e] # 0 BY <1>2, <1>1, MergeMoves
    <2>2. lead[e] \in Cands /\ assigned[lead[e]] = entry[e] BY <2>1 DEF EntriesFollow
    <2> QED BY <2>2, MergeMoves
<1>3. ASSUME NEW c \in Cands PROVE \E e \in Cands : entry'[e] = assigned'[c]
    <2>1. PICK e \in Cands : entry[e] = assigned[c] BY DEF EntriesFollow
    <2>2. entry'[e] = assigned'[c] BY <2>1, MergeMoves
    <2> QED BY <2>2
<1> QED BY <1>2, <1>3

\* When both clusters bear one label, the labelling stays justified.
LEMMA MergeJustified ==
    ASSUME TypeOK, NEW keep \in Cands, NEW drop \in Cands,
           assigned' = Merged(keep, drop), entry' = Renamed(keep, drop),
           NEW label \in [Cands -> Cands], Justified(label),
           \A c, d \in Cands : assigned[c] = keep /\ assigned[d] = drop => label[c] = label[d]
    PROVE  Justified(label)'
<1>1. ASSUME NEW c \in Cands, NEW d \in Cands, assigned'[c] = assigned'[d]
      PROVE  label[c] = label[d]
    <2>1. /\ assigned'[c] = IF assigned[c] = drop THEN keep ELSE assigned[c]
          /\ assigned'[d] = IF assigned[d] = drop THEN keep ELSE assigned[d]
        BY MergeMoves
    <2>2. CASE assigned[c] = assigned[d] BY <2>2 DEF Justified
    <2>3. CASE assigned[c] # assigned[d]
        <3>1. \/ assigned[c] = keep /\ assigned[d] = drop
              \/ assigned[d] = keep /\ assigned[c] = drop
            BY <2>1, <2>3, <1>1
        <3> QED BY <3>1
    <2> QED BY <2>2, <2>3
<1> QED BY <1>1 DEF Justified

-----------------------------------------------------------------------------
(* The invariant holds at first and in every step. *)

LEMMA InitInv == Init => IInv
<1> SUFFICES ASSUME Init PROVE IInv OBVIOUS
<1>1. TypeOK BY CandsAreNat DEF Init, TypeOK
<1>2. EntriesFollow /\ RepsFollow /\ Visiting BY DEF Init, EntriesFollow, RepsFollow, Visiting
<1>3. Labels BY DEF Init, Labels, Justified, OwnersHave
<1> QED BY <1>1, <1>2, <1>3 DEF IInv

LEMMA FamiliesIn == ASSUME TypeOK, NEW c \in Cands PROVE page[c].families \subseteq Families
BY DEF TypeOK, Families

LEMMA GroupInv == ASSUME IInv, GroupByLink PROVE IInv'
<1> USE DEF IInv
<1>a. 0 \notin Cands BY DEF Cands
<1>1. \A c \in Cands : /\ c \in Group(c) /\ Group(c) \subseteq Cands
                       /\ \A d \in Group(c) : Group(d) = Group(c)
                       /\ First(Group(c)) \in Group(c) /\ Best(Group(c)) \in Group(c)
    <2> TAKE c \in Cands
    <2>1. Best(Group(c)) \in Group(c) BY GroupFacts, BestIn
    <2> QED BY <2>1, GroupFacts
<1>2. /\ assigned' = [c \in Cands |-> First(Group(c))]
      /\ entry' = [c \in Cands |-> IF c = First(Group(c)) THEN c ELSE 0]
      /\ lead' = [c \in Cands |-> IF c = First(Group(c)) THEN Best(Group(c)) ELSE 0]
      /\ left' = page[1].families /\ pc' = "image" /\ pc = "link"
      /\ page' = page /\ owner' = owner /\ at' = at /\ order' = order /\ reps' = reps
    BY DEF GroupByLink
<1>4. TypeOK'
    <2>1. assigned' \in [Cands -> Cands] BY <1>1, <1>2
    <2>2. entry' \in [Cands -> Cands \cup {0}] BY <1>2
    <2>3. lead' \in [Cands -> Cands \cup {0}] BY <1>1, <1>2
    <2>4. left' \subseteq Families BY <1>2, FamiliesIn, CandsAreNat
    <2> QED BY <1>2, <2>1, <2>2, <2>3, <2>4 DEF TypeOK
<1>5. EntriesFollow'
    <2>1. ASSUME NEW e \in Cands, entry'[e] # 0
          PROVE  lead'[e] \in Cands /\ assigned'[lead'[e]] = entry'[e]
        <3>1. e = First(Group(e)) /\ entry'[e] = e /\ lead'[e] = Best(Group(e)) BY <2>1, <1>2
        <3>2. Best(Group(e)) \in Cands /\ Group(Best(Group(e))) = Group(e) BY <1>1
        <3> QED BY <3>1, <3>2, <1>2
    <2>2. ASSUME NEW c \in Cands PROVE \E e \in Cands : entry'[e] = assigned'[c]
        <3>1. First(Group(c)) \in Cands /\ Group(First(Group(c))) = Group(c) BY <1>1
        <3>2. entry'[First(Group(c))] = First(Group(c)) BY <3>1, <1>2
        <3> QED BY <3>1, <3>2, <1>2
    <2> QED BY <2>1, <2>2 DEF EntriesFollow
<1>6. RepsFollow' BY <1>2 DEF RepsFollow
<1>7. Visiting' BY <1>2 DEF Visiting
<1>8. Labels'
    <2> SUFFICES ASSUME NEW label \in [Cands -> Cands], Respects(label)'
                 PROVE  Justified(label)' /\ OwnersHave(label)'
        BY DEF Labels
    <2>1. \A c, d \in Cands : Linked(c, d)' <=> Linked(c, d) BY <1>2 DEF Linked, LinkKey
    <2>2. Respects(label) BY <2>1 DEF Respects
    <2>3. ASSUME NEW c \in Cands, NEW d \in Cands, assigned'[c] = assigned'[d]
          PROVE  label[c] = label[d]
        <3>1. Group(c) = Group(d) BY <2>3, <1>1, <1>2
        <3>2. d \in Group(c) BY <3>1, <1>1
        <3>3. Linked(c, d) BY <3>2 DEF Group, Linked
        <3> QED BY <3>3, <2>2 DEF Respects
    <2>4. OwnersHave(label)' BY <1>2 DEF OwnersHave, Visiting
    <2> QED BY <2>3, <2>4 DEF Justified
<1> QED BY <1>4, <1>5, <1>6, <1>7, <1>8

LEMMA VisitInv == ASSUME IInv, VisitFamily PROVE IInv'
<1> USE DEF IInv
<1>1. PICK f \in left :
        /\ left' = left \ {f}
        /\ \/ /\ owner[f] # 0 /\ owner[f] # assigned[at] /\ KeptApart(at, owner[f])
              /\ UNCHANGED <<assigned, entry, owner>>
           \/ /\ owner[f] # 0 /\ owner[f] # assigned[at] /\ ~KeptApart(at, owner[f])
              /\ assigned' = Merged(assigned[at], owner[f])
              /\ entry' = Renamed(assigned[at], owner[f])
              /\ owner' = [owner EXCEPT ![f] = assigned[at]]
           \/ /\ owner[f] = 0 \/ owner[f] = assigned[at]
              /\ owner' = [owner EXCEPT ![f] = assigned[at]]
              /\ UNCHANGED <<assigned, entry>>
    BY DEF VisitFamily
<1>2. /\ pc = "image" /\ pc' = pc /\ page' = page /\ lead' = lead /\ at' = at
      /\ order' = order /\ reps' = reps
    BY DEF VisitFamily
<1>3. /\ f \in Families /\ f \in page[at].families /\ at \in Cands /\ assigned[at] \in Cands
      /\ owner[f] # 0 => owner[f] \in Cands
    BY DEF TypeOK, Visiting
<1> DEFINE Moves == /\ owner[f] # 0 /\ owner[f] # assigned[at]
                    /\ assigned' = Merged(assigned[at], owner[f])
                    /\ entry' = Renamed(assigned[at], owner[f])
                    /\ owner' = [owner EXCEPT ![f] = assigned[at]]
           Claims == /\ owner' = owner \/ owner' = [owner EXCEPT ![f] = assigned[at]]
                     /\ assigned' = assigned /\ entry' = entry
<1>4. Moves \/ Claims BY <1>1
<1>5. assigned' \in [Cands -> Cands] /\ entry' \in [Cands -> Cands \cup {0}]
    <2>1. CASE Moves BY <2>1, <1>3, MergeMoves
    <2>2. CASE Claims BY <2>2 DEF TypeOK
    <2> QED BY <2>1, <2>2, <1>4
<1>6. owner' \in [Families -> Cands \cup {0}] BY <1>3, <1>4 DEF TypeOK
<1>7. TypeOK' BY <1>1, <1>2, <1>5, <1>6 DEF TypeOK
<1>8. EntriesFollow'
    <2>1. CASE Moves BY <2>1, <1>2, <1>3, MergeFollows DEF EntriesFollow
    <2>2. CASE Claims BY <2>2, <1>2 DEF EntriesFollow
    <2> QED BY <2>1, <2>2, <1>4
<1>9. RepsFollow' BY <1>2 DEF RepsFollow
<1>10. Visiting' BY <1>1, <1>2 DEF Visiting
<1>11. Labels'
    <2> SUFFICES ASSUME NEW label \in [Cands -> Cands], Respects(label)'
                 PROVE  Justified(label)' /\ OwnersHave(label)'
        BY DEF Labels
    <2>1. \A c, d \in Cands : Linked(c, d)' <=> Linked(c, d) BY <1>2 DEF Linked, LinkKey
    <2>2. Respects(label) BY <2>1 DEF Respects
    <2>3. Justified(label) /\ OwnersHave(label) BY <2>2 DEF Labels
    <2>4. ASSUME NEW d \in Cands, f \in page[d].families PROVE label[d] = label[at]
        <3>1. Linked(d, at) BY <2>4, <1>3 DEF Linked
        <3> QED BY <3>1, <2>2, <1>3 DEF Respects
    <2>5. CASE Moves
        <3>1. ASSUME NEW c \in Cands, assigned[c] = owner[f] PROVE label[c] = label[at]
            <4>1. PICK d \in Cands : f \in page[d].families /\ label[d] = label[c]
                BY <3>1, <2>5, <2>3, <1>3 DEF OwnersHave
            <4> QED BY <4>1, <2>4
        <3>2. \A c \in Cands : assigned[c] = assigned[at] => label[c] = label[at]
            BY <2>3, <1>3 DEF Justified
        <3>3. Justified(label)' BY <2>5, <2>3, <3>1, <3>2, <1>3, MergeJustified
        <3>4. ASSUME NEW g \in Families, NEW c \in Cands,
                     owner'[g] # 0, assigned'[c] = owner'[g]
              PROVE  \E d \in Cands : g \in page[d].families /\ label[d] = label[c]
            <4>1. assigned'[c] = IF assigned[c] = owner[f] THEN assigned[at] ELSE assigned[c]
                BY <2>5, <1>3, MergeMoves
            <4>2. CASE g = f
                <5>1. owner'[g] = assigned[at] BY <4>2, <2>5 DEF TypeOK
                <5>2. label[c] = label[at] BY <5>1, <3>4, <4>1, <3>1, <3>2
                <5> QED BY <5>2, <4>2, <1>3
            <4>3. CASE g # f
                <5>1. owner'[g] = owner[g] BY <4>3, <2>5 DEF TypeOK
                <5>2. CASE assigned[c] = owner[g] BY <5>1, <5>2, <3>4, <2>3 DEF OwnersHave
                <5>3. CASE assigned[c] # owner[g]
                    <6>1. assigned[c] = owner[f] /\ owner[g] = assigned[at]
                        BY <5>1, <5>3, <3>4, <4>1
                    <6>2. PICK d \in Cands : g \in page[d].families /\ label[d] = label[at]
                        BY <6>1, <5>1, <3>4, <2>3, <1>3 DEF OwnersHave
                    <6> QED BY <6>1, <6>2, <3>1
                <5> QED BY <5>2, <5>3
            <4> QED BY <4>2, <4>3
        <3>5. OwnersHave(label)' BY <3>4, <1>2 DEF OwnersHave
        <3> QED BY <3>3, <3>5
    <2>6. CASE Claims
        <3>1. Justified(label)' BY <2>6, <2>3 DEF Justified
        <3>2. ASSUME NEW g \in Families, NEW c \in Cands,
                     owner'[g] # 0, assigned[c] = owner'[g]
              PROVE  \E d \in Cands : g \in page[d].families /\ label[d] = label[c]
            <4>1. CASE owner'[g] = owner[g] BY <4>1, <3>2, <2>3 DEF OwnersHave
            <4>2. CASE owner'[g] # owner[g]
                <5>1. g = f /\ owner'[g] = assigned[at] BY <4>2, <2>6 DEF TypeOK
                <5>2. label[c] = label[at] BY <5>1, <3>2, <2>3, <1>3 DEF Justified
                <5> QED BY <5>1, <5>2, <1>3
            <4> QED BY <4>1, <4>2
        <3>3. OwnersHave(label)' BY <3>2, <2>6, <1>2 DEF OwnersHave
        <3> QED BY <3>1, <3>3
    <2> QED BY <2>5, <2>6, <1>4
<1> QED BY <1>7, <1>8, <1>9, <1>10, <1>11

\* A step that leaves page, assigned, entry, lead and owner alone keeps what is said of them.
LEMMA KeepsTable ==
    ASSUME IInv, UNCHANGED <<page, assigned, entry, lead, owner>>, pc # "link" => pc' # "link",
           pc = "link" => pc' = "link"
    PROVE  EntriesFollow' /\ Labels'
<1>1. EntriesFollow' BY DEF IInv, EntriesFollow
<1>2. \A c, d \in Cands : Linked(c, d)' <=> Linked(c, d) BY DEF Linked, LinkKey
<1>3. \A label \in [Cands -> Cands] : Respects(label)' <=> Respects(label) BY <1>2 DEF Respects
<1>4. \A label \in [Cands -> Cands] : Justified(label)' <=> Justified(label) BY DEF Justified
<1>5. \A label \in [Cands -> Cands] : OwnersHave(label)' <=> OwnersHave(label)
    BY DEF OwnersHave
<1>6. Labels' BY <1>3, <1>4, <1>5 DEF IInv, Labels
<1> QED BY <1>1, <1>6

LEMMA ListingInv == ASSUME IInv, NextListing PROVE IInv'
<1> USE DEF IInv
<1>1. EntriesFollow' /\ Labels' BY KeepsTable DEF NextListing
<1>2. at + 1 \in Cands BY ClustersAssumption DEF NextListing, TypeOK, Cands
<1>3. TypeOK' BY <1>2, FamiliesIn DEF NextListing, TypeOK
<1>4. RepsFollow' /\ Visiting' BY DEF NextListing, RepsFollow, Visiting
<1> QED BY <1>1, <1>3, <1>4

LEMMA StartInv == ASSUME IInv, StartTitles PROVE IInv'
<1> USE DEF IInv
<1>1. EntriesFollow' /\ Labels' BY KeepsTable DEF StartTitles
<1>2. /\ pc = "image" /\ pc' = "text" /\ assigned' = assigned
      /\ order' = [k \in Cands |-> IF EntriesOf(k) = {} THEN 0 ELSE First(EntriesOf(k))]
      /\ reps' = [k \in Cands |-> IF EntriesOf(k) = {} THEN 0 ELSE lead[Latest(EntriesOf(k))]]
    BY DEF StartTitles
<1>3. ASSUME NEW k \in Cands, EntriesOf(k) # {}
      PROVE  /\ First(EntriesOf(k)) \in Cands /\ Latest(EntriesOf(k)) \in Cands
             /\ entry[Latest(EntriesOf(k))] = k /\ k # 0
             /\ lead[Latest(EntriesOf(k))] \in Cands
             /\ assigned[lead[Latest(EntriesOf(k))]] = k
    <2>1. EntriesOf(k) \subseteq Cands BY DEF EntriesOf, Entries
    <2>2. First(EntriesOf(k)) \in EntriesOf(k) /\ Latest(EntriesOf(k)) \in EntriesOf(k)
        BY <2>1, <1>3, FirstIn, LatestIn
    <2>3. entry[Latest(EntriesOf(k))] = k /\ k # 0 BY <2>2 DEF EntriesOf, Entries
    <2> QED BY <2>1, <2>2, <2>3, <1>2 DEF EntriesFollow
<1>4. order' \in [Cands -> Cands \cup {0}] /\ reps' \in [Cands -> Cands \cup {0}] BY <1>2, <1>3
<1>5. TypeOK' BY <1>4 DEF StartTitles, TypeOK
<1>6. RepsFollow' BY <1>2, <1>3 DEF RepsFollow
<1>7. Visiting' BY DEF StartTitles, Visiting
<1> QED BY <1>1, <1>5, <1>6, <1>7

LEMMA TitlesInv == ASSUME IInv, MergeTitles PROVE IInv'
<1> USE DEF IInv
<1>1. PICK l \in Cands, r \in Cands :
          /\ TitlePair(l, r) /\ assigned' = Merged(l, r) /\ entry' = Renamed(l, r)
          /\ reps' = [reps EXCEPT ![r] = 0]
    BY DEF MergeTitles
<1>2. /\ pc = "text" /\ pc' = pc /\ page' = page /\ lead' = lead /\ at' = at /\ left' = left
      /\ owner' = owner /\ order' = order
    BY DEF MergeTitles
<1>3. /\ reps[l] # 0 /\ reps[r] # 0 /\ reps[l] \in Cands /\ reps[r] \in Cands
      /\ assigned[reps[l]] = l /\ assigned[reps[r]] = r
      /\ Alike(page[reps[l]].title, page[reps[r]].title)
    BY <1>1, <1>2 DEF TitlePair, SameTitle, TypeOK, RepsFollow
<1>4. TypeOK' BY <1>1, <1>2, MergeMoves DEF TypeOK
<1>5. EntriesFollow' BY <1>1, <1>2, MergeFollows DEF EntriesFollow
<1>6. RepsFollow'
    <2>1. ASSUME NEW k \in Cands, reps'[k] # 0 PROVE assigned'[reps'[k]] = k
        <3>1. k # r /\ reps'[k] = reps[k] BY <2>1, <1>1 DEF TypeOK
        <3>2. reps[k] \in Cands /\ assigned[reps[k]] = k
            BY <2>1, <3>1, <1>2 DEF TypeOK, RepsFollow
        <3> QED BY <3>1, <3>2, <1>1, MergeMoves
    <2> QED BY <2>1 DEF RepsFollow
<1>7. Visiting' BY <1>2 DEF Visiting
<1>8. Labels'
    <2> SUFFICES ASSUME NEW label \in [Cands -> Cands], Respects(label)'
                 PROVE  Justified(label)' /\ OwnersHave(label)'
        BY DEF Labels
    <2>1. \A c, d \in Cands : Linked(c, d)' <=> Linked(c, d) BY <1>2 DEF Linked, LinkKey
    <2>2. Respects(label) BY <2>1 DEF Respects
    <2>3. Justified(label) /\ OwnersHave(label) BY <2>2 DEF Labels
    <2>4. label[reps[l]] = label[reps[r]]
        <3>1. Linked(reps[l], reps[r]) BY <1>3 DEF Linked
        <3> QED BY <3>1, <1>3, <2>2 DEF Respects
    <2>5. \A c, d \in Cands : assigned[c] = l /\ assigned[d] = r => label[c] = label[d]
        BY <2>3, <2>4, <1>3 DEF Justified
    <2>6. Justified(label)' BY <1>1, <2>3, <2>5, MergeJustified
    <2>7. ASSUME NEW g \in Families, NEW c \in Cands, owner[g] # 0, assigned'[c] = owner[g]
          PROVE  \E d \in Cands : g \in page[d].families /\ label[d] = label[c]
        <3>1. assigned'[c] = IF assigned[c] = r THEN l ELSE assigned[c] BY <1>1, MergeMoves
        <3>2. CASE assigned[c] = owner[g] BY <3>2, <2>7, <2>3 DEF OwnersHave
        <3>3. CASE assigned[c] # owner[g]
            <4>1. assigned[c] = r /\ owner[g] = l BY <3>1, <3>3, <2>7
            <4>2. PICK d \in Cands : g \in page[d].families /\ label[d] = label[reps[l]]
                BY <4>1, <2>7, <2>3, <1>3 DEF OwnersHave
            <4>3. label[reps[l]] = label[c] BY <4>1, <2>5, <1>3
            <4> QED BY <4>2, <4>3
        <3> QED BY <3>2, <3>3
    <2>8. OwnersHave(label)' BY <2>7, <1>2 DEF OwnersHave
    <2> QED BY <2>6, <2>8
<1> QED BY <1>4, <1>5, <1>6, <1>7, <1>8

LEMMA EndInv == ASSUME IInv, EndTitles \/ Return PROVE IInv'
<1> USE DEF IInv
<1>1. EntriesFollow' /\ Labels' BY KeepsTable DEF EndTitles, Return
<1>2. TypeOK' BY DEF EndTitles, Return, TypeOK
<1>3. RepsFollow' /\ Visiting' BY DEF EndTitles, Return, RepsFollow, Visiting
<1> QED BY <1>1, <1>2, <1>3

LEMMA StutterInv == ASSUME IInv, UNCHANGED vars PROVE IInv'
<1> USE DEF IInv, vars
<1>1. EntriesFollow' /\ Labels' BY KeepsTable
<1>2. TypeOK' BY DEF TypeOK
<1>3. RepsFollow' /\ Visiting' BY DEF RepsFollow, Visiting
<1> QED BY <1>1, <1>2, <1>3

LEMMA StepInv == IInv /\ [Next]_vars => IInv'
<1> SUFFICES ASSUME IInv, [Next]_vars PROVE IInv' OBVIOUS
<1>1. CASE GroupByLink BY <1>1, GroupInv
<1>2. CASE VisitFamily BY <1>2, VisitInv
<1>3. CASE NextListing BY <1>3, ListingInv
<1>4. CASE StartTitles BY <1>4, StartInv
<1>5. CASE MergeTitles BY <1>5, TitlesInv
<1>6. CASE EndTitles \/ Return BY <1>6, EndInv
<1>7. CASE UNCHANGED vars BY <1>7, StutterInv
<1> QED BY <1>1, <1>2, <1>3, <1>4, <1>5, <1>6, <1>7 DEF Next

LEMMA InvHolds == Spec => []IInv
<1> QED BY InitInv, StepInv, PTL DEF Spec

-----------------------------------------------------------------------------
(* The theorems. *)

\* Every variable of cluster_candidates keeps its type, whatever the listings look like.
THEOREM ClustersTypeCorrect == Spec => []TypeOK
<1>1. IInv => TypeOK BY DEF IInv
<1> QED BY <1>1, InvHolds, PTL

\* Listings end in one cluster only when a chain of common links, shared images or
\* nearly equal titles connects them.
THEOREM NoListingWithoutReason == Spec => []MergesJustified
<1>1. IInv => MergesJustified BY DEF IInv, Labels, Justified, MergesJustified
<1> QED BY <1>1, InvHolds, PTL

\* Every listing is in exactly one cluster that is returned, and its representative is one
\* of its members.
THEOREM NoListingLost == Spec => []EveryListingRepresented
<1>1. Init => EveryListingRepresented BY DEF Init, EveryListingRepresented
<1>2. IInv /\ EveryListingRepresented /\ [Next]_vars => EveryListingRepresented'
    <2> SUFFICES ASSUME IInv, EveryListingRepresented, [Next]_vars
                 PROVE  EveryListingRepresented'
        OBVIOUS
    <2>1. CASE Return
        <3>0. IInv' BY StepInv
        <3> DEFINE Card(k) == [members |-> Members(k), representative |-> Best(Members(k))]
        <3>1. /\ pc = "final" /\ page' = page
              /\ cards' = {Card(k) : k \in {assigned[lead[e]] : e \in Entries}}
            BY <2>1 DEF Return
        <3>2. ASSUME NEW c \in Cands PROVE \E k \in cards' : c \in k.members
            <4>1. PICK e \in Cands : entry[e] = assigned[c] BY <3>1 DEF IInv, EntriesFollow
            <4>2. assigned[c] \in Cands /\ assigned[c] # 0 BY DEF IInv, TypeOK, Cands
            <4>3. e \in Entries /\ assigned[lead[e]] = assigned[c]
                BY <4>1, <4>2, <3>1 DEF IInv, EntriesFollow, Entries
            <4>4. Card(assigned[c]) \in cards' BY <4>3, <3>1
            <4>5. c \in Card(assigned[c]).members BY DEF Members
            <4> QED BY <4>4, <4>5
        <3>3. ASSUME NEW j \in cards', NEW k \in cards', j # k
              PROVE  j.members \cap k.members = {}
            <4>1. PICK x : j = Card(x) BY <3>1
            <4>2. PICK y : k = Card(y) BY <3>1
            <4>3. x # y BY <4>1, <4>2, <3>3
            <4> QED BY <4>1, <4>2, <4>3 DEF Members
        <3>4. ASSUME NEW k \in cards' PROVE k.representative \in k.members
            <4>1. PICK e \in Entries : k = Card(assigned[lead[e]]) BY <3>4, <3>1
            <4>2. lead[e] \in Cands BY <3>1 DEF IInv, EntriesFollow, Entries
            <4>3. lead[e] \in Members(assigned[lead[e]]) BY <4>2 DEF Members
            <4>4. Members(assigned[lead[e]]) \subseteq Cands BY DEF Members
            <4>5. Best(Members(assigned[lead[e]])) \in Members(assigned[lead[e]])
                BY <4>3, <4>4, BestIn DEF IInv
            <4> QED BY <4>1, <4>5
        <3> QED BY <3>2, <3>3, <3>4 DEF EveryListingRepresented
    <2>2. CASE UNCHANGED vars BY <2>2 DEF vars, EveryListingRepresented
    <2>3. CASE Next /\ ~Return
        <3>1. pc' # "done"
            BY <2>3 DEF Next, GroupByLink, VisitFamily, NextListing, StartTitles, MergeTitles,
                        EndTitles
        <3> QED BY <3>1 DEF EveryListingRepresented
    <2> QED BY <2>1, <2>2, <2>3
<1> QED BY <1>1, <1>2, InvHolds, PTL DEF Spec

\* When every listing has its listing id, no order of the input and no shared image or
\* title brings two ids together.
THEOREM OneIdToACluster == Spec => []IdsKeepApart
<1>1. Init => IdsKeepApart BY DEF Init, IdsKeepApart
<1>2. IInv /\ IdsKeepApart /\ [Next]_vars => IdsKeepApart'
    <2> SUFFICES ASSUME IInv, IdsKeepApart, [Next]_vars,
                        \A c \in Cands : Listing(c)' # NoListing,
                        NEW c \in Cands, NEW d \in Cands, assigned'[c] = assigned'[d]
                 PROVE  Listing(c)' = Listing(d)'
        BY DEF IdsKeepApart
    <2>0. page' = page
        BY DEF Next, GroupByLink, VisitFamily, NextListing, StartTitles, MergeTitles, EndTitles,
               Return, vars
    <2>1. \A x \in Cands : Listing(x)' = Listing(x) /\ Listing(x) # NoListing
        BY <2>0 DEF Listing
    <2>2. \A x, y \in Cands : assigned[x] = assigned[y] => Listing(x) = Listing(y)
        BY <2>1 DEF IdsKeepApart
    <2>3. ASSUME NEW k \in Cands, NEW m \in Cands,
                 assigned' = Merged(k, m), entry' = Renamed(k, m),
                 \A x, y \in Cands : assigned[x] = k /\ assigned[y] = m => Listing(x) = Listing(y)
          PROVE  Listing(c) = Listing(d)
        <3>1. /\ assigned'[c] = IF assigned[c] = m THEN k ELSE assigned[c]
              /\ assigned'[d] = IF assigned[d] = m THEN k ELSE assigned[d]
            BY <2>3, MergeMoves DEF IInv
        <3>2. CASE assigned[c] = assigned[d] BY <3>2, <2>2
        <3>3. CASE assigned[c] # assigned[d]
            <4>1. \/ assigned[c] = k /\ assigned[d] = m
                  \/ assigned[d] = k /\ assigned[c] = m
                BY <3>1, <3>3
            <4> QED BY <4>1, <2>3
        <3> QED BY <3>2, <3>3
    <2>4. CASE GroupByLink
        <3>1. First(Group(c)) = First(Group(d)) BY <2>4 DEF GroupByLink
        <3>2. Group(c) = Group(d) BY <3>1, GroupFacts
        <3>3. d \in Group(c) BY <3>2, GroupFacts
        <3>4. LinkKey(page[c]) = LinkKey(page[d]) BY <3>3 DEF Group
        <3>5. <<page[c].adapter, Listing(c)>> = <<page[d].adapter, Listing(d)>>
            BY <3>4, <2>1 DEF LinkKey, Listing
        <3> QED BY <3>5, <2>1
    <2>5. CASE VisitFamily
        <3>1. PICK f \in left : \/ UNCHANGED assigned
                                \/ /\ owner[f] # 0 /\ ~KeptApart(at, owner[f])
                                   /\ assigned' = Merged(assigned[at], owner[f])
                                   /\ entry' = Renamed(assigned[at], owner[f])
            BY <2>5 DEF VisitFamily
        <3>2. CASE UNCHANGED assigned BY <3>2, <2>2, <2>1
        <3>3. CASE ~ UNCHANGED assigned
            <4>1. at \in Cands /\ assigned[at] \in Cands /\ owner[f] \in Cands
                BY <3>1, <3>3 DEF IInv, TypeOK
            <4>2. ASSUME NEW x \in Cands, NEW y \in Cands,
                         assigned[x] = assigned[at], assigned[y] = owner[f]
                  PROVE  Listing(x) = Listing(y)
                <5>1. y \in Members(owner[f]) BY <4>2 DEF Members
                <5>2. PICK m \in Members(owner[f]) : Listing(m) = Listing(at)
                    BY <5>1, <4>1, <3>1, <3>3, <2>1 DEF KeptApart
                <5>3. Listing(y) = Listing(m) BY <5>2, <4>2, <2>2 DEF Members
                <5>4. Listing(x) = Listing(at) BY <4>1, <4>2, <2>2
                <5> QED BY <5>2, <5>3, <5>4
            <4> QED BY <4>1, <4>2, <3>1, <3>3, <2>3, <2>1
        <3> QED BY <3>2, <3>3
    <2>6. CASE MergeTitles
        <3>1. PICK l \in Cands, r \in Cands :
                  TitlePair(l, r) /\ assigned' = Merged(l, r) /\ entry' = Renamed(l, r)
            BY <2>6 DEF MergeTitles
        <3>2. /\ reps[l] \in Cands /\ reps[r] \in Cands
              /\ assigned[reps[l]] = l /\ assigned[reps[r]] = r
              /\ Listing(reps[l]) = Listing(reps[r])
            BY <3>1, <2>6, <2>1
               DEF TitlePair, SameTitle, IInv, TypeOK, RepsFollow, MergeTitles
        <3>3. \A x, y \in Cands : assigned[x] = l /\ assigned[y] = r => Listing(x) = Listing(y)
            BY <3>2, <2>2
        <3> QED BY <3>1, <3>3, <2>3, <2>1
    <2>7. CASE NextListing \/ StartTitles \/ EndTitles \/ Return \/ UNCHANGED vars
        <3>1. assigned' = assigned
            BY <2>7 DEF NextListing, StartTitles, EndTitles, Return, vars
        <3> QED BY <3>1, <2>2, <2>1
    <2> QED BY <2>4, <2>5, <2>6, <2>7 DEF Next
<1> QED BY <1>1, <1>2, InvHolds, PTL DEF Spec


-----------------------------------------------------------------------------
(* The caps, the scores, and what a walk and an index put forward. *)

LEMMA CapsAreNat ==
    /\ EnvShare \in Nat /\ EnvCap \in Nat /\ ShareFloor \in Nat /\ Ceiling \in Nat
    /\ PromoteShare \in Nat /\ PromoteCap \in Nat /\ IndexCap \in Nat /\ ExpandCap \in Nat
BY CapsAssumption

LEMMA CapFacts ==
    /\ WalkShare \in Nat /\ WalkShare <= EnvShare
    /\ WalkCap \in Nat /\ WalkCap <= Ceiling
<1> USE CapsAreNat
<1> DEFINE share == IF Ceiling = 0 \/ Sources = {} THEN 0
                    ELSE Max({ShareFloor, Ceiling \div Cardinality(Sources)})
<1>1. share \in Nat
    <2>1. CASE Ceiling # 0 /\ Sources # {}
        <3>1. Cardinality(Sources) \in Nat \ {0}
            BY <2>1, SourcesAssumption, FS_CardinalityType, FS_EmptySet
        <3>2. Ceiling \div Cardinality(Sources) \in Nat
            BY <3>1
        <3>3. \A q \in Nat : Max({ShareFloor, q}) \in Nat
            BY MaxOfTwo
        <3>. QED BY <3>2, <3>3, <2>1
    <2>. QED BY <2>1
<1>2. WalkShare = Min({EnvShare, share})
    BY DEF WalkShare
<1>. HIDE DEF share
<1>3. WalkShare \in Nat /\ WalkShare <= EnvShare
    BY <1>1, <1>2, MinOfTwo
<1>4. WalkCap \in Nat /\ WalkCap <= Ceiling
    BY MinOfTwo DEF WalkCap
<1>. QED BY <1>3, <1>4

LEMMA MatchScoreType == ASSUME NEW words PROVE MatchScore(words) \in Nat
<1> DEFINE score == [q \in Queries |-> Cardinality(q \cap words)]
           Scores == {Cardinality(q \cap words) : q \in Queries}
<1>1. \A q \in Queries : Cardinality(q \cap words) \in Nat
    BY QueriesAssumption, FS_Intersection, FS_CardinalityType
<1>2. score \in Surjection(Queries, Scores)
    BY DEF Surjection
<1>3. IsFiniteSet(Scores)
    <2> HIDE DEF Scores, score
    <2>. QED BY <1>2, QueriesAssumption, FS_Surjection
<1>4. IsFiniteSet({0} \cup Scores)
    BY <1>3, FS_Singleton, FS_Union
<1>5. {0} \cup Scores \subseteq Nat
    <2>1. ASSUME NEW k \in Scores PROVE k \in Nat
        <3>1. PICK q \in Queries : k = Cardinality(q \cap words)
            OBVIOUS
        <3>. QED BY <3>1, <1>1
    <2> HIDE DEF Scores
    <2>. QED BY <2>1
<1> HIDE DEF Scores
<1>6. Max({0} \cup Scores) \in Nat
    BY <1>4, <1>5, MaxFacts
<1>. QED BY <1>6 DEF MatchScore, Scores

Matches == [url : Nat, score : Nat]

\* A walk puts no more forward than its share, and than the campaign has left.
LEMMA PromotedWithinCaps ==
    ASSUME NEW w, w.matched \subseteq Matches, IsFiniteSet(w.matched), w.promoted \in Nat
    PROVE  /\ Promoted(w) \subseteq w.matched /\ IsFiniteSet(Promoted(w))
           /\ LET urls == {m.url : m \in Promoted(w)}
              IN  /\ Cardinality(urls) \in 0..PromoteShare
                  /\ w.promoted <= PromoteCap =>
                         w.promoted + Cardinality(urls) <= PromoteCap
<1> DEFINE R == {p \in w.matched \X w.matched : Precedes(p[1], p[2])}
           most == Max({0, PromoteCap - w.promoted})
           room == Min({PromoteShare, most})
           F == FirstN(R, w.matched, room)
<1>1. most \in Nat /\ (w.promoted <= PromoteCap => most = PromoteCap - w.promoted)
    <2>1. PromoteCap - w.promoted \in Int
        BY CapsAreNat
    <2>. QED BY <2>1, MaxWithZero, CapsAreNat
<1>2. room \in Nat /\ room <= PromoteShare /\ room <= most
    <2>1. \A d \in Nat : LET r == Min({PromoteShare, d})
                         IN  r \in {PromoteShare, d} /\ r <= PromoteShare /\ r <= d
        BY CapsAreNat, MinOfTwo
    <2> HIDE DEF most
    <2>. QED BY <1>1, <2>1, CapsAreNat
<1>3. \A m, o \in w.matched : <<m, o>> \in R <=> Precedes(m, o)
    OBVIOUS
<1>4. Promoted(w) = F
    <2>1. \A m \in w.matched :
              {o \in w.matched : Precedes(o, m)} = Before(R, w.matched)[m]
        BY <1>3 DEF Before
    <2>2. Promoted(w) = {m \in w.matched :
                           Cardinality({o \in w.matched : Precedes(o, m)}) < room}
        BY DEF Promoted
    <2> HIDE DEF room, R
    <2>. QED BY <2>1, <2>2 DEF FirstN
<1>5. Orders(R, w.matched)
    <2> HIDE DEF R
    <2>1. \A x \in w.matched : /\ x.url \in Nat /\ x.score \in Nat
                               /\ x = [url |-> x.url, score |-> x.score]
        BY DEF Matches
    <2>. QED BY <2>1, <1>3 DEF Precedes, Orders
<1>6. IsFiniteSet(F) /\ Cardinality(F) <= room
    <2> HIDE DEF R, room
    <2>. QED BY <1>2, <1>5, FirstInOrder
<1> DEFINE urls == {m.url : m \in Promoted(w)}
           name == [m \in Promoted(w) |-> m.url]
<1>7. name \in Surjection(Promoted(w), urls)
    BY DEF Surjection
<1>8. Cardinality(urls) \in Nat /\ Cardinality(urls) <= room
    <2> HIDE DEF urls, name, F, room
    <2>1. IsFiniteSet(urls) /\ Cardinality(urls) <= Cardinality(Promoted(w))
        BY <1>4, <1>6, <1>7, FS_Surjection
    <2>. QED BY <2>1, <1>2, <1>4, <1>6, FS_CardinalityType
<1>9. Promoted(w) \subseteq w.matched /\ IsFiniteSet(Promoted(w))
    BY <1>4, <1>6 DEF FirstN
<1>10. /\ Cardinality(urls) \in 0..PromoteShare
       /\ w.promoted <= PromoteCap => w.promoted + Cardinality(urls) <= PromoteCap
    <2> HIDE DEF urls, room, most
    <2>. QED BY <1>1, <1>2, <1>8, CapsAreNat
<1>. QED BY <1>9, <1>10

\* An index gives no more than its cap, and than the campaign has left.
LEMMA TakenWithinCaps ==
    ASSUME NEW s, NEW feed, NEW body, expanded \in Nat
    PROVE  LET taken == Taken(s, feed, body)
           IN  /\ Cardinality(taken) \in 0..IndexCap
               /\ expanded <= ExpandCap => expanded + Cardinality(taken) <= ExpandCap
<1> DEFINE entries == MembersOf(body)
           members == [i \in 1..Len(entries) |-> entries[i].url]
           known == SeenTargets(s) \cup {feed}
           Weight(i) == MatchScore(FeedText(entries[i], entries[i]))
           Ahead(j, i) == Weight(j) > Weight(i) \/ (Weight(j) = Weight(i) /\ j < i)
           InQuery(u) == Strategy[feed] = "sitemap" /\ u \in Products => u \in InLoc
           Unread == {i \in DOMAIN members :
                        /\ members[i] \in Admitted \ known /\ InQuery(members[i])
                        /\ \A j \in DOMAIN members : j < i => members[j] # members[i]}
           most == Max({0, ExpandCap - expanded})
           room == Min({IndexCap, most})
           Chosen == {k \in Unread : Cardinality({j \in Unread : Ahead(j, k)}) < room}
           taken == {members[i] : i \in Chosen}
           R == {p \in Unread \X Unread : Ahead(p[1], p[2])}
<1>1. Taken(s, feed, body) = IF rows[s][feed].depth + 1 > MaxDepth THEN {} ELSE taken
    BY DEF Taken
<1>2. most \in Nat /\ (expanded <= ExpandCap => most = ExpandCap - expanded)
    <2>1. ExpandCap - expanded \in Int
        BY CapsAreNat
    <2>. QED BY <2>1, MaxWithZero, CapsAreNat
<1>3. room \in Nat /\ room <= IndexCap /\ room <= most
    <2>1. \A d \in Nat : LET r == Min({IndexCap, d})
                         IN  r \in {IndexCap, d} /\ r <= IndexCap /\ r <= d
        BY CapsAreNat, MinOfTwo
    <2> HIDE DEF most
    <2>. QED BY <1>2, <2>1, CapsAreNat
<1>4. \A i : Weight(i) \in Nat
    BY MatchScoreType
<1> DEFINE url == [i \in Unread |-> members[i]]
<1>5. IsFiniteSet(Unread)
    <2>1. Unread \subseteq Int /\ \A i \in Unread : members[i] \in Admitted
        OBVIOUS
    <2>2. \A i, j \in Unread : members[i] = members[j] => i = j
        <3> HIDE DEF members
        <3>. QED BY <2>1
    <2> HIDE DEF Unread, members
    <2>3. url \in [Unread -> Admitted] /\ IsInjective(url)
        BY <2>1, <2>2 DEF IsInjective
    <2> HIDE DEF url
    <2>. QED BY <2>3, AdmittedAssumption, FS_Injection DEF Injection
<1>6. Orders(R, Unread)
    <2>1. \A i, j \in Unread : <<i, j>> \in R <=> Ahead(i, j)
        OBVIOUS
    <2>2. Unread \subseteq Int
        OBVIOUS
    <2> HIDE DEF R, Unread, Weight
    <2>. QED BY <1>4, <2>1, <2>2 DEF Orders
<1>7. Chosen = FirstN(R, Unread, room)
    <2>1. \A i \in Unread : {j \in Unread : Ahead(j, i)} = Before(R, Unread)[i]
        <3> HIDE DEF Unread, Weight
        <3>. QED BY DEF Before
    <2> HIDE DEF Unread, Weight, room, R
    <2>. QED BY <2>1 DEF FirstN
<1>8. IsFiniteSet(Chosen) /\ Cardinality(Chosen) <= room
    <2> HIDE DEF R, room, Unread, Chosen
    <2>. QED BY <1>3, <1>5, <1>6, <1>7, FirstInOrder
<1> DEFINE name == [i \in Chosen |-> members[i]]
<1>9. Cardinality(taken) \in Nat /\ Cardinality(taken) <= room
    <2>1. name \in Surjection(Chosen, taken)
        <3> HIDE DEF Chosen, members
        <3>. QED BY DEF Surjection
    <2> HIDE DEF Chosen, name, taken, room
    <2>2. IsFiniteSet(taken) /\ Cardinality(taken) <= Cardinality(Chosen)
        BY <1>8, <2>1, FS_Surjection
    <2>. QED BY <2>2, <1>3, <1>8, FS_CardinalityType
<1>10. Cardinality({}) = 0
    BY FS_EmptySet
<1>. HIDE DEF taken, room, most
<1>. QED BY <1>1, <1>2, <1>3, <1>9, <1>10, CapsAreNat

-----------------------------------------------------------------------------
(* What holds at every step. *)

Walks == [origin : Nat, read : Nat, seen : Nat, matched : SUBSET Matches,
          barred : BOOLEAN, pages : Nat, promoted : Nat]
WalkReceipts == [source : Sources, read : Nat, promoted : SUBSET Nat, pages : Nat, before : Nat]

Stages == {"start", "robots", "ready", "discovered", "walking", "asking", "walked", "recording",
           "working", "expanding", "expanded", "finishing", "over"}

Accounts ==
    /\ stage \in [Sources -> Stages]
    /\ walk \in [Sources -> Walks] /\ \A s \in Sources : IsFiniteSet(walk[s].matched)
    /\ catalogPages \in Nat /\ catalogPromoted \in Nat /\ expanded \in Nat
    /\ catalogs \in Seq(WalkReceipts)
    /\ \E Receipts : expansions \in Seq(Receipts)

\* Who is between the two ends of a locked section has the lock.
Inside == {"walking", "asking", "walked", "recording", "expanded"}
LockHeld == \A s \in Sources : stage[s] \in Inside => lock = s

\* A walk goes on from where the counters stand, and has not passed a cap.
WalkGoesOn ==
    \A s \in Sources : stage[s] \in {"walking", "asking", "walked"} =>
        /\ walk[s].pages = catalogPages /\ walk[s].promoted = catalogPromoted
        /\ walk[s].read <= WalkShare
        /\ walk[s].pages + walk[s].read <= WalkCap
        /\ stage[s] = "asking" => MayRead(walk[s])

CatalogueInv == Accounts /\ LockHeld /\ WalkGoesOn /\ ReceiptsChain /\ CapsHold

\* The account and the caps are about the counters and the receipts alone.
Ledger == <<catalogPages, catalogPromoted, expanded, catalogs, expansions>>

LEMMA LedgerKept ==
    ASSUME CatalogueInv, UNCHANGED Ledger
    PROVE  /\ ReceiptsChain' /\ CapsHold'
           /\ catalogPages' \in Nat /\ catalogPromoted' \in Nat /\ expanded' \in Nat
           /\ catalogs' \in Seq(WalkReceipts)
           /\ \E Receipts : expansions' \in Seq(Receipts)
<1>1. /\ catalogPages' = catalogPages /\ catalogPromoted' = catalogPromoted
      /\ expanded' = expanded /\ catalogs' = catalogs /\ expansions' = expansions
    BY DEF Ledger
<1>2. ReceiptsChain'
    BY <1>1 DEF CatalogueInv, ReceiptsChain, ReadBy, PromotedBy, TakenBy
<1>3. CapsHold'
    BY <1>1 DEF CatalogueInv, CapsHold, WalkCap, WalkShare
<1>4. /\ catalogPages' \in Nat /\ catalogPromoted' \in Nat /\ expanded' \in Nat
      /\ catalogs' \in Seq(WalkReceipts)
      /\ \E Receipts : expansions' \in Seq(Receipts)
    BY <1>1 DEF CatalogueInv, Accounts
<1>. QED BY <1>2, <1>3, <1>4

\* Nobody else is inside while one is, and nobody is when the lock is free.
LEMMA OneInside ==
    ASSUME LockHeld, NEW s \in Sources, NEW t \in Sources, stage[t] \in Inside,
           stage[s] \in Inside \/ Free
    PROVE  t = s /\ lock = s
BY NoSourceAssumption DEF LockHeld, Free

\* What a source does outside the lock, where it begins and ends outside.
LEMMA StepOutside ==
    ASSUME CatalogueInv, NEW s \in Sources, UNCHANGED <<Ledger, walk, lock>>,
           NEW place \in Stages \ Inside, stage' \in {stage, [stage EXCEPT ![s] = place]}
    PROVE  CatalogueInv'
<1>1. /\ stage' \in [Sources -> Stages]
      /\ \A t \in Sources : stage'[t] \in Inside => stage'[t] = stage[t]
    BY DEF CatalogueInv, Accounts
<1>2. walk' = walk /\ lock' = lock /\ catalogPages' = catalogPages
      /\ catalogPromoted' = catalogPromoted
    BY DEF Ledger
<1>3. Accounts' /\ ReceiptsChain' /\ CapsHold'
    BY <1>1, <1>2, LedgerKept DEF CatalogueInv, Accounts
<1>4. LockHeld'
    BY <1>1, <1>2 DEF CatalogueInv, LockHeld
<1>5. WalkGoesOn'
    BY <1>1, <1>2 DEF CatalogueInv, WalkGoesOn, Inside, MayRead, WalkCap, WalkShare
<1>. QED BY <1>3, <1>4, <1>5 DEF CatalogueInv

\* A source inside the lock goes on, with the walk w; the counters are as they were.
Moves(s, place, w) ==
    /\ stage' = [stage EXCEPT ![s] = place] /\ walk' = [walk EXCEPT ![s] = w]
    /\ place \in Inside => lock' = s

Sound(place, w) ==
    /\ w \in Walks /\ IsFiniteSet(w.matched)
    /\ place \in {"walking", "asking", "walked"} =>
           /\ w.pages = catalogPages /\ w.promoted = catalogPromoted
           /\ w.read <= WalkShare /\ w.pages + w.read <= WalkCap
           /\ place = "asking" => MayRead(w)

LEMMA StepInside ==
    ASSUME CatalogueInv, NEW s \in Sources, UNCHANGED Ledger,
           stage[s] \in Inside \/ Free,
           NEW place \in Stages, NEW w, Moves(s, place, w), Sound(place, w)
    PROVE  CatalogueInv'
<1>1. /\ stage' \in [Sources -> Stages] /\ stage'[s] = place
      /\ \A t \in Sources : t # s => stage'[t] = stage[t]
    BY DEF CatalogueInv, Accounts, Moves
<1>2. /\ walk' \in [Sources -> Walks] /\ walk'[s] = w
      /\ \A t \in Sources : t # s => walk'[t] = walk[t]
    BY DEF CatalogueInv, Accounts, Moves, Sound
<1>3. \A t \in Sources : t # s => stage'[t] \notin Inside
    BY <1>1, OneInside DEF CatalogueInv
<1>4. \A t \in Sources : IsFiniteSet(walk'[t].matched)
    BY <1>2 DEF CatalogueInv, Accounts, Sound
<1>5. Accounts' /\ ReceiptsChain' /\ CapsHold'
    BY <1>1, <1>2, <1>4, LedgerKept DEF Accounts
<1>6. LockHeld'
    BY <1>1, <1>3 DEF LockHeld, Moves
<1>7. WalkGoesOn'
    <2>1. catalogPages' = catalogPages /\ catalogPromoted' = catalogPromoted
        BY DEF Ledger
    <2> SUFFICES ASSUME NEW t \in Sources, stage'[t] \in {"walking", "asking", "walked"}
                 PROVE  /\ walk'[t].pages = catalogPages /\ walk'[t].promoted = catalogPromoted
                        /\ walk'[t].read <= WalkShare
                        /\ walk'[t].pages + walk'[t].read <= WalkCap
                        /\ stage'[t] = "asking" => MayRead(walk'[t])
        BY <2>1 DEF WalkGoesOn, WalkShare, WalkCap, MayRead
    <2>2. t = s
        BY <1>3 DEF Inside
    <2>. QED BY <2>2, <1>1, <1>2 DEF Sound
<1>. QED BY <1>5, <1>6, <1>7 DEF CatalogueInv

LEMMA CatalogueInitInv == CatalogueInit => CatalogueInv
<1> SUFFICES ASSUME CatalogueInit PROVE CatalogueInv
    OBVIOUS
<1>1. NoWalk \in Walks /\ IsFiniteSet(NoWalk.matched)
    BY FS_EmptySet DEF NoWalk, Walks
<1>2. /\ stage = [s \in Sources |-> "start"] /\ walk = [s \in Sources |-> NoWalk]
      /\ catalogPages = 0 /\ catalogPromoted = 0 /\ expanded = 0
      /\ catalogs = <<>> /\ expansions = <<>>
    BY DEF CatalogueInit
<1>3. Accounts
    <2>1. expansions \in Seq({}) /\ catalogs \in Seq(WalkReceipts)
        BY <1>2
    <2>2. stage \in [Sources -> Stages] /\ walk \in [Sources -> Walks]
          /\ \A s \in Sources : walk[s] = NoWalk
        BY <1>1, <1>2 DEF Stages
    <2>. QED BY <1>1, <1>2, <2>1, <2>2 DEF Accounts
<1>4. LockHeld /\ WalkGoesOn
    BY <1>2 DEF LockHeld, WalkGoesOn, Inside
<1>5. ReceiptsChain
    BY <1>2 DEF ReceiptsChain, ReadBy, PromotedBy, TakenBy
<1>6. CapsHold
    BY <1>2, CapFacts, CapsAreNat DEF CapsHold
<1>. QED BY <1>3, <1>4, <1>5, <1>6 DEF CatalogueInv

\* A walk begins where the counters stand.
LEMMA NewWalkSound ==
    ASSUME CatalogueInv, NEW origin \in Nat PROVE Sound("walking", NewWalk(origin))
<1> DEFINE w == NewWalk(origin)
<1>1. catalogPages \in Nat /\ catalogPromoted \in Nat /\ catalogPages <= WalkCap
    BY DEF CatalogueInv, Accounts, CapsHold
<1>2. NoWalk \in Walks
    BY DEF NoWalk, Walks
<1>3. w \in Walks
    BY <1>1, <1>2 DEF NewWalk, Walks
<1>4. /\ w.matched = {} /\ w.read = 0 /\ w.pages = catalogPages
      /\ w.promoted = catalogPromoted
    BY DEF NewWalk, NoWalk
<1> HIDE DEF w
<1>5. w.read <= WalkShare /\ w.pages + w.read <= WalkCap
    BY <1>1, <1>4, CapFacts
<1>6. IsFiniteSet(w.matched)
    BY <1>4, FS_EmptySet
<1>. QED BY <1>3, <1>4, <1>5, <1>6 DEF Sound, w

LEMMA EnterWalkInv == ASSUME CatalogueInv, NEW s \in Sources, EnterWalk(s) PROVE CatalogueInv'
<1>1. Free /\ Moves(s, "walking", NewWalk(1)) /\ UNCHANGED Ledger
    BY DEF EnterWalk, counters, records, Ledger, Moves
<1>2. Sound("walking", NewWalk(1))
    BY NewWalkSound
<1>. QED BY <1>1, <1>2, StepInside DEF Stages

LEMMA AskPageInv == ASSUME CatalogueInv, NEW s \in Sources, AskPage(s) PROVE CatalogueInv'
<1>1. stage[s] = "walking" /\ MayRead(walk[s]) /\ lock' = lock /\ UNCHANGED Ledger
    BY DEF AskPage, counters, records, Ledger
<1>2. lock = s /\ stage[s] \in Inside
    BY <1>1 DEF CatalogueInv, LockHeld, Inside
<1>3. /\ walk[s] \in Walks /\ IsFiniteSet(walk[s].matched)
      /\ walk[s].pages = catalogPages /\ walk[s].promoted = catalogPromoted
      /\ walk[s].read < WalkShare /\ walk[s].pages + walk[s].read < WalkCap
    BY <1>1, CapFacts DEF CatalogueInv, Accounts, WalkGoesOn, MayRead, Walks
<1>4. CASE walk' = walk /\ stage' = [stage EXCEPT ![s] = "asking"]
    <2>1. Moves(s, "asking", walk[s])
        BY <1>1, <1>2, <1>4 DEF CatalogueInv, Accounts, Moves
    <2>2. Sound("asking", walk[s])
        BY <1>1, <1>3, CapFacts DEF Walks, Sound
    <2>. QED BY <1>1, <1>2, <2>1, <2>2, StepInside DEF Stages
<1>5. CASE /\ walk' = [walk EXCEPT ![s].read = @ + 1]
           /\ stage' = [stage EXCEPT ![s] = "walked"]
    <2> DEFINE w == [walk[s] EXCEPT !.read = @ + 1]
    <2>1. Moves(s, "walked", w)
        BY <1>1, <1>2, <1>5 DEF Moves
    <2>2. /\ w \in Walks /\ w.matched = walk[s].matched /\ w.pages = walk[s].pages
          /\ w.promoted = walk[s].promoted /\ w.read = walk[s].read + 1
        BY <1>3 DEF Walks
    <2> HIDE DEF w
    <2>3. Sound("walked", w)
        BY <1>3, <2>2, CapFacts DEF Walks, Sound
    <2>. QED BY <1>1, <1>2, <2>1, <2>3, StepInside DEF Stages
<1>. QED BY <1>4, <1>5 DEF AskPage

\* The answer that has come is read: its matches are finitely many more.
LEMMA AccumulatedFacts ==
    ASSUME NEW s \in Sources, NEW w \in Walks, IsFiniteSet(w.matched),
           NEW answer \in FeedPages \cup {<<>>}
    PROVE  LET a == Accumulated(s, w, answer)
           IN  /\ a \in Walks /\ IsFiniteSet(a.matched)
               /\ a.pages = w.pages /\ a.promoted = w.promoted /\ a.read = w.read + 1
<1> DEFINE members == SelectSeq(answer, LAMBDA e : e.named)
           Match(i) == [url |-> members[i].url,
                        score |-> MatchScore(FeedText(answer[i], members[i]))]
           Hitting == {i \in DOMAIN answer :
                       /\ i <= Len(members)
                       /\ Match(i).url \in Admitted \ seen[s] /\ Match(i).score > 0
                       /\ \A m \in w.matched : m.url # Match(i).url}
           New == {i \in Hitting : \A j \in Hitting : j < i => Match(j).url # Match(i).url}
           more == {Match(i) : i \in New}
           match == [i \in New |-> Match(i)]
<1>1. Accumulated(s, w, answer) = [w EXCEPT !.read = @ + 1, !.seen = @ + Len(answer),
                                          !.matched = @ \cup more]
    BY DEF Accumulated
<1>2. Len(answer) \in Nat /\ DOMAIN answer = 1..Len(answer)
    BY FeedPagesAssumption
<1>0. IsFiniteSet(1..Len(answer))
    BY <1>2, FS_Interval
<1>3. New \subseteq DOMAIN answer
    OBVIOUS
<1>4. IsFiniteSet(New)
    <2> HIDE DEF New
    <2>. QED BY <1>0, <1>2, <1>3, FS_Subset
<1>5. more \subseteq Matches
    <2>1. ASSUME NEW i \in New PROVE Match(i) \in Matches
        <3>1. Match(i).url \in Admitted
            OBVIOUS
        <3>2. Match(i).url = members[i].url
              /\ Match(i).score = MatchScore(FeedText(answer[i], members[i]))
            OBVIOUS
        <3>3. members[i].url \in Nat /\ MatchScore(FeedText(answer[i], members[i])) \in Nat
            BY <3>1, <3>2, AdmittedAssumption, MatchScoreType
        <3> HIDE DEF members, New
        <3>. QED BY <3>3 DEF Matches
    <2> HIDE DEF New, Match
    <2>. QED BY <2>1
<1>6. IsFiniteSet(more)
    <2>1. match \in Surjection(New, more)
        <3> HIDE DEF New, Match
        <3>. QED BY DEF Surjection
    <2> HIDE DEF New, match, more
    <2>. QED BY <1>4, <2>1, FS_Surjection
<1> HIDE DEF more
<1>7. IsFiniteSet(w.matched \cup more)
    BY <1>6, FS_Union
<1>8. w.matched \cup more \in SUBSET Matches /\ w.seen + Len(answer) \in Nat
    BY <1>2, <1>5 DEF Walks
<1> DEFINE all == w.matched \cup more
           size == w.seen + Len(answer)
<1>9. Accumulated(s, w, answer) = [w EXCEPT !.read = @ + 1, !.seen = size, !.matched = all]
    BY <1>1
<1> HIDE DEF all, size
<1>10. size \in Nat /\ all \in SUBSET Matches /\ IsFiniteSet(all)
    BY <1>7, <1>8 DEF all, size
<1> DEFINE a == Accumulated(s, w, answer)
<1>11. a \in Walks
    <2> DEFINE b == [w EXCEPT !.read = @ + 1]
               c == [b EXCEPT !.seen = size]
    <2>1. b \in Walks
        BY DEF Walks
    <2> HIDE DEF b
    <2>2. c \in Walks
        BY <1>10, <2>1 DEF Walks
    <2> HIDE DEF c
    <2>3. [c EXCEPT !.matched = all] \in Walks
        BY <1>10, <2>2 DEF Walks
    <2>. QED BY <1>9, <2>3 DEF b, c
<1>12. /\ a.matched = all /\ a.pages = w.pages /\ a.promoted = w.promoted
       /\ a.read = w.read + 1
    BY <1>9 DEF Walks
<1>. QED BY <1>10, <1>11, <1>12

LEMMA FetchPageInv == ASSUME CatalogueInv, NEW s \in Sources, FetchPage(s) PROVE CatalogueInv'
<1>1. PICK answer \in FeedPages \cup {<<>>} :
          /\ walk' = [walk EXCEPT ![s] = Accumulated(s, walk[s], answer)]
          /\ stage' = [stage EXCEPT ![s] = IF answer = <<>> \/ Len(answer) < PageSize
                                           THEN "walked" ELSE "walking"]
    BY DEF FetchPage
<1>2. stage[s] = "asking" /\ lock' = lock /\ UNCHANGED Ledger
    BY DEF FetchPage, counters, records, Ledger
<1>3. lock = s /\ stage[s] \in Inside /\ MayRead(walk[s])
    BY <1>2 DEF CatalogueInv, LockHeld, WalkGoesOn, Inside
<1>4. /\ walk[s] \in Walks /\ IsFiniteSet(walk[s].matched)
      /\ walk[s].pages = catalogPages /\ walk[s].promoted = catalogPromoted
    BY <1>2 DEF CatalogueInv, Accounts, WalkGoesOn
<1> DEFINE w == Accumulated(s, walk[s], answer)
<1>5. /\ w \in Walks /\ IsFiniteSet(w.matched)
      /\ w.pages = walk[s].pages /\ w.promoted = walk[s].promoted
      /\ w.read = walk[s].read + 1
    BY <1>4, AccumulatedFacts
<1>6. w.read <= WalkShare /\ w.pages + w.read <= WalkCap
    <2> HIDE DEF w
    <2>. QED BY <1>3, <1>4, <1>5, CapFacts DEF MayRead, Walks
<1> DEFINE place == IF answer = <<>> \/ Len(answer) < PageSize THEN "walked" ELSE "walking"
<1>7. place \in {"walked", "walking"}
    OBVIOUS
<1>8. Moves(s, place, w)
    BY <1>1, <1>2, <1>3 DEF Moves
<1> HIDE DEF w, place
<1>9. Sound(place, w)
    BY <1>4, <1>5, <1>6, <1>7 DEF Sound
<1>. QED BY <1>2, <1>3, <1>7, <1>8, <1>9, StepInside DEF Stages

LEMMA UnwindInv == ASSUME CatalogueInv, NEW s \in Sources, Unwind(s) PROVE CatalogueInv'
<1>1. stage[s] = "asking" /\ walk' = walk /\ UNCHANGED Ledger
    BY DEF Unwind, counters, records, Ledger
<1>2. stage[s] \in Inside /\ Moves(s, "over", walk[s])
    BY <1>1 DEF Unwind, Moves, Inside, CatalogueInv, Accounts
<1>3. Sound("over", walk[s])
    BY DEF Sound, CatalogueInv, Accounts
<1>. QED BY <1>1, <1>2, <1>3, StepInside DEF Stages

\* The receipt is written and the counters with it: the account goes on by one.
LEMMA CloseWalkInv == ASSUME CatalogueInv, NEW s \in Sources, CloseWalk(s) PROVE CatalogueInv'
<1> DEFINE w == walk[s]
           promoted == {m.url : m \in Promoted(w)}
           receipt == [source |-> s, read |-> w.read, promoted |-> promoted,
                       pages |-> w.pages, before |-> w.promoted]
<1>1. /\ stage[s] \in {"walked", "walking"}
      /\ catalogPages' = w.pages + w.read
      /\ catalogPromoted' = w.promoted + Cardinality(promoted)
      /\ catalogs' = Append(catalogs, receipt)
      /\ stage' = [stage EXCEPT ![s] = "recording"]
      /\ lock' = lock /\ expanded' = expanded /\ expansions' = expansions
    BY DEF CloseWalk
<1>2. PICK barred \in BOOLEAN :
          walk' = [walk EXCEPT ![s].matched = Promoted(w), ![s].barred = barred]
    BY DEF CloseWalk
<1>3. /\ w \in Walks /\ IsFiniteSet(w.matched)
      /\ w.pages = catalogPages /\ w.promoted = catalogPromoted
      /\ w.read <= WalkShare /\ w.pages + w.read <= WalkCap
      /\ catalogPromoted <= PromoteCap
    BY <1>1 DEF CatalogueInv, Accounts, WalkGoesOn, CapsHold
<1>4. /\ Promoted(w) \subseteq w.matched /\ IsFiniteSet(Promoted(w))
      /\ Cardinality(promoted) \in 0..PromoteShare
      /\ w.promoted + Cardinality(promoted) <= PromoteCap
    <2>1. w.matched \subseteq Matches /\ w.promoted \in Nat /\ w.promoted <= PromoteCap
        BY <1>3 DEF Walks
    <2> HIDE DEF w
    <2>. QED BY <1>3, <2>1, PromotedWithinCaps
<1>5. promoted \in SUBSET Nat /\ Cardinality(promoted) \in Nat
    <2>1. \A m \in Promoted(w) : m.url \in Nat
        BY <1>3, <1>4 DEF Walks, Matches
    <2>. QED BY <1>4, <2>1, CapsAreNat
<1>6. receipt \in WalkReceipts
    BY <1>3, <1>5 DEF WalkReceipts, Walks
<1> HIDE DEF promoted
<1>7. /\ catalogs' \in Seq(WalkReceipts) /\ Len(catalogs') = Len(catalogs) + 1
      /\ catalogs'[Len(catalogs')] = receipt
      /\ \A i \in DOMAIN catalogs : catalogs'[i] = catalogs[i]
      /\ DOMAIN catalogs' = DOMAIN catalogs \cup {Len(catalogs')}
      /\ Len(catalogs) \in Nat /\ DOMAIN catalogs = 1..Len(catalogs)
    BY <1>1, <1>6 DEF CatalogueInv, Accounts
<1>8. \A t \in Sources : t # s => stage'[t] \notin Inside
    <2>1. stage[s] \in Inside
        BY <1>1 DEF Inside
    <2>. QED BY <1>1, <2>1, OneInside DEF CatalogueInv, Accounts
<1>9. LockHeld' /\ WalkGoesOn'
    <2>1. lock = s /\ stage'[s] = "recording"
        BY <1>1 DEF CatalogueInv, LockHeld, Inside, Accounts
    <2>. QED BY <1>1, <1>8, <2>1 DEF LockHeld, WalkGoesOn, Inside
<1>10. Accounts'
    <2>1. stage' \in [Sources -> Stages]
        BY <1>1 DEF CatalogueInv, Accounts, Stages
    <2>2. /\ walk' \in [Sources -> Walks]
          /\ \A t \in Sources : IsFiniteSet(walk'[t].matched)
        <3> DEFINE v == [w EXCEPT !.matched = Promoted(w), !.barred = barred]
        <3>1. walk' = [walk EXCEPT ![s] = v]
            BY <1>2
        <3>2. v \in Walks /\ v.matched = Promoted(w)
            BY <1>3, <1>4 DEF Walks
        <3> HIDE DEF v
        <3>. QED BY <1>4, <3>1, <3>2 DEF CatalogueInv, Accounts
    <2>3. catalogPages' \in Nat /\ catalogPromoted' \in Nat
        BY <1>1, <1>3, <1>5 DEF Walks
    <2>. QED BY <1>1, <1>7, <2>1, <2>2, <2>3 DEF CatalogueInv, Accounts
<1>11. ReceiptsChain'
    <2>1. /\ \A n \in 0..Len(catalogs) : /\ ReadBy(n)' = ReadBy(n)
                                        /\ PromotedBy(n)' = PromotedBy(n)
          /\ \A n : TakenBy(n)' = TakenBy(n)
        BY <1>1, <1>7 DEF ReadBy, PromotedBy, TakenBy
    <2>0. PICK n \in Nat : n = Len(catalogs)
        BY <1>7
    <2>2. ReadBy(n)' = w.pages /\ PromotedBy(n)' = w.promoted
        BY <1>3, <1>7, <2>0, <2>1 DEF CatalogueInv, ReceiptsChain
    <2>3. ASSUME NEW i \in DOMAIN catalogs'
          PROVE  catalogs'[i].pages = ReadBy(i - 1)' /\ catalogs'[i].before = PromotedBy(i - 1)'
        <3>1. CASE i \in DOMAIN catalogs
            BY <1>7, <2>1, <3>1 DEF CatalogueInv, ReceiptsChain
        <3>2. CASE i = Len(catalogs')
            BY <1>7, <2>0, <2>2, <3>2
        <3>. QED BY <1>7, <3>1, <3>2
    <2>4. /\ catalogPages' = ReadBy(Len(catalogs))'
          /\ catalogPromoted' = PromotedBy(Len(catalogs))'
        BY <1>1, <1>7 DEF ReadBy, PromotedBy
    <2>5. /\ \A i \in DOMAIN expansions' : expansions'[i].before = TakenBy(i - 1)'
          /\ expanded' = TakenBy(Len(expansions))'
        BY <1>1, <2>1 DEF CatalogueInv, ReceiptsChain
    <2>. QED BY <2>3, <2>4, <2>5 DEF ReceiptsChain
<1>12. CapsHold'
    <2>1. \A i \in DOMAIN catalogs' : /\ catalogs'[i].read <= WalkShare
                                     /\ Cardinality(catalogs'[i].promoted) <= PromoteShare
        <3>1. receipt.read = w.read /\ receipt.promoted = promoted
            OBVIOUS
        <3>2. Cardinality(promoted) <= PromoteShare
            BY <1>4, CapsAreNat
        <3> HIDE DEF receipt, w
        <3>. QED BY <1>3, <1>7, <3>1, <3>2 DEF CatalogueInv, CapsHold
    <2>2. /\ catalogPages' <= WalkCap /\ catalogPromoted' <= PromoteCap
          /\ expanded' <= ExpandCap
        BY <1>1, <1>3, <1>4 DEF CatalogueInv, CapsHold
    <2>. QED BY <1>1, <2>1, <2>2 DEF CatalogueInv, CapsHold, WalkCap, WalkShare
<1>. QED BY <1>9, <1>10, <1>11, <1>12 DEF CatalogueInv

LEMMA RecordWalkInv == ASSUME CatalogueInv, NEW s \in Sources, RecordWalk(s) PROVE CatalogueInv'
<1>1. stage[s] = "recording" /\ UNCHANGED Ledger
    BY DEF RecordWalk, counters, records, Ledger
<1>2. stage[s] \in Inside /\ lock = s
    BY <1>1 DEF Inside, CatalogueInv, LockHeld
<1>3. CASE /\ walk' = [walk EXCEPT ![s] = NewWalk(walk[s].origin + 1)]
           /\ stage' = [stage EXCEPT ![s] = "walking"] /\ lock' = lock
    <2>1. walk[s].origin + 1 \in Nat
        BY DEF CatalogueInv, Accounts, Walks
    <2>2. Sound("walking", NewWalk(walk[s].origin + 1))
        BY <2>1, NewWalkSound
    <2>3. Moves(s, "walking", NewWalk(walk[s].origin + 1))
        BY <1>2, <1>3 DEF Moves
    <2>. QED BY <1>1, <1>2, <2>2, <2>3, StepInside DEF Stages
<1>4. CASE walk' = [walk EXCEPT ![s] = NoWalk] /\ stage' = [stage EXCEPT ![s] = "working"]
    <2>1. Moves(s, "working", NoWalk) /\ Sound("working", NoWalk)
        BY <1>4, FS_EmptySet DEF Moves, Sound, Inside, Walks, NoWalk
    <2>. QED BY <1>1, <1>2, <2>1, StepInside DEF Stages
<1>. QED BY <1>3, <1>4 DEF RecordWalk

LEMMA ExpandInv == ASSUME CatalogueInv, NEW s \in Sources, Expand(s) PROVE CatalogueInv'
<1> DEFINE taken == Taken(s, item[s].url, item[s].body)
           receipt == [source |-> s, index |-> item[s].url, taken |-> taken,
                       before |-> expanded]
<1>1. /\ stage[s] = "expanding" /\ Free /\ lock' = s
      /\ expanded' = expanded + Cardinality(taken)
      /\ expansions' = Append(expansions, receipt)
      /\ stage' = [stage EXCEPT ![s] = "expanded"]
      /\ walk' = walk /\ catalogPages' = catalogPages /\ catalogPromoted' = catalogPromoted
      /\ catalogs' = catalogs
    BY DEF Expand, thread
<1>2. expanded \in Nat /\ expanded <= ExpandCap
    BY DEF CatalogueInv, Accounts, CapsHold
<1>3. Cardinality(taken) \in 0..IndexCap /\ expanded + Cardinality(taken) <= ExpandCap
    BY <1>2, TakenWithinCaps
<1>4. Cardinality(taken) \in Nat
    BY <1>3, CapsAreNat
<1> HIDE DEF taken
<1>5. PICK Receipts : expansions \in Seq(Receipts)
    BY DEF CatalogueInv, Accounts
<1>6. expansions \in Seq(Receipts \cup {receipt})
    <2> HIDE DEF receipt
    <2>. QED BY <1>5
<1>7. /\ expansions' \in Seq(Receipts \cup {receipt})
      /\ Len(expansions') = Len(expansions) + 1
      /\ expansions'[Len(expansions')] = receipt
      /\ \A i \in DOMAIN expansions : expansions'[i] = expansions[i]
      /\ DOMAIN expansions' = DOMAIN expansions \cup {Len(expansions')}
      /\ Len(expansions) \in Nat /\ DOMAIN expansions = 1..Len(expansions)
    <2> HIDE DEF receipt
    <2>. QED BY <1>1, <1>6
<1>8. \A t \in Sources : t # s => stage'[t] \notin Inside
    BY <1>1, OneInside DEF CatalogueInv, Accounts
<1>9. LockHeld' /\ WalkGoesOn'
    <2>1. stage'[s] = "expanded"
        BY <1>1 DEF CatalogueInv, Accounts
    <2>. QED BY <1>1, <1>8, <2>1 DEF LockHeld, WalkGoesOn, Inside
<1>10. Accounts'
    <2>1. stage' \in [Sources -> Stages]
        BY <1>1 DEF CatalogueInv, Accounts, Stages
    <2>2. expanded' \in Nat
        BY <1>1, <1>2, <1>4
    <2> HIDE DEF receipt
    <2>. QED BY <1>1, <1>7, <2>1, <2>2 DEF CatalogueInv, Accounts
<1>11. ReceiptsChain'
    <2>1. /\ \A n \in 0..Len(expansions) : TakenBy(n)' = TakenBy(n)
          /\ \A n : ReadBy(n)' = ReadBy(n) /\ PromotedBy(n)' = PromotedBy(n)
        <3> HIDE DEF receipt
        <3>. QED BY <1>1, <1>7 DEF ReadBy, PromotedBy, TakenBy
    <2>2. ASSUME NEW i \in DOMAIN expansions'
          PROVE  expansions'[i].before = TakenBy(i - 1)'
        <3>1. CASE i \in DOMAIN expansions
            BY <1>7, <2>1, <3>1 DEF CatalogueInv, ReceiptsChain
        <3>2. CASE i = Len(expansions')
            BY <1>7, <2>1, <3>2 DEF CatalogueInv, ReceiptsChain
        <3>. QED BY <1>7, <3>1, <3>2
    <2>3. expanded' = TakenBy(Len(expansions))'
        BY <1>1, <1>7 DEF TakenBy
    <2>. QED BY <1>1, <2>1, <2>2, <2>3 DEF CatalogueInv, ReceiptsChain
<1>12. CapsHold'
    <2>1. \A i \in DOMAIN expansions' : Cardinality(expansions'[i].taken) <= IndexCap
        BY <1>3, <1>7 DEF CatalogueInv, CapsHold
    <2>. QED BY <1>1, <1>3, <2>1 DEF CatalogueInv, CapsHold, WalkCap, WalkShare
<1>. QED BY <1>9, <1>10, <1>11, <1>12 DEF CatalogueInv

LEMMA EnqueueMembersInv ==
    ASSUME CatalogueInv, NEW s \in Sources, EnqueueMembers(s) PROVE CatalogueInv'
<1>1. /\ stage[s] \in Inside /\ UNCHANGED Ledger
      /\ walk' = walk /\ stage' = [stage EXCEPT ![s] = "working"]
    BY DEF EnqueueMembers, counters, Ledger, Inside
<1>2. Moves(s, "working", walk[s]) /\ Sound("working", walk[s])
    BY <1>1 DEF Moves, Sound, Inside, CatalogueInv, Accounts
<1>. QED BY <1>1, <1>2, StepInside DEF Stages

\* What a source does before its walk, at its frontier and at its end.
LEMMA OutsideInv ==
    ASSUME CatalogueInv, NEW s \in Sources,
           \/ ReadRobots(s) \/ RecordRobots(s) \/ TurnedAway(s) \/ Discover(s)
           \/ Pop(s) \/ Handle(s) \/ Finish(s) \/ UNCHANGED catalogueVars
    PROVE  CatalogueInv'
<1>1. CASE ReadRobots(s)
    BY <1>1, StepOutside DEF ReadRobots, counters, records, Ledger, Stages, Inside
<1>2. CASE RecordRobots(s)
    BY <1>2, StepOutside DEF RecordRobots, counters, records, Ledger, Stages, Inside
<1>3. CASE TurnedAway(s)
    BY <1>3, StepOutside DEF TurnedAway, counters, records, Ledger, Stages, Inside
<1>4. CASE Discover(s)
    <2>1. /\ UNCHANGED <<Ledger, walk, lock>>
          /\ \/ stage' = [stage EXCEPT ![s] = "discovered"]
             \/ stage' = [stage EXCEPT ![s] = "working"]
        BY <1>4 DEF Discover, counters, records, Ledger
    <2>. QED BY <2>1, StepOutside DEF Stages, Inside
<1>5. CASE Pop(s)
    BY <1>5, StepOutside DEF Pop, counters, records, Ledger, Stages, Inside
<1>6. CASE Handle(s)
    <2>1. UNCHANGED <<Ledger, walk, lock>>
        BY <1>6 DEF Handle, counters, records, Ledger
    <2>2. \/ stage' = stage
          \/ stage' = [stage EXCEPT ![s] = "expanding"]
          \/ stage' = [stage EXCEPT ![s] = "finishing"]
        BY <1>6 DEF Handle, NotAdmitted, Materialize, FetchItem, OutOfPages
    <2>. QED BY <2>1, <2>2, StepOutside DEF Stages, Inside
<1>7. CASE Finish(s)
    BY <1>7, StepOutside DEF Finish, counters, records, Ledger, Stages, Inside
<1>8. CASE UNCHANGED catalogueVars
    BY <1>8, StepOutside DEF catalogueVars, thread, counters, records, Ledger, Stages, Inside
<1>. QED BY <1>1, <1>2, <1>3, <1>4, <1>5, <1>6, <1>7, <1>8

THEOREM CatalogueInvariance == CatalogueSpec => []CatalogueInv
<1>1. ASSUME CatalogueInv, [CatalogueNext]_catalogueVars
      PROVE  CatalogueInv'
    <2>1. ASSUME NEW s \in Sources, Step(s)
          PROVE  CatalogueInv'
        BY <1>1, <2>1, OutsideInv, EnterWalkInv, AskPageInv, FetchPageInv, UnwindInv,
           CloseWalkInv, RecordWalkInv, ExpandInv, EnqueueMembersInv
           DEF Step
    <2>2. CASE UNCHANGED catalogueVars
        <3>1. CASE Sources = {}
            BY <1>1, <2>2, <3>1, LedgerKept
               DEF catalogueVars, thread, counters, records, Ledger, CatalogueInv, Accounts,
                   LockHeld, WalkGoesOn
        <3>2. CASE Sources # {}
            BY <1>1, <2>2, <3>2, OutsideInv
        <3>. QED BY <3>1, <3>2
    <2>. QED BY <1>1, <2>1, <2>2 DEF CatalogueNext, Joined
<1>. QED BY <1>1, CatalogueInitInv, PTL DEF CatalogueSpec

\* Whatever a walk, an exception or another thread does between, the receipts of
\* any number of sources form one account with the engine's counters
\* (_run_catalog_fallback, _expand_into_frontier, under _state_lock).
THEOREM OneAccount == CatalogueSpec => []ReceiptsChain
<1>1. CatalogueInv => ReceiptsChain
    BY DEF CatalogueInv
<1>. QED BY <1>1, CatalogueInvariance, PTL

\* For any caps, any feeds and any number of sources, a campaign reads, promotes
\* and takes no more than its caps, and a walk or an index no more than its share
\* (CatalogCaps, IndexCaps).
THEOREM CapsAreKept == CatalogueSpec => []CapsHold
<1>1. CatalogueInv => CapsHold
    BY DEF CatalogueInv
<1>. QED BY <1>1, CatalogueInvariance, PTL

-----------------------------------------------------------------------------
(* What a handler of the scripted runner has still to write, and what is there. *)

UrlsOf(d) == {d.candidates[i].url : i \in DOMAIN d.candidates}

\* Row x of table k is one that a write is for; a row that is there.
Claims(w, k, x) ==
    \/ k = "listing" /\ \/ w.op = "candidate" /\ w.row.url = x
                        \/ w.op = "surface" /\ w.hit.url = x
    \/ k = "decision" /\ w.op \in {"decision", "replay"} /\ w.id = x
    \/ k = "result" /\ w.op \in {"result", "replay"} /\ w.id = x

Has(d, k, x) ==
    \/ k = "listing" /\ x \in UrlsOf(d)
    \/ k = "decision" /\ x \in ToSet(d.decisions)
    \/ k = "result" /\ x \in ToSet(d.results)

\* A script writes no row that is there, none twice, and only of candidates that are.
Fits(s, d) ==
    /\ \A i \in DOMAIN s : \A k, x : Claims(s[i], k, x) => ~ Has(d, k, x)
    /\ \A i, j \in DOMAIN s : \A k, x : Claims(s[i], k, x) /\ Claims(s[j], k, x) => i = j
    /\ \A i \in DOMAIN s : s[i].op \in {"decision", "result", "replay", "check", "keep"} =>
                               s[i].id \in DOMAIN d.candidates

OneEach(d) ==
    /\ \A i, j \in DOMAIN d.candidates : d.candidates[i].url = d.candidates[j].url => i = j
    /\ NoneTwice(d.decisions) /\ ToSet(d.decisions) \subseteq DOMAIN d.candidates
    /\ NoneTwice(d.results) /\ ToSet(d.results) \subseteq DOMAIN d.candidates

\* The mark comes last.  The index is consulted in the third step, first of all, when
\* nothing else that has claims is to be written.
Placed(s, m) ==
    /\ \A i \in DOMAIN s : s[i].op = "mark" <=> i = Len(s)
    /\ \A i \in DOMAIN s : s[i].op \in {"search", "recall"} =>
           /\ i = 1 /\ m = 2
           /\ \A j \in DOMAIN s : j > 1 => s[j].op \in {"put", "mark"}
    /\ \A i \in DOMAIN s : s[i].op = "recall" =>
           \A g, h \in s[i].hits : g.url = h.url => g = h

\* A listing that is still to be taken over.
Awaits(w, u) == \/ w.op = "surface" /\ w.hit.url = u
                \/ w.op = "recall" /\ \E h \in w.hits : h.url = u

\* What the index has offered is there, once the step is marked; while it is under
\* way, it is there or still to be taken over.
TakenOver(s, d, m, o) ==
    /\ m >= 3 => o \subseteq UrlsOf(d)
    /\ m = 2 /\ s # <<>> /\ s[1].op # "search" =>
           \A u \in o : u \in UrlsOf(d) \/ \E i \in DOMAIN s : Awaits(s[i], u)

Course(st, m, s) ==
    /\ s # <<>> => m <= 12 /\ st = Steps[m + 1]
    /\ m = 13 => st = "COMPLETE"
    /\ st = "COMPLETE" => m >= 12

CampaignSound(st, m, d, s, o) ==
    Fits(s, d) /\ OneEach(d) /\ Placed(s, m) /\ TakenOver(s, d, m, o) /\ Course(st, m, s)

\* A row is no younger than the last live stage that had its listing.
Dated(r, L) == r.checked <= L[r.url]
DatedTable(d, L) == \A i \in DOMAIN d.candidates : Dated(d.candidates[i], L)
DatedIndex(y, L) == \A u \in Listings : y[u] # Nothing => Dated(y[u], L)
DatedScript(s, L) ==
    \A i \in DOMAIN s : /\ s[i].op = "candidate" => Dated(s[i].row, L)
                        /\ s[i].op = "surface" => Dated(s[i].hit, L)
                        /\ s[i].op = "recall" => \A h \in s[i].hits : Dated(h, L)

RowsDated ==
    /\ DatedIndex(index.listings, lastCheck)
    /\ \A c \in Campaigns : DatedScript(script[c], lastCheck) /\ DatedTable(db[c], lastCheck)

IndexSound == \A u \in Listings : index.listings[u] # Nothing => index.listings[u].url = u
OffersKnown == \A c \in Campaigns : offered[c] \subseteq Known

WarmInv ==
    /\ WarmTypes /\ IndexSound /\ OffersKnown /\ RowsDated
    /\ \A c \in Campaigns : CampaignSound(state[c], marked[c], db[c], script[c], offered[c])

LEMMA WarmConstants ==
    /\ Pack \in Seq(Listings) /\ QueryTexts \in Seq(ToSet(QueryTexts))
    /\ Ttl \in Nat /\ MaxTime \in Nat /\ MaxCrashes \in Nat
    /\ Never \in Int /\ Never <= -1 /\ Never \in Never..MaxTime
BY IndexConstants DEF Never, Listings

\* A write of each kind.
LEMMA WritesAre ==
    /\ \A f \in Facts : Put(f) \in Writes /\ Need(f) \in Writes
    /\ \A r \in Rows : [op |-> "candidate", row |-> r] \in Writes
                       /\ [op |-> "surface", hit |-> r] \in Writes
    /\ \A i \in Nat : /\ Decision(i) \in Writes /\ Result(i) \in Writes
                      /\ [op |-> "keep", id |-> i] \in Writes
                      /\ \A t \in 0..MaxTime : [op |-> "check", id |-> i, at |-> t] \in Writes
                      /\ \A u \in Listings : [op |-> "replay", id |-> i, url |-> u] \in Writes
                      /\ \A kind \in {"broad", "fine", "authenticity", "utility"},
                            level \in Levels :
                             Score(i, kind, level) \in Writes
    /\ [op |-> "search"] \in Writes /\ [op |-> "remember"] \in Writes /\ [op |-> "mark"] \in Writes
    /\ \A H \in SUBSET Rows : [op |-> "recall", hits |-> H] \in Writes
    /\ \A u \in Listings, m \in Measures : [op |-> "evidence", url |-> u, levels |-> m] \in Writes
    /\ \A t \in ToSet(QueryTexts) : [op |-> "query", text |-> t] \in Writes
BY DEF Writes, Put, Need, Decision, Result, Score, ScoreRows

\* What a write of each kind has.
LEMMA WriteHas ==
    ASSUME NEW w \in Writes
    PROVE  /\ w.op \in {"put", "need"} => w.fact \in Facts
           /\ w.op = "candidate" => w.row \in Rows
           /\ w.op = "score" => w.score \in ScoreRows
           /\ w.op \in {"decision", "result", "keep", "check", "replay"} => w.id \in Nat
           /\ w.op = "check" => w.at \in 0..MaxTime
           /\ w.op = "recall" => w.hits \in SUBSET Rows
           /\ w.op = "surface" => w.hit \in Rows
           /\ w.op \in {"replay", "evidence"} => w.url \in Listings
           /\ w.op = "evidence" => w.levels \in Measures
           /\ w.op = "query" => w.text \in ToSet(QueryTexts)
BY DEF Writes

\* The script after its first write has been replaced by others.
LEMMA Follows ==
    ASSUME NEW s \in Seq(Writes), s # <<>>, NEW w \in Seq(Writes)
    PROVE  LET t == w \o Tail(s) IN
           /\ t \in Seq(Writes) /\ Len(s) \in Nat \ {0} /\ Len(w) \in Nat
           /\ Len(t) = Len(w) + Len(s) - 1
           /\ DOMAIN t = 1..(Len(w) + Len(s) - 1) /\ DOMAIN s = 1..Len(s) /\ DOMAIN w = 1..Len(w)
           /\ \A i \in 1..Len(w) : t[i] = w[i]
           /\ \A i \in DOMAIN t : i > Len(w) => /\ t[i] = s[i - Len(w) + 1]
                                               /\ i - Len(w) + 1 \in DOMAIN s
<1> DEFINE t == w \o Tail(s)
<1>1. Len(s) \in Nat \ {0} /\ Len(w) \in Nat /\ DOMAIN s = 1..Len(s) /\ DOMAIN w = 1..Len(w)
    OBVIOUS
<1>2. Tail(s) \in Seq(Writes) /\ Len(Tail(s)) = Len(s) - 1
    OBVIOUS
<1>3. \A i \in 1..(Len(s) - 1) : Tail(s)[i] = s[i + 1]
    OBVIOUS
<1>4. t \in Seq(Writes) /\ Len(t) = Len(w) + Len(s) - 1
    BY <1>1, <1>2
<1>5. DOMAIN t = 1..(Len(w) + Len(s) - 1)
    BY <1>4
<1>6. \A i \in 1..Len(w) : t[i] = w[i]
    BY <1>1, <1>2
<1>7. ASSUME NEW i \in DOMAIN t, i > Len(w)
      PROVE  t[i] = s[i - Len(w) + 1] /\ i - Len(w) + 1 \in DOMAIN s
    <2>1. t[i] = Tail(s)[i - Len(w)]
        BY <1>1, <1>2, <1>5, <1>7
    <2>2. i - Len(w) \in 1..(Len(s) - 1)
        BY <1>1, <1>5, <1>7
    <2>. QED BY <2>1, <2>2, <1>1, <1>3
<1>. QED BY <1>1, <1>4, <1>5, <1>6, <1>7

LEMMA NoWrites == ASSUME NEW s \in Seq(Writes), s # <<>>
                  PROVE  <<>> \in Seq(Writes) /\ Tail(s) = <<>> \o Tail(s) /\ Len(<<>>) = 0
OBVIOUS

LEMMA Concatenated ==
    ASSUME NEW f \in Seq(Writes), NEW g \in Seq(Writes), NEW w, w = f \o g
    PROVE  /\ w \in Seq(Writes) /\ Len(f) \in Nat /\ Len(g) \in Nat
           /\ Len(w) = Len(f) + Len(g) /\ DOMAIN w = 1..(Len(f) + Len(g))
           /\ DOMAIN f = 1..Len(f) /\ DOMAIN g = 1..Len(g)
           /\ \A i \in DOMAIN f : w[i] = f[i]
           /\ \A i \in DOMAIN w : i \notin DOMAIN f =>
                  w[i] = g[i - Len(f)] /\ i - Len(f) \in DOMAIN g
OBVIOUS

\* Writes that may take the place of the head of a script, when the tables have become e.
Unclaimed(s, w, e) ==
    /\ \A i \in DOMAIN w : \A k, x : Claims(w[i], k, x) =>
           ~ Has(e, k, x) /\ \A j \in DOMAIN s : j > 1 => ~ Claims(s[j], k, x)
    /\ \A i, j \in DOMAIN w : \A k, x : Claims(w[i], k, x) /\ Claims(w[j], k, x) => i = j
    /\ \A i \in DOMAIN w : w[i].op \in {"decision", "result", "replay", "check", "keep"} =>
                               w[i].id \in DOMAIN e.candidates

\* The tables have grown by what the head of the script claims.
Grown(s, d, e) ==
    /\ \A k, x : Has(e, k, x) => Has(d, k, x) \/ Claims(s[1], k, x)
    /\ DOMAIN d.candidates \subseteq DOMAIN e.candidates

LEMMA FitsOn ==
    ASSUME NEW s \in Seq(Writes), s # <<>>, NEW w \in Seq(Writes), NEW d, NEW e,
           Fits(s, d), Unclaimed(s, w, e), Grown(s, d, e)
    PROVE  Fits(w \o Tail(s), e)
<1> DEFINE t == w \o Tail(s)
           n == Len(w)
<1>1. /\ t \in Seq(Writes) /\ Len(s) \in Nat \ {0} /\ n \in Nat
      /\ DOMAIN t = 1..(n + Len(s) - 1) /\ DOMAIN s = 1..Len(s) /\ DOMAIN w = 1..n
      /\ \A i \in 1..n : t[i] = w[i]
      /\ \A i \in DOMAIN t : i > n => t[i] = s[i - n + 1] /\ i - n + 1 \in DOMAIN s
    BY Follows
<1> HIDE DEF t, n
<1>2. \A i \in DOMAIN t : \/ i \in DOMAIN w /\ t[i] = w[i]
                          \/ /\ i - n + 1 \in DOMAIN s /\ i - n + 1 > 1
                             /\ t[i] = s[i - n + 1]
    BY <1>1
<1>3. ASSUME NEW i \in DOMAIN t, NEW k, NEW x, Claims(t[i], k, x) PROVE ~ Has(e, k, x)
    <2>1. CASE i \in DOMAIN w /\ t[i] = w[i]
        BY <2>1, <1>3 DEF Unclaimed
    <2>2. CASE i - n + 1 \in DOMAIN s /\ i - n + 1 > 1 /\ t[i] = s[i - n + 1]
        <3>1. ~ Has(d, k, x)
            BY <2>2, <1>3 DEF Fits
        <3>2. ~ Claims(s[1], k, x)
            <4>1. 1 \in DOMAIN s /\ i - n + 1 # 1
                BY <1>1, <2>2
            <4>. QED BY <4>1, <2>2, <1>3 DEF Fits
        <3>. QED BY <3>1, <3>2 DEF Grown
    <2>. QED BY <2>1, <2>2, <1>2
<1>4. ASSUME NEW i \in DOMAIN t, NEW j \in DOMAIN t, NEW k, NEW x,
             Claims(t[i], k, x), Claims(t[j], k, x)
      PROVE  i = j
    <2>1. CASE t[i] = w[i] /\ i \in DOMAIN w /\ t[j] = w[j] /\ j \in DOMAIN w
        BY <2>1, <1>4 DEF Unclaimed
    <2>2. ASSUME NEW a \in DOMAIN t, NEW b \in DOMAIN t, Claims(t[a], k, x), Claims(t[b], k, x),
                 t[a] = w[a], a \in DOMAIN w,
                 b - n + 1 \in DOMAIN s /\ b - n + 1 > 1 /\ t[b] = s[b - n + 1]
          PROVE  FALSE
        BY <2>2 DEF Unclaimed
    <2>3. CASE /\ i - n + 1 \in DOMAIN s /\ t[i] = s[i - n + 1]
               /\ j - n + 1 \in DOMAIN s /\ t[j] = s[j - n + 1]
        <3>1. i - n + 1 = j - n + 1
            BY <2>3, <1>4 DEF Fits
        <3>. QED BY <3>1, <1>1
    <2>. QED BY <2>1, <2>2, <2>3, <1>2, <1>4
<1>5. ASSUME NEW i \in DOMAIN t, t[i].op \in {"decision", "result", "replay", "check", "keep"}
      PROVE  t[i].id \in DOMAIN e.candidates
    <2>1. CASE i \in DOMAIN w /\ t[i] = w[i]
        BY <2>1, <1>5 DEF Unclaimed
    <2>2. CASE i - n + 1 \in DOMAIN s /\ t[i] = s[i - n + 1]
        BY <2>2, <1>5 DEF Fits, Grown
    <2>. QED BY <2>1, <2>2, <1>2
<1>. QED BY <1>3, <1>4, <1>5 DEF Fits, t

\* Writes that are neither a mark nor a look into the index.
Plain(w) == \A i \in DOMAIN w : w[i].op \notin {"mark", "search", "recall"}

LEMMA PlacedOn ==
    ASSUME NEW s \in Seq(Writes), s # <<>>, NEW w \in Seq(Writes), NEW m,
           Placed(s, m), Plain(w), s[1].op # "mark"
    PROVE  Placed(w \o Tail(s), m)
<1> DEFINE t == w \o Tail(s)
           n == Len(w)
<1>1. /\ t \in Seq(Writes) /\ Len(s) \in Nat \ {0} /\ n \in Nat
      /\ Len(t) = n + Len(s) - 1
      /\ DOMAIN t = 1..(n + Len(s) - 1) /\ DOMAIN s = 1..Len(s) /\ DOMAIN w = 1..n
      /\ \A i \in 1..n : t[i] = w[i]
      /\ \A i \in DOMAIN t : i > n => t[i] = s[i - n + 1] /\ i - n + 1 \in DOMAIN s
    BY Follows
<1> HIDE DEF t, n
<1>2. 1 \in DOMAIN s /\ Len(s) > 1
    BY <1>1 DEF Placed
<1>3. ASSUME NEW i \in DOMAIN t
      PROVE  /\ t[i].op = "mark" <=> i = Len(t)
             /\ t[i].op \notin {"search", "recall"}
    <2>1. CASE i \in DOMAIN w
        BY <2>1, <1>1, <1>2 DEF Plain
    <2>2. CASE i > n
        <3>1. t[i] = s[i - n + 1] /\ i - n + 1 \in DOMAIN s /\ i - n + 1 > 1
            BY <2>2, <1>1
        <3>2. (t[i].op = "mark") <=> (i - n + 1 = Len(s))
            BY <3>1 DEF Placed
        <3>3. t[i].op \notin {"search", "recall"}
            BY <3>1 DEF Placed
        <3>. QED BY <3>2, <3>3, <1>1
    <2>. QED BY <2>1, <2>2, <1>1
<1>. QED BY <1>3 DEF Placed, t

LEMMA TakenOn ==
    ASSUME NEW s \in Seq(Writes), s # <<>>, NEW w \in Seq(Writes), NEW m, NEW d, NEW e, NEW o,
           TakenOver(s, d, m, o), UrlsOf(d) \subseteq UrlsOf(e), s[1].op # "search",
           \A u : Awaits(s[1], u) => u \in UrlsOf(e) \/ \E i \in DOMAIN w : Awaits(w[i], u)
    PROVE  TakenOver(w \o Tail(s), e, m, o)
<1> DEFINE t == w \o Tail(s)
           n == Len(w)
<1>1. /\ t \in Seq(Writes) /\ Len(s) \in Nat \ {0} /\ n \in Nat
      /\ DOMAIN t = 1..(n + Len(s) - 1) /\ DOMAIN s = 1..Len(s) /\ DOMAIN w = 1..n
      /\ \A i \in 1..n : t[i] = w[i]
      /\ \A i \in DOMAIN t : i > n => t[i] = s[i - n + 1] /\ i - n + 1 \in DOMAIN s
    BY Follows
<1> HIDE DEF t, n
<1>2. ASSUME m = 2, NEW u \in o PROVE u \in UrlsOf(e) \/ \E i \in DOMAIN t : Awaits(t[i], u)
    <2>1. u \in UrlsOf(d) \/ \E i \in DOMAIN s : Awaits(s[i], u)
        BY <1>2 DEF TakenOver
    <2>2. ASSUME NEW i \in DOMAIN s, Awaits(s[i], u), i # 1
          PROVE  \E j \in DOMAIN t : Awaits(t[j], u)
        <3>1. i + n - 1 \in DOMAIN t /\ i + n - 1 > n /\ (i + n - 1) - n + 1 = i
            BY <2>2, <1>1
        <3>2. t[i + n - 1] = s[i]
            BY <3>1, <1>1
        <3>. QED BY <3>1, <3>2, <2>2
    <2>3. ASSUME Awaits(s[1], u)
          PROVE  u \in UrlsOf(e) \/ \E j \in DOMAIN t : Awaits(t[j], u)
        BY <2>3, <1>1
    <2>. QED BY <2>1, <2>2, <2>3
<1>. QED BY <1>2 DEF TakenOver, t

LEMMA SoundOn ==
    ASSUME NEW s \in Seq(Writes), s # <<>>, NEW w \in Seq(Writes),
           NEW st, NEW m, NEW d, NEW e, NEW o,
           CampaignSound(st, m, d, s, o), OneEach(e), Unclaimed(s, w, e), Grown(s, d, e), Plain(w),
           s[1].op \notin {"mark", "search"}, UrlsOf(d) \subseteq UrlsOf(e),
           \A u : Awaits(s[1], u) => u \in UrlsOf(e) \/ \E i \in DOMAIN w : Awaits(w[i], u)
    PROVE  CampaignSound(st, m, e, w \o Tail(s), o)
<1>1. Fits(w \o Tail(s), e)
    BY FitsOn DEF CampaignSound
<1>2. Placed(w \o Tail(s), m)
    BY PlacedOn DEF CampaignSound
<1>3. TakenOver(w \o Tail(s), e, m, o)
    BY TakenOn DEF CampaignSound
<1>4. Course(st, m, w \o Tail(s))
    BY DEF CampaignSound, Course
<1>. QED BY <1>1, <1>2, <1>3, <1>4 DEF CampaignSound

\* A write that is simply done, and changes no table the properties are about.
LEMMA SoundAfter ==
    ASSUME NEW s \in Seq(Writes), s # <<>>, NEW st, NEW m, NEW d, NEW o,
           CampaignSound(st, m, d, s, o),
           s[1].op \notin {"mark", "search", "recall", "surface"}
    PROVE  CampaignSound(st, m, d, Tail(s), o)
<1>1. Unclaimed(s, <<>>, d) /\ Plain(<<>>)
    BY DEF Unclaimed, Plain
<1>2. Grown(s, d, d) /\ OneEach(d)
    BY DEF Grown, CampaignSound
<1>3. \A u : ~ Awaits(s[1], u)
    BY DEF Awaits
<1>. QED BY <1>1, <1>2, <1>3, NoWrites, SoundOn

\* The process is dead, or has nothing more to write in this step.
LEMMA SoundIdle ==
    ASSUME NEW st, NEW m, NEW d, NEW s, NEW o, CampaignSound(st, m, d, s, o)
    PROVE  CampaignSound(st, m, d, <<>>, o)
BY DEF CampaignSound, Fits, Placed, TakenOver, Course

Database == [candidates : Seq(Rows), scores : Seq(ScoreRows),
             decisions : Seq(Nat), results : Seq(Nat)]

LEMMA CheckTimes ==
    ASSUME NEW L \in [Listings -> Never..MaxTime]
    PROVE  L \in [Listings -> Int] /\ \A u \in Listings : L[u] \in Int /\ L[u] <= L[u]
<1>1. Never..MaxTime \subseteq Int
    BY WarmConstants
<1>. QED BY <1>1

LEMMA DatedLater ==
    ASSUME NEW L \in [Listings -> Int], NEW M \in [Listings -> Int],
           \A u \in Listings : L[u] <= M[u]
    PROVE  /\ \A s \in Seq(Writes) : DatedScript(s, L) => DatedScript(s, M)
           /\ \A d \in Database : DatedTable(d, L) => DatedTable(d, M)
           /\ \A y \in [Listings -> Rows \union {Nothing}] :
                  DatedIndex(y, L) => DatedIndex(y, M)
<1>1. ASSUME NEW r \in Rows, Dated(r, L) PROVE Dated(r, M)
    <2>1. r.url \in Listings /\ r.checked \in Int
        BY WarmConstants DEF Rows
    <2>2. r.checked <= L[r.url] /\ L[r.url] <= M[r.url] /\ L[r.url] \in Int /\ M[r.url] \in Int
        BY <1>1, <2>1 DEF Dated
    <2>. QED BY <2>1, <2>2 DEF Dated
<1>2. ASSUME NEW s \in Seq(Writes), DatedScript(s, L) PROVE DatedScript(s, M)
    <2>1. \A i \in DOMAIN s : s[i] \in Writes
        OBVIOUS
    <2>. QED BY <2>1, <1>1, <1>2, WriteHas DEF DatedScript
<1>3. ASSUME NEW d \in Database, DatedTable(d, L) PROVE DatedTable(d, M)
    <2>1. d.candidates \in Seq(Rows)
        BY DEF Database
    <2>2. \A i \in DOMAIN d.candidates : d.candidates[i] \in Rows
        BY <2>1
    <2>. QED BY <2>2, <1>1, <1>3 DEF DatedTable
<1>4. ASSUME NEW y \in [Listings -> Rows \union {Nothing}], DatedIndex(y, L)
      PROVE  DatedIndex(y, M)
    BY <1>1, <1>4 DEF DatedIndex
<1>. QED BY <1>2, <1>3, <1>4

LEMMA DatedOn ==
    ASSUME NEW s \in Seq(Writes), s # <<>>, NEW w \in Seq(Writes), NEW L,
           DatedScript(s, L), DatedScript(w, L)
    PROVE  DatedScript(w \o Tail(s), L)
<1> DEFINE t == w \o Tail(s)
           n == Len(w)
<1>1. /\ n \in Nat /\ DOMAIN t = 1..(n + Len(s) - 1) /\ DOMAIN w = 1..n /\ Len(s) \in Nat
      /\ \A i \in 1..n : t[i] = w[i]
      /\ \A i \in DOMAIN t : i > n => t[i] = s[i - n + 1] /\ i - n + 1 \in DOMAIN s
    BY Follows
<1> HIDE DEF t, n
<1>2. \A i \in DOMAIN t : \/ i \in DOMAIN w /\ t[i] = w[i]
                          \/ \E j \in DOMAIN s : t[i] = s[j]
    BY <1>1
<1>3. DatedScript(t, L)
    BY <1>2 DEF DatedScript
<1>. QED BY <1>3 DEF t

\* What a campaign has, and has left to write, when no live stage comes in between.
LEMMA StaysDated ==
    ASSUME WarmInv, NEW c \in Campaigns, lastCheck' = lastCheck
    PROVE  /\ DatedScript(script[c], lastCheck') /\ DatedScript(<<>>, lastCheck')
           /\ script[c] # <<>> => DatedScript(Tail(script[c]), lastCheck')
           /\ DatedTable(db[c], lastCheck')
<1>1. DatedScript(script[c], lastCheck') /\ DatedTable(db[c], lastCheck')
    BY DEF WarmInv, RowsDated
<1>2. DatedScript(<<>>, lastCheck')
    BY DEF DatedScript
<1>3. ASSUME script[c] # <<>> PROVE DatedScript(Tail(script[c]), lastCheck')
    <2>1. script[c] \in Seq(Writes)
        BY DEF WarmInv, WarmTypes
    <2>2. Tail(script[c]) = <<>> \o Tail(script[c]) /\ <<>> \in Seq(Writes)
        BY <2>1, <1>3, NoWrites
    <2>. QED BY <2>1, <2>2, <1>1, <1>2, <1>3, DatedOn
<1>. QED BY <1>1, <1>2, <1>3

\* A step of one campaign leaves the others as they are.
LEMMA OneMoves ==
    ASSUME WarmInv, NEW c \in Campaigns, WarmTypes', IndexSound', OffersKnown',
           \A b \in Campaigns \ {c} : /\ state'[b] = state[b] /\ marked'[b] = marked[b]
                                      /\ db'[b] = db[b] /\ script'[b] = script[b]
                                      /\ offered'[b] = offered[b],
           CampaignSound(state'[c], marked'[c], db'[c], script'[c], offered'[c]),
           \A u \in Listings : lastCheck[u] <= lastCheck'[u],
           DatedIndex(index'.listings, lastCheck'),
           DatedScript(script'[c], lastCheck'), DatedTable(db'[c], lastCheck')
    PROVE  WarmInv'
<1>1. \A b \in Campaigns :
          CampaignSound(state'[b], marked'[b], db'[b], script'[b], offered'[b])
    BY DEF WarmInv
<1>2. lastCheck \in [Listings -> Int] /\ lastCheck' \in [Listings -> Int]
    BY CheckTimes DEF WarmInv, WarmTypes
<1>3. ASSUME NEW b \in Campaigns \ {c}
      PROVE  DatedScript(script'[b], lastCheck') /\ DatedTable(db'[b], lastCheck')
    <2>1. script[b] \in Seq(Writes) /\ db[b] \in Database
        BY DEF WarmInv, WarmTypes, Database
    <2>2. DatedScript(script[b], lastCheck) /\ DatedTable(db[b], lastCheck)
        BY DEF WarmInv, RowsDated
    <2>3. DatedScript(script[b], lastCheck') /\ DatedTable(db[b], lastCheck')
        BY <1>2, <2>1, <2>2, DatedLater
    <2>. QED BY <2>3
<1>4. \A b \in Campaigns : DatedScript(script'[b], lastCheck') /\ DatedTable(db'[b], lastCheck')
    BY <1>3
<1>5. RowsDated'
    BY <1>4 DEF RowsDated
<1>. QED BY <1>1, <1>5 DEF WarmInv

LEMMA IndexStays ==
    ASSUME WarmInv, index' = index, offered' = offered
    PROVE  /\ IndexSound' /\ OffersKnown'
           /\ lastCheck' = lastCheck => /\ DatedIndex(index'.listings, lastCheck')
                                       /\ \A u \in Listings : lastCheck[u] <= lastCheck'[u]
<1>1. IndexSound' /\ OffersKnown'
    BY DEF WarmInv, IndexSound, OffersKnown, Known
<1>2. ASSUME lastCheck' = lastCheck
      PROVE  /\ DatedIndex(index'.listings, lastCheck')
             /\ \A u \in Listings : lastCheck[u] <= lastCheck'[u]
    <2>1. \A u \in Listings : lastCheck[u] \in Int
        BY CheckTimes DEF WarmInv, WarmTypes
    <2>2. DatedIndex(index.listings, lastCheck)
        BY DEF WarmInv, RowsDated
    <2>. QED BY <1>2, <2>1, <2>2
<1>. QED BY <1>1, <1>2

LEMMA WarmInitInv == WarmInit => WarmInv
<1> SUFFICES ASSUME WarmInit PROVE WarmInv OBVIOUS
<1> USE WarmConstants
<1>1. WarmTypes
    <2>1. Nothing \in Rows \union {Nothing} /\ Unmeasured \in Measures
        BY DEF Unmeasured, Measures, Levels
    <2>2. Tables \in [candidates : Seq(Rows), scores : Seq(ScoreRows),
                      decisions : Seq(Nat), results : Seq(Nat)]
        BY DEF Tables
    <2>3. 0 \in 0..Len(Steps)
        BY DEF Steps
    <2>4. Never \in Never..MaxTime
        OBVIOUS
    <2>. QED BY <2>1, <2>2, <2>3, <2>4 DEF WarmInit, WarmTypes
<1>2. IndexSound /\ OffersKnown
    BY DEF WarmInit, IndexSound, OffersKnown
<1>4. RowsDated
    <2>1. \A u \in Listings : index.listings[u] = Nothing
        BY DEF WarmInit
    <2>2. \A c \in Campaigns : script[c] = <<>> /\ db[c].candidates = <<>>
        BY DEF WarmInit, Tables
    <2>. QED BY <2>1, <2>2 DEF RowsDated, DatedIndex, DatedScript, DatedTable
<1>3. ASSUME NEW c \in Campaigns
      PROVE  CampaignSound(state[c], marked[c], db[c], script[c], offered[c])
    <2>1. /\ state[c] = "CREATED" /\ marked[c] = 0 /\ db[c] = Tables
          /\ script[c] = <<>> /\ offered[c] = {}
        BY DEF WarmInit
    <2>2. OneEach(Tables)
        BY DEF OneEach, Tables, NoneTwice, ToSet
    <2>3. Fits(<<>>, Tables) /\ Placed(<<>>, 0) /\ TakenOver(<<>>, Tables, 0, {})
          /\ Course("CREATED", 0, <<>>)
        BY DEF Fits, Placed, TakenOver, Course
    <2>. QED BY <2>1, <2>2, <2>3 DEF CampaignSound
<1>. QED BY <1>1, <1>2, <1>3, <1>4 DEF WarmInv

LEMMA RunInv == ASSUME WarmInv, NEW c \in Campaigns, Run(c) PROVE WarmInv'
<1>1. UNCHANGED <<state, marked, facts, db, script, index, now, crashes, offered, lastCheck>>
      /\ up' = [up EXCEPT ![c] = TRUE]
    BY DEF Run, campaign
<1>2. WarmTypes'
    BY <1>1 DEF WarmInv, WarmTypes
<1>. QED BY <1>1, <1>2, IndexStays DEF WarmInv, RowsDated

LEMMA CrashInv == ASSUME WarmInv, NEW c \in Campaigns, Crash(c) PROVE WarmInv'
<1>1. /\ UNCHANGED <<state, marked, facts, db, index, now, offered, lastCheck>>
      /\ up' = [up EXCEPT ![c] = FALSE] /\ script' = [script EXCEPT ![c] = <<>>]
      /\ crashes < MaxCrashes /\ crashes' = crashes + 1
    BY DEF Crash, campaign
<1>2. WarmTypes'
    <2>1. crashes' \in 0..MaxCrashes
        BY <1>1, WarmConstants DEF WarmInv, WarmTypes
    <2>2. script' \in [Campaigns -> Seq(Writes)] /\ up' \in [Campaigns -> BOOLEAN]
        BY <1>1 DEF WarmInv, WarmTypes
    <2>. QED BY <1>1, <2>1, <2>2 DEF WarmInv, WarmTypes
<1>3. script'[c] = <<>> /\ \A b \in Campaigns \ {c} : script'[b] = script[b]
    BY <1>1 DEF WarmInv, WarmTypes
<1>4. CampaignSound(state'[c], marked'[c], db'[c], script'[c], offered'[c])
    BY <1>1, <1>3, SoundIdle DEF WarmInv
<1>. QED BY <1>1, <1>2, <1>3, <1>4, IndexStays, StaysDated, OneMoves

LEMMA PassesInv == ASSUME WarmInv, Tick \/ UNCHANGED warmVars PROVE WarmInv'
<1>1. UNCHANGED <<state, marked, facts, db, up, script, index, crashes, offered, lastCheck>>
    BY DEF Tick, campaign, warmVars
<1>2. now' \in 0..MaxTime
    BY WarmConstants DEF Tick, warmVars, WarmInv, WarmTypes
<1>3. WarmTypes'
    BY <1>1, <1>2 DEF WarmInv, WarmTypes
<1>. QED BY <1>1, <1>3, IndexStays DEF WarmInv, RowsDated

\* What a write finds, and what its script is afterwards.
LEMMA AtWrite ==
    ASSUME WarmInv, NEW c \in Campaigns, NEW op, Writing(c, op)
    PROVE  /\ script[c] \in Seq(Writes) /\ script[c] # <<>>
           /\ Head(script[c]) = script[c][1] /\ script[c][1] \in Writes /\ script[c][1].op = op
           /\ CampaignSound(state[c], marked[c], db[c], script[c], offered[c])
           /\ Tail(script[c]) \in Seq(Writes)
BY DEF WarmInv, WarmTypes, Writing

LEMMA AfterDone ==
    ASSUME WarmInv, NEW c \in Campaigns, script[c] # <<>>, Done(c)
    PROVE  /\ script' \in [Campaigns -> Seq(Writes)] /\ script'[c] = Tail(script[c])
           /\ \A b \in Campaigns \ {c} : script'[b] = script[b]
<1>1. script \in [Campaigns -> Seq(Writes)]
    BY DEF WarmInv, WarmTypes
<1>2. Tail(script[c]) \in Seq(Writes)
    <2>1. script[c] \in Seq(Writes)
        BY <1>1
    <2>. QED BY <2>1
<1>. QED BY <1>1, <1>2 DEF Done

LEMMA AfterThen ==
    ASSUME WarmInv, NEW c \in Campaigns, script[c] # <<>>, NEW w \in Seq(Writes), Then(c, w)
    PROVE  /\ script' \in [Campaigns -> Seq(Writes)] /\ script'[c] = w \o Tail(script[c])
           /\ \A b \in Campaigns \ {c} : script'[b] = script[b]
<1> DEFINE after == w \o Tail(script[c])
<1>1. script \in [Campaigns -> Seq(Writes)]
    BY DEF WarmInv, WarmTypes
<1>2. Tail(script[c]) \in Seq(Writes)
    <2>1. script[c] \in Seq(Writes)
        BY <1>1
    <2>. QED BY <2>1
<1>3. after \in Seq(Writes)
    BY <1>2
<1>4. script' = [script EXCEPT ![c] = after]
    BY DEF Then
<1> HIDE DEF after
<1>5. /\ script' \in [Campaigns -> Seq(Writes)] /\ script'[c] = after
      /\ \A b \in Campaigns \ {c} : script'[b] = script[b]
    BY <1>1, <1>3, <1>4
<1>. QED BY <1>5 DEF after

\* One candidate more.
LEMMA AddCandidate ==
    ASSUME NEW d \in Database, OneEach(d), NEW row \in Rows, row.url \notin UrlsOf(d)
    PROVE  LET e == [d EXCEPT !.candidates = Append(@, row)]
               n == Len(d.candidates) IN
           /\ e \in Database /\ OneEach(e) /\ UrlsOf(e) = UrlsOf(d) \union {row.url}
           /\ \A k, x : Has(e, k, x) => Has(d, k, x) \/ (k = "listing" /\ x = row.url)
           /\ n \in Nat /\ DOMAIN d.candidates = 1..n /\ DOMAIN e.candidates = 1..(n + 1)
           /\ e.decisions = d.decisions /\ e.results = d.results
           /\ \A L : DatedTable(d, L) /\ Dated(row, L) => DatedTable(e, L)
<1> DEFINE e == [d EXCEPT !.candidates = Append(@, row)]
           n == Len(d.candidates)
<1>1. e \in Database /\ e.candidates = Append(d.candidates, row)
      /\ e.decisions = d.decisions /\ e.results = d.results
    <2>1. Append(d.candidates, row) \in Seq(Rows)
        <3>1. d.candidates \in Seq(Rows)
            BY DEF Database
        <3>. QED BY <3>1
    <2>. QED BY <2>1 DEF Database
<1>2. d.candidates \in Seq(Rows) /\ n \in Nat /\ DOMAIN d.candidates = 1..n
    BY DEF Database
<1>3. /\ DOMAIN e.candidates = 1..(n + 1) /\ e.candidates[n + 1] = row
      /\ \A i \in 1..n : e.candidates[i] = d.candidates[i]
    BY <1>1, <1>2
<1> HIDE DEF e, n
<1>4. UrlsOf(e) = UrlsOf(d) \union {row.url}
    <2>1. ASSUME NEW u \in UrlsOf(e) PROVE u \in UrlsOf(d) \union {row.url}
        <3>1. PICK i \in 1..(n + 1) : e.candidates[i].url = u
            BY <1>3 DEF UrlsOf
        <3>2. i = n + 1 \/ i \in 1..n
            BY <1>2
        <3>. QED BY <3>1, <3>2, <1>2, <1>3 DEF UrlsOf
    <2>2. ASSUME NEW u \in UrlsOf(d) PROVE u \in UrlsOf(e)
        <3>1. PICK i \in 1..n : d.candidates[i].url = u
            BY <1>2 DEF UrlsOf
        <3>2. i \in 1..(n + 1) /\ e.candidates[i].url = u
            BY <3>1, <1>2, <1>3
        <3>. QED BY <3>2, <1>3 DEF UrlsOf
    <2>3. row.url \in UrlsOf(e)
        <3>1. n + 1 \in DOMAIN e.candidates /\ e.candidates[n + 1].url = row.url
            BY <1>2, <1>3
        <3>. QED BY <3>1 DEF UrlsOf
    <2>. QED BY <2>1, <2>2, <2>3
<1>5. ASSUME NEW i \in DOMAIN e.candidates, NEW j \in DOMAIN e.candidates,
             e.candidates[i].url = e.candidates[j].url
      PROVE  i = j
    <2>1. i \in 1..n \/ i = n + 1
        BY <1>2, <1>3
    <2>2. j \in 1..n \/ j = n + 1
        BY <1>2, <1>3
    <2>3. \A k \in 1..n : e.candidates[k].url \in UrlsOf(d)
        BY <1>2, <1>3 DEF UrlsOf
    <2>. QED BY <2>1, <2>2, <2>3, <1>2, <1>3, <1>5 DEF OneEach
<1>6. DOMAIN d.candidates \subseteq DOMAIN e.candidates
    BY <1>2, <1>3
<1>7. OneEach(e)
    BY <1>1, <1>5, <1>6 DEF OneEach
<1>8. \A k, x : Has(e, k, x) => Has(d, k, x) \/ (k = "listing" /\ x = row.url)
    BY <1>1, <1>4 DEF Has
<1>9. \A L : DatedTable(d, L) /\ Dated(row, L) => DatedTable(e, L)
    <2>1. \A i \in DOMAIN e.candidates : i \in 1..n \/ i = n + 1
        BY <1>2, <1>3
    <2>. QED BY <2>1, <1>2, <1>3 DEF DatedTable
<1>. QED BY <1>1, <1>2, <1>3, <1>4, <1>7, <1>8, <1>9 DEF e, n

\* One number more in a list.
LEMMA AddNumber ==
    ASSUME NEW S \in Seq(Nat), NEW i \in Nat
    PROVE  LET T == Append(S, i) IN
           /\ T \in Seq(Nat) /\ ToSet(T) = ToSet(S) \union {i}
           /\ NoneTwice(S) /\ i \notin ToSet(S) => NoneTwice(T)
<1> DEFINE T == Append(S, i)
           n == Len(S)
<1>1. n \in Nat /\ DOMAIN S = 1..n /\ DOMAIN T = 1..(n + 1) /\ T \in Seq(Nat)
      /\ T[n + 1] = i /\ \A k \in 1..n : T[k] = S[k]
    OBVIOUS
<1> HIDE DEF T, n
<1>2. ToSet(T) = ToSet(S) \union {i}
    <2>1. ASSUME NEW x \in ToSet(T) PROVE x \in ToSet(S) \union {i}
        <3>1. PICK k \in 1..(n + 1) : T[k] = x
            BY <1>1 DEF ToSet
        <3>2. k = n + 1 \/ k \in 1..n
            BY <1>1
        <3>. QED BY <3>1, <3>2, <1>1 DEF ToSet
    <2>2. ASSUME NEW x \in ToSet(S) PROVE x \in ToSet(T)
        <3>1. PICK k \in 1..n : S[k] = x
            BY <1>1 DEF ToSet
        <3>2. k \in 1..(n + 1)
            BY <1>1
        <3>. QED BY <3>1, <3>2, <1>1 DEF ToSet
    <2>3. n + 1 \in 1..(n + 1)
        BY <1>1
    <2>4. i \in ToSet(T)
        BY <2>3, <1>1 DEF ToSet
    <2>. QED BY <2>1, <2>2, <2>4
<1>3. ASSUME NoneTwice(S), i \notin ToSet(S) PROVE NoneTwice(T)
    <2>1. ASSUME NEW a \in DOMAIN T, NEW b \in DOMAIN T, T[a] = T[b] PROVE a = b
        <3>1. a \in 1..n \/ a = n + 1
            BY <1>1
        <3>2. b \in 1..n \/ b = n + 1
            BY <1>1
        <3>3. \A k \in 1..n : T[k] \in ToSet(S)
            BY <1>1 DEF ToSet
        <3>. QED BY <3>1, <3>2, <3>3, <1>1, <1>3, <2>1 DEF NoneTwice
    <2>. QED BY <2>1 DEF NoneTwice
<1>. QED BY <1>1, <1>2, <1>3 DEF T

LEMMA DbTyped ==
    WarmTypes => db \in [Campaigns -> Database]
BY DEF WarmTypes, Database

LEMMA EmptyScript == ASSUME NEW t \in Seq(Writes), Len(t) = 0 PROVE t = <<>>
OBVIOUS

LEMMA MarkInv == ASSUME WarmInv, NEW c \in Campaigns, Mark(c) PROVE WarmInv'
<1> DEFINE s == script[c]
<1>1. /\ UNCHANGED <<state, facts, db, index, now, crashes, offered, lastCheck>>
      /\ Done(c) /\ marked' = [marked EXCEPT ![c] = @ + 1] /\ up' = [up EXCEPT ![c] = ~Ended(c)]
    BY DEF Mark
<1>2. /\ s \in Seq(Writes) /\ s # <<>> /\ s[1].op = "mark"
      /\ CampaignSound(state[c], marked[c], db[c], s, offered[c])
    BY AtWrite DEF Mark
<1>3. /\ script' \in [Campaigns -> Seq(Writes)] /\ script'[c] = Tail(s)
      /\ \A b \in Campaigns \ {c} : script'[b] = script[b]
    BY <1>1, <1>2, AfterDone
<1>4. Len(s) = 1
    <2>1. 1 \in DOMAIN s
        BY <1>2
    <2>. QED BY <2>1, <1>2 DEF CampaignSound, Placed
<1>5. Tail(s) = <<>>
    <2>1. Tail(s) \in Seq(Writes) /\ Len(Tail(s)) = 0
        BY <1>2, <1>4
    <2>. QED BY <2>1, EmptyScript
<1>6. marked[c] <= 12 /\ marked[c] \in 0..13 /\ state[c] = Steps[marked[c] + 1] /\ Len(Steps) = 13
      /\ (marked[c] = 12 => state[c] = "COMPLETE")
    <2>1. marked[c] \in 0..Len(Steps)
        BY DEF WarmInv, WarmTypes
    <2>2. Len(Steps) = 13 /\ Steps[13] = "COMPLETE"
        BY DEF Steps
    <2>3. marked[c] <= 12 /\ state[c] = Steps[marked[c] + 1]
        BY <1>2 DEF CampaignSound, Course
    <2>4. marked[c] \in 0..13
        BY <2>1, <2>2
    <2>5. ASSUME marked[c] = 12 PROVE state[c] = "COMPLETE"
        <3>1. marked[c] + 1 = 13
            BY <2>5
        <3>. QED BY <2>2, <2>3, <3>1
    <2>. QED BY <2>2, <2>3, <2>4, <2>5
<1>7. marked'[c] = marked[c] + 1 /\ \A b \in Campaigns \ {c} : marked'[b] = marked[b]
    BY <1>1 DEF WarmInv, WarmTypes
<1>8. WarmTypes'
    <2>1. marked' \in [Campaigns -> 0..Len(Steps)]
        <3>1. marked[c] + 1 \in 0..Len(Steps)
            BY <1>6
        <3>. QED BY <1>1, <3>1 DEF WarmInv, WarmTypes
    <2>2. up' \in [Campaigns -> BOOLEAN]
        BY <1>1 DEF WarmInv, WarmTypes
    <2>. QED BY <1>1, <1>3, <2>1, <2>2 DEF WarmInv, WarmTypes
<1>9. CampaignSound(state[c], marked[c] + 1, db[c], <<>>, offered[c])
    <2>1. Fits(<<>>, db[c]) /\ OneEach(db[c])
        BY <1>2, SoundIdle DEF CampaignSound
    <2>2. Placed(<<>>, marked[c] + 1)
        BY DEF Placed
    <2>3. TakenOver(<<>>, db[c], marked[c] + 1, offered[c])
        <3>1. ASSUME marked[c] = 2 PROVE offered[c] \subseteq UrlsOf(db[c])
            <4>1. \A i \in DOMAIN s : i = 1
                BY <1>2, <1>4
            <4>2. \A u : ~ Awaits(s[1], u)
                BY <1>2 DEF Awaits
            <4>3. \A u \in offered[c] : u \in UrlsOf(db[c]) \/ \E i \in DOMAIN s : Awaits(s[i], u)
                BY <3>1, <1>2 DEF CampaignSound, TakenOver
            <4>. QED BY <4>1, <4>2, <4>3
        <3>2. ASSUME marked[c] >= 3 PROVE offered[c] \subseteq UrlsOf(db[c])
            BY <3>2, <1>2 DEF CampaignSound, TakenOver
        <3>. QED BY <3>1, <3>2, <1>6 DEF TakenOver
    <2>4. Course(state[c], marked[c] + 1, <<>>)
        BY <1>2, <1>6 DEF CampaignSound, Course
    <2>. QED BY <2>1, <2>2, <2>3, <2>4 DEF CampaignSound
<1>. QED BY <1>1, <1>3, <1>5, <1>7, <1>8, <1>9, IndexStays, StaysDated, OneMoves

LEMMA PutFactInv == ASSUME WarmInv, NEW c \in Campaigns, PutFact(c) PROVE WarmInv'
<1> DEFINE s == script[c]
<1>1. /\ UNCHANGED <<state, marked, db, up, index, now, crashes, offered, lastCheck>>
      /\ Done(c) /\ facts' = [facts EXCEPT ![c] = @ \union {Head(s).fact}]
    BY DEF PutFact
<1>2. /\ s \in Seq(Writes) /\ s # <<>> /\ s[1].op = "put" /\ Head(s) = s[1] /\ s[1] \in Writes
      /\ CampaignSound(state[c], marked[c], db[c], s, offered[c])
    BY AtWrite DEF PutFact
<1>3. /\ script' \in [Campaigns -> Seq(Writes)] /\ script'[c] = Tail(s)
      /\ \A b \in Campaigns \ {c} : script'[b] = script[b]
    BY <1>1, <1>2, AfterDone
<1>4. WarmTypes'
    <2>1. facts' \in [Campaigns -> SUBSET Facts]
        BY <1>1, <1>2, WriteHas DEF WarmInv, WarmTypes
    <2>. QED BY <1>1, <1>3, <2>1 DEF WarmInv, WarmTypes
<1>5. CampaignSound(state[c], marked[c], db[c], Tail(s), offered[c])
    BY <1>2, SoundAfter
<1>. QED BY <1>1, <1>2, <1>3, <1>4, <1>5, IndexStays, StaysDated, OneMoves

LEMMA NeedFactInv == ASSUME WarmInv, NEW c \in Campaigns, NeedFact(c) PROVE WarmInv'
<1> DEFINE s == script[c]
<1>1. /\ UNCHANGED <<state, marked, facts, db, index, now, crashes, offered, lastCheck>>
      /\ \/ Done(c) /\ UNCHANGED up
         \/ script' = [script EXCEPT ![c] = <<>>] /\ up' = [up EXCEPT ![c] = FALSE]
    BY DEF NeedFact, campaign
<1>2. /\ s \in Seq(Writes) /\ s # <<>> /\ s[1].op = "need"
      /\ CampaignSound(state[c], marked[c], db[c], s, offered[c])
    BY AtWrite DEF NeedFact
<1>3. CASE Done(c) /\ UNCHANGED up
    <2>1. /\ script' \in [Campaigns -> Seq(Writes)] /\ script'[c] = Tail(s)
          /\ \A b \in Campaigns \ {c} : script'[b] = script[b]
        BY <1>3, <1>2, AfterDone
    <2>2. WarmTypes'
        BY <1>1, <1>3, <2>1 DEF WarmInv, WarmTypes
    <2>3. CampaignSound(state[c], marked[c], db[c], Tail(s), offered[c])
        BY <1>2, SoundAfter
    <2>. QED BY <1>1, <1>2, <2>1, <2>2, <2>3, IndexStays, StaysDated, OneMoves
<1>4. CASE script' = [script EXCEPT ![c] = <<>>] /\ up' = [up EXCEPT ![c] = FALSE]
    <2>1. /\ script' \in [Campaigns -> Seq(Writes)] /\ script'[c] = <<>>
          /\ \A b \in Campaigns \ {c} : script'[b] = script[b]
        BY <1>4 DEF WarmInv, WarmTypes
    <2>2. WarmTypes'
        BY <1>1, <1>4, <2>1 DEF WarmInv, WarmTypes
    <2>3. CampaignSound(state[c], marked[c], db[c], <<>>, offered[c])
        BY <1>2, SoundIdle
    <2>. QED BY <1>1, <1>2, <2>1, <2>2, <2>3, IndexStays, StaysDated, OneMoves
<1>. QED BY <1>1, <1>3, <1>4

\* A step of the campaign that writes to its own tables and goes on with w.
LEMMA TableStep ==
    ASSUME WarmInv, NEW c \in Campaigns, NEW op, Writing(c, op),
           op \notin {"mark", "search"},
           NEW w \in Seq(Writes), NEW e \in Database,
           UNCHANGED <<state, marked, facts, up, index, now, crashes, offered>>,
           lastCheck' \in [Listings -> Never..MaxTime],
           \A u \in Listings : lastCheck[u] <= lastCheck'[u],
           DatedScript(w, lastCheck'), DatedTable(e, lastCheck'),
           Then(c, w), db' = [db EXCEPT ![c] = e],
           OneEach(e), Unclaimed(script[c], w, e), Grown(script[c], db[c], e), Plain(w),
           UrlsOf(db[c]) \subseteq UrlsOf(e),
           \A u : Awaits(script[c][1], u) => u \in UrlsOf(e) \/ \E i \in DOMAIN w : Awaits(w[i], u)
    PROVE  WarmInv'
<1> DEFINE s == script[c]
<1>1. /\ s \in Seq(Writes) /\ s # <<>> /\ s[1].op = op
      /\ CampaignSound(state[c], marked[c], db[c], s, offered[c])
    BY AtWrite
<1>2. /\ script' \in [Campaigns -> Seq(Writes)] /\ script'[c] = w \o Tail(s)
      /\ \A b \in Campaigns \ {c} : script'[b] = script[b]
    BY <1>1, AfterThen
<1>3. /\ db' \in [Campaigns -> Database] /\ db'[c] = e
      /\ \A b \in Campaigns \ {c} : db'[b] = db[b]
    BY DbTyped DEF WarmInv
<1>4. WarmTypes'
    BY <1>2, <1>3 DEF WarmInv, WarmTypes, Database
<1>5. CampaignSound(state[c], marked[c], e, w \o Tail(s), offered[c])
    BY <1>1, SoundOn
<1>6. lastCheck \in [Listings -> Int] /\ lastCheck' \in [Listings -> Int]
    BY CheckTimes DEF WarmInv, WarmTypes
<1>7. DatedScript(s, lastCheck) /\ DatedIndex(index.listings, lastCheck)
      /\ index.listings \in [Listings -> Rows \union {Nothing}]
    BY DEF WarmInv, RowsDated, WarmTypes
<1>8. DatedScript(s, lastCheck') /\ DatedIndex(index.listings, lastCheck')
    BY <1>1, <1>6, <1>7, DatedLater
<1>9. DatedScript(w \o Tail(s), lastCheck')
    BY <1>1, <1>8, DatedOn
<1>. QED BY <1>2, <1>3, <1>4, <1>5, <1>8, <1>9, IndexStays, OneMoves

LEMMA DoneIsThen ==
    ASSUME WarmInv, NEW c \in Campaigns, script[c] # <<>>, Done(c) PROVE Then(c, <<>>)
<1>1. script[c] \in Seq(Writes)
    BY DEF WarmInv, WarmTypes
<1>2. Tail(script[c]) = <<>> \o Tail(script[c])
    BY <1>1, NoWrites
<1>. QED BY <1>2 DEF Done, Then

\* The same, if there is nothing to go on with.
LEMMA TableDone ==
    ASSUME WarmInv, NEW c \in Campaigns, NEW op, Writing(c, op),
           op \notin {"mark", "search", "recall"}, NEW e \in Database,
           UNCHANGED <<state, marked, facts, up, index, now, crashes, offered, lastCheck>>,
           Done(c), db' = [db EXCEPT ![c] = e],
           DatedTable(e, lastCheck), OneEach(e), Grown(script[c], db[c], e),
           UrlsOf(db[c]) \subseteq UrlsOf(e),
           \A u : Awaits(script[c][1], u) => u \in UrlsOf(e)
    PROVE  WarmInv'
<1>1. script[c] # <<>>
    BY DEF Writing
<1>2. Then(c, <<>>) /\ <<>> \in Seq(Writes)
    BY <1>1, DoneIsThen
<1>3. Unclaimed(script[c], <<>>, e) /\ Plain(<<>>)
    BY DEF Unclaimed, Plain
<1>4. lastCheck' \in [Listings -> Never..MaxTime]
    BY DEF WarmInv, WarmTypes
<1>5. DatedScript(<<>>, lastCheck') /\ \A u \in Listings : lastCheck[u] <= lastCheck'[u]
    BY StaysDated, CheckTimes DEF WarmInv, WarmTypes
<1>. QED BY <1>2, <1>3, <1>4, <1>5, TableStep

\* What the tables are like when a write comes up.
LEMMA AtTables ==
    ASSUME WarmInv, NEW c \in Campaigns, NEW op, Writing(c, op)
    PROVE  /\ db[c] \in Database /\ OneEach(db[c]) /\ Fits(script[c], db[c])
           /\ 1 \in DOMAIN script[c]
           /\ DatedScript(script[c], lastCheck) /\ DatedTable(db[c], lastCheck)
           /\ \A k, x : Claims(script[c][1], k, x) => ~ Has(db[c], k, x)
<1>1. db[c] \in Database
    BY DbTyped DEF WarmInv
<1>2. script[c] \in Seq(Writes) /\ script[c] # <<>> /\ OneEach(db[c]) /\ Fits(script[c], db[c])
    BY AtWrite DEF CampaignSound
<1>3. 1 \in DOMAIN script[c]
    BY <1>2
<1>4. DatedScript(script[c], lastCheck) /\ DatedTable(db[c], lastCheck)
    BY DEF WarmInv, RowsDated
<1>. QED BY <1>1, <1>2, <1>3, <1>4 DEF Fits

LEMMA InsertCandidateInv == ASSUME WarmInv, NEW c \in Campaigns, InsertCandidate(c) PROVE WarmInv'
<1> DEFINE s == script[c]
           row == s[1].row
           e == [db[c] EXCEPT !.candidates = Append(@, row)]
<1>1. Writing(c, "candidate") /\ Done(c)
      /\ UNCHANGED <<state, marked, facts, up, index, now, crashes, offered, lastCheck>>
      /\ db' = [db EXCEPT ![c].candidates = Append(@, Head(script[c]).row)]
    BY DEF InsertCandidate
<1>2. s[1] \in Writes /\ s[1].op = "candidate" /\ Head(s) = s[1] /\ row \in Rows
    BY <1>1, AtWrite, WriteHas
<1>3. db[c] \in Database /\ OneEach(db[c])
      /\ \A k, x : Claims(s[1], k, x) => ~ Has(db[c], k, x)
    BY <1>1, AtTables
<1>4. row.url \notin UrlsOf(db[c]) /\ Claims(s[1], "listing", row.url)
    <2>1. Claims(s[1], "listing", row.url)
        BY <1>2 DEF Claims
    <2>. QED BY <2>1, <1>3 DEF Has
<1>5. db' = [db EXCEPT ![c] = e]
    BY <1>1, <1>2, DbTyped DEF WarmInv
<1> DEFINE n == Len(db[c].candidates)
<1>6. /\ e \in Database /\ OneEach(e) /\ UrlsOf(e) = UrlsOf(db[c]) \union {row.url}
      /\ \A k, x : Has(e, k, x) => Has(db[c], k, x) \/ (k = "listing" /\ x = row.url)
      /\ n \in Nat /\ DOMAIN db[c].candidates = 1..n /\ DOMAIN e.candidates = 1..(n + 1)
    BY <1>2, <1>3, <1>4, AddCandidate
<1> HIDE DEF e, n
<1>7. Grown(s, db[c], e)
    <2>1. DOMAIN db[c].candidates \subseteq DOMAIN e.candidates
        BY <1>6
    <2>. QED BY <2>1, <1>4, <1>6 DEF Grown
<1>8. \A u : ~ Awaits(s[1], u)
    BY <1>2 DEF Awaits
<1>9. Dated(row, lastCheck) /\ DatedTable(db[c], lastCheck)
    BY <1>1, <1>2, AtTables DEF DatedScript
<1>10. DatedTable(e, lastCheck)
    BY <1>2, <1>3, <1>4, <1>9, AddCandidate DEF e
<1>. QED BY <1>1, <1>5, <1>6, <1>7, <1>8, <1>10, TableDone

LEMMA InsertScoreInv == ASSUME WarmInv, NEW c \in Campaigns, InsertScore(c) PROVE WarmInv'
<1> DEFINE s == script[c]
           e == [db[c] EXCEPT !.scores = Append(@, s[1].score)]
<1>1. Writing(c, "score") /\ Done(c)
      /\ UNCHANGED <<state, marked, facts, up, index, now, crashes, offered, lastCheck>>
      /\ db' = [db EXCEPT ![c].scores = Append(@, Head(script[c]).score)]
    BY DEF InsertScore
<1>2. s[1] \in Writes /\ s[1].op = "score" /\ Head(s) = s[1] /\ s[1].score \in ScoreRows
    BY <1>1, AtWrite, WriteHas
<1>3. db[c] \in Database /\ OneEach(db[c])
    BY <1>1, AtTables
<1>4. db' = [db EXCEPT ![c] = e]
    BY <1>1, <1>2, DbTyped DEF WarmInv
<1>5. /\ e \in Database /\ e.candidates = db[c].candidates
      /\ e.decisions = db[c].decisions /\ e.results = db[c].results
    <2>1. db[c].scores \in Seq(ScoreRows)
        BY <1>3 DEF Database
    <2>2. Append(db[c].scores, s[1].score) \in Seq(ScoreRows)
        BY <2>1, <1>2
    <2>. QED BY <2>2, <1>3 DEF Database
<1> HIDE DEF e
<1>6. OneEach(e) /\ UrlsOf(e) = UrlsOf(db[c]) /\ Grown(s, db[c], e)
    BY <1>3, <1>5 DEF OneEach, UrlsOf, Grown, Has
<1>7. \A u : ~ Awaits(s[1], u)
    BY <1>2 DEF Awaits
<1>8. DatedTable(e, lastCheck)
    BY <1>1, <1>5, AtTables DEF DatedTable
<1>. QED BY <1>1, <1>4, <1>5, <1>6, <1>7, <1>8, TableDone

LEMMA InsertDecisionInv == ASSUME WarmInv, NEW c \in Campaigns, InsertDecision(c) PROVE WarmInv'
<1> DEFINE s == script[c]
           i == s[1].id
           e == [db[c] EXCEPT !.decisions = Append(@, i)]
<1>1. Writing(c, "decision") /\ Done(c)
      /\ UNCHANGED <<state, marked, facts, up, index, now, crashes, offered, lastCheck>>
      /\ db' = [db EXCEPT ![c].decisions = Append(@, Head(script[c]).id)]
    BY DEF InsertDecision
<1>2. s[1] \in Writes /\ s[1].op = "decision" /\ Head(s) = s[1] /\ i \in Nat
    BY <1>1, AtWrite, WriteHas
<1>3. /\ db[c] \in Database /\ OneEach(db[c]) /\ Fits(s, db[c]) /\ 1 \in DOMAIN s
      /\ \A k, x : Claims(s[1], k, x) => ~ Has(db[c], k, x)
    BY <1>1, AtTables
<1>4. Claims(s[1], "decision", i) /\ i \in DOMAIN db[c].candidates
    BY <1>2, <1>3 DEF Claims, Fits
<1>5. i \notin ToSet(db[c].decisions)
    BY <1>3, <1>4 DEF Has
<1>6. db' = [db EXCEPT ![c] = e]
    BY <1>1, <1>2, DbTyped DEF WarmInv
<1>7. db[c].decisions \in Seq(Nat) /\ NoneTwice(db[c].decisions)
    BY <1>3 DEF Database, OneEach
<1>8. /\ Append(db[c].decisions, i) \in Seq(Nat) /\ NoneTwice(Append(db[c].decisions, i))
      /\ ToSet(Append(db[c].decisions, i)) = ToSet(db[c].decisions) \union {i}
    BY <1>2, <1>5, <1>7, AddNumber
<1>9. /\ e \in Database /\ e.candidates = db[c].candidates /\ e.results = db[c].results
      /\ e.decisions = Append(db[c].decisions, i)
    BY <1>3, <1>8 DEF Database
<1> HIDE DEF e
<1>10. OneEach(e)
    BY <1>3, <1>4, <1>8, <1>9 DEF OneEach
<1>11. UrlsOf(e) = UrlsOf(db[c]) /\ Grown(s, db[c], e)
    BY <1>4, <1>8, <1>9 DEF UrlsOf, Grown, Has
<1>12. \A u : ~ Awaits(s[1], u)
    BY <1>2 DEF Awaits
<1>13. DatedTable(e, lastCheck)
    BY <1>1, <1>9, AtTables DEF DatedTable
<1>. QED BY <1>1, <1>6, <1>9, <1>10, <1>11, <1>12, <1>13, TableDone

LEMMA InsertResultInv == ASSUME WarmInv, NEW c \in Campaigns, InsertResult(c) PROVE WarmInv'
<1> DEFINE s == script[c]
           i == s[1].id
           e == [db[c] EXCEPT !.results = Append(@, i)]
<1>1. Writing(c, "result") /\ Done(c)
      /\ UNCHANGED <<state, marked, facts, up, index, now, crashes, offered, lastCheck>>
      /\ db' = [db EXCEPT ![c].results = Append(@, Head(script[c]).id)]
    BY DEF InsertResult
<1>2. s[1] \in Writes /\ s[1].op = "result" /\ Head(s) = s[1] /\ i \in Nat
    BY <1>1, AtWrite, WriteHas
<1>3. /\ db[c] \in Database /\ OneEach(db[c]) /\ Fits(s, db[c]) /\ 1 \in DOMAIN s
      /\ \A k, x : Claims(s[1], k, x) => ~ Has(db[c], k, x)
    BY <1>1, AtTables
<1>4. Claims(s[1], "result", i) /\ i \in DOMAIN db[c].candidates
    BY <1>2, <1>3 DEF Claims, Fits
<1>5. i \notin ToSet(db[c].results)
    BY <1>3, <1>4 DEF Has
<1>6. db' = [db EXCEPT ![c] = e]
    BY <1>1, <1>2, DbTyped DEF WarmInv
<1>7. db[c].results \in Seq(Nat) /\ NoneTwice(db[c].results)
    BY <1>3 DEF Database, OneEach
<1>8. /\ Append(db[c].results, i) \in Seq(Nat) /\ NoneTwice(Append(db[c].results, i))
      /\ ToSet(Append(db[c].results, i)) = ToSet(db[c].results) \union {i}
    BY <1>2, <1>5, <1>7, AddNumber
<1>9. /\ e \in Database /\ e.candidates = db[c].candidates /\ e.decisions = db[c].decisions
      /\ e.results = Append(db[c].results, i)
    BY <1>3, <1>8 DEF Database
<1> HIDE DEF e
<1>10. OneEach(e)
    BY <1>3, <1>4, <1>8, <1>9 DEF OneEach
<1>11. UrlsOf(e) = UrlsOf(db[c]) /\ Grown(s, db[c], e)
    BY <1>4, <1>8, <1>9 DEF UrlsOf, Grown, Has
<1>12. \A u : ~ Awaits(s[1], u)
    BY <1>2 DEF Awaits
<1>13. DatedTable(e, lastCheck)
    BY <1>1, <1>9, AtTables DEF DatedTable
<1>. QED BY <1>1, <1>6, <1>9, <1>10, <1>11, <1>12, <1>13, TableDone

LEMMA CheckRowInv == ASSUME WarmInv, NEW c \in Campaigns, CheckRow(c) PROVE WarmInv'
<1> DEFINE s == script[c]
           i == s[1].id
           d == db[c]
           e == [d EXCEPT !.candidates[i].checked = s[1].at]
           w == <<Score(i, "utility", "measured")>>
           u == d.candidates[i].url
<1>1. /\ Writing(c, "check")
      /\ UNCHANGED <<state, marked, facts, up, index, now, crashes, offered>>
      /\ Then(c, <<Score(Head(s).id, "utility", "measured")>>)
      /\ db' = [db EXCEPT ![c].candidates[Head(s).id].checked = Head(s).at]
      /\ lastCheck' = [lastCheck EXCEPT ![d.candidates[Head(s).id].url] =
                          IF Head(s).at > @ THEN Head(s).at ELSE @]
    BY DEF CheckRow
<1>2. /\ s[1] \in Writes /\ s[1].op = "check" /\ Head(s) = s[1] /\ i \in Nat
      /\ s[1].at \in 0..MaxTime
    BY <1>1, AtWrite, WriteHas
<1>3. /\ d \in Database /\ OneEach(d) /\ Fits(s, d) /\ 1 \in DOMAIN s
    BY <1>1, AtTables
<1>4. i \in DOMAIN d.candidates /\ d.candidates \in Seq(Rows)
    BY <1>2, <1>3 DEF Fits, Database
<1>5. db' = [db EXCEPT ![c] = e]
    BY <1>1, <1>2, DbTyped DEF WarmInv
<1>6. d.candidates[i] \in Rows /\ s[1].at \in Never..MaxTime
    BY <1>2, <1>4, WarmConstants
<1>7. /\ e \in Database /\ e.decisions = d.decisions /\ e.results = d.results
      /\ DOMAIN e.candidates = DOMAIN d.candidates
      /\ \A j \in DOMAIN d.candidates : e.candidates[j].url = d.candidates[j].url
      /\ e.candidates[i].checked = s[1].at
      /\ \A j \in DOMAIN d.candidates : j # i => e.candidates[j] = d.candidates[j]
    <2> DEFINE r == [d.candidates[i] EXCEPT !.checked = s[1].at]
               searched == [d.candidates EXCEPT ![i] = r]
    <2>1. r \in Rows /\ r.url = d.candidates[i].url /\ r.checked = s[1].at
        BY <1>6 DEF Rows
    <2>2. searched \in Seq(Rows) /\ DOMAIN searched = DOMAIN d.candidates
          /\ (\A j \in DOMAIN d.candidates : searched[j].url = d.candidates[j].url)
          /\ searched[i].checked = s[1].at
          /\ \A j \in DOMAIN d.candidates : j # i => searched[j] = d.candidates[j]
        <3> DEFINE old == d.candidates
        <3>1. old \in Seq(Rows) /\ i \in DOMAIN old /\ searched = [old EXCEPT ![i] = r]
            BY <1>2, <1>4 DEF Database
        <3> HIDE DEF r, old, searched
        <3>2. searched \in Seq(Rows) /\ DOMAIN searched = DOMAIN old
            BY <2>1, <3>1
        <3>3. searched[i] = r /\ \A j \in DOMAIN old : j # i => searched[j] = old[j]
            BY <3>1
        <3>4. ASSUME NEW j \in DOMAIN old PROVE searched[j].url = old[j].url
            BY <2>1, <3>3 DEF old
        <3>. QED BY <2>1, <3>2, <3>3, <3>4 DEF old
    <2>3. e = [d EXCEPT !.candidates = searched]
        BY <1>3 DEF Database
    <2> HIDE DEF r, searched, e
    <2>4. e \in Database /\ e.decisions = d.decisions /\ e.results = d.results
          /\ e.candidates = searched
        BY <2>2, <2>3, <1>3 DEF Database
    <2>. QED BY <2>2, <2>4
<1> HIDE DEF e
<1>8. UrlsOf(e) = UrlsOf(d)
    BY <1>7 DEF UrlsOf
<1>9. OneEach(e)
    BY <1>3, <1>7 DEF OneEach
<1>10. Grown(s, d, e)
    BY <1>7, <1>8 DEF Grown, Has
<1>11. w \in Seq(Writes)
    <2>1. Score(i, "utility", "measured") \in Writes
        BY <1>2, WritesAre DEF Levels
    <2>. QED BY <2>1
<1>12. Unclaimed(s, w, e) /\ Plain(w)
    <2>1. \A j \in DOMAIN w : j = 1 /\ w[j].op = "score"
        BY DEF Score
    <2>2. \A j \in DOMAIN w : \A k, x : ~ Claims(w[j], k, x)
        BY <2>1 DEF Claims
    <2> HIDE DEF w
    <2>. QED BY <2>1, <2>2 DEF Unclaimed, Plain
<1>13. lastCheck' \in [Listings -> Never..MaxTime]
    BY <1>1, <1>2, <1>6 DEF WarmInv, WarmTypes
<1>14. \A y : ~ Awaits(s[1], y)
    BY <1>2 DEF Awaits
<1>15. Then(c, w)
    BY <1>1, <1>2
<1>16. \A L : DatedScript(w, L)
    <2>1. \A j \in DOMAIN w : w[j].op = "score"
        BY DEF Score
    <2> HIDE DEF w
    <2>. QED BY <2>1 DEF DatedScript
<1>17. /\ u \in Listings /\ s[1].at \in Int
       /\ \A y \in Listings : lastCheck[y] \in Int /\ lastCheck'[y] \in Int
    <2>1. u \in Listings /\ s[1].at \in Int
        BY <1>2, <1>6 DEF Rows
    <2>2. \A y \in Listings : lastCheck[y] \in Int
        BY CheckTimes DEF WarmInv, WarmTypes
    <2>3. \A y \in Listings : lastCheck'[y] \in Int
        BY <1>13, CheckTimes
    <2>. QED BY <2>1, <2>2, <2>3
<1>18. /\ s[1].at <= lastCheck'[u]
       /\ \A y \in Listings : lastCheck[y] <= lastCheck'[y]
    <2>1. lastCheck' = [lastCheck EXCEPT ![u] = IF s[1].at > @ THEN s[1].at ELSE @]
        BY <1>1, <1>2
    <2>2. lastCheck'[u] = IF s[1].at > lastCheck[u] THEN s[1].at ELSE lastCheck[u]
        BY <2>1, <1>17 DEF WarmInv, WarmTypes
    <2>3. \A y \in Listings : y # u => lastCheck'[y] = lastCheck[y]
        BY <2>1 DEF WarmInv, WarmTypes
    <2> HIDE DEF u
    <2>. QED BY <2>2, <2>3, <1>17
<1>19. DatedTable(e, lastCheck')
    <2>1. lastCheck \in [Listings -> Int] /\ lastCheck' \in [Listings -> Int]
        BY <1>13, CheckTimes DEF WarmInv, WarmTypes
    <2>2. DatedTable(d, lastCheck)
        BY <1>1, AtTables
    <2>3. DatedTable(d, lastCheck')
        BY <1>3, <1>18, <2>1, <2>2, DatedLater
    <2>4. Dated(e.candidates[i], lastCheck')
        BY <1>4, <1>7, <1>18 DEF Dated
    <2>. QED BY <2>3, <2>4, <1>7 DEF DatedTable
<1> HIDE DEF w
<1>. QED BY <1>1, <1>3, <1>5, <1>7, <1>8, <1>9, <1>10, <1>11, <1>12, <1>13, <1>14, <1>15,
            <1>16, <1>18, <1>19, TableStep

LEMMA SurfaceInv == ASSUME WarmInv, NEW c \in Campaigns, Surface(c) PROVE WarmInv'
<1> DEFINE s == script[c]
           h == s[1].hit
           d == db[c]
           row == [h EXCEPT !.availability = Presented(h)]
           e == [d EXCEPT !.candidates = Append(@, row)]
           n == Len(d.candidates)
           w == <<[op |-> "replay", id |-> n + 1, url |-> h.url]>>
<1>1. /\ Writing(c, "surface")
      /\ UNCHANGED <<state, marked, facts, up, index, now, crashes, offered, lastCheck>>
      /\ Then(c, <<[op |-> "replay", id |-> Len(db[c].candidates) + 1, url |-> Head(s).hit.url]>>)
      /\ db' = [db EXCEPT ![c].candidates =
                    Append(@, [Head(s).hit EXCEPT !.availability = Presented(Head(s).hit)])]
    BY DEF Surface
<1>2. /\ s[1] \in Writes /\ s[1].op = "surface" /\ Head(s) = s[1] /\ h \in Rows
    BY <1>1, AtWrite, WriteHas
<1>3. row \in Rows /\ row.url = h.url /\ row.checked = h.checked /\ h.url \in Listings
    <2>1. h.availability \in {"LIVE", "SOLD", "UNKNOWN"}
        BY <1>2 DEF Rows
    <2>2. Presented(h) \in {"LIVE", "SOLD", "UNKNOWN"}
        BY <2>1 DEF Presented
    <2>. QED BY <2>2, <1>2 DEF Rows
<1>4. /\ d \in Database /\ OneEach(d) /\ Fits(s, d) /\ 1 \in DOMAIN s
      /\ \A k, x : Claims(s[1], k, x) => ~ Has(d, k, x)
    BY <1>1, AtTables
<1>5. Claims(s[1], "listing", row.url)
    BY <1>2, <1>3 DEF Claims
<1>6. row.url \notin UrlsOf(d)
    BY <1>4, <1>5 DEF Has
<1>7. db' = [db EXCEPT ![c] = e]
    BY <1>1, <1>2, DbTyped DEF WarmInv
<1> HIDE DEF row
<1>8. /\ e \in Database /\ OneEach(e) /\ UrlsOf(e) = UrlsOf(d) \union {row.url}
      /\ \A k, x : Has(e, k, x) => Has(d, k, x) \/ (k = "listing" /\ x = row.url)
      /\ n \in Nat /\ DOMAIN d.candidates = 1..n /\ DOMAIN e.candidates = 1..(n + 1)
      /\ e.decisions = d.decisions /\ e.results = d.results
    BY <1>3, <1>4, <1>6, AddCandidate
<1>9. Then(c, w)
    BY <1>1, <1>2
<1> HIDE DEF e, n
<1>10. Grown(s, d, e)
    <2>1. DOMAIN d.candidates \subseteq DOMAIN e.candidates
        BY <1>8
    <2>. QED BY <2>1, <1>5, <1>8 DEF Grown
<1>11. w \in Seq(Writes)
    <2>1. n + 1 \in Nat
        BY <1>8
    <2>2. [op |-> "replay", id |-> n + 1, url |-> h.url] \in Writes
        BY <2>1, <1>3 DEF Writes
    <2>. QED BY <2>2
<1>12. Unclaimed(s, w, e) /\ Plain(w)
    <2>1. \A j \in DOMAIN w : j = 1 /\ w[j].op = "replay" /\ w[j].id = n + 1
        OBVIOUS
    <2> HIDE DEF w
    <2>2. \A j \in DOMAIN w : \A k, x : Claims(w[j], k, x) =>
              k \in {"decision", "result"} /\ x = n + 1
        BY <2>1 DEF Claims
    <2>3. n + 1 \notin DOMAIN d.candidates /\ n + 1 \in DOMAIN e.candidates
        BY <1>8
    <2>4. n + 1 \notin ToSet(e.decisions) /\ n + 1 \notin ToSet(e.results)
        BY <2>3, <1>4, <1>8 DEF OneEach
    <2>5. ~ Has(e, "decision", n + 1) /\ ~ Has(e, "result", n + 1)
        BY <2>4 DEF Has
    <2>6. \A j \in DOMAIN s : ~ Claims(s[j], "decision", n + 1) /\ ~ Claims(s[j], "result", n + 1)
        BY <2>3, <1>4 DEF Fits, Claims
    <2>. QED BY <2>1, <2>2, <2>3, <2>5, <2>6 DEF Unclaimed, Plain
<1>13. \A y : Awaits(s[1], y) => y \in UrlsOf(e)
    BY <1>2, <1>3, <1>8 DEF Awaits
<1>14. lastCheck' \in [Listings -> Never..MaxTime]
    BY <1>1 DEF WarmInv, WarmTypes
<1>15. DatedTable(e, lastCheck')
    <2>1. Dated(h, lastCheck) /\ DatedTable(d, lastCheck)
        BY <1>1, <1>2, AtTables DEF DatedScript
    <2>2. Dated(row, lastCheck)
        BY <2>1, <1>3 DEF Dated
    <2>3. DatedTable(e, lastCheck)
        BY <2>1, <2>2, <1>3, <1>4, <1>6, AddCandidate DEF e
    <2>. QED BY <2>3, <1>1
<1>16. DatedScript(w, lastCheck') /\ \A u \in Listings : lastCheck[u] <= lastCheck'[u]
    <2>1. \A j \in DOMAIN w : w[j].op = "replay"
        OBVIOUS
    <2>2. \A u \in Listings : lastCheck[u] <= lastCheck'[u]
        BY <1>1, CheckTimes DEF WarmInv, WarmTypes
    <2> HIDE DEF w
    <2>. QED BY <2>1, <2>2 DEF DatedScript
<1> HIDE DEF w
<1>. QED BY <1>1, <1>7, <1>8, <1>9, <1>10, <1>11, <1>12, <1>13, <1>14,
            <1>15, <1>16, TableStep

\* The tables are as they were, and the campaign goes on with w.
LEMMA ScriptStep ==
    ASSUME WarmInv, NEW c \in Campaigns, NEW op, Writing(c, op),
           op \notin {"mark", "search", "recall", "surface"},
           NEW w \in Seq(Writes),
           UNCHANGED <<campaign, up, index, now, crashes, offered, lastCheck>>,
           Then(c, w), Unclaimed(script[c], w, db[c]), Plain(w), DatedScript(w, lastCheck)
    PROVE  WarmInv'
<1>1. UNCHANGED <<state, marked, facts, up, index, now, crashes, offered>>
      /\ lastCheck' \in [Listings -> Never..MaxTime]
    BY DEF campaign, WarmInv, WarmTypes
<1>2. db' = [db EXCEPT ![c] = db[c]] /\ db[c] \in Database /\ OneEach(db[c])
    BY DbTyped, AtTables DEF campaign, WarmInv
<1>3. Grown(script[c], db[c], db[c])
    BY DEF Grown
<1>4. \A u : ~ Awaits(script[c][1], u)
    BY AtWrite DEF Awaits
<1>5. DatedTable(db[c], lastCheck') /\ \A u \in Listings : lastCheck[u] <= lastCheck'[u]
    BY StaysDated, CheckTimes DEF WarmInv, WarmTypes
<1>. QED BY <1>1, <1>2, <1>3, <1>4, <1>5, TableStep

LEMMA ReplayInv == ASSUME WarmInv, NEW c \in Campaigns, Replay(c) PROVE WarmInv'
<1> DEFINE s == script[c]
           i == s[1].id
           e == index.evidence[s[1].url]
           all == <<Score(i, "fine", e.match), Score(i, "authenticity", e.authenticity),
                    Decision(i), Result(i)>>
           w == IF e = Unmeasured THEN <<>> ELSE all
<1>1. /\ Writing(c, "replay")
      /\ UNCHANGED <<campaign, up, index, now, crashes, offered, lastCheck>>
    BY DEF Replay
<1>2. s[1] \in Writes /\ s[1].op = "replay" /\ Head(s) = s[1] /\ i \in Nat /\ s[1].url \in Listings
      /\ s \in Seq(Writes) /\ s # <<>>
    BY <1>1, AtWrite, WriteHas
<1>3. Then(c, w)
    BY <1>2 DEF Replay
<1>4. e \in Measures
    BY <1>2 DEF WarmInv, WarmTypes
<1>5. Fits(s, db[c]) /\ 1 \in DOMAIN s /\ \A k, x : Claims(s[1], k, x) => ~ Has(db[c], k, x)
    BY <1>1, AtTables
<1>6. w \in Seq(Writes)
    <2>1. /\ Score(i, "fine", e.match) \in Writes
          /\ Score(i, "authenticity", e.authenticity) \in Writes
          /\ Decision(i) \in Writes /\ Result(i) \in Writes
        BY <1>2, <1>4, WritesAre DEF Measures
    <2> HIDE DEF e
    <2>. QED BY <2>1
<1>7. Unclaimed(s, w, db[c]) /\ Plain(w)
    <2>1. CASE w = <<>>
        <3>1. Unclaimed(s, <<>>, db[c]) /\ Plain(<<>>)
            BY DEF Unclaimed, Plain
        <3>. QED BY <2>1, <3>1, Zenon
    <2>2. CASE w = all
        <3>1. /\ DOMAIN all = 1..4 /\ all[1].op = "score" /\ all[2].op = "score"
              /\ all[3].op = "decision" /\ all[3].id = i /\ all[4].op = "result" /\ all[4].id = i
            BY DEF Score, Decision, Result
        <3> HIDE DEF all, w
        <3>2. \A j \in DOMAIN all : /\ all[j].op \in {"score", "decision", "result"}
                                    /\ all[j].op = "decision" => j = 3 /\ all[j].id = i
                                    /\ all[j].op = "result" => j = 4 /\ all[j].id = i
            BY <3>1
        <3>3. \A j \in DOMAIN all : \A k, x : Claims(all[j], k, x) =>
                  x = i /\ ((k = "decision" /\ j = 3) \/ (k = "result" /\ j = 4))
            <4> SUFFICES ASSUME NEW j \in DOMAIN all, NEW k, NEW x, Claims(all[j], k, x)
                         PROVE  x = i /\ ((k = "decision" /\ j = 3) \/ (k = "result" /\ j = 4))
                OBVIOUS
            <4>1. CASE k = "decision"
                <5>1. all[j].op = "decision" /\ all[j].id = x
                    BY <4>1, <3>2 DEF Claims
                <5>. QED BY <5>1, <4>1, <3>2
            <4>2. CASE k = "result"
                <5>1. all[j].op = "result" /\ all[j].id = x
                    BY <4>2, <3>2 DEF Claims
                <5>. QED BY <5>1, <4>2, <3>2
            <4>3. k # "listing"
                BY <3>2 DEF Claims
            <4>. QED BY <4>1, <4>2, <4>3 DEF Claims
        <3>4. Claims(s[1], "decision", i) /\ Claims(s[1], "result", i)
            BY <1>2 DEF Claims
        <3>5. \A j \in DOMAIN s : j > 1 => /\ ~ Claims(s[j], "decision", i)
                                           /\ ~ Claims(s[j], "result", i)
            BY <3>4, <1>5 DEF Fits
        <3>6. i \in DOMAIN db[c].candidates
            BY <1>2, <1>5 DEF Fits
        <3>7. \A j \in DOMAIN all : all[j].op \in {"decision", "result", "replay", "check", "keep"}
                                        => all[j].id = i
            BY <3>2
        <3>8. Unclaimed(s, all, db[c])
            BY <1>5, <3>3, <3>4, <3>5, <3>6, <3>7 DEF Unclaimed
        <3>. QED BY <2>2, <3>2, <3>8 DEF Plain
    <2>. QED BY <2>1, <2>2
<1>8. DatedScript(w, lastCheck)
    <2>1. /\ DOMAIN all = 1..4 /\ all[1].op = "score" /\ all[2].op = "score"
          /\ all[3].op = "decision" /\ all[4].op = "result"
        BY DEF Score, Decision, Result
    <2>2. w = <<>> \/ w = all
        OBVIOUS
    <2> HIDE DEF all, w
    <2>3. \A j \in DOMAIN all : all[j].op \in {"score", "decision", "result"}
        BY <2>1
    <2>4. CASE w = all
        BY <2>3, <2>4 DEF DatedScript
    <2>5. CASE w = <<>>
        BY <2>5 DEF DatedScript
    <2>. QED BY <2>2, <2>4, <2>5
<1> HIDE DEF w
<1>. QED BY <1>1, <1>3, <1>6, <1>7, <1>8, ScriptStep

LEMMA ListingsFinite == IsFiniteSet(Listings)
<1>1. Pack \in Seq(Listings) /\ Len(Pack) \in Nat /\ DOMAIN Pack = 1..Len(Pack)
    BY WarmConstants
<1>2. Pack \in Surjection(1..Len(Pack), Listings)
    BY <1>1 DEF Surjection, Listings, ToSet
<1>3. IsFiniteSet(1..Len(Pack))
    BY <1>1, FS_Interval
<1>. QED BY <1>2, <1>3, FS_Surjection

\* The elements of a finite set, each once.
LEMMA SetToSeqsIs ==
    ASSUME NEW S, IsFiniteSet(S), NEW f \in SetToSeqs(S)
    PROVE  /\ f \in Seq(S) /\ Len(f) \in Nat /\ DOMAIN f = 1..Len(f)
           /\ \A i, j \in DOMAIN f : f[i] = f[j] => i = j
           /\ \A x \in S : \E i \in DOMAIN f : f[i] = x
<1>1. PICK n \in Nat : n = Cardinality(S)
    BY FS_CardinalityType
<1>2. f \in [1..n -> S] /\ \A i, j \in 1..n : i # j => f[i] # f[j]
    BY <1>1 DEF SetToSeqs
<1>3. f \in Seq(S) /\ Len(f) = n /\ DOMAIN f = 1..n
    BY <1>1, <1>2
<1>4. f \in Injection(1..n, S)
    BY <1>2 DEF Injection, IsInjective
<1>5. IsFiniteSet(1..n) /\ Cardinality(1..n) = n
    BY FS_Interval, <1>1
<1>6. f \in Surjection(1..n, S)
    BY <1>1, <1>4, <1>5, FS_Injection
<1>7. \A x \in S : \E i \in 1..n : f[i] = x
    BY <1>6 DEF Surjection
<1>. QED BY <1>1, <1>2, <1>3, <1>7

\* The hits of a search are of different listings, so there are finitely many.
LEMMA HitsFinite ==
    ASSUME NEW H \in SUBSET Rows, \A g, h \in H : g.url = h.url => g = h
    PROVE  IsFiniteSet(H)
<1> DEFINE f == [h \in H |-> h.url]
<1>1. f \in Injection(H, Listings)
    BY DEF Injection, IsInjective, Rows
<1>. QED BY <1>1, ListingsFinite, FS_Injection

LEMMA SearchInv == ASSUME WarmInv, NEW c \in Campaigns, Search(c) PROVE WarmInv'
<1> DEFINE s == script[c]
           H == Hits(c)
           recall == [op |-> "recall", hits |-> H]
           w == IF H = {} THEN <<>> ELSE <<recall>>
           d == db[c]
           m == marked[c]
           o == offered[c] \union Known
<1>1. /\ Writing(c, "search") /\ Then(c, w)
      /\ offered' = [offered EXCEPT ![c] = @ \union Known]
      /\ UNCHANGED <<state, marked, facts, db, up, index, now, crashes, lastCheck>>
    BY DEF Search, campaign
<1>2. /\ s \in Seq(Writes) /\ s # <<>> /\ s[1] \in Writes /\ s[1].op = "search"
      /\ CampaignSound(state[c], m, d, s, offered[c])
    BY <1>1, AtWrite
<1>3. H \in SUBSET Rows /\ (\A g, h \in H : g.url = h.url => g = h)
      /\ \A u \in Known : \E h \in H : h.url = u
    <2>1. \A u \in Known : index.listings[u] \in Rows /\ index.listings[u].url = u
        BY DEF WarmInv, WarmTypes, IndexSound, Known
    <2>. QED BY <2>1 DEF Hits
<1> HIDE DEF H
<1>4. w \in Seq(Writes)
    <2>1. recall \in Writes
        BY <1>3, WritesAre
    <2> HIDE DEF recall
    <2>. QED BY <2>1
<1>5. /\ script' \in [Campaigns -> Seq(Writes)] /\ script'[c] = w \o Tail(s)
      /\ \A b \in Campaigns \ {c} : script'[b] = script[b]
    BY <1>1, <1>2, <1>4, AfterThen
<1>6. /\ offered' \in [Campaigns -> SUBSET Listings] /\ offered'[c] = o
      /\ \A b \in Campaigns \ {c} : offered'[b] = offered[b]
    BY <1>1 DEF WarmInv, WarmTypes, Known
<1>7. o = Known
    BY DEF WarmInv, OffersKnown
<1>8. WarmTypes'
    BY <1>1, <1>5, <1>6 DEF WarmInv, WarmTypes
<1>9. IndexSound' /\ OffersKnown'
    <2>1. Known' = Known
        BY <1>1 DEF Known
    <2>. QED BY <1>1, <1>6, <1>7, <2>1 DEF WarmInv, IndexSound, OffersKnown
<1> DEFINE t == w \o Tail(s)
           n == Len(w)
<1>10. /\ t \in Seq(Writes) /\ Len(s) \in Nat \ {0} /\ n \in Nat
       /\ Len(t) = n + Len(s) - 1
       /\ DOMAIN t = 1..(n + Len(s) - 1) /\ DOMAIN s = 1..Len(s) /\ DOMAIN w = 1..n
       /\ \A i \in 1..n : t[i] = w[i]
       /\ \A i \in DOMAIN t : i > n => t[i] = s[i - n + 1] /\ i - n + 1 \in DOMAIN s
    BY <1>2, <1>4, Follows
<1>11. n \in {0, 1} /\ (H # {} => n = 1) /\ (n = 1 => w[1] = recall)
    <2> HIDE DEF recall
    <2>. QED BY DEF w
<1> HIDE DEF t, n, w
<1>12. /\ m = 2 /\ 1 \in DOMAIN s /\ Len(s) > 1
       /\ \A j \in DOMAIN s : j > 1 => s[j].op \in {"put", "mark"}
       /\ \A j \in DOMAIN s : s[j].op = "mark" <=> j = Len(s)
    <2>1. 1 \in DOMAIN s
        BY <1>10
    <2>2. s[1].op # "mark"
        BY <1>2
    <2>. QED BY <2>1, <2>2, <1>2, <1>10 DEF CampaignSound, Placed
<1>13. \A i \in 1..n : i = 1 /\ t[i] = recall /\ t[i].op = "recall" /\ t[i].hits = H
    BY <1>10, <1>11
<1>14. \A i \in DOMAIN t :
           i > n => /\ t[i] = s[i - n + 1] /\ i - n + 1 \in DOMAIN s
                    /\ t[i].op \in {"put", "mark"}
                    /\ t[i].op = "mark" <=> i = Len(t)
    <2> SUFFICES ASSUME NEW i \in DOMAIN t, i > n
                 PROVE  /\ t[i] = s[i - n + 1] /\ i - n + 1 \in DOMAIN s
                        /\ t[i].op \in {"put", "mark"}
                        /\ t[i].op = "mark" <=> i = Len(t)
        OBVIOUS
    <2>1. t[i] = s[i - n + 1] /\ i - n + 1 \in DOMAIN s /\ i - n + 1 > 1
        BY <1>10
    <2>2. t[i].op = "mark" <=> i - n + 1 = Len(s)
        BY <2>1, <1>12
    <2>. QED BY <2>1, <2>2, <1>10, <1>12
<1>15. Placed(t, m)
    <2>1. \A i \in DOMAIN t : i \in 1..n \/ i > n
        BY <1>10
    <2>2. \A i \in 1..n : i # Len(t)
        BY <1>10, <1>12, <1>13
    <2> HIDE DEF recall
    <2>3. ASSUME NEW i \in DOMAIN t
          PROVE  t[i].op = "mark" <=> i = Len(t)
        <3>1. CASE i \in 1..n
            <4>1. t[i].op = "recall" /\ i # Len(t)
                BY <3>1, <2>2, <1>13
            <4>. QED BY <4>1
        <3>2. CASE i > n
            BY <3>2, <1>14
        <3>. QED BY <3>1, <3>2, <2>1
    <2>4. ASSUME NEW i \in DOMAIN t, t[i].op \in {"search", "recall"}
          PROVE  i = 1 /\ n = 1 /\ t[i].hits = H
        <3>1. CASE i \in 1..n
            <4>1. i = 1 /\ t[i].hits = H
                BY <3>1, <1>13
            <4>2. n = 1
                BY <3>1, <1>11
            <4>. QED BY <4>1, <4>2
        <3>2. CASE i > n
            <4>1. t[i].op \in {"put", "mark"}
                BY <3>2, <1>14
            <4>. QED BY <4>1, <2>4
        <3>. QED BY <3>1, <3>2, <2>1
    <2>5. ASSUME NEW j \in DOMAIN t, n = 1, j > 1 PROVE t[j].op \in {"put", "mark"}
        <3>1. j > n
            BY <2>5
        <3>. QED BY <3>1, <1>14
    <2>. QED BY <2>3, <2>4, <2>5, <1>3, <1>12 DEF Placed
<1>16. Fits(t, d)
    <2>1. \A j \in DOMAIN w : \A k, x : ~ Claims(w[j], k, x)
        BY <1>10, <1>13 DEF Claims
    <2>2. \A j \in DOMAIN w : w[j].op = "recall"
        BY <1>10, <1>13
    <2>3. Unclaimed(s, w, d) /\ Grown(s, d, d)
        BY <2>1, <2>2 DEF Unclaimed, Grown
    <2>. QED BY <1>2, <1>4, <2>3, FitsOn DEF CampaignSound, t
<1>17. TakenOver(t, d, m, o)
    <2>1. ASSUME NEW u \in o PROVE \E i \in DOMAIN t : Awaits(t[i], u)
        <3>1. PICK h \in H : h.url = u
            BY <1>3, <1>7
        <3>2. 1 \in 1..n /\ 1 \in DOMAIN t
            BY <3>1, <1>10, <1>11, <1>12
        <3>3. Awaits(t[1], u)
            BY <3>1, <3>2, <1>13 DEF Awaits
        <3>. QED BY <3>2, <3>3
    <2>. QED BY <2>1, <1>12 DEF TakenOver
<1>18. Course(state[c], m, t)
    BY <1>2 DEF CampaignSound, Course
<1>19. CampaignSound(state[c], m, d, t, o)
    BY <1>2, <1>15, <1>16, <1>17, <1>18 DEF CampaignSound
<1>20. DatedScript(t, lastCheck')
    <2>1. DatedIndex(index.listings, lastCheck) /\ DatedScript(s, lastCheck)
        BY DEF WarmInv, RowsDated
    <2>2. \A h \in H : Dated(h, lastCheck)
        BY <2>1 DEF H, Hits, Known, DatedIndex
    <2>3. \A j \in DOMAIN w : w[j].op = "recall" /\ w[j].hits = H
        BY <1>10, <1>13
    <2>4. DatedScript(w, lastCheck)
        BY <2>2, <2>3 DEF DatedScript
    <2>. QED BY <2>1, <2>4, <1>1, <1>2, <1>4, DatedOn DEF t
<1>21. /\ DatedTable(db[c], lastCheck') /\ DatedIndex(index'.listings, lastCheck')
       /\ \A u \in Listings : lastCheck[u] <= lastCheck'[u]
    <2>1. \A u \in Listings : lastCheck[u] \in Int
        BY CheckTimes DEF WarmInv, WarmTypes
    <2>2. DatedIndex(index.listings, lastCheck) /\ DatedTable(db[c], lastCheck)
        BY DEF WarmInv, RowsDated
    <2>. QED BY <2>1, <2>2, <1>1
<1>. QED BY <1>1, <1>5, <1>6, <1>8, <1>9, <1>19, <1>20, <1>21, OneMoves DEF t

LEMMA RecallInv == ASSUME WarmInv, NEW c \in Campaigns, Recall(c) PROVE WarmInv'
<1> DEFINE s == script[c]
           d == db[c]
           H == s[1].hits
           Unheld == {h \in H : h.url \notin UrlsOf(d)}
           known == facts[c] \intersect index.queries # {}
           skip == IF known THEN <<Put("skip")>> ELSE <<>>
<1>1. /\ Writing(c, "recall")
      /\ UNCHANGED <<campaign, up, index, now, crashes, offered, lastCheck>>
    BY DEF Recall
<1>2. /\ s \in Seq(Writes) /\ s # <<>> /\ s[1] \in Writes /\ s[1].op = "recall" /\ Head(s) = s[1]
      /\ CampaignSound(state[c], marked[c], d, s, offered[c]) /\ H \in SUBSET Rows
    BY <1>1, AtWrite, WriteHas
<1>3. /\ d \in Database /\ OneEach(d) /\ 1 \in DOMAIN s
    BY <1>1, AtTables
<1>4. /\ \A g, h \in H : g.url = h.url => g = h
      /\ \A j \in DOMAIN s : j > 1 => s[j].op \in {"put", "mark"}
    BY <1>2, <1>3 DEF CampaignSound, Placed
<1>5. Unheld \subseteq Rows /\ IsFiniteSet(Unheld)
    BY <1>2, <1>4, HitsFinite, FS_Subset
<1>6. Urls(c) = UrlsOf(d)
    BY DEF Urls, UrlsOf
<1>7. PICK new \in SetToSeqs(Unheld) :
          Then(c, [i \in DOMAIN new |-> [op |-> "surface", hit |-> new[i]]] \o skip)
    BY <1>2, <1>6 DEF Recall
<1> DEFINE f == [i \in DOMAIN new |-> [op |-> "surface", hit |-> new[i]]]
           w == f \o skip
           n == Len(new)
<1>8. /\ new \in Seq(Unheld) /\ n \in Nat /\ DOMAIN new = 1..n
      /\ \A i, j \in DOMAIN new : new[i] = new[j] => i = j
      /\ \A x \in Unheld : \E i \in DOMAIN new : new[i] = x
    <2> HIDE DEF Unheld
    <2>. QED BY <1>5, SetToSeqsIs
<1>9. \A i \in 1..n : new[i] \in Unheld /\ new[i] \in Rows
    BY <1>5, <1>8
<1>10. f \in Seq(Writes) /\ Len(f) = n /\ DOMAIN f = 1..n
    <2>1. \A i \in 1..n : f[i] \in Writes
        BY <1>8, <1>9, WritesAre
    <2>2. f \in [1..n -> Writes]
        <3>1. DOMAIN f = 1..n /\ f = [i \in 1..n |-> f[i]]
            BY <1>8
        <3> HIDE DEF f
        <3>. QED BY <2>1, <3>1
    <2> HIDE DEF f
    <2>. QED BY <2>2, <1>8
<1>11. skip \in Seq(Writes) /\ Len(skip) \in {0, 1} /\ \A i \in DOMAIN skip : skip[i].op = "put"
    <2>1. Put("skip") \in Writes /\ Put("skip").op = "put"
        BY WritesAre DEF Facts, Put
    <2>2. CASE known
        <3>1. skip = <<Put("skip")>>
            BY <2>2
        <3> HIDE DEF skip
        <3>. QED BY <2>1, <3>1
    <2>3. CASE ~known
        <3>1. skip = <<>>
            BY <2>3
        <3> HIDE DEF skip
        <3>. QED BY <3>1
    <2>. QED BY <2>2, <2>3
<1> HIDE DEF skip
<1>12. /\ \A i \in 1..n : f[i].op = "surface" /\ f[i].hit = new[i]
    BY <1>8
<1> HIDE DEF f
<1>13. w \in Seq(Writes) /\ DOMAIN w = 1..(n + Len(skip))
       /\ (\A i \in 1..n : w[i] = f[i])
       /\ \A i \in DOMAIN w : i > n => w[i].op = "put"
    <2>1. /\ w \in Seq(Writes) /\ DOMAIN w = 1..(n + Len(skip))
          /\ \A i \in DOMAIN f : w[i] = f[i]
          /\ \A i \in DOMAIN w : i \notin DOMAIN f => \E j \in DOMAIN skip : w[i] = skip[j]
        <3>1. w = f \o skip
            OBVIOUS
        <3> HIDE DEF w
        <3>2. f \in Seq(Writes) /\ skip \in Seq(Writes)
            BY <1>10, <1>11
        <3>3. /\ w \in Seq(Writes) /\ DOMAIN w = 1..(Len(f) + Len(skip))
              /\ \A i \in DOMAIN f : w[i] = f[i]
              /\ \A i \in DOMAIN w : i \notin DOMAIN f =>
                     w[i] = skip[i - Len(f)] /\ i - Len(f) \in DOMAIN skip
            BY <3>1, <3>2, Concatenated
        <3> HIDE DEF n
        <3>4. \A i \in DOMAIN w : i \notin DOMAIN f => \E j \in DOMAIN skip : w[i] = skip[j]
            BY <3>3
        <3>5. DOMAIN w = 1..(n + Len(skip))
            BY <3>3, <1>10
        <3>. QED BY <3>3, <3>4, <3>5
    <2>2. \A i \in DOMAIN w : i > n => i \notin DOMAIN f
        BY <1>8, <1>10
    <2>. QED BY <2>1, <2>2, <1>10, <1>11
<1> HIDE DEF w, n
<1>14. \A i \in DOMAIN w : \/ i \in 1..n /\ w[i].op = "surface" /\ w[i].hit = new[i]
                           \/ w[i].op = "put"
    BY <1>8, <1>11, <1>12, <1>13
<1>15. \A i \in DOMAIN w : \A k, x : Claims(w[i], k, x) =>
           k = "listing" /\ i \in 1..n /\ new[i].url = x
    BY <1>14 DEF Claims
<1>16. Unclaimed(s, w, d) /\ Plain(w)
    <2>1. \A j \in DOMAIN s : j > 1 => \A k, x : ~ Claims(s[j], k, x)
        BY <1>4 DEF Claims
    <2>2. \A i \in 1..n : ~ Has(d, "listing", new[i].url)
        BY <1>9 DEF Has
    <2>3. \A i, j \in 1..n : new[i].url = new[j].url => i = j
        <3> SUFFICES ASSUME NEW i \in 1..n, NEW j \in 1..n, new[i].url = new[j].url PROVE i = j
            OBVIOUS
        <3>1. new[i] \in H /\ new[j] \in H
            BY <1>9
        <3>2. new[i] = new[j]
            BY <3>1, <1>4
        <3>. QED BY <3>2, <1>8
    <2>4. \A i \in DOMAIN w : w[i].op \in {"surface", "put"}
        BY <1>14
    <2>5. Plain(w)
        BY <2>4 DEF Plain
    <2>6. \A i \in DOMAIN w : w[i].op \notin {"decision", "result", "replay", "check", "keep"}
        BY <2>4
    <2>. QED BY <2>1, <2>2, <2>3, <2>5, <2>6, <1>15 DEF Unclaimed
<1>17. \A u : Awaits(s[1], u) => u \in UrlsOf(d) \/ \E i \in DOMAIN w : Awaits(w[i], u)
    <2> SUFFICES ASSUME NEW u, Awaits(s[1], u), u \notin UrlsOf(d)
                 PROVE  \E i \in DOMAIN w : Awaits(w[i], u)
        OBVIOUS
    <2>1. PICK h \in H : h.url = u
        BY <1>2 DEF Awaits
    <2>2. h \in Unheld
        BY <2>1
    <2>3. PICK i \in 1..n : new[i] = h
        BY <2>2, <1>8
    <2>4. i \in DOMAIN w /\ w[i] = f[i]
        BY <1>8, <1>11, <1>13
    <2>5. Awaits(w[i], u)
        BY <2>1, <2>3, <2>4, <1>12 DEF Awaits
    <2>. QED BY <2>4, <2>5
<1>18. Then(c, w)
    BY <1>7 DEF w, f
<1>19. /\ UNCHANGED <<state, marked, facts, up, index, now, crashes, offered>>
       /\ lastCheck' \in [Listings -> Never..MaxTime]
    BY <1>1 DEF campaign, WarmInv, WarmTypes
<1>20. db' = [db EXCEPT ![c] = d]
    BY <1>1, DbTyped DEF campaign, WarmInv
<1>21. Grown(s, d, d)
    BY DEF Grown
<1>22. DatedScript(w, lastCheck')
    <2>1. \A h \in H : Dated(h, lastCheck')
        BY <1>1, <1>2, AtTables DEF DatedScript
    <2>2. \A i \in DOMAIN w : \/ w[i].op = "surface" /\ w[i].hit \in H
                             \/ w[i].op = "put"
        BY <1>9, <1>14
    <2>. QED BY <2>1, <2>2 DEF DatedScript
<1>23. DatedTable(d, lastCheck') /\ \A u \in Listings : lastCheck[u] <= lastCheck'[u]
    BY <1>1, StaysDated, CheckTimes DEF WarmInv, WarmTypes
<1>. QED BY <1>1, <1>3, <1>13, <1>16, <1>17, <1>18, <1>19, <1>20, <1>21, <1>22, <1>23, TableStep

\* What is written of a listing that no live stage has had.
Unseen(w) == \A i \in DOMAIN w : /\ w[i].op \notin {"surface", "recall"}
                                 /\ w[i].op = "candidate" => w[i].row.checked = Never

\* Writes without claims, of candidates that are there.
LEMMA NoClaims ==
    ASSUME NEW s, NEW w, NEW d,
           \A i \in DOMAIN w :
               \/ w[i].op \in {"put", "need", "score", "query", "evidence", "remember"}
               \/ w[i].op \in {"check", "keep"} /\ w[i].id \in DOMAIN d.candidates
    PROVE  Unclaimed(s, w, d) /\ Plain(w) /\ Unseen(w) /\ \A L : DatedScript(w, L)
<1>1. \A i \in DOMAIN w : \A k, x : ~ Claims(w[i], k, x)
    BY DEF Claims
<1>2. \A i \in DOMAIN w : w[i].op \notin {"candidate", "surface", "recall", "mark", "search"}
    OBVIOUS
<1>3. Unclaimed(s, w, d)
    BY <1>1 DEF Unclaimed
<1>4. Plain(w) /\ Unseen(w) /\ \A L : DatedScript(w, L)
    BY <1>2 DEF Plain, Unseen, DatedScript
<1>. QED BY <1>3, <1>4

LEMMA RememberInv == ASSUME WarmInv, NEW c \in Campaigns, Remember(c) PROVE WarmInv'
<1> DEFINE d == db[c]
           asked == IF "run" \in facts[c] THEN facts[c] \intersect ToSet(QueryTexts) ELSE {}
           f == [i \in DOMAIN d.candidates |-> [op |-> "keep", id |-> i]]
<1>1. /\ Writing(c, "remember")
      /\ UNCHANGED <<campaign, up, index, now, crashes, offered, lastCheck>>
    BY DEF Remember
<1>2. PICK texts \in SetToSeqs(asked) :
          Then(c, f \o [i \in DOMAIN texts |-> [op |-> "query", text |-> texts[i]]])
    BY DEF Remember, ForEach
<1> DEFINE g == [i \in DOMAIN texts |-> [op |-> "query", text |-> texts[i]]]
<1>3. PICK w : w = f \o g
    OBVIOUS
<1>4. Then(c, w)
    BY <1>2, <1>3
<1>5. d.candidates \in Seq(Rows)
    BY <1>1, AtTables DEF Database
<1>6. f \in Seq(Writes) /\ \A i \in DOMAIN f : /\ f[i].op = "keep" /\ f[i].id = i
                                               /\ i \in DOMAIN d.candidates
    <2>1. PICK n \in Nat : n = Len(d.candidates)
        BY <1>5
    <2>2. DOMAIN d.candidates = 1..n
        BY <1>5, <2>1
    <2>3. f = [i \in 1..n |-> [op |-> "keep", id |-> i]]
        BY <2>2
    <2>4. \A i \in 1..n : [op |-> "keep", id |-> i] \in Writes
        BY <2>1 DEF Writes
    <2>5. f \in [1..n -> Writes]
        BY <2>3, <2>4
    <2> HIDE DEF f
    <2>6. f \in Seq(Writes) /\ DOMAIN f = 1..n
        BY <2>1, <2>5
    <2>. QED BY <2>2, <2>3, <2>6
<1>7. g \in Seq(Writes) /\ \A i \in DOMAIN g : g[i].op = "query"
    <2>1. asked \subseteq ToSet(QueryTexts) /\ IsFiniteSet(asked)
        <3>1. QueryTexts \in Seq(ToSet(QueryTexts))
            BY WarmConstants
        <3>2. /\ QueryTexts \in Surjection(1..Len(QueryTexts), ToSet(QueryTexts))
              /\ Len(QueryTexts) \in Nat
            BY <3>1 DEF Surjection, ToSet
        <3>3. IsFiniteSet(ToSet(QueryTexts))
            BY <3>2, FS_Interval, FS_Surjection
        <3>. QED BY <3>3, FS_Subset
    <2> HIDE DEF asked
    <2>2. texts \in Seq(asked) /\ Len(texts) \in Nat /\ DOMAIN texts = 1..Len(texts)
        BY <2>1, SetToSeqsIs
    <2>3. PICK n \in Nat : n = Len(texts)
        BY <2>2
    <2>4. \A i \in 1..n : texts[i] \in ToSet(QueryTexts)
        BY <2>1, <2>2, <2>3
    <2>5. \A i \in 1..n : [op |-> "query", text |-> texts[i]] \in Writes
        BY <2>4, WritesAre
    <2>6. g = [i \in 1..n |-> [op |-> "query", text |-> texts[i]]]
        BY <2>2, <2>3
    <2>7. g \in [1..n -> Writes]
        BY <2>5, <2>6
    <2>8. \A i \in DOMAIN g : g[i].op = "query"
        OBVIOUS
    <2> HIDE DEF g
    <2>9. g \in Seq(Writes)
        BY <2>3, <2>7
    <2>. QED BY <2>8, <2>9
<1> HIDE DEF f, g
<1>8. /\ w \in Seq(Writes)
      /\ \A i \in DOMAIN f : w[i] = f[i]
      /\ \A i \in DOMAIN w : i \notin DOMAIN f => w[i] = g[i - Len(f)] /\ i - Len(f) \in DOMAIN g
    BY <1>3, <1>6, <1>7, Concatenated
<1>9. \A i \in DOMAIN w : \/ w[i].op = "query"
                          \/ w[i].op = "keep" /\ w[i].id \in DOMAIN d.candidates
    BY <1>6, <1>7, <1>8
<1>10. Unclaimed(script[c], w, d) /\ Plain(w) /\ DatedScript(w, lastCheck)
    BY <1>9, NoClaims
<1>. QED BY <1>1, <1>4, <1>8, <1>10, ScriptStep

\* A write to the index, after which the campaign goes on with w.
LEMMA IndexStep ==
    ASSUME WarmInv, NEW c \in Campaigns, NEW op, Writing(c, op),
           op \notin {"mark", "search", "recall", "surface"}, NEW w \in Seq(Writes),
           UNCHANGED <<campaign, up, now, crashes, offered, lastCheck>>,
           Then(c, w), Unclaimed(script[c], w, db[c]), Plain(w), DatedScript(w, lastCheck),
           index' \in [listings : [Listings -> Rows \union {Nothing}],
                       evidence : [Listings -> Measures], queries : SUBSET ToSet(QueryTexts)],
           \A u \in Listings : \/ index'.listings[u] = index.listings[u]
                               \/ /\ index'.listings[u] \in Rows /\ index'.listings[u].url = u
                                  /\ Dated(index'.listings[u], lastCheck)
    PROVE  WarmInv'
<1> DEFINE s == script[c]
           d == db[c]
<1>1. /\ s \in Seq(Writes) /\ s # <<>> /\ s[1].op = op
      /\ CampaignSound(state[c], marked[c], d, s, offered[c]) /\ OneEach(d)
    BY AtWrite, AtTables
<1>2. /\ script' \in [Campaigns -> Seq(Writes)] /\ script'[c] = w \o Tail(s)
      /\ \A b \in Campaigns \ {c} : script'[b] = script[b]
    BY <1>1, AfterThen
<1>3. UNCHANGED <<state, marked, facts, db, up, now, crashes, offered, lastCheck>>
    BY DEF campaign
<1>4. WarmTypes'
    BY <1>2, <1>3 DEF WarmInv, WarmTypes
<1>5. Nothing \notin Rows
    BY DEF Nothing, Rows
<1>6. IndexSound'
    BY <1>5 DEF WarmInv, IndexSound
<1>7. Known \subseteq Known'
    BY <1>5 DEF Known
<1>8. OffersKnown'
    BY <1>3, <1>7 DEF WarmInv, OffersKnown
<1>9. Grown(s, d, d)
    BY DEF Grown
<1>10. \A u : ~ Awaits(s[1], u)
    BY <1>1 DEF Awaits
<1>11. CampaignSound(state[c], marked[c], d, w \o Tail(s), offered[c])
    BY <1>1, <1>9, <1>10, SoundOn
<1>12. DatedScript(w \o Tail(s), lastCheck') /\ DatedTable(d, lastCheck')
    <2>1. DatedScript(s, lastCheck) /\ DatedTable(d, lastCheck)
        BY DEF WarmInv, RowsDated
    <2>2. DatedScript(w \o Tail(s), lastCheck)
        BY <1>1, <2>1, DatedOn
    <2>. QED BY <1>3, <2>1, <2>2
<1>13. /\ DatedIndex(index'.listings, lastCheck')
       /\ \A u \in Listings : lastCheck[u] <= lastCheck'[u]
    <2>1. DatedIndex(index.listings, lastCheck)
        BY DEF WarmInv, RowsDated
    <2>2. DatedIndex(index'.listings, lastCheck)
        BY <2>1 DEF DatedIndex
    <2>3. \A u \in Listings : lastCheck[u] \in Int
        BY CheckTimes DEF WarmInv, WarmTypes
    <2>. QED BY <1>3, <2>2, <2>3
<1>. QED BY <1>2, <1>3, <1>4, <1>6, <1>8, <1>11, <1>12, <1>13, OneMoves

LEMMA LastLevelType ==
    ASSUME WarmInv, NEW c \in Campaigns, NEW i, NEW kind, ScoresOf(c, i, kind) # {}
    PROVE  LastLevel(c, i, kind) \in Levels
<1> DEFINE S == db[c].scores
           T == ScoresOf(c, i, kind)
<1>1. S \in Seq(ScoreRows)
    BY DEF WarmInv, WarmTypes
<1>2. DOMAIN S = 1..Len(S) /\ Len(S) \in Nat
    BY <1>1
<1>3. IsFiniteSet(1..Len(S)) /\ T \subseteq 1..Len(S)
    <2>1. IsFiniteSet(1..Len(S))
        BY <1>2, FS_Interval
    <2>2. T \subseteq DOMAIN S
        BY DEF ScoresOf
    <2>. QED BY <2>1, <2>2, <1>2
<1>4. IsFiniteSet(T) /\ T \subseteq Nat
    BY <1>3, <1>2, FS_Subset
<1>5. Max(T) \in DOMAIN S
    <2> HIDE DEF T
    <2>. QED BY <1>2, <1>3, <1>4, MaxFacts DEF T
<1>6. S[Max(T)] \in ScoreRows
    BY <1>1, <1>5
<1>. QED BY <1>6 DEF LastLevel, ScoreRows

LEMMA KeepListingInv == ASSUME WarmInv, NEW c \in Campaigns, KeepListing(c) PROVE WarmInv'
<1> DEFINE s == script[c]
           i == s[1].id
           row == db[c].candidates[i]
           e == [op |-> "evidence", url |-> row.url,
                 levels |-> [match |-> LastLevel(c, i, "fine"),
                             authenticity |-> LastLevel(c, i, "authenticity")]]
           w == IF {} \in {ScoresOf(c, i, "fine"), ScoresOf(c, i, "authenticity")} THEN <<>>
                ELSE <<e>>
<1>1. Writing(c, "keep") /\ UNCHANGED <<campaign, up, now, crashes, offered, lastCheck>>
    BY DEF KeepListing
<1>2. s[1] \in Writes /\ s[1].op = "keep" /\ Head(s) = s[1] /\ i \in Nat
    BY <1>1, AtWrite, WriteHas
<1>3. index' = [index EXCEPT !.listings[row.url] = row] /\ Then(c, w)
    BY <1>2 DEF KeepListing, Kept
<1>4. db[c] \in Database /\ Fits(s, db[c]) /\ 1 \in DOMAIN s
    BY <1>1, AtTables
<1>5. row \in Rows /\ row.url \in Listings /\ Dated(row, lastCheck)
    <2>1. i \in DOMAIN db[c].candidates /\ db[c].candidates \in Seq(Rows)
        BY <1>2, <1>4 DEF Fits, Database
    <2>2. row \in Rows
        BY <2>1
    <2>3. Dated(row, lastCheck)
        BY <1>1, <2>1, AtTables DEF DatedTable
    <2>. QED BY <2>2, <2>3 DEF Rows
<1> HIDE DEF row
<1>6. /\ index' \in [listings : [Listings -> Rows \union {Nothing}],
                     evidence : [Listings -> Measures], queries : SUBSET ToSet(QueryTexts)]
      /\ \A u \in Listings : \/ index'.listings[u] = index.listings[u]
                             \/ /\ index'.listings[u] \in Rows /\ index'.listings[u].url = u
                                /\ Dated(index'.listings[u], lastCheck)
    BY <1>3, <1>5 DEF WarmInv, WarmTypes
<1>7. w \in Seq(Writes) /\ \A j \in DOMAIN w : w[j].op = "evidence"
    <2>1. CASE w = <<>>
        <3>1. <<>> \in Seq(Writes) /\ \A j \in DOMAIN <<>> : <<>>[j].op = "evidence"
            OBVIOUS
        <3> HIDE DEF w
        <3>. QED BY <2>1, <3>1
    <2>2. CASE ScoresOf(c, i, "fine") # {} /\ ScoresOf(c, i, "authenticity") # {}
        <3>1. w = <<e>>
            BY <2>2
        <3>2. e.levels \in Measures
            BY <2>2, LastLevelType DEF Measures
        <3>3. e \in Writes /\ e.op = "evidence"
            BY <3>2, <1>5, WritesAre
        <3> HIDE DEF w, e
        <3>. QED BY <3>1, <3>3
    <2>. QED BY <2>1, <2>2
<1> HIDE DEF w
<1>8. Unclaimed(s, w, db[c]) /\ Plain(w) /\ DatedScript(w, lastCheck)
    BY <1>7, NoClaims
<1>. QED BY <1>1, <1>3, <1>6, <1>7, <1>8, IndexStep

LEMMA KeepEvidenceInv == ASSUME WarmInv, NEW c \in Campaigns, KeepEvidence(c) PROVE WarmInv'
<1> DEFINE s == script[c]
<1>1. Writing(c, "evidence") /\ Done(c)
      /\ UNCHANGED <<campaign, up, now, crashes, offered, lastCheck>>
    BY DEF KeepEvidence
<1>2. /\ s[1] \in Writes /\ s[1].op = "evidence" /\ Head(s) = s[1] /\ s # <<>>
      /\ s[1].url \in Listings /\ s[1].levels \in Measures
    BY <1>1, AtWrite, WriteHas
<1>3. index' = [index EXCEPT !.evidence[s[1].url] = s[1].levels]
    BY <1>2 DEF KeepEvidence
<1>4. /\ index' \in [listings : [Listings -> Rows \union {Nothing}],
                     evidence : [Listings -> Measures], queries : SUBSET ToSet(QueryTexts)]
      /\ index'.listings = index.listings
    BY <1>2, <1>3 DEF WarmInv, WarmTypes
<1>5. Then(c, <<>>) /\ <<>> \in Seq(Writes)
    BY <1>1, <1>2, DoneIsThen
<1>6. Unclaimed(s, <<>>, db[c]) /\ Plain(<<>>) /\ DatedScript(<<>>, lastCheck)
    BY DEF Unclaimed, Plain, DatedScript
<1>. QED BY <1>1, <1>4, <1>5, <1>6, IndexStep

LEMMA RecordQueryInv == ASSUME WarmInv, NEW c \in Campaigns, RecordQuery(c) PROVE WarmInv'
<1> DEFINE s == script[c]
<1>1. Writing(c, "query") /\ Done(c)
      /\ UNCHANGED <<campaign, up, now, crashes, offered, lastCheck>>
    BY DEF RecordQuery
<1>2. /\ s[1] \in Writes /\ s[1].op = "query" /\ Head(s) = s[1] /\ s # <<>>
      /\ s[1].text \in ToSet(QueryTexts)
    BY <1>1, AtWrite, WriteHas
<1>3. index' = [index EXCEPT !.queries = @ \union {s[1].text}]
    BY <1>2 DEF RecordQuery
<1>4. /\ index' \in [listings : [Listings -> Rows \union {Nothing}],
                     evidence : [Listings -> Measures], queries : SUBSET ToSet(QueryTexts)]
      /\ index'.listings = index.listings
    BY <1>2, <1>3 DEF WarmInv, WarmTypes
<1>5. Then(c, <<>>) /\ <<>> \in Seq(Writes)
    BY <1>1, <1>2, DoneIsThen
<1>6. Unclaimed(s, <<>>, db[c]) /\ Plain(<<>>) /\ DatedScript(<<>>, lastCheck)
    BY DEF Unclaimed, Plain, DatedScript
<1>. QED BY <1>1, <1>4, <1>5, <1>6, IndexStep

\* What a handler that does not consult the index sets out to write.
Starting(w, d) ==
    w \in Seq(Writes) /\ Plain(w) /\ Unclaimed(<<>>, w, d) /\ Unseen(w)

LEMMA OnceStarts ==
    ASSUME NEW there, NEW w, NEW d, there \/ Starting(w, d)
    PROVE  Starting(Once(there, w), d)
<1>1. Starting(<<>>, d)
    BY DEF Starting, Plain, Unclaimed, Unseen
<1>2. CASE there
    BY <1>1, <1>2 DEF Once
<1>3. CASE ~ there
    BY <1>3 DEF Once
<1>. QED BY <1>2, <1>3

LEMMA StepNames ==
    ASSUME NEW m \in 0..12
    PROVE  Steps[m + 1] \in ToSet(Steps) /\ (Steps[m + 1] = "COMPLETE" => m = 12)
<1>1. m + 1 \in DOMAIN Steps
    BY DEF Steps
<1>2. Steps[m + 1] = "COMPLETE" => m = 12
    BY DEF Steps
<1>. QED BY <1>1, <1>2 DEF ToSet

\* The script a step begins with: the writes of its handler, and the mark.
LEMMA BeginsSound ==
    ASSUME NEW w \in Seq(Writes), NEW st, NEW m \in 0..12, NEW d, NEW o,
           CampaignSound(st, m, d, <<>>, o), Unclaimed(<<>>, w, d),
           \/ m # 2 /\ Plain(w)
           \/ /\ m = 2 /\ w # <<>> /\ w[1].op = "search"
              /\ \A i \in DOMAIN w : i > 1 => w[i].op = "put"
    PROVE  LET s == Append(w, [op |-> "mark"]) IN
           s \in Seq(Writes) /\ CampaignSound(Steps[m + 1], m, d, s, o)
<1> DEFINE n == Len(w)
           s == Append(w, [op |-> "mark"])
<1>1. /\ n \in Nat /\ DOMAIN w = 1..n /\ DOMAIN s = 1..(n + 1) /\ s # <<>>
      /\ Len(s) = n + 1 /\ s[n + 1] = [op |-> "mark"] /\ \A i \in 1..n : s[i] = w[i]
    OBVIOUS
<1>2. s \in Seq(Writes)
    BY WritesAre
<1>3. w # <<>> => 1 \in 1..n
    OBVIOUS
<1> HIDE DEF n, s
<1>4. \A i \in DOMAIN s : (i \in 1..n /\ s[i] = w[i]) \/ (i = n + 1 /\ s[i].op = "mark")
    <2>1. s[n + 1].op = "mark"
        BY <1>1
    <2>2. \A i \in DOMAIN s : i \in 1..n \/ i = n + 1
        BY <1>1
    <2>. QED BY <2>1, <2>2, <1>1
<1>5. ASSUME NEW i \in DOMAIN s, NEW k, NEW x, Claims(s[i], k, x)
      PROVE  i \in DOMAIN w /\ s[i] = w[i]
    BY <1>1, <1>4, <1>5 DEF Claims
<1>6. Fits(s, d)
    <2>1. ASSUME NEW i \in DOMAIN s, NEW k, NEW x, Claims(s[i], k, x) PROVE ~ Has(d, k, x)
        BY <2>1, <1>5 DEF Unclaimed
    <2>2. ASSUME NEW i \in DOMAIN s, NEW j \in DOMAIN s, NEW k, NEW x,
                 Claims(s[i], k, x), Claims(s[j], k, x)
          PROVE  i = j
        <3>1. i \in DOMAIN w /\ s[i] = w[i]
            BY <2>2, <1>5
        <3>2. j \in DOMAIN w /\ s[j] = w[j]
            BY <2>2, <1>5
        <3>. QED BY <3>1, <3>2, <2>2 DEF Unclaimed
    <2>3. ASSUME NEW i \in DOMAIN s, s[i].op \in {"decision", "result", "replay", "check", "keep"}
          PROVE  s[i].id \in DOMAIN d.candidates
        BY <2>3, <1>1, <1>4 DEF Unclaimed
    <2>. QED BY <2>1, <2>2, <2>3 DEF Fits
<1>7. Placed(s, m)
    <2>1. \A i \in DOMAIN w : w[i].op # "mark"
        <3>1. CASE Plain(w)
            BY <3>1 DEF Plain
        <3>2. CASE w # <<>> /\ w[1].op = "search" /\ \A i \in DOMAIN w : i > 1 => w[i].op = "put"
            <4>1. \A i \in DOMAIN w : i = 1 \/ i > 1
                BY <1>1
            <4>. QED BY <4>1, <3>2
        <3>. QED BY <3>1, <3>2
    <2>2. \A i \in DOMAIN s : (s[i].op = "mark") <=> (i = Len(s))
        BY <2>1, <1>1, <1>4
    <2>3. ASSUME NEW i \in DOMAIN s, s[i].op \in {"search", "recall"}
          PROVE  /\ i = 1 /\ m = 2 /\ s[i].op = "search"
                 /\ \A j \in DOMAIN s : j > 1 => s[j].op \in {"put", "mark"}
        <3>1. i \in DOMAIN w /\ s[i] = w[i]
            BY <2>3, <1>1, <1>4
        <3>2. ~ Plain(w)
            BY <2>3, <3>1 DEF Plain
        <3>3. m = 2 /\ w[1].op = "search" /\ \A j \in DOMAIN w : j > 1 => w[j].op = "put"
            BY <3>2
        <3>4. i = 1
            BY <2>3, <3>1, <3>3, <1>1
        <3>5. \A j \in DOMAIN s : j > 1 => s[j].op \in {"put", "mark"}
            BY <3>3, <1>1, <1>4
        <3>. QED BY <3>1, <3>3, <3>4, <3>5
    <2>4. \A i \in DOMAIN s : s[i].op # "recall"
        BY <2>3
    <2>. QED BY <2>2, <2>3, <2>4 DEF Placed
<1>8. TakenOver(s, d, m, o)
    <2>1. m >= 3 => o \subseteq UrlsOf(d)
        BY DEF CampaignSound, TakenOver
    <2>2. m = 2 => s[1].op = "search"
        BY <1>1, <1>3
    <2>. QED BY <2>1, <2>2 DEF TakenOver
<1>9. Course(Steps[m + 1], m, s)
    BY StepNames DEF Course
<1>10. OneEach(d)
    BY DEF CampaignSound
<1>. QED BY <1>2, <1>6, <1>7, <1>8, <1>9, <1>10 DEF CampaignSound, s

\* One write for each candidate.
LEMMA ForEachStarts ==
    ASSUME WarmInv, NEW c \in Campaigns, NEW w, DOMAIN w = DOMAIN db[c].candidates,
           w = [i \in DOMAIN w |-> w[i]],
           \A i \in DOMAIN w : w[i] \in Writes /\ \/ w[i].op = "score"
                                                  \/ w[i].op = "check" /\ w[i].id = i
    PROVE  Starting(w, db[c])
<1>1. db[c].candidates \in Seq(Rows)
    BY DEF WarmInv, WarmTypes
<1>2. PICK n \in Nat : n = Len(db[c].candidates)
    BY <1>1
<1>3. DOMAIN w = 1..n
    BY <1>1, <1>2
<1>4. w \in [1..n -> Writes]
    BY <1>3
<1>5. w \in Seq(Writes)
    BY <1>2, <1>4
<1>6. \A i \in DOMAIN w : \/ w[i].op \in {"score"}
                          \/ w[i].op \in {"check"} /\ w[i].id \in DOMAIN db[c].candidates
    OBVIOUS
<1>7. Unclaimed(<<>>, w, db[c]) /\ Plain(w) /\ Unseen(w)
    BY <1>6, NoClaims
<1>. QED BY <1>5, <1>7 DEF Starting

LEMMA PutsStart ==
    ASSUME NEW d, NEW a, NEW b, a \in Facts, b \in Facts
    PROVE  /\ Starting(<<Put(a)>>, d) /\ Starting(<<Put(a), Put(b)>>, d)
           /\ Starting(<<Put(a), Need(b)>>, d)
<1>1. /\ Put(a) \in Writes /\ Put(b) \in Writes /\ Need(b) \in Writes
      /\ Put(a).op = "put" /\ Put(b).op = "put" /\ Need(b).op = "need"
    BY WritesAre DEF Put, Need
<1>2. ASSUME NEW x \in Writes, NEW y \in Writes,
             x.op \in {"put", "need"}, y.op \in {"put", "need"}
      PROVE  Starting(<<x>>, d) /\ Starting(<<x, y>>, d)
    <2>1. <<x>> \in Seq(Writes) /\ <<x, y>> \in Seq(Writes)
        OBVIOUS
    <2>2. PICK v : v = <<x>>
        OBVIOUS
    <2>3. PICK w : w = <<x, y>>
        OBVIOUS
    <2>4. \A i \in DOMAIN v : v[i].op \in {"put", "need"}
        BY <1>2, <2>2
    <2>5. \A i \in DOMAIN w : w[i].op \in {"put", "need"}
        BY <1>2, <2>3
    <2>6. Unclaimed(<<>>, v, d) /\ Plain(v) /\ Unseen(v)
        BY <2>4, NoClaims
    <2>7. Unclaimed(<<>>, w, d) /\ Plain(w) /\ Unseen(w)
        BY <2>5, NoClaims
    <2>. QED BY <2>1, <2>2, <2>3, <2>6, <2>7 DEF Starting
<1>. QED BY <1>1, <1>2

LEMMA PlanQueriesStart == ASSUME WarmInv, NEW c \in Campaigns PROVE Starting(PlanQueries(c), db[c])
<1> DEFINE f == <<Need("primary")>>
           g == [i \in DOMAIN QueryTexts |-> Put(QueryTexts[i])]
<1>1. PICK w : w = f \o g
    OBVIOUS
<1>2. f \in Seq(Writes) /\ \A i \in DOMAIN f : f[i].op = "need"
    <2>1. Need("primary") \in Writes /\ Need("primary").op = "need"
        BY WritesAre DEF Facts, Need
    <2>. QED BY <2>1
<1>3. g \in Seq(Writes) /\ \A i \in DOMAIN g : g[i].op = "put"
    <2>1. QueryTexts \in Seq(ToSet(QueryTexts))
        BY WarmConstants
    <2>2. PICK n \in Nat : n = Len(QueryTexts)
        BY <2>1
    <2>3. DOMAIN QueryTexts = 1..n /\ \A i \in 1..n : QueryTexts[i] \in ToSet(QueryTexts)
        BY <2>1, <2>2
    <2>4. \A i \in 1..n : Put(QueryTexts[i]) \in Writes /\ Put(QueryTexts[i]).op = "put"
        BY <2>3 DEF Facts, Put, Writes
    <2>5. g = [i \in 1..n |-> Put(QueryTexts[i])]
        BY <2>3
    <2>6. g \in [1..n -> Writes]
        BY <2>4, <2>5
    <2>7. \A i \in DOMAIN g : g[i].op = "put"
        BY <2>4, <2>5
    <2> HIDE DEF g
    <2>. QED BY <2>2, <2>6, <2>7
<1> HIDE DEF f, g
<1>4. /\ w \in Seq(Writes) /\ \A i \in DOMAIN f : w[i] = f[i]
      /\ \A i \in DOMAIN w : i \notin DOMAIN f => w[i] = g[i - Len(f)] /\ i - Len(f) \in DOMAIN g
    BY <1>1, <1>2, <1>3, Concatenated
<1>5. \A i \in DOMAIN w : w[i].op \in {"put", "need"}
    BY <1>2, <1>3, <1>4
<1>6. Starting(w, db[c])
    BY <1>4, <1>5, NoClaims DEF Starting
<1>. QED BY <1>1, <1>6, OnceStarts DEF PlanQueries, f, g

LEMMA NormalizeStart == ASSUME WarmInv, NEW c \in Campaigns PROVE Starting(Normalize(c), db[c])
<1> DEFINE d == db[c]
           row(i) == [url |-> Pack[i], checked |-> Never,
                      availability |-> IF Pack[i] \in OnSale THEN "LIVE" ELSE "SOLD"]
           w == [i \in DOMAIN Pack |-> [op |-> "candidate", row |-> row(i)]]
<1>1. Pack \in Seq(Listings)
    BY WarmConstants
<1>2. PICK n \in Nat : n = Len(Pack)
    BY <1>1
<1>3. DOMAIN Pack = 1..n
    BY <1>1, <1>2
<1>4. ASSUME NEW i \in 1..n
      PROVE  /\ w[i] \in Writes /\ w[i].op = "candidate" /\ w[i].row.url = Pack[i]
             /\ w[i].row.checked = Never
    <2>1. row(i) \in Rows
        BY <1>1, <1>3, WarmConstants DEF Rows
    <2>2. w[i] = [op |-> "candidate", row |-> row(i)]
        BY <1>3
    <2> HIDE DEF w
    <2>3. w[i].row.url = Pack[i] /\ w[i].row.checked = Never
        BY <2>2
    <2> HIDE DEF row
    <2>. QED BY <2>1, <2>2, <2>3 DEF Writes
<1>5. w \in [1..n -> Writes]
    <2>1. w = [i \in 1..n |-> w[i]]
        BY <1>3
    <2> HIDE DEF w
    <2>. QED BY <2>1, <1>4
<1> HIDE DEF w
<1>6. w \in Seq(Writes) /\ DOMAIN w = 1..n
    BY <1>2, <1>5
<1>7. Plain(w) /\ Unseen(w)
    BY <1>4, <1>6 DEF Plain, Unseen
<1>8. ASSUME d.candidates = <<>> PROVE Unclaimed(<<>>, w, d)
    <2>1. UrlsOf(d) = {}
        BY <1>8 DEF UrlsOf
    <2>2. \A i \in DOMAIN w : \A k, x : Claims(w[i], k, x) => k = "listing" /\ x = Pack[i]
        BY <1>4, <1>6 DEF Claims
    <2>3. \A x : ~ Has(d, "listing", x)
        BY <2>1 DEF Has
    <2>4. \A i, j \in DOMAIN w : Pack[i] = Pack[j] => i = j
        BY <1>3, <1>6, IndexConstants
    <2>5. \A i \in DOMAIN w : w[i].op \notin {"decision", "result", "replay", "check", "keep"}
        BY <1>4, <1>6
    <2>. QED BY <2>2, <2>3, <2>4, <2>5 DEF Unclaimed
<1>9. d.candidates # <<>> \/ Starting(w, d)
    BY <1>6, <1>7, <1>8 DEF Starting
<1>. QED BY <1>9, OnceStarts DEF Normalize, w

LEMMA RankStart == ASSUME WarmInv, NEW c \in Campaigns PROVE Starting(Rank(c), db[c])
<1> DEFINE d == db[c]
           w == [i \in DOMAIN d.candidates |-> Decision(i)]
<1>1. d.candidates \in Seq(Rows)
    BY DEF WarmInv, WarmTypes
<1>2. PICK n \in Nat : n = Len(d.candidates)
    BY <1>1
<1>3. DOMAIN d.candidates = 1..n
    BY <1>1, <1>2
<1>4. \A i \in 1..n : w[i] \in Writes /\ w[i].op = "decision" /\ w[i].id = i
    BY <1>3 DEF Decision, Writes
<1>5. w \in [1..n -> Writes]
    <2>1. w = [i \in 1..n |-> w[i]]
        BY <1>3
    <2> HIDE DEF w
    <2>. QED BY <2>1, <1>4
<1>6. w = ForEach(c, Decision)
    BY DEF ForEach
<1> HIDE DEF w
<1>7. w \in Seq(Writes) /\ DOMAIN w = 1..n
    BY <1>2, <1>5
<1>8. Plain(w) /\ Unseen(w)
    BY <1>4, <1>7 DEF Plain, Unseen
<1>9. ASSUME d.decisions = <<>> PROVE Unclaimed(<<>>, w, d)
    <2>1. ToSet(d.decisions) = {}
        BY <1>9 DEF ToSet
    <2>2. \A i \in DOMAIN w : \A k, x : Claims(w[i], k, x) => k = "decision" /\ x = i
        BY <1>4, <1>7 DEF Claims
    <2>3. \A x : ~ Has(d, "decision", x)
        BY <2>1 DEF Has
    <2>4. \A i \in DOMAIN w : w[i].id \in DOMAIN d.candidates
        BY <1>3, <1>4, <1>7
    <2>. QED BY <2>2, <2>3, <2>4 DEF Unclaimed
<1>10. d.decisions # <<>> \/ Starting(w, d)
    BY <1>7, <1>8, <1>9 DEF Starting
<1>. QED BY <1>6, <1>10, OnceStarts DEF Rank

LEMMA PublishStart == ASSUME WarmInv, NEW c \in Campaigns PROVE Starting(Publish(c), db[c])
<1> DEFINE d == db[c]
           r == [k \in DOMAIN d.decisions |-> Result(d.decisions[k])]
           f == Once(d.results # <<>>, r)
           g == <<[op |-> "remember"]>>
<1>1. d.decisions \in Seq(Nat) /\ OneEach(d)
    BY DEF WarmInv, WarmTypes, CampaignSound
<1>2. PICK n \in Nat : n = Len(d.decisions)
    BY <1>1
<1>3. DOMAIN d.decisions = 1..n /\ \A k \in 1..n : d.decisions[k] \in Nat
    BY <1>1, <1>2
<1>4. \A k \in 1..n : r[k] \in Writes /\ r[k].op = "result" /\ r[k].id = d.decisions[k]
    BY <1>3 DEF Result, Writes
<1>5. r \in [1..n -> Writes]
    <2>1. r = [k \in 1..n |-> r[k]]
        BY <1>3
    <2> HIDE DEF r
    <2>. QED BY <2>1, <1>4
<1> HIDE DEF r
<1>6. r \in Seq(Writes) /\ DOMAIN r = 1..n
    BY <1>2, <1>5
<1>7. Plain(r) /\ Unseen(r)
    BY <1>4, <1>6 DEF Plain, Unseen
<1>8. ASSUME d.results = <<>> PROVE Unclaimed(<<>>, r, d)
    <2>1. ToSet(d.results) = {}
        BY <1>8 DEF ToSet
    <2>2. \A i \in DOMAIN r : \A k, x : Claims(r[i], k, x) => k = "result" /\ x = d.decisions[i]
        BY <1>4, <1>6 DEF Claims
    <2>3. \A x : ~ Has(d, "result", x)
        BY <2>1 DEF Has
    <2>4. \A i, j \in DOMAIN r : d.decisions[i] = d.decisions[j] => i = j
        BY <1>1, <1>3, <1>6 DEF OneEach, NoneTwice
    <2>5. \A i \in DOMAIN r : r[i].id \in DOMAIN d.candidates
        BY <1>1, <1>3, <1>4, <1>6 DEF OneEach, ToSet
    <2>. QED BY <2>2, <2>3, <2>4, <2>5 DEF Unclaimed
<1>9. Starting(f, d)
    <2>1. d.results # <<>> \/ Starting(r, d)
        BY <1>6, <1>7, <1>8 DEF Starting
    <2>. QED BY <2>1, OnceStarts
<1>10. g \in Seq(Writes) /\ \A i \in DOMAIN g : g[i].op = "remember"
    BY WritesAre
<1>11. PICK w : w = f \o g
    OBVIOUS
<1> HIDE DEF f, g
<1>12. /\ w \in Seq(Writes) /\ \A i \in DOMAIN f : w[i] = f[i]
       /\ \A i \in DOMAIN w : i \notin DOMAIN f => w[i] = g[i - Len(f)] /\ i - Len(f) \in DOMAIN g
    BY <1>9, <1>10, <1>11, Concatenated DEF Starting
<1>13. \A i \in DOMAIN w : (i \in DOMAIN f /\ w[i] = f[i]) \/ w[i].op = "remember"
    BY <1>10, <1>12
<1>14. \A i \in DOMAIN w : \A k, x : Claims(w[i], k, x) => i \in DOMAIN f /\ w[i] = f[i]
    BY <1>13 DEF Claims
<1>15. Plain(w) /\ Unseen(w)
    BY <1>9, <1>13 DEF Starting, Plain, Unseen
<1>16. Unclaimed(<<>>, w, d)
    <2>1. ASSUME NEW i \in DOMAIN w, w[i].op \in {"decision", "result", "replay", "check", "keep"}
          PROVE  w[i].id \in DOMAIN d.candidates
        BY <2>1, <1>9, <1>13 DEF Starting, Unclaimed
    <2>2. ASSUME NEW i \in DOMAIN w, NEW k, NEW x, Claims(w[i], k, x) PROVE ~ Has(d, k, x)
        BY <2>2, <1>9, <1>14 DEF Starting, Unclaimed
    <2>3. ASSUME NEW i \in DOMAIN w, NEW j \in DOMAIN w, NEW k, NEW x,
                 Claims(w[i], k, x), Claims(w[j], k, x)
          PROVE  i = j
        <3>1. i \in DOMAIN f /\ w[i] = f[i] /\ j \in DOMAIN f /\ w[j] = f[j]
            BY <2>3, <1>14
        <3>. QED BY <3>1, <2>3, <1>9 DEF Starting, Unclaimed
    <2>. QED BY <2>1, <2>2, <2>3 DEF Unclaimed
<1>. QED BY <1>11, <1>12, <1>15, <1>16 DEF Starting, Publish, f, g, r

LEMMA ScoredStart ==
    ASSUME WarmInv, NEW c \in Campaigns
    PROVE  /\ Starting(Broad(c), db[c]) /\ Starting(Fine(c), db[c])
           /\ Starting(Authenticity(c), db[c]) /\ Starting(Live(c), db[c])
<1>1. db[c].candidates \in Seq(Rows) /\ now \in 0..MaxTime
    BY DEF WarmInv, WarmTypes
<1>2. \A i \in DOMAIN db[c].candidates : i \in Nat
    BY <1>1
<1>3. ASSUME NEW kind \in {"broad", "fine", "authenticity", "utility"}, NEW level \in Levels
      PROVE  Starting([i \in DOMAIN db[c].candidates |-> Score(i, kind, level)], db[c])
    <2> DEFINE w == [i \in DOMAIN db[c].candidates |-> Score(i, kind, level)]
    <2>1. \A i \in DOMAIN w : w[i] \in Writes /\ w[i].op = "score"
        BY <1>2 DEF Writes, Score, ScoreRows
    <2>2. DOMAIN w = DOMAIN db[c].candidates /\ w = [i \in DOMAIN w |-> w[i]]
        OBVIOUS
    <2> HIDE DEF w
    <2>3. Starting(w, db[c])
        BY <2>1, <2>2, ForEachStarts
    <2>. QED BY <2>3 DEF w
<1>4. Starting([i \in DOMAIN db[c].candidates |-> [op |-> "check", id |-> i, at |-> now]], db[c])
    <2> DEFINE w == [i \in DOMAIN db[c].candidates |-> [op |-> "check", id |-> i, at |-> now]]
    <2>1. \A i \in DOMAIN w : w[i] \in Writes /\ w[i].op = "check" /\ w[i].id = i
        BY <1>1, <1>2 DEF Writes
    <2>2. DOMAIN w = DOMAIN db[c].candidates /\ w = [i \in DOMAIN w |-> w[i]]
        OBVIOUS
    <2> HIDE DEF w
    <2>3. Starting(w, db[c])
        BY <2>1, <2>2, ForEachStarts
    <2>. QED BY <2>3 DEF w
<1>5. "assumed" \in Levels /\ "measured" \in Levels
    BY DEF Levels
<1>6. Starting(Broad(c), db[c])
    BY <1>3, <1>5, OnceStarts DEF Broad, ForEach
<1>7. Starting(Fine(c), db[c])
    BY <1>3, <1>5, OnceStarts DEF Fine, ForEach
<1>8. Starting(Authenticity(c), db[c])
    BY <1>3, <1>5, OnceStarts DEF Authenticity, ForEach
<1>9. Starting(Live(c), db[c])
    BY <1>4, OnceStarts DEF Live, ForEach
<1>. QED BY <1>6, <1>7, <1>8, <1>9

\* The third step sets out with the index.
LEMMA PlanSourcesStart ==
    ASSUME NEW c, NEW d
    PROVE  LET w == PlanSources(c) IN
           /\ w \in Seq(Writes) /\ Unclaimed(<<>>, w, d) /\ w # <<>> /\ w[1].op = "search"
           /\ (\A i \in DOMAIN w : i > 1 => w[i].op = "put") /\ Unseen(w)
<1> DEFINE f == <<[op |-> "search"]>>
           g == Once("run" \in facts[c], <<Put("run"), Put("runId")>>)
<1>1. PICK w : w = f \o g
    OBVIOUS
<1>2. f \in Seq(Writes) /\ Len(f) = 1 /\ DOMAIN f = 1..1 /\ f[1].op = "search"
    BY WritesAre
<1>3. g \in Seq(Writes) /\ \A i \in DOMAIN g : g[i].op = "put"
    <2>1. Put("run") \in Writes /\ Put("run").op = "put" /\ Put("runId") \in Writes
          /\ Put("runId").op = "put"
        BY WritesAre DEF Facts, Put
    <2>2. g = <<>> \/ g = <<Put("run"), Put("runId")>>
        BY DEF Once
    <2> HIDE DEF g
    <2>3. CASE g = <<>>
        BY <2>3
    <2>4. CASE g = <<Put("run"), Put("runId")>>
        BY <2>1, <2>4
    <2>. QED BY <2>2, <2>3, <2>4
<1> HIDE DEF f, g
<1>4. /\ w \in Seq(Writes) /\ \A i \in DOMAIN f : w[i] = f[i]
      /\ DOMAIN w = 1..(Len(f) + Len(g)) /\ Len(g) \in Nat
      /\ \A i \in DOMAIN w : i \notin DOMAIN f => w[i] = g[i - Len(f)] /\ i - Len(f) \in DOMAIN g
    <2>1. f \in Seq(Writes) /\ g \in Seq(Writes)
        BY <1>2, <1>3
    <2>. QED BY <2>1, <1>1, Concatenated
<1>5. w # <<>> /\ w[1].op = "search"
    <2>1. 1 \in DOMAIN w /\ 1 \in DOMAIN f
        BY <1>2, <1>4
    <2>. QED BY <2>1, <1>2, <1>4
<1>6. \A i \in DOMAIN w : i > 1 => w[i].op = "put"
    <2> SUFFICES ASSUME NEW i \in DOMAIN w, i > 1 PROVE w[i].op = "put"
        OBVIOUS
    <2>1. i \notin DOMAIN f
        BY <1>2
    <2>. QED BY <2>1, <1>3, <1>4
<1>7. \A i \in DOMAIN w : w[i].op \in {"search", "put"}
    <2>1. \A i \in DOMAIN w : i = 1 \/ i > 1
        BY <1>2, <1>4
    <2>. QED BY <2>1, <1>5, <1>6
<1>8. Unclaimed(<<>>, w, d)
    <2>1. \A i \in DOMAIN w : \A k, x : ~ Claims(w[i], k, x)
        BY <1>7 DEF Claims
    <2>. QED BY <2>1, <1>7 DEF Unclaimed
<1>9. Unseen(w)
    BY <1>7 DEF Unseen
<1>. QED BY <1>1, <1>4, <1>5, <1>6, <1>8, <1>9 DEF PlanSources, f, g

LEMMA HandlerStart ==
    ASSUME WarmInv, NEW c \in Campaigns, NEW m \in 0..12, m # 2
    PROVE  Starting(Handler(c, Steps[m + 1]), db[c])
<1> DEFINE d == db[c]
<1>1. \A x, y \in {"hypothesis", "primary", "page", "runId", "fetched", "receipt",
                   "search.complete"} :
          /\ Starting(<<Put(x)>>, d) /\ Starting(<<Put(x), Put(y)>>, d)
          /\ Starting(<<Put(x), Need(y)>>, d)
    BY PutsStart DEF Facts
<1>2. Starting(Hypotheses(c), d)
    BY <1>1, OnceStarts DEF Hypotheses
<1>3. Starting(ReadPage(c), d)
    BY <1>1, OnceStarts DEF ReadPage
<1>4. Starting(Acquire(c), d)
    BY <1>1, OnceStarts DEF Acquire
<1>5. Starting(Complete(c), d)
    BY <1>1 DEF Complete
<1>6. /\ Handler(c, "FORMING_HYPOTHESES") = Hypotheses(c)
      /\ Handler(c, "PLANNING_QUERIES") = PlanQueries(c)
      /\ Handler(c, "DISCOVERING") = ReadPage(c) /\ Handler(c, "ACQUIRING") = Acquire(c)
      /\ Handler(c, "NORMALIZING") = Normalize(c) /\ Handler(c, "BROAD_RETRIEVAL") = Broad(c)
      /\ Handler(c, "FINE_MATCHING") = Fine(c)
      /\ Handler(c, "AUTHENTICITY_REVIEW") = Authenticity(c)
      /\ Handler(c, "LIVE_CHECKING") = Live(c) /\ Handler(c, "RANKING") = Rank(c)
      /\ Handler(c, "PUBLISHING") = Publish(c) /\ Handler(c, "COMPLETE") = Complete(c)
    BY DEF Handler
<1>7. Steps[m + 1] \in ToSet(Steps) \ {"PLANNING_SOURCES"}
    <2>1. Steps[m + 1] # "PLANNING_SOURCES"
        BY DEF Steps
    <2>. QED BY <2>1, StepNames
<1>8. ToSet(Steps) = {Steps[i] : i \in 1..13}
    BY DEF ToSet, Steps
<1>9. Steps[m + 1] \in {"FORMING_HYPOTHESES", "PLANNING_QUERIES", "DISCOVERING", "ACQUIRING",
                        "NORMALIZING", "BROAD_RETRIEVAL", "FINE_MATCHING", "AUTHENTICITY_REVIEW",
                        "LIVE_CHECKING", "RANKING", "PUBLISHING", "COMPLETE"}
    BY DEF Steps
<1>10. /\ Starting(PlanQueries(c), d) /\ Starting(Normalize(c), d) /\ Starting(Rank(c), d)
       /\ Starting(Publish(c), d) /\ Starting(Broad(c), d) /\ Starting(Fine(c), d)
       /\ Starting(Authenticity(c), d) /\ Starting(Live(c), d)
    BY PlanQueriesStart, NormalizeStart, RankStart, PublishStart, ScoredStart
<1>. QED BY <1>2, <1>3, <1>4, <1>5, <1>6, <1>9, <1>10

LEMMA UnseenDated ==
    ASSUME NEW w \in Seq(Writes), Unseen(w), NEW L \in [Listings -> Never..MaxTime]
    PROVE  DatedScript(Append(w, [op |-> "mark"]), L)
<1> DEFINE n == Len(w)
           s == Append(w, [op |-> "mark"])
<1>1. /\ n \in Nat /\ DOMAIN w = 1..n /\ DOMAIN s = 1..(n + 1) /\ s[n + 1] = [op |-> "mark"]
      /\ \A i \in 1..n : s[i] = w[i] /\ w[i] \in Writes
    OBVIOUS
<1> HIDE DEF n, s
<1>2. s[n + 1].op = "mark"
    BY <1>1
<1>3. ASSUME NEW i \in 1..n, w[i].op = "candidate" PROVE Dated(w[i].row, L)
    <2>1. w[i].row \in Rows /\ w[i].row.checked = Never
        BY <1>1, <1>3, WriteHas DEF Unseen
    <2>2. L[w[i].row.url] \in Never..MaxTime
        BY <2>1 DEF Rows
    <2>. QED BY <2>1, <2>2, WarmConstants DEF Dated
<1>4. \A i \in DOMAIN s : i \in 1..n \/ i = n + 1
    BY <1>1
<1>5. DatedScript(s, L)
    BY <1>1, <1>2, <1>3, <1>4 DEF DatedScript, Unseen
<1>. QED BY <1>5 DEF s

LEMMA BeginInv == ASSUME WarmInv, NEW c \in Campaigns, Begin(c) PROVE WarmInv'
<1> DEFINE m == marked[c]
           w == Handler(c, Steps[m + 1])
           s == Append(w, [op |-> "mark"])
<1>1. /\ script[c] = <<>> /\ ~Ended(c) /\ state' = [state EXCEPT ![c] = Steps[m + 1]]
      /\ script' = [script EXCEPT ![c] = s]
      /\ UNCHANGED <<marked, facts, db, up, index, now, crashes, offered, lastCheck>>
    BY DEF Begin
<1>2. CampaignSound(state[c], m, db[c], <<>>, offered[c])
    BY <1>1 DEF WarmInv
<1>3. m \in 0..12
    <2>1. m \in 0..13
        BY DEF WarmInv, WarmTypes, Steps
    <2>2. m # 13
        BY <1>1, <1>2 DEF CampaignSound, Course, Ended
    <2>. QED BY <2>1, <2>2
<1>4. /\ w \in Seq(Writes) /\ Unclaimed(<<>>, w, db[c]) /\ Unseen(w)
      /\ \/ m # 2 /\ Plain(w)
         \/ /\ m = 2 /\ w # <<>> /\ w[1].op = "search"
            /\ \A i \in DOMAIN w : i > 1 => w[i].op = "put"
    <2>1. CASE m # 2
        BY <2>1, <1>3, HandlerStart DEF Starting
    <2>2. CASE m = 2
        <3>1. Steps[m + 1] = "PLANNING_SOURCES"
            BY <2>2 DEF Steps
        <3>2. w = PlanSources(c)
            BY <3>1 DEF Handler
        <3> HIDE DEF w
        <3>. QED BY <3>2, <2>2, PlanSourcesStart
    <2>. QED BY <2>1, <2>2
<1> HIDE DEF w, m
<1>5. s \in Seq(Writes) /\ CampaignSound(Steps[m + 1], m, db[c], s, offered[c])
    BY <1>2, <1>3, <1>4, BeginsSound
<1>9. DatedScript(s, lastCheck')
    BY <1>1, <1>4, UnseenDated DEF WarmInv, WarmTypes
<1> HIDE DEF s
<1>6. Steps[m + 1] \in ToSet(Steps)
    BY <1>3, StepNames
<1>7. WarmTypes'
    <2>1. state' \in [Campaigns -> {"CREATED"} \union ToSet(Steps)]
        BY <1>1, <1>6 DEF WarmInv, WarmTypes
    <2>2. script' \in [Campaigns -> Seq(Writes)]
        BY <1>1, <1>5 DEF WarmInv, WarmTypes
    <2>. QED BY <1>1, <2>1, <2>2 DEF WarmInv, WarmTypes
<1>8. /\ state'[c] = Steps[m + 1] /\ script'[c] = s
      /\ \A b \in Campaigns \ {c} : state'[b] = state[b] /\ script'[b] = script[b]
    BY <1>1 DEF WarmInv, WarmTypes
<1>. QED BY <1>1, <1>5, <1>7, <1>8, <1>9, IndexStays, StaysDated, OneMoves DEF m

LEMMA WarmStepInv == WarmInv /\ [WarmNext]_warmVars => WarmInv'
<1> SUFFICES ASSUME WarmInv, [WarmNext]_warmVars PROVE WarmInv' OBVIOUS
<1>1. CASE Tick \/ UNCHANGED warmVars
    BY <1>1, PassesInv
<1>2. ASSUME NEW c \in Campaigns, Run(c) \/ Write(c) \/ Crash(c) PROVE WarmInv'
    <2>1. CASE Run(c)
        BY <2>1, RunInv
    <2>2. CASE Crash(c)
        BY <2>2, CrashInv
    <2>3. CASE Begin(c) \/ Mark(c) \/ PutFact(c) \/ NeedFact(c)
        BY <2>3, BeginInv, MarkInv, PutFactInv, NeedFactInv
    <2>4. CASE InsertCandidate(c) \/ InsertScore(c) \/ InsertDecision(c) \/ InsertResult(c)
        BY <2>4, InsertCandidateInv, InsertScoreInv, InsertDecisionInv, InsertResultInv
    <2>5. CASE CheckRow(c) \/ Search(c) \/ Recall(c) \/ Surface(c) \/ Replay(c)
        BY <2>5, CheckRowInv, SearchInv, RecallInv, SurfaceInv, ReplayInv
    <2>6. CASE Remember(c) \/ KeepListing(c) \/ KeepEvidence(c) \/ RecordQuery(c)
        BY <2>6, RememberInv, KeepListingInv, KeepEvidenceInv, RecordQueryInv
    <2>. QED BY <1>2, <2>1, <2>2, <2>3, <2>4, <2>5, <2>6 DEF Write
<1>. QED BY <1>1, <1>2 DEF WarmNext

\* Whatever the pack and the queries, and however the campaigns interleave and die: the
\* tables and the index keep their types, the writes that a handler has still to make are
\* of rows that are not there, and what the index offered a campaign is among its
\* candidates or is still to be taken over by the step that searched it.
THEOREM WarmInvariance == WarmSpec => []WarmInv
<1>1. WarmInit => WarmInv
    BY WarmInitInv
<1>2. WarmInv /\ [WarmNext]_warmVars => WarmInv'
    BY WarmStepInv
<1>. QED BY <1>1, <1>2, PTL DEF WarmSpec

\* A listing is a candidate of a campaign once, and a candidate is decided on and
\* published at most once, whichever of consult_and_surface, the source and a resumed
\* handler writes it first.
THEOREM EachIsTakenOnce == WarmSpec => []OnceOnly
<1>1. WarmInv => OnceOnly
    BY DEF WarmInv, CampaignSound, OneEach, OnceOnly, NoneTwice, UrlsOf
<1>. QED BY <1>1, WarmInvariance, PTL

\* A campaign that has ended has as candidates all the listings the index held when it
\* was searched, the last time too if the process died in between.
THEOREM OffersAreTakenOver == WarmSpec => []IndexIsTakenOver
<1>1. ASSUME WarmInv, NEW c \in Campaigns, Ended(c) PROVE offered[c] \subseteq Urls(c)
    <2>1. marked[c] \in 0..13
        BY <1>1 DEF WarmInv, WarmTypes, Steps
    <2>2. marked[c] >= 12
        BY <1>1 DEF WarmInv, CampaignSound, Course, Ended
    <2>3. marked[c] >= 3
        BY <2>1, <2>2
    <2>4. offered[c] \subseteq UrlsOf(db[c])
        BY <1>1, <2>3 DEF WarmInv, CampaignSound, TakenOver
    <2>. QED BY <2>4 DEF Urls, UrlsOf
<1>2. WarmInv => IndexIsTakenOver
    BY <1>1 DEF IndexIsTakenOver
<1>. QED BY <1>2, WarmInvariance, PTL

\* The index presents a listing as LIVE only within the lifetime of the last live stage
\* that had it, whoever has kept it since and however long a hit waited to be copied.
THEOREM LiveWhileItLasts == WarmSpec => LiveIsRecent
<1>1. ASSUME WarmInv, WarmInv', NEW c \in Campaigns, Surface(c),
             Last(db'[c].candidates).availability = "LIVE"
      PROVE  now - lastCheck[Last(db'[c].candidates).url] <= Ttl
    <2> DEFINE h == script[c][1].hit
               d == db[c]
               row == [h EXCEPT !.availability = Presented(h)]
    <2>1. /\ Writing(c, "surface")
          /\ db' = [db EXCEPT ![c].candidates =
                       Append(@, [Head(script[c]).hit EXCEPT
                                      !.availability = Presented(Head(script[c]).hit)])]
        BY <1>1 DEF Surface
    <2>2. /\ Head(script[c]) = script[c][1] /\ script[c][1].op = "surface" /\ h \in Rows
          /\ Dated(h, lastCheck)
        BY <1>1, <2>1, AtWrite, AtTables, WriteHas DEF DatedScript
    <2>3. d \in Database /\ d.candidates \in Seq(Rows)
        BY <1>1, <2>1, AtTables DEF Database
    <2>4. db'[c].candidates = Append(d.candidates, row)
        BY <1>1, <2>1, <2>2, DbTyped DEF WarmInv, Database
    <2>5. Last(db'[c].candidates) = row
        <3> HIDE DEF row
        <3>. QED BY <2>3, <2>4 DEF Last
    <2>6. row.availability = Presented(h) /\ row.url = h.url
        BY <2>2 DEF Rows
    <2>7. ~(now - h.checked > Ttl)
        BY <1>1, <2>5, <2>6 DEF Presented
    <2>8. /\ now \in Int /\ h.checked \in Int /\ lastCheck[h.url] \in Int
          /\ h.checked <= lastCheck[h.url] /\ Ttl \in Int
        <3>1. h.url \in Listings /\ h.checked \in Never..MaxTime
            BY <2>2 DEF Rows
        <3>2. h.checked \in Int /\ Ttl \in Int
            BY <3>1, WarmConstants
        <3>3. lastCheck[h.url] \in Int /\ now \in Int
            <4>1. lastCheck \in [Listings -> Never..MaxTime] /\ now \in 0..MaxTime
                BY <1>1 DEF WarmInv, WarmTypes
            <4>2. lastCheck[h.url] \in Int
                BY <3>1, <4>1, CheckTimes
            <4>3. now \in Int
                BY <4>1, WarmConstants
            <4>. QED BY <4>2, <4>3
        <3>. QED BY <2>2, <3>2, <3>3 DEF Dated
    <2>9. now - lastCheck[h.url] <= Ttl
        BY <2>7, <2>8
    <2> HIDE DEF row, h, d
    <2>10. Last(db'[c].candidates).url = h.url
        BY <2>5, <2>6, Zenon
    <2>. QED BY <2>9, <2>10, Zenon
<1>2. WarmInv /\ WarmInv' /\ [WarmNext]_warmVars =>
          [\A c \in Campaigns : Surface(c) /\ Last(db'[c].candidates).availability = "LIVE" =>
               now - lastCheck[Last(db'[c].candidates).url] <= Ttl]_warmVars
    BY <1>1
<1>. QED BY <1>2, WarmInvariance, PTL DEF WarmSpec, LiveIsRecent
=============================================================================
