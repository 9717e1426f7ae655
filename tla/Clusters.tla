---- MODULE Clusters ----
(***************************************************************************)
(* deduplication/clusters.py: cluster_candidates turns the listings a      *)
(* search found, in the order they were found, into clusters with one      *)
(* representative each.  Three passes share one table, assigned:           *)
(*   - listings with the same link key (url_cluster_key) start together;   *)
(*   - listings that share an image family are merged, in input order; the *)
(*     families of one listing are a Python set, visited in any order;     *)
(*   - clusters whose representatives have near-equal titles are merged.   *)
(* A cluster id (new_id) is modelled by the first listing of its group.    *)
(***************************************************************************)
EXTENDS Integers, FiniteSets

CONSTANTS N,          \* how many listings there are
          Pages,      \* what a listing can look like
          NoListing   \* a listing without a listing id

Cands == 1..N
Families == UNION {p.families : p \in Pages}

ASSUME ClustersAssumption ==
    /\ N \in Nat \ {0}
    /\ \A p \in Pages : p.place \in Nat

VARIABLES page,      \* what each listing looks like: the input
          pc,        \* "link", "image", "text", "final", "done"
          assigned,  \* the cluster of each listing
          entry,     \* the cluster_id of the Cluster a group's first listing stands for; 0: none
          lead,      \* its representative_id; 0: none
          owner,     \* family_to_cluster; 0: absent
          at,        \* the listing the image pass is at
          left,      \* its image families still to be visited
          order,     \* the place of each key of reps in that dict
          reps,      \* the representative behind each key; 0: absent
          cards      \* the clusters returned

vars == <<page, pc, assigned, entry, lead, owner, at, left, order, reps, cards>>

-----------------------------------------------------------------------------
(* What two listings have in common. *)

\* The listing id of the source, else the one the URL carries, else the URL.
LinkKey(p) == IF p.listing # NoListing THEN <<p.adapter, p.listing>>
              ELSE IF p.inUrl # NoListing THEN <<p.adapter, p.inUrl>>
              ELSE <<"url", p.url>>

Listing(c) == page[c].listing

\* jaccard(a, b) >= 0.9 on the sets of words; a title without words is like none.
Alike(a, b) == /\ a # {} /\ b # {}
               /\ 10 * Cardinality(a \cap b) >= 9 * Cardinality(a \cup b)

\* sorted(members, key=_score, reverse=True)[0]: place is the place of a page's _score in
\* that order, the best first; the sort is stable.
Better(c, d) == \/ page[c].place < page[d].place
                \/ (page[c].place = page[d].place /\ c <= d)
Best(S) == CHOOSE c \in S : \A d \in S : Better(c, d)

-----------------------------------------------------------------------------
(* The passes. *)

Init == /\ page \in [Cands -> Pages] /\ pc = "link"
        /\ assigned = [c \in Cands |-> c]
        /\ entry = [c \in Cands |-> 0] /\ lead = [c \in Cands |-> 0]
        /\ owner = [f \in Families |-> 0] /\ at = 1 /\ left = {}
        /\ order = [c \in Cands |-> 0] /\ reps = [c \in Cands |-> 0] /\ cards = {}

Group(c) == {d \in Cands : LinkKey(page[d]) = LinkKey(page[c])}
First(S) == CHOOSE c \in S : \A d \in S : c <= d

\* by_url: one cluster for each link key.
GroupByLink ==
    /\ pc = "link" /\ pc' = "image"
    /\ assigned' = [c \in Cands |-> First(Group(c))]
    /\ entry' = [c \in Cands |-> IF c = First(Group(c)) THEN c ELSE 0]
    /\ lead' = [c \in Cands |-> IF c = First(Group(c)) THEN Best(Group(c)) ELSE 0]
    /\ left' = page[1].families
    /\ UNCHANGED <<page, owner, at, order, reps, cards>>

Members(k) == {c \in Cands : assigned[c] = k}

\* Mutated form of Merged: only the clusters' representatives are moved.
MergedLeads(keep, drop) ==
    [c \in Cands |-> IF assigned[c] = drop /\ \E e \in Cands : lead[e] = c THEN keep
                     ELSE assigned[c]]

\* _merge: every listing and every Cluster of drop goes to keep.
Merged(keep, drop) == [c \in Cands |-> IF assigned[c] = drop THEN keep ELSE assigned[c]]
Renamed(keep, drop) == [e \in Cands |-> IF entry[e] = drop THEN keep ELSE entry[e]]

\* Mutated form of KeptApart: the listing ids are not compared.
NeverApart(c, other) == FALSE

\* A listing with an id stays out of a cluster that has members and not its id.
KeptApart(c, other) ==
    /\ Listing(c) # NoListing /\ Members(other) # {}
    /\ \A m \in Members(other) : Listing(m) # Listing(c)

\* One image family of one listing: nothing, or the cluster that had it joins this one.
VisitFamily ==
    /\ pc = "image" /\ \E f \in left :
        LET mine == assigned[at]  other == owner[f] IN
        /\ left' = left \ {f}
        /\ \/ /\ other # 0 /\ other # mine /\ KeptApart(at, other)
              /\ UNCHANGED <<assigned, entry, owner>>
           \/ /\ other # 0 /\ other # mine /\ ~KeptApart(at, other)
              /\ assigned' = Merged(mine, other) /\ entry' = Renamed(mine, other)
              /\ owner' = [owner EXCEPT ![f] = mine]
           \/ /\ other = 0 \/ other = mine
              /\ owner' = [owner EXCEPT ![f] = mine]
              /\ UNCHANGED <<assigned, entry>>
    /\ UNCHANGED <<page, pc, lead, at, order, reps, cards>>

NextListing ==
    /\ pc = "image" /\ left = {} /\ at < N
    /\ at' = at + 1 /\ left' = page[at + 1].families
    /\ UNCHANGED <<page, pc, assigned, entry, lead, owner, order, reps, cards>>

Entries == {e \in Cands : entry[e] # 0}
EntriesOf(k) == {e \in Entries : entry[e] = k}

\* reps: a key stands where its first Cluster is and holds its last Cluster's representative.
Latest(S) == CHOOSE e \in S : \A d \in S : d <= e

StartTitles ==
    /\ pc = "image" /\ left = {} /\ at = N /\ pc' = "text"
    /\ order' = [k \in Cands |-> IF EntriesOf(k) = {} THEN 0 ELSE First(EntriesOf(k))]
    /\ reps' = [k \in Cands |-> IF EntriesOf(k) = {} THEN 0 ELSE lead[Latest(EntriesOf(k))]]
    /\ UNCHANGED <<page, assigned, entry, lead, owner, at, left, cards>>

\* Mutated form of SameTitle: the titles are not compared.
SameListing(c, d) == Listing(c) = NoListing \/ Listing(d) = NoListing \/ Listing(c) = Listing(d)

\* Two representatives whose listing ids do not differ and whose titles nearly agree.
SameTitle(c, d) ==
    /\ Listing(c) = NoListing \/ Listing(d) = NoListing \/ Listing(c) = Listing(d)
    /\ Alike(page[c].title, page[d].title)

TitlePair(l, r) == /\ reps[l] # 0 /\ reps[r] # 0 /\ order[l] < order[r]
                   /\ SameTitle(reps[l], reps[r])

\* The first pair in the order of the two loops is merged and the loops start again.
MergeTitles ==
    /\ pc = "text"
    /\ \E l, r \in Cands :
        /\ TitlePair(l, r)
        /\ \A k, m \in Cands : TitlePair(k, m) =>
              order[l] < order[k] \/ (l = k /\ order[r] <= order[m])
        /\ assigned' = Merged(l, r) /\ entry' = Renamed(l, r)
        /\ reps' = [reps EXCEPT ![r] = 0]
    /\ UNCHANGED <<page, pc, lead, owner, at, left, order, cards>>

EndTitles == /\ pc = "text" /\ (\A l, r \in Cands : ~TitlePair(l, r)) /\ pc' = "final"
             /\ UNCHANGED <<page, assigned, entry, lead, owner, at, left, order, reps, cards>>

\* The clusters returned: one for each cluster a Cluster's representative is in.
Return ==
    /\ pc = "final" /\ pc' = "done"
    /\ cards' = {[members |-> Members(k), representative |-> Best(Members(k))] :
                    k \in {assigned[lead[e]] : e \in Entries}}
    /\ UNCHANGED <<page, assigned, entry, lead, owner, at, left, order, reps>>

Next == GroupByLink \/ VisitFamily \/ NextListing \/ StartTitles \/ MergeTitles
        \/ EndTitles \/ Return

Spec == Init /\ [][Next]_vars

-----------------------------------------------------------------------------
(* Properties. *)

TypeOK ==
    /\ page \in [Cands -> Pages] /\ pc \in {"link", "image", "text", "final", "done"}
    /\ assigned \in [Cands -> Cands]
    /\ entry \in [Cands -> Cands \cup {0}] /\ lead \in [Cands -> Cands \cup {0}]
    /\ owner \in [Families -> Cands \cup {0}] /\ at \in Cands /\ left \subseteq Families
    /\ order \in [Cands -> Cands \cup {0}] /\ reps \in [Cands -> Cands \cup {0}]

\* Clustering loses no listing and shows none twice: every listing is in exactly one
\* cluster returned, and that cluster's representative is one of its members.
EveryListingRepresented ==
    pc = "done" =>
        /\ \A c \in Cands : \E k \in cards : c \in k.members
        /\ \A j, k \in cards : j # k => j.members \cap k.members = {}
        /\ \A k \in cards : k.representative \in k.members

\* Two listings are told apart by a labelling that gives one label to every two listings
\* with the same link key, a shared image family or titles that nearly agree.
Linked(c, d) == \/ LinkKey(page[c]) = LinkKey(page[d])
                \/ page[c].families \cap page[d].families # {}
                \/ Alike(page[c].title, page[d].title)
Respects(label) == \A c, d \in Cands : Linked(c, d) => label[c] = label[d]

\* No pass joins listings without a reason: two listings end in one cluster only when a
\* chain of common links, images or titles connects them.
MergesJustified ==
    \A label \in [Cands -> Cands] :
        Respects(label) => \A c, d \in Cands : assigned[c] = assigned[d] => label[c] = label[d]

\* When every listing has its id, no shared photograph and no title, in any order of the
\* input, puts two different ids in one cluster.
IdsKeepApart ==
    (\A c \in Cands : Listing(c) # NoListing) =>
        (\A c, d \in Cands : assigned[c] = assigned[d] => Listing(c) = Listing(d))

\* The comment of the image pass: distinct listing ids stay independent even if they
\* share a placeholder image.
DistinctListingsApart ==
    \A c, d \in Cands :
        assigned[c] = assigned[d] /\ Listing(c) # NoListing /\ Listing(d) # NoListing
            => Listing(c) = Listing(d)

\* The same comment: clusters that share an image family are merged, unless listing ids
\* keep them apart.
SharedFamilyMeets ==
    pc \in {"text", "final", "done"} =>
        \A c, d \in Cands :
            /\ page[c].families \cap page[d].families # {}
            /\ \A e \in Cands : Listing(e) = NoListing
            => assigned[c] = assigned[d]

====
