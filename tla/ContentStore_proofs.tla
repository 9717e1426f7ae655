------------------------ MODULE ContentStore_proofs -------------------------
(***************************************************************************)
(* Isolation and the response cache, for any number of campaigns, objects, *)
(* puts and crashes, and with every unlocked writer the code has; then, as *)
(* long as no two of them overlap, what a delete leaves and what it spares.*)
(***************************************************************************)
EXTENDS ContentStore, TLAPS

\* What a thread in the midst of an operation works for and works on.
IndexPlaces == {"open", "write", "replace"}

CampaignThread(c) ==
    pc[c] # "idle" =>
        /\ pc[c] \in {"object", "zone", "link", "read", "marker"} \union IndexPlaces
        /\ job[c].by = c /\ job[c].digest \in Images
        /\ <<c, job[c].digest>> \in begun

SourceThread ==
    pc[Source] # "idle" =>
        /\ pc[Source] \in {"object", "zone", "link", "read", "cached"} \union IndexPlaces
        /\ job[Source].by = Nobody /\ job[Source].digest \in Pages
        /\ pc[Source] # "object" => job[Source].digest \in object

DeleteHandler ==
    pc[Deleter] # "idle" =>
        /\ pc[Deleter] \in {"rmtree", "purge", "unlink", "rows"} \union IndexPlaces
        /\ job[Deleter].by \in Campaigns

AtWork == (\A c \in Campaigns : CampaignThread(c)) /\ SourceThread /\ DeleteHandler

\* Every owner in a file, or in a thread's copy of it, began to store what it owns.
Attributed(file, puts_begun) ==
    file \in Index =>
        \A d \in Digests : \A c \in Owners(file[d]) : <<c, d>> \in puts_begun

Attribution ==
    /\ Attributed(index, begun) /\ Attributed(tmp, begun)
    /\ \A t \in Threads : Attributed(copy[t], begun)

\* A thread that will write the index has a copy to write.
CopiesReady ==
    \A t \in Threads : pc[t] \in {"unlink", "open", "write"} => copy[t] \in Index

\* Campaigns keep images, the cache keeps pages, and the purge removes images.
PagesKept ==
    /\ begun \in SUBSET (Campaigns \X Images)
    /\ gone \in SUBSET Images
    /\ cached \in SUBSET (object \intersect Pages)

IInv == TypeOK /\ AtWork /\ CopiesReady /\ Attribution /\ PagesKept

-----------------------------------------------------------------------------
LEMMA InitIInv == Init => IInv
<1> SUFFICES ASSUME Init PROVE IInv
  OBVIOUS
<1> USE StoreConstants DEF Init
<1>1. index \in Index /\ \A d \in Digests : Owners(index[d]) = {}
  BY DEF Index, Owners
<1>2. TypeOK
  <2>1. pc \in [Threads -> Places] /\ job \in [Threads -> Jobs]
    BY DEF NoJob, Jobs, Places
  <2>2. copy \in [Threads -> Index \union {Absent}]
    OBVIOUS
  <2>3. opened \in [Threads -> {"none", "tmp", "index", "gone"}]
    OBVIOUS
  <2>4. row \in [Campaigns -> {"live", "deleted"}]
    OBVIOUS
  <2>5. puts \in 0..MaxPuts /\ crashes \in 0..MaxCrashes
    OBVIOUS
  <2>. QED
    BY <1>1, <2>1, <2>2, <2>3, <2>4, <2>5 DEF TypeOK
<1>3. AtWork /\ CopiesReady /\ PagesKept
  BY DEF AtWork, CampaignThread, SourceThread, DeleteHandler, Threads,
         CopiesReady, PagesKept
<1>4. Attribution
  BY <1>1, FileConstants DEF Attribution, Attributed, Threads
<1>. QED
  BY <1>2, <1>3, <1>4 DEF IInv

\* What a thread at work works on, whichever thread it is.
LEMMA WorkingOn ==
    ASSUME IInv, NEW t \in Threads
    PROVE  /\ pc[t] \in {"object", "zone", "link", "read", "marker", "cached"}
                => job[t].digest \in Digests
           /\ pc[t] = "marker" => job[t].by \in Campaigns
           /\ pc[t] \in {"object", "zone", "link", "read"} => job[t].by \in {t, Nobody}
           /\ pc[t] = "cached" => t = Source
           /\ pc[t] \in {"rmtree", "purge", "unlink", "rows"} => t = Deleter
  BY StoreConstants DEF IInv, AtWork, CampaignThread, SourceThread,
     DeleteHandler, Threads, Digests, IndexPlaces

\* The index a put writes back, and the one a purge writes back.
LEMMA WithOwnerIndex ==
    ASSUME NEW old \in Index, NEW by \in Campaigns \union {Nobody}, NEW d \in Digests
    PROVE  [old EXCEPT ![d] = WithOwner(@, by)] \in Index
<1>1. Owners(old[d]) \in SUBSET Campaigns
  BY DEF Index, Owners
<1>2. WithOwner(old[d], by) \in SUBSET Campaigns
  BY <1>1 DEF WithOwner
<1>. QED
  BY <1>2 DEF Index

LEMMA PurgedIndex ==
    ASSUME NEW old \in Index, NEW c \in Campaigns
    PROVE  Purged(old, c) \in Index
  BY DEF Index, Purged, Owners

\* Type correctness, one step per action.
LEMMA StepTypeOK == IInv /\ [Next]_vars => TypeOK'
<1> SUFFICES ASSUME IInv, [Next]_vars PROVE TypeOK'
  OBVIOUS
<1> USE StoreConstants DEF IInv, TypeOK, AtWork, CampaignThread, SourceThread,
        DeleteHandler, CopiesReady, files, Goto, Step, End, NoJob, Jobs, Places, Threads
<1>1. ASSUME NEW c \in Campaigns, CampaignPut(c) PROVE TypeOK'
  <2>1. PICK d \in Images, locks \in BOOLEAN : BeginPut(c, c, d, locks)
    BY <1>1 DEF CampaignPut
  <2>2. [by |-> c, digest |-> d] \in Jobs
    BY DEF Digests
  <2>3. overlap' \in BOOLEAN
    BY <2>1 DEF BeginPut, Overlaps
  <2>4. puts' \in 0..MaxPuts
    BY <2>1 DEF BeginPut
  <2>5. lock' \in Threads \union {Nobody}
    BY <2>1 DEF BeginPut
  <2>6. begun' \in SUBSET (Campaigns \X Digests)
    BY <2>1 DEF BeginPut, Digests
  <2>. QED
    BY <2>1, <2>2, <2>3, <2>4, <2>5, <2>6 DEF BeginPut
<1>2. ASSUME NEW c \in Campaigns, BeginDelete(c) PROVE TypeOK'
  BY <1>2 DEF BeginDelete, Overlaps
<1>3. ASSUME NEW c \in Campaigns, WorkerEnds(c) PROVE TypeOK'
  BY <1>3 DEF WorkerEnds
<1>4. ASSUME NEW c \in Campaigns, WorkerStarts(c) PROVE TypeOK'
  BY <1>4 DEF WorkerStarts
<1>5. CASE CachePut
  <2>1. PICK d \in Pages, locks \in BOOLEAN : BeginPut(Source, Nobody, d, locks)
    BY <1>5 DEF CachePut
  <2>2. [by |-> Nobody, digest |-> d] \in Jobs
    BY DEF Digests
  <2>3. overlap' \in BOOLEAN
    BY <2>1 DEF BeginPut, Overlaps
  <2>4. puts' \in 0..MaxPuts
    BY <2>1 DEF BeginPut
  <2>5. lock' \in Threads \union {Nobody}
    BY <2>1 DEF BeginPut
  <2>6. begun' \in SUBSET (Campaigns \X Digests)
    BY <2>1 DEF BeginPut, Digests
  <2>. QED
    BY <2>1, <2>2, <2>3, <2>4, <2>5, <2>6 DEF BeginPut
<1>6. ASSUME NEW t \in Threads, WriteObject(t) PROVE TypeOK'
  BY <1>6, WorkingOn DEF WriteObject
<1>7. ASSUME NEW t \in Threads, LookAtZone(t) PROVE TypeOK'
  BY <1>7 DEF LookAtZone
<1>8. ASSUME NEW t \in Threads, LinkZone(t) PROVE TypeOK'
  BY <1>8 DEF LinkZone
<1>9. ASSUME NEW t \in Threads, ReadIndex(t) PROVE TypeOK'
  <2>1. CASE index = Torn
    BY <1>9, <2>1 DEF ReadIndex
  <2>2. CASE index # Torn
    <3>1. job[t].by \in Campaigns \union {Nobody} /\ job[t].digest \in Digests
      BY <1>9, WorkingOn DEF ReadIndex
    <3>2. [index EXCEPT ![job[t].digest] = WithOwner(@, job[t].by)] \in Index
      BY <2>2, <3>1, WithOwnerIndex
    <3>. QED
      BY <1>9, <2>2, <3>2 DEF ReadIndex
  <2>. QED
    BY <2>1, <2>2
<1>10. ASSUME NEW t \in Threads, OpenTmp(t) PROVE TypeOK'
  BY <1>10 DEF OpenTmp
<1>11. ASSUME NEW t \in Threads, WriteTmp(t) PROVE TypeOK'
  BY <1>11 DEF WriteTmp, Written, IndexPlaces
<1>12. ASSUME NEW t \in Threads, ReplaceTmp(t) PROVE TypeOK'
  BY <1>12 DEF ReplaceTmp, AfterIndex, Renamed
<1>13. ASSUME NEW t \in Threads, RecordPrivate(t) PROVE TypeOK'
  BY <1>13, WorkingOn DEF RecordPrivate
<1>14. ASSUME NEW t \in Threads, UpsertCacheRow(t) PROVE TypeOK'
  BY <1>14, WorkingOn DEF UpsertCacheRow
<1>15. CASE RemovePrivateDir
  BY <1>15 DEF RemovePrivateDir
<1>16. CASE ReadForPurge
  <2>1. CASE index = Torn
    BY <1>16, <2>1 DEF ReadForPurge
  <2>2. CASE index # Torn
    <3>1. Purged(index, job[Deleter].by) \in Index
      BY <1>16, <2>2, PurgedIndex DEF ReadForPurge
    <3>. QED
      BY <1>16, <2>2, <3>1 DEF ReadForPurge
  <2>. QED
    BY <2>1, <2>2
<1>17. CASE UnlinkObject
  BY <1>17 DEF UnlinkObject
<1>18. CASE UnlinkedAll
  BY <1>18 DEF UnlinkedAll
<1>19. CASE MarkDeleted
  BY <1>19 DEF MarkDeleted
<1>20. CASE Crash
  BY <1>20 DEF Crash
<1>21. CASE UNCHANGED vars
  BY <1>21 DEF vars
<1>. QED
  BY <1>1, <1>2, <1>3, <1>4, <1>5, <1>6, <1>7, <1>8, <1>9, <1>10, <1>11,
     <1>12, <1>13, <1>14, <1>15, <1>16, <1>17, <1>18, <1>19, <1>20, <1>21 DEF Next, Put

\* Who is where, with what.
LEMMA StepAtWork == IInv /\ [Next]_vars => AtWork'
<1> SUFFICES ASSUME IInv, [Next]_vars PROVE AtWork'
  OBVIOUS
<1> USE StoreConstants DEF IInv, TypeOK, AtWork, CampaignThread, SourceThread,
        DeleteHandler, PagesKept, IndexPlaces, files, Goto, Step, End, Threads
<1>1. ASSUME NEW w \in Campaigns, CampaignPut(w) PROVE AtWork'
  BY <1>1 DEF CampaignPut, BeginPut
<1>2. ASSUME NEW w \in Campaigns, BeginDelete(w) PROVE AtWork'
  BY <1>2 DEF BeginDelete
<1>3. ASSUME NEW w \in Campaigns, WorkerEnds(w) PROVE AtWork'
  BY <1>3 DEF WorkerEnds
<1>4. ASSUME NEW w \in Campaigns, WorkerStarts(w) PROVE AtWork'
  BY <1>4 DEF WorkerStarts
<1>5. CASE CachePut
  BY <1>5 DEF CachePut, BeginPut
<1>6. ASSUME NEW t \in Threads, WriteObject(t) PROVE AtWork'
  BY <1>6 DEF WriteObject
<1>7. ASSUME NEW t \in Threads, LookAtZone(t) PROVE AtWork'
  BY <1>7 DEF LookAtZone
<1>8. ASSUME NEW t \in Threads, LinkZone(t) PROVE AtWork'
  BY <1>8 DEF LinkZone
<1>9. ASSUME NEW t \in Threads, ReadIndex(t) PROVE AtWork'
  BY <1>9 DEF ReadIndex
<1>10. ASSUME NEW t \in Threads, OpenTmp(t) PROVE AtWork'
  BY <1>10 DEF OpenTmp
<1>11. ASSUME NEW t \in Threads, WriteTmp(t) PROVE AtWork'
  BY <1>11 DEF WriteTmp
<1>12. ASSUME NEW t \in Threads, ReplaceTmp(t) PROVE AtWork'
  BY <1>12 DEF ReplaceTmp, AfterIndex
<1>13. ASSUME NEW t \in Threads, RecordPrivate(t) PROVE AtWork'
  BY <1>13 DEF RecordPrivate
<1>14. ASSUME NEW t \in Threads, UpsertCacheRow(t) PROVE AtWork'
  BY <1>14 DEF UpsertCacheRow
<1>15. CASE RemovePrivateDir
  BY <1>15 DEF RemovePrivateDir
<1>16. CASE ReadForPurge
  BY <1>16 DEF ReadForPurge
<1>17. CASE UnlinkObject
  BY <1>17 DEF UnlinkObject
<1>18. CASE UnlinkedAll
  BY <1>18 DEF UnlinkedAll
<1>19. CASE MarkDeleted
  BY <1>19 DEF MarkDeleted
<1>20. CASE Crash
  BY <1>20 DEF Crash
<1>21. CASE UNCHANGED vars
  BY <1>21 DEF vars
<1>. QED
  BY <1>1, <1>2, <1>3, <1>4, <1>5, <1>6, <1>7, <1>8, <1>9, <1>10, <1>11,
     <1>12, <1>13, <1>14, <1>15, <1>16, <1>17, <1>18, <1>19, <1>20, <1>21 DEF Next, Put

\* A thread at write has a copy.
LEMMA StepCopiesReady == IInv /\ [Next]_vars => CopiesReady'
<1> SUFFICES ASSUME IInv, [Next]_vars PROVE CopiesReady'
  OBVIOUS
<1> USE StoreConstants DEF IInv, TypeOK, AtWork, CampaignThread, SourceThread,
        DeleteHandler, CopiesReady, IndexPlaces, files, Goto, Step, End, Threads
<1>1. ASSUME NEW w \in Campaigns, CampaignPut(w) PROVE CopiesReady'
  BY <1>1 DEF CampaignPut, BeginPut
<1>2. ASSUME NEW w \in Campaigns, BeginDelete(w) PROVE CopiesReady'
  BY <1>2 DEF BeginDelete
<1>3. ASSUME NEW w \in Campaigns, WorkerEnds(w) PROVE CopiesReady'
  BY <1>3 DEF WorkerEnds
<1>4. ASSUME NEW w \in Campaigns, WorkerStarts(w) PROVE CopiesReady'
  BY <1>4 DEF WorkerStarts
<1>5. CASE CachePut
  BY <1>5 DEF CachePut, BeginPut
<1>6. ASSUME NEW t \in Threads, WriteObject(t) PROVE CopiesReady'
  BY <1>6 DEF WriteObject
<1>7. ASSUME NEW t \in Threads, LookAtZone(t) PROVE CopiesReady'
  BY <1>7 DEF LookAtZone
<1>8. ASSUME NEW t \in Threads, LinkZone(t) PROVE CopiesReady'
  BY <1>8 DEF LinkZone
<1>9. ASSUME NEW t \in Threads, ReadIndex(t) PROVE CopiesReady'
  <2>1. CASE index = Torn
    BY <1>9, <2>1 DEF ReadIndex
  <2>2. CASE index # Torn
    <3>1. job[t].by \in Campaigns \union {Nobody} /\ job[t].digest \in Digests
      BY <1>9, WorkingOn, StepTypeOK DEF ReadIndex, Jobs
    <3>2. [index EXCEPT ![job[t].digest] = WithOwner(@, job[t].by)] \in Index
      BY <2>2, <3>1, WithOwnerIndex
    <3>. QED
      BY <1>9, <2>2, <3>2 DEF ReadIndex
  <2>. QED
    BY <2>1, <2>2
<1>10. ASSUME NEW t \in Threads, OpenTmp(t) PROVE CopiesReady'
  BY <1>10 DEF OpenTmp
<1>11. ASSUME NEW t \in Threads, WriteTmp(t) PROVE CopiesReady'
  BY <1>11 DEF WriteTmp
<1>12. ASSUME NEW t \in Threads, ReplaceTmp(t) PROVE CopiesReady'
  BY <1>12 DEF ReplaceTmp, AfterIndex
<1>13. ASSUME NEW t \in Threads, RecordPrivate(t) PROVE CopiesReady'
  BY <1>13 DEF RecordPrivate
<1>14. ASSUME NEW t \in Threads, UpsertCacheRow(t) PROVE CopiesReady'
  BY <1>14 DEF UpsertCacheRow
<1>15. CASE RemovePrivateDir
  BY <1>15 DEF RemovePrivateDir
<1>16. CASE ReadForPurge
  <2>1. CASE index = Torn
    BY <1>16, <2>1 DEF ReadForPurge
  <2>2. CASE index # Torn
    <3>1. Purged(index, job[Deleter].by) \in Index
      BY <1>16, <2>2, PurgedIndex DEF ReadForPurge
    <3>. QED
      BY <1>16, <2>2, <3>1 DEF ReadForPurge
  <2>. QED
    BY <2>1, <2>2
<1>17. CASE UnlinkObject
  BY <1>17 DEF UnlinkObject
<1>18. CASE UnlinkedAll
  BY <1>18 DEF UnlinkedAll
<1>19. CASE MarkDeleted
  BY <1>19 DEF MarkDeleted
<1>20. CASE Crash
  BY <1>20 DEF Crash
<1>21. CASE UNCHANGED vars
  BY <1>21 DEF vars
<1>. QED
  BY <1>1, <1>2, <1>3, <1>4, <1>5, <1>6, <1>7, <1>8, <1>9, <1>10, <1>11,
     <1>12, <1>13, <1>14, <1>15, <1>16, <1>17, <1>18, <1>19, <1>20, <1>21 DEF Next, Put

\* Images are purged, pages are cached.
LEMMA StepPagesKept == IInv /\ [Next]_vars => PagesKept'
<1> SUFFICES ASSUME IInv, [Next]_vars PROVE PagesKept'
  OBVIOUS
<1> USE StoreConstants DEF IInv, TypeOK, AtWork, CampaignThread, SourceThread,
        DeleteHandler, PagesKept, IndexPlaces, files, Goto, Step, End, Threads
<1>1. ASSUME NEW w \in Campaigns, CampaignPut(w) PROVE PagesKept'
  BY <1>1 DEF CampaignPut, BeginPut
<1>2. ASSUME NEW w \in Campaigns, BeginDelete(w) PROVE PagesKept'
  BY <1>2 DEF BeginDelete
<1>3. ASSUME NEW w \in Campaigns, WorkerEnds(w) PROVE PagesKept'
  BY <1>3 DEF WorkerEnds
<1>4. ASSUME NEW w \in Campaigns, WorkerStarts(w) PROVE PagesKept'
  BY <1>4 DEF WorkerStarts
<1>5. CASE CachePut
  BY <1>5 DEF CachePut, BeginPut
<1>6. ASSUME NEW t \in Threads, WriteObject(t) PROVE PagesKept'
  BY <1>6 DEF WriteObject
<1>7. ASSUME NEW t \in Threads, LookAtZone(t) PROVE PagesKept'
  BY <1>7 DEF LookAtZone
<1>8. ASSUME NEW t \in Threads, LinkZone(t) PROVE PagesKept'
  BY <1>8 DEF LinkZone
<1>9. ASSUME NEW t \in Threads, ReadIndex(t) PROVE PagesKept'
  BY <1>9 DEF ReadIndex
<1>10. ASSUME NEW t \in Threads, OpenTmp(t) PROVE PagesKept'
  BY <1>10 DEF OpenTmp
<1>11. ASSUME NEW t \in Threads, WriteTmp(t) PROVE PagesKept'
  BY <1>11 DEF WriteTmp
<1>12. ASSUME NEW t \in Threads, ReplaceTmp(t) PROVE PagesKept'
  BY <1>12 DEF ReplaceTmp, AfterIndex
<1>13. ASSUME NEW t \in Threads, RecordPrivate(t) PROVE PagesKept'
  BY <1>13 DEF RecordPrivate
<1>14. ASSUME NEW t \in Threads, UpsertCacheRow(t) PROVE PagesKept'
  BY <1>14, WorkingOn DEF UpsertCacheRow
<1>15. CASE RemovePrivateDir
  BY <1>15 DEF RemovePrivateDir
<1>16. CASE ReadForPurge
  <2>1. CASE index = Torn
    BY <1>16, <2>1 DEF ReadForPurge
  <2>2. CASE index # Torn
    <3>1. index \in Index
      BY <2>2
    <3>2. \A d \in Pages : Owners(index[d]) = {}
      <4>1. \A d \in Digests : \A c \in Owners(index[d]) : <<c, d>> \in begun
        BY <3>1 DEF Attribution, Attributed
      <4>2. \A c, d : <<c, d>> \in begun => d \in Images
        OBVIOUS
      <4>3. ASSUME NEW d \in Pages, NEW c \in Owners(index[d]) PROVE FALSE
        <5>1. d \in Digests
          BY DEF Digests
        <5>2. <<c, d>> \in begun
          BY <4>1, <5>1
        <5>. QED
          BY <4>2, <5>2
      <4>. QED
        BY <4>3
    <3>3. \A d \in Pages : Purged(index, job[Deleter].by)[d] = index[d]
      BY <3>2 DEF Purged, Digests
    <3>4. gone' \in SUBSET Images
      BY <1>16, <2>2, <3>3 DEF ReadForPurge, Digests
    <3>. QED
      BY <1>16, <2>2, <3>4 DEF ReadForPurge
  <2>. QED
    BY <2>1, <2>2
<1>17. CASE UnlinkObject
  BY <1>17 DEF UnlinkObject
<1>18. CASE UnlinkedAll
  BY <1>18 DEF UnlinkedAll
<1>19. CASE MarkDeleted
  BY <1>19 DEF MarkDeleted
<1>20. CASE Crash
  BY <1>20 DEF Crash
<1>21. CASE UNCHANGED vars
  BY <1>21 DEF vars
<1>. QED
  BY <1>1, <1>2, <1>3, <1>4, <1>5, <1>6, <1>7, <1>8, <1>9, <1>10, <1>11,
     <1>12, <1>13, <1>14, <1>15, <1>16, <1>17, <1>18, <1>19, <1>20, <1>21 DEF Next, Put

\* What is not an index has no owners; a put adds its own campaign, a purge none.
LEMMA NoOwners == \A b : Attributed(Torn, b) /\ Attributed(Absent, b)
  BY FileConstants DEF Attributed

LEMMA WithOwnerAttributed ==
    ASSUME NEW old \in Index, NEW b, Attributed(old, b), NEW d \in Digests, NEW by,
           by # Nobody => <<by, d>> \in b
    PROVE  Attributed([old EXCEPT ![d] = WithOwner(@, by)], b)
<1>1. \A e \in Digests : \A c \in Owners(old[e]) : <<c, e>> \in b
  BY DEF Attributed
<1>2. \A c \in Owners(WithOwner(old[d], by)) : <<c, d>> \in b
  BY <1>1 DEF WithOwner, Owners
<1>. QED
  BY <1>1, <1>2 DEF Attributed, Index

LEMMA PurgedAttributed ==
    ASSUME NEW old \in Index, NEW b, Attributed(old, b), NEW c
    PROVE  Attributed(Purged(old, c), b)
<1>1. \A e \in Digests : Owners(Purged(old, c)[e]) \subseteq Owners(old[e])
  BY DEF Purged, Owners
<1>. QED
  BY <1>1 DEF Attributed

\* Owners began to store what they own.
LEMMA StepAttribution == IInv /\ [Next]_vars => Attribution'
<1> SUFFICES ASSUME IInv, [Next]_vars PROVE Attribution'
  OBVIOUS
<1> USE NoOwners, StoreConstants DEF IInv, TypeOK, Attribution, files, Goto, Step, End
<1>1. ASSUME NEW w \in Campaigns, CampaignPut(w) PROVE Attribution'
  BY <1>1 DEF CampaignPut, BeginPut, Attributed
<1>2. ASSUME NEW w \in Campaigns, BeginDelete(w) PROVE Attribution'
  BY <1>2 DEF BeginDelete
<1>3. ASSUME NEW w \in Campaigns, WorkerEnds(w) PROVE Attribution'
  BY <1>3 DEF WorkerEnds
<1>4. ASSUME NEW w \in Campaigns, WorkerStarts(w) PROVE Attribution'
  BY <1>4 DEF WorkerStarts
<1>5. CASE CachePut
  BY <1>5 DEF CachePut, BeginPut, Attributed
<1>6. ASSUME NEW t \in Threads, WriteObject(t) PROVE Attribution'
  BY <1>6 DEF WriteObject
<1>7. ASSUME NEW t \in Threads, LookAtZone(t) PROVE Attribution'
  BY <1>7 DEF LookAtZone
<1>8. ASSUME NEW t \in Threads, LinkZone(t) PROVE Attribution'
  BY <1>8 DEF LinkZone
<1>9. ASSUME NEW t \in Threads, ReadIndex(t) PROVE Attribution'
  <2>1. CASE index = Torn
    BY <1>9, <2>1 DEF ReadIndex
  <2>2. CASE index # Torn
    <3>1. /\ job[t].digest \in Digests
          /\ (job[t].by # Nobody => <<job[t].by, job[t].digest>> \in begun)
      BY <1>9, WorkingOn DEF ReadIndex, AtWork, CampaignThread, SourceThread,
         DeleteHandler, IndexPlaces, Threads
    <3>2. Attributed([index EXCEPT ![job[t].digest] = WithOwner(@, job[t].by)], begun)
      BY <2>2, <3>1, WithOwnerAttributed
    <3>. QED
      BY <1>9, <2>2, <3>2 DEF ReadIndex
  <2>. QED
    BY <2>1, <2>2
<1>10. ASSUME NEW t \in Threads, OpenTmp(t) PROVE Attribution'
  BY <1>10 DEF OpenTmp
<1>11. ASSUME NEW t \in Threads, WriteTmp(t) PROVE Attribution'
  BY <1>11 DEF WriteTmp, Written
<1>12. ASSUME NEW t \in Threads, ReplaceTmp(t) PROVE Attribution'
  BY <1>12 DEF ReplaceTmp
<1>13. ASSUME NEW t \in Threads, RecordPrivate(t) PROVE Attribution'
  BY <1>13 DEF RecordPrivate
<1>14. ASSUME NEW t \in Threads, UpsertCacheRow(t) PROVE Attribution'
  BY <1>14 DEF UpsertCacheRow
<1>15. CASE RemovePrivateDir
  BY <1>15 DEF RemovePrivateDir
<1>16. CASE ReadForPurge
  <2>1. CASE index = Torn
    BY <1>16, <2>1 DEF ReadForPurge
  <2>2. CASE index # Torn
    <3>1. Attributed(Purged(index, job[Deleter].by), begun)
      BY <2>2, PurgedAttributed
    <3>. QED
      BY <1>16, <2>2, <3>1 DEF ReadForPurge
  <2>. QED
    BY <2>1, <2>2
<1>17. CASE UnlinkObject
  BY <1>17 DEF UnlinkObject
<1>18. CASE UnlinkedAll
  BY <1>18 DEF UnlinkedAll
<1>19. CASE MarkDeleted
  BY <1>19 DEF MarkDeleted
<1>20. CASE Crash
  BY <1>20 DEF Crash
<1>21. CASE UNCHANGED vars
  BY <1>21 DEF vars
<1>. QED
  BY <1>1, <1>2, <1>3, <1>4, <1>5, <1>6, <1>7, <1>8, <1>9, <1>10, <1>11,
     <1>12, <1>13, <1>14, <1>15, <1>16, <1>17, <1>18, <1>19, <1>20, <1>21 DEF Next, Put

-----------------------------------------------------------------------------
LEMMA Invariance == Spec => []IInv
<1>1. IInv /\ [Next]_vars => IInv'
  BY StepTypeOK, StepAtWork, StepCopiesReady, StepPagesKept, StepAttribution DEF IInv
<1>. QED
  BY InitIInv, <1>1, PTL DEF Spec

\* TypeOK for every number of campaigns, objects, puts and crashes.
THEOREM StoreTypeCorrect == Spec => []TypeOK
<1>1. IInv => TypeOK
  BY DEF IInv
<1>. QED
  BY <1>1, Invariance, PTL

\* Isolation: owned_by lets through only a campaign that began to store the
\* object, although writers of the index race without the lock.
THEOREM Isolation == Spec => []ReadersStoredIt
<1>1. IInv => ReadersStoredIt
  BY DEF IInv, TypeOK, Attribution, Attributed, ReadersStoredIt, MayRead, Owners
<1>. QED
  BY <1>1, Invariance, PTL

\* A row of the response cache always has its body: purge_campaign_private
\* never unlinks a page.
THEOREM CacheHasBodies == Spec => []CachedBodyPresent
<1>1. IInv => CachedBodyPresent
  BY DEF IInv, PagesKept, CachedBodyPresent
<1>. QED
  BY <1>1, Invariance, PTL

-----------------------------------------------------------------------------
(* Operations that do not overlap.  One thread is at work at a time, so    *)
(* what it has read is still so when it writes: its copy of the index is   *)
(* the index but for what it adds or takes away.                           *)

OneAtWork == \A t, u \in Threads : pc[t] # "idle" /\ pc[u] # "idle" => t = u

\* A put finds what it has written, and writes what it has read.
PutUndisturbed(t) ==
    /\ pc[t] \in {"zone", "link", "read", "marker"} \union IndexPlaces =>
          job[t].digest \in object
    /\ pc[t] = "link" => job[t].digest \notin linked
    /\ pc[t] \in IndexPlaces =>
          copy[t] = [index EXCEPT ![job[t].digest] = WithOwner(@, job[t].by)]
    /\ pc[t] = "marker" => t \in Owners(index[job[t].digest])

\* The file a thread writes has its name still, and what was written is there.
FileUndisturbed(t) ==
    /\ pc[t] = "write" => opened[t] = "tmp" /\ tmp = Torn
    /\ pc[t] = "replace" => tmp = copy[t] /\ tmp \in Index

PutsUndisturbed == \A t \in Threads \ {Deleter} : PutUndisturbed(t)
FilesUndisturbed == \A t \in Threads : FileUndisturbed(t)

\* The purge of c removes the objects that only c owned, and then c from the index.
PurgeUndisturbed(c) ==
    /\ c \in asked /\ (c \in running => c \in late)
    /\ pc[Deleter] # "rmtree" => \A d \in Digests : <<c, d>> \notin marker
    /\ pc[Deleter] \in {"unlink"} \union IndexPlaces =>
          /\ copy[Deleter] = Purged(index, c)
          /\ \A d \in gone : index[d] = {c}
          /\ \A d \in object : index[d] = {c} => d \in gone
    /\ pc[Deleter] \in IndexPlaces => gone = {}
    /\ pc[Deleter] = "rows" => \A d \in Digests : c \notin Owners(index[d])

PurgeGoesOn == pc[Deleter] # "idle" => PurgeUndisturbed(job[Deleter].by)

\* Nothing names a campaign that was deleted without a worker, and nobody works for it.
DeletedUnnamed ==
    \A c \in Campaigns : Deleted(c) =>
        /\ c \notin running
        /\ \A d \in Digests : c \notin Owners(index[d]) /\ <<c, d>> \notin marker

\* An image that is there has an owner, or a campaign is about to be its owner.
ImagesOwned ==
    crashes = 0 =>
        \A d \in object \intersect Images :
            \/ Owners(index[d]) # {}
            \/ \E e \in Campaigns : pc[e] # "idle" /\ job[e].digest = d

\* What a campaign that nobody began to delete was told is stored is its own and there.
KeptOwned ==
    \A p \in kept : p[1] \notin asked => p[1] \in Owners(index[p[2]]) /\ p[2] \in object

Undisturbed ==
    /\ OneAtWork /\ index \in Index
    /\ PutsUndisturbed /\ FilesUndisturbed /\ PurgeGoesOn
    /\ DeletedUnnamed /\ ImagesOwned /\ KeptOwned

\* A campaign's thread is its worker.
WorkersRun == \A c \in Campaigns : pc[c] # "idle" => c \in running

SerialInv == WorkersRun /\ (overlap \/ Undisturbed)


\* Only a worker's thread is at work for a campaign.
LEMMA WorkersRunStep == IInv /\ WorkersRun /\ [Next]_vars => WorkersRun'
<1> SUFFICES ASSUME IInv, WorkersRun, [Next]_vars PROVE WorkersRun'
  OBVIOUS
<1> USE StoreConstants DEF IInv, TypeOK, files, Goto, Step, End, Threads, AtWork,
        CampaignThread, SourceThread, DeleteHandler, IndexPlaces, WorkersRun
<1>1. ASSUME NEW w \in Campaigns, CampaignPut(w) PROVE WorkersRun'
  BY <1>1 DEF CampaignPut, BeginPut, Overlaps
<1>2. ASSUME NEW w \in Campaigns, BeginDelete(w) PROVE WorkersRun'
  BY <1>2 DEF BeginDelete, Overlaps
<1>3. ASSUME NEW w \in Campaigns, WorkerEnds(w) PROVE WorkersRun'
  BY <1>3 DEF WorkerEnds
<1>4. ASSUME NEW w \in Campaigns, WorkerStarts(w) PROVE WorkersRun'
  BY <1>4 DEF WorkerStarts
<1>5. CASE CachePut
  BY <1>5 DEF CachePut, BeginPut, Overlaps
<1>6. ASSUME NEW t \in Threads, WriteObject(t) PROVE WorkersRun'
  BY <1>6 DEF WriteObject
<1>7. ASSUME NEW t \in Threads, LookAtZone(t) PROVE WorkersRun'
  BY <1>7 DEF LookAtZone
<1>8. ASSUME NEW t \in Threads, LinkZone(t) PROVE WorkersRun'
  BY <1>8 DEF LinkZone
<1>9. ASSUME NEW t \in Threads, ReadIndex(t) PROVE WorkersRun'
  BY <1>9 DEF ReadIndex
<1>10. ASSUME NEW t \in Threads, OpenTmp(t) PROVE WorkersRun'
  BY <1>10 DEF OpenTmp
<1>11. ASSUME NEW t \in Threads, WriteTmp(t) PROVE WorkersRun'
  BY <1>11 DEF WriteTmp, Written
<1>12. ASSUME NEW t \in Threads, ReplaceTmp(t) PROVE WorkersRun'
  BY <1>12 DEF ReplaceTmp, AfterIndex, Renamed
<1>13. ASSUME NEW t \in Threads, RecordPrivate(t) PROVE WorkersRun'
  BY <1>13 DEF RecordPrivate
<1>14. ASSUME NEW t \in Threads, UpsertCacheRow(t) PROVE WorkersRun'
  BY <1>14 DEF UpsertCacheRow
<1>15. CASE RemovePrivateDir
  BY <1>15 DEF RemovePrivateDir
<1>16. CASE ReadForPurge
  BY <1>16 DEF ReadForPurge, Purged
<1>17. CASE UnlinkObject
  BY <1>17 DEF UnlinkObject
<1>18. CASE UnlinkedAll
  BY <1>18 DEF UnlinkedAll
<1>19. CASE MarkDeleted
  BY <1>19 DEF MarkDeleted
<1>20. CASE Crash
  BY <1>20 DEF Crash
<1>21. CASE UNCHANGED vars
  BY <1>21 DEF vars
<1>. QED
  BY <1>1, <1>2, <1>3, <1>4, <1>5, <1>6, <1>7, <1>8, <1>9, <1>10, <1>11, <1>12,
     <1>13, <1>14, <1>15, <1>16, <1>17, <1>18, <1>19, <1>20, <1>21 DEF Next, Put

\* A campaign that writes the index is an owner in what it writes.
LEMMA OwnerAdded ==
    ASSUME IInv, Undisturbed, NEW c \in Campaigns, pc[c] \in IndexPlaces
    PROVE  c \in Owners(copy[c][job[c].digest])
<1>1. c \in Threads \ {Deleter}
  BY StoreConstants DEF Threads
<1>2. copy[c] = [index EXCEPT ![job[c].digest] = WithOwner(@, job[c].by)]
  BY <1>1 DEF Undisturbed, PutsUndisturbed, PutUndisturbed
<1>3. job[c].by = c /\ job[c].digest \in Digests
  BY DEF IInv, AtWork, CampaignThread, IndexPlaces, Digests
<1>4. index \in Index /\ c # Nobody
  BY StoreConstants DEF Undisturbed, Threads
<1>5. copy[c][job[c].digest] = Owners(index[job[c].digest]) \union {c}
  BY <1>2, <1>3, <1>4 DEF WithOwner, Index
<1>6. Owners(index[job[c].digest]) \subseteq Campaigns
  BY <1>3, <1>4 DEF Owners, Index
<1>. QED
  BY <1>5, <1>6, FileConstants DEF Owners

\* A put that overlaps nothing finds every thread idle.
Began(t, by, d) ==
    /\ \A u \in Threads : pc[u] = "idle"
    /\ pc' = [pc EXCEPT ![t] = "object"]
    /\ job' = [job EXCEPT ![t] = [by |-> by, digest |-> d]]
    /\ UNCHANGED <<object, linked, index, marker, row, running, crashes, kept, asked, late>>

LEMMA CampaignPutBegins ==
    ASSUME IInv, NEW w \in Campaigns, CampaignPut(w), ~overlap'
    PROVE  \E d \in Images : Began(w, w, d)
<1>1. PICK d \in Images, locks \in BOOLEAN : BeginPut(w, w, d, locks)
  BY DEF CampaignPut
<1>. QED
  BY <1>1 DEF BeginPut, Goto, Overlaps, files, Began, Threads

LEMMA CachePutBegins ==
    ASSUME IInv, CachePut, ~overlap'
    PROVE  \E d \in Pages : Began(Source, Nobody, d)
<1>1. PICK d \in Pages : BeginPut(Source, Nobody, d, FALSE)
  BY DEF CachePut
<1>. QED
  BY <1>1 DEF BeginPut, Goto, Overlaps, files, Began, Threads

\* Operations that have not overlapped go on one at a time.
LEMMA OneAtWorkStep == IInv /\ OneAtWork /\ ~overlap' /\ [Next]_vars => OneAtWork'
<1> SUFFICES ASSUME IInv, OneAtWork, ~overlap', [Next]_vars PROVE OneAtWork'
  OBVIOUS
<1> USE StoreConstants DEF IInv, TypeOK, files, Goto, Step, End, Threads, OneAtWork
<1>1. ASSUME NEW w \in Campaigns, CampaignPut(w) PROVE OneAtWork'
  <2>1. PICK d \in Images : Began(w, w, d)
    BY <1>1, CampaignPutBegins
  <2> QED
    BY <2>1 DEF Began
<1>2. ASSUME NEW w \in Campaigns, BeginDelete(w) PROVE OneAtWork'
  BY <1>2 DEF BeginDelete, Overlaps
<1>3. ASSUME NEW w \in Campaigns, WorkerEnds(w) PROVE OneAtWork'
  BY <1>3 DEF WorkerEnds
<1>4. ASSUME NEW w \in Campaigns, WorkerStarts(w) PROVE OneAtWork'
  BY <1>4 DEF WorkerStarts
<1>5. CASE CachePut
  <2>1. PICK d \in Pages : Began(Source, Nobody, d)
    BY <1>5, CachePutBegins
  <2> QED
    BY <2>1 DEF Began
<1>6. ASSUME NEW t \in Threads, WriteObject(t) PROVE OneAtWork'
  BY <1>6 DEF WriteObject
<1>7. ASSUME NEW t \in Threads, LookAtZone(t) PROVE OneAtWork'
  BY <1>7 DEF LookAtZone
<1>8. ASSUME NEW t \in Threads, LinkZone(t) PROVE OneAtWork'
  BY <1>8 DEF LinkZone
<1>9. ASSUME NEW t \in Threads, ReadIndex(t) PROVE OneAtWork'
  BY <1>9 DEF ReadIndex
<1>10. ASSUME NEW t \in Threads, OpenTmp(t) PROVE OneAtWork'
  BY <1>10 DEF OpenTmp
<1>11. ASSUME NEW t \in Threads, WriteTmp(t) PROVE OneAtWork'
  BY <1>11 DEF WriteTmp, Written
<1>12. ASSUME NEW t \in Threads, ReplaceTmp(t) PROVE OneAtWork'
  BY <1>12 DEF ReplaceTmp, AfterIndex, Renamed
<1>13. ASSUME NEW t \in Threads, RecordPrivate(t) PROVE OneAtWork'
  BY <1>13 DEF RecordPrivate
<1>14. ASSUME NEW t \in Threads, UpsertCacheRow(t) PROVE OneAtWork'
  BY <1>14 DEF UpsertCacheRow
<1>15. CASE RemovePrivateDir
  BY <1>15 DEF RemovePrivateDir
<1>16. CASE ReadForPurge
  BY <1>16 DEF ReadForPurge, Purged
<1>17. CASE UnlinkObject
  BY <1>17 DEF UnlinkObject
<1>18. CASE UnlinkedAll
  BY <1>18 DEF UnlinkedAll
<1>19. CASE MarkDeleted
  BY <1>19 DEF MarkDeleted
<1>20. CASE Crash
  BY <1>20 DEF Crash
<1>21. CASE UNCHANGED vars
  BY <1>21 DEF vars
<1>. QED
  BY <1>1, <1>2, <1>3, <1>4, <1>5, <1>6, <1>7, <1>8, <1>9, <1>10, <1>11, <1>12,
     <1>13, <1>14, <1>15, <1>16, <1>17, <1>18, <1>19, <1>20, <1>21 DEF Next, Put

\* What has overlapped has.
LEMMA OverlapStays == ~overlap' /\ [Next]_vars => ~overlap
<1> SUFFICES ASSUME ~overlap', [Next]_vars PROVE ~overlap
  OBVIOUS
<1> USE StoreConstants DEF files
<1>1. ASSUME NEW w \in Campaigns, CampaignPut(w) PROVE ~overlap
  BY <1>1 DEF CampaignPut, BeginPut, Overlaps
<1>2. ASSUME NEW w \in Campaigns, BeginDelete(w) PROVE ~overlap
  BY <1>2 DEF BeginDelete, Overlaps
<1>3. ASSUME NEW w \in Campaigns, WorkerEnds(w) PROVE ~overlap
  BY <1>3 DEF WorkerEnds
<1>4. ASSUME NEW w \in Campaigns, WorkerStarts(w) PROVE ~overlap
  BY <1>4 DEF WorkerStarts
<1>5. CASE CachePut
  BY <1>5 DEF CachePut, BeginPut, Overlaps
<1>6. ASSUME NEW t \in Threads, WriteObject(t) PROVE ~overlap
  BY <1>6 DEF WriteObject
<1>7. ASSUME NEW t \in Threads, LookAtZone(t) PROVE ~overlap
  BY <1>7 DEF LookAtZone
<1>8. ASSUME NEW t \in Threads, LinkZone(t) PROVE ~overlap
  BY <1>8 DEF LinkZone
<1>9. ASSUME NEW t \in Threads, ReadIndex(t) PROVE ~overlap
  BY <1>9 DEF ReadIndex
<1>10. ASSUME NEW t \in Threads, OpenTmp(t) PROVE ~overlap
  BY <1>10 DEF OpenTmp
<1>11. ASSUME NEW t \in Threads, WriteTmp(t) PROVE ~overlap
  BY <1>11 DEF WriteTmp, Written
<1>12. ASSUME NEW t \in Threads, ReplaceTmp(t) PROVE ~overlap
  BY <1>12 DEF ReplaceTmp, AfterIndex, Renamed
<1>13. ASSUME NEW t \in Threads, RecordPrivate(t) PROVE ~overlap
  BY <1>13 DEF RecordPrivate
<1>14. ASSUME NEW t \in Threads, UpsertCacheRow(t) PROVE ~overlap
  BY <1>14 DEF UpsertCacheRow
<1>15. CASE RemovePrivateDir
  BY <1>15 DEF RemovePrivateDir
<1>16. CASE ReadForPurge
  BY <1>16 DEF ReadForPurge, Purged
<1>17. CASE UnlinkObject
  BY <1>17 DEF UnlinkObject
<1>18. CASE UnlinkedAll
  BY <1>18 DEF UnlinkedAll
<1>19. CASE MarkDeleted
  BY <1>19 DEF MarkDeleted
<1>20. CASE Crash
  BY <1>20 DEF Crash
<1>21. CASE UNCHANGED vars
  BY <1>21 DEF vars
<1>. QED
  BY <1>1, <1>2, <1>3, <1>4, <1>5, <1>6, <1>7, <1>8, <1>9, <1>10, <1>11, <1>12,
     <1>13, <1>14, <1>15, <1>16, <1>17, <1>18, <1>19, <1>20, <1>21 DEF Next, Put

\* The file a thread has opened keeps its name, and what was written stays there.
LEMMA FileStep == IInv /\ Undisturbed /\ ~overlap' /\ [Next]_vars => FilesUndisturbed'
<1> SUFFICES ASSUME IInv, Undisturbed, ~overlap', [Next]_vars PROVE FilesUndisturbed'
  OBVIOUS
<1> USE StoreConstants DEF IInv, TypeOK, files, Goto, Step, End, Threads, OneAtWork,
        CopiesReady, Undisturbed, FileUndisturbed, FilesUndisturbed
<1>1. ASSUME NEW w \in Campaigns, CampaignPut(w) PROVE FilesUndisturbed'
  BY <1>1 DEF CampaignPut, BeginPut, Overlaps
<1>2. ASSUME NEW w \in Campaigns, BeginDelete(w) PROVE FilesUndisturbed'
  BY <1>2 DEF BeginDelete, Overlaps
<1>3. ASSUME NEW w \in Campaigns, WorkerEnds(w) PROVE FilesUndisturbed'
  BY <1>3 DEF WorkerEnds
<1>4. ASSUME NEW w \in Campaigns, WorkerStarts(w) PROVE FilesUndisturbed'
  BY <1>4 DEF WorkerStarts
<1>5. CASE CachePut
  BY <1>5 DEF CachePut, BeginPut, Overlaps
<1>6. ASSUME NEW t \in Threads, WriteObject(t) PROVE FilesUndisturbed'
  BY <1>6 DEF WriteObject
<1>7. ASSUME NEW t \in Threads, LookAtZone(t) PROVE FilesUndisturbed'
  BY <1>7 DEF LookAtZone
<1>8. ASSUME NEW t \in Threads, LinkZone(t) PROVE FilesUndisturbed'
  BY <1>8 DEF LinkZone
<1>9. ASSUME NEW t \in Threads, ReadIndex(t) PROVE FilesUndisturbed'
  BY <1>9 DEF ReadIndex
<1>10. ASSUME NEW t \in Threads, OpenTmp(t) PROVE FilesUndisturbed'
  BY <1>10 DEF OpenTmp
<1>11. ASSUME NEW t \in Threads, WriteTmp(t) PROVE FilesUndisturbed'
  BY <1>11 DEF WriteTmp, Written
<1>12. ASSUME NEW t \in Threads, ReplaceTmp(t) PROVE FilesUndisturbed'
  BY <1>12 DEF ReplaceTmp, AfterIndex, Renamed
<1>13. ASSUME NEW t \in Threads, RecordPrivate(t) PROVE FilesUndisturbed'
  BY <1>13 DEF RecordPrivate
<1>14. ASSUME NEW t \in Threads, UpsertCacheRow(t) PROVE FilesUndisturbed'
  BY <1>14 DEF UpsertCacheRow
<1>15. CASE RemovePrivateDir
  BY <1>15 DEF RemovePrivateDir
<1>16. CASE ReadForPurge
  BY <1>16 DEF ReadForPurge, Purged
<1>17. CASE UnlinkObject
  BY <1>17 DEF UnlinkObject
<1>18. CASE UnlinkedAll
  BY <1>18 DEF UnlinkedAll
<1>19. CASE MarkDeleted
  BY <1>19 DEF MarkDeleted
<1>20. CASE Crash
  BY <1>20 DEF Crash
<1>21. CASE UNCHANGED vars
  BY <1>21 DEF vars
<1>. QED
  BY <1>1, <1>2, <1>3, <1>4, <1>5, <1>6, <1>7, <1>8, <1>9, <1>10, <1>11, <1>12,
     <1>13, <1>14, <1>15, <1>16, <1>17, <1>18, <1>19, <1>20, <1>21 DEF Next, Put

\* The index stays JSON.
LEMMA IndexStep == IInv /\ Undisturbed /\ ~overlap' /\ [Next]_vars => index' \in Index
<1> SUFFICES ASSUME IInv, Undisturbed, ~overlap', [Next]_vars PROVE index' \in Index
  OBVIOUS
<1> USE StoreConstants DEF IInv, TypeOK, files, Goto, Step, End, Threads, OneAtWork,
        CopiesReady, IndexPlaces, Undisturbed, FilesUndisturbed, FileUndisturbed
<1>1. ASSUME NEW w \in Campaigns, CampaignPut(w) PROVE index' \in Index
  BY <1>1 DEF CampaignPut, BeginPut, Overlaps
<1>2. ASSUME NEW w \in Campaigns, BeginDelete(w) PROVE index' \in Index
  BY <1>2 DEF BeginDelete, Overlaps
<1>3. ASSUME NEW w \in Campaigns, WorkerEnds(w) PROVE index' \in Index
  BY <1>3 DEF WorkerEnds
<1>4. ASSUME NEW w \in Campaigns, WorkerStarts(w) PROVE index' \in Index
  BY <1>4 DEF WorkerStarts
<1>5. CASE CachePut
  BY <1>5 DEF CachePut, BeginPut, Overlaps
<1>6. ASSUME NEW t \in Threads, WriteObject(t) PROVE index' \in Index
  BY <1>6 DEF WriteObject
<1>7. ASSUME NEW t \in Threads, LookAtZone(t) PROVE index' \in Index
  BY <1>7 DEF LookAtZone
<1>8. ASSUME NEW t \in Threads, LinkZone(t) PROVE index' \in Index
  BY <1>8 DEF LinkZone
<1>9. ASSUME NEW t \in Threads, ReadIndex(t) PROVE index' \in Index
  BY <1>9 DEF ReadIndex
<1>10. ASSUME NEW t \in Threads, OpenTmp(t) PROVE index' \in Index
  BY <1>10 DEF OpenTmp
<1>11. ASSUME NEW t \in Threads, WriteTmp(t) PROVE index' \in Index
  BY <1>11 DEF WriteTmp, Written
<1>12. ASSUME NEW t \in Threads, ReplaceTmp(t) PROVE index' \in Index
  BY <1>12 DEF ReplaceTmp, AfterIndex, Renamed
<1>13. ASSUME NEW t \in Threads, RecordPrivate(t) PROVE index' \in Index
  BY <1>13 DEF RecordPrivate
<1>14. ASSUME NEW t \in Threads, UpsertCacheRow(t) PROVE index' \in Index
  BY <1>14 DEF UpsertCacheRow
<1>15. CASE RemovePrivateDir
  BY <1>15 DEF RemovePrivateDir
<1>16. CASE ReadForPurge
  BY <1>16 DEF ReadForPurge, Purged
<1>17. CASE UnlinkObject
  BY <1>17 DEF UnlinkObject
<1>18. CASE UnlinkedAll
  BY <1>18 DEF UnlinkedAll
<1>19. CASE MarkDeleted
  BY <1>19 DEF MarkDeleted
<1>20. CASE Crash
  BY <1>20 DEF Crash
<1>21. CASE UNCHANGED vars
  BY <1>21 DEF vars
<1>. QED
  BY <1>1, <1>2, <1>3, <1>4, <1>5, <1>6, <1>7, <1>8, <1>9, <1>10, <1>11, <1>12,
     <1>13, <1>14, <1>15, <1>16, <1>17, <1>18, <1>19, <1>20, <1>21 DEF Next, Put

\* A put goes on undisturbed.
LEMMA PutStep == IInv /\ Undisturbed /\ ~overlap' /\ [Next]_vars => PutsUndisturbed'
<1> SUFFICES ASSUME IInv, Undisturbed, ~overlap', [Next]_vars PROVE PutsUndisturbed'
  OBVIOUS
<1> USE StoreConstants DEF IInv, TypeOK, files, Goto, Step, End, Threads, AtWork,
        CampaignThread, SourceThread, DeleteHandler, IndexPlaces, OneAtWork,
        CopiesReady, Undisturbed, FileUndisturbed, FilesUndisturbed, PutsUndisturbed,
        PutUndisturbed
<1>1. ASSUME NEW w \in Campaigns, CampaignPut(w) PROVE PutsUndisturbed'
  <2>1. PICK d \in Images : Began(w, w, d)
    BY <1>1, CampaignPutBegins
  <2> QED
    BY <2>1 DEF Began
<1>2. ASSUME NEW w \in Campaigns, BeginDelete(w) PROVE PutsUndisturbed'
  BY <1>2 DEF BeginDelete, Overlaps
<1>3. ASSUME NEW w \in Campaigns, WorkerEnds(w) PROVE PutsUndisturbed'
  BY <1>3 DEF WorkerEnds
<1>4. ASSUME NEW w \in Campaigns, WorkerStarts(w) PROVE PutsUndisturbed'
  BY <1>4 DEF WorkerStarts
<1>5. CASE CachePut
  <2>1. PICK d \in Pages : Began(Source, Nobody, d)
    BY <1>5, CachePutBegins
  <2> QED
    BY <2>1 DEF Began
<1>6. ASSUME NEW t \in Threads, WriteObject(t) PROVE PutsUndisturbed'
  BY <1>6 DEF WriteObject
<1>7. ASSUME NEW t \in Threads, LookAtZone(t) PROVE PutsUndisturbed'
  BY <1>7 DEF LookAtZone
<1>8. ASSUME NEW t \in Threads, LinkZone(t) PROVE PutsUndisturbed'
  BY <1>8 DEF LinkZone
<1>9. ASSUME NEW t \in Threads, ReadIndex(t) PROVE PutsUndisturbed'
  BY <1>9 DEF ReadIndex
<1>10. ASSUME NEW t \in Threads, OpenTmp(t) PROVE PutsUndisturbed'
  BY <1>10 DEF OpenTmp
<1>11. ASSUME NEW t \in Threads, WriteTmp(t) PROVE PutsUndisturbed'
  BY <1>11 DEF WriteTmp, Written
<1>12. ASSUME NEW t \in Threads, ReplaceTmp(t) PROVE PutsUndisturbed'
  <2>1. pc[t] = "replace"
    BY <1>12 DEF ReplaceTmp
  <2>2. tmp = copy[t] /\ tmp # Absent
    BY <2>1, FileConstants
  <2>3. \A u \in Threads \ {t} : pc[u] = "idle"
    BY <2>1
  <2>4. /\ index' = copy[t] /\ pc' = [pc EXCEPT ![t] = AfterIndex(t)]
        /\ UNCHANGED <<job, object>>
    BY <1>12, <2>2 DEF ReplaceTmp
  <2>5. ASSUME t \in Campaigns PROVE t \in Owners(index'[job[t].digest])
    BY <2>1, <2>4, <2>5, OwnerAdded
  <2>6. t # Deleter => t \in Campaigns \/ t = Source
    OBVIOUS
  <2>7. t # Deleter => job[t].digest \in object
    BY <2>1
  <2> HIDE DEF IInv, TypeOK, AtWork, Undisturbed, FilesUndisturbed
  <2>8. ASSUME NEW u \in Threads \ {Deleter} PROVE PutUndisturbed(u)'
    <3>1. CASE u = t
      <4>1. pc'[t] = AfterIndex(t)
        BY <2>4 DEF IInv, TypeOK
      <4>2. pc'[t] \in {"marker", "cached"} /\ (pc'[t] = "marker" => t \in Campaigns)
        BY <2>6, <3>1, <4>1 DEF AfterIndex
      <4> QED
        BY <2>4, <2>5, <2>7, <3>1, <4>2
    <3>2. CASE u # t
      BY <2>3, <2>4, <3>2 DEF IInv, TypeOK
    <3> QED
      BY <3>1, <3>2
  <2> QED
    BY <2>8
<1>13. ASSUME NEW t \in Threads, RecordPrivate(t) PROVE PutsUndisturbed'
  BY <1>13 DEF RecordPrivate
<1>14. ASSUME NEW t \in Threads, UpsertCacheRow(t) PROVE PutsUndisturbed'
  BY <1>14 DEF UpsertCacheRow
<1>15. CASE RemovePrivateDir
  BY <1>15 DEF RemovePrivateDir
<1>16. CASE ReadForPurge
  BY <1>16 DEF ReadForPurge, Purged
<1>17. CASE UnlinkObject
  BY <1>17 DEF UnlinkObject
<1>18. CASE UnlinkedAll
  BY <1>18 DEF UnlinkedAll
<1>19. CASE MarkDeleted
  BY <1>19 DEF MarkDeleted
<1>20. CASE Crash
  BY <1>20 DEF Crash
<1>21. CASE UNCHANGED vars
  BY <1>21 DEF vars
<1>. QED
  BY <1>1, <1>2, <1>3, <1>4, <1>5, <1>6, <1>7, <1>8, <1>9, <1>10, <1>11, <1>12,
     <1>13, <1>14, <1>15, <1>16, <1>17, <1>18, <1>19, <1>20, <1>21 DEF Next, Put

\* What a put that writes the index makes of the owners.
LEMMA PutOwners ==
    ASSUME IInv, Undisturbed, NEW t \in Threads \ {Deleter}, pc[t] \in IndexPlaces,
           NEW d \in Digests
    PROVE  /\ Owners(index[d]) \subseteq Owners(copy[t][d])
           /\ Owners(copy[t][d]) \subseteq Owners(index[d]) \union {t}
<1>1. copy[t] = [index EXCEPT ![job[t].digest] = WithOwner(@, job[t].by)]
  BY DEF Undisturbed, PutsUndisturbed, PutUndisturbed
<1>2. job[t].by \in {t, Nobody} /\ (job[t].by # Nobody => job[t].by \in Campaigns)
  BY StoreConstants DEF IInv, AtWork, CampaignThread, SourceThread, IndexPlaces, Threads
<1>3. index \in Index
  BY DEF Undisturbed
<1>4. Owners(index[d]) \in SUBSET Campaigns
  BY <1>3 DEF Owners, Index
<1>5. CASE d = job[t].digest
  <2>1. copy[t][d] = WithOwner(index[d], job[t].by)
    BY <1>1, <1>3, <1>5 DEF Index
  <2>2. /\ copy[t][d] \in SUBSET Campaigns /\ Owners(index[d]) \subseteq copy[t][d]
        /\ copy[t][d] \subseteq Owners(index[d]) \union {t}
    BY <1>2, <1>4, <2>1 DEF WithOwner
  <2>3. Owners(copy[t][d]) = copy[t][d]
    BY <2>2, FileConstants DEF Owners
  <2> QED
    BY <2>2, <2>3
<1>6. CASE d # job[t].digest
  BY <1>1, <1>3, <1>6 DEF Index
<1>. QED
  BY <1>5, <1>6

\* What a purge makes of them.
LEMMA PurgedOwners ==
    ASSUME NEW old \in Index, NEW c \in Campaigns, NEW d \in Digests
    PROVE  /\ Owners(Purged(old, c)[d]) = Owners(old[d]) \ {c}
           /\ Purged(old, c)[d] = Absent <=> old[d] \in {Absent, {c}}
<1>1. old[d] # Absent => old[d] \in SUBSET Campaigns
  BY DEF Index
<1>2. Purged(old, c)[d] = IF old[d] = Absent \/ c \notin Owners(old[d]) THEN old[d]
                          ELSE IF old[d] = {c} THEN Absent ELSE old[d] \ {c}
  BY DEF Purged
<1>3. CASE old[d] = Absent \/ c \notin Owners(old[d])
  <2>1. old[d] # {c}
    BY <1>3, FileConstants DEF Owners
  <2> QED
    BY <1>2, <1>3, <2>1 DEF Owners
<1>4. CASE old[d] # Absent /\ c \in Owners(old[d])
  <2>1. old[d] \in SUBSET Campaigns /\ Owners(old[d]) = old[d]
    BY <1>1, <1>4 DEF Owners
  <2>2. old[d] \ {c} # Absent
    BY <2>1, FileConstants
  <2> QED
    BY <1>2, <1>4, <2>1, <2>2 DEF Owners
<1>. QED
  BY <1>3, <1>4

\* The rename puts the copy of the thread in the place of the index.
LEMMA Replaced ==
    ASSUME IInv, Undisturbed, NEW t \in Threads, ReplaceTmp(t)
    PROVE  /\ pc[t] = "replace" /\ index' = copy[t] /\ index' \in Index
           /\ pc' = [pc EXCEPT ![t] = AfterIndex(t)]
           /\ UNCHANGED <<object, linked, marker, cached, row, running, job, copy, lock, gone,
                          puts, crashes, begun, kept, overlap, asked, late>>
<1>1. pc[t] = "replace"
  BY DEF ReplaceTmp
<1>2. tmp = copy[t] /\ tmp \in Index
  BY <1>1 DEF Undisturbed, FilesUndisturbed, FileUndisturbed
<1>3. tmp # Absent
  BY <1>2, FileConstants
<1>. QED
  BY <1>1, <1>2, <1>3 DEF ReplaceTmp, Step, Goto

\* The delete handler at work.
LEMMA PurgeAtWork ==
    ASSUME IInv, Undisturbed, pc[Deleter] # "idle"
    PROVE  /\ job[Deleter].by \in Campaigns /\ PurgeUndisturbed(job[Deleter].by)
           /\ \A u \in Threads \ {Deleter} : pc[u] = "idle"
           /\ Deleter \in Threads /\ index \in Index
BY DEF IInv, AtWork, DeleteHandler, Undisturbed, PurgeGoesOn, OneAtWork, Threads

\* A purge goes on undisturbed.
LEMMA PurgeStep == IInv /\ Undisturbed /\ ~overlap' /\ [Next]_vars => PurgeGoesOn'
<1> SUFFICES ASSUME IInv, Undisturbed, ~overlap', [Next]_vars PROVE PurgeGoesOn'
  OBVIOUS
<1> USE StoreConstants DEF IInv, TypeOK, files, Goto, Step, End, Threads, AtWork,
        CampaignThread, SourceThread, DeleteHandler, IndexPlaces, OneAtWork,
        Undisturbed, FilesUndisturbed, FileUndisturbed, PurgeGoesOn, PurgeUndisturbed
<1>1. ASSUME NEW w \in Campaigns, CampaignPut(w) PROVE PurgeGoesOn'
  <2>1. PICK d \in Images : Began(w, w, d)
    BY <1>1, CampaignPutBegins
  <2> QED
    BY <2>1 DEF Began
<1>2. ASSUME NEW w \in Campaigns, BeginDelete(w) PROVE PurgeGoesOn'
  BY <1>2 DEF BeginDelete, Overlaps
<1>3. ASSUME NEW w \in Campaigns, WorkerEnds(w) PROVE PurgeGoesOn'
  BY <1>3 DEF WorkerEnds
<1>4. ASSUME NEW w \in Campaigns, WorkerStarts(w) PROVE PurgeGoesOn'
  BY <1>4 DEF WorkerStarts
<1>5. CASE CachePut
  <2>1. PICK d \in Pages : Began(Source, Nobody, d)
    BY <1>5, CachePutBegins
  <2> QED
    BY <2>1 DEF Began
<1>6. ASSUME NEW t \in Threads, WriteObject(t) PROVE PurgeGoesOn'
  BY <1>6 DEF WriteObject
<1>7. ASSUME NEW t \in Threads, LookAtZone(t) PROVE PurgeGoesOn'
  BY <1>7 DEF LookAtZone
<1>8. ASSUME NEW t \in Threads, LinkZone(t) PROVE PurgeGoesOn'
  BY <1>8 DEF LinkZone
<1>9. ASSUME NEW t \in Threads, ReadIndex(t) PROVE PurgeGoesOn'
  BY <1>9 DEF ReadIndex
<1>10. ASSUME NEW t \in Threads, OpenTmp(t) PROVE PurgeGoesOn'
  BY <1>10 DEF OpenTmp
<1>11. ASSUME NEW t \in Threads, WriteTmp(t) PROVE PurgeGoesOn'
  BY <1>11 DEF WriteTmp, Written
<1>12. ASSUME NEW t \in Threads, ReplaceTmp(t) PROVE PurgeGoesOn'
  <2>1. CASE t # Deleter
    <3>1. pc[Deleter] = "idle" /\ pc'[Deleter] = "idle"
      BY <1>12, <2>1, Replaced
    <3> QED
      BY <3>1
  <2>2. CASE t = Deleter
    <3>1. /\ pc[t] = "replace" /\ index' = copy[t] /\ pc' = [pc EXCEPT ![t] = AfterIndex(t)]
          /\ UNCHANGED <<marker, running, job, gone, asked, late>>
      BY <1>12, Replaced
    <3>2. pc'[Deleter] = "rows"
      BY <2>2, <3>1 DEF AfterIndex
    <3>3. /\ index' = Purged(index, job[Deleter].by) /\ index \in Index
          /\ job[Deleter].by \in Campaigns
      BY <2>2, <3>1, PurgeAtWork
    <3>4. \A d \in Digests : job[Deleter].by \notin Owners(index'[d])
      <4> DEFINE c == job[Deleter].by
      <4>1. \A d \in Digests : Owners(Purged(index, job[Deleter].by)[d])
                               = Owners(index[d]) \ {job[Deleter].by}
        <5>1. c \in Campaigns /\ index \in Index
          BY <3>3
        <5> HIDE DEF c, IInv, TypeOK, Undisturbed
        <5>2. \A d \in Digests : Owners(Purged(index, c)[d]) = Owners(index[d]) \ {c}
          BY <5>1, PurgedOwners
        <5> QED
          BY <5>2 DEF c
      <4> QED
        BY <3>3, <4>1
    <3> QED
      BY <2>2, <3>1, <3>2, <3>4
  <2> QED
    BY <2>1, <2>2
<1>13. ASSUME NEW t \in Threads, RecordPrivate(t) PROVE PurgeGoesOn'
  BY <1>13 DEF RecordPrivate
<1>14. ASSUME NEW t \in Threads, UpsertCacheRow(t) PROVE PurgeGoesOn'
  BY <1>14 DEF UpsertCacheRow
<1>15. CASE RemovePrivateDir
  BY <1>15 DEF RemovePrivateDir
<1>16. CASE ReadForPurge
  <2>1. index # Torn
    BY FileConstants
  <2>2. job[Deleter].by \in Campaigns /\ index \in Index /\ PurgeUndisturbed(job[Deleter].by)
    BY <1>16, PurgeAtWork DEF ReadForPurge
  <2>3. /\ pc[Deleter] = "purge" /\ pc' = [pc EXCEPT ![Deleter] = "unlink"]
        /\ copy'[Deleter] = Purged(index, job[Deleter].by)
        /\ gone' = {d \in Digests : index[d] # Absent
                                     /\ Purged(index, job[Deleter].by)[d] = Absent}
        /\ UNCHANGED <<index, object, marker, running, job, asked, late>>
    BY <1>16, <2>1 DEF ReadForPurge
  <2>4. \A d \in Digests : d \in gone' <=> index[d] = {job[Deleter].by}
    BY <2>2, <2>3, PurgedOwners, FileConstants
  <2> QED
    BY <2>2, <2>3, <2>4
<1>17. CASE UnlinkObject
  BY <1>17 DEF UnlinkObject
<1>18. CASE UnlinkedAll
  BY <1>18 DEF UnlinkedAll
<1>19. CASE MarkDeleted
  BY <1>19 DEF MarkDeleted
<1>20. CASE Crash
  BY <1>20 DEF Crash
<1>21. CASE UNCHANGED vars
  BY <1>21 DEF vars
<1>. QED
  BY <1>1, <1>2, <1>3, <1>4, <1>5, <1>6, <1>7, <1>8, <1>9, <1>10, <1>11, <1>12,
     <1>13, <1>14, <1>15, <1>16, <1>17, <1>18, <1>19, <1>20, <1>21 DEF Next, Put

\* What the rename makes of the owners: a put adds its campaign, a purge takes its own
\* away.
LEMMA ReplacedOwners ==
    ASSUME IInv, Undisturbed, NEW t \in Threads, ReplaceTmp(t), NEW d \in Digests
    PROVE  /\ t # Deleter => /\ Owners(index[d]) \subseteq Owners(index'[d])
                             /\ Owners(index'[d]) \subseteq Owners(index[d]) \union {t}
           /\ t = Deleter => /\ Owners(index'[d]) = Owners(index[d]) \ {job[Deleter].by}
                             /\ d \in object => index[d] # {job[Deleter].by}
<1>1. pc[t] = "replace" /\ index' = copy[t]
  BY Replaced
<1>2. t # Deleter => /\ Owners(index[d]) \subseteq Owners(index'[d])
                     /\ Owners(index'[d]) \subseteq Owners(index[d]) \union {t}
  BY <1>1, PutOwners DEF IndexPlaces
<1>3. CASE t = Deleter
  <2>1. job[Deleter].by \in Campaigns /\ PurgeUndisturbed(job[Deleter].by) /\ index \in Index
    BY <1>1, <1>3, PurgeAtWork
  <2>2. index' = Purged(index, job[Deleter].by) /\ gone = {}
    BY <1>1, <1>3, <2>1 DEF PurgeUndisturbed, IndexPlaces
  <2>3. Owners(index'[d]) = Owners(index[d]) \ {job[Deleter].by}
    BY <2>1, <2>2, PurgedOwners
  <2>4. d \in object => index[d] # {job[Deleter].by}
    BY <1>1, <1>3, <2>1, <2>2 DEF PurgeUndisturbed, IndexPlaces
  <2> QED
    BY <1>3, <2>3, <2>4
<1>. QED
  BY <1>2, <1>3

\* What was deleted is not named again.
LEMMA DeletedStep == IInv /\ WorkersRun /\ Undisturbed /\ ~overlap' /\ [Next]_vars => DeletedUnnamed'
<1> SUFFICES ASSUME IInv, WorkersRun, Undisturbed, ~overlap', [Next]_vars PROVE DeletedUnnamed'
  OBVIOUS
<1> USE StoreConstants DEF IInv, TypeOK, files, Goto, Step, End, Threads, Undisturbed,
        WorkersRun, Deleted, DeletedUnnamed
<1>1. ASSUME NEW w \in Campaigns, CampaignPut(w) PROVE DeletedUnnamed'
  <2>1. PICK d \in Images : Began(w, w, d)
    BY <1>1, CampaignPutBegins
  <2> QED
    BY <2>1 DEF Began
<1>2. ASSUME NEW w \in Campaigns, BeginDelete(w) PROVE DeletedUnnamed'
  BY <1>2 DEF BeginDelete, Overlaps
<1>3. ASSUME NEW w \in Campaigns, WorkerEnds(w) PROVE DeletedUnnamed'
  BY <1>3 DEF WorkerEnds
<1>4. ASSUME NEW w \in Campaigns, WorkerStarts(w) PROVE DeletedUnnamed'
  BY <1>4 DEF WorkerStarts
<1>5. CASE CachePut
  <2>1. PICK d \in Pages : Began(Source, Nobody, d)
    BY <1>5, CachePutBegins
  <2> QED
    BY <2>1 DEF Began
<1>6. ASSUME NEW t \in Threads, WriteObject(t) PROVE DeletedUnnamed'
  BY <1>6 DEF WriteObject
<1>7. ASSUME NEW t \in Threads, LookAtZone(t) PROVE DeletedUnnamed'
  BY <1>7 DEF LookAtZone
<1>8. ASSUME NEW t \in Threads, LinkZone(t) PROVE DeletedUnnamed'
  BY <1>8 DEF LinkZone
<1>9. ASSUME NEW t \in Threads, ReadIndex(t) PROVE DeletedUnnamed'
  BY <1>9 DEF ReadIndex
<1>10. ASSUME NEW t \in Threads, OpenTmp(t) PROVE DeletedUnnamed'
  BY <1>10 DEF OpenTmp
<1>11. ASSUME NEW t \in Threads, WriteTmp(t) PROVE DeletedUnnamed'
  <2>1. index' = index
    BY <1>11 DEF WriteTmp, FilesUndisturbed, FileUndisturbed
  <2> QED
    BY <1>11, <2>1 DEF WriteTmp
<1>12. ASSUME NEW t \in Threads, ReplaceTmp(t) PROVE DeletedUnnamed'
  <2>1. pc[t] = "replace" /\ UNCHANGED <<row, late, running, marker>>
    BY <1>12, Replaced
  <2>2. ASSUME NEW c \in Campaigns, Deleted(c), NEW d \in Digests
        PROVE  c \notin Owners(index'[d])
    <3>1. c \notin Owners(index[d]) /\ t # c
      BY <2>1, <2>2
    <3> QED
      BY <1>12, <3>1, ReplacedOwners
  <2> QED
    BY <2>1, <2>2
<1>13. ASSUME NEW t \in Threads, RecordPrivate(t) PROVE DeletedUnnamed'
  <2>1. /\ pc[t] = "marker" /\ marker' = marker \union {<<job[t].by, job[t].digest>>}
        /\ UNCHANGED <<index, row, running, late>>
    BY <1>13 DEF RecordPrivate
  <2>2. t \in Campaigns /\ job[t].by = t
    BY <2>1, FileConstants DEF AtWork, CampaignThread, SourceThread, DeleteHandler, IndexPlaces
  <2> QED
    BY <2>1, <2>2
<1>14. ASSUME NEW t \in Threads, UpsertCacheRow(t) PROVE DeletedUnnamed'
  BY <1>14 DEF UpsertCacheRow
<1>15. CASE RemovePrivateDir
  BY <1>15 DEF RemovePrivateDir
<1>16. CASE ReadForPurge
  BY <1>16 DEF ReadForPurge, Purged
<1>17. CASE UnlinkObject
  BY <1>17 DEF UnlinkObject
<1>18. CASE UnlinkedAll
  BY <1>18 DEF UnlinkedAll
<1>19. CASE MarkDeleted
  <2>1. /\ pc[Deleter] = "rows" /\ row' = [row EXCEPT ![job[Deleter].by] = "deleted"]
        /\ UNCHANGED <<index, marker, running, late>>
    BY <1>19 DEF MarkDeleted
  <2>2. PurgeUndisturbed(job[Deleter].by) /\ job[Deleter].by \in Campaigns
    BY <2>1, PurgeAtWork
  <2>3. ASSUME NEW c \in Campaigns, Deleted(c)'
        PROVE  c \notin running /\ \A d \in Digests : c \notin Owners(index[d]) /\ <<c, d>> \notin marker
    <3>1. CASE c = job[Deleter].by
      BY <2>1, <2>2, <2>3, <3>1 DEF PurgeUndisturbed
    <3>2. CASE c # job[Deleter].by
      BY <2>1, <2>3, <3>2
    <3> QED
      BY <3>1, <3>2
  <2> QED
    BY <2>1, <2>3
<1>20. CASE Crash
  BY <1>20 DEF Crash
<1>21. CASE UNCHANGED vars
  BY <1>21 DEF vars
<1>. QED
  BY <1>1, <1>2, <1>3, <1>4, <1>5, <1>6, <1>7, <1>8, <1>9, <1>10, <1>11, <1>12,
     <1>13, <1>14, <1>15, <1>16, <1>17, <1>18, <1>19, <1>20, <1>21 DEF Next, Put

\* An image that is there has an owner, or one at work on it.
LEMMA ImagesStep == IInv /\ Undisturbed /\ ~overlap' /\ [Next]_vars => ImagesOwned'
<1> SUFFICES ASSUME IInv, Undisturbed, ~overlap', [Next]_vars PROVE ImagesOwned'
  OBVIOUS
<1> USE StoreConstants DEF IInv, TypeOK, files, Goto, Step, End, Threads, AtWork,
        CampaignThread, SourceThread, DeleteHandler, IndexPlaces, OneAtWork,
        PutsUndisturbed, PutUndisturbed, Undisturbed, ImagesOwned, PagesKept
<1>1. ASSUME NEW w \in Campaigns, CampaignPut(w) PROVE ImagesOwned'
  <2>1. PICK d \in Images : Began(w, w, d)
    BY <1>1, CampaignPutBegins
  <2> QED
    BY <2>1 DEF Began
<1>2. ASSUME NEW w \in Campaigns, BeginDelete(w) PROVE ImagesOwned'
  BY <1>2 DEF BeginDelete, Overlaps
<1>3. ASSUME NEW w \in Campaigns, WorkerEnds(w) PROVE ImagesOwned'
  BY <1>3 DEF WorkerEnds
<1>4. ASSUME NEW w \in Campaigns, WorkerStarts(w) PROVE ImagesOwned'
  BY <1>4 DEF WorkerStarts
<1>5. CASE CachePut
  <2>1. PICK d \in Pages : Began(Source, Nobody, d)
    BY <1>5, CachePutBegins
  <2> QED
    BY <2>1 DEF Began
<1>6. ASSUME NEW t \in Threads, WriteObject(t) PROVE ImagesOwned'
  BY <1>6 DEF WriteObject
<1>7. ASSUME NEW t \in Threads, LookAtZone(t) PROVE ImagesOwned'
  BY <1>7 DEF LookAtZone
<1>8. ASSUME NEW t \in Threads, LinkZone(t) PROVE ImagesOwned'
  <2>1. pc[t] = "link" /\ t \in Threads \ {Deleter}
    BY <1>8 DEF LinkZone
  <2>2. job[t].digest \in object /\ job[t].digest \notin linked
    BY <2>1
  <2>3. pc' = [pc EXCEPT ![t] = "read"] /\ UNCHANGED <<object, index, job, crashes>>
    BY <1>8, <2>2 DEF LinkZone
  <2> QED
    BY <2>1, <2>3
<1>9. ASSUME NEW t \in Threads, ReadIndex(t) PROVE ImagesOwned'
  <2>1. index # Torn
    BY FileConstants
  <2>2. pc[t] = "read" /\ pc' = [pc EXCEPT ![t] = "open"]
        /\ UNCHANGED <<object, index, job, crashes>>
    BY <1>9, <2>1 DEF ReadIndex
  <2> QED
    BY <2>2
<1>10. ASSUME NEW t \in Threads, OpenTmp(t) PROVE ImagesOwned'
  BY <1>10 DEF OpenTmp
<1>11. ASSUME NEW t \in Threads, WriteTmp(t) PROVE ImagesOwned'
  <2>1. index' = index
    BY <1>11 DEF WriteTmp, FilesUndisturbed, FileUndisturbed
  <2> QED
    BY <1>11, <2>1 DEF WriteTmp
<1>12. ASSUME NEW t \in Threads, ReplaceTmp(t) PROVE ImagesOwned'
  <2>1. pc[t] = "replace" /\ pc' = [pc EXCEPT ![t] = AfterIndex(t)]
        /\ UNCHANGED <<object, job, crashes>>
    BY <1>12, Replaced
  <2>2. ASSUME NEW d \in object \intersect Images, Owners(index[d]) # {}
        PROVE  Owners(index'[d]) # {}
    <3>1. d \in Digests /\ (t = Deleter => index[d] # {job[Deleter].by})
      BY <1>12, ReplacedOwners
    <3>2. t = Deleter => Owners(index[d]) # {job[Deleter].by}
      BY <2>2, <3>1 DEF Owners
    <3>3. CASE t = Deleter
      <4>1. Owners(index'[d]) = Owners(index[d]) \ {job[Deleter].by}
        BY <1>12, <3>1, <3>3, ReplacedOwners
      <4> QED
        BY <2>2, <3>2, <3>3, <4>1
    <3>4. CASE t # Deleter
      <4>1. Owners(index[d]) \subseteq Owners(index'[d])
        BY <1>12, <3>1, <3>4, ReplacedOwners
      <4> QED
        BY <2>2, <4>1
    <3> QED
      BY <3>3, <3>4
  <2>3. pc'[t] # "idle"
    BY <2>1 DEF AfterIndex
  <2> QED
    BY <2>1, <2>2, <2>3
<1>13. ASSUME NEW t \in Threads, RecordPrivate(t) PROVE ImagesOwned'
  <2>1. /\ pc[t] = "marker" /\ pc' = [pc EXCEPT ![t] = "idle"]
        /\ UNCHANGED <<index, object, crashes>>
    BY <1>13 DEF RecordPrivate
  <2>2. t \in Threads \ {Deleter}
    BY <2>1 DEF AtWork, DeleteHandler, IndexPlaces
  <2>3. t \in Owners(index[job[t].digest])
    BY <2>1, <2>2 DEF PutsUndisturbed, PutUndisturbed
  <2>4. \A e \in Campaigns : pc[e] # "idle" => e = t
    BY <2>1 DEF OneAtWork
  <2> QED
    BY <2>1, <2>3, <2>4
<1>14. ASSUME NEW t \in Threads, UpsertCacheRow(t) PROVE ImagesOwned'
  BY <1>14 DEF UpsertCacheRow
<1>15. CASE RemovePrivateDir
  BY <1>15 DEF RemovePrivateDir
<1>16. CASE ReadForPurge
  BY <1>16 DEF ReadForPurge, Purged
<1>17. CASE UnlinkObject
  BY <1>17 DEF UnlinkObject
<1>18. CASE UnlinkedAll
  BY <1>18 DEF UnlinkedAll
<1>19. CASE MarkDeleted
  BY <1>19 DEF MarkDeleted
<1>20. CASE Crash
  BY <1>20 DEF Crash
<1>21. CASE UNCHANGED vars
  BY <1>21 DEF vars
<1>. QED
  BY <1>1, <1>2, <1>3, <1>4, <1>5, <1>6, <1>7, <1>8, <1>9, <1>10, <1>11, <1>12,
     <1>13, <1>14, <1>15, <1>16, <1>17, <1>18, <1>19, <1>20, <1>21 DEF Next, Put

\* What was kept stays so.
LEMMA KeptStep == IInv /\ Undisturbed /\ ~overlap' /\ [Next]_vars => KeptOwned'
<1> SUFFICES ASSUME IInv, Undisturbed, ~overlap', [Next]_vars PROVE KeptOwned'
  OBVIOUS
<1> USE StoreConstants DEF IInv, TypeOK, files, Goto, Step, End, Threads, Undisturbed,
        FilesUndisturbed, FileUndisturbed, KeptOwned
<1>1. ASSUME NEW w \in Campaigns, CampaignPut(w) PROVE KeptOwned'
  <2>1. PICK d \in Images : Began(w, w, d)
    BY <1>1, CampaignPutBegins
  <2> QED
    BY <2>1 DEF Began
<1>2. ASSUME NEW w \in Campaigns, BeginDelete(w) PROVE KeptOwned'
  BY <1>2 DEF BeginDelete, Overlaps
<1>3. ASSUME NEW w \in Campaigns, WorkerEnds(w) PROVE KeptOwned'
  BY <1>3 DEF WorkerEnds
<1>4. ASSUME NEW w \in Campaigns, WorkerStarts(w) PROVE KeptOwned'
  BY <1>4 DEF WorkerStarts
<1>5. CASE CachePut
  <2>1. PICK d \in Pages : Began(Source, Nobody, d)
    BY <1>5, CachePutBegins
  <2> QED
    BY <2>1 DEF Began
<1>6. ASSUME NEW t \in Threads, WriteObject(t) PROVE KeptOwned'
  BY <1>6 DEF WriteObject
<1>7. ASSUME NEW t \in Threads, LookAtZone(t) PROVE KeptOwned'
  BY <1>7 DEF LookAtZone
<1>8. ASSUME NEW t \in Threads, LinkZone(t) PROVE KeptOwned'
  BY <1>8 DEF LinkZone
<1>9. ASSUME NEW t \in Threads, ReadIndex(t) PROVE KeptOwned'
  BY <1>9 DEF ReadIndex
<1>10. ASSUME NEW t \in Threads, OpenTmp(t) PROVE KeptOwned'
  BY <1>10 DEF OpenTmp
<1>11. ASSUME NEW t \in Threads, WriteTmp(t) PROVE KeptOwned'
  <2>1. index' = index
    BY <1>11 DEF WriteTmp, FilesUndisturbed, FileUndisturbed
  <2> QED
    BY <1>11, <2>1 DEF WriteTmp
<1>12. ASSUME NEW t \in Threads, ReplaceTmp(t) PROVE KeptOwned'
  <2>1. pc[t] = "replace" /\ UNCHANGED <<object, kept, asked>>
    BY <1>12, Replaced
  <2>2. t = Deleter => job[Deleter].by \in asked
    BY <2>1, PurgeAtWork DEF PurgeUndisturbed
  <2>3. ASSUME NEW p \in kept, p[1] \notin asked
        PROVE  p[1] \in Owners(index'[p[2]])
    <3>1. p[1] \in Owners(index[p[2]]) /\ p[2] \in Digests
      BY <2>3
    <3>. DEFINE d == p[2]
    <3>. HIDE DEF d
    <3>2. d \in Digests
      BY <3>1 DEF d
    <3>3. /\ t # Deleter => Owners(index[d]) \subseteq Owners(index'[d])
          /\ t = Deleter => Owners(index'[d]) = Owners(index[d]) \ {job[Deleter].by}
      BY <1>12, <3>2, ReplacedOwners
    <3> QED
      BY <2>2, <2>3, <3>1, <3>3 DEF d
  <2> QED
    BY <2>1, <2>3
<1>13. ASSUME NEW t \in Threads, RecordPrivate(t) PROVE KeptOwned'
  <2>1. /\ pc[t] = "marker" /\ kept' = kept \union {<<job[t].by, job[t].digest>>}
        /\ UNCHANGED <<index, object, asked>>
    BY <1>13 DEF RecordPrivate
  <2>2. t \in Threads \ {Deleter} /\ job[t].by = t
    BY <2>1 DEF AtWork, CampaignThread, SourceThread, DeleteHandler, IndexPlaces
  <2>3. t \in Owners(index[job[t].digest]) /\ job[t].digest \in object
    BY <2>1, <2>2 DEF PutsUndisturbed, PutUndisturbed
  <2> QED
    BY <2>1, <2>2, <2>3
<1>14. ASSUME NEW t \in Threads, UpsertCacheRow(t) PROVE KeptOwned'
  BY <1>14 DEF UpsertCacheRow
<1>15. CASE RemovePrivateDir
  BY <1>15 DEF RemovePrivateDir
<1>16. CASE ReadForPurge
  BY <1>16 DEF ReadForPurge, Purged
<1>17. CASE UnlinkObject
  <2>1. PICK d \in gone : object' = object \ {d}
    BY <1>17 DEF UnlinkObject
  <2>2. UNCHANGED <<index, kept, asked>>
    BY <1>17 DEF UnlinkObject
  <2>3. index[d] = {job[Deleter].by} /\ job[Deleter].by \in asked
    BY <1>17, PurgeAtWork DEF UnlinkObject, PurgeUndisturbed
  <2>4. Owners(index[d]) = {job[Deleter].by}
    BY <2>3, FileConstants DEF Owners
  <2> QED
    BY <2>1, <2>2, <2>3, <2>4
<1>18. CASE UnlinkedAll
  BY <1>18 DEF UnlinkedAll
<1>19. CASE MarkDeleted
  BY <1>19 DEF MarkDeleted
<1>20. CASE Crash
  BY <1>20 DEF Crash
<1>21. CASE UNCHANGED vars
  BY <1>21 DEF vars
<1>. QED
  BY <1>1, <1>2, <1>3, <1>4, <1>5, <1>6, <1>7, <1>8, <1>9, <1>10, <1>11, <1>12,
     <1>13, <1>14, <1>15, <1>16, <1>17, <1>18, <1>19, <1>20, <1>21 DEF Next, Put

\* Operations that do not overlap are undisturbed.
LEMMA SerialStep == IInv /\ SerialInv /\ [Next]_vars => SerialInv'
<1> SUFFICES ASSUME IInv, SerialInv, [Next]_vars PROVE SerialInv'
  OBVIOUS
<1>1. WorkersRun'
  BY WorkersRunStep DEF SerialInv
<1>2. ASSUME ~overlap' PROVE Undisturbed'
  <2>1. WorkersRun /\ Undisturbed
    BY <1>2, OverlapStays DEF SerialInv
  <2>2. OneAtWork'
    BY <1>2, <2>1, OneAtWorkStep DEF Undisturbed
  <2> QED
    BY <1>2, <2>1, <2>2, IndexStep, FileStep, PutStep, PurgeStep, DeletedStep, ImagesStep,
       KeptStep DEF Undisturbed
<1>. QED
  BY <1>1, <1>2 DEF SerialInv

LEMMA SerialStart == Init => SerialInv
<1> SUFFICES ASSUME Init PROVE SerialInv
  OBVIOUS
<1>1. /\ \A t \in Threads : pc[t] = "idle"
      /\ \A c \in Campaigns : pc[c] = "idle" /\ row[c] = "live"
      /\ pc[Deleter] = "idle" /\ object = {} /\ kept = {} /\ index \in Index
  BY DEF Init, Threads, Index
<1>2. WorkersRun /\ OneAtWork /\ DeletedUnnamed /\ ImagesOwned /\ KeptOwned /\ PurgeGoesOn
  BY <1>1 DEF WorkersRun, OneAtWork, DeletedUnnamed, Deleted, ImagesOwned, KeptOwned, PurgeGoesOn
<1>3. PutsUndisturbed /\ FilesUndisturbed
  BY <1>1 DEF PutsUndisturbed, PutUndisturbed, FilesUndisturbed, FileUndisturbed, IndexPlaces
<1>. QED
  BY <1>1, <1>2, <1>3 DEF SerialInv, Undisturbed

\* Nobody owns, has a private copy of, or is alone in having begun what is left of a
\* campaign that was deleted.
LEMMA DeletedUntraced == IInv /\ SerialInv => DeletedIsGone
<1> SUFFICES ASSUME IInv, SerialInv, ~overlap, NEW c \in Campaigns, Deleted(c)
             PROVE  /\ \A d \in Digests : ~MayRead(c, d) /\ <<c, d>> \notin marker
                    /\ crashes = 0 =>
                         \A d \in object \ Pages : \E e \in Campaigns \ {c} : <<e, d>> \in begun
  BY DEF DeletedIsGone
<1>1. Undisturbed /\ WorkersRun
  BY DEF SerialInv
<1>2. c \notin running /\ \A d \in Digests : c \notin Owners(index[d]) /\ <<c, d>> \notin marker
  BY <1>1 DEF Undisturbed, DeletedUnnamed
<1>3. ASSUME NEW d \in Digests PROVE ~MayRead(c, d)
  BY <1>2 DEF MayRead, Owners
<1>4. ASSUME crashes = 0, NEW d \in object \ Pages
      PROVE  \E e \in Campaigns \ {c} : <<e, d>> \in begun
  <2>1. d \in object \intersect Images
    BY <1>4 DEF IInv, TypeOK, Digests
  <2>2. CASE Owners(index[d]) # {}
    <3>1. index \in Index /\ d \in Digests
      BY <1>1, <2>1 DEF Undisturbed, Digests
    <3>2. \A e \in Owners(index[d]) : e \in Campaigns /\ <<e, d>> \in begun
      BY <3>1 DEF IInv, Attribution, Attributed, Owners, Index
    <3> QED
      BY <1>2, <2>2, <3>1, <3>2
  <2>3. CASE \E e \in Campaigns : pc[e] # "idle" /\ job[e].digest = d
    <3>1. PICK e \in Campaigns : pc[e] # "idle" /\ job[e].digest = d
      BY <2>3
    <3>2. e # c /\ <<e, d>> \in begun
      BY <1>1, <1>2, <3>1 DEF WorkersRun, IInv, AtWork, CampaignThread
    <3> QED
      BY <3>2
  <2> QED
    BY <1>1, <1>4, <2>1, <2>2, <2>3 DEF Undisturbed, ImagesOwned
<1>. QED
  BY <1>2, <1>3, <1>4

LEMMA SerialInvariance == Spec => [](IInv /\ SerialInv)
<1>. QED
  BY Invariance, SerialStart, SerialStep, PTL DEF Spec

\* Deletion (delete_search, purge_campaign_private), for any number of campaigns and
\* objects, crashes included: when operations do not overlap, a campaign that was deleted
\* without a worker is let through to nothing and has no private directory; without a
\* crash, every image left was stored for another campaign.
THEOREM DeletionLeavesNothing == Spec => []DeletedIsGone
<1>. QED
  BY SerialInvariance, DeletedUntraced, PTL

\* And a purge spares what others keep: without overlap, what a campaign that nobody began
\* to delete was told is stored stays readable for it, whichever step a crash hits.
THEOREM PurgeSparesOthers == Spec => []SerialStoreKeeps
<1>1. IInv /\ SerialInv => SerialStoreKeeps
  <2> SUFFICES ASSUME IInv, SerialInv, ~overlap, NEW p \in kept, p[1] \notin asked
               PROVE  MayRead(p[1], p[2]) /\ p[2] \in object
    BY DEF SerialStoreKeeps, StoredStays
  <2>1. p[1] \in Owners(index[p[2]]) /\ p[2] \in object /\ index \in Index
    BY DEF SerialInv, Undisturbed, KeptOwned
  <2>. QED
    BY <2>1, FileConstants DEF MayRead, Owners
<1>. QED
  BY <1>1, SerialInvariance, PTL
===============================================================================
