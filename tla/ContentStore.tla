---------------------------- MODULE ContentStore ----------------------------
(***************************************************************************)
(* The content-addressed object store (evidence/content_store.py) with the *)
(* threads that share it: one worker per campaign, which keeps uploads and *)
(* listing images; a source thread, which keeps fetched pages in the       *)
(* response cache (sources/cache.py); and the delete handler               *)
(* (api/deletion.py, CampaignController.delete).  Every operation is split *)
(* at its file operations, so that others come in between and the process  *)
(* may die there.                                                          *)
(*                                                                         *)
(* STORE_LOCK (workers/locks.py) is taken by some callers of put_bytes and *)
(* by nobody else: not by the response cache, not by the analysis of a     *)
(* live campaign, not by the purge.                                        *)
(*                                                                         *)
(* An object is a digest.  The six zones are one: a digest is linked into  *)
(* one zone only.  Every caller stores with private = True.                *)
(***************************************************************************)
EXTENDS Naturals, FiniteSets

CONSTANTS Campaigns, Images, Pages,   \* what campaigns keep, what the cache keeps
          Source, Deleter,            \* the source thread, the delete handler
          Absent, Torn, Nobody,
          MaxPuts, MaxCrashes         \* bounds of the model

Digests == Images \union Pages
Threads == Campaigns \union {Source, Deleter}

ASSUME StoreConstants ==
    /\ Images \intersect Pages = {}
    /\ Source \notin Campaigns /\ Deleter \notin Campaigns /\ Source # Deleter
    /\ Nobody \notin Threads
    /\ MaxPuts \in Nat /\ MaxCrashes \in Nat

\* object_index.json: the owners of every entry, or bytes that are not JSON.
Index == [Digests -> {Absent} \union SUBSET Campaigns]

ASSUME FileConstants ==
    /\ Torn \notin Index /\ Absent \notin Index /\ Absent # Torn
    /\ \A C \in SUBSET Campaigns : Absent # C

VARIABLES
    object, linked,   \* the files under objects/ and in the zones
    index, tmp,       \* object_index.json and object_index.tmp
    opened,           \* the name that the file a thread is writing has now
    marker,           \* campaigns/<id>/private: who has a reference to what
    cached,           \* rows of response_cache
    row,              \* "live" or "deleted": the campaign's row
    running,          \* campaigns that have a worker thread
    lock,             \* the holder of STORE_LOCK
    pc, job, copy,    \* each thread: the place reached, its arguments, its index
    gone,             \* the objects the purge has still to unlink
    puts, crashes,    \* counters of the model
    begun, kept,      \* history: puts begun, puts that returned
    overlap,          \* history: an operation began while another was under way
    asked, late       \* history: purges begun, those of them under a worker

files == <<object, linked, index, tmp, marker, cached, row>>
vars == <<files, opened, running, lock, pc, job, copy, gone, puts, crashes,
          begun, kept, overlap, asked, late>>

NoJob == [by |-> Nobody, digest |-> Absent]

Jobs == [by : Campaigns \union {Nobody}, digest : Digests \union {Absent}]

Places == {"idle", "object", "zone", "link", "read", "open", "write",
           "replace", "marker", "cached", "rmtree", "purge", "unlink", "rows"}

TypeOK ==
    /\ object \in SUBSET Digests /\ linked \in SUBSET Digests
    /\ index \in Index \union {Torn}
    /\ tmp \in Index \union {Torn, Absent}
    /\ opened \in [Threads -> {"none", "tmp", "index", "gone"}]
    /\ marker \in SUBSET (Campaigns \X Digests)
    /\ cached \in SUBSET Digests
    /\ row \in [Campaigns -> {"live", "deleted"}]
    /\ running \in SUBSET Campaigns
    /\ lock \in Threads \union {Nobody}
    /\ pc \in [Threads -> Places]
    /\ job \in [Threads -> Jobs]
    /\ copy \in [Threads -> Index \union {Absent}] /\ gone \in SUBSET Digests
    /\ puts \in 0..MaxPuts /\ crashes \in 0..MaxCrashes
    /\ begun \in SUBSET (Campaigns \X Digests)
    /\ kept \in SUBSET (Campaigns \X Digests)
    /\ overlap \in BOOLEAN
    /\ asked \in SUBSET Campaigns /\ late \in SUBSET Campaigns

\* A fresh store: ContentStore.__init__ writes an empty index.
Init ==
    /\ object = {} /\ linked = {} /\ marker = {} /\ cached = {}
    /\ index = [d \in Digests |-> Absent] /\ tmp = Absent
    /\ opened = [t \in Threads |-> "none"]
    /\ row = [c \in Campaigns |-> "live"] /\ running = Campaigns
    /\ lock = Nobody
    /\ pc = [t \in Threads |-> "idle"]
    /\ job = [t \in Threads |-> NoJob]
    /\ copy = [t \in Threads |-> Absent] /\ gone = {}
    /\ puts = 0 /\ crashes = 0
    /\ begun = {} /\ kept = {}
    /\ overlap = FALSE /\ asked = {} /\ late = {}

-----------------------------------------------------------------------------
(* How an operation goes on, and how it ends.                              *)

Goto(t, place) == pc' = [pc EXCEPT ![t] = place]

\* `with STORE_LOCK` is left, whether the operation returned or raised.
End(t) ==
    /\ Goto(t, "idle")
    /\ job' = [job EXCEPT ![t] = NoJob]
    /\ copy' = [copy EXCEPT ![t] = Absent]
    /\ lock' = IF lock = t THEN Nobody ELSE lock

Step(t, place) == Goto(t, place) /\ UNCHANGED <<job, copy, lock>>

Overlaps(t) == overlap \/ \E u \in Threads \ {t} : pc[u] # "idle"

\* What a put leaves of an entry: its owners, and the campaign that stores.
Owners(entry) == IF entry = Absent THEN {} ELSE entry
WithOwner(entry, by) ==
    IF by = Nobody THEN Owners(entry) ELSE Owners(entry) \union {by}

-----------------------------------------------------------------------------
(* put_bytes                                                               *)

BeginPut(t, by, d, locks) ==
    /\ pc[t] = "idle" /\ puts < MaxPuts
    /\ locks => lock = Nobody
    /\ lock' = IF locks THEN t ELSE lock
    /\ Goto(t, "object")
    /\ job' = [job EXCEPT ![t] = [by |-> by, digest |-> d]]
    /\ puts' = puts + 1
    /\ begun' = IF by = Nobody THEN begun ELSE begun \union {<<by, d>>}
    /\ overlap' = Overlaps(t)
    /\ UNCHANGED <<files, opened, running, copy, gone, crashes, kept, asked, late>>

\* An upload or a listing image under the lock, or the analysis of a live
\* campaign without it.
CampaignPut(c) ==
    /\ c \in running
    /\ \E d \in Images, locks \in BOOLEAN : BeginPut(c, c, d, locks)

\* ResponseCache.put: no campaign, no lock.
CachePut == \E d \in Pages : BeginPut(Source, Nobody, d, FALSE)

WriteObject(t) ==
    /\ pc[t] = "object"
    /\ object' = object \union {job[t].digest}
    /\ Step(t, "zone")
    /\ UNCHANGED <<linked, index, tmp, opened, marker, cached, row, running,
                   gone, puts, crashes, begun, kept, overlap, asked, late>>

\* link_zone looks for the object and for the link ...
LookAtZone(t) ==
    /\ pc[t] = "zone"
    /\ IF job[t].digest \notin object THEN End(t)       \* FileNotFoundError
       ELSE Step(t, IF job[t].digest \in linked THEN "read" ELSE "link")
    /\ UNCHANGED <<files, opened, running, gone, puts, crashes, begun, kept,
                   overlap, asked, late>>

\* ... and os.link fails when the link has come, or the object gone, since.
LinkZone(t) ==
    /\ pc[t] = "link"
    /\ IF job[t].digest \in linked \/ job[t].digest \notin object
       THEN End(t) /\ UNCHANGED linked
       ELSE Step(t, "read") /\ linked' = linked \union {job[t].digest}
    /\ UNCHANGED <<object, index, tmp, opened, marker, cached, row, running,
                   gone, puts, crashes, begun, kept, overlap, asked, late>>

ReadIndex(t) ==
    /\ pc[t] = "read"
    /\ IF index = Torn THEN End(t)                      \* JSONDecodeError
       ELSE /\ copy' = [copy EXCEPT ![t] =
                  [index EXCEPT ![job[t].digest] = WithOwner(@, job[t].by)]]
            /\ Goto(t, "open")
            /\ UNCHANGED <<job, lock>>
    /\ UNCHANGED <<files, opened, running, gone, puts, crashes, begun, kept,
                   overlap, asked, late>>

-----------------------------------------------------------------------------
(* _write_index: write_text truncates the file named object_index.tmp,     *)
(* creating it if there is none, and writes what it was given to the file  *)
(* it opened, under whatever name that has by then; replace renames        *)
(* whatever is named object_index.tmp then.                                *)

OpenTmp(t) ==
    /\ pc[t] = "open"
    /\ tmp' = Torn
    /\ opened' = [opened EXCEPT ![t] = "tmp"]
    /\ Step(t, "write")
    /\ UNCHANGED <<object, linked, index, marker, cached, row, running, puts,
                   gone, crashes, begun, kept, overlap, asked, late>>

\* Two texts of different lengths in one file are no JSON.
Written(old, text) == IF old \in {Torn, text} THEN {text} ELSE {text, Torn}

WriteTmp(t) ==
    /\ pc[t] = "write"
    /\ \/ opened[t] = "tmp" /\ tmp' \in Written(tmp, copy[t]) /\ UNCHANGED index
       \/ opened[t] = "index" /\ index' \in Written(index, copy[t]) /\ UNCHANGED tmp
       \/ opened[t] = "gone" /\ UNCHANGED <<tmp, index>>
    /\ opened' = [opened EXCEPT ![t] = "none"]
    /\ Step(t, "replace")
    /\ UNCHANGED <<object, linked, marker, cached, row, running, puts,
                   gone, crashes, begun, kept, overlap, asked, late>>

\* The step that follows the write of the index: the marker of a private
\* object, the row of a cached page, the rows of a campaign being deleted.
AfterIndex(t) ==
    IF t = Deleter THEN "rows" ELSE IF t = Source THEN "cached" ELSE "marker"

\* What the rename does to the name of a file that is being written.
Renamed(name) == IF name = "tmp" THEN "index"
                 ELSE IF name = "index" THEN "gone" ELSE name

ReplaceTmp(t) ==
    /\ pc[t] = "replace"
    /\ IF tmp = Absent
       THEN End(t) /\ UNCHANGED <<index, tmp, opened>>  \* FileNotFoundError
       ELSE /\ index' = tmp /\ tmp' = Absent
            /\ opened' = [u \in Threads |-> Renamed(opened[u])]
            /\ Step(t, AfterIndex(t))
    /\ UNCHANGED <<object, linked, marker, cached, row, running, puts,
                   gone, crashes, begun, kept, overlap, asked, late>>

\* _record_private; then the caller has its digest.
RecordPrivate(t) ==
    /\ pc[t] = "marker"
    /\ marker' = marker \union {<<job[t].by, job[t].digest>>}
    /\ kept' = kept \union {<<job[t].by, job[t].digest>>}
    /\ End(t)
    /\ UNCHANGED <<object, linked, index, tmp, opened, cached, row, running,
                   gone, puts, crashes, begun, overlap, asked, late>>

UpsertCacheRow(t) ==
    /\ pc[t] = "cached"
    /\ cached' = cached \union {job[t].digest}
    /\ End(t)
    /\ UNCHANGED <<object, linked, index, tmp, opened, marker, row, running,
                   gone, puts, crashes, begun, kept, overlap, asked, late>>

-----------------------------------------------------------------------------
(* delete_search, CampaignController.delete, purge_campaign_private        *)

\* The worker has been asked to stop and has had two seconds; it may run still.
BeginDelete(c) ==
    /\ pc[Deleter] = "idle" /\ row[c] = "live"
    /\ Goto(Deleter, "rmtree")
    /\ job' = [job EXCEPT ![Deleter] = [by |-> c, digest |-> Absent]]
    /\ overlap' = Overlaps(Deleter)
    /\ asked' = asked \union {c}
    /\ late' = IF c \in running THEN late \union {c} ELSE late
    /\ UNCHANGED <<files, opened, running, lock, copy, gone, puts, crashes, begun, kept>>

RemovePrivateDir ==
    /\ pc[Deleter] = "rmtree"
    /\ marker' = {m \in marker : m[1] # job[Deleter].by}
    /\ Step(Deleter, "purge")
    /\ UNCHANGED <<object, linked, index, tmp, opened, cached, row, running,
                   gone, puts, crashes, begun, kept, overlap, asked, late>>

\* Mutated forms of Purged: a shared object goes, an object without owner goes, the only
\* entry touched is one that c alone owned.
PurgedSparesNobody(old, c) ==
    [d \in Digests |-> IF old[d] = Absent \/ c \notin Owners(old[d])
                       THEN old[d] ELSE Absent]
PurgedOwnerless(old, c) ==
    [d \in Digests |-> IF old[d] = Absent \/ Owners(old[d]) \subseteq {c}
                       THEN Absent ELSE old[d] \ {c}]
PurgedKeepsOwner(old, c) ==
    [d \in Digests |-> IF old[d] = {c} THEN Absent ELSE old[d]]
\* The index as the purge of c writes it back: c owns nothing, and an entry
\* that only c owned is gone.
Purged(old, c) ==
    [d \in Digests |->
        IF old[d] = Absent \/ c \notin Owners(old[d]) THEN old[d]
        ELSE IF old[d] = {c} THEN Absent ELSE old[d] \ {c}]

ReadForPurge ==
    /\ pc[Deleter] = "purge"
    /\ IF index = Torn THEN End(Deleter) /\ UNCHANGED gone
       ELSE LET after == Purged(index, job[Deleter].by) IN
            /\ copy' = [copy EXCEPT ![Deleter] = after]
            /\ gone' = {d \in Digests : index[d] # Absent /\ after[d] = Absent}
            /\ Goto(Deleter, "unlink")
            /\ UNCHANGED <<job, lock>>
    /\ UNCHANGED <<files, opened, running, puts, crashes, begun, kept,
                   overlap, asked, late>>

UnlinkObject ==
    /\ pc[Deleter] = "unlink" /\ gone # {}
    /\ \E d \in gone :
         /\ object' = object \ {d} /\ linked' = linked \ {d}
         /\ gone' = gone \ {d}
    /\ UNCHANGED <<index, tmp, opened, marker, cached, row, running, lock, pc,
                   job, copy, puts, crashes, begun, kept, overlap, asked, late>>

UnlinkedAll ==
    /\ pc[Deleter] = "unlink" /\ gone = {}
    /\ Step(Deleter, "open")
    /\ UNCHANGED <<files, opened, running, gone, puts, crashes, begun, kept,
                   overlap, asked, late>>

\* purge_campaign_private_rows, redact_intent, mark_deleted, the receipt.
MarkDeleted ==
    /\ pc[Deleter] = "rows"
    /\ row' = [row EXCEPT ![job[Deleter].by] = "deleted"]
    /\ End(Deleter)
    /\ UNCHANGED <<object, linked, index, tmp, opened, marker, cached, running,
                   gone, puts, crashes, begun, kept, overlap, asked, late>>

-----------------------------------------------------------------------------
\* The worker of c returns, cancelled or done.
WorkerEnds(c) ==
    /\ c \in running /\ pc[c] = "idle"
    /\ running' = running \ {c}
    /\ UNCHANGED <<files, opened, lock, pc, job, copy, gone, puts, crashes, begun,
                   kept, overlap, asked, late>>

\* The process dies: files and rows stay, threads and the lock do not.
Crash ==
    /\ crashes < MaxCrashes
    /\ crashes' = crashes + 1
    /\ opened' = [t \in Threads |-> "none"]
    /\ running' = {} /\ lock' = Nobody
    /\ pc' = [t \in Threads |-> "idle"]
    /\ job' = [t \in Threads |-> NoJob]
    /\ copy' = [t \in Threads |-> Absent] /\ gone' = {}
    /\ UNCHANGED <<files, puts, begun, kept, overlap, asked, late>>

\* A campaign that is not deleted is taken up again.
WorkerStarts(c) ==
    /\ crashes > 0 /\ c \notin running /\ row[c] = "live"
    /\ running' = running \union {c}
    /\ late' = IF job[Deleter].by = c THEN late \union {c} ELSE late
    /\ UNCHANGED <<files, opened, lock, pc, job, copy, gone, puts, crashes, begun,
                   kept, overlap, asked>>

Put(t) ==
    \/ WriteObject(t) \/ LookAtZone(t) \/ LinkZone(t) \/ ReadIndex(t)
    \/ OpenTmp(t) \/ WriteTmp(t) \/ ReplaceTmp(t)
    \/ RecordPrivate(t) \/ UpsertCacheRow(t)

Next ==
    \/ \E c \in Campaigns :
         CampaignPut(c) \/ BeginDelete(c) \/ WorkerEnds(c) \/ WorkerStarts(c)
    \/ CachePut
    \/ \E t \in Threads : Put(t)
    \/ RemovePrivateDir \/ ReadForPurge \/ UnlinkObject \/ UnlinkedAll \/ MarkDeleted
    \/ Crash

Spec == Init /\ [][Next]_vars

-----------------------------------------------------------------------------
(* Properties                                                              *)

\* Mutated form of MayRead: an object without owner is anybody's.
MayReadOwnerless(c, d) == index # Torn /\ index[d] # Absent /\ index[d] \subseteq {c}

\* owned_by: what a campaign that asks by its own id may read.
MayRead(c, d) == index # Torn /\ index[d] # Absent /\ c \in index[d]

\* Isolation: whatever the interleaving of unlocked writers, purges, stale
\* copies of the index and crashes, a campaign is let through to an object
\* only if it began to store it (GUARD of get and get_private).
ReadersStoredIt ==
    \A c \in Campaigns, d \in Digests : MayRead(c, d) => <<c, d>> \in begun

\* A row of the response cache names a body that is there: ResponseCache.get
\* opens it without looking, and no purge of a campaign may take it away.
CachedBodyPresent == cached \subseteq object

\* "Shared CAS objects with other owners stay": what a campaign that nobody
\* began to delete has been told is stored stays readable for it.
StoredStays ==
    \A p \in kept : p[1] \notin asked => MayRead(p[1], p[2]) /\ p[2] \in object

\* The index is JSON whenever somebody may read it: the promise of STORE_LOCK
\* (docs/hardening/NONDETERMINISM_AND_ABUSE.md), which writers that do not take
\* it break.
IndexStaysJson == index # Torn

\* Writers and purges that do not overlap keep that promise whatever the order
\* they come in, and whatever step of them the process dies at.
SerialStoreKeeps == overlap \/ StoredStays

\* A campaign that was deleted when no worker of it was left has no entry, no
\* private directory and, if no put was cut short, no object of its own.
Deleted(c) == row[c] = "deleted" /\ c \notin late
DeletedIsGone ==
    overlap \/ \A c \in Campaigns : Deleted(c) =>
        /\ \A d \in Digests : ~MayRead(c, d) /\ <<c, d>> \notin marker
        /\ crashes = 0 =>
             \A d \in object \ Pages : \E e \in Campaigns \ {c} : <<e, d>> \in begun
=============================================================================
