-------------------------------- MODULE Budget --------------------------------
(***************************************************************************)
(* The sealed budget of one campaign: core/budgets.py BudgetUsage, and the *)
(* threads that spend from it while a campaign is in DISCOVERING and in    *)
(* ACQUIRING.  A process loads the usage once, keeps it in memory, and     *)
(* writes it back when a stage is over; a source thread pays for a page    *)
(* before it asks for it and for the bytes after it got them; an image     *)
(* thread looks whether it could pay, downloads, looks again, stores the   *)
(* image and then pays.                                                    *)
(*                                                                         *)
(* consume is reserve and then commit, each under the usage's lock: two    *)
(* steps.  would_exceed, which the image threads call, takes no lock.      *)
(* release has no caller in the program and is left out.                   *)
(***************************************************************************)
EXTENDS Integers, FiniteSets

CONSTANTS
    Procs,       \* processes that work on the campaign
    Threads,     \* threads of their pools
    Home,        \* the process of each thread
    ApiProc,     \* the process that created the campaign
    Ceiling,     \* the sealed ceilings
    Sizes,       \* how many bytes a response may have
    MaxCrashes   \* bound: how often a process dies

\* The dimensions that threads spend from.
Dims == {"pages", "images", "bytes"}

Amounts == [Dims -> Nat]

ASSUME HomesAssumption == ApiProc \in Procs /\ Home \in [Threads -> Procs]
\* A pool has a worker, map_by_host's the calling thread.
ASSUME PoolAssumption == IsFiniteSet(Threads) /\ \E t \in Threads : Home[t] = ApiProc
ASSUME CeilingAssumption == Ceiling \in Amounts
ASSUME SizesAssumption == Sizes \subseteq Nat /\ MaxCrashes \in Nat

VARIABLES
    committed, reserved,  \* BudgetUsage of each process
    disk,                 \* the budget_usage row: what was committed and reserved
    stage,                \* what each process works on
    marked,               \* completed_steps, on disk
    failed,               \* map_by_host's errors: a job of the pool has raised
    pc, ask,              \* where each thread is, and what it wants to consume
    hold,                 \* the reservation a thread has open
    spent,                \* history: pages asked for, images stored, bytes received
    crashes

usage == <<committed, reserved>>
threads == <<pc, ask, hold>>
vars == <<usage, threads, disk, stage, marked, failed, spent, crashes>>

Amount(pages, images, bytes) ==
    [d \in Dims |-> IF d = "pages" THEN pages ELSE IF d = "images" THEN images ELSE bytes]

None == Amount(0, 0, 0)

Plus(a, b) == [d \in Dims |-> a[d] + b[d]]
Minus(a, b) == [d \in Dims |-> a[d] - b[d]]

Pool(p) == {t \in Threads : Home[t] = p}

Init ==
    /\ committed = [p \in Procs |-> None] /\ reserved = [p \in Procs |-> None]
    /\ disk = [committed |-> None, reserved |-> None]
    /\ stage = [p \in Procs |-> IF p = ApiProc THEN "load" ELSE "down"]
    /\ marked = {} /\ failed = [p \in Procs |-> FALSE]
    /\ pc = [t \in Threads |-> "stopped"]
    /\ ask = [t \in Threads |-> None] /\ hold = [t \in Threads |-> None]
    /\ spent = None /\ crashes = 0

-------------------------------------------------------------------------------
(* BudgetUsage. *)

Used(p) == Plus(committed[p], reserved[p])

\* Mutated form of WouldExceed: open reservations are not counted.
CountsCommitted(p, a) == \E d \in Dims : a[d] > 0 /\ committed[p][d] + a[d] > Ceiling[d]

\* would_exceed: some dimension asked for would cross its ceiling.
WouldExceed(p, a) == \E d \in Dims : a[d] > 0 /\ Used(p)[d] + a[d] > Ceiling[d]

\* The first half of consume: reserve, which refuses under the lock.
Reserve(t) ==
    /\ pc[t] \in {"page", "bytes", "charge"}
    /\ ~WouldExceed(Home[t], ask[t])
    /\ reserved' = [reserved EXCEPT ![Home[t]] = Plus(@, ask[t])]
    /\ hold' = [hold EXCEPT ![t] = ask[t]]
    /\ pc' = [pc EXCEPT ![t] = "commit"]
    /\ UNCHANGED <<committed, ask, disk, stage, marked, failed, spent, crashes>>

\* What is left of the reserved amounts when reservation a is committed.
Cleared(p, a) == Minus(reserved[p], a)

\* The second half of consume: commit.  A page that is paid for is asked for next; any
\* other payment ends the thread's job.
Commit(t) ==
    /\ pc[t] = "commit"
    /\ committed' = [committed EXCEPT ![Home[t]] = Plus(@, hold[t])]
    /\ reserved' = [reserved EXCEPT ![Home[t]] = Cleared(Home[t], hold[t])]
    /\ hold' = [hold EXCEPT ![t] = None]
    /\ pc' = [pc EXCEPT ![t] = IF hold[t]["pages"] > 0 THEN "get" ELSE "idle"]
    /\ ask' = [ask EXCEPT ![t] = None]
    /\ UNCHANGED <<disk, stage, marked, failed, spent, crashes>>

-------------------------------------------------------------------------------
(* A source thread: Escalator.fetch. *)

\* consume(pages=1) comes first.
WantPage(t) ==
    /\ pc[t] = "idle" /\ stage[Home[t]] = "discover"
    /\ pc' = [pc EXCEPT ![t] = "page"]
    /\ ask' = [ask EXCEPT ![t] = Amount(1, 0, 0)]
    /\ UNCHANGED <<usage, hold, disk, stage, marked, failed, spent, crashes>>

\* The response is here, and its bytes are charged.
GetPage(t) ==
    /\ pc[t] = "get" /\ stage[Home[t]] = "discover"
    /\ \E n \in Sizes :
          /\ spent' = Plus(spent, Amount(1, 0, n))
          /\ ask' = [ask EXCEPT ![t] = Amount(0, 0, n)]
    /\ pc' = [pc EXCEPT ![t] = "bytes"]
    /\ UNCHANGED <<usage, hold, disk, stage, marked, failed, crashes>>

\* Mutated form of PageRefused: a refused page is treated as refused bytes are, and the
\* request is made.
RefusalIgnored(t) ==
    /\ pc[t] \in {"page", "bytes"}
    /\ WouldExceed(Home[t], ask[t])
    /\ pc' = [pc EXCEPT ![t] = IF pc[t] = "page" THEN "get" ELSE "idle"]
    /\ ask' = [ask EXCEPT ![t] = None]
    /\ UNCHANGED <<usage, hold, disk, stage, marked, failed, spent, crashes>>

\* A refused page ends the source; refused bytes make the answer UNMEASURABLE and the
\* source goes on.
PageRefused(t) ==
    /\ pc[t] \in {"page", "bytes"}
    /\ WouldExceed(Home[t], ask[t])
    /\ pc' = [pc EXCEPT ![t] = IF pc[t] = "page" THEN "stopped" ELSE "idle"]
    /\ ask' = [ask EXCEPT ![t] = None]
    /\ UNCHANGED <<usage, hold, disk, stage, marked, failed, spent, crashes>>

-------------------------------------------------------------------------------
(* An image thread: _download_listing_image, run by map_by_host. *)

\* run_one does nothing once a job has raised; the first would_exceed asks for one image.
WantImage(t) ==
    /\ pc[t] = "idle" /\ stage[Home[t]] = "acquire"
    /\ ~failed[Home[t]] /\ ~WouldExceed(Home[t], Amount(0, 1, 0))
    /\ \E n \in Sizes : ask' = [ask EXCEPT ![t] = Amount(0, 1, n)]
    /\ pc' = [pc EXCEPT ![t] = "look"]
    /\ UNCHANGED <<usage, hold, disk, stage, marked, failed, spent, crashes>>

\* The second would_exceed, with the bytes that came: the image is dropped or stored.
LookAgain(t) ==
    /\ pc[t] = "look"
    /\ IF WouldExceed(Home[t], ask[t])
       THEN pc' = [pc EXCEPT ![t] = "idle"] /\ ask' = [ask EXCEPT ![t] = None]
       ELSE pc' = [pc EXCEPT ![t] = "store"] /\ UNCHANGED ask
    /\ UNCHANGED <<usage, hold, disk, stage, marked, failed, spent, crashes>>

\* store.put_bytes.
StoreImage(t) ==
    /\ pc[t] = "store"
    /\ spent' = Plus(spent, ask[t])
    /\ pc' = [pc EXCEPT ![t] = "charge"]
    /\ UNCHANGED <<usage, ask, hold, disk, stage, marked, failed, crashes>>

\* consume raises although the look had said yes: another thread was faster.  run_one
\* keeps what a job raised, and the jobs that have not begun do nothing.
ChargeRefused(t) ==
    /\ pc[t] = "charge"
    /\ WouldExceed(Home[t], ask[t])
    /\ pc' = [pc EXCEPT ![t] = "idle"]
    /\ ask' = [ask EXCEPT ![t] = None]
    /\ failed' = [failed EXCEPT ![Home[t]] = TRUE]
    /\ UNCHANGED <<usage, hold, disk, stage, marked, spent, crashes>>

\* A thread has no more jobs.
JobsDone(t) ==
    /\ pc[t] = "idle"
    /\ pc' = [pc EXCEPT ![t] = "stopped"]
    /\ UNCHANGED <<usage, ask, hold, disk, stage, marked, failed, spent, crashes>>

-------------------------------------------------------------------------------
(* The campaign thread of a process. *)

\* CampaignController.usage: restore, once for each process.  The pool of the first
\* stage that is not marked is opened.
Load(p) ==
    /\ stage[p] = "load"
    /\ committed' = [committed EXCEPT ![p] = disk.committed]
    /\ reserved' = [reserved EXCEPT ![p] = disk.reserved]
    /\ stage' = [stage EXCEPT ![p] = "next"]
    /\ UNCHANGED <<threads, disk, marked, failed, spent, crashes>>

OpenPool(p) ==
    /\ stage[p] = "next"
    /\ stage' = [stage EXCEPT ![p] = IF "discover" \notin marked THEN "discover"
                                     ELSE IF "acquire" \notin marked THEN "acquire"
                                     ELSE "over"]
    /\ pc' = [t \in Threads |-> IF Home[t] = p /\ stage'[p] # "over" THEN "idle" ELSE pc[t]]
    /\ UNCHANGED <<usage, ask, hold, disk, marked, failed, spent, crashes>>

\* The pool has been joined.
Quiet(p) == \A t \in Pool(p) : pc[t] = "stopped"

Snapshot(p) == [committed |-> committed[p], reserved |-> reserved[p]]

\* persist_usage at the end of a stage's work.  A pool that failed raises BudgetExceeded:
\* the campaign is over, with _charge_wall's persist_usage.
Persist(p) ==
    /\ stage[p] \in {"discover", "acquire"} /\ Quiet(p)
    /\ disk' = Snapshot(p)
    /\ stage' = [stage EXCEPT ![p] =
                   IF failed[p] THEN "over"
                   ELSE IF stage[p] = "discover" THEN "discovered" ELSE "acquired"]
    /\ UNCHANGED <<usage, threads, marked, failed, spent, crashes>>

\* mark_step.
Mark(p) ==
    /\ stage[p] \in {"discovered", "acquired"}
    /\ marked' = marked \cup {IF stage[p] = "discovered" THEN "discover" ELSE "acquire"}
    /\ stage' = [stage EXCEPT ![p] = "next"]
    /\ UNCHANGED <<usage, threads, disk, failed, spent, crashes>>

\* A process dies; what it had not persisted is gone.
Crash(p) ==
    /\ stage[p] \notin {"down", "over"} /\ crashes < MaxCrashes
    /\ crashes' = crashes + 1
    /\ stage' = [stage EXCEPT ![p] = "down"]
    /\ committed' = [committed EXCEPT ![p] = None]
    /\ reserved' = [reserved EXCEPT ![p] = None]
    /\ pc' = [t \in Threads |-> IF Home[t] = p THEN "stopped" ELSE pc[t]]
    /\ ask' = [t \in Threads |-> IF Home[t] = p THEN None ELSE ask[t]]
    /\ hold' = [t \in Threads |-> IF Home[t] = p THEN None ELSE hold[t]]
    /\ UNCHANGED <<disk, marked, failed, spent>>

\* `campaign resume`, in a process that is not at work: nothing stops it from being run
\* beside the process that is.
Resume(p) ==
    /\ stage[p] = "down" /\ p # ApiProc
    /\ stage' = [stage EXCEPT ![p] = "load"]
    /\ failed' = [failed EXCEPT ![p] = FALSE]
    /\ UNCHANGED <<usage, threads, disk, marked, spent, crashes>>

ThreadStep(t) ==
    \/ WantPage(t) \/ GetPage(t) \/ PageRefused(t)
    \/ WantImage(t) \/ LookAgain(t) \/ StoreImage(t) \/ ChargeRefused(t)
    \/ Reserve(t) \/ Commit(t) \/ JobsDone(t)

MainStep(p) == Load(p) \/ OpenPool(p) \/ Persist(p) \/ Mark(p) \/ Crash(p) \/ Resume(p)

Next == (\E t \in Threads : ThreadStep(t)) \/ (\E p \in Procs : MainStep(p))

Spec == Init /\ [][Next]_vars

-------------------------------------------------------------------------------
(* Properties. *)

\* Every variable holds a value of its kind.
TypeOK ==
    /\ committed \in [Procs -> [Dims -> Int]] /\ reserved \in [Procs -> [Dims -> Int]]
    /\ disk \in [committed : [Dims -> Int], reserved : [Dims -> Int]]
    /\ stage \in [Procs -> {"down", "load", "next", "discover", "discovered", "acquire",
                            "acquired", "over"}]
    /\ marked \subseteq {"discover", "acquire"} /\ failed \in [Procs -> BOOLEAN]
    /\ pc \in [Threads -> {"idle", "stopped", "page", "get", "bytes", "look", "store",
                           "charge", "commit"}]
    /\ ask \in [Threads -> Amounts] /\ hold \in [Threads -> Amounts]
    /\ spent \in Amounts /\ crashes \in 0..MaxCrashes

\* BudgetUsage.never_exceeds_ceiling, of every process and of the stored row: however
\* many threads reserve and commit at once, and whatever was persisted or restored,
\* what is committed and reserved together stays within the sealed ceilings.
NeverExceedsCeiling ==
    /\ \A p \in Procs : \A d \in Dims : Used(p)[d] <= Ceiling[d]
    /\ \A d \in Dims : disk.committed[d] + disk.reserved[d] <= Ceiling[d]

\* The sealed budget while one process works on the campaign and does not die: no page is
\* asked for that was not paid for before, and though images are paid for after they
\* are stored, at most one for each other thread is stored beyond the ceiling.
OvershootBounded ==
    (crashes = 0 /\ \A p \in Procs \ {ApiProc} : stage[p] = "down") =>
        /\ spent["pages"] <= committed[ApiProc]["pages"]
        /\ spent["images"] <= Ceiling["images"] + Cardinality(Pool(ApiProc)) - 1

\* docs/architecture/WAVE_1.md:31: a sealed budget cannot be exceeded.
SealedBudgetHolds == spent["images"] <= Ceiling["images"]

\* docs/architecture/WAVE_1.md:33-34: crash-resume reconstructs the budget.  So the pages
\* asked for, over all the lives of the campaign, stay within the ceiling.
ResumedBudgetHolds == spent["pages"] <= Ceiling["pages"]
===============================================================================
