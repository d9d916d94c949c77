--------------------------- MODULE SocialCounters ---------------------------
(***************************************************************************)
(* Likes, bookmarks and follows, the denormalised counters that shadow     *)
(* them, and the maintenance that repairs the counters.  A toggle changes  *)
(* a row and then increments counters; deletions take rows away without    *)
(* touching counters; the cleanup job sweeps orphaned rows and rewrites    *)
(* every counter from a count it made earlier, under a Redis lease that    *)
(* may run out while the job is still busy.                                *)
(*                                                                         *)
(* A row is [kind, by, to]; a counter is <<name, document>>.  Every diary  *)
(* here is public and belongs to somebody outside Users, and nobody is     *)
(* banned.                                                                 *)
(***************************************************************************)
EXTENDS Integers, Sequences, FiniteSets

CONSTANTS
    Users,
    Diaries,
    Kinds,          \* of rows: "like", "bookmark", "follow"
    Handlers,       \* requests that may run at the same time
    Runners,        \* processes that run the cleanup loop
    Nobody,         \* the holder of a free lease
    HomeOf,         \* the process that serves each handler
    MaxRequests,    \* toggles and deletions in a behaviour
    MaxFaults       \* crashes, lost leases, Redis failures, evicted locks

ASSUME CounterConstants ==
    /\ Users \cap Diaries = {}
    /\ Nobody \notin Runners
    /\ Kinds \subseteq {"like", "bookmark", "follow"}
    /\ MaxRequests \in Nat
    /\ MaxFaults \in Nat

Docs == Users \cup Diaries
Names == {"like_count", "bookmark_count", "follower_count", "following_count"}
Counters == Names \X Docs

Rows == {r \in [kind : Kinds, by : Users, to : Docs] :
            IF r.kind = "follow" THEN r.to \in Users \ {r.by}
                                 ELSE r.to \in Diaries}

\* The counters a row counts in, in the order the toggles update them.
Bumps(r) ==
    CASE r.kind = "like" -> <<<<"like_count", r.to>>>>
      [] r.kind = "bookmark" -> <<<<"bookmark_count", r.to>>>>
      [] r.kind = "follow" -> <<<<"follower_count", r.to>>,
                                <<"following_count", r.by>>>>

\* k is the first kind of ks in the order deletions and sweeps take them.
FirstKind(k, ks) ==
    /\ k \in ks
    /\ k = "bookmark" => "like" \notin ks
    /\ k = "follow" => ks = {"follow"}

CountsIn(r, c) == \E i \in DOMAIN Bumps(r) : Bumps(r)[i] = c

VARIABLES
    docs,       \* the users and diaries that exist
    rows,       \* the likes, bookmarks and follows collections
    stats,      \* stats[c]: the stored counter
    at, on,     \* at[h], on[h]: the next step of h; its row or document
    todo, sign, \* todo[h], sign[h]: the $incs h has still to send
    erase,      \* erase[h]: the kinds of rows h's deletion has still to take
    evicted,    \* handlers whose toggle lock has been evicted
    lease,      \* the runner whose token the Redis lease holds
    job,        \* job[j]: where the cleanup is in runner j
    kinds,      \* kinds[j]: rows it has still to sweep
    batch,      \* batch[j]: the orphans it has found
    snap, left, \* snap[j], left[j]: its counts, and those still to be stored
    drift,      \* ghost: counters that may be off
    stale,      \* ghost: stale[j]: counts of j that rows have changed under
    clicked,    \* ghost: rows that exist if toggles take turns
    broken,     \* ghost: rows toggled without the lock, or half way
    overran,    \* ghost: runners at work whose lease ran out or was never taken
    used

rowVars == <<docs, rows, clicked, broken>>
handlerVars == <<at, on, todo, sign, erase, evicted>>
jobVars == <<job, kinds, batch, snap, left>>
leaseVars == <<lease, overran>>
vars == <<rowVars, stats, handlerVars, leaseVars, jobVars, drift, stale, used>>

Steps == {"idle", "wait", "delete", "insert", "bump", "erase"}
Jobs == {"idle", "sweep", "purge", "diaries", "users", "end"}

\* The type invariant.
TypeOK ==
    /\ docs \subseteq Docs
    /\ rows \subseteq Rows
    /\ stats \in [Counters -> Int]
    /\ at \in [Handlers -> Steps]
    /\ \A h \in Handlers : CASE at[h] = "idle" -> on[h] = Nobody
                             [] at[h] = "erase" -> on[h] \in Docs
                             [] OTHER -> on[h] \in Rows
    /\ todo \in [Handlers -> Seq(Counters)]
    /\ sign \in [Handlers -> {-1, 1}]
    /\ erase \in [Handlers -> SUBSET Kinds]
    /\ evicted \subseteq Handlers
    /\ lease \in Runners \cup {Nobody}
    /\ job \in [Runners -> Jobs]
    /\ kinds \in [Runners -> SUBSET Kinds]
    /\ batch \in [Runners -> SUBSET Rows]
    /\ snap \in [Runners -> [Counters -> Nat]]
    /\ left \in [Runners -> SUBSET Counters]
    /\ drift \subseteq Counters
    /\ stale \in [Runners -> SUBSET Counters]
    /\ clicked \subseteq Rows /\ broken \subseteq Rows
    /\ overran \subseteq Runners
    /\ used \in [{"request", "fault"} -> Nat]

Zeros == [c \in Counters |-> 0]

Init ==
    /\ docs = Docs
    /\ rows = {}
    /\ stats = Zeros
    /\ at = [h \in Handlers |-> "idle"]
    /\ on = [h \in Handlers |-> Nobody]
    /\ todo = [h \in Handlers |-> <<>>]
    /\ sign = [h \in Handlers |-> 1]
    /\ erase = [h \in Handlers |-> {}]
    /\ evicted = {}
    /\ lease = Nobody
    /\ job = [j \in Runners |-> "idle"]
    /\ kinds = [j \in Runners |-> {}]
    /\ batch = [j \in Runners |-> {}]
    /\ snap = [j \in Runners |-> Zeros]
    /\ left = [j \in Runners |-> {}]
    /\ drift = {}
    /\ stale = [j \in Runners |-> {}]
    /\ clicked = {}
    /\ broken = {}
    /\ overran = {}
    /\ used = [k \in {"request", "fault"} |-> 0]

-----------------------------------------------------------------------------

Request ==
    /\ used["request"] < MaxRequests
    /\ used' = [used EXCEPT !["request"] = @ + 1]

Fault ==
    /\ used["fault"] < MaxFaults
    /\ used' = [used EXCEPT !["fault"] = @ + 1]

\* The rows of R that count in c.
CountOf(R, c) == Cardinality({r \in R : CountsIn(r, c)})

\* The counters the rows of R count in.
Touched(R) == {c \in Counters : \E r \in R : CountsIn(r, c)}

\* h has still to increment c.
Owes(h, c) == \E i \in DOMAIN todo[h] : todo[h][i] = c

\* Rows R have changed: counts that were made before are stale.
GoStale(R) == stale' = [j \in Runners |-> stale[j] \cup (Touched(R) \cap left[j])]

\* Mutant: the handler is done, and what it worked on is still there.
EndLeaks(h) ==
    /\ at' = [at EXCEPT ![h] = "idle"]
    /\ todo' = [todo EXCEPT ![h] = <<>>]
    /\ UNCHANGED <<on, sign, erase, evicted>>

\* h answers or dies: its locals are gone.
End(h) ==
    /\ at' = [at EXCEPT ![h] = "idle"]
    /\ on' = [on EXCEPT ![h] = Nobody]
    /\ todo' = [todo EXCEPT ![h] = <<>>]
    /\ sign' = [sign EXCEPT ![h] = 1]
    /\ erase' = [erase EXCEPT ![h] = {}]
    /\ evicted' = evicted \ {h}

-----------------------------------------------------------------------------
(* toggle_like, toggle_bookmark and toggle_follow.                         *)

\* The documents of the row are read, and found.
Toggle(h, r) ==
    /\ at[h] = "idle"
    /\ r.by \in docs /\ r.to \in docs
    /\ Request
    /\ at' = [at EXCEPT ![h] = "wait"]
    /\ on' = [on EXCEPT ![h] = r]
    /\ UNCHANGED <<rowVars, stats, todo, sign, erase, evicted, leaseVars, jobVars,
                   drift, stale>>

\* k is inside a toggle of h's row.
Rivals(h, k) == k # h /\ on[k] = on[h] /\ at[k] \in {"delete", "insert", "bump"}

\* Mutant: a lock per user, not per user and target: never contended here.
NeverWaits(h) == TRUE

\* The lock of h's row is free in h's process: nobody holds it, or the lock
\* object its holder got has been evicted from the table since.
LockFree(h) ==
    \A k \in Handlers : Rivals(h, k) /\ HomeOf[k] = HomeOf[h] => k \in evicted

\* The lock is looked up and acquired.  (A toggle that was waiting for a lock when
\* it was evicted keeps waiting in the code; here it may enter as well.)
Enter(h) ==
    /\ at[h] = "wait"
    /\ LockFree(h)
    /\ at' = [at EXCEPT ![h] = "delete"]
    /\ clicked' = IF on[h] \in clicked THEN clicked \ {on[h]} ELSE clicked \cup {on[h]}
    /\ broken' = IF \E k \in Handlers : Rivals(h, k) /\ (\/ HomeOf[k] # HomeOf[h]
                                                         \/ k \in evicted)
                 THEN broken \cup {on[h]} ELSE broken
    /\ UNCHANGED <<docs, rows, stats, on, todo, sign, erase, evicted, leaseVars,
                   jobVars, drift, stale, used>>

\* _ToggleLocks.get of any toggle evicts locks unused for _LOCK_TTL seconds.
Evict(h) ==
    /\ at[h] \in {"delete", "insert", "bump"}
    /\ h \notin evicted
    /\ Fault
    /\ evicted' = evicted \cup {h}
    /\ UNCHANGED <<rowVars, stats, at, on, todo, sign, erase, leaseVars, jobVars,
                   drift, stale>>

\* ensure_unliked and its like: if a row was removed, counters go down.
Unlink(h) ==
    /\ at[h] = "delete"
    /\ IF on[h] \in rows
       THEN /\ rows' = rows \ {on[h]}
            /\ GoStale({on[h]})
            /\ todo' = [todo EXCEPT ![h] = Bumps(on[h])]
            /\ sign' = [sign EXCEPT ![h] = -1]
            /\ at' = [at EXCEPT ![h] = "bump"]
       ELSE /\ at' = [at EXCEPT ![h] = "insert"]
            /\ UNCHANGED <<rows, stale, todo, sign>>
    /\ UNCHANGED <<docs, clicked, broken, stats, on, erase, evicted, leaseVars,
                   jobVars, drift, used>>

\* Mutant: the counters go up whether or not the upsert inserted a row.
LinkUnchecked(h) ==
    /\ at[h] = "insert"
    /\ rows' = rows \cup {on[h]}
    /\ GoStale({on[h]})
    /\ todo' = [todo EXCEPT ![h] = Bumps(on[h])]
    /\ at' = [at EXCEPT ![h] = "bump"]
    /\ UNCHANGED <<docs, clicked, broken, stats, on, sign, erase, evicted, leaseVars,
                   jobVars, drift, used>>

\* ensure_liked and its like: only an upsert that inserted counts.
Link(h) ==
    /\ at[h] = "insert"
    /\ IF on[h] \in rows
       THEN /\ End(h)
            /\ UNCHANGED <<rows, stale>>
       ELSE /\ rows' = rows \cup {on[h]}
            /\ GoStale({on[h]})
            /\ todo' = [todo EXCEPT ![h] = Bumps(on[h])]
            /\ at' = [at EXCEPT ![h] = "bump"]
            /\ UNCHANGED <<on, sign, erase, evicted>>
    /\ UNCHANGED <<docs, clicked, broken, stats, leaseVars, jobVars, drift, used>>

\* One $inc; a document that is gone is not matched.
Bump(h) ==
    /\ at[h] = "bump"
    /\ LET c == Head(todo[h])
       IN  stats' = IF c[2] \in docs THEN [stats EXCEPT ![c] = @ + sign[h]] ELSE stats
    /\ IF Len(todo[h]) = 1
       THEN End(h)
       ELSE /\ todo' = [todo EXCEPT ![h] = Tail(@)]
            /\ UNCHANGED <<at, on, sign, erase, evicted>>
    /\ UNCHANGED <<rowVars, leaseVars, jobVars, drift, stale, used>>

\* The process dies: what h owed is never sent.
Crash(h) ==
    /\ at[h] \in {"delete", "insert", "bump", "erase"}
    /\ Fault
    /\ drift' = drift \cup {c \in Counters : Owes(h, c)}
    /\ broken' = IF at[h] = "erase" THEN broken ELSE broken \cup {on[h]}
    /\ End(h)
    /\ UNCHANGED <<docs, rows, clicked, stats, leaseVars, jobVars, stale>>

-----------------------------------------------------------------------------
(* delete_diary and delete_account.                                        *)

Refers(r, x) == x \in {r.by, r.to}

Erase(h, x) ==
    /\ at[h] = "idle"
    /\ x \in docs
    /\ Request
    /\ at' = [at EXCEPT ![h] = "erase"]
    /\ on' = [on EXCEPT ![h] = x]
    /\ erase' = [erase EXCEPT ![h] = Kinds]
    /\ UNCHANGED <<rowVars, stats, todo, sign, evicted, leaseVars, jobVars, drift,
                   stale>>

\* delete_many on one collection; no counter of anybody else is adjusted.
EraseRows(h, k) ==
    /\ at[h] = "erase"
    /\ FirstKind(k, erase[h])
    /\ erase' = [erase EXCEPT ![h] = @ \ {k}]
    /\ LET gone == {r \in rows : r.kind = k /\ Refers(r, on[h])}
       IN  /\ rows' = rows \ gone
           /\ broken' = broken \cup gone
           /\ drift' = drift \cup Touched(gone)
           /\ GoStale(gone)
    /\ UNCHANGED <<docs, clicked, stats, at, on, todo, sign, evicted, leaseVars,
                   jobVars, used>>

\* The document goes last.
EraseDoc(h) ==
    /\ at[h] = "erase"
    /\ erase[h] = {}
    /\ docs' = docs \ {on[h]}
    /\ End(h)
    /\ UNCHANGED <<rows, clicked, broken, stats, leaseVars, jobVars, drift, stale,
                   used>>

-----------------------------------------------------------------------------
(* _run_singleton_job and run_cleanup.                                     *)

\* SET NX EX: the lease is taken if it is free; without Redis the job runs
\* all the same.
StartCleanup(j) ==
    /\ job[j] = "idle"
    /\ \/ /\ lease = Nobody
          /\ lease' = j
          /\ UNCHANGED <<overran, used>>
       \/ /\ Fault
          /\ overran' = overran \cup {j}
          /\ UNCHANGED lease
    /\ job' = [job EXCEPT ![j] = "sweep"]
    /\ kinds' = [kinds EXCEPT ![j] = Kinds]
    /\ UNCHANGED <<rowVars, stats, handlerVars, batch, snap, left, drift, stale>>

\* The lease lives 300 seconds, however long the job takes.
LeaseRunsOut ==
    /\ lease # Nobody /\ job[lease] # "idle"
    /\ Fault
    /\ lease' = Nobody
    /\ overran' = overran \cup {lease}
    /\ UNCHANGED <<rowVars, stats, handlerVars, jobVars, drift, stale>>

\* One that could not be released lapses, too.
LeaseLapses ==
    /\ lease # Nobody /\ job[lease] = "idle"
    /\ lease' = Nobody
    /\ UNCHANGED <<rowVars, stats, handlerVars, jobVars, overran, drift, stale, used>>

Orphan(r) == r.by \notin docs \/ r.to \notin docs

\* The rows of one collection are read, then the documents they refer to.
Sweep(j, k) ==
    /\ job[j] = "sweep"
    /\ FirstKind(k, kinds[j])
    /\ kinds' = [kinds EXCEPT ![j] = @ \ {k}]
    /\ batch' = [batch EXCEPT ![j] = {r \in rows : r.kind = k /\ Orphan(r)}]
    /\ job' = [job EXCEPT ![j] = "purge"]
    /\ UNCHANGED <<rowVars, stats, handlerVars, leaseVars, snap, left, drift, stale,
                   used>>

\* Those that were orphans are deleted.
Purge(j) ==
    /\ job[j] = "purge"
    /\ rows' = rows \ batch[j]
    /\ broken' = broken \cup (rows \cap batch[j])
    /\ drift' = drift \cup Touched(rows \cap batch[j])
    /\ GoStale(rows \cap batch[j])
    /\ batch' = [batch EXCEPT ![j] = {}]
    /\ job' = [job EXCEPT ![j] = IF kinds[j] = {} THEN "diaries" ELSE "sweep"]
    /\ UNCHANGED <<docs, clicked, stats, handlerVars, leaseVars, kinds, snap, left,
                   used>>

\* The counters job step s reconciles.
Reconciled(s) == {c \in Counters : c[2] \in docs \cap
                                        (IF s = "diaries" THEN Diaries ELSE Users)}

\* reconcile_diary_counters, reconcile_user_counters: the rows are counted.
Count(j) ==
    /\ job[j] \in {"diaries", "users"}
    /\ left[j] = {}
    /\ LET cs == Reconciled(job[j])
       IN  IF cs = {}
           THEN /\ job' = [job EXCEPT ![j] = IF @ = "diaries" THEN "users" ELSE "end"]
                /\ UNCHANGED <<snap, left, stale>>
           ELSE /\ left' = [left EXCEPT ![j] = cs]
                /\ snap' = [snap EXCEPT ![j] =
                              [c \in Counters |-> IF c \in cs THEN CountOf(rows, c) ELSE 0]]
                /\ stale' = [stale EXCEPT ![j] =
                               {c \in cs : \E h \in Handlers : Owes(h, c)}]
                /\ UNCHANGED job
    /\ UNCHANGED <<rowVars, stats, handlerVars, leaseVars, kinds, batch, drift, used>>

\* Mutant: a document with no rows is not in the aggregation and is skipped.
StoreCounted(j, x) ==
    LET cs == {c \in left[j] : c[2] = x /\ snap[j][c] > 0}
    IN  stats' = [c \in Counters |-> IF c \in cs /\ x \in docs
                                     THEN snap[j][c] ELSE stats[c]]

\* The $set of document x: all its counters, to what was counted.
StoreSets(j, x) ==
    LET cs == {c \in left[j] : c[2] = x}
    IN  stats' = [c \in Counters |-> IF c \in cs /\ x \in docs
                                     THEN snap[j][c] ELSE stats[c]]

Store(j, x) ==
    /\ job[j] \in {"diaries", "users"}
    /\ LET cs == {c \in left[j] : c[2] = x}
       IN  /\ cs # {}
           /\ StoreSets(j, x)
           /\ drift' = (drift \ (cs \ stale[j])) \cup (cs \cap stale[j])
           /\ left' = [left EXCEPT ![j] = @ \ cs]
           /\ stale' = [stale EXCEPT ![j] = @ \ cs]
           /\ IF left[j] = cs
              THEN /\ job' = [job EXCEPT ![j] = IF @ = "diaries" THEN "users" ELSE "end"]
                   /\ snap' = [snap EXCEPT ![j] = Zeros]
              ELSE UNCHANGED <<job, snap>>
    /\ UNCHANGED <<rowVars, handlerVars, leaseVars, kinds, batch, used>>

\* A query fails, and the exception ends the job early; or the process dies,
\* and its lease stays.
CleanupFails(j) ==
    /\ job[j] \in {"sweep", "purge", "diaries", "users"}
    /\ Fault
    /\ \/ /\ job' = [job EXCEPT ![j] = "end"]
          /\ UNCHANGED overran
       \/ /\ job' = [job EXCEPT ![j] = "idle"]
          /\ overran' = overran \ {j}
    /\ kinds' = [kinds EXCEPT ![j] = {}]
    /\ batch' = [batch EXCEPT ![j] = {}]
    /\ snap' = [snap EXCEPT ![j] = Zeros]
    /\ left' = [left EXCEPT ![j] = {}]
    /\ stale' = [stale EXCEPT ![j] = {}]
    /\ UNCHANGED <<rowVars, stats, handlerVars, lease, drift>>

\* Mutant: the lease is deleted without comparing tokens.
ReleaseAny(j) ==
    /\ job[j] = "end"
    /\ lease' = Nobody
    /\ overran' = overran \ {j}
    /\ job' = [job EXCEPT ![j] = "idle"]
    /\ UNCHANGED <<rowVars, stats, handlerVars, kinds, batch, snap, left, drift, stale,
                   used>>

\* GET and DEL in one script: only the own token is deleted, and that may fail.
Release(j) ==
    /\ job[j] = "end"
    /\ \/ /\ lease' = IF lease = j THEN Nobody ELSE lease
          /\ UNCHANGED used
       \/ /\ Fault
          /\ UNCHANGED lease
    /\ overran' = overran \ {j}
    /\ job' = [job EXCEPT ![j] = "idle"]
    /\ UNCHANGED <<rowVars, stats, handlerVars, kinds, batch, snap, left, drift,
                   stale>>

-----------------------------------------------------------------------------

RequestStep(h) ==
    \/ Enter(h) \/ Unlink(h) \/ Link(h) \/ Bump(h) \/ EraseDoc(h)
    \/ \E k \in Kinds : EraseRows(h, k)

CleanupStep(j) ==
    \/ StartCleanup(j) \/ Purge(j) \/ Count(j) \/ Release(j)
    \/ \E k \in Kinds : Sweep(j, k)
    \/ \E x \in Docs : Store(j, x)

Next ==
    \/ \E h \in Handlers :
          \/ \E r \in Rows : Toggle(h, r)
          \/ \E x \in Docs : Erase(h, x)
          \/ RequestStep(h) \/ Evict(h) \/ Crash(h)
    \/ \E j \in Runners : CleanupStep(j) \/ CleanupFails(j)
    \/ LeaseRunsOut \/ LeaseLapses

Spec == Init /\ [][Next]_vars

\* Requests that were begun are served, and the cleanup loop keeps running.
FairSpec ==
    /\ Spec
    /\ \A h \in Handlers : WF_vars(RequestStep(h))
    /\ \A j \in Runners : WF_vars(CleanupStep(j))
    /\ WF_vars(LeaseLapses)

-----------------------------------------------------------------------------
(* Properties.                                                             *)

\* What the handlers have still to add to c.
Pending(c) == Cardinality({h \in Handlers : sign[h] = 1 /\ Owes(h, c)})
              - Cardinality({h \in Handlers : sign[h] = -1 /\ Owes(h, c)})

\* The books balance: a counter of an existing document and what is still to
\* be added to it make up the rows it counts, however toggles interleave with
\* each other and with a reconciliation, unless a crash, a deletion, a sweep
\* or a count that rows have changed under has put it off.
BooksBalance ==
    \A c \in Counters \ drift :
        c[2] \in docs => stats[c] + Pending(c) = CountOf(rows, c)

\* Toggles of one row take turns: when none is at work, the row exists exactly
\* if it has been toggled an odd number of times, unless two processes, an
\* evicted lock, a crash or a deletion interfered.
TogglesTakeTurns ==
    \A r \in Rows \ broken :
        (\A h \in Handlers : on[h] = r => at[h] \in {"idle", "wait"})
            => (r \in rows <=> r \in clicked)

\* Two runners are only ever at work together if one of them outlived its
\* lease or could not take one: a late release never frees another's lease.
LeaseExclusive ==
    \A i, j \in Runners \ overran :
        job[i] # "idle" /\ job[j] # "idle" => i = j

\* Why that holds: a runner at work that has not outlived its lease holds it.
LeaseInv ==
    /\ job \in [Runners -> Jobs]
    /\ \A j \in Runners \ overran : job[j] # "idle" => lease = j

\* Drift is not for ever: once users and faults leave it alone, the periodic
\* cleanup makes every counter exact and removes every orphaned row.
EventuallyExact ==
    <>[](/\ \A r \in rows : ~Orphan(r)
         /\ \A c \in Counters : c[2] \in docs => stats[c] = CountOf(rows, c))

=============================================================================
