---------------------------- MODULE SearchOutbox ----------------------------
(***************************************************************************)
(* The durable search-sync outbox: every change of a diary schedules a     *)
(* background task that upserts one row per diary in search_sync_outbox;   *)
(* a periodic worker claims rows under a lease, reads the diary's current  *)
(* state, writes it to (or removes it from) Meilisearch and completes the  *)
(* row.  Bans reach the index by a second, direct path.                    *)
(*                                                                         *)
(* A diary's data is abstracted to one value: what a public diary says (a  *)
(* member of Contents), or None for a private, draft, hidden or deleted    *)
(* one.  Times are abstracted to one flag per row: its next_attempt_at, or *)
(* its lease_until while it is claimed, has passed.                        *)
(***************************************************************************)
EXTENDS Naturals, FiniteSets

CONSTANTS
    Diaries,        \* the diaries
    Authors,        \* their authors
    AuthorOf,       \* the author of each diary
    Contents,       \* what a public diary may say
    None,           \* not public / not in the index
    Workers,        \* the processes that may run process_outbox
    BatchSize,      \* OUTBOX_BATCH_SIZE
    MaxAttempts,    \* OUTBOX_MAX_ATTEMPTS
    Limit           \* how often each kind of outside event may happen

\* The outside events a behaviour is bounded by.
Events == {"edit", "ban", "lost", "outage", "fault", "crash"}

ASSUME ConstantsOK ==
    /\ AuthorOf \in [Diaries -> Authors]
    /\ None \notin Contents
    /\ BatchSize \in Nat \ {0}
    /\ MaxAttempts \in Nat \ {0}
    /\ Limit \in [Events -> Nat]

ASSUME FiniteDiaries == IsFiniteSet(Diaries)

VARIABLES
    diary,      \* diary[d]: MongoDB's view of d, what it says or None
    banned,     \* the banned authors
    index,      \* index[d]: the Meilisearch document of d, or None
    row,        \* row[d]: the outbox row of d
    tasks,      \* tasks[d]: requests past their write of d, and background
                \* tasks, that will enqueue d
    unlist,     \* diaries a ban's background task has still to take out
    relist,     \* diaries an unban's background task has still to re-enqueue
    pc,         \* pc[w]: where process_outbox is in worker w
    batch,      \* batch[w]: the diaries w has claimed and not completed yet
    tries,      \* tries[w][d]: attempt_count of d's row as w claimed it
    cur,        \* cur[w]: the entry in hand
    doc,        \* doc[w]: what w is going to write for it
    late,       \* late[w]: rows that fell due after the `now` of w's batch
    lost,       \* ghost: diaries whose last enqueue task died or failed
    dropped,    \* ghost: diaries whose last index write failed
    used        \* how often each outside event has happened

workerVars == <<pc, batch, tries, cur, doc>>
banVars == <<banned, unlist, relist>>
vars == <<diary, index, row, tasks, banVars, workerVars, late, lost, dropped, used>>

Values == Contents \cup {None}
Statuses == {"none", "pending", "processing", "done", "failed"}
Row == [status : Statuses, attempts : Nat, due : BOOLEAN, created : Nat]
Phases == {"idle", "claiming", "working", "author", "push", "finish", "retry"}

NoRow == [status |-> "none", attempts |-> 0, due |-> FALSE, created |-> 0]
\* Worker w is busy with one entry of its batch.
InHand(w) == pc[w] \in {"author", "push", "finish", "retry"}

\* The type invariant.
TypeOK ==
    /\ diary \in [Diaries -> Values]
    /\ banned \in SUBSET Authors
    /\ index \in [Diaries -> Values]
    /\ row \in [Diaries -> Row]
    /\ tasks \in [Diaries -> Nat]
    /\ unlist \in SUBSET Diaries
    /\ relist \in SUBSET Diaries
    /\ pc \in [Workers -> Phases]
    /\ batch \in [Workers -> SUBSET Diaries]
    /\ tries \in [Workers -> [Diaries -> Nat]]
    /\ cur \in [Workers -> Diaries \cup {None}]
    /\ \A w \in Workers : InHand(w) => cur[w] \in Diaries
    /\ doc \in [Workers -> Values]
    /\ late \in [Workers -> SUBSET Diaries]
    /\ lost \in SUBSET Diaries
    /\ dropped \in SUBSET Diaries
    /\ used \in [Events -> Nat]
    /\ \A e \in Events : used[e] <= Limit[e]

Init ==
    /\ diary \in [Diaries -> Values]
    /\ banned = {}
    /\ index = diary
    /\ row = [d \in Diaries |-> NoRow]
    /\ tasks = [d \in Diaries |-> 0]
    /\ unlist = {}
    /\ relist = {}
    /\ pc = [w \in Workers |-> "idle"]
    /\ batch = [w \in Workers |-> {}]
    /\ tries = [w \in Workers |-> [d \in Diaries |-> 0]]
    /\ cur = [w \in Workers |-> None]
    /\ doc = [w \in Workers |-> None]
    /\ late = [w \in Workers |-> {}]
    /\ lost = {}
    /\ dropped = {}
    /\ used = [e \in Events |-> 0]

\* One more outside event of kind e, if the bound leaves room for it.
Spend(e) ==
    /\ used[e] < Limit[e]
    /\ used' = [used EXCEPT ![e] = @ + 1]

-----------------------------------------------------------------------------
(* The API processes: diary changes, bans, and their background tasks.     *)

\* Create, update, like, comment on, hide, unhide or delete a diary: the
\* document changes (or not), then a background task will enqueue it.
SaveDiary(d) ==
    /\ Spend("edit")
    /\ \E v \in Values : diary' = [diary EXCEPT ![d] = v]
    /\ tasks' = [tasks EXCEPT ![d] = @ + 1]
    /\ UNCHANGED <<index, row, banVars, workerVars, late, lost, dropped>>

\* d's row falls due now, too late for the batches that are being claimed.
FallsDue(d) ==
    late' = [w \in Workers |-> IF pc[w] = "claiming"
                               THEN late[w] \cup {d} ELSE late[w]]

\* Mutant: an existing row keeps its status.
EnqueueOnInsertOnly(d) ==
    /\ tasks[d] > 0
    /\ tasks' = [tasks EXCEPT ![d] = @ - 1]
    /\ row' = IF row[d].status = "none"
              THEN [row EXCEPT ![d] =
                      [status |-> "pending", attempts |-> 0, due |-> TRUE,
                       created |-> Cardinality({e \in Diaries :
                                                   row[e].status # "none"})]]
              ELSE row
    /\ FallsDue(d)
    /\ lost' = lost \ {d}
    /\ UNCHANGED <<diary, index, banVars, workerVars, dropped, used>>

\* enqueue_sync: the upsert makes the row pending and due now, whatever it
\* was; created_at and attempt_count are only set when the row is inserted.
Enqueue(d) ==
    /\ tasks[d] > 0
    /\ tasks' = [tasks EXCEPT ![d] = @ - 1]
    /\ row' = [row EXCEPT ![d] =
                 IF @.status = "none"
                 THEN [status |-> "pending", attempts |-> 0, due |-> TRUE,
                       created |-> Cardinality({e \in Diaries :
                                                   row[e].status # "none"})]
                 ELSE [@ EXCEPT !.status = "pending", !.due = TRUE]]
    /\ FallsDue(d)
    /\ lost' = lost \ {d}
    /\ UNCHANGED <<diary, index, banVars, workerVars, dropped, used>>

\* The task dies with its process, or the upsert fails and is logged.
LoseEnqueue(d) ==
    /\ tasks[d] > 0
    /\ Spend("lost")
    /\ tasks' = [tasks EXCEPT ![d] = @ - 1]
    /\ lost' = lost \cup {d}
    /\ UNCHANGED <<diary, index, row, banVars, workerVars, late, dropped>>

DiariesOf(a) == {d \in Diaries : AuthorOf[d] = a}

Ban(a) ==
    /\ Spend("ban")
    /\ banned' = banned \cup {a}
    /\ unlist' = unlist \cup DiariesOf(a)
    /\ UNCHANGED <<diary, index, row, tasks, relist, workerVars, late, lost,
                   dropped>>

Unban(a) ==
    /\ Spend("ban")
    /\ banned' = banned \ {a}
    /\ relist' = relist \cup DiariesOf(a)
    /\ UNCHANGED <<diary, index, row, tasks, unlist, workerVars, late, lost,
                   dropped>>

\* A ban's task takes the author's public diaries straight out of the index,
\* and an outage is logged and ignored.
Unlist(d) ==
    /\ d \in unlist
    /\ unlist' = unlist \ {d}
    /\ \/ /\ index' = IF diary[d] # None THEN [index EXCEPT ![d] = None] ELSE index
          /\ UNCHANGED used
       \/ /\ Spend("outage")
          /\ UNCHANGED index
    /\ UNCHANGED <<diary, row, tasks, banned, relist, workerVars, late, lost,
                   dropped>>

\* An unban's task enqueues the author's public diaries.
Relist(d) ==
    /\ d \in relist
    /\ relist' = relist \ {d}
    /\ tasks' = IF diary[d] # None THEN [tasks EXCEPT ![d] = @ + 1] ELSE tasks
    /\ UNCHANGED <<diary, index, row, banned, unlist, workerVars, late, lost,
                   dropped, used>>

-----------------------------------------------------------------------------
(* process_outbox.                                                         *)

\* next_attempt_at, or lease_until while the row is claimed, goes by.
TimePasses(d) ==
    /\ row[d].status \in {"pending", "processing"}
    /\ ~row[d].due
    /\ row' = [row EXCEPT ![d].due = TRUE]
    /\ FallsDue(d)
    /\ UNCHANGED <<diary, index, tasks, banVars, workerVars, lost, dropped, used>>

\* Mutant: a claim is never recovered.
PendingOnly(d) == row[d].status = "pending" /\ row[d].due

\* The claim's filter: due pending rows, and claims whose lease ran out.
Claimable(d) == row[d].status \in {"pending", "processing"} /\ row[d].due

\* What process_outbox leaves alone in every step.
OthersUnchanged == UNCHANGED <<diary, tasks, banVars, lost>>

Begin(w) ==
    /\ pc[w] = "idle"
    /\ pc' = [pc EXCEPT ![w] = "claiming"]
    /\ UNCHANGED <<index, row, batch, tries, cur, doc, late, dropped, used>>
    /\ OthersUnchanged

\* One find_one_and_update: the oldest of the rows claimable at the batch's
\* `now`.  Its own claims carry later times, so it never claims one twice; a
\* late row carries a later time too, unless it was written by a batch that is
\* itself behind.
Claim(w, d) ==
    /\ pc[w] = "claiming"
    /\ Cardinality(batch[w]) < BatchSize
    /\ d \notin batch[w]
    /\ Claimable(d)
    /\ \A e \in Diaries \ (batch[w] \cup late[w]) :
          Claimable(e) => row[d].created <= row[e].created
    /\ row' = [row EXCEPT ![d].status = "processing", ![d].due = FALSE]
    /\ batch' = [batch EXCEPT ![w] = @ \cup {d}]
    /\ tries' = [tries EXCEPT ![w][d] = row[d].attempts]
    /\ UNCHANGED <<index, pc, cur, doc, late, dropped, used>>
    /\ OthersUnchanged

\* The claim loop ends: the batch is full or nothing is claimable.
StopClaiming(w) ==
    /\ pc[w] = "claiming"
    /\ \/ Cardinality(batch[w]) >= BatchSize
       \/ \A d \in Diaries \ (batch[w] \cup late[w]) : ~Claimable(d)
    /\ pc' = [pc EXCEPT ![w] = IF batch[w] = {} THEN "idle" ELSE "working"]
    /\ late' = [late EXCEPT ![w] = {}]
    /\ UNCHANGED <<index, row, batch, tries, cur, doc, dropped, used>>
    /\ OthersUnchanged

\* _run_index_op reads the diary's current state; a diary that is not public
\* is going to be removed, and its author is not looked at.
ReadDiary(w, d) ==
    /\ pc[w] = "working"
    /\ d \in batch[w]
    /\ cur' = [cur EXCEPT ![w] = d]
    /\ doc' = [doc EXCEPT ![w] = diary[d]]
    /\ pc' = [pc EXCEPT ![w] = IF diary[d] = None THEN "push" ELSE "author"]
    /\ UNCHANGED <<index, row, batch, tries, late, dropped, used>>
    /\ OthersUnchanged

\* A banned author's diary is removed instead.
ReadAuthor(w) ==
    /\ pc[w] = "author"
    /\ doc' = [doc EXCEPT ![w] = IF AuthorOf[cur[w]] \in banned THEN None ELSE @]
    /\ pc' = [pc EXCEPT ![w] = "push"]
    /\ UNCHANGED <<index, row, batch, tries, cur, late, dropped, used>>
    /\ OthersUnchanged

\* A read of MongoDB raises: the operation has failed.
ReadFault(w) ==
    /\ \/ pc[w] = "working" /\ \E d \in batch[w] : cur' = [cur EXCEPT ![w] = d]
       \/ pc[w] = "author" /\ UNCHANGED cur
    /\ Spend("fault")
    /\ pc' = [pc EXCEPT ![w] = "retry"]
    /\ UNCHANGED <<index, row, batch, tries, doc, late, dropped>>
    /\ OthersUnchanged

\* index_diary or remove_diary reaches Meilisearch.
Push(w) ==
    /\ pc[w] = "push"
    /\ index' = [index EXCEPT ![cur[w]] = doc[w]]
    /\ dropped' = dropped \ {cur[w]}
    /\ pc' = [pc EXCEPT ![w] = "finish"]
    /\ UNCHANGED <<row, batch, tries, cur, doc, late, used>>
    /\ OthersUnchanged

\* All retries of the call fail: DiaryIndexer logs the error and returns, so
\* the operation counts as a success all the same.
PushSwallowed(w) ==
    /\ pc[w] = "push"
    /\ Spend("outage")
    /\ dropped' = dropped \cup {cur[w]}
    /\ pc' = [pc EXCEPT ![w] = "finish"]
    /\ UNCHANGED <<index, row, batch, tries, cur, doc, late>>
    /\ OthersUnchanged

\* The entry in hand is done with; the batch ends with its last entry.
Advance(w) ==
    /\ batch' = [batch EXCEPT ![w] = @ \ {cur[w]}]
    /\ pc' = [pc EXCEPT ![w] = IF batch[w] \subseteq {cur[w]}
                               THEN "idle" ELSE "working"]
    /\ cur' = [cur EXCEPT ![w] = None]
    /\ doc' = [doc EXCEPT ![w] = None]
    /\ UNCHANGED <<index, tries, late, dropped, used>>
    /\ OthersUnchanged

\* Mutant: completion does not look at the row's status.
FinishUnconditionally(w) ==
    /\ pc[w] = "finish"
    /\ row' = [row EXCEPT ![cur[w]].status = "done", ![cur[w]].due = FALSE]
    /\ Advance(w)

\* Success: done, unless the row was enqueued again in the meantime.
Finish(w) ==
    /\ pc[w] = "finish"
    /\ row' = [row EXCEPT ![cur[w]] =
                  IF @.status = "processing"
                  THEN [@ EXCEPT !.status = "done", !.due = FALSE] ELSE @]
    /\ Advance(w)

\* Failure: back to pending after a backoff, or failed for good.
Retry(w) ==
    /\ pc[w] = "retry"
    /\ LET attempts == tries[w][cur[w]] + 1
       IN  row' = [row EXCEPT ![cur[w]] =
                     IF @.status = "processing"
                     THEN [@ EXCEPT
                             !.status = IF attempts >= MaxAttempts
                                        THEN "failed" ELSE "pending",
                             !.attempts = attempts,
                             !.due = FALSE]
                     ELSE @]
    /\ Advance(w)

\* The process dies, or a write of the batch raises and ends process_outbox:
\* the rows it had claimed stay "processing" until their lease runs out.
Crash(w) ==
    /\ pc[w] # "idle"
    /\ Spend("crash")
    /\ pc' = [pc EXCEPT ![w] = "idle"]
    /\ batch' = [batch EXCEPT ![w] = {}]
    /\ tries' = [tries EXCEPT ![w] = [d \in Diaries |-> 0]]
    /\ cur' = [cur EXCEPT ![w] = None]
    /\ doc' = [doc EXCEPT ![w] = None]
    /\ late' = [late EXCEPT ![w] = {}]
    /\ UNCHANGED <<index, row, dropped>>
    /\ OthersUnchanged

-----------------------------------------------------------------------------

WorkerStep(w) ==
    \/ Begin(w)
    \/ \E d \in Diaries : Claim(w, d) \/ ReadDiary(w, d)
    \/ StopClaiming(w)
    \/ ReadAuthor(w)
    \/ Push(w)
    \/ Finish(w)
    \/ Retry(w)

ApiStep ==
    \/ \E d \in Diaries : SaveDiary(d) \/ Enqueue(d) \/ LoseEnqueue(d)
                            \/ Unlist(d) \/ Relist(d) \/ TimePasses(d)
    \/ \E a \in Authors : Ban(a) \/ Unban(a)

Next ==
    \/ ApiStep
    \/ \E w \in Workers :
          WorkerStep(w) \/ ReadFault(w) \/ PushSwallowed(w) \/ Crash(w)

Spec == Init /\ [][Next]_vars

\* The event loop runs every scheduled task, time passes, and the periodic
\* loop keeps calling process_outbox.  Users, bans, faults and crashes are
\* under no obligation.
FairSpec ==
    /\ Spec
    /\ \A d \in Diaries :
          /\ WF_vars(Enqueue(d))
          /\ WF_vars(Unlist(d))
          /\ WF_vars(Relist(d))
          /\ WF_vars(TimePasses(d))
    /\ \A w \in Workers : WF_vars(WorkerStep(w))

-----------------------------------------------------------------------------
(* Properties.                                                             *)

\* Nothing is left to do for d: no task will enqueue it, and its row is
\* absent or done.
Settled(d) == tasks[d] = 0 /\ row[d].status \in {"none", "done"}

\* No stale entry survives: once d is settled the index does not hold an old
\* text of d, nor a diary that is no longer public, unless its last enqueue
\* was lost or its last index write failed.  This is what the conditional
\* completion update and the "current state decides" rule of _run_index_op
\* are for; it rests on a single worker being active.
NoStaleEntry ==
    \A d \in Diaries \ (lost \cup dropped) :
        Settled(d) => index[d] \in {None, diary[d]}

\* Nothing is missing: if nobody was ever banned, a settled diary is in the
\* index exactly as the database has it.
NothingMissing ==
    used["ban"] = 0 =>
        \A d \in Diaries \ (lost \cup dropped) :
            Settled(d) => index[d] = diary[d]

\* The index converges: from some point on every diary whose enqueue and index
\* write were not lost, and whose row was not given up, is indexed as it is.
EventuallyInSync ==
    <>[](used["ban"] = 0 =>
            \A d \in Diaries \ (lost \cup dropped) :
                row[d].status # "failed" => index[d] = diary[d])

-----------------------------------------------------------------------------
(* Why the first two hold when a single worker is active: the parts of     *)
(* their inductive invariant.                                              *)

\* The bans' own path is only used after a ban.
BansCounted == used["ban"] = 0 => banned = {} /\ unlist = {} /\ relist = {}

\* The entry in hand is one of the batch, and the row of a claimed entry has
\* not been completed by anybody else.
ClaimsHeld ==
    \A w \in Workers :
        /\ InHand(w) => cur[w] \in batch[w]
        /\ \A d \in batch[w] : row[d].status \in {"pending", "processing"}

\* d has not been changed since it was read, as far as the queue knows: a
\* change would have left a task, a pending row or a lost enqueue behind.
Untouched(d) == tasks[d] = 0 /\ row[d].status = "processing" /\ d \notin lost

\* v is what the index should say of d, or d was taken out for a ban.
Current(d, v) == /\ v \in {None, diary[d]}
                 /\ used["ban"] = 0 => v = diary[d]

\* What the worker is going to write, or has just written, is current.
ReadsFresh ==
    \A w \in Workers :
        InHand(w) /\ Untouched(cur[w]) =>
            /\ pc[w] = "author" => doc[w] = diary[cur[w]]
            /\ pc[w] = "push" => Current(cur[w], doc[w])
            /\ pc[w] = "finish" /\ cur[w] \notin dropped =>
                  Current(cur[w], index[cur[w]])

\* Both properties at once.
SettledInSync ==
    \A d \in Diaries \ (lost \cup dropped) :
        Settled(d) => Current(d, index[d])

OutboxInv == BansCounted /\ ClaimsHeld /\ ReadsFresh /\ SettledInSync

OneWorker == \A v, w \in Workers : v = w

-----------------------------------------------------------------------------
(* The outbox implements the promise to the readers of the index: a diary  *)
(* is dirty until it is settled, or for as long as its last enqueue or its *)
(* last index write is lost.                                               *)

Dirty == {d \in Diaries : ~Settled(d)} \cup lost \cup dropped

Promise == INSTANCE SearchPromise
               WITH source <- diary, copy <- index, dirty <- Dirty

\* With one worker every step of the outbox is a step the promise allows.
KeepsPromise == Promise!PromiseSpec

=============================================================================
