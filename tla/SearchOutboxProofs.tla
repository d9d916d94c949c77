------------------------- MODULE SearchOutboxProofs -------------------------
(***************************************************************************)
(* Theorems about SearchOutbox, for any diaries, authors, texts, batch     *)
(* size, attempt limit and bounds.                                         *)
(***************************************************************************)
EXTENDS SearchOutbox, FiniteSetTheorems, TLAPS

\* Every action leaves the state well typed: the type invariant is inductive.
LEMMA SpendType ==
    ASSUME NEW e \in Events, Spend(e),
           used \in [Events -> Nat], \A f \in Events : used[f] <= Limit[f]
    PROVE  /\ used' \in [Events -> Nat]
           /\ \A f \in Events : used'[f] <= Limit[f]
BY ConstantsOK DEF Spend

LEMMA TypeInit == Init => TypeOK
BY ConstantsOK DEF Init, TypeOK, NoRow, Row, Statuses, Phases, Values, InHand

LEMMA TypeStep == TypeOK /\ [Next]_vars => TypeOK'
<1> SUFFICES ASSUME TypeOK, [Next]_vars
             PROVE  TypeOK'
  OBVIOUS
<1> USE DEF TypeOK, InHand, Phases, OthersUnchanged, banVars, workerVars
<1>1. ASSUME NEW d \in Diaries, SaveDiary(d) PROVE TypeOK'
  BY <1>1, SpendType DEF SaveDiary, Events
<1>2. ASSUME NEW d \in Diaries, Enqueue(d) PROVE TypeOK'
  <2> DEFINE n == Cardinality({e \in Diaries : row[e].status # "none"})
             new == IF row[d].status = "none"
                    THEN [status |-> "pending", attempts |-> 0, due |-> TRUE,
                          created |-> n]
                    ELSE [row[d] EXCEPT !.status = "pending", !.due = TRUE]
  <2>1. n \in Nat
    BY FiniteDiaries, FS_Subset, FS_CardinalityType
  <2>2. row' \in [Diaries -> Row]
    <3>1. row' = [row EXCEPT ![d] = new]
      BY <1>2 DEF Enqueue
    <3> HIDE DEF n
    <3>2. new \in Row
      <4>1. CASE row[d].status = "none"
        BY <2>1, <4>1 DEF Row, Statuses
      <4>2. CASE row[d].status # "none"
        <5>1. new = [row[d] EXCEPT !.status = "pending", !.due = TRUE]
          BY <4>2
        <5>2. row[d] \in Row
          OBVIOUS
        <5> QED BY <5>1, <5>2 DEF Row, Statuses
      <4> QED BY <4>1, <4>2
    <3> QED BY <3>1, <3>2
  <2>3. tasks' \in [Diaries -> Nat]
    BY <1>2 DEF Enqueue
  <2> QED BY <1>2, <2>2, <2>3 DEF Enqueue, FallsDue
<1>3. ASSUME NEW d \in Diaries, LoseEnqueue(d) PROVE TypeOK'
  BY <1>3, SpendType DEF LoseEnqueue, Events
<1>4. ASSUME NEW d \in Diaries, Unlist(d) PROVE TypeOK'
  BY <1>4, SpendType DEF Unlist, Events, Values
<1>5. ASSUME NEW d \in Diaries, Relist(d) PROVE TypeOK'
  BY <1>5 DEF Relist
<1>6. ASSUME NEW d \in Diaries, TimePasses(d) PROVE TypeOK'
  BY <1>6 DEF TimePasses, FallsDue, Row
<1>7. ASSUME NEW a \in Authors, Ban(a) PROVE TypeOK'
  BY <1>7, SpendType DEF Ban, Events, DiariesOf
<1>8. ASSUME NEW a \in Authors, Unban(a) PROVE TypeOK'
  BY <1>8, SpendType DEF Unban, Events, DiariesOf
<1>9. ASSUME NEW w \in Workers, Begin(w) PROVE TypeOK'
  BY <1>9 DEF Begin
<1>10. ASSUME NEW w \in Workers, NEW d \in Diaries, Claim(w, d) PROVE TypeOK'
  <2>1. row' \in [Diaries -> Row]
    <3>1. row' = [row EXCEPT ![d] = [row[d] EXCEPT !.status = "processing",
                                                   !.due = FALSE]]
      BY <1>10 DEF Claim
    <3>2. row \in [Diaries -> Row]
      OBVIOUS
    <3> HIDE DEF TypeOK
    <3> QED BY <3>1, <3>2 DEF Row, Statuses
  <2>2. batch' \in [Workers -> SUBSET Diaries]
    BY <1>10 DEF Claim
  <2>3. tries' \in [Workers -> [Diaries -> Nat]]
    BY <1>10 DEF Claim, Row
  <2> QED BY <1>10, <2>1, <2>2, <2>3 DEF Claim
<1>11. ASSUME NEW w \in Workers, StopClaiming(w) PROVE TypeOK'
  BY <1>11 DEF StopClaiming
<1>12. ASSUME NEW w \in Workers, NEW d \in Diaries, ReadDiary(w, d)
       PROVE TypeOK'
  BY <1>12 DEF ReadDiary
<1>13. ASSUME NEW w \in Workers, ReadAuthor(w) PROVE TypeOK'
  BY <1>13 DEF ReadAuthor, Values
<1>14. ASSUME NEW w \in Workers, ReadFault(w) PROVE TypeOK'
  <2>1. /\ used' \in [Events -> Nat]
        /\ \A e \in Events : used'[e] <= Limit[e]
    BY <1>14, SpendType DEF ReadFault, Events
  <2>2. cur' \in [Workers -> Diaries \cup {None}] /\ cur'[w] \in Diaries
    <3>1. CASE pc[w] = "author"
      <4>1. cur' = cur
        BY <1>14, <3>1 DEF ReadFault
      <4>2. cur[w] \in Diaries
        BY <3>1
      <4> QED BY <4>1, <4>2
    <3>2. CASE pc[w] # "author"
      <4>1. PICK d \in batch[w] : cur' = [cur EXCEPT ![w] = d]
        BY <1>14, <3>2 DEF ReadFault
      <4>2. d \in Diaries
        OBVIOUS
      <4> QED BY <4>1, <4>2
    <3> QED BY <3>1, <3>2
  <2>3. \A v \in Workers : InHand(v)' => cur'[v] \in Diaries
    BY <1>14, <2>2 DEF ReadFault
  <2> QED BY <1>14, <2>1, <2>2, <2>3 DEF ReadFault
<1>15. ASSUME NEW w \in Workers, Push(w) PROVE TypeOK'
  BY <1>15 DEF Push
<1>16. ASSUME NEW w \in Workers, PushSwallowed(w) PROVE TypeOK'
  BY <1>16, SpendType DEF PushSwallowed, Events
<1>17. ASSUME NEW w \in Workers, Finish(w) PROVE TypeOK'
  <2>1. row' \in [Diaries -> Row]
    <3>1. row' = [row EXCEPT ![cur[w]] =
                    IF row[cur[w]].status = "processing"
                    THEN [row[cur[w]] EXCEPT !.status = "done", !.due = FALSE]
                    ELSE row[cur[w]]]
      BY <1>17 DEF Finish
    <3>2. row \in [Diaries -> Row] /\ cur[w] \in Diaries
      BY <1>17 DEF Finish
    <3> HIDE DEF TypeOK
    <3> QED BY <3>1, <3>2 DEF Row, Statuses
  <2>2. pc' \in [Workers -> Phases] /\ batch' \in [Workers -> SUBSET Diaries]
    BY <1>17 DEF Finish, Advance
  <2>3. \A v \in Workers : InHand(v)' => cur'[v] \in Diaries
    BY <1>17 DEF Finish, Advance
  <2> QED BY <1>17, <2>1, <2>2, <2>3 DEF Finish, Advance, Values
<1>18. ASSUME NEW w \in Workers, Retry(w) PROVE TypeOK'
  <2> DEFINE d == cur[w]
             attempts == tries[w][d] + 1
             new == IF row[d].status = "processing"
                    THEN [row[d] EXCEPT
                            !.status = IF attempts >= MaxAttempts
                                       THEN "failed" ELSE "pending",
                            !.attempts = attempts,
                            !.due = FALSE]
                    ELSE row[d]
  <2>1. row' \in [Diaries -> Row]
    <3>1. d \in Diaries /\ attempts \in Nat
      BY <1>18 DEF Retry
    <3>2. new \in Row
      <4>1. row[d] \in Row
        BY <3>1
      <4> HIDE DEF attempts, TypeOK
      <4> QED BY <3>1, <4>1 DEF Row, Statuses
    <3>3. row' = [row EXCEPT ![d] = new]
      BY <1>18 DEF Retry
    <3> QED BY <3>1, <3>2, <3>3
  <2> QED BY <1>18, <2>1 DEF Retry, Advance, Values
<1>19. ASSUME NEW w \in Workers, Crash(w) PROVE TypeOK'
  BY <1>19, SpendType DEF Crash, Events, Values
<1>20. CASE UNCHANGED vars
  BY <1>20 DEF vars
<1> QED
  BY <1>1, <1>2, <1>3, <1>4, <1>5, <1>6, <1>7, <1>8, <1>9, <1>10, <1>11,
     <1>12, <1>13, <1>14, <1>15, <1>16, <1>17, <1>18, <1>19, <1>20
  DEF Next, ApiStep, WorkerStep

\* The outbox is always well typed, and the outside events stay in bounds.
THEOREM OutboxTypeCorrect == Spec => []TypeOK
<1> QED BY TypeInit, TypeStep, PTL DEF Spec

-----------------------------------------------------------------------------

LEMMA InvInit == Init => OutboxInv
BY DEF Init, OutboxInv, BansCounted, ClaimsHeld, ReadsFresh, SettledInSync,
       InHand, Current, Settled, NoRow, Values

\* With one worker, every step keeps the four parts of the invariant.
LEMMA InvStep ==
    ASSUME OneWorker, TypeOK, OutboxInv, [Next]_vars
    PROVE  OutboxInv'
<1> USE DEF OutboxInv, BansCounted, ClaimsHeld, ReadsFresh, SettledInSync,
            InHand, Untouched, Current, Settled, OthersUnchanged, banVars,
            workerVars
<1>1. ASSUME NEW d \in Diaries, SaveDiary(d) PROVE OutboxInv'
  BY <1>1 DEF SaveDiary, Spend, TypeOK, Events
<1>2. ASSUME NEW d \in Diaries, Enqueue(d) PROVE OutboxInv'
  BY <1>2 DEF Enqueue, TypeOK, Row
<1>3. ASSUME NEW d \in Diaries, LoseEnqueue(d) PROVE OutboxInv'
  BY <1>3 DEF LoseEnqueue, Spend, TypeOK, Events
<1>4. ASSUME NEW d \in Diaries, Unlist(d) PROVE OutboxInv'
  <2>1. used["ban"] # 0 /\ used'["ban"] = used["ban"]
    BY <1>4 DEF Unlist, Spend, TypeOK, Events
  <2>2. index' = index \/ index' = [index EXCEPT ![d] = None]
    BY <1>4 DEF Unlist
  <2>3. UNCHANGED <<diary, row, tasks, banned, relist, workerVars, lost,
                 dropped>>
    BY <1>4 DEF Unlist
  <2>4. UNCHANGED <<diary, row, tasks, pc, batch, cur, doc, lost, dropped>>
    BY <2>3
  <2>5. BansCounted' /\ ClaimsHeld'
    BY <2>1, <2>4
  <2>6. ReadsFresh'
    BY <2>1, <2>2, <2>4 DEF TypeOK
  <2>7. SettledInSync'
    BY <2>1, <2>2, <2>4 DEF TypeOK
  <2> QED BY <2>5, <2>6, <2>7
<1>5. ASSUME NEW d \in Diaries, Relist(d) PROVE OutboxInv'
  BY <1>5 DEF Relist, TypeOK
<1>6. ASSUME NEW d \in Diaries, TimePasses(d) PROVE OutboxInv'
  BY <1>6 DEF TimePasses, TypeOK, Row
<1>7. ASSUME NEW a \in Authors, Ban(a) PROVE OutboxInv'
  BY <1>7 DEF Ban, Spend, TypeOK, Events
<1>8. ASSUME NEW a \in Authors, Unban(a) PROVE OutboxInv'
  BY <1>8 DEF Unban, Spend, TypeOK, Events
<1>9. ASSUME NEW w \in Workers, Begin(w) PROVE OutboxInv'
  BY <1>9 DEF Begin, OneWorker, TypeOK
<1>10. ASSUME NEW w \in Workers, NEW d \in Diaries, Claim(w, d)
       PROVE OutboxInv'
  BY <1>10 DEF Claim, Claimable, OneWorker, TypeOK, Row
<1>11. ASSUME NEW w \in Workers, StopClaiming(w) PROVE OutboxInv'
  BY <1>11 DEF StopClaiming, OneWorker, TypeOK
<1>12. ASSUME NEW w \in Workers, NEW d \in Diaries, ReadDiary(w, d)
       PROVE OutboxInv'
  BY <1>12 DEF ReadDiary, OneWorker, TypeOK
<1>13. ASSUME NEW w \in Workers, ReadAuthor(w) PROVE OutboxInv'
  BY <1>13 DEF ReadAuthor, OneWorker, TypeOK
<1>14. ASSUME NEW w \in Workers, ReadFault(w) PROVE OutboxInv'
  BY <1>14 DEF ReadFault, OneWorker, TypeOK, Spend, Events
<1>15. ASSUME NEW w \in Workers, Push(w) PROVE OutboxInv'
  BY <1>15 DEF Push, OneWorker, TypeOK
<1>16. ASSUME NEW w \in Workers, PushSwallowed(w) PROVE OutboxInv'
  BY <1>16 DEF PushSwallowed, OneWorker, TypeOK, Spend, Events
<1>17. ASSUME NEW w \in Workers, Finish(w) PROVE OutboxInv'
  BY <1>17 DEF Finish, Advance, OneWorker, TypeOK, Row
<1>18. ASSUME NEW w \in Workers, Retry(w) PROVE OutboxInv'
  BY <1>18 DEF Retry, Advance, OneWorker, TypeOK, Row
<1>19. ASSUME NEW w \in Workers, Crash(w) PROVE OutboxInv'
  BY <1>19 DEF Crash, OneWorker, TypeOK, Spend, Events
<1>20. CASE UNCHANGED vars
  BY <1>20 DEF vars
<1> QED
  BY <1>1, <1>2, <1>3, <1>4, <1>5, <1>6, <1>7, <1>8, <1>9, <1>10, <1>11,
     <1>12, <1>13, <1>14, <1>15, <1>16, <1>17, <1>18, <1>19, <1>20
  DEF Next, ApiStep, WorkerStep

THEOREM OutboxInvariant == ASSUME OneWorker PROVE Spec => []OutboxInv
<1>1. TypeOK /\ OutboxInv /\ [Next]_vars => OutboxInv'
  BY InvStep
<1> QED BY <1>1, InvInit, OutboxTypeCorrect, PTL DEF Spec

\* While one worker is active, a settled diary is never in the index with an
\* old text or after it stopped being public.
THEOREM OutboxNoStaleEntry == ASSUME OneWorker PROVE Spec => []NoStaleEntry
<1>1. OutboxInv => NoStaleEntry
  BY DEF OutboxInv, SettledInSync, NoStaleEntry, Current
<1> QED BY <1>1, OutboxInvariant, PTL

\* While one worker is active and nobody was banned, a settled diary is in the
\* index exactly as the database has it.
THEOREM OutboxNothingMissing == ASSUME OneWorker PROVE Spec => []NothingMissing
<1>1. OutboxInv => NothingMissing
  BY DEF OutboxInv, SettledInSync, NothingMissing, Current
<1> QED BY <1>1, OutboxInvariant, PTL

-----------------------------------------------------------------------------
(* The outbox implements SearchPromise.                                    *)

LEMMA PromiseStart == Init => Promise!PromiseInit
BY DEF Init, Promise!PromiseInit, Dirty, Settled, NoRow, Promise!Values,
       Values

LEMMA PromiseStep ==
    ASSUME OneWorker, TypeOK, OutboxInv, [Next]_vars
    PROVE  [Promise!PromiseNext]_(Promise!promiseVars)
<1> USE DEF Promise!PromiseNext, Promise!promiseVars, Promise!Values, Values,
            Dirty, Settled, OthersUnchanged, banVars, workerVars
<1>1. ASSUME NEW d \in Diaries, SaveDiary(d) PROVE Promise!Change(d)
  <2>1. \E v \in Values : diary' = [diary EXCEPT ![d] = v]
    BY <1>1 DEF SaveDiary
  <2>2. UNCHANGED <<index, row, lost, dropped>>
    BY <1>1 DEF SaveDiary
  <2>3. tasks' = [tasks EXCEPT ![d] = @ + 1] /\ tasks \in [Diaries -> Nat]
    BY <1>1 DEF SaveDiary, TypeOK
  <2>4. ~Settled(d)'
    BY <2>3
  <2>5. \A e \in Diaries \ {d} : Settled(e)' <=> Settled(e)
    BY <2>2, <2>3
  <2>6. Dirty' = Dirty \cup {d}
    <3> HIDE DEF Settled
    <3> QED BY <2>2, <2>4, <2>5
  <2> HIDE DEF Dirty
  <2> QED BY <2>1, <2>2, <2>6 DEF Promise!Change
<1>2. ASSUME NEW d \in Diaries, Enqueue(d) PROVE UNCHANGED Promise!promiseVars
  BY <1>2 DEF Enqueue, TypeOK, Row
<1>3. ASSUME NEW d \in Diaries, LoseEnqueue(d)
      PROVE  UNCHANGED Promise!promiseVars
  BY <1>3 DEF LoseEnqueue, TypeOK
<1>4. ASSUME NEW d \in Diaries, Unlist(d)
      PROVE  Promise!TakeOut(d) \/ UNCHANGED Promise!promiseVars
  BY <1>4 DEF Unlist, Promise!TakeOut
<1>5. ASSUME NEW d \in Diaries, Relist(d)
      PROVE  Promise!Mark(d) \/ UNCHANGED Promise!promiseVars
  BY <1>5 DEF Relist, Promise!Mark, TypeOK
<1>6. ASSUME NEW d \in Diaries, TimePasses(d)
      PROVE  UNCHANGED Promise!promiseVars
  BY <1>6 DEF TimePasses, TypeOK, Row
<1>7. ASSUME NEW a \in Authors, Ban(a) \/ Unban(a)
      PROVE  UNCHANGED Promise!promiseVars
  BY <1>7 DEF Ban, Unban
<1>8. ASSUME NEW w \in Workers,
             \/ Begin(w) \/ StopClaiming(w) \/ ReadAuthor(w)
             \/ ReadFault(w) \/ Crash(w)
             \/ \E d \in Diaries : ReadDiary(w, d)
      PROVE  UNCHANGED Promise!promiseVars
  BY <1>8 DEF Begin, StopClaiming, ReadAuthor, ReadFault, Crash, ReadDiary
<1>9. ASSUME NEW w \in Workers, NEW d \in Diaries, Claim(w, d)
      PROVE  UNCHANGED Promise!promiseVars
  BY <1>9 DEF Claim, Claimable, TypeOK, Row
<1>10. ASSUME NEW w \in Workers, Push(w) PROVE Promise!Write(cur[w])
  <2>1. cur[w] \in Diaries /\ cur[w] \in batch[w]
    BY <1>10 DEF Push, TypeOK, InHand, OutboxInv, ClaimsHeld
  <2>2. ~Settled(cur[w])
    BY <2>1 DEF OutboxInv, ClaimsHeld
  <2> QED BY <1>10, <2>1, <2>2 DEF Push, Promise!Write, TypeOK
<1>11. ASSUME NEW w \in Workers, PushSwallowed(w)
       PROVE  UNCHANGED Promise!promiseVars
  <2>1. cur[w] \in Diaries /\ cur[w] \in batch[w]
    BY <1>11 DEF PushSwallowed, TypeOK, InHand, OutboxInv, ClaimsHeld
  <2>2. ~Settled(cur[w])
    BY <2>1 DEF OutboxInv, ClaimsHeld
  <2> QED BY <1>11, <2>1, <2>2 DEF PushSwallowed
<1>12. ASSUME NEW w \in Workers, Finish(w)
       PROVE  Promise!Settle(cur[w]) \/ UNCHANGED Promise!promiseVars
  <2>1. cur[w] \in Diaries /\ cur[w] \in batch[w]
    BY <1>12 DEF Finish, TypeOK, InHand, OutboxInv, ClaimsHeld
  <2>2. CASE Untouched(cur[w]) /\ cur[w] \notin dropped
    <3>1. Current(cur[w], index[cur[w]])
      BY <1>12, <2>1, <2>2 DEF Finish, InHand, OutboxInv, ReadsFresh
    <3> QED BY <1>12, <2>1, <2>2, <3>1
            DEF Finish, Advance, Promise!Settle, Current, Untouched, TypeOK, Row
  <2>3. CASE ~(Untouched(cur[w]) /\ cur[w] \notin dropped)
    BY <1>12, <2>1, <2>3
    DEF Finish, Advance, Untouched, TypeOK, Row, OutboxInv, ClaimsHeld
  <2> QED BY <2>2, <2>3
<1>13. ASSUME NEW w \in Workers, Retry(w) PROVE UNCHANGED Promise!promiseVars
  <2>1. cur[w] \in Diaries /\ cur[w] \in batch[w]
    BY <1>13 DEF Retry, TypeOK, InHand, OutboxInv, ClaimsHeld
  <2>2. row[cur[w]].status \in {"pending", "processing"}
    BY <2>1 DEF OutboxInv, ClaimsHeld
  <2> QED BY <1>13, <2>1, <2>2 DEF Retry, Advance, TypeOK, Row
<1>14. CASE UNCHANGED vars
  BY <1>14 DEF vars
<1>15. ASSUME NEW w \in Workers, InHand(w) PROVE cur[w] \in Diaries
  BY <1>15 DEF TypeOK
<1>16. ASSUME ApiStep
       PROVE  Promise!PromiseNext \/ UNCHANGED Promise!promiseVars
  <2> HIDE DEF Promise!promiseVars, Dirty, Settled, OthersUnchanged, banVars,
               workerVars
  <2>1. CASE \E d \in Diaries : SaveDiary(d)
    BY <2>1, <1>1
  <2>2. CASE \E d \in Diaries : Enqueue(d)
    BY <2>2, <1>2
  <2>3. CASE \E d \in Diaries : LoseEnqueue(d)
    BY <2>3, <1>3
  <2>4. CASE \E d \in Diaries : Unlist(d)
    BY <2>4, <1>4
  <2>5. CASE \E d \in Diaries : Relist(d)
    BY <2>5, <1>5
  <2>6. CASE \E d \in Diaries : TimePasses(d)
    BY <2>6, <1>6
  <2>7. CASE \E a \in Authors : Ban(a) \/ Unban(a)
    BY <2>7, <1>7
  <2> QED BY <1>16, <2>1, <2>2, <2>3, <2>4, <2>5, <2>6, <2>7 DEF ApiStep
<1>17. ASSUME NEW w \in Workers, WorkerStep(w)
       PROVE  Promise!PromiseNext \/ UNCHANGED Promise!promiseVars
  <2> HIDE DEF Promise!promiseVars, Dirty, Settled, OthersUnchanged, banVars,
               workerVars
  <2>1. ASSUME pc[w] \in {"push", "finish"} PROVE cur[w] \in Diaries
    BY <2>1, <1>15 DEF InHand
  <2>2. CASE Push(w)
    <3>1. cur[w] \in Diaries
      BY <2>1, <2>2 DEF Push
    <3> QED BY <2>2, <3>1, <1>10
  <2>3. CASE Finish(w)
    <3>1. cur[w] \in Diaries
      BY <2>1, <2>3 DEF Finish
    <3> QED BY <2>3, <3>1, <1>12
  <2>4. CASE \E d \in Diaries : Claim(w, d)
    BY <2>4, <1>9
  <2>5. CASE Retry(w)
    BY <2>5, <1>13
  <2>6. CASE \/ Begin(w) \/ StopClaiming(w) \/ ReadAuthor(w)
             \/ \E d \in Diaries : ReadDiary(w, d)
    BY <2>6, <1>8
  <2> QED BY <1>17, <2>2, <2>3, <2>4, <2>5, <2>6 DEF WorkerStep
<1> HIDE DEF Promise!promiseVars, Dirty, Settled, OthersUnchanged, banVars,
             workerVars
<1> QED
  BY <1>8, <1>11, <1>14, <1>16, <1>17 DEF Next

\* While one worker is active, the outbox implements the promise to the
\* readers of the index: a diary is only ever declared clean when its entry is
\* absent or up to date, and a clean entry is not rewritten.
THEOREM OutboxKeepsPromise == ASSUME OneWorker PROVE Spec => KeepsPromise
<1>1. TypeOK /\ OutboxInv /\ [Next]_vars
        => [Promise!PromiseNext]_(Promise!promiseVars)
  BY PromiseStep
<1> QED
  BY <1>1, PromiseStart, OutboxTypeCorrect, OutboxInvariant, PTL
  DEF Spec, KeepsPromise, Promise!PromiseSpec

=============================================================================
