------------------------ MODULE SocialCountersProofs ------------------------
(* The maintenance lease, the turns of toggles, the types of the variables *)
(* and the balance of the counters, for any number of users, diaries,      *)
(* requests, runners and faults.                                           *)
EXTENDS SocialCounters, FiniteSetTheorems, TLAPS

\* At the start nobody works.
LEMMA LeaseInit == Init => LeaseInv
BY DEF Init, LeaseInv, Jobs

\* The steps of requests leave the lease and the runners' progress alone.
LEMMA RequestsKeepLease ==
    ASSUME \/ \E h \in Handlers, r \in Rows : Toggle(h, r)
           \/ \E h \in Handlers, x \in Docs : Erase(h, x)
           \/ \E h \in Handlers : RequestStep(h) \/ Evict(h) \/ Crash(h)
    PROVE  UNCHANGED <<lease, overran, job>>
<1> USE DEF leaseVars, jobVars
<1>1. CASE \E h \in Handlers, r \in Rows : Toggle(h, r)
  BY <1>1 DEF Toggle
<1>2. CASE \E h \in Handlers, x \in Docs : Erase(h, x)
  BY <1>2 DEF Erase
<1>3. ASSUME NEW h \in Handlers, RequestStep(h)
      PROVE  UNCHANGED <<lease, overran, job>>
  BY <1>3 DEF RequestStep, Enter, Unlink, Link, Bump, EraseDoc, EraseRows
<1>4. ASSUME NEW h \in Handlers, Evict(h) \/ Crash(h)
      PROVE  UNCHANGED <<lease, overran, job>>
  BY <1>4 DEF Evict, Crash
<1> QED BY <1>1, <1>2, <1>3, <1>4

\* Every step keeps the lease with who works.
LEMMA LeaseStep == LeaseInv /\ [Next]_vars => LeaseInv'
<1> SUFFICES ASSUME LeaseInv, [Next]_vars
             PROVE  LeaseInv'
  OBVIOUS
<1> USE DEF LeaseInv, Jobs
<1>1. ASSUME UNCHANGED <<lease, overran, job>> PROVE LeaseInv'
  BY <1>1
<1>2. ASSUME NEW j \in Runners, StartCleanup(j) PROVE LeaseInv'
  BY <1>2, CounterConstants DEF StartCleanup
\* A runner in the middle of its job stays in it.
<1>3. ASSUME NEW j \in Runners, UNCHANGED <<lease, overran>>,
             job[j] # "idle",
             \E s \in Jobs : job' = [job EXCEPT ![j] = s]
      PROVE  LeaseInv'
  BY <1>3
<1>4. ASSUME NEW j \in Runners, NEW k \in Kinds, Sweep(j, k) PROVE LeaseInv'
  BY <1>4, <1>3 DEF Sweep, leaseVars
<1>5. ASSUME NEW j \in Runners, Purge(j) PROVE LeaseInv'
  BY <1>5, <1>3 DEF Purge, leaseVars
<1>6. ASSUME NEW j \in Runners, Count(j) PROVE LeaseInv'
  BY <1>6, <1>3 DEF Count, leaseVars
<1>7. ASSUME NEW j \in Runners, NEW x \in Docs, Store(j, x) PROVE LeaseInv'
  BY <1>7, <1>3 DEF Store, leaseVars
<1>8. ASSUME NEW j \in Runners, Release(j) PROVE LeaseInv'
  BY <1>8 DEF Release
<1>9. ASSUME NEW j \in Runners, CleanupFails(j) PROVE LeaseInv'
  BY <1>9 DEF CleanupFails
<1>10. CASE LeaseRunsOut \/ LeaseLapses
  BY <1>10, CounterConstants DEF LeaseRunsOut, LeaseLapses, jobVars
<1>11. CASE UNCHANGED vars
  BY <1>11, <1>1 DEF vars, leaseVars, jobVars
<1> HIDE DEF LeaseInv, Jobs
<1>12. ASSUME NEW j \in Runners, CleanupStep(j) PROVE LeaseInv'
  BY <1>12, <1>2, <1>4, <1>5, <1>6, <1>7, <1>8 DEF CleanupStep
<1> QED
  BY <1>1, <1>9, <1>10, <1>11, <1>12, RequestsKeepLease DEF Next

\* However many runners there are and however late they release, two runners at
\* work at once means that one outlived its lease or ran without one.
THEOREM CleanupLeaseExclusive == Spec => []LeaseExclusive
<1>1. LeaseInv => LeaseExclusive
  BY DEF LeaseInv, LeaseExclusive
<1> QED BY <1>1, LeaseInit, LeaseStep, PTL DEF Spec

-----------------------------------------------------------------------------
(* Toggles of one row.                                                      *)

Working(h, r) == on[h] = r /\ at[h] \in {"delete", "insert", "bump"}

\* One toggle of r works at a time; clicked has been turned when it enters, and rows follow
\* in its delete or its insert.
Turns(r) ==
    /\ \A h, k \in Handlers : Working(h, r) /\ Working(k, r) => h = k
    /\ (\A h \in Handlers : ~Working(h, r)) => (r \in rows <=> r \in clicked)
    /\ \A h \in Handlers :
          /\ Working(h, r) /\ at[h] = "delete" => (r \in rows <=> r \notin clicked)
          /\ Working(h, r) /\ at[h] = "insert" => r \notin rows /\ r \in clicked
          /\ Working(h, r) /\ at[h] = "bump" => (r \in rows <=> r \in clicked)

TurnsInv ==
    /\ at \in [Handlers -> Steps] /\ DOMAIN on = Handlers
    /\ on = [h \in Handlers |-> on[h]]
    /\ \A r \in Rows \ broken : Turns(r)

\* Nothing has been toggled yet.
LEMMA TurnsInit == Init => TurnsInv
BY DEF Init, TurnsInv, Turns, Working, Steps

\* Who enters beside another leaves the row broken; deletions and sweeps break what they
\* take.
LEMMA TurnsStep == TurnsInv /\ [Next]_vars => TurnsInv'
<1> SUFFICES ASSUME TurnsInv, [Next]_vars
             PROVE  TurnsInv'
  OBVIOUS
<1> USE DEF TurnsInv, Turns, Working, Steps, rowVars, handlerVars, End
<1>1. ASSUME NEW h \in Handlers, NEW r \in Rows, Toggle(h, r) PROVE TurnsInv'
  BY <1>1 DEF Toggle
<1>2. ASSUME NEW h \in Handlers, NEW x \in Docs, Erase(h, x) PROVE TurnsInv'
  BY <1>2 DEF Erase
<1>3. ASSUME NEW h \in Handlers, Enter(h) PROVE TurnsInv'
  BY <1>3 DEF Enter, Rivals, LockFree
<1>4. ASSUME NEW h \in Handlers, Unlink(h) PROVE TurnsInv'
  BY <1>4 DEF Unlink
<1>5. ASSUME NEW h \in Handlers, Link(h) PROVE TurnsInv'
  BY <1>5 DEF Link
<1>6. ASSUME NEW h \in Handlers, Bump(h) PROVE TurnsInv'
  BY <1>6 DEF Bump
<1>7. ASSUME NEW h \in Handlers, EraseDoc(h) PROVE TurnsInv'
  BY <1>7 DEF EraseDoc
<1>8. ASSUME NEW h \in Handlers, NEW k \in Kinds, EraseRows(h, k) PROVE TurnsInv'
  BY <1>8 DEF EraseRows
<1>9. ASSUME NEW h \in Handlers, Evict(h) PROVE TurnsInv'
  BY <1>9 DEF Evict
<1>10. ASSUME NEW h \in Handlers, Crash(h) PROVE TurnsInv'
  <2>1. CASE at[h] = "erase"
    BY <1>10, <2>1 DEF Crash
  \* The row of a toggle that dies half way is broken; it worked on no other.
  <2>2. CASE at[h] # "erase"
    <3>1. /\ broken' = broken \cup {on[h]}
          /\ at' = [at EXCEPT ![h] = "idle"]
          /\ rows' = rows /\ clicked' = clicked
          /\ on' = [on EXCEPT ![h] = Nobody] \/ on' = on
      BY <1>10, <2>2 DEF Crash
    <3>2. ASSUME NEW r \in Rows \ broken' PROVE Turns(r)'
      <4>1. r \in Rows \ broken /\ on[h] # r
        BY <3>1, <3>2
      <4>2. \A k \in Handlers : Working(k, r)' <=> Working(k, r)
        BY <3>1, <4>1
      <4>3. \A k \in Handlers : Working(k, r) => at'[k] = at[k]
        BY <3>1, <4>1
      <4> QED BY <3>1, <4>1, <4>2, <4>3
    <3> QED BY <3>1, <3>2
  <2> QED BY <2>1, <2>2
<1>11. ASSUME NEW j \in Runners, Purge(j) PROVE TurnsInv'
  BY <1>11 DEF Purge
<1>12. ASSUME UNCHANGED <<rowVars, handlerVars>> PROVE TurnsInv'
  BY <1>12
<1>13. ASSUME NEW j \in Runners, CleanupStep(j) PROVE TurnsInv'
  <2>1. Purge(j) \/ UNCHANGED <<rowVars, handlerVars>>
    BY <1>13 DEF CleanupStep, StartCleanup, Count, Release, Sweep, Store
  <2> QED BY <2>1, <1>11, <1>12
<1>14. ASSUME (\E j \in Runners : CleanupFails(j)) \/ LeaseRunsOut \/ LeaseLapses \/ UNCHANGED vars
       PROVE  TurnsInv'
  <2>1. UNCHANGED <<rowVars, handlerVars>>
    BY <1>14 DEF CleanupFails, LeaseRunsOut, LeaseLapses, vars
  <2> QED BY <2>1, <1>12
<1> HIDE DEF TurnsInv
<1>15. ASSUME NEW h \in Handlers, RequestStep(h) PROVE TurnsInv'
  BY <1>15, <1>3, <1>4, <1>5, <1>6, <1>7, <1>8 DEF RequestStep
<1> QED
  BY <1>1, <1>2, <1>9, <1>10, <1>13, <1>14, <1>15 DEF Next

\* When no toggle is at work, a row is there exactly if it was toggled an odd number of
\* times, but for the rows that were broken: for any users, handlers and processes.
THEOREM RowsFollowClicks == Spec => []TogglesTakeTurns
<1>1. TurnsInv => TogglesTakeTurns
  BY DEF TurnsInv, Turns, Working, TogglesTakeTurns, Steps
<1> QED BY <1>1, TurnsInit, TurnsStep, PTL DEF Spec

-----------------------------------------------------------------------------
(* Types.                                                                   *)

\* A toggle updates one counter, or two different ones.
LEMMA BumpsShape ==
    ASSUME NEW r \in Rows
    PROVE  \/ \E c \in Counters : Bumps(r) = <<c>>
           \/ \E c, d \in Counters : c # d /\ Bumps(r) = <<c, d>>
<1>1. /\ r.to \in Docs /\ r.by \in Docs /\ r.kind \in {"like", "bookmark", "follow"}
  BY CounterConstants DEF Rows, Docs
<1>2. \A x \in Docs, n \in Names : <<n, x>> \in Counters
  BY DEF Counters
<1>3. CASE r.kind = "like"
  BY <1>1, <1>2, <1>3 DEF Bumps, Names
<1>4. CASE r.kind = "bookmark"
  BY <1>1, <1>2, <1>4 DEF Bumps, Names
<1>5. CASE r.kind = "follow"
  <2>1. Bumps(r) = <<<<"follower_count", r.to>>, <<"following_count", r.by>>>>
    BY <1>5 DEF Bumps
  <2>2. <<"follower_count", r.to>> # <<"following_count", r.by>>
    OBVIOUS
  <2> QED BY <1>1, <1>2, <2>1, <2>2 DEF Names
<1> QED BY <1>1, <1>3, <1>4, <1>5

\* TypeOK in four parts, with what the handlers have left to send.
DataTyped ==
    /\ docs \subseteq Docs /\ rows \subseteq Rows /\ clicked \subseteq Rows
    /\ broken \subseteq Rows /\ drift \subseteq Counters
    /\ stats \in [Counters -> Int]
    /\ used \in [{"request", "fault"} -> Nat]

PlaceTyped ==
    /\ at \in [Handlers -> Steps]
    /\ \A h \in Handlers : CASE at[h] = "idle" -> on[h] = Nobody
                             [] at[h] = "erase" -> on[h] \in Docs
                             [] OTHER -> on[h] \in Rows
    /\ on = [h \in Handlers |-> on[h]]
    /\ erase \in [Handlers -> SUBSET Kinds]
    /\ evicted \subseteq Handlers

TodoTyped ==
    /\ at \in [Handlers -> Steps]
    /\ todo = [h \in Handlers |-> todo[h]]
    /\ sign \in [Handlers -> {-1, 1}]
    /\ \A h \in Handlers :
          /\ at[h] # "bump" => todo[h] = <<>> /\ sign[h] = 1
          /\ at[h] = "bump" => \/ \E c \in Counters : todo[h] = <<c>>
                               \/ \E c, d \in Counters : c # d /\ todo[h] = <<c, d>>

JobsTyped ==
    /\ lease \in Runners \cup {Nobody} /\ overran \subseteq Runners
    /\ job \in [Runners -> Jobs]
    /\ kinds \in [Runners -> SUBSET Kinds]
    /\ batch \in [Runners -> SUBSET Rows]
    /\ snap \in [Runners -> [Counters -> Nat]]
    /\ left \in [Runners -> SUBSET Counters]
    /\ stale \in [Runners -> SUBSET Counters]

Typed == DataTyped /\ PlaceTyped /\ TodoTyped /\ JobsTyped

\* At the start everything has its type.
LEMMA TypedInit == Init => Typed
<1> SUFFICES ASSUME Init PROVE Typed
  OBVIOUS
<1>1. Zeros \in [Counters -> Int] /\ Zeros \in [Counters -> Nat]
  BY DEF Zeros
<1>2. DataTyped
  BY <1>1 DEF Init, DataTyped
<1>3. PlaceTyped
  BY DEF Init, PlaceTyped, Steps
<1>4. TodoTyped
  BY DEF Init, TodoTyped, Steps
<1>5. JobsTyped
  BY <1>1 DEF Init, JobsTyped, Jobs
<1> QED BY <1>2, <1>3, <1>4, <1>5 DEF Typed

\* Typed is TypeOK, and more.
LEMMA TypedIsTypeOK == Typed => TypeOK
<1> SUFFICES ASSUME Typed PROVE TypeOK
  OBVIOUS
<1>1. ASSUME NEW h \in Handlers PROVE todo[h] \in Seq(Counters)
  <2>1. CASE todo[h] = <<>>
    BY <2>1
  <2>2. ASSUME NEW c \in Counters, todo[h] = <<c>> PROVE todo[h] \in Seq(Counters)
    BY <2>2
  <2>3. ASSUME NEW c \in Counters, NEW d \in Counters, todo[h] = <<c, d>>
        PROVE  todo[h] \in Seq(Counters)
    BY <2>3
  <2> QED BY <2>1, <2>2, <2>3 DEF Typed, TodoTyped
<1>2. todo \in [Handlers -> Seq(Counters)]
  BY <1>1 DEF Typed, TodoTyped
<1> QED BY <1>2 DEF TypeOK, Typed, DataTyped, PlaceTyped, TodoTyped, JobsTyped

\* Counts are natural numbers.
LEMMA CountIsNat ==
    ASSUME IsFiniteSet(Rows), NEW R, R \subseteq Rows, NEW c
    PROVE  IsFiniteSet({r \in R : CountsIn(r, c)}) /\ CountOf(R, c) \in Nat
<1>1. {r \in R : CountsIn(r, c)} \subseteq Rows
  OBVIOUS
<1> QED BY <1>1, FS_Subset, FS_CardinalityType DEF CountOf

\* A handler at a bump sends one more, of its list of one or two.
LEMMA BumpShape ==
    ASSUME NEW h \in Handlers, Typed, Bump(h)
    PROVE  /\ Head(todo[h]) \in Counters /\ sign[h] \in {-1, 1} /\ at[h] = "bump"
           /\ \/ todo[h] = <<Head(todo[h])>>
              \/ \E d \in Counters : d # Head(todo[h]) /\ todo[h] = <<Head(todo[h]), d>>
<1>1. at[h] = "bump" /\ TodoTyped
  BY DEF Bump, Typed
<1>2. ASSUME NEW c \in Counters, todo[h] = <<c>> PROVE Head(todo[h]) = c
  BY <1>2
<1>3. ASSUME NEW c \in Counters, NEW d \in Counters, todo[h] = <<c, d>> PROVE Head(todo[h]) = c
  BY <1>3
<1>4. sign[h] \in {-1, 1}
  BY <1>1 DEF TodoTyped
<1>5. \/ \E c \in Counters : todo[h] = <<c>>
      \/ \E c, d \in Counters : c # d /\ todo[h] = <<c, d>>
  BY <1>1 DEF TodoTyped
<1> QED BY <1>1, <1>2, <1>3, <1>4, <1>5

\* Every step keeps the data typed.
LEMMA DataTypedStep ==
    ASSUME Typed, [Next]_vars
    PROVE  DataTyped'
<1>1. DataTyped /\ PlaceTyped /\ JobsTyped
  BY DEF Typed
<1> USE DEF DataTyped, rowVars, Request, Fault
<1>2. ASSUME NEW h \in Handlers, at[h] \notin {"idle", "erase"} PROVE on[h] \in Rows
  BY <1>1, <1>2 DEF PlaceTyped
<1>3. ASSUME NEW h \in Handlers, Enter(h) PROVE DataTyped'
  BY <1>1, <1>2, <1>3 DEF Enter
<1>4. ASSUME NEW h \in Handlers, Unlink(h) PROVE DataTyped'
  BY <1>1, <1>2, <1>4 DEF Unlink
<1>5. ASSUME NEW h \in Handlers, Link(h) PROVE DataTyped'
  BY <1>1, <1>2, <1>5 DEF Link
<1>6. ASSUME NEW h \in Handlers, Bump(h) PROVE DataTyped'
  <2>1. Head(todo[h]) \in Counters /\ sign[h] \in {-1, 1}
    BY <1>6, BumpShape
  <2>2. stats' = stats \/ stats' = [stats EXCEPT ![Head(todo[h])] = @ + sign[h]]
    BY <1>6 DEF Bump
  <2>3. stats' \in [Counters -> Int]
    BY <1>1, <2>1, <2>2
  <2> QED BY <1>1, <1>6, <2>3 DEF Bump
<1>7. ASSUME NEW h \in Handlers, EraseDoc(h) PROVE DataTyped'
  BY <1>1, <1>7 DEF EraseDoc
<1>8. ASSUME NEW h \in Handlers, NEW k \in Kinds, EraseRows(h, k) PROVE DataTyped'
  BY <1>1, <1>8 DEF EraseRows, Touched
<1>9. ASSUME NEW h \in Handlers, Crash(h) PROVE DataTyped'
  BY <1>1, <1>2, <1>9 DEF Crash
<1>10. ASSUME NEW j \in Runners, Purge(j) PROVE DataTyped'
  BY <1>1, <1>10 DEF Purge, Touched
<1>11. ASSUME NEW j \in Runners, NEW x \in Docs, Store(j, x) PROVE DataTyped'
  <2>1. stats' \in [Counters -> Int] /\ drift' \subseteq Counters /\ UNCHANGED <<rowVars, used>>
    BY <1>1, <1>11 DEF Store, StoreSets, JobsTyped
  <2> QED BY <1>1, <2>1
<1>12. ASSUME UNCHANGED <<rowVars, stats, drift>>,
              used' = used \/ Request \/ Fault
       PROVE  DataTyped'
  BY <1>1, <1>12
<1>13. ASSUME NEW h \in Handlers,
              \/ Evict(h)
              \/ \E r \in Rows : Toggle(h, r)
              \/ \E x \in Docs : Erase(h, x)
       PROVE  DataTyped'
  BY <1>12, <1>13 DEF Evict, Toggle, Erase
<1>14. ASSUME NEW j \in Runners,
              \/ StartCleanup(j) \/ Count(j) \/ Release(j) \/ CleanupFails(j)
              \/ \E k \in Kinds : Sweep(j, k)
       PROVE  DataTyped'
  BY <1>12, <1>14 DEF StartCleanup, Count, Release, CleanupFails, Sweep
<1>15. CASE LeaseRunsOut \/ LeaseLapses \/ UNCHANGED vars
  BY <1>12, <1>15 DEF LeaseRunsOut, LeaseLapses, vars
<1> HIDE DEF DataTyped
<1> QED
  BY <1>3, <1>4, <1>5, <1>6, <1>7, <1>8, <1>9, <1>10, <1>11, <1>13, <1>14, <1>15
     DEF Next, RequestStep, CleanupStep

\* Every step keeps handlers at a place that fits their row or document.
LEMMA PlaceTypedStep ==
    ASSUME Typed, [Next]_vars
    PROVE  PlaceTyped'
<1>1. PlaceTyped
  BY DEF Typed
<1> USE DEF PlaceTyped, Steps, End, handlerVars
<1>2. ASSUME NEW h \in Handlers,
             \/ \E r \in Rows : Toggle(h, r)
             \/ \E x \in Docs : Erase(h, x)
             \/ Evict(h)
      PROVE  PlaceTyped'
  BY <1>1, <1>2 DEF Toggle, Erase, Evict
<1>3. ASSUME NEW h \in Handlers, Enter(h) \/ Unlink(h) \/ Link(h) PROVE PlaceTyped'
  BY <1>1, <1>3 DEF Enter, Unlink, Link
<1>4. ASSUME NEW h \in Handlers, Bump(h) \/ EraseDoc(h) \/ Crash(h) PROVE PlaceTyped'
  BY <1>1, <1>4 DEF Bump, EraseDoc, Crash
<1>5. ASSUME NEW h \in Handlers, NEW k \in Kinds, EraseRows(h, k) PROVE PlaceTyped'
  BY <1>1, <1>5 DEF EraseRows
<1>6. ASSUME UNCHANGED handlerVars PROVE PlaceTyped'
  BY <1>1, <1>6
<1>7. ASSUME NEW j \in Runners, CleanupStep(j) \/ CleanupFails(j) PROVE PlaceTyped'
  BY <1>6, <1>7 DEF CleanupStep, CleanupFails, StartCleanup, Sweep, Purge, Count, Store, Release
<1>8. CASE LeaseRunsOut \/ LeaseLapses \/ UNCHANGED vars
  BY <1>6, <1>8 DEF LeaseRunsOut, LeaseLapses, vars
<1> HIDE DEF PlaceTyped
<1> QED
  BY <1>2, <1>3, <1>4, <1>5, <1>7, <1>8 DEF Next, RequestStep

\* Every step keeps what handlers have to send typed.
LEMMA TodoTypedStep ==
    ASSUME Typed, [Next]_vars
    PROVE  TodoTyped'
<1>1. TodoTyped
  BY DEF Typed
<1> USE DEF TodoTyped, Steps, handlerVars
<1>2. ASSUME UNCHANGED <<todo, sign>>, NEW h \in Handlers, at[h] # "bump",
             NEW s \in Steps \ {"bump"}, at' = [at EXCEPT ![h] = s]
      PROVE  TodoTyped'
  BY <1>1, <1>2
<1>3. ASSUME NEW h \in Handlers, End(h) PROVE TodoTyped'
  BY <1>1, <1>3 DEF End
<1>4. ASSUME NEW h \in Handlers, NEW r \in Rows, at' = [at EXCEPT ![h] = "bump"],
             todo' = [todo EXCEPT ![h] = Bumps(r)],
             sign' = [sign EXCEPT ![h] = -1] \/ sign' = sign
      PROVE  TodoTyped'
  BY <1>1, <1>4, BumpsShape
<1>5. ASSUME NEW h \in Handlers, at[h] \notin {"idle", "erase"} PROVE on[h] \in Rows
  BY <1>5 DEF Typed, PlaceTyped
<1>6. ASSUME UNCHANGED <<at, todo, sign>> PROVE TodoTyped'
  BY <1>1, <1>6
<1>7. ASSUME NEW h \in Handlers, Bump(h) PROVE TodoTyped'
  <2>1. CASE Len(todo[h]) = 1
    BY <1>3, <1>7, <2>1 DEF Bump
  <2>2. CASE Len(todo[h]) # 1
    <3>0. PICK d \in Counters : todo[h] = <<Head(todo[h]), d>>
      BY <1>7, <2>2, BumpShape
    <3>1. Tail(todo[h]) = <<d>>
      <4>1. PICK c \in Counters : todo[h] = <<c, d>>
        BY <1>7, <3>0, BumpShape
      <4> QED BY <4>1
    <3>2. at' = at /\ sign' = sign /\ todo' = [todo EXCEPT ![h] = Tail(@)] /\ at[h] = "bump"
      BY <1>7, <2>2 DEF Bump
    <3>3. todo'[h] = <<d>> /\ \A k \in Handlers \ {h} : todo'[k] = todo[k]
      BY <1>1, <3>1, <3>2
    <3> QED BY <1>1, <3>2, <3>3
  <2> QED BY <2>1, <2>2
<1> HIDE DEF TodoTyped
<1>8. ASSUME NEW h \in Handlers, Enter(h) \/ (\E r \in Rows : Toggle(h, r))
                                 \/ (\E x \in Docs : Erase(h, x))
      PROVE  TodoTyped'
  BY <1>2, <1>8 DEF Toggle, Erase, Enter
<1>9. ASSUME NEW h \in Handlers, Unlink(h) PROVE TodoTyped'
  BY <1>2, <1>4, <1>5, <1>9 DEF Unlink
<1>10. ASSUME NEW h \in Handlers, Link(h) PROVE TodoTyped'
  BY <1>3, <1>4, <1>5, <1>10 DEF Link
<1>11. ASSUME NEW h \in Handlers, EraseDoc(h) \/ Crash(h) PROVE TodoTyped'
  BY <1>3, <1>11 DEF EraseDoc, Crash
<1>12. ASSUME NEW h \in Handlers, Evict(h) \/ \E k \in Kinds : EraseRows(h, k) PROVE TodoTyped'
  BY <1>6, <1>12 DEF Evict, EraseRows
<1>13. ASSUME NEW j \in Runners, CleanupStep(j) \/ CleanupFails(j) PROVE TodoTyped'
  BY <1>6, <1>13 DEF CleanupStep, CleanupFails, StartCleanup, Sweep, Purge, Count, Store, Release
<1>14. CASE LeaseRunsOut \/ LeaseLapses \/ UNCHANGED vars
  BY <1>6, <1>14 DEF LeaseRunsOut, LeaseLapses, vars
<1> QED
  BY <1>7, <1>8, <1>9, <1>10, <1>11, <1>12, <1>13, <1>14 DEF Next, RequestStep

\* Every step keeps the runners typed.
LEMMA JobsTypedStep ==
    ASSUME IsFiniteSet(Rows), Typed, [Next]_vars
    PROVE  JobsTyped'
<1>1. DataTyped /\ JobsTyped
  BY DEF Typed
<1> USE DEF JobsTyped, Jobs, jobVars, leaseVars
<1>2. ASSUME UNCHANGED <<leaseVars, jobVars>>, stale' = stale \/ \E R : GoStale(R)
      PROVE  JobsTyped'
  BY <1>1, <1>2 DEF GoStale
<1>3. ASSUME NEW h \in Handlers,
             \/ \E r \in Rows : Toggle(h, r)
             \/ \E x \in Docs : Erase(h, x)
             \/ Enter(h) \/ Evict(h) \/ Bump(h) \/ EraseDoc(h) \/ Crash(h)
      PROVE  JobsTyped'
  BY <1>2, <1>3 DEF Toggle, Erase, Enter, Evict, Bump, EraseDoc, Crash
<1>4. ASSUME NEW h \in Handlers, Unlink(h) \/ Link(h) \/ \E k \in Kinds : EraseRows(h, k)
      PROVE  JobsTyped'
  BY <1>2, <1>4 DEF Unlink, Link, EraseRows
<1>5. ASSUME NEW j \in Runners, StartCleanup(j) PROVE JobsTyped'
  BY <1>1, <1>5 DEF StartCleanup
<1>6. ASSUME NEW j \in Runners, NEW k \in Kinds, Sweep(j, k) PROVE JobsTyped'
  BY <1>1, <1>6 DEF Sweep, DataTyped
<1>7. ASSUME NEW j \in Runners, Purge(j) PROVE JobsTyped'
  <2>1. stale' \in [Runners -> SUBSET Counters]
    BY <1>1, <1>7 DEF Purge, GoStale
  <2>2. /\ job' \in [Runners -> Jobs] /\ batch' \in [Runners -> SUBSET Rows]
        /\ UNCHANGED <<leaseVars, kinds, snap, left>>
    BY <1>1, <1>7 DEF Purge
  <2> QED BY <1>1, <2>1, <2>2
<1>8. ASSUME NEW j \in Runners, Count(j) PROVE JobsTyped'
  <2>1. \A c \in Counters : CountOf(rows, c) \in Nat
    BY <1>1, CountIsNat DEF DataTyped
  <2>2. Reconciled(job[j]) \subseteq Counters
    BY DEF Reconciled
  <2>3. CASE Reconciled(job[j]) = {}
    BY <1>1, <1>8, <2>3 DEF Count
  <2>4. CASE Reconciled(job[j]) # {}
    <3>1. [c \in Counters |-> IF c \in Reconciled(job[j]) THEN CountOf(rows, c) ELSE 0]
            \in [Counters -> Nat]
      BY <2>1
    <3>2. snap' \in [Runners -> [Counters -> Nat]]
      BY <1>1, <1>8, <2>4, <3>1 DEF Count
    <3>3. /\ left' = [left EXCEPT ![j] = Reconciled(job[j])]
          /\ stale' = [stale EXCEPT ![j] =
                         {c \in Reconciled(job[j]) : \E h \in Handlers : Owes(h, c)}]
          /\ UNCHANGED <<job, leaseVars, kinds, batch>>
      BY <1>8, <2>4 DEF Count
    <3>4. /\ left' \in [Runners -> SUBSET Counters]
          /\ stale' \in [Runners -> SUBSET Counters]
      BY <1>1, <2>2, <3>3
    <3> QED BY <1>1, <3>2, <3>3, <3>4
  <2> QED BY <2>3, <2>4
<1>9. ASSUME NEW j \in Runners, NEW x \in Docs, Store(j, x) PROVE JobsTyped'
  <2>1. /\ job' \in [Runners -> Jobs]
        /\ left' \in [Runners -> SUBSET Counters] /\ stale' \in [Runners -> SUBSET Counters]
        /\ UNCHANGED <<leaseVars, kinds, batch>>
    BY <1>1, <1>9 DEF Store
  <2>2. snap' \in [Runners -> [Counters -> Nat]]
    BY <1>1, <1>9 DEF Store, Zeros
  <2> QED BY <1>1, <2>1, <2>2
<1>10. ASSUME NEW j \in Runners, Release(j) PROVE JobsTyped'
  BY <1>1, <1>10 DEF Release
<1>11. ASSUME NEW j \in Runners, CleanupFails(j) PROVE JobsTyped'
  BY <1>1, <1>11 DEF CleanupFails, Zeros
<1>12. CASE LeaseRunsOut \/ LeaseLapses \/ UNCHANGED vars
  BY <1>1, <1>12, CounterConstants DEF LeaseRunsOut, LeaseLapses, vars
<1> HIDE DEF JobsTyped
<1> QED
  BY <1>3, <1>4, <1>5, <1>6, <1>7, <1>8, <1>9, <1>10, <1>11, <1>12
     DEF Next, RequestStep, CleanupStep

\* Every variable keeps its type, however many users, requests and runners there are.
THEOREM CountersTypeCorrect ==
    ASSUME IsFiniteSet(Rows)
    PROVE  Spec => []TypeOK
<1>1. Typed /\ [Next]_vars => Typed'
  BY DataTypedStep, PlaceTypedStep, TodoTypedStep, JobsTypedStep DEF Typed
<1> QED BY <1>1, TypedInit, TypedIsTypeOK, PTL DEF Spec

-----------------------------------------------------------------------------
(* The books.                                                               *)

Adding(c) == {h \in Handlers : sign[h] = 1 /\ Owes(h, c)}
Taking(c) == {h \in Handlers : sign[h] = -1 /\ Owes(h, c)}

\* The books balance, and a count that is still to be stored and has not gone stale is what
\* there is, with no increment on its way.
BooksInv ==
    /\ BooksBalance
    /\ \A j \in Runners : \A c \in left[j] \ stale[j] :
          /\ snap[j][c] = CountOf(rows, c)
          /\ \A h \in Handlers : ~Owes(h, c)

\* A counter nothing happened to is as balanced as before.
LEMMA SameBalance ==
    ASSUME NEW c, stats[c] + Pending(c) = CountOf(rows, c),
           stats'[c] = stats[c],
           {r \in rows' : CountsIn(r, c)} = {r \in rows : CountsIn(r, c)},
           \A h \in Handlers : Owes(h, c)' <=> Owes(h, c),
           \A h \in Handlers : Owes(h, c) => sign'[h] = sign[h]
    PROVE  stats'[c] + Pending(c)' = CountOf(rows', c)
<1>1. Pending(c)' = Pending(c)
  BY DEF Pending
<1> QED BY <1>1 DEF CountOf

\* Rows that touch no counter but those in C are added or taken.
LEMMA RowsTouch ==
    ASSUME NEW R \in SUBSET rows, NEW c \in Counters \ Touched(R), rows' = rows \ R
    PROVE  {r \in rows' : CountsIn(r, c)} = {r \in rows : CountsIn(r, c)}
BY DEF Touched

\* Steps that touch neither rows nor counters nor counts, and owe nothing new.
LEMMA QuietBooks ==
    ASSUME Typed, BooksInv, UNCHANGED <<rows, stats>>,
           docs' \subseteq docs, drift \subseteq drift',
           \A h \in Handlers, c \in Counters \ drift' : Owes(h, c)' <=> Owes(h, c),
           \A h \in Handlers, c \in Counters \ drift' : Owes(h, c) => sign'[h] = sign[h],
           \A h \in Handlers, c \in Counters : Owes(h, c)' => Owes(h, c),
           \A j \in Runners : \/ left'[j] = {}
                              \/ UNCHANGED <<left[j], stale[j], snap[j]>>
    PROVE  BooksInv'
<1>1. ASSUME NEW c \in Counters \ drift', c[2] \in docs'
      PROVE  stats'[c] + Pending(c)' = CountOf(rows', c)
  <2>1. stats[c] + Pending(c) = CountOf(rows, c)
    BY <1>1 DEF BooksInv, BooksBalance
  <2> QED BY <1>1, <2>1, SameBalance
<1>2. ASSUME NEW j \in Runners, NEW c \in left'[j] \ stale'[j]
      PROVE  snap'[j][c] = CountOf(rows', c) /\ \A h \in Handlers : ~Owes(h, c)'
  <2>1. c \in left[j] \ stale[j] /\ snap'[j] = snap[j] /\ c \in Counters
    BY <1>2 DEF Typed, JobsTyped
  <2> QED BY <2>1 DEF BooksInv
<1> QED BY <1>1, <1>2 DEF BooksInv, BooksBalance

\* Rows are taken away without an increment.
LEMMA RowsGone ==
    ASSUME Typed, BooksInv, NEW R \in SUBSET rows, rows' = rows \ R, GoStale(R),
           drift' = drift \cup Touched(R), UNCHANGED <<docs, stats, todo, sign, snap, left>>
    PROVE  BooksInv'
<1>1. ASSUME NEW h, NEW c PROVE Owes(h, c)' <=> Owes(h, c)
  BY DEF Owes
<1>2. ASSUME NEW c \in Counters \ drift', c[2] \in docs'
      PROVE  stats'[c] + Pending(c)' = CountOf(rows', c)
  <2>1. stats[c] + Pending(c) = CountOf(rows, c) /\ c \notin Touched(R)
    BY <1>2 DEF BooksInv, BooksBalance
  <2> QED BY <1>1, <2>1, SameBalance, RowsTouch
<1>3. ASSUME NEW j \in Runners, NEW c \in left'[j] \ stale'[j]
      PROVE  snap'[j][c] = CountOf(rows', c) /\ \A h \in Handlers : ~Owes(h, c)'
  <2>1. c \in left[j] \ stale[j] /\ c \in Counters \ Touched(R) /\ snap'[j][c] = snap[j][c]
    BY <1>3 DEF GoStale, Typed, JobsTyped
  <2> QED BY <1>1, <2>1, RowsTouch DEF BooksInv, CountOf
<1> QED BY <1>2, <1>3 DEF BooksInv, BooksBalance

\* What a counter counts is finite.
LEMMA BooksFinite ==
    ASSUME IsFiniteSet(Rows), IsFiniteSet(Handlers), Typed, NEW c
    PROVE  /\ IsFiniteSet(Adding(c)) /\ IsFiniteSet(Taking(c))
           /\ IsFiniteSet({r \in rows : CountsIn(r, c)})
           /\ Cardinality(Adding(c)) \in Nat /\ Cardinality(Taking(c)) \in Nat
           /\ CountOf(rows, c) \in Nat
           /\ Pending(c) = Cardinality(Adding(c)) - Cardinality(Taking(c))
<1>1. Adding(c) \subseteq Handlers /\ Taking(c) \subseteq Handlers
  BY DEF Adding, Taking
<1>2. IsFiniteSet(Adding(c)) /\ IsFiniteSet(Taking(c))
  BY <1>1, FS_Subset
<1>3. Pending(c) = Cardinality(Adding(c)) - Cardinality(Taking(c))
  BY DEF Pending, Adding, Taking
<1> QED BY <1>2, <1>3, FS_CardinalityType, CountIsNat DEF Typed, DataTyped

\* A row goes or comes, and its counters are owed the increment.
LEMMA RowToggled ==
    ASSUME IsFiniteSet(Rows), IsFiniteSet(Handlers), Typed, BooksInv, Typed',
           NEW h \in Handlers, NEW r \in Rows, at[h] # "bump",
           GoStale({r}), todo' = [todo EXCEPT ![h] = Bumps(r)],
           \/ r \in rows /\ rows' = rows \ {r} /\ sign' = [sign EXCEPT ![h] = -1]
           \/ r \notin rows /\ rows' = rows \cup {r} /\ sign' = sign,
           UNCHANGED <<docs, stats, drift, snap, left>>
    PROVE  BooksInv'
<1>1. todo[h] = <<>> /\ sign[h] = 1 /\ sign \in [Handlers -> {-1, 1}]
      /\ todo = [k \in Handlers |-> todo[k]]
  BY DEF Typed, TodoTyped
<1>2. \A c : /\ ~Owes(h, c)
             /\ Owes(h, c)' <=> CountsIn(r, c)
             /\ \A k \in Handlers \ {h} : Owes(k, c)' <=> Owes(k, c)
  <2>1. todo'[h] = Bumps(r) /\ \A k \in Handlers \ {h} : todo'[k] = todo[k]
    BY <1>1
  <2> QED BY <1>1, <2>1 DEF Owes, CountsIn
<1>3. ASSUME NEW c, ~CountsIn(r, c)
      PROVE  /\ {q \in rows' : CountsIn(q, c)} = {q \in rows : CountsIn(q, c)}
             /\ \A k \in Handlers : Owes(k, c)' <=> Owes(k, c)
             /\ \A k \in Handlers : Owes(k, c) => sign'[k] = sign[k]
  BY <1>1, <1>2, <1>3
<1>4. ASSUME NEW c \in Counters, CountsIn(r, c), stats[c] + Pending(c) = CountOf(rows, c)
      PROVE  stats'[c] + Pending(c)' = CountOf(rows', c)
  <2>1. stats'[c] = stats[c] /\ stats[c] \in Int /\ CountOf(rows, c) \in Nat
        /\ Cardinality(Adding(c)) \in Nat /\ Cardinality(Taking(c)) \in Nat
        /\ Pending(c) = Cardinality(Adding(c)) - Cardinality(Taking(c))
    BY BooksFinite DEF Typed, DataTyped
  <2>2. h \notin Adding(c) /\ h \notin Taking(c)
    BY <1>2 DEF Adding, Taking
  <2>3. Pending(c)' = Cardinality(Adding(c)') - Cardinality(Taking(c)')
    BY DEF Pending, Adding, Taking
  <2>4. CASE r \in rows /\ rows' = rows \ {r} /\ sign' = [sign EXCEPT ![h] = -1]
    <3>1. Adding(c)' = Adding(c) /\ Taking(c)' = Taking(c) \cup {h}
      BY <1>1, <1>2, <1>4, <2>4 DEF Adding, Taking
    <3>2. {q \in rows' : CountsIn(q, c)} = {q \in rows : CountsIn(q, c)} \ {r}
      BY <2>4
    <3>3. CountOf(rows', c) = CountOf(rows, c) - 1
      <4>1. r \in {q \in rows : CountsIn(q, c)} /\ IsFiniteSet({q \in rows : CountsIn(q, c)})
        BY <1>4, <2>4, BooksFinite
      <4>2. Cardinality({q \in rows : CountsIn(q, c)} \ {r})
              = Cardinality({q \in rows : CountsIn(q, c)}) - 1
        BY <4>1, FS_RemoveElement
      <4> QED BY <3>2, <4>2 DEF CountOf
    <3>4. Cardinality(Taking(c)') = Cardinality(Taking(c)) + 1
      BY <2>2, <3>1, BooksFinite, FS_AddElement
    <3> QED BY <1>4, <2>1, <2>3, <3>1, <3>3, <3>4
  <2>5. CASE r \notin rows /\ rows' = rows \cup {r} /\ sign' = sign
    <3>1. Adding(c)' = Adding(c) \cup {h} /\ Taking(c)' = Taking(c)
      BY <1>1, <1>2, <1>4, <2>5 DEF Adding, Taking
    <3>2. {q \in rows' : CountsIn(q, c)} = {q \in rows : CountsIn(q, c)} \cup {r}
      BY <1>4, <2>5
    <3>3. CountOf(rows', c) = CountOf(rows, c) + 1
      <4>1. r \notin {q \in rows : CountsIn(q, c)} /\ IsFiniteSet({q \in rows : CountsIn(q, c)})
        BY <2>5, BooksFinite
      <4> QED BY <3>2, <4>1, FS_AddElement DEF CountOf
    <3>4. Cardinality(Adding(c)') = Cardinality(Adding(c)) + 1
      BY <2>2, <3>1, BooksFinite, FS_AddElement
    <3> QED BY <1>4, <2>1, <2>3, <3>1, <3>3, <3>4
  <2> QED BY <2>4, <2>5
<1>5. ASSUME NEW c \in Counters \ drift', c[2] \in docs'
      PROVE  stats'[c] + Pending(c)' = CountOf(rows', c)
  <2>1. stats[c] + Pending(c) = CountOf(rows, c)
    BY <1>5 DEF BooksInv, BooksBalance
  <2>2. CASE CountsIn(r, c)
    BY <1>4, <2>1, <2>2
  <2>3. CASE ~CountsIn(r, c)
    BY <1>3, <2>1, <2>3, SameBalance
  <2> QED BY <2>2, <2>3
<1>6. ASSUME NEW j \in Runners, NEW c \in left'[j] \ stale'[j]
      PROVE  snap'[j][c] = CountOf(rows', c) /\ \A k \in Handlers : ~Owes(k, c)'
  <2>1. c \in left[j] \ stale[j] /\ c \in Counters /\ ~CountsIn(r, c) /\ snap'[j][c] = snap[j][c]
    BY <1>6 DEF GoStale, Touched, Typed, JobsTyped
  <2>2. snap[j][c] = CountOf(rows, c) /\ \A k \in Handlers : ~Owes(k, c)
    BY <2>1 DEF BooksInv
  <2> QED BY <1>3, <2>1, <2>2 DEF CountOf
<1> QED BY <1>5, <1>6 DEF BooksInv, BooksBalance

\* One increment is sent: it is no longer owed, and arrives if its document is there.
LEMMA BumpBooks ==
    ASSUME IsFiniteSet(Rows), IsFiniteSet(Handlers), Typed, BooksInv, Typed',
           NEW h \in Handlers, Bump(h)
    PROVE  BooksInv'
<1>0. PICK a \in Counters : a = Head(todo[h])
  BY BumpShape
<1>1. /\ sign[h] \in {-1, 1}
      /\ todo[h] = <<a>> \/ \E d \in Counters : d # a /\ todo[h] = <<a, d>>
  BY <1>0, BumpShape
<1>2. /\ sign \in [Handlers -> {-1, 1}] /\ todo = [k \in Handlers |-> todo[k]]
      /\ stats \in [Counters -> Int]
  BY DEF Typed, TodoTyped, DataTyped
<1>3. /\ Owes(h, a) /\ ~Owes(h, a)'
      /\ \A c : c # a => (Owes(h, c)' <=> Owes(h, c))
      /\ \A c : Owes(h, c)' => sign'[h] = sign[h]
  <2>1. CASE Len(todo[h]) = 1
    <3>1. todo[h] = <<a>>
      BY <1>1, <2>1
    <3>2. todo'[h] = <<>>
      BY <1>2, <2>1 DEF Bump, End
    <3> QED BY <3>1, <3>2 DEF Owes
  <2>2. CASE Len(todo[h]) # 1
    <3>1. PICK d \in Counters : d # a /\ todo[h] = <<a, d>>
      BY <1>1, <2>2
    <3>2. todo'[h] = Tail(todo[h]) /\ sign' = sign
      BY <1>2, <2>2 DEF Bump
    <3>3. todo'[h] = <<d>>
      <4>1. \A b, e : Tail(<<b, e>>) = <<e>>
        OBVIOUS
      <4> QED BY <3>1, <3>2, <4>1
    <3>4. DOMAIN todo'[h] = {1} /\ todo'[h][1] = d /\ DOMAIN todo[h] = {1, 2}
          /\ todo[h][1] = a /\ todo[h][2] = d
      BY <3>1, <3>3
    <3> QED BY <3>1, <3>2, <3>4 DEF Owes
  <2> QED BY <2>1, <2>2
<1>4. \A k \in Handlers \ {h} : /\ sign'[k] = sign[k]
                                /\ \A c : Owes(k, c)' <=> Owes(k, c)
  BY <1>2 DEF Bump, End, Owes
<1>5. /\ UNCHANGED <<docs, rows, drift, snap, left, stale>>
      /\ stats' = IF a[2] \in docs THEN [stats EXCEPT ![a] = @ + sign[h]] ELSE stats
  BY <1>0 DEF Bump, rowVars, jobVars
<1>6. ASSUME a \notin drift, a[2] \in docs
      PROVE  stats'[a] + Pending(a)' = CountOf(rows', a)
  <2>1. stats[a] + Pending(a) = CountOf(rows, a) /\ stats[a] \in Int
    BY <1>1, <1>2, <1>6 DEF BooksInv, BooksBalance
  <2>6. CountOf(rows', a) = CountOf(rows, a) /\ CountOf(rows, a) \in Nat
        /\ Cardinality(Adding(a)) \in Nat /\ Cardinality(Taking(a)) \in Nat
        /\ Pending(a) = Cardinality(Adding(a)) - Cardinality(Taking(a))
    BY <1>5, BooksFinite DEF CountOf
  <2>2. stats'[a] = stats[a] + sign[h]
    BY <1>1, <1>2, <1>5, <1>6
  <2>3. Pending(a)' = Cardinality(Adding(a)') - Cardinality(Taking(a)')
    BY DEF Pending, Adding, Taking
  <2>4. CASE sign[h] = 1
    <3>1. h \in Adding(a) /\ Adding(a)' = Adding(a) \ {h} /\ Taking(a)' = Taking(a)
      BY <1>3, <1>4, <2>4 DEF Adding, Taking
    <3>2. Cardinality(Adding(a)') = Cardinality(Adding(a)) - 1
      BY <3>1, BooksFinite, FS_RemoveElement
    <3> QED BY <2>1, <2>2, <2>3, <2>4, <2>6, <3>1, <3>2
  <2>5. CASE sign[h] = -1
    <3>1. h \in Taking(a) /\ Taking(a)' = Taking(a) \ {h} /\ Adding(a)' = Adding(a)
      BY <1>3, <1>4, <2>5 DEF Adding, Taking
    <3>2. Cardinality(Taking(a)') = Cardinality(Taking(a)) - 1
      BY <3>1, BooksFinite, FS_RemoveElement
    <3> QED BY <2>1, <2>2, <2>3, <2>5, <2>6, <3>1, <3>2
  <2> QED BY <1>1, <2>4, <2>5
<1>7. ASSUME NEW c \in Counters \ drift', c[2] \in docs', c # a
      PROVE  stats'[c] + Pending(c)' = CountOf(rows', c)
  <2>1. stats[c] + Pending(c) = CountOf(rows, c) /\ stats'[c] = stats[c]
    BY <1>2, <1>5, <1>7 DEF BooksInv, BooksBalance
  <2>2. \A k \in Handlers : /\ Owes(k, c)' <=> Owes(k, c)
                            /\ Owes(k, c) => sign'[k] = sign[k]
    BY <1>3, <1>4, <1>7
  <2>3. {r \in rows' : CountsIn(r, c)} = {r \in rows : CountsIn(r, c)}
    BY <1>5
  <2> QED BY <2>1, <2>2, <2>3, SameBalance
<1>8. \A k \in Handlers, c \in Counters : Owes(k, c)' => Owes(k, c)
  BY <1>3, <1>4
<1> QED
  <2>1. BooksBalance'
    BY <1>5, <1>6, <1>7 DEF BooksBalance
  <2>2. ASSUME NEW j \in Runners, NEW c \in left[j] \ stale[j]
        PROVE  snap[j][c] = CountOf(rows, c) /\ \A k \in Handlers : ~Owes(k, c)'
    BY <1>8, <2>2 DEF BooksInv, Typed, JobsTyped
  <2> QED BY <1>5, <2>1, <2>2 DEF BooksInv

\* A runner counts: what nobody owes anything is not stale.
LEMMA CountBooks ==
    ASSUME Typed, BooksInv, NEW j \in Runners, Count(j)
    PROVE  BooksInv'
<1>1. UNCHANGED <<docs, rows, stats, drift, todo, sign>>
  BY DEF Count, rowVars, handlerVars
<1>2. BooksBalance'
  BY <1>1 DEF BooksInv, BooksBalance, Pending, Owes
<1>3. ASSUME NEW i \in Runners, NEW c \in left'[i] \ stale'[i]
      PROVE  snap'[i][c] = CountOf(rows, c) /\ \A h \in Handlers : ~Owes(h, c)
  <2>1. CASE i # j \/ Reconciled(job[j]) = {}
    <3>1. UNCHANGED <<left[i], stale[i], snap[i]>>
      BY <2>1 DEF Count, Typed, JobsTyped
    <3> QED BY <1>3, <3>1 DEF BooksInv
  <2>2. CASE i = j /\ Reconciled(job[j]) # {}
    <3>1. Reconciled(job[j]) \subseteq Counters
      BY DEF Reconciled
    <3>2. /\ left'[j] = Reconciled(job[j])
          /\ snap'[j] = [d \in Counters |->
                           IF d \in Reconciled(job[j]) THEN CountOf(rows, d) ELSE 0]
          /\ stale'[j] = {d \in Reconciled(job[j]) : \E h \in Handlers : Owes(h, d)}
      BY <2>2 DEF Count, Typed, JobsTyped
    <3> QED BY <1>3, <2>2, <3>1, <3>2
  <2> QED BY <2>1, <2>2
<1> QED BY <1>1, <1>2, <1>3 DEF BooksInv, Owes

\* A runner stores the counters of one document: those that went stale may now be off.
LEMMA StoreBooks ==
    ASSUME Typed, BooksInv, NEW j \in Runners, NEW x \in Docs, Store(j, x)
    PROVE  BooksInv'
<1> DEFINE cs == {c \in left[j] : c[2] = x}
<1>1. /\ UNCHANGED <<docs, rows, todo, sign>>
      /\ stats' = [c \in Counters |-> IF c \in cs /\ x \in docs THEN snap[j][c] ELSE stats[c]]
      /\ drift' = (drift \ (cs \ stale[j])) \cup (cs \cap stale[j])
      /\ left' = [left EXCEPT ![j] = @ \ cs]
      /\ stale' = [stale EXCEPT ![j] = @ \ cs]
      /\ \/ left[j] = cs
         \/ snap' = snap
      /\ \A i \in Runners \ {j} : snap'[i] = snap[i]
  BY DEF Store, StoreSets, rowVars, handlerVars, Typed, JobsTyped
<1>2. left \in [Runners -> SUBSET Counters] /\ stale \in [Runners -> SUBSET Counters]
  BY DEF Typed, JobsTyped
<1>3. ASSUME NEW c \in cs \ stale[j] PROVE snap[j][c] = CountOf(rows, c) /\ Pending(c) = 0
  <2>1. snap[j][c] = CountOf(rows, c) /\ \A h \in Handlers : ~Owes(h, c)
    BY <1>3 DEF BooksInv
  <2>2. {h \in Handlers : sign[h] = 1 /\ Owes(h, c)} = {}
        /\ {h \in Handlers : sign[h] = -1 /\ Owes(h, c)} = {}
    BY <2>1
  <2> QED BY <2>1, <2>2, FS_EmptySet DEF Pending
<1>4. ASSUME NEW c \in Counters \ drift', c[2] \in docs
      PROVE  stats'[c] + Pending(c) = CountOf(rows, c)
  <2>1. CASE c \in cs
    <3>1. c \in cs \ stale[j] /\ x \in docs
      BY <1>1, <1>4, <2>1
    <3>2. stats'[c] = CountOf(rows, c) /\ Pending(c) = 0 /\ snap[j][c] \in Nat
      BY <1>1, <1>3, <3>1 DEF Typed, JobsTyped
    <3> QED BY <1>3, <3>1, <3>2
  <2>2. CASE c \notin cs
    BY <1>1, <1>4, <2>2 DEF BooksInv, BooksBalance
  <2> QED BY <2>1, <2>2
<1>5. ASSUME NEW i \in Runners, NEW c \in left'[i] \ stale'[i]
      PROVE  snap'[i][c] = CountOf(rows, c) /\ \A h \in Handlers : ~Owes(h, c)
  <2>1. c \in left[i] \ stale[i] /\ snap'[i] = snap[i]
    BY <1>1, <1>2, <1>5
  <2> QED BY <2>1 DEF BooksInv
<1> HIDE DEF cs
<1>6. \A c : Pending(c)' = Pending(c) /\ \A h : Owes(h, c)' <=> Owes(h, c)
  BY <1>1 DEF Pending, Owes
<1> QED BY <1>1, <1>4, <1>5, <1>6 DEF BooksInv, BooksBalance

\* Every step keeps the books.
LEMMA BooksStep ==
    ASSUME IsFiniteSet(Rows), IsFiniteSet(Handlers), Typed, BooksInv, [Next]_vars, Typed'
    PROVE  BooksInv'
<1> USE DEF rowVars, handlerVars, jobVars
<1>1. ASSUME UNCHANGED <<rows, stats, todo, sign, drift>>, docs' \subseteq docs,
             \A j \in Runners : \/ left'[j] = {}
                                \/ UNCHANGED <<left[j], stale[j], snap[j]>>
      PROVE  BooksInv'
  BY <1>1, QuietBooks DEF Owes
\* Who owes nothing when it ends leaves nothing.
<1>2. ASSUME NEW h \in Handlers, at[h] # "bump", End(h) PROVE UNCHANGED <<todo, sign>>
  BY <1>2 DEF End, Typed, TodoTyped
<1>3. ASSUME NEW h \in Handlers,
             \/ \E r \in Rows : Toggle(h, r)
             \/ \E x \in Docs : Erase(h, x)
             \/ Enter(h) \/ Evict(h)
      PROVE  BooksInv'
  BY <1>1, <1>3 DEF Toggle, Erase, Enter, Evict
<1>4. ASSUME NEW h \in Handlers, Unlink(h) PROVE BooksInv'
  <2>1. CASE on[h] \in rows
    <3>1. on[h] \in Rows /\ at[h] # "bump"
      BY <1>4, <2>1 DEF Unlink, Typed, DataTyped
    <3> QED BY <1>4, <2>1, <3>1, RowToggled DEF Unlink
  <2>2. CASE on[h] \notin rows
    BY <1>1, <1>4, <2>2 DEF Unlink
  <2> QED BY <2>1, <2>2
<1>5. ASSUME NEW h \in Handlers, Link(h) PROVE BooksInv'
  <2>1. CASE on[h] \in rows
    BY <1>1, <1>2, <1>5, <2>1 DEF Link
  <2>2. CASE on[h] \notin rows
    <3>1. on[h] \in Rows /\ at[h] # "bump"
      BY <1>5 DEF Link, Typed, PlaceTyped
    <3> QED BY <1>5, <2>2, <3>1, RowToggled DEF Link
  <2> QED BY <2>1, <2>2
<1>6. ASSUME NEW h \in Handlers, EraseDoc(h) PROVE BooksInv'
  BY <1>1, <1>2, <1>6 DEF EraseDoc
<1>7. ASSUME NEW h \in Handlers, NEW k \in Kinds, EraseRows(h, k) PROVE BooksInv'
  BY <1>7, RowsGone DEF EraseRows
<1>8. ASSUME NEW h \in Handlers, Crash(h) PROVE BooksInv'
  <2>1. /\ todo'[h] = <<>>
        /\ \A k \in Handlers \ {h} : todo'[k] = todo[k] /\ sign'[k] = sign[k]
        /\ drift' = drift \cup {c \in Counters : Owes(h, c)}
        /\ UNCHANGED <<docs, rows, stats, snap, left, stale>>
    BY <1>8 DEF Crash, End, Typed, TodoTyped
  <2>2. ASSUME NEW c PROVE ~Owes(h, c)' /\ \A k \in Handlers \ {h} : Owes(k, c)' <=> Owes(k, c)
    BY <2>1 DEF Owes
  <2> QED BY <2>1, <2>2, QuietBooks
<1>9. ASSUME NEW j \in Runners, Purge(j) PROVE BooksInv'
  <2>1. rows' = rows \ (rows \cap batch[j])
    BY <1>9 DEF Purge
  <2> QED BY <1>9, <2>1, RowsGone DEF Purge
<1>10. ASSUME NEW j \in Runners,
              \/ StartCleanup(j) \/ Release(j) \/ CleanupFails(j)
              \/ \E k \in Kinds : Sweep(j, k)
       PROVE  BooksInv'
  <2>1. CASE CleanupFails(j)
    <3>1. \A i \in Runners : left'[i] = {} \/ UNCHANGED <<left[i], stale[i], snap[i]>>
      BY <2>1 DEF CleanupFails, Typed, JobsTyped
    <3> QED BY <1>1, <2>1, <3>1 DEF CleanupFails
  <2>2. CASE ~CleanupFails(j)
    BY <1>1, <1>10, <2>2 DEF StartCleanup, Release, Sweep
  <2> QED BY <2>1, <2>2
<1>11. CASE LeaseRunsOut \/ LeaseLapses \/ UNCHANGED vars
  BY <1>1, <1>11 DEF LeaseRunsOut, LeaseLapses, vars
<1> QED
  BY <1>3, <1>4, <1>5, <1>6, <1>7, <1>8, <1>9, <1>10, <1>11, BumpBooks, CountBooks, StoreBooks
     DEF Next, RequestStep, CleanupStep

\* A counter and what is owed it make up its rows, but for the counters named in drift: for
\* any number of toggles, deletions, sweeps and counts in any order.
THEOREM BooksAlwaysBalance ==
    ASSUME IsFiniteSet(Rows), IsFiniteSet(Handlers)
    PROVE  Spec => []BooksBalance
<1>1. Init => BooksInv
  <2> SUFFICES ASSUME Init PROVE BooksInv
    OBVIOUS
  <2>1. \A h \in Handlers : \A c : ~Owes(h, c)
    BY DEF Init, Owes
  <2>2. \A c : Pending(c) = 0
    <3>1. \A c : /\ {h \in Handlers : sign[h] = 1 /\ Owes(h, c)} = {}
                 /\ {h \in Handlers : sign[h] = -1 /\ Owes(h, c)} = {}
      BY <2>1
    <3> QED BY <3>1, FS_EmptySet DEF Pending
  <2>3. \A c : CountOf(rows, c) = 0
    <3>1. \A c : {r \in rows : CountsIn(r, c)} = {}
      BY DEF Init
    <3> QED BY <3>1, FS_EmptySet DEF CountOf
  <2>4. \A c \in Counters : stats[c] = 0
    BY DEF Init, Zeros
  <2> QED BY <2>2, <2>3, <2>4 DEF BooksInv, BooksBalance, Init
<1>2. Typed /\ [Next]_vars => Typed'
  BY DataTypedStep, PlaceTypedStep, TodoTypedStep, JobsTypedStep DEF Typed
<1>3. Typed /\ BooksInv /\ [Next]_vars => BooksInv'
  BY <1>2, BooksStep
<1>4. BooksInv => BooksBalance
  BY DEF BooksInv
<1> QED BY <1>1, <1>2, <1>3, <1>4, TypedInit, PTL DEF Spec

=============================================================================
