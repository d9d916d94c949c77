------------------------- MODULE DiaryPrivacyProofs -------------------------
(* Privacy, files and the index, for any number of diaries, files, and      *)
(* requests at the same time.                                               *)
EXTENDS DiaryPrivacy, FiniteSetTheorems, TLAPS

\* The steps of each kind of request.
RightStep(r) ==
    /\ op[r] = "none" => at[r] = "idle"
    /\ op[r] = "create" => at[r] \in {"attach", "match", "count"}
    /\ op[r] = "update" => at[r] \in {"write", "attach", "match", "sync", "reread"}
    /\ op[r] = "delete" => at[r] \in {"write", "after"}
    /\ op[r] = "hide" => at[r] \in {"write", "sync", "after"}
    /\ op[r] = "unhide" => at[r] \in {"write", "sync", "reread"}
    /\ op[r] = "fetch" => at[r] \in {"check", "after"}

\* A request is at one of its steps, on a diary that has been created; an idle one has
\* nothing in its hands, and an unhide what the owner could have chosen.
Fits(r) ==
    /\ RightStep(r)
    /\ at[r] # "idle" => on[r] \in Diaries /\ privacy[on[r]] # "absent"
    /\ at[r] = "idle" => on[r] = NoDiary /\ seen[r] = "unset"
    /\ op[r] = "unhide" => seen[r] \in Choices

\* A file is attached to a diary that has been created.
Attached == \A m \in Media : home[m] # NoDiary => privacy[home[m]] # "absent"

\* What is known of private diaries, and of those who carry their privacy, while the
\* moderators are careful.
Careful == {"hide", "unhide"} \subseteq CarefulAbout
Ciphertext(d) ==
    /\ d \in sealed => privacy[d] \in {"private", "hidden", "deleted"}
    /\ d \in sealed /\ privacy[d] = "hidden" => original[d] = "private"
    /\ privacy[d] = "private" \/ original[d] = "private" => d \in sealed
CarriesOver(r) ==
    /\ seen[r] = "private" => on[r] \in sealed
    /\ on[r] \in sealed /\ op[r] = "update" => seen[r] \in {"private", "hidden"}
    /\ on[r] \in sealed /\ op[r] \in {"hide", "unhide"} => seen[r] = "private"
Secrets == Careful => /\ \A d \in Diaries : Ciphertext(d)
                      /\ \A r \in Requests : CarriesOver(r)

\* Who asks for a file of a public diary, or was promised one, has seen it public.
Witnessed ==
    \A r \in Requests :
        op[r] = "fetch" /\ (privacy[on[r]] = "public" \/ at[r] = "after") => r \in opened

\* r will send its diary to the outbox, unless it is cut short.
StillSends(r) ==
    \/ op[r] = "delete" /\ at[r] = "after"
    \/ op[r] = "hide" /\ at[r] \in {"sync", "after"}
    \/ /\ op[r] = "update" /\ at[r] \in {"attach", "match", "sync", "reread"}
       /\ SetsPrivacy(r) /\ Exists(on[r])
SentOn == \A d \in exposed \ cut : \E r \in Requests : on[r] = d /\ StillSends(r)

PrivacyInv ==
    /\ TypeOK /\ (\A r \in Requests : Fits(r)) /\ Attached
    /\ Secrets /\ Witnessed /\ SentOn

-----------------------------------------------------------------------------

\* Before the first diary nothing is under way.
LEMMA PrivacyStarts == Init => PrivacyInv
<1> SUFFICES ASSUME Init PROVE PrivacyInv
  OBVIOUS
<1>1. TypeOK
  BY PrivacyConstants DEF Init, TypeOK, Stored, Choices, Steps, Ops
<1>2. \A r \in Requests : Fits(r)
  BY DEF Init, Fits, RightStep
<1>3. Attached /\ Secrets /\ Witnessed /\ SentOn
  BY PrivacyConstants DEF Init, Attached, Secrets, Ciphertext, CarriesOver, Witnessed, SentOn
<1> QED
  BY <1>1, <1>2, <1>3 DEF PrivacyInv

\* A request that goes on, or ends, is still a request.
LEMMA RequestTyped ==
    ASSUME TypeOK, NEW r \in Requests, NEW st \in Steps, on[r] \in Diaries,
           \/ Go(r, st) /\ UNCHANGED seen
           \/ End(r)
    PROVE  /\ op' \in [Requests -> Ops] /\ at' \in [Requests -> Steps]
           /\ on' \in [Requests -> Diaries \cup {NoDiary}]
           /\ \A q \in Requests : at'[q] # "idle" => on'[q] \in Diaries
           /\ seen' \in [Requests -> Stored \cup {"unset"}]
           /\ want' \in [Requests -> Choices \cup {"same"}]
           /\ files' \in [Requests -> SUBSET Media]
           /\ used' \in [{"request", "crash"} -> Nat]
<1>1. CASE Go(r, st) /\ UNCHANGED seen
  BY <1>1 DEF TypeOK, Go, formVars
<1>2. CASE End(r)
  BY <1>2 DEF TypeOK, End, Steps, Ops
<1> QED
  BY <1>1, <1>2

\* Type correctness is kept.
LEMMA TypeStep ==
    ASSUME PrivacyInv, Next
    PROVE  TypeOK'
<1> USE PrivacyConstants
    DEF PrivacyInv, TypeOK, Fits, RightStep, Stored, Choices, Steps, Ops, diaryVars,
        mediaVars, formVars, Start, Go, End, Write, Schedule, Exists
<1>1. ASSUME NEW r \in Requests, NEW d \in Diaries, Create(r, d) PROVE TypeOK'
  BY <1>1 DEF Create
<1>2. ASSUME NEW r \in Requests, NEW d \in Diaries, Update(r, d) PROVE TypeOK'
  BY <1>2 DEF Update
<1>3. ASSUME NEW r \in Requests, NEW d \in Diaries, Delete(r, d) PROVE TypeOK'
  BY <1>3 DEF Delete
<1>4. ASSUME NEW r \in Requests, NEW d \in Diaries, Hide(r, d) PROVE TypeOK'
  BY <1>4 DEF Hide
<1>5. ASSUME NEW r \in Requests, NEW d \in Diaries, Unhide(r, d) PROVE TypeOK'
  BY <1>5 DEF Unhide
<1>6. ASSUME NEW r \in Requests, NEW m \in Media, Fetch(r, m) PROVE TypeOK'
  BY <1>6 DEF Fetch
<1>7. ASSUME NEW r \in Requests, UpdateWrite(r) PROVE TypeOK'
  BY <1>7 DEF UpdateWrite, SetsPrivacy
<1>8. ASSUME NEW r \in Requests, AttachCheck(r) PROVE TypeOK'
  <2>1. /\ AfterAttach(r) \in Steps /\ "match" \in Steps /\ on[r] \in Diaries
        /\ UNCHANGED <<diaryVars, mediaVars, count, wiping>>
    BY <1>8 DEF AttachCheck, AttachRefused, AfterAttach
  <2>2. /\ \/ Go(r, AfterAttach(r)) /\ UNCHANGED seen
           \/ Go(r, "match") /\ UNCHANGED seen
           \/ End(r)
        /\ cut' \subseteq Diaries
    <3> HIDE DEF Go, End
    <3> QED
      BY <1>8, <2>1 DEF AttachCheck, AttachRefused
  <2> HIDE DEF Go, End
  <2> QED
    BY <2>1, <2>2, RequestTyped
<1>9. ASSUME NEW r \in Requests, AttachMatch(r) PROVE TypeOK'
  <2>1. AfterAttach(r) \in Steps /\ on[r] \in Diaries /\ UNCHANGED <<kept, diaryVars, count, wiping>>
    BY <1>9 DEF AttachMatch, AfterAttach
  <2>2. /\ \/ Go(r, AfterAttach(r)) /\ UNCHANGED seen
           \/ End(r)
        /\ cut' \subseteq Diaries
    <3> HIDE DEF Go, End
    <3> QED
      BY <1>9, <2>1 DEF AttachMatch
  <2>3. home' \in [Media -> Diaries \cup {NoDiary}]
    BY <1>9, <2>1 DEF AttachMatch
  <2>4. isPrivate' \in [Media -> BOOLEAN]
    BY <1>9 DEF AttachMatch
  <2> HIDE DEF Go, End
  <2> QED
    BY <2>1, <2>2, <2>3, <2>4, RequestTyped
<1>10. ASSUME NEW r \in Requests, CreateCount(r) PROVE TypeOK'
  BY <1>10 DEF CreateCount
<1>11. ASSUME NEW r \in Requests, Sync(r) PROVE TypeOK'
  <2>1. /\ on[r] \in Diaries /\ {"after", "reread"} \subseteq Steps
        /\ UNCHANGED <<diaryVars, home, kept, count, wiping, seen, cut>>
        /\ isPrivate' \in [Media -> BOOLEAN]
    BY <1>11 DEF Sync
  <2>2. Go(r, "after") \/ Go(r, "reread")
    <3> HIDE DEF Go
    <3> QED
      BY <1>11 DEF Sync
  <2> HIDE DEF Go, End
  <2> QED
    BY <2>1, <2>2, RequestTyped
<1>12. ASSUME NEW r \in Requests, Reread(r) PROVE TypeOK'
  BY <1>12 DEF Reread
<1>13. ASSUME NEW r \in Requests, DeleteCascade(r) PROVE TypeOK'
  <2>1. /\ (Go(r, "after") /\ UNCHANGED seen) \/ End(r)
        /\ "after" \in Steps /\ on[r] \in Diaries
    <3> HIDE DEF Go, End
    <3> QED
      BY <1>13 DEF DeleteCascade
  <2>2. /\ privacy' \in [Diaries -> Stored \cup {"absent", "deleted"}]
        /\ original' \in [Diaries -> Stored \cup {"unset"}]
        /\ exposed' \subseteq Diaries /\ opened' \subseteq Requests
    BY <1>13, <2>1 DEF DeleteCascade
  <2>3. UNCHANGED <<sealed, chosen, mediaVars, count, wiping, cut>>
    BY <1>13 DEF DeleteCascade
  <2> HIDE DEF Go, End
  <2> QED
    BY <2>1, <2>2, <2>3, RequestTyped
<1>14. ASSUME NEW r \in Requests, DeleteAfter(r) PROVE TypeOK'
  BY <1>14 DEF DeleteAfter
<1>15. ASSUME NEW r \in Requests, HideWrite(r) PROVE TypeOK'
  BY <1>15 DEF HideWrite
<1>16. ASSUME NEW r \in Requests, HideAfter(r) PROVE TypeOK'
  BY <1>16 DEF HideAfter
<1>17. ASSUME NEW r \in Requests, UnhideWrite(r) PROVE TypeOK'
  BY <1>17 DEF UnhideWrite
<1>18. ASSUME NEW r \in Requests, FetchCheck(r) PROVE TypeOK'
  <2>1. /\ (Go(r, "after") /\ UNCHANGED seen) \/ End(r)
        /\ "after" \in Steps /\ on[r] \in Diaries
        /\ UNCHANGED <<diaryVars, mediaVars, count, wiping, cut>>
    <3> HIDE DEF Go, End
    <3> QED
      BY <1>18 DEF FetchCheck
  <2> HIDE DEF Go, End
  <2> QED
    BY <2>1, RequestTyped
<1>19. ASSUME NEW r \in Requests, FetchDone(r) PROVE TypeOK'
  BY <1>19 DEF FetchDone
<1>20. ASSUME NEW r \in Requests, Crash(r) PROVE TypeOK'
  BY <1>20 DEF Crash
<1>21. ASSUME NEW d \in Diaries, Wipe(d) PROVE TypeOK'
  BY <1>21 DEF Wipe
<1> QED
  BY <1>1, <1>2, <1>3, <1>4, <1>5, <1>6, <1>7, <1>8, <1>9, <1>10, <1>11, <1>12, <1>13,
     <1>14, <1>15, <1>16, <1>17, <1>18, <1>19, <1>20, <1>21 DEF Next

\* A request goes through its steps, and ends with empty hands.
LEMMA FitsStep ==
    ASSUME PrivacyInv, Next, TypeOK'
    PROVE  \A q \in Requests : Fits(q)'
<1> USE PrivacyConstants
    DEF PrivacyInv, TypeOK, Fits, Attached, RightStep, Stored, Choices, diaryVars, mediaVars,
        formVars, Start, Go, End, Write, Schedule, Exists
<1>1. ASSUME NEW r \in Requests, NEW d \in Diaries, Create(r, d)
      PROVE  \A q \in Requests : Fits(q)'
  BY <1>1 DEF Create
<1>2. ASSUME NEW r \in Requests, NEW d \in Diaries, Update(r, d)
      PROVE  \A q \in Requests : Fits(q)'
  BY <1>2 DEF Update
<1>3. ASSUME NEW r \in Requests, NEW d \in Diaries, Delete(r, d)
      PROVE  \A q \in Requests : Fits(q)'
  BY <1>3 DEF Delete
<1>4. ASSUME NEW r \in Requests, NEW d \in Diaries, Hide(r, d)
      PROVE  \A q \in Requests : Fits(q)'
  BY <1>4 DEF Hide
<1>5. ASSUME NEW r \in Requests, NEW d \in Diaries, Unhide(r, d)
      PROVE  \A q \in Requests : Fits(q)'
  BY <1>5 DEF Unhide
<1>6. ASSUME NEW r \in Requests, NEW m \in Media, Fetch(r, m)
      PROVE  \A q \in Requests : Fits(q)'
  BY <1>6 DEF Fetch
<1>7. ASSUME NEW r \in Requests, UpdateWrite(r) PROVE \A q \in Requests : Fits(q)'
  BY <1>7 DEF UpdateWrite, SetsPrivacy
<1>8. ASSUME NEW r \in Requests, AttachCheck(r) PROVE \A q \in Requests : Fits(q)'
  BY <1>8 DEF AttachCheck, AttachRefused, AfterAttach, SetsPrivacy
<1>9. ASSUME NEW r \in Requests, AttachMatch(r) PROVE \A q \in Requests : Fits(q)'
  <2>1. /\ (Go(r, AfterAttach(r)) /\ UNCHANGED seen) \/ End(r)
        /\ UNCHANGED privacy /\ op[r] \in {"create", "update"} /\ at[r] = "match"
    <3>1. at[r] = "match" /\ UNCHANGED privacy
      BY <1>9 DEF AttachMatch
    <3>2. op[r] \in {"create", "update"}
      BY <3>1 DEF Ops
    <3> HIDE DEF Go, End, Fits
    <3>3. (Go(r, AfterAttach(r)) /\ UNCHANGED seen) \/ End(r)
      BY <1>9 DEF AttachMatch
    <3> QED
      BY <3>1, <3>2, <3>3
  <2>2. CASE End(r)
    BY <2>1, <2>2
  <2>3. CASE Go(r, AfterAttach(r)) /\ UNCHANGED seen
    BY <2>1, <2>3 DEF AfterAttach
  <2> QED
    BY <2>1, <2>2, <2>3
<1>10. ASSUME NEW r \in Requests, CreateCount(r) PROVE \A q \in Requests : Fits(q)'
  BY <1>10 DEF CreateCount
<1>11. ASSUME NEW r \in Requests, Sync(r) PROVE \A q \in Requests : Fits(q)'
  <2>1. /\ op[r] \in {"update", "hide", "unhide"} /\ UNCHANGED <<privacy, seen>>
        /\ Go(r, IF op[r] = "hide" THEN "after" ELSE "reread")
    <3>1. at[r] = "sync" /\ UNCHANGED <<privacy, seen>>
      BY <1>11 DEF Sync
    <3>2. op[r] \in {"update", "hide", "unhide"}
      BY <3>1 DEF Ops
    <3> HIDE DEF Go, Fits
    <3>3. Go(r, IF op[r] = "hide" THEN "after" ELSE "reread")
      BY <1>11 DEF Sync
    <3> QED
      BY <3>1, <3>2, <3>3
  <2> QED
    BY <2>1
<1>12. ASSUME NEW r \in Requests, Reread(r) PROVE \A q \in Requests : Fits(q)'
  BY <1>12 DEF Reread
<1>13. ASSUME NEW r \in Requests, DeleteCascade(r) PROVE \A q \in Requests : Fits(q)'
  BY <1>13 DEF DeleteCascade
<1>14. ASSUME NEW r \in Requests, DeleteAfter(r) PROVE \A q \in Requests : Fits(q)'
  BY <1>14 DEF DeleteAfter
<1>15. ASSUME NEW r \in Requests, HideWrite(r) PROVE \A q \in Requests : Fits(q)'
  BY <1>15 DEF HideWrite
<1>16. ASSUME NEW r \in Requests, HideAfter(r) PROVE \A q \in Requests : Fits(q)'
  BY <1>16 DEF HideAfter
<1>17. ASSUME NEW r \in Requests, UnhideWrite(r) PROVE \A q \in Requests : Fits(q)'
  BY <1>17 DEF UnhideWrite
<1>18. ASSUME NEW r \in Requests, FetchCheck(r) PROVE \A q \in Requests : Fits(q)'
  BY <1>18 DEF FetchCheck, Serves
<1>19. ASSUME NEW r \in Requests, FetchDone(r) PROVE \A q \in Requests : Fits(q)'
  BY <1>19 DEF FetchDone
<1>20. ASSUME NEW r \in Requests, Crash(r) PROVE \A q \in Requests : Fits(q)'
  BY <1>20 DEF Crash
<1>21. ASSUME NEW d \in Diaries, Wipe(d) PROVE \A q \in Requests : Fits(q)'
  BY <1>21 DEF Wipe
<1> QED
  BY <1>1, <1>2, <1>3, <1>4, <1>5, <1>6, <1>7, <1>8, <1>9, <1>10, <1>11, <1>12, <1>13,
     <1>14, <1>15, <1>16, <1>17, <1>18, <1>19, <1>20, <1>21 DEF Next

\* A file is only attached to the diary of a request, and diaries do not become absent.
LEMMA AttachedStep ==
    ASSUME PrivacyInv, Next, TypeOK'
    PROVE  Attached'
<1> USE PrivacyConstants
    DEF PrivacyInv, TypeOK, Fits, Attached, RightStep, Stored, Choices, diaryVars, mediaVars,
        formVars, Start, Go, End, Write, Schedule, Exists
<1>1. ASSUME NEW r \in Requests, NEW d \in Diaries, Create(r, d) PROVE Attached'
  BY <1>1 DEF Create
<1>2. ASSUME NEW r \in Requests, NEW d \in Diaries, Update(r, d) PROVE Attached'
  BY <1>2 DEF Update
<1>3. ASSUME NEW r \in Requests, NEW d \in Diaries, Delete(r, d) PROVE Attached'
  BY <1>3 DEF Delete
<1>4. ASSUME NEW r \in Requests, NEW d \in Diaries, Hide(r, d) PROVE Attached'
  BY <1>4 DEF Hide
<1>5. ASSUME NEW r \in Requests, NEW d \in Diaries, Unhide(r, d) PROVE Attached'
  BY <1>5 DEF Unhide
<1>6. ASSUME NEW r \in Requests, NEW m \in Media, Fetch(r, m) PROVE Attached'
  BY <1>6 DEF Fetch
<1>7. ASSUME NEW r \in Requests, UpdateWrite(r) PROVE Attached'
  BY <1>7 DEF UpdateWrite, SetsPrivacy
<1>8. ASSUME NEW r \in Requests, AttachCheck(r) PROVE Attached'
  BY <1>8 DEF AttachCheck, AttachRefused
<1>9. ASSUME NEW r \in Requests, AttachMatch(r) PROVE Attached'
  BY <1>9 DEF AttachMatch, AttachPrivacy
<1>10. ASSUME NEW r \in Requests, CreateCount(r) PROVE Attached'
  BY <1>10 DEF CreateCount
<1>11. ASSUME NEW r \in Requests, Sync(r) PROVE Attached'
  BY <1>11 DEF Sync
<1>12. ASSUME NEW r \in Requests, Reread(r) PROVE Attached'
  BY <1>12 DEF Reread
<1>13. ASSUME NEW r \in Requests, DeleteCascade(r) PROVE Attached'
  BY <1>13 DEF DeleteCascade
<1>14. ASSUME NEW r \in Requests, DeleteAfter(r) PROVE Attached'
  BY <1>14 DEF DeleteAfter
<1>15. ASSUME NEW r \in Requests, HideWrite(r) PROVE Attached'
  BY <1>15 DEF HideWrite
<1>16. ASSUME NEW r \in Requests, HideAfter(r) PROVE Attached'
  BY <1>16 DEF HideAfter
<1>17. ASSUME NEW r \in Requests, UnhideWrite(r) PROVE Attached'
  BY <1>17 DEF UnhideWrite
<1>18. ASSUME NEW r \in Requests, FetchCheck(r) PROVE Attached'
  BY <1>18 DEF FetchCheck, Serves
<1>19. ASSUME NEW r \in Requests, FetchDone(r) PROVE Attached'
  BY <1>19 DEF FetchDone
<1>20. ASSUME NEW r \in Requests, Crash(r) PROVE Attached'
  BY <1>20 DEF Crash
<1>21. ASSUME NEW d \in Diaries, Wipe(d) PROVE Attached'
  BY <1>21 DEF Wipe
<1> QED
  BY <1>1, <1>2, <1>3, <1>4, <1>5, <1>6, <1>7, <1>8, <1>9, <1>10, <1>11, <1>12, <1>13,
     <1>14, <1>15, <1>16, <1>17, <1>18, <1>19, <1>20, <1>21 DEF Next

\* Whoever writes a privacy read it from the diary, when it was private or hidden by one
\* who had.
LEMMA SecretsStep ==
    ASSUME PrivacyInv, Next, TypeOK'
    PROVE  Secrets'
<1> USE PrivacyConstants
    DEF PrivacyInv, TypeOK, Fits, RightStep, Secrets, Careful, Ciphertext, CarriesOver,
        Stored, Choices, diaryVars, mediaVars, formVars, Start, Go, End, Write,
        Schedule, Exists
<1>1. ASSUME NEW r \in Requests, NEW d \in Diaries, Create(r, d) PROVE Secrets'
  BY <1>1 DEF Create
<1>2. ASSUME NEW r \in Requests, NEW d \in Diaries, Update(r, d) PROVE Secrets'
  BY <1>2 DEF Update
<1>3. ASSUME NEW r \in Requests, NEW d \in Diaries, Delete(r, d) PROVE Secrets'
  BY <1>3 DEF Delete
<1>4. ASSUME NEW r \in Requests, NEW d \in Diaries, Hide(r, d) PROVE Secrets'
  BY <1>4 DEF Hide
<1>5. ASSUME NEW r \in Requests, NEW d \in Diaries, Unhide(r, d) PROVE Secrets'
  BY <1>5 DEF Unhide
<1>6. ASSUME NEW r \in Requests, NEW m \in Media, Fetch(r, m) PROVE Secrets'
  BY <1>6 DEF Fetch
<1>7. ASSUME NEW r \in Requests, UpdateWrite(r) PROVE Secrets'
  BY <1>7 DEF UpdateWrite, SetsPrivacy
<1>8. ASSUME NEW r \in Requests, AttachCheck(r) PROVE Secrets'
  BY <1>8 DEF AttachCheck, AttachRefused
<1>9. ASSUME NEW r \in Requests, AttachMatch(r) PROVE Secrets'
  BY <1>9 DEF AttachMatch, AttachPrivacy
<1>10. ASSUME NEW r \in Requests, CreateCount(r) PROVE Secrets'
  BY <1>10 DEF CreateCount
<1>11. ASSUME NEW r \in Requests, Sync(r) PROVE Secrets'
  BY <1>11 DEF Sync
<1>12. ASSUME NEW r \in Requests, Reread(r) PROVE Secrets'
  BY <1>12 DEF Reread
<1>13. ASSUME NEW r \in Requests, DeleteCascade(r) PROVE Secrets'
  BY <1>13 DEF DeleteCascade
<1>14. ASSUME NEW r \in Requests, DeleteAfter(r) PROVE Secrets'
  BY <1>14 DEF DeleteAfter
<1>15. ASSUME NEW r \in Requests, HideWrite(r) PROVE Secrets'
  BY <1>15 DEF HideWrite
<1>16. ASSUME NEW r \in Requests, HideAfter(r) PROVE Secrets'
  BY <1>16 DEF HideAfter
<1>17. ASSUME NEW r \in Requests, UnhideWrite(r) PROVE Secrets'
  BY <1>17 DEF UnhideWrite
<1>18. ASSUME NEW r \in Requests, FetchCheck(r) PROVE Secrets'
  BY <1>18 DEF FetchCheck, Serves
<1>19. ASSUME NEW r \in Requests, FetchDone(r) PROVE Secrets'
  BY <1>19 DEF FetchDone
<1>20. ASSUME NEW r \in Requests, Crash(r) PROVE Secrets'
  BY <1>20 DEF Crash
<1>21. ASSUME NEW d \in Diaries, Wipe(d) PROVE Secrets'
  BY <1>21 DEF Wipe
<1> QED
  BY <1>1, <1>2, <1>3, <1>4, <1>5, <1>6, <1>7, <1>8, <1>9, <1>10, <1>11, <1>12, <1>13,
     <1>14, <1>15, <1>16, <1>17, <1>18, <1>19, <1>20, <1>21 DEF Next

\* A diary becomes public before the eyes of all requests on it.
LEMMA WitnessedStep ==
    ASSUME PrivacyInv, Next, TypeOK'
    PROVE  Witnessed'
<1> USE PrivacyConstants
    DEF PrivacyInv, TypeOK, Fits, RightStep, Witnessed, Stored, diaryVars, mediaVars,
        formVars, Start, Go, End, Write, Schedule, Exists
<1>1. ASSUME NEW r \in Requests, NEW d \in Diaries, Create(r, d) PROVE Witnessed'
  BY <1>1 DEF Create
<1>2. ASSUME NEW r \in Requests, NEW d \in Diaries, Update(r, d) PROVE Witnessed'
  BY <1>2 DEF Update
<1>3. ASSUME NEW r \in Requests, NEW d \in Diaries, Delete(r, d) PROVE Witnessed'
  BY <1>3 DEF Delete
<1>4. ASSUME NEW r \in Requests, NEW d \in Diaries, Hide(r, d) PROVE Witnessed'
  BY <1>4 DEF Hide
<1>5. ASSUME NEW r \in Requests, NEW d \in Diaries, Unhide(r, d) PROVE Witnessed'
  BY <1>5 DEF Unhide
<1>6. ASSUME NEW r \in Requests, NEW m \in Media, Fetch(r, m) PROVE Witnessed'
  BY <1>6 DEF Fetch
<1>7. ASSUME NEW r \in Requests, UpdateWrite(r) PROVE Witnessed'
  BY <1>7 DEF UpdateWrite, SetsPrivacy
<1>8. ASSUME NEW r \in Requests, AttachCheck(r) PROVE Witnessed'
  BY <1>8 DEF AttachCheck, AttachRefused
<1>9. ASSUME NEW r \in Requests, AttachMatch(r) PROVE Witnessed'
  BY <1>9 DEF AttachMatch, AttachPrivacy
<1>10. ASSUME NEW r \in Requests, CreateCount(r) PROVE Witnessed'
  BY <1>10 DEF CreateCount
<1>11. ASSUME NEW r \in Requests, Sync(r) PROVE Witnessed'
  BY <1>11 DEF Sync
<1>12. ASSUME NEW r \in Requests, Reread(r) PROVE Witnessed'
  BY <1>12 DEF Reread
<1>13. ASSUME NEW r \in Requests, DeleteCascade(r) PROVE Witnessed'
  BY <1>13 DEF DeleteCascade
<1>14. ASSUME NEW r \in Requests, DeleteAfter(r) PROVE Witnessed'
  BY <1>14 DEF DeleteAfter
<1>15. ASSUME NEW r \in Requests, HideWrite(r) PROVE Witnessed'
  BY <1>15 DEF HideWrite
<1>16. ASSUME NEW r \in Requests, HideAfter(r) PROVE Witnessed'
  BY <1>16 DEF HideAfter
<1>17. ASSUME NEW r \in Requests, UnhideWrite(r) PROVE Witnessed'
  BY <1>17 DEF UnhideWrite
<1>18. ASSUME NEW r \in Requests, FetchCheck(r) PROVE Witnessed'
  BY <1>18 DEF FetchCheck, Serves
<1>19. ASSUME NEW r \in Requests, FetchDone(r) PROVE Witnessed'
  BY <1>19 DEF FetchDone
<1>20. ASSUME NEW r \in Requests, Crash(r) PROVE Witnessed'
  BY <1>20 DEF Crash
<1>21. ASSUME NEW d \in Diaries, Wipe(d) PROVE Witnessed'
  BY <1>21 DEF Wipe
<1> QED
  BY <1>1, <1>2, <1>3, <1>4, <1>5, <1>6, <1>7, <1>8, <1>9, <1>10, <1>11, <1>12, <1>13,
     <1>14, <1>15, <1>16, <1>17, <1>18, <1>19, <1>20, <1>21 DEF Next

\* What unpublishes a diary sends it on, or leaves that to the deletion that overtakes it.
LEMMA SentOnStep ==
    ASSUME PrivacyInv, Next, TypeOK'
    PROVE  SentOn'
<1> USE PrivacyConstants
    DEF PrivacyInv, TypeOK, Fits, RightStep, SentOn, StillSends, SetsPrivacy, Stored,
        Choices, diaryVars, mediaVars, formVars, Start, Go, End, Write, Schedule,
        Exists
<1>1. ASSUME NEW r \in Requests, NEW d \in Diaries, Create(r, d) PROVE SentOn'
  BY <1>1 DEF Create
<1>2. ASSUME NEW r \in Requests, NEW d \in Diaries, Update(r, d) PROVE SentOn'
  BY <1>2 DEF Update
<1>3. ASSUME NEW r \in Requests, NEW d \in Diaries, Delete(r, d) PROVE SentOn'
  BY <1>3 DEF Delete
<1>4. ASSUME NEW r \in Requests, NEW d \in Diaries, Hide(r, d) PROVE SentOn'
  BY <1>4 DEF Hide
<1>5. ASSUME NEW r \in Requests, NEW d \in Diaries, Unhide(r, d) PROVE SentOn'
  BY <1>5 DEF Unhide
<1>6. ASSUME NEW r \in Requests, NEW m \in Media, Fetch(r, m) PROVE SentOn'
  BY <1>6 DEF Fetch
<1>7. ASSUME NEW r \in Requests, UpdateWrite(r) PROVE SentOn'
  BY <1>7 DEF UpdateWrite, SetsPrivacy
<1>8. ASSUME NEW r \in Requests, AttachCheck(r) PROVE SentOn'
  BY <1>8 DEF AttachCheck, AttachRefused, AfterAttach
<1>9. ASSUME NEW r \in Requests, AttachMatch(r) PROVE SentOn'
  BY <1>9 DEF AttachMatch, AttachPrivacy, AfterAttach
<1>10. ASSUME NEW r \in Requests, CreateCount(r) PROVE SentOn'
  BY <1>10 DEF CreateCount
<1>11. ASSUME NEW r \in Requests, Sync(r) PROVE SentOn'
  BY <1>11 DEF Sync
<1>12. ASSUME NEW r \in Requests, Reread(r) PROVE SentOn'
  BY <1>12 DEF Reread
<1>13. ASSUME NEW r \in Requests, DeleteCascade(r) PROVE SentOn'
  BY <1>13 DEF DeleteCascade
<1>14. ASSUME NEW r \in Requests, DeleteAfter(r) PROVE SentOn'
  BY <1>14 DEF DeleteAfter
<1>15. ASSUME NEW r \in Requests, HideWrite(r) PROVE SentOn'
  BY <1>15 DEF HideWrite
<1>16. ASSUME NEW r \in Requests, HideAfter(r) PROVE SentOn'
  BY <1>16 DEF HideAfter
<1>17. ASSUME NEW r \in Requests, UnhideWrite(r) PROVE SentOn'
  BY <1>17 DEF UnhideWrite
<1>18. ASSUME NEW r \in Requests, FetchCheck(r) PROVE SentOn'
  BY <1>18 DEF FetchCheck, Serves
<1>19. ASSUME NEW r \in Requests, FetchDone(r) PROVE SentOn'
  BY <1>19 DEF FetchDone
<1>20. ASSUME NEW r \in Requests, Crash(r) PROVE SentOn'
  BY <1>20 DEF Crash
<1>21. ASSUME NEW d \in Diaries, Wipe(d) PROVE SentOn'
  BY <1>21 DEF Wipe
<1> QED
  BY <1>1, <1>2, <1>3, <1>4, <1>5, <1>6, <1>7, <1>8, <1>9, <1>10, <1>11, <1>12, <1>13,
     <1>14, <1>15, <1>16, <1>17, <1>18, <1>19, <1>20, <1>21 DEF Next

\* The invariant is inductive.
LEMMA PrivacyStep == PrivacyInv /\ [Next]_vars => PrivacyInv'
<1>1. ASSUME PrivacyInv, Next PROVE PrivacyInv'
  <2>1. TypeOK'
    BY <1>1, TypeStep
  <2>2. (\A r \in Requests : Fits(r)') /\ Attached'
    BY <1>1, <2>1, FitsStep, AttachedStep
  <2>3. Secrets' /\ Witnessed' /\ SentOn'
    BY <1>1, <2>1, SecretsStep, WitnessedStep, SentOnStep
  <2> QED
    BY <2>1, <2>2, <2>3 DEF PrivacyInv
<1>2. ASSUME PrivacyInv, UNCHANGED vars PROVE PrivacyInv'
  BY <1>2 DEF vars, diaryVars, mediaVars, formVars, PrivacyInv, TypeOK, Fits, RightStep, Attached,
     Secrets, Ciphertext, CarriesOver, Witnessed, SentOn, StillSends, SetsPrivacy, Exists
<1> QED
  BY <1>1, <1>2

\* The state is well typed, and what requests carry agrees with the diaries they work on.
THEOREM PrivacyInvariant == Spec => []PrivacyInv
BY PrivacyStarts, PrivacyStep, PTL DEF Spec

\* The type invariant of DiaryPrivacy holds for any diaries, files and requests.
THEOREM PrivacyTypeCorrect == Spec => []TypeOK
<1>1. PrivacyInv => TypeOK
  BY DEF PrivacyInv
<1> QED
  BY PrivacyInvariant, <1>1, PTL

\* While moderators hide only what is visible and unhide only what is hidden, ciphertext
\* is never published, and nothing else is ever private.
THEOREM CiphertextStaysSealed ==
    ASSUME Careful
    PROVE  Spec => []SealedStaysSealed
<1>1. PrivacyInv => SealedStaysSealed
  BY DEF PrivacyInv, Secrets, Ciphertext, SealedStaysSealed
<1> QED
  BY PrivacyInvariant, <1>1, PTL

\* A file is served only to a request that saw its diary public.
THEOREM ServedWhenOpened == Spec => []ServedOnlyIfOpened
<1>1. PrivacyInv => ServedOnlyIfOpened
  BY DEF PrivacyInv, Witnessed, ServedOnlyIfOpened
<1> QED
  BY PrivacyInvariant, <1>1, PTL

\* What was unpublished has been sent to the outbox, or a request that will is under way.
THEOREM UnpublishedReachesOutbox == Spec => []UnpublishedIsSent
<1>1. PrivacyInv => UnpublishedIsSent
  BY DEF PrivacyInv, SentOn, UnpublishedIsSent, Busy
<1> QED
  BY PrivacyInvariant, <1>1, PTL

\* A file never changes the diary it was given to, however many requests pass the check of
\* attach_to_diary together.
THEOREM FilesStayAttached == Spec => NeverReattached
<1>1. ASSUME PrivacyInv, [Next]_vars
      PROVE  [\A m \in Media : home[m] # NoDiary => home'[m] = home[m]]_home
  <2>1. ASSUME NEW r \in Requests, AttachMatch(r), NEW m \in Media, home[m] # NoDiary
        PROVE  home'[m] = home[m]
    BY <2>1 DEF AttachMatch, Free
  <2>2. UNCHANGED home \/ \E r \in Requests : AttachMatch(r)
    BY <1>1 DEF Next, vars, mediaVars, Create, Update, Delete, Hide, Unhide, Fetch, UpdateWrite,
       AttachCheck, AttachRefused, CreateCount, Sync, Reread, DeleteCascade, DeleteAfter,
       HideWrite, HideAfter, UnhideWrite, FetchCheck, FetchDone, Crash, Wipe
  <2> QED
    BY <2>1, <2>2
<1> QED
  BY PrivacyInvariant, <1>1, PTL DEF Spec, NeverReattached

-----------------------------------------------------------------------------
(* The owner's counter.                                                     *)

Living == {d \in Diaries : Exists(d)}
Creating == {r \in Requests : op[r] = "create"}
Deleted == {r \in Requests : op[r] = "delete" /\ at[r] = "after"}

\* Nothing was cut short, and the counter is the number of diaries, but for the creations
\* and deletions that have not reached it.
Balance ==
    cut = {} => count + Cardinality(Creating) = Cardinality(Living) + Cardinality(Deleted)

\* The counted sets are finite, and so they are after the step.
LEMMA CountedFinite ==
    ASSUME IsFiniteSet(Diaries), IsFiniteSet(Requests)
    PROVE  /\ IsFiniteSet(Living) /\ IsFiniteSet(Creating) /\ IsFiniteSet(Deleted)
           /\ Cardinality(Living) \in Nat /\ Cardinality(Creating) \in Nat
           /\ Cardinality(Deleted) \in Nat
<1>1. Living \subseteq Diaries /\ Creating \subseteq Requests /\ Deleted \subseteq Requests
  BY DEF Living, Creating, Deleted
<1>2. IsFiniteSet(Living) /\ IsFiniteSet(Creating) /\ IsFiniteSet(Deleted)
  BY <1>1, FS_Subset
<1> QED
  BY <1>2, FS_CardinalityType

\* What a step does to the counted sets: nothing, unless it creates, counts, deletes or
\* discounts a diary, or is cut short.
LEMMA CountedSets ==
    ASSUME PrivacyInv, Next, cut' = {}
    PROVE  \/ UNCHANGED <<count, Living, Creating, Deleted>>
           \/ \E r \in Requests, d \in Diaries :
                 /\ d \notin Living /\ Living' = Living \cup {d}
                 /\ r \notin Creating /\ Creating' = Creating \cup {r}
                 /\ UNCHANGED <<count, Deleted>>
           \/ \E r \in Requests :
                 /\ count' = count + 1 /\ r \in Creating /\ Creating' = Creating \ {r}
                 /\ UNCHANGED <<Living, Deleted>>
           \/ \E r \in Requests, d \in Diaries :
                 /\ d \in Living /\ Living' = Living \ {d}
                 /\ r \notin Deleted /\ Deleted' = Deleted \cup {r}
                 /\ UNCHANGED <<count, Creating>>
           \/ \E r \in Requests :
                 /\ count' = count - 1 /\ r \in Deleted /\ Deleted' = Deleted \ {r}
                 /\ UNCHANGED <<Living, Creating>>
<1> USE DEF PrivacyInv, TypeOK, Fits, RightStep, Stored, Choices, diaryVars, mediaVars, formVars,
        Start, Go, End, Write, Schedule, Exists, Living, Creating, Deleted
<1>1. ASSUME NEW r \in Requests, NEW d \in Diaries, Create(r, d)
      PROVE  /\ d \notin Living /\ Living' = Living \cup {d}
             /\ r \notin Creating /\ Creating' = Creating \cup {r}
             /\ UNCHANGED <<count, Deleted>>
  BY <1>1 DEF Create
<1>2. ASSUME NEW r \in Requests, NEW d \in Diaries, Update(r, d)
      PROVE  UNCHANGED <<count, Living, Creating, Deleted>>
  BY <1>2 DEF Update
<1>3. ASSUME NEW r \in Requests, NEW d \in Diaries, Delete(r, d)
      PROVE  UNCHANGED <<count, Living, Creating, Deleted>>
  BY <1>3 DEF Delete
<1>4. ASSUME NEW r \in Requests, NEW d \in Diaries, Hide(r, d)
      PROVE  UNCHANGED <<count, Living, Creating, Deleted>>
  BY <1>4 DEF Hide
<1>5. ASSUME NEW r \in Requests, NEW d \in Diaries, Unhide(r, d)
      PROVE  UNCHANGED <<count, Living, Creating, Deleted>>
  BY <1>5 DEF Unhide
<1>6. ASSUME NEW r \in Requests, NEW m \in Media, Fetch(r, m)
      PROVE  UNCHANGED <<count, Living, Creating, Deleted>>
  BY <1>6 DEF Fetch
<1>7. ASSUME NEW r \in Requests, UpdateWrite(r)
      PROVE  UNCHANGED <<count, Living, Creating, Deleted>>
  BY <1>7 DEF UpdateWrite, SetsPrivacy
<1>8. ASSUME NEW r \in Requests, AttachCheck(r)
      PROVE  UNCHANGED <<count, Living, Creating, Deleted>>
  BY <1>8 DEF AttachCheck, AttachRefused, AfterAttach
<1>9. ASSUME NEW r \in Requests, AttachMatch(r)
      PROVE  UNCHANGED <<count, Living, Creating, Deleted>>
  BY <1>9 DEF AttachMatch, AfterAttach
<1>10. ASSUME NEW r \in Requests, CreateCount(r)
      PROVE  /\ count' = count + 1 /\ r \in Creating /\ Creating' = Creating \ {r}
             /\ UNCHANGED <<Living, Deleted>>
  BY <1>10 DEF CreateCount, Ops
<1>11. ASSUME NEW r \in Requests, Sync(r)
      PROVE  UNCHANGED <<count, Living, Creating, Deleted>>
  BY <1>11 DEF Sync
<1>12. ASSUME NEW r \in Requests, Reread(r)
      PROVE  UNCHANGED <<count, Living, Creating, Deleted>>
  BY <1>12 DEF Reread
<1>13. ASSUME NEW r \in Requests, DeleteCascade(r)
      PROVE  \/ UNCHANGED <<count, Living, Creating, Deleted>>
             \/ /\ on[r] \in Living /\ Living' = Living \ {on[r]}
                /\ r \notin Deleted /\ Deleted' = Deleted \cup {r}
                /\ UNCHANGED <<count, Creating>>
  BY <1>13 DEF DeleteCascade
<1>14. ASSUME NEW r \in Requests, DeleteAfter(r)
      PROVE  /\ count' = count - 1 /\ r \in Deleted /\ Deleted' = Deleted \ {r}
             /\ UNCHANGED <<Living, Creating>>
  BY <1>14 DEF DeleteAfter
<1>15. ASSUME NEW r \in Requests, HideWrite(r)
      PROVE  UNCHANGED <<count, Living, Creating, Deleted>>
  BY <1>15 DEF HideWrite
<1>16. ASSUME NEW r \in Requests, HideAfter(r)
      PROVE  UNCHANGED <<count, Living, Creating, Deleted>>
  BY <1>16 DEF HideAfter
<1>17. ASSUME NEW r \in Requests, UnhideWrite(r)
      PROVE  UNCHANGED <<count, Living, Creating, Deleted>>
  BY <1>17 DEF UnhideWrite
<1>18. ASSUME NEW r \in Requests, FetchCheck(r)
      PROVE  UNCHANGED <<count, Living, Creating, Deleted>>
  BY <1>18 DEF FetchCheck, Serves
<1>19. ASSUME NEW r \in Requests, FetchDone(r)
      PROVE  UNCHANGED <<count, Living, Creating, Deleted>>
  BY <1>19 DEF FetchDone
<1>20. ASSUME NEW r \in Requests, Crash(r)
      PROVE  FALSE
  BY <1>20 DEF Crash
<1>21. ASSUME NEW d \in Diaries, Wipe(d)
      PROVE  UNCHANGED <<count, Living, Creating, Deleted>>
  BY <1>21 DEF Wipe
<1>22. \A r \in Requests : at[r] # "idle" => on[r] \in Diaries
  OBVIOUS
<1> HIDE DEF PrivacyInv, TypeOK, Living, Creating, Deleted
<1>23. ASSUME NEW r \in Requests, DeleteCascade(r)
      PROVE  on[r] \in Diaries
  BY <1>22, <1>23 DEF DeleteCascade
<1> QED
  BY <1>1, <1>2, <1>3, <1>4, <1>5, <1>6, <1>7, <1>8, <1>9, <1>10, <1>11, <1>12, <1>13,
     <1>14, <1>15, <1>16, <1>17, <1>18, <1>19, <1>20, <1>21, <1>23 DEF Next

\* The counter stays balanced.
LEMMA BalanceStep ==
    ASSUME IsFiniteSet(Diaries), IsFiniteSet(Requests), PrivacyInv, Balance, [Next]_vars
    PROVE  Balance'
<1> SUFFICES ASSUME cut' = {}
             PROVE  count' + Cardinality(Creating')
                      = Cardinality(Living') + Cardinality(Deleted')
  BY DEF Balance
<1>1. cut = {}
  <2>1. ASSUME NEW r \in Requests, AttachCheck(r) \/ AttachMatch(r) \/ Crash(r)
        PROVE  cut \subseteq cut'
    BY <2>1 DEF AttachCheck, AttachRefused, AttachMatch, Crash
  <2>2. UNCHANGED cut \/ \E r \in Requests : AttachCheck(r) \/ AttachMatch(r) \/ Crash(r)
    BY DEF Next, vars, Create, Update, Delete, Hide, Unhide, Fetch, UpdateWrite, CreateCount,
       Sync, Reread, DeleteCascade, DeleteAfter, HideWrite, HideAfter, UnhideWrite, FetchCheck,
       FetchDone, Wipe
  <2> QED
    BY <2>1, <2>2
<1>2. count + Cardinality(Creating) = Cardinality(Living) + Cardinality(Deleted) /\ count \in Int
  BY <1>1 DEF Balance, PrivacyInv, TypeOK
<1>3. ASSUME UNCHANGED <<count, Living, Creating, Deleted>>
      PROVE  count' + Cardinality(Creating') = Cardinality(Living') + Cardinality(Deleted')
  BY <1>2, <1>3
<1>4. ASSUME NEW r \in Requests, NEW d \in Diaries,
             d \notin Living, Living' = Living \cup {d},
             r \notin Creating, Creating' = Creating \cup {r}, UNCHANGED <<count, Deleted>>
      PROVE  count' + Cardinality(Creating') = Cardinality(Living') + Cardinality(Deleted')
  <2>1. /\ Cardinality(Living') = Cardinality(Living) + 1
        /\ Cardinality(Creating') = Cardinality(Creating) + 1
    BY <1>4, CountedFinite, FS_AddElement
  <2> QED
    BY <1>2, <1>4, <2>1, CountedFinite
<1>5. ASSUME NEW r \in Requests, count' = count + 1, r \in Creating,
             Creating' = Creating \ {r}, UNCHANGED <<Living, Deleted>>
      PROVE  count' + Cardinality(Creating') = Cardinality(Living') + Cardinality(Deleted')
  <2>1. Cardinality(Creating') = Cardinality(Creating) - 1
    BY <1>5, CountedFinite, FS_RemoveElement
  <2> QED
    BY <1>2, <1>5, <2>1, CountedFinite
<1>6. ASSUME NEW r \in Requests, NEW d \in Diaries, d \in Living, Living' = Living \ {d},
             r \notin Deleted, Deleted' = Deleted \cup {r}, UNCHANGED <<count, Creating>>
      PROVE  count' + Cardinality(Creating') = Cardinality(Living') + Cardinality(Deleted')
  <2>1. /\ Cardinality(Living') = Cardinality(Living) - 1
        /\ Cardinality(Deleted') = Cardinality(Deleted) + 1
    BY <1>6, CountedFinite, FS_AddElement, FS_RemoveElement
  <2> QED
    BY <1>2, <1>6, <2>1, CountedFinite
<1>7. ASSUME NEW r \in Requests, count' = count - 1, r \in Deleted,
             Deleted' = Deleted \ {r}, UNCHANGED <<Living, Creating>>
      PROVE  count' + Cardinality(Creating') = Cardinality(Living') + Cardinality(Deleted')
  <2>1. Cardinality(Deleted') = Cardinality(Deleted) - 1
    BY <1>7, CountedFinite, FS_RemoveElement
  <2> QED
    BY <1>2, <1>7, <2>1, CountedFinite
<1>8. CASE Next
  BY <1>3, <1>4, <1>5, <1>6, <1>7, <1>8, CountedSets
<1>9. CASE UNCHANGED vars
  BY <1>3, <1>9 DEF vars, diaryVars, Living, Creating, Deleted, Exists
<1> QED
  BY <1>8, <1>9

\* diary_count is exact whenever nothing is under way and nothing was cut short, however
\* many deletions of one diary race.
THEOREM DiaryCountExact ==
    ASSUME IsFiniteSet(Diaries), IsFiniteSet(Requests)
    PROVE  Spec => []CountExact
<1>1. Init => Balance
  <2> SUFFICES ASSUME Init PROVE Balance
    OBVIOUS
  <2>1. Living = {} /\ Creating = {} /\ Deleted = {} /\ count = 0
    BY DEF Init, Living, Creating, Deleted, Exists, Stored, Choices
  <2> QED
    BY <2>1, FS_EmptySet DEF Balance
<1>2. PrivacyInv /\ Balance /\ [Next]_vars => Balance'
  BY BalanceStep
<1>3. ASSUME PrivacyInv, Balance PROVE CountExact
  <2> SUFFICES ASSUME cut = {}, \A r \in Requests : at[r] = "idle"
               PROVE  count = Cardinality(Living)
    BY DEF CountExact, Living
  <2>1. Creating = {} /\ Deleted = {}
    BY <1>3 DEF PrivacyInv, Fits, RightStep, Creating, Deleted
  <2>2. Cardinality(Creating) = 0 /\ Cardinality(Deleted) = 0
    BY <2>1, FS_EmptySet
  <2> QED
    BY <1>3, <2>2, CountedFinite DEF Balance, PrivacyInv, TypeOK
<1> QED
  BY PrivacyInvariant, <1>1, <1>2, <1>3, PTL DEF Spec

=============================================================================
