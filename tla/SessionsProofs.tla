--------------------------- MODULE SessionsProofs ---------------------------
(* Rotation, lifetime and revocation of sessions, for any number of logins, *)
(* of requests at the same time, and of Redis failures.                     *)
EXTENDS Sessions, FiniteSetTheorems, TLAPS

\* The steps of a handler that opens or renews a session, and of one that is asked by
\* an access token.
Opening == {"user", "issue", "insert"}
Asking == {"cached", "mongo", "alone", "fill", "admit", "in"}

\* What handler h has in its hands: a session that has begun, and when; and a refresh
\* token only if it was consumed in time.
Hands(h) ==
    /\ at[h] \in Opening => sess[h] \in Logins /\ began[sess[h]] # -1
    /\ at[h] \in Opening /\ origin[h] # -1 => origin[h] = began[sess[h]]
    /\ at[h] \notin Opening => origin[h] = -1 /\ consumed[h] = -1
    /\ at[h] \in Asking \cup {"insert"} => stamp[h] >= 0
    /\ consumed[h] # -1 => origin[h] # -1 /\ consumed[h] - origin[h] <= SessionLife

\* A refresh token remembers when its session began.
OriginKept == \A t \in refresh : t.origin = began[t.sess]

\* No session is there twice.
Single ==
    /\ \A t, u \in refresh : t.sess = u.sess => t = u
    /\ \A h, k \in Handlers : at[h] \in Opening /\ at[k] \in Opening /\ sess[h] = sess[k] => h = k
    /\ \A t \in refresh, h \in Handlers : at[h] \in Opening => t.sess # sess[h]

\* A session of an old password was being produced during a purge, or a purge is to come.
Excused(s) == version[s] = password \/ s \in straddled
Passwords ==
    \/ \E h \in Handlers : at[h] = "purge"
    \/ /\ \A t \in refresh : Excused(t.sess)
       /\ \A h \in Handlers : at[h] \in Opening => Excused(sess[h])

\* What the comparison relies on while nothing has raced: times of revocation are unset
\* or positive, the stored one is the latest, the cache is not behind a finished
\* revocation, and a handler holds what is stored.
RevocationTimes == {-1} \cup 1..clock
Revocation ==
    ~raced =>
      /\ invalidBefore \in RevocationTimes /\ revoked \in RevocationTimes /\ revoked <= invalidBefore
      /\ cache.value # -1 => cache.value >= revoked
      /\ \A h \in Handlers :
           /\ at[h] = "store" => stamp[h] >= invalidBefore /\ stamp[h] \in 1..clock
           /\ at[h] = "publish" => stamp[h] = invalidBefore
           /\ at[h] = "fill" => read[h] = invalidBefore
           /\ at[h] \in Asking => cutoff[h] <= revoked /\ cutoff[h] \in RevocationTimes
           /\ at[h] \in {"admit", "in"} => stamp[h] > cutoff[h]

SessionInv ==
    /\ TypeOK /\ password <= endings /\ (\A h \in Handlers : Hands(h))
    /\ OriginKept /\ Single /\ Passwords /\ Revocation

-----------------------------------------------------------------------------

\* A new user, or one who logged out everywhere, has no session.
LEMMA SessionsStart == Init => SessionInv
<1> SUFFICES ASSUME Init PROVE SessionInv
  OBVIOUS
<1>1. TypeOK
  <2>1. clock \in 2..MaxClock /\ -1 \in Times /\ 1 \in Times /\ 0 \in 0..MaxEndings /\ 0 \in 0..MaxLinks
        /\ 0 \in 0..MaxTokens /\ 0 \in 0..MaxFaults
    BY SessionConstants DEF Init, Times
  <2> QED
    BY <2>1 DEF Init, TypeOK, Steps, NoCache
<1>2. password <= endings /\ \A h \in Handlers : Hands(h)
  BY DEF Init, Hands, Opening, Asking
<1>3. OriginKept /\ Single /\ Passwords
  BY DEF Init, OriginKept, Single, Passwords, Opening
<1>4. Revocation
  BY DEF Init, Revocation, NoCache, Asking, RevocationTimes
<1> QED
  BY <1>1, <1>2, <1>3, <1>4 DEF SessionInv

\* Type correctness is kept.
LEMMA TypeStep ==
    ASSUME SessionInv, Next
    PROVE  TypeOK'
<1> USE SessionConstants
    DEF SessionInv, TypeOK, Hands, Opening, Asking, Times, Steps, RefreshToken,
        AccessToken, userVars, tokenVars,
        revocationVars, handlerVars, ghostSession, ghostRevocation, Go, Pass, End
<1>1. CASE Tick
  BY <1>1 DEF Tick
<1>2. CASE RequestReset
  BY <1>2 DEF RequestReset
<1>3. CASE Unban
  BY <1>3 DEF Unban
<1>4. ASSUME NEW h \in Handlers, NEW s \in Logins, Login(h, s) PROVE TypeOK'
  BY <1>4 DEF Login
<1>5. ASSUME NEW h \in Handlers, NEW t \in refresh, Refresh(h, t) PROVE TypeOK'
  BY <1>5 DEF Refresh
<1>6. ASSUME NEW h \in Handlers, NEW a \in access, Call(h, a) PROVE TypeOK'
  BY <1>6 DEF Call
<1>7. ASSUME NEW h \in Handlers, RefreshUser(h) PROVE TypeOK'
  BY <1>7 DEF RefreshUser
<1>8. ASSUME NEW h \in Handlers, Issue(h) PROVE TypeOK'
  BY <1>8 DEF Issue
<1>9. ASSUME NEW h \in Handlers, Insert(h) PROVE TypeOK'
  BY <1>9 DEF Insert
<1>10. ASSUME NEW h \in Handlers, AskRedis(h) PROVE TypeOK'
  BY <1>10 DEF AskRedis, Fault
<1>11. ASSUME NEW h \in Handlers, AskMongo(h) PROVE TypeOK'
  BY <1>11 DEF AskMongo
<1>12. ASSUME NEW h \in Handlers, AskMongoAlone(h) PROVE TypeOK'
  BY <1>12 DEF AskMongoAlone
<1>13. ASSUME NEW h \in Handlers, Fill(h) PROVE TypeOK'
  BY <1>13 DEF Fill, Fault
<1>14. ASSUME NEW h \in Handlers, Admit(h) PROVE TypeOK'
  BY <1>14 DEF Admit
<1>15. ASSUME NEW h \in Handlers, Answer(h) PROVE TypeOK'
  BY <1>15 DEF Answer
<1>16. ASSUME NEW h \in Handlers, Logout(h) PROVE TypeOK'
  BY <1>16 DEF Logout
<1>17. ASSUME NEW h \in Handlers, ChangePassword(h) PROVE TypeOK'
  BY <1>17 DEF ChangePassword
<1>18. ASSUME NEW h \in Handlers, ResetPassword(h) PROVE TypeOK'
  BY <1>18 DEF ResetPassword
<1>19. ASSUME NEW h \in Handlers, SetPassword(h) PROVE TypeOK'
  BY <1>19 DEF SetPassword
<1>20. ASSUME NEW h \in Handlers, Purge(h) PROVE TypeOK'
  BY <1>20 DEF Purge, InTransit
<1>21. ASSUME NEW h \in Handlers, Store(h) PROVE TypeOK'
  BY <1>21 DEF Store
<1>22. ASSUME NEW h \in Handlers, Publish(h) PROVE TypeOK'
  <2>1. cache' \in [value : Times, expires : Nat] /\ faults' \in 0..MaxFaults /\ raced' \in BOOLEAN
    <3>1. CASE cache' = [value |-> stamp[h], expires |-> clock + 2 * AccessLife]
               /\ UNCHANGED <<faults, raced>>
      BY <3>1
    <3>2. CASE Fault /\ raced' = TRUE /\ UNCHANGED cache
      BY <3>2 DEF Fault
    <3> QED
      BY <1>22, <3>1, <3>2 DEF Publish
  <2>2. revoked' \in Times
    BY <1>22 DEF Publish
  <2>3. /\ at' \in [Handlers -> Steps] /\ sess' \in [Handlers -> Logins \cup {NoLogin}]
        /\ origin' \in [Handlers -> Times] /\ stamp' \in [Handlers -> Times]
        /\ read' \in [Handlers -> Times] /\ consumed' \in [Handlers -> Times]
        /\ cutoff' \in [Handlers -> Times]
    BY <1>22 DEF Publish
  <2>4. UNCHANGED <<clock, userVars, tokenVars, invalidBefore, ghostSession, endings>>
    BY <1>22 DEF Publish
  <2> QED
    BY <2>1, <2>2, <2>3, <2>4
<1>23. ASSUME NEW h \in Handlers, Ban(h) PROVE TypeOK'
  BY <1>23 DEF Ban
<1>24. ASSUME NEW h \in Handlers, BanPurge(h) PROVE TypeOK'
  BY <1>24 DEF BanPurge, InTransit
<1> QED
    BY <1>1, <1>2, <1>3, <1>4, <1>5, <1>6, <1>7, <1>8, <1>9, <1>10, <1>11, <1>12, <1>13,
     <1>14, <1>15, <1>16, <1>17, <1>18, <1>19, <1>20, <1>21, <1>22, <1>23, <1>24 DEF
     Next

\* A handler only carries what it read, and End leaves it with empty hands.
LEMMA HandsStep ==
    ASSUME SessionInv, Next, TypeOK'
    PROVE  \A k \in Handlers : Hands(k)'
<1> USE SessionConstants
    DEF SessionInv, TypeOK, Hands, Opening, Asking, OriginKept, Single, Times, Steps,
        RefreshToken, AccessToken, userVars, tokenVars,
        revocationVars, handlerVars, ghostSession, ghostRevocation, Go, Pass, End
<1>1. CASE Tick
  BY <1>1 DEF Tick
<1>2. CASE RequestReset
  BY <1>2 DEF RequestReset
<1>3. CASE Unban
  BY <1>3 DEF Unban
<1>4. ASSUME NEW h \in Handlers, NEW s \in Logins, Login(h, s)
      PROVE  \A k \in Handlers : Hands(k)'
  BY <1>4 DEF Login
<1>5. ASSUME NEW h \in Handlers, NEW t \in refresh, Refresh(h, t)
      PROVE  \A k \in Handlers : Hands(k)'
  BY <1>5 DEF Refresh
<1>6. ASSUME NEW h \in Handlers, NEW a \in access, Call(h, a)
      PROVE  \A k \in Handlers : Hands(k)'
  BY <1>6 DEF Call
<1>7. ASSUME NEW h \in Handlers, RefreshUser(h) PROVE \A k \in Handlers : Hands(k)'
  BY <1>7 DEF RefreshUser
<1>8. ASSUME NEW h \in Handlers, Issue(h) PROVE \A k \in Handlers : Hands(k)'
  BY <1>8 DEF Issue
<1>9. ASSUME NEW h \in Handlers, Insert(h) PROVE \A k \in Handlers : Hands(k)'
  BY <1>9 DEF Insert
<1>10. ASSUME NEW h \in Handlers, AskRedis(h) PROVE \A k \in Handlers : Hands(k)'
  BY <1>10 DEF AskRedis
<1>11. ASSUME NEW h \in Handlers, AskMongo(h) PROVE \A k \in Handlers : Hands(k)'
  BY <1>11 DEF AskMongo
<1>12. ASSUME NEW h \in Handlers, AskMongoAlone(h) PROVE \A k \in Handlers : Hands(k)'
  BY <1>12 DEF AskMongoAlone
<1>13. ASSUME NEW h \in Handlers, Fill(h) PROVE \A k \in Handlers : Hands(k)'
  BY <1>13 DEF Fill
<1>14. ASSUME NEW h \in Handlers, Admit(h) PROVE \A k \in Handlers : Hands(k)'
  BY <1>14 DEF Admit
<1>15. ASSUME NEW h \in Handlers, Answer(h) PROVE \A k \in Handlers : Hands(k)'
  BY <1>15 DEF Answer
<1>16. ASSUME NEW h \in Handlers, Logout(h) PROVE \A k \in Handlers : Hands(k)'
  BY <1>16 DEF Logout
<1>17. ASSUME NEW h \in Handlers, ChangePassword(h) PROVE \A k \in Handlers : Hands(k)'
  BY <1>17 DEF ChangePassword
<1>18. ASSUME NEW h \in Handlers, ResetPassword(h) PROVE \A k \in Handlers : Hands(k)'
  BY <1>18 DEF ResetPassword
<1>19. ASSUME NEW h \in Handlers, SetPassword(h) PROVE \A k \in Handlers : Hands(k)'
  BY <1>19 DEF SetPassword
<1>20. ASSUME NEW h \in Handlers, Purge(h) PROVE \A k \in Handlers : Hands(k)'
  BY <1>20 DEF Purge
<1>21. ASSUME NEW h \in Handlers, Store(h) PROVE \A k \in Handlers : Hands(k)'
  BY <1>21 DEF Store
<1>22. ASSUME NEW h \in Handlers, Publish(h) PROVE \A k \in Handlers : Hands(k)'
  BY <1>22 DEF Publish
<1>23. ASSUME NEW h \in Handlers, Ban(h) PROVE \A k \in Handlers : Hands(k)'
  BY <1>23 DEF Ban
<1>24. ASSUME NEW h \in Handlers, BanPurge(h) PROVE \A k \in Handlers : Hands(k)'
  BY <1>24 DEF BanPurge
<1> QED
    BY <1>1, <1>2, <1>3, <1>4, <1>5, <1>6, <1>7, <1>8, <1>9, <1>10, <1>11, <1>12, <1>13,
     <1>14, <1>15, <1>16, <1>17, <1>18, <1>19, <1>20, <1>21, <1>22, <1>23, <1>24 DEF
     Next

\* A renewed token takes over the time of the one it replaces; a login's time is only set
\* again while it has no token.
LEMMA OriginStep ==
    ASSUME SessionInv, Next, TypeOK'
    PROVE  OriginKept'
<1> USE SessionConstants
    DEF SessionInv, TypeOK, Hands, Opening, OriginKept, Single, RefreshToken, userVars, tokenVars,
        revocationVars, handlerVars, ghostSession, ghostRevocation, Go, Pass, End
<1>1. CASE Tick
  BY <1>1 DEF Tick
<1>2. CASE RequestReset
  BY <1>2 DEF RequestReset
<1>3. CASE Unban
  BY <1>3 DEF Unban
<1>4. ASSUME NEW h \in Handlers, NEW s \in Logins, Login(h, s) PROVE OriginKept'
  BY <1>4 DEF Login
<1>5. ASSUME NEW h \in Handlers, NEW t \in refresh, Refresh(h, t) PROVE OriginKept'
  BY <1>5 DEF Refresh
<1>6. ASSUME NEW h \in Handlers, NEW a \in access, Call(h, a) PROVE OriginKept'
  BY <1>6 DEF Call
<1>7. ASSUME NEW h \in Handlers, RefreshUser(h) PROVE OriginKept'
  BY <1>7 DEF RefreshUser
<1>8. ASSUME NEW h \in Handlers, Issue(h) PROVE OriginKept'
  BY <1>8 DEF Issue
<1>9. ASSUME NEW h \in Handlers, Insert(h) PROVE OriginKept'
  BY <1>9 DEF Insert
<1>10. ASSUME NEW h \in Handlers, AskRedis(h) PROVE OriginKept'
  BY <1>10 DEF AskRedis
<1>11. ASSUME NEW h \in Handlers, AskMongo(h) PROVE OriginKept'
  BY <1>11 DEF AskMongo
<1>12. ASSUME NEW h \in Handlers, AskMongoAlone(h) PROVE OriginKept'
  BY <1>12 DEF AskMongoAlone
<1>13. ASSUME NEW h \in Handlers, Fill(h) PROVE OriginKept'
  BY <1>13 DEF Fill
<1>14. ASSUME NEW h \in Handlers, Admit(h) PROVE OriginKept'
  BY <1>14 DEF Admit
<1>15. ASSUME NEW h \in Handlers, Answer(h) PROVE OriginKept'
  BY <1>15 DEF Answer
<1>16. ASSUME NEW h \in Handlers, Logout(h) PROVE OriginKept'
  BY <1>16 DEF Logout
<1>17. ASSUME NEW h \in Handlers, ChangePassword(h) PROVE OriginKept'
  BY <1>17 DEF ChangePassword
<1>18. ASSUME NEW h \in Handlers, ResetPassword(h) PROVE OriginKept'
  BY <1>18 DEF ResetPassword
<1>19. ASSUME NEW h \in Handlers, SetPassword(h) PROVE OriginKept'
  BY <1>19 DEF SetPassword
<1>20. ASSUME NEW h \in Handlers, Purge(h) PROVE OriginKept'
  BY <1>20 DEF Purge
<1>21. ASSUME NEW h \in Handlers, Store(h) PROVE OriginKept'
  BY <1>21 DEF Store
<1>22. ASSUME NEW h \in Handlers, Publish(h) PROVE OriginKept'
  BY <1>22 DEF Publish
<1>23. ASSUME NEW h \in Handlers, Ban(h) PROVE OriginKept'
  BY <1>23 DEF Ban
<1>24. ASSUME NEW h \in Handlers, BanPurge(h) PROVE OriginKept'
  BY <1>24 DEF BanPurge
<1> QED
    BY <1>1, <1>2, <1>3, <1>4, <1>5, <1>6, <1>7, <1>8, <1>9, <1>10, <1>11, <1>12, <1>13,
     <1>14, <1>15, <1>16, <1>17, <1>18, <1>19, <1>20, <1>21, <1>22, <1>23, <1>24 DEF
     Next

\* find_one_and_delete: what Refresh takes is in the collection no more.
LEMMA SingleStep ==
    ASSUME SessionInv, Next, TypeOK'
    PROVE  Single'
<1> USE SessionConstants
    DEF SessionInv, TypeOK, Hands, Opening, OriginKept, Single, RefreshToken, userVars, tokenVars,
        revocationVars, handlerVars, ghostSession, ghostRevocation, Go, Pass, End
<1>1. CASE Tick
  BY <1>1 DEF Tick
<1>2. CASE RequestReset
  BY <1>2 DEF RequestReset
<1>3. CASE Unban
  BY <1>3 DEF Unban
<1>4. ASSUME NEW h \in Handlers, NEW s \in Logins, Login(h, s) PROVE Single'
  BY <1>4 DEF Login
<1>5. ASSUME NEW h \in Handlers, NEW t \in refresh, Refresh(h, t) PROVE Single'
  BY <1>5 DEF Refresh
<1>6. ASSUME NEW h \in Handlers, NEW a \in access, Call(h, a) PROVE Single'
  BY <1>6 DEF Call
<1>7. ASSUME NEW h \in Handlers, RefreshUser(h) PROVE Single'
  <2>1. \A k \in Handlers : at'[k] \in Opening => at[k] \in Opening /\ sess'[k] = sess[k]
    BY <1>7 DEF RefreshUser
  <2>2. UNCHANGED refresh
    BY <1>7 DEF RefreshUser
  <2> QED
    BY <2>1, <2>2
<1>8. ASSUME NEW h \in Handlers, Issue(h) PROVE Single'
  BY <1>8 DEF Issue
<1>9. ASSUME NEW h \in Handlers, Insert(h) PROVE Single'
  BY <1>9 DEF Insert
<1>10. ASSUME NEW h \in Handlers, AskRedis(h) PROVE Single'
  BY <1>10 DEF AskRedis
<1>11. ASSUME NEW h \in Handlers, AskMongo(h) PROVE Single'
  BY <1>11 DEF AskMongo
<1>12. ASSUME NEW h \in Handlers, AskMongoAlone(h) PROVE Single'
  BY <1>12 DEF AskMongoAlone
<1>13. ASSUME NEW h \in Handlers, Fill(h) PROVE Single'
  BY <1>13 DEF Fill
<1>14. ASSUME NEW h \in Handlers, Admit(h) PROVE Single'
  BY <1>14 DEF Admit
<1>15. ASSUME NEW h \in Handlers, Answer(h) PROVE Single'
  BY <1>15 DEF Answer
<1>16. ASSUME NEW h \in Handlers, Logout(h) PROVE Single'
  BY <1>16 DEF Logout
<1>17. ASSUME NEW h \in Handlers, ChangePassword(h) PROVE Single'
  BY <1>17 DEF ChangePassword
<1>18. ASSUME NEW h \in Handlers, ResetPassword(h) PROVE Single'
  BY <1>18 DEF ResetPassword
<1>19. ASSUME NEW h \in Handlers, SetPassword(h) PROVE Single'
  BY <1>19 DEF SetPassword
<1>20. ASSUME NEW h \in Handlers, Purge(h) PROVE Single'
  BY <1>20 DEF Purge
<1>21. ASSUME NEW h \in Handlers, Store(h) PROVE Single'
  BY <1>21 DEF Store
<1>22. ASSUME NEW h \in Handlers, Publish(h) PROVE Single'
  BY <1>22 DEF Publish
<1>23. ASSUME NEW h \in Handlers, Ban(h) PROVE Single'
  BY <1>23 DEF Ban
<1>24. ASSUME NEW h \in Handlers, BanPurge(h) PROVE Single'
  BY <1>24 DEF BanPurge
<1> QED
    BY <1>1, <1>2, <1>3, <1>4, <1>5, <1>6, <1>7, <1>8, <1>9, <1>10, <1>11, <1>12, <1>13,
     <1>14, <1>15, <1>16, <1>17, <1>18, <1>19, <1>20, <1>21, <1>22, <1>23, <1>24 DEF
     Next

\* A purge deletes what is stored and notes what is being produced.
LEMMA PasswordsStep ==
    ASSUME SessionInv, Next, TypeOK'
    PROVE  Passwords'
<1> USE SessionConstants
    DEF SessionInv, TypeOK, Hands, Opening, OriginKept, Single, Passwords, Excused,
        RefreshToken, userVars, tokenVars,
        revocationVars, handlerVars, ghostSession, ghostRevocation, Go, Pass, End
<1>1. CASE Tick
  BY <1>1 DEF Tick
<1>2. CASE RequestReset
  BY <1>2 DEF RequestReset
<1>3. CASE Unban
  BY <1>3 DEF Unban
<1>4. ASSUME NEW h \in Handlers, NEW s \in Logins, Login(h, s) PROVE Passwords'
  BY <1>4 DEF Login
<1>5. ASSUME NEW h \in Handlers, NEW t \in refresh, Refresh(h, t) PROVE Passwords'
  BY <1>5 DEF Refresh
<1>6. ASSUME NEW h \in Handlers, NEW a \in access, Call(h, a) PROVE Passwords'
  BY <1>6 DEF Call
<1>7. ASSUME NEW h \in Handlers, RefreshUser(h) PROVE Passwords'
  BY <1>7 DEF RefreshUser
<1>8. ASSUME NEW h \in Handlers, Issue(h) PROVE Passwords'
  BY <1>8 DEF Issue
<1>9. ASSUME NEW h \in Handlers, Insert(h) PROVE Passwords'
  BY <1>9 DEF Insert
<1>10. ASSUME NEW h \in Handlers, AskRedis(h) PROVE Passwords'
  BY <1>10 DEF AskRedis
<1>11. ASSUME NEW h \in Handlers, AskMongo(h) PROVE Passwords'
  BY <1>11 DEF AskMongo
<1>12. ASSUME NEW h \in Handlers, AskMongoAlone(h) PROVE Passwords'
  BY <1>12 DEF AskMongoAlone
<1>13. ASSUME NEW h \in Handlers, Fill(h) PROVE Passwords'
  BY <1>13 DEF Fill
<1>14. ASSUME NEW h \in Handlers, Admit(h) PROVE Passwords'
  BY <1>14 DEF Admit
<1>15. ASSUME NEW h \in Handlers, Answer(h) PROVE Passwords'
  BY <1>15 DEF Answer
<1>16. ASSUME NEW h \in Handlers, Logout(h) PROVE Passwords'
  BY <1>16 DEF Logout
<1>17. ASSUME NEW h \in Handlers, ChangePassword(h) PROVE Passwords'
  BY <1>17 DEF ChangePassword
<1>18. ASSUME NEW h \in Handlers, ResetPassword(h) PROVE Passwords'
  BY <1>18 DEF ResetPassword
<1>19. ASSUME NEW h \in Handlers, SetPassword(h) PROVE Passwords'
  BY <1>19 DEF SetPassword
<1>20. ASSUME NEW h \in Handlers, Purge(h) PROVE Passwords'
  BY <1>20 DEF Purge, InTransit
<1>21. ASSUME NEW h \in Handlers, Store(h) PROVE Passwords'
  BY <1>21 DEF Store
<1>22. ASSUME NEW h \in Handlers, Publish(h) PROVE Passwords'
  BY <1>22 DEF Publish
<1>23. ASSUME NEW h \in Handlers, Ban(h) PROVE Passwords'
  BY <1>23 DEF Ban
<1>24. ASSUME NEW h \in Handlers, BanPurge(h) PROVE Passwords'
  BY <1>24 DEF BanPurge, InTransit
<1> QED
    BY <1>1, <1>2, <1>3, <1>4, <1>5, <1>6, <1>7, <1>8, <1>9, <1>10, <1>11, <1>12, <1>13,
     <1>14, <1>15, <1>16, <1>17, <1>18, <1>19, <1>20, <1>21, <1>22, <1>23, <1>24 DEF
     Next

\* Every answer that lets a token pass is as new as the last finished revocation.
LEMMA RevocationStep ==
    ASSUME SessionInv, Next, TypeOK'
    PROVE  Revocation'
<1> USE SessionConstants
    DEF SessionInv, TypeOK, Hands, Opening, Asking, Revocation, RevocationTimes, Times,
        AccessToken, userVars, tokenVars,
        revocationVars, handlerVars, ghostSession, ghostRevocation, Go, Pass, End
<1>1. CASE Tick
  BY <1>1 DEF Tick
<1>2. CASE RequestReset
  BY <1>2 DEF RequestReset
<1>3. CASE Unban
  BY <1>3 DEF Unban
<1>4. ASSUME NEW h \in Handlers, NEW s \in Logins, Login(h, s) PROVE Revocation'
  BY <1>4 DEF Login
<1>5. ASSUME NEW h \in Handlers, NEW t \in refresh, Refresh(h, t) PROVE Revocation'
  BY <1>5 DEF Refresh
<1>6. ASSUME NEW h \in Handlers, NEW a \in access, Call(h, a) PROVE Revocation'
  BY <1>6 DEF Call
<1>7. ASSUME NEW h \in Handlers, RefreshUser(h) PROVE Revocation'
  BY <1>7 DEF RefreshUser
<1>8. ASSUME NEW h \in Handlers, Issue(h) PROVE Revocation'
  BY <1>8 DEF Issue
<1>9. ASSUME NEW h \in Handlers, Insert(h) PROVE Revocation'
  BY <1>9 DEF Insert
<1>10. ASSUME NEW h \in Handlers, AskRedis(h) PROVE Revocation'
  BY <1>10 DEF AskRedis, CacheHit, Rejects, Fault
<1>11. ASSUME NEW h \in Handlers, AskMongo(h) PROVE Revocation'
  BY <1>11 DEF AskMongo
<1>12. ASSUME NEW h \in Handlers, AskMongoAlone(h) PROVE Revocation'
  BY <1>12 DEF AskMongoAlone, Rejects
<1>13. ASSUME NEW h \in Handlers, Fill(h) PROVE Revocation'
  BY <1>13 DEF Fill, Rejects, Fault
<1>14. ASSUME NEW h \in Handlers, Admit(h) PROVE Revocation'
  BY <1>14 DEF Admit
<1>15. ASSUME NEW h \in Handlers, Answer(h) PROVE Revocation'
  BY <1>15 DEF Answer
<1>16. ASSUME NEW h \in Handlers, Logout(h) PROVE Revocation'
  BY <1>16 DEF Logout
<1>17. ASSUME NEW h \in Handlers, ChangePassword(h) PROVE Revocation'
  BY <1>17 DEF ChangePassword
<1>18. ASSUME NEW h \in Handlers, ResetPassword(h) PROVE Revocation'
  BY <1>18 DEF ResetPassword
<1>19. ASSUME NEW h \in Handlers, SetPassword(h) PROVE Revocation'
  BY <1>19 DEF SetPassword
<1>20. ASSUME NEW h \in Handlers, Purge(h) PROVE Revocation'
  BY <1>20 DEF Purge
<1>21. ASSUME NEW h \in Handlers, Store(h) PROVE Revocation'
  <2>1. CASE raced'
    BY <2>1
  <2>2. CASE ~raced'
    <3>1. /\ ~raced /\ at[h] = "store" /\ invalidBefore' = stamp[h]
          /\ \A k \in Handlers \ {h} : at[k] \notin {"store", "publish", "fill"}
          /\ UNCHANGED <<clock, cache, revoked, stamp, read, cutoff>>
      BY <1>21, <2>2 DEF Store
    <3>2. \A k \in Handlers : at'[k] = IF k = h THEN "publish" ELSE at[k]
      BY <1>21 DEF Store
    <3>3. invalidBefore' \in 1..clock /\ revoked <= invalidBefore'
      BY <3>1
    <3> QED
      BY <3>1, <3>2, <3>3
  <2> QED
    BY <2>1, <2>2
<1>22. ASSUME NEW h \in Handlers, Publish(h) PROVE Revocation'
  BY <1>22 DEF Publish, Fault
<1>23. ASSUME NEW h \in Handlers, Ban(h) PROVE Revocation'
  BY <1>23 DEF Ban
<1>24. ASSUME NEW h \in Handlers, BanPurge(h) PROVE Revocation'
  BY <1>24 DEF BanPurge
<1> QED
    BY <1>1, <1>2, <1>3, <1>4, <1>5, <1>6, <1>7, <1>8, <1>9, <1>10, <1>11, <1>12, <1>13,
     <1>14, <1>15, <1>16, <1>17, <1>18, <1>19, <1>20, <1>21, <1>22, <1>23, <1>24 DEF
     Next

\* No password is set without an ending.
LEMMA CountedStep ==
    ASSUME SessionInv, Next, TypeOK'
    PROVE  password' <= endings'
<1>1. CASE UNCHANGED password /\ endings' >= endings
  BY <1>1 DEF SessionInv, TypeOK
<1>2. CASE password' = password + 1 /\ endings' = endings + 1
  BY <1>2 DEF SessionInv, TypeOK
<1>3. (UNCHANGED password /\ endings' \in {endings, endings + 1})
        \/ (password' = password + 1 /\ endings' = endings + 1)
  BY DEF Next, Tick, RequestReset, Unban, Login, Refresh, Call, RefreshUser, Issue, Insert,
     AskRedis, AskMongo, AskMongoAlone, Fill, Admit, Answer, Logout, ChangePassword,
     ResetPassword, SetPassword, Purge, Store, Publish, Ban, BanPurge, userVars
<1> QED
  BY <1>1, <1>2, <1>3 DEF SessionInv, TypeOK

\* The invariant is inductive.
LEMMA SessionsStep == SessionInv /\ [Next]_vars => SessionInv'
<1>1. ASSUME SessionInv, Next PROVE SessionInv'
  <2>1. TypeOK'
    BY <1>1, TypeStep
  <2>2. password' <= endings' /\ \A h \in Handlers : Hands(h)'
    BY <1>1, <2>1, CountedStep, HandsStep
  <2>3. OriginKept' /\ Single'
    BY <1>1, <2>1, OriginStep, SingleStep
  <2>4. Passwords' /\ Revocation'
    BY <1>1, <2>1, PasswordsStep, RevocationStep
  <2> QED
    BY <2>1, <2>2, <2>3, <2>4 DEF SessionInv
<1>2. ASSUME SessionInv, UNCHANGED vars PROVE SessionInv'
  BY <1>2 DEF vars, userVars, tokenVars, revocationVars, handlerVars, ghostSession,
     ghostRevocation, SessionInv, TypeOK, Hands, OriginKept, Single, Passwords, Excused,
     Revocation, RevocationTimes
<1> QED
  BY <1>1, <1>2

\* The state is well typed, and the parts of the invariant hold in every behaviour.
THEOREM SessionsInvariant == Spec => []SessionInv
BY SessionsStart, SessionsStep, PTL DEF Spec

\* The type invariant of Sessions holds for any logins, handlers and bounds.
THEOREM SessionsTypeCorrect == Spec => []TypeOK
<1>1. SessionInv => TypeOK
  BY DEF SessionInv
<1> QED
  BY SessionsInvariant, <1>1, PTL

\* A set without two members has none or one.
LEMMA AtMostOne ==
    ASSUME NEW S, \A x, y \in S : x = y
    PROVE  /\ Cardinality(S) \in {0, 1}
           /\ Cardinality(S) = 1 => S # {}
<1>1. CASE S = {}
  BY <1>1, FS_EmptySet
<1>2. CASE S # {}
  <2>1. PICK x \in S : TRUE
    BY <1>2
  <2>2. S = {x}
    BY <2>1
  <2> QED
    BY <2>2, FS_Singleton
<1> QED
  BY <1>1, <1>2

\* Rotation: however many requests use the same refresh token, at most one token of a
\* session is in the collection or on its way.
THEOREM RotationLeavesOne == Spec => []OneTokenPerSession
<1>1. ASSUME SessionInv PROVE OneTokenPerSession
  <2> SUFFICES ASSUME NEW s \in Logins
               PROVE  Cardinality({t \in refresh : t.sess = s})
                        + Cardinality({h \in Handlers : sess[h] = s /\
                                          at[h] \in {"user", "issue", "insert"}}) <= 1
    BY DEF OneTokenPerSession
  <2> DEFINE T == {t \in refresh : t.sess = s}
             H == {h \in Handlers : sess[h] = s /\ at[h] \in {"user", "issue", "insert"}}
  <2>1. \A t, u \in T : t = u
    BY <1>1 DEF SessionInv, Single
  <2>2. \A h, k \in H : h = k
    BY <1>1 DEF SessionInv, Single, Opening
  <2>3. T = {} \/ H = {}
    BY <1>1 DEF SessionInv, Single, Opening
  <2>4. /\ Cardinality(T) \in {0, 1} /\ (Cardinality(T) = 1 => T # {})
        /\ Cardinality(H) \in {0, 1} /\ (Cardinality(H) = 1 => H # {})
    <3> HIDE DEF T, H
    <3> QED
      BY <2>1, <2>2, AtMostOne
  <2> HIDE DEF T, H
  <2>5. Cardinality(T) + Cardinality(H) <= 1
    BY <2>3, <2>4
  <2> QED
    BY <2>5 DEF T, H
<1> QED
  BY SessionsInvariant, <1>1, PTL

\* However often it is renewed, no session is renewed later than SessionLife after it began.
THEOREM SessionsEnd == Spec => []SessionsExpire
<1>1. ASSUME SessionInv PROVE SessionsExpire
  <2> SUFFICES ASSUME NEW h \in Handlers, consumed[h] # -1
               PROVE  consumed[h] - began[sess[h]] <= SessionLife
    BY DEF SessionsExpire
  <2>1. Hands(h)
    BY <1>1 DEF SessionInv
  <2>2. origin[h] = began[sess[h]] /\ consumed[h] - origin[h] <= SessionLife
    BY <2>1 DEF Hands
  <2> QED
    BY <2>2
<1> QED
  BY SessionsInvariant, <1>1, PTL

\* After a change or reset of the password only sessions that were being produced during
\* the purge can be older.
THEOREM OldPasswordsGone == Spec => []OldPasswordLoggedOut
<1>1. SessionInv => OldPasswordLoggedOut
  BY DEF SessionInv, Passwords, Excused, OldPasswordLoggedOut
<1> QED
  BY SessionsInvariant, <1>1, PTL

\* A token issued before a finished revocation, or in its second, is refused while nothing
\* raced, whether Redis, MongoDB or both are asked.
THEOREM RevokedTokensRejected == Spec => []RevokedRejected
<1>1. SessionInv => RevokedRejected
  BY DEF SessionInv, Revocation, RevokedRejected
<1> QED
  BY SessionsInvariant, <1>1, PTL

=============================================================================
