--------------------------- MODULE MasterKeyProofs ---------------------------
(* A private diary is lost only when its key is given up, the password     *)
(* opens the key, and a tab forgets it, whatever the number of tabs,       *)
(* diaries, keys and passwords.                                            *)
EXTENDS MasterKey, TLAPS

-----------------------------------------------------------------------------
(* Type correctness.                                                        *)

LEMMA Zero == 0 \in Keys /\ 0 \in Passwords
BY KeyConstants DEF Keys, Passwords

LEMMA TypeInit == Init => TypeOK
<1>1. 1 \in Passwords \ {0} /\ 0 \in 0..MaxMishaps /\ "idle" \in Steps
  BY KeyConstants DEF Passwords, Steps
<1> SUFFICES ASSUME Init PROVE TypeOK
  OBVIOUS
<1>2. at \in [Tabs -> Steps] /\ here \in [Tabs -> {"page", "tab", "gone"}]
  BY <1>1 DEF Init
<1>3. typed \in [Tabs -> Passwords] /\ fresh \in [Tabs -> Passwords] /\ hand \in [Tabs -> Keys]
  BY Zero DEF Init
<1>4. cached \in [Tabs -> Keys] /\ shown \in [Tabs -> Keys] /\ sealed \in [Diaries -> Keys]
  BY Zero DEF Init
<1>5. fetch \in [Tabs -> {"none", "sent", "yes", "no"}]
  BY DEF Init
<1>6. /\ token \in [Tabs -> BOOLEAN] /\ signed \in [Tabs -> BOOLEAN]
      /\ knows \in [Tabs -> BOOLEAN] /\ kept \in [Tabs -> BOOLEAN]
  BY DEF Init
<1>7. password \in Passwords \ {0} /\ chosen \in Passwords \ {0} /\ mishaps \in 0..MaxMishaps
  BY <1>1 DEF Init
<1>8. /\ wkey \in Keys /\ wpw \in Passwords /\ keys \in Keys /\ cookie \in BOOLEAN
      /\ replaced \subseteq Keys /\ overtaken \subseteq Tabs /\ excused \in BOOLEAN
  BY Zero DEF Init
<1> QED BY <1>2, <1>3, <1>4, <1>5, <1>6, <1>7, <1>8 DEF TypeOK

LEMMA EndType ==
    ASSUME TypeOK, NEW t \in Tabs, End(t)
    PROVE  /\ at' \in [Tabs -> Steps]
           /\ here' \in [Tabs -> {"page", "tab", "gone"}]
           /\ typed' \in [Tabs -> Passwords]
           /\ fresh' \in [Tabs -> Passwords]
           /\ hand' \in [Tabs -> Keys]
<1>1. "idle" \in Steps /\ 0 \in Passwords /\ 0 \in Keys
  BY KeyConstants DEF Steps, Passwords, Keys
<1> QED BY <1>1 DEF TypeOK, End, Go

LEMMA BeginType ==
    ASSUME TypeOK, NEW t \in Tabs, NEW s \in Steps, NEW p \in Passwords,
           NEW n \in Passwords, NEW k \in Keys, Begin(t, s, p, n, k)
    PROVE  /\ at' \in [Tabs -> Steps]
           /\ here' \in [Tabs -> {"page", "tab", "gone"}]
           /\ typed' \in [Tabs -> Passwords]
           /\ fresh' \in [Tabs -> Passwords]
           /\ hand' \in [Tabs -> Keys]
BY DEF TypeOK, Begin, Go

LEMMA LeaveType ==
    ASSUME TypeOK, NEW t \in Tabs, NEW w \in {"tab", "gone"}, Leave(t, w)
    PROVE  here' \in [Tabs -> {"page", "tab", "gone"}]
BY DEF TypeOK, Leave

LEMMA TakeType ==
    ASSUME TypeOK, NEW t \in Tabs, TakeKey(t)
    PROVE  /\ cached' \in [Tabs -> Keys]
           /\ shown' \in [Tabs -> Keys]
           /\ kept' \in [Tabs -> BOOLEAN]
<1>1. hand[t] \in Keys
  BY DEF TypeOK
<1>2. cached' \in [Tabs -> Keys]
  BY <1>1 DEF TypeOK, TakeKey
<1>3. shown' \in [Tabs -> Keys]
  BY <1>1 DEF TypeOK, TakeKey
<1>4. kept' \in [Tabs -> BOOLEAN]
  BY DEF TypeOK, TakeKey
<1> QED BY <1>2, <1>3, <1>4

LEMMA RestartType ==
    ASSUME TypeOK, NEW t \in Tabs, Restart(t)
    PROVE  /\ token' \in [Tabs -> BOOLEAN]
           /\ signed' \in [Tabs -> BOOLEAN]
           /\ knows' \in [Tabs -> BOOLEAN]
           /\ fetch' \in [Tabs -> {"none", "sent", "yes", "no"}]
           /\ cached' \in [Tabs -> Keys]
           /\ shown' \in [Tabs -> Keys]
           /\ kept' \in [Tabs -> BOOLEAN]
<1>1. 0 \in Keys
  BY KeyConstants DEF Keys
<1> QED BY <1>1 DEF TypeOK, Restart

LEMMA MishapType ==
    ASSUME TypeOK, Mishap \/ UNCHANGED mishaps
    PROVE  mishaps' \in 0..MaxMishaps
BY KeyConstants DEF TypeOK, Mishap

LEMMA PurgeType == Purge => cookie' \in BOOLEAN /\ token' \in [Tabs -> BOOLEAN]
BY DEF Purge

LEMMA TypeStep == TypeOK /\ FreshTyped /\ [Next]_vars => TypeOK'
<1> SUFFICES ASSUME TypeOK, FreshTyped, Next \/ UNCHANGED vars
             PROVE  TypeOK'
  OBVIOUS
<1> USE DEF serverVars, sessionVars, tabVars, requestVars, countVars, ghostVars
<1>1. ASSUME NEW t \in Tabs, Reload(t) PROVE TypeOK'
  BY <1>1, RestartType, EndType, LeaveType, MishapType DEF TypeOK, Reload
<1>2. ASSUME NEW t \in Tabs, Navigate(t) PROVE TypeOK'
  BY <1>2 DEF TypeOK, Navigate
<1>3. ASSUME NEW t \in Tabs, Inactive(t) PROVE TypeOK'
  BY <1>3, MishapType, Zero DEF TypeOK, Inactive
<1>4. ASSUME NEW t \in Tabs, Login(t) PROVE TypeOK'
  BY <1>4 DEF TypeOK, Login
<1>5. ASSUME NEW t \in Tabs, FetchRead(t) PROVE TypeOK'
  BY <1>5 DEF TypeOK, FetchRead
<1>6. ASSUME NEW t \in Tabs, FetchDone(t) PROVE TypeOK'
  BY <1>6 DEF TypeOK, FetchDone
<1>7. ASSUME NEW t \in Tabs, FetchFail(t) PROVE TypeOK'
  <2>1. kept' \in [Tabs -> BOOLEAN] /\ shown' \in [Tabs -> Keys]
    BY <1>7, Zero DEF TypeOK, FetchFail
  <2>2. mishaps' \in 0..MaxMishaps
    BY <1>7, MishapType DEF FetchFail
  <2>3. here' \in [Tabs -> {"page", "tab", "gone"}]
    BY <1>7, LeaveType DEF FetchFail
  <2> QED BY <1>7, <2>1, <2>2, <2>3 DEF TypeOK, FetchFail
<1>8. ASSUME NEW t \in Tabs, Logout(t) PROVE TypeOK'
  BY <1>8, LeaveType, MishapType, PurgeType, Zero DEF TypeOK, Logout
<1>9. ASSUME NEW t \in Tabs, Renew(t) PROVE TypeOK'
  BY <1>9 DEF TypeOK, Renew
<1>10. ASSUME NEW t \in Tabs, Expel(t) PROVE TypeOK'
  BY <1>10, RestartType, EndType DEF TypeOK, Expel
<1>11. ASSUME NEW t \in Tabs, Fail(t) PROVE TypeOK'
  BY <1>11, EndType, MishapType DEF TypeOK, Fail
<1>12. ASSUME NEW t \in Tabs, SetupAuth(t) PROVE TypeOK'
  BY <1>12 DEF TypeOK, SetupAuth, Go, Steps
<1>13. ASSUME NEW t \in Tabs, SetupStore(t) PROVE TypeOK'
  BY <1>13 DEF TypeOK, SetupStore, Go, Steps, Rewrapping
<1>14. ASSUME NEW t \in Tabs, SetupDone(t) PROVE TypeOK'
  BY <1>14, TakeType, EndType DEF TypeOK, SetupDone
<1>15. ASSUME NEW t \in Tabs, LoadRead(t) PROVE TypeOK'
  <2>1. Begin(t, "gotkey", 0, 0, wkey) /\ "gotkey" \in Steps /\ wkey \in Keys
    BY <1>15 DEF LoadRead, TypeOK, Steps
  <2> QED BY <1>15, <2>1, BeginType, Zero DEF TypeOK, LoadRead
<1>16. ASSUME NEW t \in Tabs, LoadDone(t) PROVE TypeOK'
  BY <1>16, TakeType, EndType DEF TypeOK, LoadDone
<1>17. ASSUME NEW t \in Tabs, RewrapDone(t) PROVE TypeOK'
  BY <1>17, TakeType DEF TypeOK, RewrapDone, Go, Steps
<1>18. ASSUME NEW t \in Tabs, ChangeVerify(t) PROVE TypeOK'
  BY <1>18 DEF TypeOK, ChangeVerify, Go, Steps
<1>19. ASSUME NEW t \in Tabs, ChangeWrite(t) PROVE TypeOK'
  <2>1. password' \in Passwords \ {0}
    BY <1>19 DEF ChangeWrite, TypeOK, FreshTyped
  <2> QED BY <1>19, <2>1, EndType, PurgeType DEF TypeOK, ChangeWrite, SetupInFlight, Rewrapping
<1>20. ASSUME NEW t \in Tabs, NEW p \in 1..chosen,
              SetupSend(t, p) \/ ChangeBlind(t, p) \/ RewrapRead(t, p)
       PROVE  TypeOK'
  <2>1. p \in Passwords /\ {"putkey", "putpw", "rewrapped"} \subseteq Steps
    BY KeyConstants DEF TypeOK, Passwords, Steps
  <2>2. mishaps' \in 0..MaxMishaps
    BY <1>20, MishapType DEF SetupSend, ChangeBlind, RewrapRead, Types
  <2>3. CASE SetupSend(t, p)
    <3>1. keys + 1 \in Keys /\ keys' = keys + 1 /\ Begin(t, "putkey", p, 0, keys + 1)
      BY <2>3, KeyConstants DEF SetupSend, TypeOK, Keys
    <3>2. excused' \in BOOLEAN
      BY <2>3 DEF SetupSend, TypeOK
    <3> QED BY <2>1, <2>2, <2>3, <3>1, <3>2, BeginType, Zero DEF TypeOK, SetupSend
  <2>4. CASE ChangeBlind(t, p)
    <3>1. chosen + 1 \in Passwords \ {0} /\ chosen' = chosen + 1
      BY <2>4, KeyConstants DEF ChangeBlind, TypeOK, Passwords
    <3>2. Begin(t, "putpw", p, chosen + 1, 0)
      BY <2>4 DEF ChangeBlind
    <3> QED BY <2>1, <2>2, <2>4, <3>1, <3>2, BeginType, Zero DEF TypeOK, ChangeBlind
  <2>5. CASE RewrapRead(t, p)
    <3>1. chosen + 1 \in Passwords \ {0} /\ chosen' = chosen + 1
      BY <2>5, KeyConstants DEF RewrapRead, TypeOK, Passwords
    <3>2. Begin(t, "rewrapped", p, chosen + 1, wkey) /\ wkey \in Keys
      BY <2>5 DEF RewrapRead, TypeOK
    <3> QED BY <2>1, <2>2, <2>5, <3>1, <3>2, BeginType DEF TypeOK, RewrapRead
  <2> QED BY <1>20, <2>3, <2>4, <2>5
<1>21. ASSUME NEW t \in Tabs, NEW d \in Diaries, Save(t, d) PROVE TypeOK'
  BY <1>21 DEF TypeOK, Save
<1>22. CASE Reset
  <2>1. chosen + 1 \in Passwords \ {0}
    BY <1>22, KeyConstants DEF Reset, TypeOK, Passwords
  <2> QED BY <1>22, <2>1, Zero, PurgeType DEF TypeOK, Reset, SetupInFlight, Rewrapping
<1>23. CASE UNCHANGED vars
  BY <1>23 DEF TypeOK, vars
<1> HIDE DEF serverVars, sessionVars, tabVars, requestVars, countVars, ghostVars
<1> QED
  BY <1>1, <1>2, <1>3, <1>4, <1>5, <1>6, <1>7, <1>8, <1>9, <1>10, <1>11, <1>12, <1>13, <1>14,
     <1>15, <1>16, <1>17, <1>18, <1>19, <1>20, <1>21, <1>22, <1>23 DEF Next

-----------------------------------------------------------------------------
(* The keys that are in use.                                                *)

LEMMA KeysInit == Init => KeyFacts
BY DEF Init, KeyFacts, FreshTyped, HeldKeysKnown, RewrapsStored, Rewrapping, Carrying,
   LostOnlyByReplacement, Known

\* What an action that stores no key has to respect: t changes its own part only, takes
\* no key but one that is known, and carries none but the stored one.
LEMMA KeysKept ==
    ASSUME TypeOK, KeyFacts, NEW t \in Tabs,
           UNCHANGED <<wkey, replaced>>,
           overtaken' = overtaken \/ (overtaken' = overtaken \ {t} /\ at'[t] = "idle"),
           \A u \in Tabs \ {t} : /\ at'[u] = at[u] /\ fresh'[u] = fresh[u]
                               /\ hand'[u] = hand[u] /\ cached'[u] = cached[u]
                               /\ shown'[u] = shown[u],
           cached'[t] \in Known, shown'[t] \in Known,
           at'[t] \in Carrying => hand'[t] \in Known,
           at'[t] \in {"rewrapped", "putpw", "setpw"} => fresh'[t] # 0,
           at'[t] \in {"rewrapped", "putpw", "setpw"} /\ hand'[t] # 0
             => t \in overtaken \/ hand'[t] = wkey,
           \A d \in Diaries : sealed'[d] \in Known
    PROVE  KeyFacts'
<1>1. FreshTyped'
  BY DEF KeyFacts, FreshTyped
<1>2. HeldKeysKnown'
  BY DEF KeyFacts, HeldKeysKnown, Known
<1>3. RewrapsStored'
  BY DEF KeyFacts, RewrapsStored, Rewrapping
<1>4. LostOnlyByReplacement'
  BY DEF LostOnlyByReplacement, Known
<1> QED BY <1>1, <1>2, <1>3, <1>4 DEF KeyFacts

LEMMA KeysStep == TypeOK /\ KeyFacts /\ [Next]_vars => KeyFacts'
<1> SUFFICES ASSUME TypeOK, KeyFacts, Next \/ UNCHANGED vars
             PROVE  KeyFacts'
  OBVIOUS
<1> USE DEF serverVars, sessionVars, tabVars, requestVars, countVars, ghostVars
<1> USE DEF TypeOK, KeyFacts, FreshTyped, HeldKeysKnown, RewrapsStored,
            LostOnlyByReplacement, Rewrapping, Known, Carrying
<1>1. ASSUME NEW t \in Tabs, Reload(t) PROVE KeyFacts'
  BY <1>1, KeysKept DEF Reload, Restart, End, Go, Leave
<1>2. ASSUME NEW t \in Tabs, Navigate(t) PROVE KeyFacts'
  BY <1>2, KeysKept DEF Navigate
<1>3. ASSUME NEW t \in Tabs, Inactive(t) PROVE KeyFacts'
  BY <1>3, KeysKept DEF Inactive
<1>4. ASSUME NEW t \in Tabs, Login(t) PROVE KeyFacts'
  BY <1>4, KeysKept DEF Login
<1>5. ASSUME NEW t \in Tabs, FetchRead(t) PROVE KeyFacts'
  BY <1>5, KeysKept DEF FetchRead
<1>6. ASSUME NEW t \in Tabs, FetchDone(t) PROVE KeyFacts'
  BY <1>6, KeysKept DEF FetchDone
<1>7. ASSUME NEW t \in Tabs, FetchFail(t) PROVE KeyFacts'
  BY <1>7, KeysKept DEF FetchFail, Leave
<1>8. ASSUME NEW t \in Tabs, Logout(t) PROVE KeyFacts'
  BY <1>8, KeysKept DEF Logout, Leave
<1>9. ASSUME NEW t \in Tabs, Renew(t) PROVE KeyFacts'
  BY <1>9, KeysKept DEF Renew
<1>10. ASSUME NEW t \in Tabs, Expel(t) PROVE KeyFacts'
  BY <1>10, KeysKept DEF Expel, Restart, End, Go
<1>11. ASSUME NEW t \in Tabs, Fail(t) PROVE KeyFacts'
  BY <1>11, KeysKept DEF Fail, End, Go
<1>12. ASSUME NEW t \in Tabs, SetupAuth(t) PROVE KeyFacts'
  BY <1>12, KeysKept DEF SetupAuth, Go
<1>13. ASSUME NEW t \in Tabs, SetupDone(t) PROVE KeyFacts'
  BY <1>13, KeysKept DEF SetupDone, TakeKey, End, Go
<1>14. ASSUME NEW t \in Tabs, LoadRead(t) PROVE KeyFacts'
  BY <1>14, KeysKept DEF LoadRead, Begin, Go
<1>15. ASSUME NEW t \in Tabs, LoadDone(t) PROVE KeyFacts'
  BY <1>15, KeysKept DEF LoadDone, TakeKey, End, Go
<1>16. ASSUME NEW t \in Tabs, RewrapDone(t) PROVE KeyFacts'
  BY <1>16, KeysKept DEF RewrapDone, TakeKey, Go
<1>17. ASSUME NEW t \in Tabs, ChangeVerify(t) PROVE KeyFacts'
  BY <1>17, KeysKept DEF ChangeVerify, Go
<1>18. ASSUME NEW t \in Tabs, NEW p \in 1..chosen,
              SetupSend(t, p) \/ ChangeBlind(t, p) \/ RewrapRead(t, p)
       PROVE  KeyFacts'
  <2>1. CASE SetupSend(t, p)
    BY <2>1, KeysKept DEF SetupSend, Begin, Go
  <2>2. CASE ChangeBlind(t, p)
    BY <2>2, KeysKept DEF ChangeBlind, Begin, Go, Passwords
  <2>3. CASE RewrapRead(t, p)
    BY <2>3, KeysKept DEF RewrapRead, Begin, Go, Passwords
  <2> QED BY <1>18, <2>1, <2>2, <2>3
<1>19. ASSUME NEW t \in Tabs, NEW d \in Diaries, Save(t, d) PROVE KeyFacts'
  BY <1>19, KeysKept DEF Save
\* The key that is stored over is given up, and who had read it is overtaken.
<1>20. ASSUME NEW t \in Tabs, SetupStore(t) PROVE KeyFacts'
  <2>1. Known \subseteq Known' /\ hand[t] \in Known'
    BY <1>20 DEF SetupStore
  <2> QED BY <1>20, <2>1 DEF SetupStore, Go
\* A change that was not overtaken writes the key that is stored already.
<1>21. ASSUME NEW t \in Tabs, ChangeWrite(t) PROVE KeyFacts'
  <2>1. CASE hand[t] = 0 \/ t \notin overtaken
    <3>1. wkey' = wkey /\ Known' = Known
      BY <1>21, <2>1 DEF ChangeWrite
    <3> QED BY <1>21, <2>1, <3>1 DEF ChangeWrite, End, Go
  <2>2. CASE hand[t] # 0 /\ t \in overtaken
    <3>1. Known \subseteq Known'
      BY <1>21, <2>2 DEF ChangeWrite
    <3> QED BY <1>21, <2>2, <3>1 DEF ChangeWrite, End, Go
  <2> QED BY <2>1, <2>2
<1>22. CASE Reset
  <2>1. Known \subseteq Known'
    BY <1>22 DEF Reset
  <2> QED BY <1>22, <2>1 DEF Reset
<1>23. CASE UNCHANGED vars
  BY <1>23 DEF vars
<1> HIDE DEF TypeOK, KeyFacts, FreshTyped, HeldKeysKnown, RewrapsStored, Rewrapping,
             LostOnlyByReplacement, Known, Carrying, serverVars, sessionVars, tabVars,
             requestVars, countVars, ghostVars
<1> QED
  BY <1>1, <1>2, <1>3, <1>4, <1>5, <1>6, <1>7, <1>8, <1>9, <1>10, <1>11, <1>12, <1>13, <1>14,
     <1>15, <1>16, <1>17, <1>18, <1>19, <1>20, <1>21, <1>22, <1>23 DEF Next

\* The two together: a password change writes what was typed (FreshTyped), and what a
\* tab holds has the right type and is known.
LEMMA KeyInvariant == Spec => [](TypeOK /\ KeyFacts)
<1>1. TypeOK /\ KeyFacts /\ [Next]_vars => (TypeOK /\ KeyFacts)'
  BY TypeStep, KeysStep DEF KeyFacts
<1> QED BY <1>1, TypeInit, KeysInit, PTL DEF Spec

\* Type correctness of the tabs and the server for any numbers of tabs, diaries, keys
\* and passwords.
THEOREM MasterKeyTypeCorrect == Spec => []TypeOK
BY KeyInvariant, PTL

\* However many tabs set up, load, rewrap and reset, in whatever order the server gets
\* their requests, a diary is encrypted under the stored key or under one that a set-up,
\* a reset or an overtaken change gave up.
THEOREM DiaryLostOnlyByReplacement == Spec => []LostOnlyByReplacement
<1>1. KeyFacts => LostOnlyByReplacement
  BY DEF KeyFacts
<1> QED BY <1>1, KeyInvariant, PTL

-----------------------------------------------------------------------------
(* The password and the key, and what a signed-out tab remembers.           *)

\* A set-up on its way wraps its key under the password of the account, unless excused.
SetupsTyped == \A t \in Tabs : at[t] \in {"putkey", "storekey"} /\ ~excused => typed[t] = password
Unlocking == PasswordUnlocks /\ SetupsTyped

\* A write of the password brings the key along, or excuses what it overtakes.
LEMMA UnlockStep == TypeOK /\ Unlocking /\ [Next]_vars => Unlocking'
<1> SUFFICES ASSUME TypeOK, Unlocking, Next \/ UNCHANGED vars
             PROVE  Unlocking'
  OBVIOUS
<1> USE DEF serverVars, sessionVars, tabVars, requestVars, countVars, ghostVars
<1> USE DEF TypeOK, Unlocking, PasswordUnlocks, SetupsTyped, SetupInFlight
<1>1. ASSUME NEW t \in Tabs, Reload(t) PROVE Unlocking'
  BY <1>1 DEF Reload, Restart, Leave, End, Go
<1>2. ASSUME NEW t \in Tabs, Navigate(t) PROVE Unlocking'
  BY <1>2 DEF Navigate
<1>3. ASSUME NEW t \in Tabs, Inactive(t) PROVE Unlocking'
  BY <1>3 DEF Inactive
<1>4. ASSUME NEW t \in Tabs, Login(t) PROVE Unlocking'
  BY <1>4 DEF Login
<1>5. ASSUME NEW t \in Tabs, FetchRead(t) PROVE Unlocking'
  BY <1>5 DEF FetchRead
<1>6. ASSUME NEW t \in Tabs, FetchDone(t) PROVE Unlocking'
  BY <1>6 DEF FetchDone
<1>7. ASSUME NEW t \in Tabs, FetchFail(t) PROVE Unlocking'
  BY <1>7 DEF FetchFail, Leave
<1>8. ASSUME NEW t \in Tabs, Logout(t) PROVE Unlocking'
  BY <1>8 DEF Logout, Leave, Purge
<1>9. ASSUME NEW t \in Tabs, Renew(t) PROVE Unlocking'
  BY <1>9 DEF Renew
<1>10. ASSUME NEW t \in Tabs, Expel(t) PROVE Unlocking'
  BY <1>10 DEF Expel, Restart, End, Go
<1>11. ASSUME NEW t \in Tabs, Fail(t) PROVE Unlocking'
  BY <1>11 DEF Fail, End, Go
<1>12. ASSUME NEW t \in Tabs, SetupAuth(t) PROVE Unlocking'
  BY <1>12 DEF SetupAuth, Go
<1>13. ASSUME NEW t \in Tabs, SetupStore(t) PROVE Unlocking'
  BY <1>13 DEF SetupStore, Go
<1>14. ASSUME NEW t \in Tabs, SetupDone(t) PROVE Unlocking'
  BY <1>14 DEF SetupDone, TakeKey, End, Go
<1>15. ASSUME NEW t \in Tabs, LoadRead(t) PROVE Unlocking'
  BY <1>15 DEF LoadRead, Begin, Go
<1>16. ASSUME NEW t \in Tabs, LoadDone(t) PROVE Unlocking'
  BY <1>16 DEF LoadDone, TakeKey, End, Go
<1>17. ASSUME NEW t \in Tabs, RewrapDone(t) PROVE Unlocking'
  BY <1>17 DEF RewrapDone, TakeKey, Go
<1>18. ASSUME NEW t \in Tabs, ChangeVerify(t) PROVE Unlocking'
  BY <1>18 DEF ChangeVerify, Go
<1>19. ASSUME NEW t \in Tabs, ChangeWrite(t) PROVE Unlocking'
  BY <1>19 DEF ChangeWrite, End, Go
<1>20. ASSUME NEW t \in Tabs, NEW p \in 1..chosen, SetupSend(t, p) PROVE Unlocking'
  BY <1>20 DEF SetupSend, Begin, Go
<1>21. ASSUME NEW t \in Tabs, NEW p \in 1..chosen, ChangeBlind(t, p) PROVE Unlocking'
  BY <1>21 DEF ChangeBlind, Begin, Go
<1>22. ASSUME NEW t \in Tabs, NEW p \in 1..chosen, RewrapRead(t, p) PROVE Unlocking'
  BY <1>22 DEF RewrapRead, Begin, Go
<1>23. ASSUME NEW t \in Tabs, NEW d \in Diaries, Save(t, d) PROVE Unlocking'
  BY <1>23 DEF Save
<1>24. CASE Reset
  BY <1>24 DEF Reset
<1>25. CASE UNCHANGED vars
  BY <1>25 DEF vars
<1> HIDE DEF TypeOK, Unlocking, PasswordUnlocks, SetupsTyped, SetupInFlight, serverVars, sessionVars, tabVars,
             requestVars, countVars, ghostVars
<1> QED
  BY <1>1, <1>2, <1>3, <1>4, <1>5, <1>6, <1>7, <1>8, <1>9, <1>10, <1>11, <1>12, <1>13,
     <1>14, <1>15, <1>16, <1>17, <1>18, <1>19, <1>20, <1>21, <1>22, <1>23, <1>24, <1>25
     DEF Next

\* Whatever ends a user clears the keys of the tab, or notes that it does not.
LEMMA ForgetStep == TypeOK /\ LoggedOutForgets /\ [Next]_vars => LoggedOutForgets'
<1> SUFFICES ASSUME TypeOK, LoggedOutForgets, Next \/ UNCHANGED vars
             PROVE  LoggedOutForgets'
  OBVIOUS
<1> USE DEF serverVars, sessionVars, tabVars, requestVars, countVars, ghostVars
<1> USE DEF TypeOK, LoggedOutForgets
<1>1. ASSUME NEW t \in Tabs, Reload(t) PROVE LoggedOutForgets'
  BY <1>1 DEF Reload, Restart, Leave, End, Go
<1>2. ASSUME NEW t \in Tabs, Navigate(t) PROVE LoggedOutForgets'
  BY <1>2 DEF Navigate
<1>3. ASSUME NEW t \in Tabs, Inactive(t) PROVE LoggedOutForgets'
  BY <1>3 DEF Inactive
<1>4. ASSUME NEW t \in Tabs, Login(t) PROVE LoggedOutForgets'
  BY <1>4 DEF Login
<1>5. ASSUME NEW t \in Tabs, FetchRead(t) PROVE LoggedOutForgets'
  BY <1>5 DEF FetchRead
<1>6. ASSUME NEW t \in Tabs, FetchDone(t) PROVE LoggedOutForgets'
  BY <1>6 DEF FetchDone
<1>7. ASSUME NEW t \in Tabs, FetchFail(t) PROVE LoggedOutForgets'
  BY <1>7 DEF FetchFail, Leave
<1>8. ASSUME NEW t \in Tabs, Logout(t) PROVE LoggedOutForgets'
  BY <1>8 DEF Logout, Leave, Purge
<1>9. ASSUME NEW t \in Tabs, Renew(t) PROVE LoggedOutForgets'
  BY <1>9 DEF Renew
<1>10. ASSUME NEW t \in Tabs, Expel(t) PROVE LoggedOutForgets'
  BY <1>10 DEF Expel, Restart, End, Go
<1>11. ASSUME NEW t \in Tabs, Fail(t) PROVE LoggedOutForgets'
  BY <1>11 DEF Fail, End, Go
<1>12. ASSUME NEW t \in Tabs, SetupAuth(t) PROVE LoggedOutForgets'
  BY <1>12 DEF SetupAuth, Go
<1>13. ASSUME NEW t \in Tabs, SetupStore(t) PROVE LoggedOutForgets'
  BY <1>13 DEF SetupStore, Go
<1>14. ASSUME NEW t \in Tabs, SetupDone(t) PROVE LoggedOutForgets'
  BY <1>14 DEF SetupDone, TakeKey, End, Go
<1>15. ASSUME NEW t \in Tabs, LoadRead(t) PROVE LoggedOutForgets'
  BY <1>15 DEF LoadRead, Begin, Go
<1>16. ASSUME NEW t \in Tabs, LoadDone(t) PROVE LoggedOutForgets'
  BY <1>16 DEF LoadDone, TakeKey, End, Go
<1>17. ASSUME NEW t \in Tabs, RewrapDone(t) PROVE LoggedOutForgets'
  BY <1>17 DEF RewrapDone, TakeKey, Go
<1>18. ASSUME NEW t \in Tabs, ChangeVerify(t) PROVE LoggedOutForgets'
  BY <1>18 DEF ChangeVerify, Go
<1>19. ASSUME NEW t \in Tabs, ChangeWrite(t) PROVE LoggedOutForgets'
  BY <1>19 DEF ChangeWrite, End, Go
<1>20. ASSUME NEW t \in Tabs, NEW p \in 1..chosen, SetupSend(t, p) PROVE LoggedOutForgets'
  BY <1>20 DEF SetupSend, Begin, Go
<1>21. ASSUME NEW t \in Tabs, NEW p \in 1..chosen, ChangeBlind(t, p) PROVE LoggedOutForgets'
  BY <1>21 DEF ChangeBlind, Begin, Go
<1>22. ASSUME NEW t \in Tabs, NEW p \in 1..chosen, RewrapRead(t, p) PROVE LoggedOutForgets'
  BY <1>22 DEF RewrapRead, Begin, Go
<1>23. ASSUME NEW t \in Tabs, NEW d \in Diaries, Save(t, d) PROVE LoggedOutForgets'
  BY <1>23 DEF Save
<1>24. CASE Reset
  BY <1>24 DEF Reset
<1>25. CASE UNCHANGED vars
  BY <1>25 DEF vars
<1> HIDE DEF TypeOK, LoggedOutForgets, serverVars, sessionVars, tabVars,
             requestVars, countVars, ghostVars
<1> QED
  BY <1>1, <1>2, <1>3, <1>4, <1>5, <1>6, <1>7, <1>8, <1>9, <1>10, <1>11, <1>12, <1>13,
     <1>14, <1>15, <1>16, <1>17, <1>18, <1>19, <1>20, <1>21, <1>22, <1>23, <1>24, <1>25
     DEF Next

\* The password of the account opens the stored key, but for the races that excuse it.
THEOREM PasswordOpensKey == Spec => []PasswordUnlocks
<1>1. Init => Unlocking
  BY DEF Init, Unlocking, PasswordUnlocks, SetupsTyped
<1>2. Unlocking => PasswordUnlocks
  BY DEF Unlocking
<1> QED BY <1>1, <1>2, UnlockStep, MasterKeyTypeCorrect, PTL DEF Spec

\* A tab without a user holds no key, but for late answers and a failed refreshAuth.
THEOREM SignedOutTabForgets == Spec => []LoggedOutForgets
<1>1. Init => LoggedOutForgets
  BY DEF Init, LoggedOutForgets
<1> QED BY <1>1, ForgetStep, MasterKeyTypeCorrect, PTL DEF Spec

=============================================================================
