------------------------------- MODULE MasterKey -------------------------------
(***************************************************************************)
(* The end-to-end encryption of one user's private diaries.  The server    *)
(* keeps the master key wrapped under a password; the tabs of the user's   *)
(* browser unwrap it and hold it in memory, and encrypt diaries under it.  *)
(* Tabs share the refresh cookie and nothing else: what a tab knows of the *)
(* key goes stale when another tab, or a password reset, changes it.       *)
(*                                                                         *)
(* A key is a number, in the order of generation; 0 stands for none.  A    *)
(* password is a number, in the order in which they were chosen.  Wrapping *)
(* is a pair: <<wkey, wpw>> opens with wpw and with nothing else.          *)
(***************************************************************************)
EXTENDS Naturals

CONSTANTS
    Tabs,
    Diaries,
    MaxKeys,        \* how many master keys are generated
    MaxPasswords,   \* how many passwords are chosen, the first one included
    MaxMishaps      \* how often the user reloads, idles, leaves or is refused

ASSUME KeyConstants ==
    /\ MaxKeys \in Nat
    /\ MaxPasswords \in Nat \ {0}
    /\ MaxMishaps \in Nat

VARIABLES
    password,       \* what password_hash accepts
    wkey, wpw,      \* encrypted_master_key: the key and the password it opens with
    sealed,         \* sealed[d]: the key the stored diary d is encrypted under
    cookie,         \* the refresh token in the browser's cookie is stored
    token,          \* token[t]: the server accepts the access token of t
    signed,         \* signed[t]: t has a user
    knows,          \* knows[t]: the user of t has has_master_key
    fetch,          \* fetch[t]: where refreshAuth is
    cached,         \* cached[t]: the key in master-key-cache
    shown,          \* shown[t]: the masterKey of the hook on the page
    at,             \* at[t]: the request t has under way
    here,           \* here[t]: is the page that sent it still there, or the tab
    typed,          \* typed[t]: the password typed into its form
    fresh,          \* fresh[t]: the new password typed into its form
    hand,           \* hand[t]: the key it carries
    keys, chosen,   \* keys generated and passwords chosen so far
    mishaps,
    replaced,       \* ghost: stored keys that were given up: a set-up or an overtaken
                    \* change stored another one, or a reset cleared them
    overtaken,      \* ghost: tabs that hold a key to rewrap that is not stored any more
    excused,        \* ghost: the password need not open the key
    kept            \* ghost: t obtained or kept a key although its user was gone

serverVars == <<password, wkey, wpw, sealed>>
sessionVars == <<cookie, token, signed>>
tabVars == <<knows, fetch, cached, shown>>
requestVars == <<at, here, typed, fresh, hand>>
countVars == <<keys, chosen, mishaps>>
ghostVars == <<replaced, overtaken, excused, kept>>
vars == <<serverVars, sessionVars, tabVars, requestVars, countVars, ghostVars>>

Keys == 0..MaxKeys
Passwords == 0..MaxPasswords
Steps == {"idle", "putkey", "storekey", "stored", "gotkey", "rewrapped", "putpw",
          "setpw"}

\* The type invariant.
TypeOK ==
    /\ password \in Passwords \ {0}
    /\ wkey \in Keys /\ wpw \in Passwords
    /\ sealed \in [Diaries -> Keys]
    /\ cookie \in BOOLEAN
    /\ token \in [Tabs -> BOOLEAN]
    /\ signed \in [Tabs -> BOOLEAN]
    /\ knows \in [Tabs -> BOOLEAN]
    /\ fetch \in [Tabs -> {"none", "sent", "yes", "no"}]
    /\ cached \in [Tabs -> Keys]
    /\ shown \in [Tabs -> Keys]
    /\ at \in [Tabs -> Steps]
    /\ here \in [Tabs -> {"page", "tab", "gone"}]
    /\ typed \in [Tabs -> Passwords]
    /\ fresh \in [Tabs -> Passwords]
    /\ hand \in [Tabs -> Keys]
    /\ keys \in Keys /\ chosen \in Passwords \ {0}
    /\ mishaps \in 0..MaxMishaps
    /\ replaced \subseteq Keys
    /\ overtaken \subseteq Tabs
    /\ excused \in BOOLEAN
    /\ kept \in [Tabs -> BOOLEAN]

\* A user without a master key; every tab shows the login page.
Init ==
    /\ password = 1 /\ chosen = 1
    /\ wkey = 0 /\ wpw = 0 /\ keys = 0 /\ mishaps = 0
    /\ sealed = [d \in Diaries |-> 0]
    /\ cookie = FALSE
    /\ token = [t \in Tabs |-> FALSE]
    /\ signed = [t \in Tabs |-> FALSE]
    /\ knows = [t \in Tabs |-> FALSE]
    /\ fetch = [t \in Tabs |-> "none"]
    /\ cached = [t \in Tabs |-> 0]
    /\ shown = [t \in Tabs |-> 0]
    /\ at = [t \in Tabs |-> "idle"]
    /\ here = [t \in Tabs |-> "page"]
    /\ typed = [t \in Tabs |-> 0]
    /\ fresh = [t \in Tabs |-> 0]
    /\ hand = [t \in Tabs |-> 0]
    /\ replaced = {}
    /\ overtaken = {}
    /\ excused = FALSE
    /\ kept = [t \in Tabs |-> FALSE]

-----------------------------------------------------------------------------
(* The tab.                                                                 *)

Mishap == mishaps < MaxMishaps /\ mishaps' = mishaps + 1

\* What is typed is the password, or counts as a mishap.
Types(p) == IF p = password THEN UNCHANGED mishaps ELSE Mishap

Go(t, step) == at' = [at EXCEPT ![t] = step]

\* The request of t is over; what it carried is gone.
End(t) ==
    /\ Go(t, "idle")
    /\ here' = [here EXCEPT ![t] = "page"]
    /\ typed' = [typed EXCEPT ![t] = 0]
    /\ fresh' = [fresh EXCEPT ![t] = 0]
    /\ hand' = [hand EXCEPT ![t] = 0]

\* t starts a request with password p, new password n and key k.
Begin(t, step, p, n, k) ==
    /\ signed[t] /\ at[t] = "idle"
    /\ Go(t, step)
    /\ typed' = [typed EXCEPT ![t] = p]
    /\ fresh' = [fresh EXCEPT ![t] = n]
    /\ hand' = [hand EXCEPT ![t] = k]
    /\ UNCHANGED here

Leave(t, where) ==
    here' = [here EXCEPT ![t] = IF at[t] = "idle" THEN @ ELSE where]

\* setMasterKey puts the key in the cache of the tab, setState in the hook, which is
\* there only on the page that asked.
TakeKey(t) ==
    /\ cached' = [cached EXCEPT ![t] = hand[t]]
    /\ shown' = [shown EXCEPT ![t] = IF here[t] = "page" THEN hand[t] ELSE @]
    /\ kept' = [kept EXCEPT ![t] = @ \/ ~signed[t]]

\* The document is loaded anew: its memory is gone and the AuthProvider calls
\* refreshAuth.  The server goes on with a request it is serving.
Restart(t) ==
    /\ token' = [token EXCEPT ![t] = FALSE]
    /\ signed' = [signed EXCEPT ![t] = FALSE]
    /\ knows' = [knows EXCEPT ![t] = FALSE]
    /\ fetch' = [fetch EXCEPT ![t] = "sent"]
    /\ cached' = [cached EXCEPT ![t] = 0]
    /\ shown' = [shown EXCEPT ![t] = 0]
    /\ kept' = [kept EXCEPT ![t] = FALSE]

Reload(t) ==
    /\ Restart(t)
    /\ IF at[t] \in {"storekey", "setpw"}
       THEN Leave(t, "gone") /\ UNCHANGED <<at, typed, fresh, hand, overtaken>>
       ELSE End(t) /\ overtaken' = overtaken \ {t}
    /\ Mishap /\ UNCHANGED <<keys, chosen>>
    /\ UNCHANGED <<serverVars, cookie, replaced, excused>>

\* Another page is mounted, with a hook of its own, which starts from the cache.  The
\* user waits for an answer before that, but may leave or reload at any time.
Navigate(t) ==
    /\ signed[t] /\ at[t] = "idle"
    /\ shown' = [shown EXCEPT ![t] = cached[t]]
    /\ UNCHANGED <<serverVars, sessionVars, knows, fetch, cached, requestVars, countVars,
                   ghostVars>>

\* The inactivity timer of the cache runs out; the hook keeps what it has.
Inactive(t) ==
    /\ cached[t] # 0
    /\ cached' = [cached EXCEPT ![t] = 0]
    /\ Mishap /\ UNCHANGED <<keys, chosen>>
    /\ UNCHANGED <<serverVars, sessionVars, knows, fetch, shown, requestVars, ghostVars>>

-----------------------------------------------------------------------------
(* Sessions.                                                                *)

\* All refresh tokens of the user are deleted and all access tokens invalidated.
Purge ==
    /\ cookie' = FALSE
    /\ token' = [t \in Tabs |-> FALSE]

\* The answer to a login has no has_master_key; refreshAuth runs after it.
Login(t) ==
    /\ ~signed[t] /\ fetch[t] = "none"
    /\ signed' = [signed EXCEPT ![t] = TRUE]
    /\ token' = [token EXCEPT ![t] = TRUE]
    /\ cookie' = TRUE
    /\ knows' = [knows EXCEPT ![t] = FALSE]
    /\ fetch' = [fetch EXCEPT ![t] = "sent"]
    /\ UNCHANGED <<serverVars, cached, shown, requestVars, countVars, ghostVars>>

\* refreshAuth: /auth/refresh and /auth/me are answered,
FetchRead(t) ==
    /\ fetch[t] = "sent" /\ cookie
    /\ token' = [token EXCEPT ![t] = TRUE]
    /\ fetch' = [fetch EXCEPT ![t] = IF wkey # 0 THEN "yes" ELSE "no"]
    /\ UNCHANGED <<serverVars, cookie, signed, knows, cached, shown, requestVars, countVars,
                   ghostVars>>

\* and the user becomes what the answer says,
FetchDone(t) ==
    /\ fetch[t] \in {"yes", "no"}
    /\ signed' = [signed EXCEPT ![t] = TRUE]
    /\ knows' = [knows EXCEPT ![t] = fetch[t] = "yes"]
    /\ fetch' = [fetch EXCEPT ![t] = "none"]
    /\ UNCHANGED <<serverVars, cookie, token, cached, shown, requestVars, countVars, ghostVars>>

\* or something fails, and there is no user any more; the cache stays as it is, while
\* the page, which needs a user, goes away with its hook.
FetchFail(t) ==
    /\ fetch[t] = "sent"
    /\ signed' = [signed EXCEPT ![t] = FALSE]
    /\ token' = [token EXCEPT ![t] = FALSE]
    /\ knows' = [knows EXCEPT ![t] = FALSE]
    /\ fetch' = [fetch EXCEPT ![t] = "none"]
    /\ shown' = [shown EXCEPT ![t] = 0]
    /\ Leave(t, "tab")
    /\ kept' = [kept EXCEPT ![t] = cached[t] # 0]
    /\ IF ~cookie THEN UNCHANGED mishaps ELSE Mishap
    /\ UNCHANGED <<keys, chosen>>
    /\ UNCHANGED <<serverVars, cookie, cached, at, typed, fresh, hand, replaced,
                   overtaken, excused>>

\* Mutant: the store forgets the user, but not the keys.
LogoutKeeps(t) ==
    /\ signed[t]
    /\ signed' = [signed EXCEPT ![t] = FALSE]
    /\ knows' = [knows EXCEPT ![t] = FALSE]
    /\ shown' = [shown EXCEPT ![t] = 0]
    /\ kept' = [kept EXCEPT ![t] = FALSE]
    /\ Leave(t, "tab")
    /\ \/ token[t] /\ Purge
       \/ UNCHANGED <<cookie, token>>
    /\ Mishap /\ UNCHANGED <<keys, chosen>>
    /\ UNCHANGED <<serverVars, fetch, cached, at, typed, fresh, hand, replaced, overtaken,
                   excused>>

\* The tab forgets, and then asks the server, whose failure it ignores.  The server
\* ends the sessions of all tabs.
Logout(t) ==
    /\ signed[t]
    /\ cached' = [cached EXCEPT ![t] = 0]
    /\ shown' = [shown EXCEPT ![t] = 0]
    /\ signed' = [signed EXCEPT ![t] = FALSE]
    /\ knows' = [knows EXCEPT ![t] = FALSE]
    /\ kept' = [kept EXCEPT ![t] = FALSE]
    /\ Leave(t, "tab")
    /\ \/ token[t] /\ Purge
       \/ UNCHANGED <<cookie, token>>
    /\ Mishap /\ UNCHANGED <<keys, chosen>>
    /\ UNCHANGED <<serverVars, fetch, at, typed, fresh, hand, replaced, overtaken,
                   excused>>

\* A call of t is answered with 401, which the client follows by a refresh: the request
\* under way, or any other the page makes.  Paths with /auth/ (putpw) are left alone.
Unauthorized(t) ==
    /\ ~token[t] /\ here[t] # "gone"
    /\ \/ at[t] = "putkey"
       \/ at[t] = "idle" /\ signed[t]

\* The cookie, which another tab may have renewed, gives a new access token, and the
\* request is sent again as it was.
Renew(t) ==
    /\ Unauthorized(t) /\ cookie
    /\ token' = [token EXCEPT ![t] = TRUE]
    /\ UNCHANGED <<serverVars, cookie, signed, tabVars, requestVars, countVars, ghostVars>>

\* It gives none: the tab logs out and goes to the login page.
Expel(t) ==
    /\ Unauthorized(t) /\ ~cookie
    /\ Restart(t)
    /\ End(t)
    /\ UNCHANGED <<serverVars, cookie, countVars, replaced, overtaken, excused>>

\* Requests the server, or the tab that gets the answer, has a reason to end.
Refused(t) ==
    \/ here[t] = "gone"
    \/ at[t] = "putpw" /\ (~token[t] \/ typed[t] # password)

\* A request ends without effect: refused, or lost, limited or answered too late.
Fail(t) ==
    /\ at[t] \in Steps \ {"idle", "storekey", "setpw"}
    /\ IF Refused(t) THEN UNCHANGED mishaps ELSE Mishap
    /\ UNCHANGED <<keys, chosen>>
    /\ End(t)
    /\ overtaken' = overtaken \ {t}
    /\ UNCHANGED <<serverVars, sessionVars, tabVars, replaced, excused, kept>>

-----------------------------------------------------------------------------
(* Setting up a master key: offered wherever the tab holds no key.          *)

\* The tabs that have read the key to wrap it under a new password.
Rewrapping == {t \in Tabs : at[t] \in {"rewrapped", "putpw", "setpw"} /\ hand[t] # 0}

SetupInFlight == \E t \in Tabs : at[t] \in {"putkey", "storekey"}

\* A new key is generated and wrapped under what was typed, which nobody verifies.
SetupSend(t, p) ==
    /\ shown[t] = 0 \/ ~knows[t]
    /\ keys < MaxKeys
    /\ keys' = keys + 1
    /\ Types(p)
    /\ Begin(t, "putkey", p, 0, keys + 1)
    /\ excused' = (excused \/ p # password)
    /\ UNCHANGED <<serverVars, sessionVars, tabVars, chosen, replaced,
                   overtaken, kept>>

SetupAuth(t) ==
    /\ at[t] = "putkey" /\ token[t]
    /\ Go(t, "storekey")
    /\ UNCHANGED <<serverVars, sessionVars, tabVars, here, typed, fresh, hand, countVars,
                   ghostVars>>

\* update_encryption_key does not look at what is stored.
SetupStore(t) ==
    /\ at[t] = "storekey"
    /\ wkey' = hand[t]
    /\ wpw' = typed[t]
    /\ Go(t, "stored")
    /\ replaced' = replaced \cup ({wkey} \ {0})
    /\ overtaken' = Rewrapping
    /\ UNCHANGED <<password, sealed, sessionVars, tabVars, here, typed, fresh, hand, countVars,
                   excused, kept>>

\* Only now the tab takes the key.  (The user that setUser makes of a tab without one has
\* no id, and no page takes it for a user.)
SetupDone(t) ==
    /\ at[t] = "stored" /\ here[t] # "gone"
    /\ TakeKey(t)
    /\ knows' = [knows EXCEPT ![t] = TRUE]
    /\ End(t)
    /\ UNCHANGED <<serverVars, sessionVars, fetch, countVars, replaced, overtaken,
                   excused>>

-----------------------------------------------------------------------------
(* Unlocking the key on the page of a private diary, and saving one.        *)

\* loadMasterKey: the stored key is answered, whatever password was typed.
LoadRead(t) ==
    /\ shown[t] = 0
    /\ \E d \in Diaries : sealed[d] # 0
    /\ token[t] /\ wkey # 0
    /\ Begin(t, "gotkey", 0, 0, wkey)
    /\ UNCHANGED <<serverVars, sessionVars, tabVars, countVars, ghostVars>>

\* The password that was typed opens the answer.  (Fail is the other case.)
LoadDone(t) ==
    /\ at[t] = "gotkey" /\ here[t] # "gone"
    /\ TakeKey(t)
    /\ End(t)
    /\ UNCHANGED <<serverVars, sessionVars, knows, fetch, countVars, replaced,
                   overtaken, excused>>

\* The diary is encrypted in the tab and stored; one that was there is overwritten.
Save(t, d) ==
    /\ signed[t] /\ at[t] = "idle" /\ token[t]
    /\ shown[t] # 0
    /\ sealed' = [sealed EXCEPT ![d] = shown[t]]
    /\ UNCHANGED <<password, wkey, wpw, sessionVars, tabVars, requestVars, countVars, ghostVars>>

-----------------------------------------------------------------------------
(* Changing the password, and resetting it by mail.                         *)

\* A tab that does not know of a key sends the two passwords and nothing else.
ChangeBlind(t, p) ==
    /\ ~knows[t]
    /\ chosen < MaxPasswords
    /\ chosen' = chosen + 1
    /\ Types(p)
    /\ Begin(t, "putpw", p, chosen + 1, 0)
    /\ UNCHANGED <<serverVars, sessionVars, tabVars, keys, ghostVars>>

\* Mutant: wrap the key of this tab again, without asking which one is stored.
RewrapCached(t, p) ==
    /\ knows[t] /\ token[t]
    /\ wkey # 0 /\ wpw = p
    /\ chosen < MaxPasswords
    /\ chosen' = chosen + 1
    /\ Types(p)
    /\ Begin(t, "rewrapped", p, chosen + 1, IF cached[t] # 0 THEN cached[t] ELSE wkey)
    /\ UNCHANGED <<serverVars, sessionVars, tabVars, keys, ghostVars>>

\* A tab that knows asks for the key first.  If there is none, or the password does not
\* open it, the form says so and nothing happens; else the key is wrapped again.
RewrapRead(t, p) ==
    /\ knows[t] /\ token[t]
    /\ wkey # 0 /\ wpw = p
    /\ chosen < MaxPasswords
    /\ chosen' = chosen + 1
    /\ Types(p)
    /\ Begin(t, "rewrapped", p, chosen + 1, wkey)
    /\ UNCHANGED <<serverVars, sessionVars, tabVars, keys, ghostVars>>

RewrapDone(t) ==
    /\ at[t] = "rewrapped" /\ here[t] # "gone"
    /\ TakeKey(t)
    /\ Go(t, "putpw")
    /\ UNCHANGED <<serverVars, sessionVars, knows, fetch, here, typed, fresh, hand, countVars,
                   replaced, overtaken, excused>>

ChangeVerify(t) ==
    /\ at[t] = "putpw" /\ token[t]
    /\ typed[t] = password
    /\ Go(t, "setpw")
    /\ UNCHANGED <<serverVars, sessionVars, tabVars, here, typed, fresh, hand, countVars,
                   ghostVars>>

\* One update for the hash and, if the request brought it, the key.
ChangeWrite(t) ==
    /\ at[t] = "setpw"
    /\ password' = fresh[t]
    /\ IF hand[t] # 0
       THEN /\ wkey' = hand[t]
            /\ wpw' = fresh[t]
            /\ excused' = SetupInFlight
       ELSE /\ UNCHANGED <<wkey, wpw>>
            /\ excused' = (excused \/ SetupInFlight \/ wkey # 0)
    /\ Purge
    /\ End(t)
    /\ replaced' = replaced \cup (IF t \in overtaken THEN {wkey} \ {0, wkey'} ELSE {})
    /\ overtaken' = (IF wkey' = wkey THEN overtaken ELSE Rewrapping) \ {t}
    /\ UNCHANGED <<sealed, signed, tabVars, countVars, kept>>

\* Mutant: the reset changes the hash alone.
ResetKeepsKey ==
    /\ chosen < MaxPasswords
    /\ chosen' = chosen + 1
    /\ password' = chosen + 1
    /\ Purge
    /\ excused' = SetupInFlight
    /\ UNCHANGED <<wkey, wpw, sealed, signed, tabVars, requestVars, keys, mishaps, replaced,
                   overtaken, kept>>

\* The form of the mailed link, in whatever browser.  The key is given up.
Reset ==
    /\ chosen < MaxPasswords
    /\ chosen' = chosen + 1
    /\ password' = chosen + 1
    /\ wkey' = 0 /\ wpw' = 0
    /\ Purge
    /\ replaced' = replaced \cup ({wkey} \ {0})
    /\ overtaken' = Rewrapping
    /\ excused' = SetupInFlight
    /\ UNCHANGED <<sealed, signed, tabVars, requestVars, keys, mishaps, replaced, kept>>

-----------------------------------------------------------------------------

Next ==
    \/ \E t \in Tabs :
        \/ Reload(t) \/ Navigate(t) \/ Inactive(t)
        \/ Login(t) \/ FetchRead(t) \/ FetchDone(t) \/ FetchFail(t) \/ Logout(t)
        \/ Renew(t) \/ Expel(t) \/ Fail(t)
        \/ SetupAuth(t) \/ SetupStore(t) \/ SetupDone(t)
        \/ LoadRead(t) \/ LoadDone(t)
        \/ RewrapDone(t) \/ ChangeVerify(t) \/ ChangeWrite(t)
        \/ \E p \in 1..chosen : SetupSend(t, p) \/ ChangeBlind(t, p) \/ RewrapRead(t, p)
        \/ \E d \in Diaries : Save(t, d)
    \/ Reset

Spec == Init /\ [][Next]_vars

-----------------------------------------------------------------------------

\* The password of the account opens the stored key, unless the password was changed
\* by a tab that did not know of the key, or while a set-up was under way, or the key
\* was set up under another password than the account's: the single update of
\* change_password writes hash and key together, and reset_password clears the key.
PasswordUnlocks == wkey # 0 /\ ~excused => wpw = password

\* A private diary is encrypted under the stored key, except if a set-up stored
\* another key over it, a password reset gave it up, or a change that was overtaken
\* by one of these brought an older key back: tabs use a key only once the server
\* has it, and a password change on its own never changes the key.
LostOnlyByReplacement ==
    \A d \in Diaries : sealed[d] \in {0, wkey} \cup replaced

\* A tab whose user has left holds no key, unless an answer that was under way brought
\* one, or the user was dropped by a refreshAuth that failed.
LoggedOutForgets ==
    \A t \in Tabs : ~signed[t] /\ ~kept[t] => cached[t] = 0 /\ shown[t] = 0

\* Why TypeOK and LostOnlyByReplacement are inductive.  A password that is about to be
\* written was typed.  Every key that a tab holds, or carries in a
\* request it may still use it from, has been stored; and who carries one to be stored
\* again carries the stored one, or was overtaken.
Known == {0, wkey} \cup replaced
Carrying == {"stored", "gotkey", "rewrapped", "putpw", "setpw"}
FreshTyped == \A t \in Tabs : at[t] \in {"rewrapped", "putpw", "setpw"} => fresh[t] # 0
HeldKeysKnown ==
    \A t \in Tabs :
        /\ cached[t] \in Known
        /\ shown[t] \in Known
        /\ at[t] \in Carrying => hand[t] \in Known
RewrapsStored == \A t \in Rewrapping : t \in overtaken \/ hand[t] = wkey
KeyFacts == FreshTyped /\ HeldKeysKnown /\ RewrapsStored /\ LostOnlyByReplacement

\* What milestone 8 says: the master key is "generated once on first private diary
\* creation".  While the password is the first one, every private diary can be
\* decrypted with the stored key.
DiariesReadable == chosen = 1 => \A d \in Diaries : sealed[d] \in {0, wkey}

=============================================================================
