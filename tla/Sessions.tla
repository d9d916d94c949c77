------------------------------ MODULE Sessions ------------------------------
(***************************************************************************)
(* The sessions of one user: single-use refresh tokens that rotate, access *)
(* tokens that are checked against a revocation time kept in MongoDB and   *)
(* cached in Redis, and the requests that end sessions: logout, password   *)
(* change, password reset and ban.  Every handler is a chain of database   *)
(* calls that other handlers may come between.                             *)
(*                                                                         *)
(* Time is a coarse clock; all of created_at, iat, expires_at and          *)
(* tokens_invalid_before are readings of it.                               *)
(***************************************************************************)
EXTENDS Integers, FiniteSets

CONSTANTS
    Logins,         \* one member per login: the session it begins
    Handlers,       \* requests that may be served at the same time
    NoLogin,        \* not a session
    AccessLife,     \* access_token_expire_minutes
    RefreshLife,    \* refresh_token_expire_days
    SessionLife,    \* MAX_SESSION_LIFETIME_DAYS
    MaxClock,       \* how long a behaviour is
    MaxTokens,      \* how many refresh tokens are issued
    MaxLinks,       \* how many password reset tokens are unused at once
    MaxEndings,     \* how many requests end sessions
    MaxFaults       \* how often Redis fails or a handler is cut off

ASSUME SessionConstants ==
    /\ NoLogin \notin Logins
    /\ {AccessLife, RefreshLife, SessionLife} \subseteq Nat
    /\ {MaxClock, MaxTokens, MaxLinks, MaxEndings, MaxFaults} \subseteq Nat
    /\ MaxClock > 1

VARIABLES
    clock,
    password,       \* how often the password has been changed
    banned,         \* is_banned
    links,          \* unused password reset tokens
    refresh,        \* the refresh_tokens collection
    access,         \* access tokens handed out
    issued,         \* how many refresh tokens were asked for
    invalidBefore,  \* tokens_invalid_before in MongoDB; -1 when unset
    cache,          \* its copy in Redis; value -1 when there is none
    at,             \* at[h]: the next step of handler h
    sess,           \* sess[h]: the session h works for
    origin,         \* origin[h]: the original_login_at h carries over
    stamp,          \* stamp[h]: the iat, or the revocation time, in h's hands
    read,           \* read[h]: the revocation time h has read
    began,          \* ghost: when the login of each session was answered (or, until
                    \* then, asked for); -1 before that
    version,        \* ghost: the password each session was opened with
    straddled,      \* ghost: sessions being opened or renewed during a purge
    consumed,       \* ghost: when h's refresh token was consumed
    revoked,        \* ghost: the latest revocation whose handler has finished
    cutoff,         \* ghost: cutoff[h]: revoked as h began
    raced,          \* ghost: a revocation raced with another one or with a
                    \* cache fill, or its Redis write failed
    faults, endings

userVars == <<password, banned, links>>
tokenVars == <<refresh, access, issued>>
revocationVars == <<invalidBefore, cache>>
ghostSession == <<began, version, straddled>>
ghostRevocation == <<revoked, raced>>
handlerVars == <<at, sess, origin, stamp, read, consumed, cutoff>>
vars == <<clock, userVars, tokenVars, revocationVars, handlerVars, ghostSession,
          ghostRevocation, faults, endings>>

Times == -1..MaxClock
RefreshToken == [sess : Logins, origin : 0..MaxClock, expires : Nat, serial : Nat]
AccessToken == [sess : Logins, iat : 0..MaxClock]
Steps == {"idle", "issue", "insert", "user", "cached", "mongo", "alone", "fill", "admit",
          "in", "setpw", "purge", "store", "publish", "banpurge"}

\* The type invariant.
TypeOK ==
    /\ clock \in 2..MaxClock
    /\ password \in 0..MaxEndings
    /\ banned \in BOOLEAN
    /\ links \in 0..MaxLinks
    /\ refresh \subseteq RefreshToken
    /\ access \subseteq AccessToken
    /\ issued \in 0..MaxTokens
    /\ invalidBefore \in Times
    /\ cache \in [value : Times, expires : Nat]
    /\ at \in [Handlers -> Steps]
    /\ sess \in [Handlers -> Logins \cup {NoLogin}]
    /\ origin \in [Handlers -> Times]
    /\ stamp \in [Handlers -> Times]
    /\ read \in [Handlers -> Times]
    /\ began \in [Logins -> Times]
    /\ version \in [Logins -> Nat]
    /\ straddled \subseteq Logins
    /\ consumed \in [Handlers -> Times]
    /\ revoked \in Times
    /\ cutoff \in [Handlers -> Times]
    /\ raced \in BOOLEAN
    /\ faults \in 0..MaxFaults
    /\ endings \in 0..MaxEndings

NoCache == [value |-> -1, expires |-> 0]

\* The user is new, or has logged out everywhere before.
Init ==
    /\ clock = 2
    /\ password = 0
    /\ banned = FALSE
    /\ links = 0
    /\ refresh = {}
    /\ access = {}
    /\ issued = 0
    /\ invalidBefore \in {-1, 1}
    /\ cache = NoCache
    /\ at = [h \in Handlers |-> "idle"]
    /\ sess = [h \in Handlers |-> NoLogin]
    /\ origin = [h \in Handlers |-> -1]
    /\ stamp = [h \in Handlers |-> -1]
    /\ read = [h \in Handlers |-> -1]
    /\ began = [s \in Logins |-> -1]
    /\ version = [s \in Logins |-> 0]
    /\ straddled = {}
    /\ consumed = [h \in Handlers |-> -1]
    /\ revoked = invalidBefore
    /\ cutoff = [h \in Handlers |-> -1]
    /\ raced = FALSE
    /\ faults = 0
    /\ endings = 0

-----------------------------------------------------------------------------

Go(h, s) == at' = [at EXCEPT ![h] = s]

\* h goes on to step st with what it has in hands.
Pass(h, st) ==
    /\ Go(h, st)
    /\ UNCHANGED <<sess, origin, stamp, read, consumed, cutoff>>

\* h answers, or raises: its locals are gone.
End(h) ==
    /\ at' = [at EXCEPT ![h] = "idle"]
    /\ sess' = [sess EXCEPT ![h] = NoLogin]
    /\ origin' = [origin EXCEPT ![h] = -1]
    /\ stamp' = [stamp EXCEPT ![h] = -1]
    /\ read' = [read EXCEPT ![h] = -1]
    /\ consumed' = [consumed EXCEPT ![h] = -1]
    /\ cutoff' = [cutoff EXCEPT ![h] = -1]

Fault == faults < MaxFaults /\ faults' = faults + 1

Tick ==
    /\ clock < MaxClock
    /\ clock' = clock + 1
    /\ UNCHANGED <<userVars, tokenVars, revocationVars, handlerVars, ghostSession,
                   ghostRevocation, faults, endings>>

-----------------------------------------------------------------------------
(* Opening and renewing a session.                                         *)

\* login reads the user and verifies the password against that document; a
\* banned user is refused.
Login(h, s) ==
    /\ at[h] = "idle" /\ began[s] = -1
    /\ ~banned
    /\ issued < MaxTokens
    /\ issued' = issued + 1
    /\ began' = [began EXCEPT ![s] = clock]
    /\ version' = [version EXCEPT ![s] = password]
    /\ sess' = [sess EXCEPT ![h] = s]
    /\ Go(h, "issue")
    /\ UNCHANGED <<clock, userVars, refresh, access, revocationVars, origin, stamp,
                   read, consumed, cutoff, straddled, ghostRevocation, faults, endings>>

\* Mutant: the token is looked up now and not deleted.
RefreshKeepsToken(h, t) ==
    /\ at[h] = "idle" /\ issued < MaxTokens
    /\ IF t.expires < clock \/ clock - t.origin > SessionLife
       THEN UNCHANGED <<handlerVars, issued>>
       ELSE /\ issued' = issued + 1
            /\ sess' = [sess EXCEPT ![h] = t.sess]
            /\ origin' = [origin EXCEPT ![h] = t.origin]
            /\ consumed' = [consumed EXCEPT ![h] = clock]
            /\ Go(h, "user")
            /\ UNCHANGED <<stamp, read, cutoff>>
    /\ UNCHANGED <<clock, userVars, refresh, access, revocationVars, ghostSession,
                   ghostRevocation, faults, endings>>

\* refresh consumes the token, and only then looks at its age.
Refresh(h, t) ==
    /\ at[h] = "idle" /\ issued < MaxTokens
    /\ refresh' = refresh \ {t}
    /\ IF t.expires < clock \/ clock - t.origin > SessionLife
       THEN UNCHANGED <<handlerVars, issued>>
       ELSE /\ issued' = issued + 1
            /\ sess' = [sess EXCEPT ![h] = t.sess]
            /\ origin' = [origin EXCEPT ![h] = t.origin]
            /\ consumed' = [consumed EXCEPT ![h] = clock]
            /\ Go(h, "user")
            /\ UNCHANGED <<stamp, read, cutoff>>
    /\ UNCHANGED <<clock, userVars, access, revocationVars, ghostSession,
                   ghostRevocation, faults, endings>>

\* It reads the user; a banned one is refused, and the token stays consumed.
RefreshUser(h) ==
    /\ at[h] = "user"
    /\ IF banned THEN End(h)
       ELSE Pass(h, "issue")
    /\ UNCHANGED <<clock, userVars, tokenVars, revocationVars, ghostSession,
                   ghostRevocation, faults, endings>>

\* create_access_token.
Issue(h) ==
    /\ at[h] = "issue"
    /\ stamp' = [stamp EXCEPT ![h] = clock]
    /\ Go(h, "insert")
    /\ UNCHANGED <<clock, userVars, tokenVars, revocationVars, sess, origin, read,
                   consumed, cutoff, ghostSession, ghostRevocation, faults, endings>>

\* Mutant: a renewed token starts a new session lifetime.
InsertAfresh(h) ==
    /\ at[h] = "insert"
    /\ refresh' = refresh \cup
         {[sess |-> sess[h], origin |-> clock,
           expires |-> clock + RefreshLife, serial |-> issued]}
    /\ access' = access \cup {[sess |-> sess[h], iat |-> stamp[h]]}
    /\ End(h)
    /\ began' = IF origin[h] = -1 THEN [began EXCEPT ![sess[h]] = clock] ELSE began
    /\ UNCHANGED <<clock, userVars, issued, revocationVars, version, straddled, ghostRevocation,
                   faults, endings>>

\* _generate_tokens inserts the new refresh token, with the original login
\* time of the one it replaces; then the client gets both tokens.
Insert(h) ==
    /\ at[h] = "insert"
    /\ refresh' = refresh \cup
         {[sess |-> sess[h],
           origin |-> IF origin[h] = -1 THEN clock ELSE origin[h],
           expires |-> clock + RefreshLife, serial |-> issued]}
    /\ access' = access \cup {[sess |-> sess[h], iat |-> stamp[h]]}
    /\ End(h)
    /\ began' = IF origin[h] = -1 THEN [began EXCEPT ![sess[h]] = clock] ELSE began
    /\ UNCHANGED <<clock, userVars, issued, revocationVars, version, straddled, ghostRevocation,
                   faults, endings>>

-----------------------------------------------------------------------------
(* Using an access token: get_current_user.                                *)

CacheHit == cache.value # -1 /\ clock <= cache.expires

\* The signature and exp are checked first, then Redis is asked.
Call(h, a) ==
    /\ at[h] = "idle"
    /\ clock <= a.iat + AccessLife
    /\ sess' = [sess EXCEPT ![h] = a.sess]
    /\ stamp' = [stamp EXCEPT ![h] = a.iat]
    /\ cutoff' = [cutoff EXCEPT ![h] = revoked]
    /\ Go(h, "cached")
    /\ UNCHANGED <<clock, userVars, tokenVars, revocationVars, origin, read,
                   consumed, ghostSession, ghostRevocation, faults, endings>>

\* Mutant: a token of the very second of the revocation passes.
RejectsStrictly(iat, value) == value > 0 /\ iat < value

\* The comparison of _is_token_invalidated; an unset time revokes nothing.
Rejects(iat, value) == value > 0 /\ iat <= value

\* Redis has an answer, has none ("mongo"), or cannot be asked ("alone").
AskRedis(h) ==
    /\ at[h] = "cached"
    /\ \/ /\ CacheHit
          /\ IF Rejects(stamp[h], cache.value) THEN End(h) ELSE Pass(h, "admit")
          /\ UNCHANGED faults
       \/ /\ ~CacheHit
          /\ Pass(h, "mongo")
          /\ UNCHANGED faults
       \/ /\ Fault
          /\ Pass(h, "alone")
    /\ UNCHANGED <<clock, userVars, tokenVars, revocationVars, ghostSession,
                   ghostRevocation, endings>>

\* Without Redis, MongoDB's answer is used and not cached.
AskMongoAlone(h) ==
    /\ at[h] = "alone"
    /\ IF Rejects(stamp[h], invalidBefore) THEN End(h) ELSE Pass(h, "admit")
    /\ UNCHANGED <<clock, userVars, tokenVars, revocationVars, ghostSession,
                   ghostRevocation, faults, endings>>

\* MongoDB answers instead.
AskMongo(h) ==
    /\ at[h] = "mongo"
    /\ read' = [read EXCEPT ![h] = invalidBefore]
    /\ Go(h, "fill")
    /\ UNCHANGED <<clock, userVars, tokenVars, revocationVars, sess, origin, stamp,
                   consumed, cutoff, ghostSession, ghostRevocation, faults, endings>>

\* The answer is cached, "0" for an unset time, or Redis fails again; and the
\* token is judged by what was read.
Fill(h) ==
    /\ at[h] = "fill"
    /\ \/ /\ cache' = IF read[h] = -1
                      THEN [value |-> 0, expires |-> clock + AccessLife]
                      ELSE [value |-> read[h], expires |-> clock + 2 * AccessLife]
          /\ UNCHANGED faults
       \/ Fault /\ UNCHANGED cache
    /\ IF Rejects(stamp[h], read[h])
       THEN End(h)
       ELSE Pass(h, "admit")
    /\ UNCHANGED <<clock, userVars, tokenVars, invalidBefore, ghostSession,
                   ghostRevocation, endings>>

\* get_current_user reads the user and refuses a banned one; what it returns
\* is used by the endpoint ("in").
Admit(h) ==
    /\ at[h] = "admit"
    /\ IF banned THEN End(h)
       ELSE Pass(h, "in")
    /\ UNCHANGED <<clock, userVars, tokenVars, revocationVars, ghostSession,
                   ghostRevocation, faults, endings>>

Answer(h) ==
    /\ at[h] = "in"
    /\ End(h)
    /\ UNCHANGED <<clock, userVars, tokenVars, revocationVars, ghostSession,
                   ghostRevocation, faults, endings>>

-----------------------------------------------------------------------------
(* Ending sessions.                                                        *)

\* logout deletes the refresh token of the cookie, if one was sent and is not
\* already replaced, and takes the revocation time.
Logout(h) ==
    /\ at[h] = "in"
    /\ endings < MaxEndings
    /\ endings' = endings + 1
    /\ refresh' \in {refresh, {t \in refresh : t.sess # sess[h]}}
    /\ stamp' = [stamp EXCEPT ![h] = clock]
    /\ Go(h, "store")
    /\ UNCHANGED <<clock, userVars, access, issued, revocationVars, sess, origin, read,
                   consumed, cutoff, ghostSession, ghostRevocation, faults>>

\* change_password, once the current password was verified.
ChangePassword(h) ==
    /\ at[h] = "in"
    /\ Go(h, "setpw")
    /\ UNCHANGED <<clock, userVars, tokenVars, revocationVars, sess, origin, stamp,
                   read, consumed, cutoff, ghostSession, ghostRevocation, faults,
                   endings>>

\* request_password_reset stores a token and mails it.
RequestReset ==
    /\ links < MaxLinks
    /\ links' = links + 1
    /\ UNCHANGED <<clock, password, banned, tokenVars, revocationVars, handlerVars,
                   ghostSession, ghostRevocation, faults, endings>>

\* reset_password consumes it in one step.
ResetPassword(h) ==
    /\ at[h] = "idle" /\ links > 0
    /\ links' = links - 1
    /\ Go(h, "setpw")
    /\ UNCHANGED <<clock, password, banned, tokenVars, revocationVars, sess, origin,
                   stamp, read, consumed, cutoff, ghostSession, ghostRevocation,
                   faults, endings>>

\* Both write the new hash first.
SetPassword(h) ==
    /\ at[h] = "setpw"
    /\ endings < MaxEndings
    /\ endings' = endings + 1
    /\ password' = password + 1
    /\ Go(h, "purge")
    /\ UNCHANGED <<clock, banned, links, tokenVars, revocationVars, sess, origin,
                   stamp, read, consumed, cutoff, ghostSession, ghostRevocation,
                   faults>>

\* Sessions that are neither in the collection nor over: being opened, renewed.
InTransit == {sess[h] : h \in {k \in Handlers : at[k] \in {"user", "issue", "insert"}}}

\* Mutant: only the session that asked is ended.
PurgeOwn(h) ==
    /\ at[h] = "purge"
    /\ refresh' = {t \in refresh : t.sess # sess[h]}
    /\ straddled' = straddled \cup InTransit
    /\ stamp' = [stamp EXCEPT ![h] = clock]
    /\ Go(h, "store")
    /\ UNCHANGED <<clock, userVars, access, issued, revocationVars, sess, origin, read,
                   consumed, cutoff, began, version, ghostRevocation, faults, endings>>

\* delete_all_for_user, then the revocation time is taken.
Purge(h) ==
    /\ at[h] = "purge"
    /\ refresh' = {}
    /\ straddled' = straddled \cup InTransit
    /\ stamp' = [stamp EXCEPT ![h] = clock]
    /\ Go(h, "store")
    /\ UNCHANGED <<clock, userVars, access, issued, revocationVars, sess, origin, read,
                   consumed, cutoff, began, version, ghostRevocation, faults, endings>>

\* Mutant: the time is written in milliseconds.
StoreMillis(h) ==
    /\ at[h] = "store"
    /\ invalidBefore' = 1000 * stamp[h]
    /\ raced' = (raced \/ \E k \in Handlers \ {h} : at[k] \in {"store", "publish", "fill"})
    /\ Go(h, "publish")
    /\ UNCHANGED <<clock, userVars, tokenVars, cache, sess, origin, stamp, read,
                   consumed, cutoff, ghostSession, revoked, faults, endings>>

\* invalidate_all_user_tokens writes the time to MongoDB.
Store(h) ==
    /\ at[h] = "store"
    /\ invalidBefore' = stamp[h]
    /\ raced' = (raced \/ \E k \in Handlers \ {h} : at[k] \in {"store", "publish", "fill"})
    /\ Go(h, "publish")
    /\ UNCHANGED <<clock, userVars, tokenVars, cache, sess, origin, stamp, read,
                   consumed, cutoff, ghostSession, revoked, faults, endings>>

\* Then to Redis, where a failure is logged and ignored.
Publish(h) ==
    /\ at[h] = "publish"
    /\ \/ /\ cache' = [value |-> stamp[h], expires |-> clock + 2 * AccessLife]
          /\ UNCHANGED <<faults, raced>>
       \/ /\ Fault
          /\ raced' = TRUE
          /\ UNCHANGED cache
    /\ revoked' = IF stamp[h] > revoked THEN stamp[h] ELSE revoked
    /\ End(h)
    /\ UNCHANGED <<clock, userVars, tokenVars, invalidBefore, ghostSession, endings>>

\* An admin bans the user: the flag, then every refresh token.
Ban(h) ==
    /\ at[h] = "idle" /\ ~banned
    /\ endings < MaxEndings
    /\ endings' = endings + 1
    /\ banned' = TRUE
    /\ Go(h, "banpurge")
    /\ UNCHANGED <<clock, password, links, tokenVars, revocationVars, sess, origin,
                   stamp, read, consumed, cutoff, ghostSession, ghostRevocation,
                   faults>>

BanPurge(h) ==
    /\ at[h] = "banpurge"
    /\ refresh' = {}
    /\ straddled' = straddled \cup InTransit
    /\ End(h)
    /\ UNCHANGED <<clock, userVars, access, issued, revocationVars, began, version,
                   ghostRevocation, faults, endings>>

Unban ==
    /\ banned
    /\ banned' = FALSE
    /\ UNCHANGED <<clock, password, links, tokenVars, revocationVars, handlerVars,
                   ghostSession, ghostRevocation, faults, endings>>

-----------------------------------------------------------------------------

Next ==
    \/ Tick \/ RequestReset \/ Unban
    \/ \E h \in Handlers :
          \/ \E s \in Logins : Login(h, s)
          \/ \E t \in refresh : Refresh(h, t)
          \/ \E a \in access : Call(h, a)
          \/ RefreshUser(h) \/ Issue(h) \/ Insert(h)
          \/ AskRedis(h) \/ AskMongo(h) \/ AskMongoAlone(h) \/ Fill(h)
          \/ Admit(h) \/ Answer(h)
          \/ Logout(h) \/ ChangePassword(h) \/ ResetPassword(h)
          \/ SetPassword(h) \/ Purge(h) \/ Store(h) \/ Publish(h)
          \/ Ban(h) \/ BanPurge(h)

Spec == Init /\ [][Next]_vars

-----------------------------------------------------------------------------
(* Properties.                                                             *)

\* Rotation: refreshes of the same token, in as many tabs as one likes, leave
\* at most one refresh token of the session, in the collection or on its way.
OneTokenPerSession ==
    \A s \in Logins :
        Cardinality({t \in refresh : t.sess = s})
          + Cardinality({h \in Handlers : sess[h] = s /\
                            at[h] \in {"user", "issue", "insert"}}) <= 1

\* However often it is renewed, no session is renewed later than SessionLife
\* after the login it began with.
SessionsExpire ==
    \A h \in Handlers :
        consumed[h] # -1 => consumed[h] - began[sess[h]] <= SessionLife

\* After a password change or reset every session opened with an earlier
\* password is gone, except those a login or refresh was just producing when
\* the sessions were deleted.
OldPasswordLoggedOut ==
    (\A h \in Handlers : at[h] # "purge") =>
        \A t \in refresh :
            version[t.sess] = password \/ t.sess \in straddled

\* Once a revocation is complete, no access token issued before it, nor in the
\* same second, gets a request past get_current_user, unless the revocation
\* raced with another one or with a cache fill, or its Redis write failed.
RevokedRejected ==
    ~raced => \A h \in Handlers : at[h] = "in" => stamp[h] > cutoff[h]

\* "All other sessions have been logged out", says change_password: once it is
\* done, no refresh token is left of a session opened with an old password.
OthersLoggedOut ==
    (\A h \in Handlers : at[h] # "purge") =>
        \A t \in refresh : version[t.sess] = password

=============================================================================
