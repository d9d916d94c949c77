------------------------------ MODULE Account ------------------------------
(* The session in the browser: the store (store/auth-store.ts), the client  *)
(* that renews a refused token and repeats the request (lib/api/client.ts), *)
(* and the forms that send requests: those of app/(auth) (log in, register, *)
(* the links sent by mail) and the settings (app/(main)/settings/page.tsx,  *)
(* components/settings).                                                    *)
(*                                                                          *)
(* What the forms hold is left out: an invalid input only changes the       *)
(* message of its form.  The server answers requests in any order; its      *)
(* refresh tokens are used once (module Sessions).                          *)
EXTENDS Naturals, FiniteSets

CONSTANTS
    MaxSends,     \* bound: requests that forms send
    MaxExpiries,  \* bound: how often the access tokens expire
    MaxFaults     \* bound: requests that fail for another reason than their token

ASSUME AccountBounds == MaxSends \in Nat /\ MaxExpiries \in Nat /\ MaxFaults \in Nat

VARIABLES
    store,          \* the auth store: a user, loading, banned, the access token
    session,        \* the cookie opens a session
    req,            \* the request of each form
    asks,           \* refreshes of the client and of refreshAuth, mounted or logged in
    signing,        \* /auth/logout is under way
    leaving,        \* window.location has been set
    page, step,     \* where the user is; the step of the registration, or of a link
    crop, cropping, \* the dialog of the picture; a cropped file is being made
    sends, expiries, faults

session_vars == <<store, session>>
net_vars == <<req, asks, signing, leaving>>
view_vars == <<page, step, crop, cropping>>
AccountVars == <<session_vars, net_vars, view_vars, sends, expiries, faults>>

Tokens == {"no token", "good", "old"}
Profile == {"profile", "preferences", "switches"}   \* one mutation, useUpdateProfile
Mailed == {"reset", "verify"}                        \* forms reached by a link in a mail
Forms == Profile \cup Mailed \cup
         {"login", "register", "forgot", "email", "resend", "password", "picture", "badge"}
Views == {"home", "login", "register", "settings", "forgot"} \cup Mailed
Stages == {"quiet", "sent", "queued", "refreshing"}
NoRequest == [at |-> "quiet", with |-> "no token", again |-> FALSE]
NoAsk == [at |-> "quiet", fine |-> TRUE]
Refreshing == [at |-> "refresh", fine |-> TRUE]
Askers == {"client", "mount", "login"}

AccountTypeOK ==
    /\ store \in [user : BOOLEAN, loading : BOOLEAN, banned : BOOLEAN, token : Tokens]
    /\ session \in BOOLEAN
    /\ req \in [Forms -> [at : Stages, with : Tokens, again : BOOLEAN]]
    /\ asks \in [Askers -> [at : {"quiet", "refresh", "me"}, fine : BOOLEAN]]
    /\ signing \in BOOLEAN /\ leaving \in BOOLEAN
    /\ page \in Views /\ step \in {"credentials", "confirmPassword", "email", "asked", "done"}
    /\ crop \in {"closed", "loading", "ready"} /\ cropping \in BOOLEAN
    /\ sends \in 0..MaxSends /\ expiries \in 0..MaxExpiries /\ faults \in 0..MaxFaults

\* A page of the application is loaded; AuthProvider calls refreshAuth.
NewStore == [user |-> FALSE, loading |-> TRUE, banned |-> FALSE, token |-> "no token"]
NewRequests == [f \in Forms |-> NoRequest]
Mounted == [a \in Askers |-> IF a = "mount" THEN Refreshing ELSE NoAsk]

AccountInit ==
    /\ store = NewStore /\ session \in BOOLEAN
    /\ req = NewRequests /\ asks = Mounted /\ signing = FALSE /\ leaving = FALSE
    /\ page \in Views /\ step = "credentials"
    /\ crop = "closed" /\ cropping = FALSE
    /\ sends = 0 /\ expiries = 0 /\ faults = 0

\* Another page is mounted, with a state of its own; requests go on.
Shows(v) ==
    /\ page' = v
    /\ IF v = page THEN UNCHANGED <<step, crop>> ELSE step' = "credentials" /\ crop' = "closed"

Fault == faults < MaxFaults /\ faults' = faults + 1
NoFault == UNCHANGED faults

-----------------------------------------------------------------------------
(* The forms send.  Named bound: a form has one request under way, also     *)
(* those that do not disable their button (preferences, switches, password, *)
(* badges), and nobody acts any more on a page that is being left.          *)

\* The request takes the token of the store with it.
Dispatch(f) ==
    /\ ~leaving /\ sends < MaxSends /\ req[f].at = "quiet"
    /\ sends' = sends + 1
    /\ req' = [req EXCEPT ![f] = [at |-> "sent", with |-> store.token, again |-> FALSE]]
    /\ UNCHANGED <<session, asks, signing, leaving, expiries, faults>>

\* The view of a banned user has no form.  The answer of an earlier login is awaited.
SubmitLogin ==
    /\ page = "login" /\ ~store.user /\ ~store.banned /\ asks["login"].at = "quiet"
    /\ Dispatch("login")
    /\ UNCHANGED <<store, view_vars>>

\* The fields of the earlier steps can still be edited, and are not checked again.
NextStep ==
    /\ page = "register" /\ ~store.user /\ ~leaving /\ req["register"].at = "quiet"
    /\ \/ step = "credentials" /\ step' = "confirmPassword"
       \/ step = "confirmPassword" /\ step' = "email"
    /\ UNCHANGED <<session_vars, net_vars, page, crop, cropping, sends, expiries, faults>>

SubmitRegister ==
    /\ page = "register" /\ ~store.user /\ step = "email"
    /\ Dispatch("register")
    /\ UNCHANGED <<store, view_vars>>

RequestReset == page = "forgot" /\ Dispatch("forgot") /\ UNCHANGED <<store, view_vars>>

\* The form is gone when the password is reset.
SubmitReset ==
    /\ page = "reset" /\ step # "done"
    /\ Dispatch("reset")
    /\ UNCHANGED <<store, view_vars>>

\* The effect that finds the token in the address; the page says "invalid" until the
\* answer comes.
VerifyEmail ==
    /\ page = "verify" /\ step = "credentials"
    /\ step' = "asked"
    /\ Dispatch("verify")
    /\ UNCHANGED <<store, page, crop, cropping>>

\* ProtectedRoute shows the settings to a user.
InSettings == page = "settings" /\ store.user /\ ~store.loading

Post(f) == InSettings /\ Dispatch(f) /\ UNCHANGED <<store, view_vars>>

\* Disabled while the mutation is pending, which the preferences use as well.  Named
\* bound: also if only an earlier use of it is.
SaveProfile == (\A f \in Profile : req[f].at = "quiet") /\ Post("profile")

SavePreferences == Post("preferences")

\* The switch turns at once, and stays so if the request fails.
FlipSwitch == Post("switches")

\* "Set" or "Remove": the same mutation.
UpdateEmail == Post("email")

ResendVerification == Post("resend")

ChangePassword == Post("password")

\* A badge is set, or cleared.
PickBadge == Post("badge")

-----------------------------------------------------------------------------
(* The picture.                                                             *)

SetCrop(c) ==
    /\ InSettings /\ ~leaving /\ crop' = c
    /\ UNCHANGED <<session_vars, net_vars, page, step, cropping, sends, expiries, faults>>

Uploading == req["picture"].at # "quiet"

ChooseFile == crop = "closed" /\ ~Uploading /\ SetCrop("loading")

\* A broken image never does.
ImageLoads == crop = "loading" /\ SetCrop("ready")

\* Not while uploading; a file that is being cropped is uploaded nevertheless.
CancelCrop == crop # "closed" /\ ~Uploading /\ SetCrop("closed")

\* The button is enabled again until the file is made.  Named bound: one at a time.
UsePhoto ==
    /\ InSettings /\ ~leaving /\ crop = "ready" /\ ~Uploading /\ ~cropping
    /\ cropping' = TRUE
    /\ UNCHANGED <<session_vars, net_vars, page, step, crop, sends, expiries, faults>>

\* The dialog's promise goes on after it was closed, or the page left.
UploadPicture ==
    /\ cropping
    /\ cropping' = FALSE
    /\ Dispatch("picture")
    /\ UNCHANGED <<store, page, step, crop>>

CropFails ==
    /\ cropping
    /\ cropping' = FALSE
    /\ UNCHANGED <<session_vars, net_vars, page, step, crop, sends, expiries, faults>>

-----------------------------------------------------------------------------
(* Answers.                                                                 *)

\* Endpoints under /auth/: the client passes their 401 on.
Bare == Mailed \cup {"login", "register", "forgot", "resend", "password"}
Public == Bare \ {"resend", "password"}

Accepted(f) == f \in Public \/ req[f].with = "good"
Over(f) == req[f].at = "sent" /\ req' = [req EXCEPT ![f] = NoRequest]

SignedIn == [user |-> TRUE, loading |-> FALSE, banned |-> FALSE, token |-> "good"]

\* login: the user is taken from the answer, and refreshAuth asks for the rest.
LoginSucceeds ==
    /\ Over("login")
    /\ store' = SignedIn /\ session' = TRUE
    /\ asks' = [asks EXCEPT !["login"] = Refreshing]
    /\ \E v \in {"home", "settings"} : Shows(v)   \* the redirect parameter
    /\ UNCHANGED <<signing, leaving, cropping, sends, expiries, faults>>

LoginBanned ==
    /\ Over("login")
    /\ store' = [store EXCEPT !.banned = TRUE, !.loading = FALSE]
    /\ UNCHANGED <<session, asks, signing, leaving, view_vars, sends, expiries, faults>>

RegisterSucceeds ==
    /\ Over("register")
    /\ store' = [SignedIn EXCEPT !.banned = store.banned] /\ session' = TRUE
    /\ Shows("home")
    /\ UNCHANGED <<asks, signing, leaving, cropping, sends, expiries, faults>>

\* setUser: a user is there again, also if the store was signed out meanwhile.
WithUser == [store EXCEPT !.user = TRUE, !.loading = FALSE]

ProfileSaved(f) ==
    /\ f \in {"profile", "preferences"} /\ Accepted(f) /\ Over(f)
    /\ store' = WithUser
    /\ UNCHANGED <<session, asks, signing, leaving, view_vars, sends, expiries, faults>>

PictureSaved ==
    /\ Accepted("picture") /\ Over("picture")
    /\ store' = WithUser
    /\ crop' = "closed"
    /\ UNCHANGED <<session, asks, signing, leaving, page, step, cropping, sends, expiries,
                   faults>>

\* A password that was reset ends all sessions of its user.
LinkUsed(f) ==
    /\ f \in Mailed /\ Over(f)
    /\ step' = IF page = f THEN "done" ELSE step
    /\ session' \in IF f = "reset" THEN {session, FALSE} ELSE {session}
    /\ UNCHANGED <<store, asks, signing, leaving, page, crop, cropping, sends, expiries, faults>>

\* The others show a message, or ask their queries again.
Saved(f) ==
    /\ f \in {"forgot", "switches", "email", "resend", "password", "badge"} /\ Accepted(f) /\ Over(f)
    /\ UNCHANGED <<session_vars, asks, signing, leaving, view_vars, sends, expiries, faults>>

\* The form shows the error.  A refused token is an error if it was renewed before, or
\* if the endpoint is bare.
RequestFails(f) ==
    /\ Over(f)
    /\ IF Accepted(f) THEN Fault ELSE (f \in Bare \/ req[f].again) /\ NoFault
    /\ UNCHANGED <<session_vars, asks, signing, leaving, view_vars, sends, expiries>>

\* 401: the first request asks for a new token, the next ones wait for it.
Unauthorized(f) ==
    /\ req[f].at = "sent" /\ ~Accepted(f) /\ f \notin Bare /\ ~req[f].again
    /\ IF asks["client"].at = "refresh"
       THEN req' = [req EXCEPT ![f].at = "queued"] /\ UNCHANGED asks
       ELSE /\ req' = [req EXCEPT ![f].at = "refreshing", ![f].again = TRUE]
            /\ asks' = [asks EXCEPT !["client"] = Refreshing]
    /\ UNCHANGED <<session_vars, signing, leaving, view_vars, sends, expiries, faults>>

-----------------------------------------------------------------------------
(* The refresh of the client.                                               *)

\* A refresh token is used once: other refreshes on their way with it are refused.
Rotated(a, next) ==
    [b \in Askers |-> IF b = a THEN next
                      ELSE [asks[b] EXCEPT !.fine = @ /\ asks[b].at # "refresh"]]

\* Mutant: the queue is forgotten.
Forgotten(r) == r

\* processQueue: what waited is sent again, and may be refreshed once more.
Released(r) == IF r.at = "queued" THEN [r EXCEPT !.at = "sent", !.with = "good"] ELSE r

Repeated(r) == IF r.at = "refreshing" THEN [r EXCEPT !.at = "sent", !.with = "good"] ELSE r

ClientRefreshed ==
    /\ asks["client"] = Refreshing /\ session
    /\ store' = [store EXCEPT !.token = "good"]
    /\ req' = [f \in Forms |-> Repeated(Released(req[f]))]
    /\ asks' = Rotated("client", NoAsk)
    /\ UNCHANGED <<session, signing, leaving, view_vars, sends, expiries, faults>>

\* A lost answer may have used the token.
RefreshRefused(a) ==
    IF asks[a].fine /\ session THEN Fault /\ session' \in {TRUE, FALSE}
                               ELSE NoFault /\ UNCHANGED session

\* Whoever waited is refused, the store is signed out, and the page is left.
ClientRefreshFails ==
    /\ asks["client"].at = "refresh" /\ RefreshRefused("client")
    /\ req' = [f \in Forms |-> IF req[f].at \in {"refreshing", "queued"} THEN NoRequest ELSE req[f]]
    /\ asks' = [asks EXCEPT !["client"] = NoAsk]
    /\ signing' = TRUE /\ leaving' = TRUE
    /\ UNCHANGED <<store, view_vars, sends, expiries>>

Reload ==
    /\ leaving
    /\ store' = NewStore /\ req' = NewRequests /\ asks' = Mounted
    /\ signing' = FALSE /\ leaving' = FALSE
    /\ page' = "login" /\ step' = "credentials"
    /\ crop' = "closed" /\ cropping' = FALSE
    /\ session' \in {session, session /\ ~signing}
    /\ UNCHANGED <<sends, expiries, faults>>

-----------------------------------------------------------------------------
(* The store's own requests.                                                *)

StoreRefreshed(a) ==
    /\ a # "client" /\ asks[a] = Refreshing /\ session
    /\ store' = [store EXCEPT !.token = "good"]
    /\ asks' = Rotated(a, [at |-> "me", fine |-> TRUE])
    /\ UNCHANGED <<session, req, signing, leaving, view_vars, sends, expiries, faults>>

MeArrives(a) ==
    /\ asks[a] = [at |-> "me", fine |-> TRUE]
    /\ store' = WithUser
    /\ asks' = [asks EXCEPT ![a] = NoAsk]
    /\ UNCHANGED <<session, req, signing, leaving, view_vars, sends, expiries, faults>>

SignedOutStore == [store EXCEPT !.user = FALSE, !.loading = FALSE, !.token = "no token"]

\* Any failure signs out, a login of the meantime included.
RefreshAuthFails(a) ==
    /\ a # "client" /\ asks[a].at # "quiet"
    /\ IF asks[a].at = "refresh" THEN RefreshRefused(a)
       ELSE UNCHANGED session /\ IF asks[a].fine THEN Fault ELSE NoFault
    /\ store' = SignedOutStore
    /\ asks' = [asks EXCEPT ![a] = NoAsk]
    /\ UNCHANGED <<req, signing, leaving, view_vars, sends, expiries>>

\* The menu of the bar.
LogOut ==
    /\ store.user /\ ~signing /\ ~leaving
    /\ signing' = TRUE
    /\ UNCHANGED <<session_vars, req, asks, leaving, view_vars, sends, expiries, faults>>

\* The store is emptied when the answer comes, whatever it says.
LoggedOut ==
    /\ signing
    /\ signing' = FALSE
    /\ store' = SignedOutStore /\ session' \in {FALSE, session}
    /\ IF leaving THEN UNCHANGED <<page, step, crop>> ELSE Shows("home")
    /\ UNCHANGED <<req, asks, leaving, cropping, sends, expiries, faults>>

\* Tokens expire, or the session is revoked: a ban, or a password changed elsewhere.
Expire ==
    /\ expiries < MaxExpiries /\ expiries' = expiries + 1
    /\ session' \in {FALSE, session}
    /\ store' = [store EXCEPT !.token = IF @ = "good" THEN "old" ELSE @]
    /\ req' = [f \in Forms |-> [req[f] EXCEPT !.with = IF @ = "good" THEN "old" ELSE @]]
    /\ asks' = [a \in Askers |-> [asks[a] EXCEPT !.fine = @ /\ asks[a].at # "me"]]
    /\ UNCHANGED <<signing, leaving, view_vars, sends, faults>>

-----------------------------------------------------------------------------
(* Moving.                                                                  *)

GoTo(v) ==
    /\ page # v /\ ~leaving
    /\ Shows(v)
    /\ UNCHANGED <<session_vars, net_vars, cropping, sends, expiries, faults>>

\* ProtectedRoute sends away who is not signed in.
Protect == page = "settings" /\ ~store.loading /\ ~store.user /\ GoTo("login")

\* The effect of both forms.
LeaveForm == page \in {"login", "register"} /\ store.user /\ GoTo("home")

Follows(v) == ~(page \in {"login", "register"} /\ store.user) /\ GoTo(v)

-----------------------------------------------------------------------------

Sending ==
    \/ SubmitLogin \/ NextStep \/ SubmitRegister \/ RequestReset \/ SubmitReset \/ VerifyEmail
    \/ SaveProfile \/ SavePreferences \/ FlipSwitch
    \/ UpdateEmail \/ ResendVerification \/ ChangePassword \/ PickBadge
    \/ ChooseFile \/ ImageLoads \/ CancelCrop
    \/ UsePhoto \/ UploadPicture \/ CropFails

Answered(f) ==
    /\ req[f].at = "sent"
    /\ \/ f = "login" /\ (LoginSucceeds \/ LoginBanned)
       \/ f = "register" /\ RegisterSucceeds
       \/ f = "picture" /\ PictureSaved
       \/ ProfileSaved(f) \/ LinkUsed(f) \/ Saved(f) \/ RequestFails(f) \/ Unauthorized(f)

ClientAnswered == ClientRefreshed \/ ClientRefreshFails

AccountNext ==
    \/ Sending \/ ClientAnswered \/ Reload
    \/ \E f \in Forms : Answered(f)
    \/ \E a \in Askers : StoreRefreshed(a) \/ MeArrives(a) \/ RefreshAuthFails(a)
    \/ LogOut \/ LoggedOut \/ Expire \/ Protect \/ LeaveForm
    \/ \E v \in Views : Follows(v)

\* Answers come, of the server or of a browser that gives up: not even each one, but
\* some, as long as any is awaited.
AccountFairness == WF_AccountVars(ClientAnswered \/ \E f \in Forms : Answered(f))

-----------------------------------------------------------------------------

\* Whatever expires, is revoked, fails or overlaps: a request of a form ends, so that
\* its button is enabled again.  Nobody waits for ever in the client's queue
\* (lib/api/client.ts), and no two requests renew tokens for each other without end.
EveryRequestEnds == <>[](\A f \in Forms : req[f].at = "quiet")

=============================================================================
