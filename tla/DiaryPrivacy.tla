---------------------------- MODULE DiaryPrivacy ----------------------------
(***************************************************************************)
(* The life of a diary and its media: an owner creates, updates and        *)
(* deletes it, moderators hide and unhide it, and strangers fetch its      *)
(* media.  Each request is a handler that reads the diary and writes it    *)
(* later, so requests interleave between their database calls.             *)
(*                                                                         *)
(* A diary is its privacy; a diary created private holds ciphertext and is *)
(* in Sealed.  All diaries and media here belong to one user.              *)
(***************************************************************************)
EXTENDS Integers, FiniteSets

CONSTANTS
    Diaries,            \* the diaries that may be created
    Media,              \* files the owner has uploaded
    Requests,           \* request handlers that may run at the same time
    NoDiary,            \* the diary of an unattached file
    CarefulAbout,       \* moderators hide only what is not hidden ("hide") and
                        \* unhide only what is ("unhide")
    MaxRequests,        \* how many requests there are in a behaviour
    MaxCrashes          \* how many of them are cut short

ASSUME PrivacyConstants ==
    /\ NoDiary \notin Diaries
    /\ CarefulAbout \subseteq {"hide", "unhide"}
    /\ MaxRequests \in Nat
    /\ MaxCrashes \in Nat

VARIABLES
    privacy,    \* privacy[d]: "absent" before it is created, "deleted" after
    original,   \* original[d]: hidden_original_privacy, or "unset"
    home,       \* home[m]: the diary m is attached to
    isPrivate,  \* isPrivate[m]: the stored flag of m
    kept,       \* the files whose record still exists
    count,      \* the owner's stats.diary_count
    wiping,     \* diaries a background task will delete the media of
    op, at, on, \* op[r], at[r], on[r]: r's handler, its next step, its diary
    seen,       \* seen[r]: the privacy (unhide: the original) r has read
    want,       \* want[r]: the privacy asked for, or "same"
    files,      \* files[r]: the media_ids of r, or the one file fetched
    sealed,     \* ghost: diaries created private
    chosen,     \* ghost: the privacy the owner last gave d
    exposed,    \* ghost: unpublished, but not yet sent to the search outbox
    cut,        \* ghost: diaries a request on which ended half way
    opened,     \* ghost: requests whose diary was public while they ran
    used        \* requests and crashes so far

diaryVars == <<privacy, original, sealed, chosen, exposed, opened>>
mediaVars == <<home, isPrivate, kept>>
formVars == <<on, want, files>>
vars == <<diaryVars, mediaVars, count, wiping, op, at, formVars, seen, cut, used>>

Choices == {"public", "draft", "private"}
Stored == Choices \cup {"hidden"}
Steps == {"idle", "write", "attach", "match", "count", "sync", "reread", "after",
          "check"}
Ops == {"none", "create", "update", "delete", "hide", "unhide", "fetch"}

\* The type invariant.
TypeOK ==
    /\ privacy \in [Diaries -> Stored \cup {"absent", "deleted"}]
    /\ original \in [Diaries -> Stored \cup {"unset"}]
    /\ home \in [Media -> Diaries \cup {NoDiary}]
    /\ isPrivate \in [Media -> BOOLEAN]
    /\ kept \in SUBSET Media
    /\ count \in Int
    /\ wiping \in SUBSET Diaries
    /\ op \in [Requests -> Ops]
    /\ at \in [Requests -> Steps]
    /\ on \in [Requests -> Diaries \cup {NoDiary}]
    /\ \A r \in Requests : at[r] # "idle" => on[r] \in Diaries
    /\ seen \in [Requests -> Stored \cup {"unset"}]
    /\ want \in [Requests -> Choices \cup {"same"}]
    /\ files \in [Requests -> SUBSET Media]
    /\ sealed \in SUBSET Diaries
    /\ chosen \in [Diaries -> Choices \cup {"unset"}]
    /\ exposed \in SUBSET Diaries
    /\ cut \in SUBSET Diaries
    /\ opened \in SUBSET Requests
    /\ used \in [{"request", "crash"} -> Nat]

Init ==
    /\ privacy = [d \in Diaries |-> "absent"]
    /\ original = [d \in Diaries |-> "unset"]
    /\ home = [m \in Media |-> NoDiary]
    /\ isPrivate = [m \in Media |-> TRUE]
    /\ kept = Media
    /\ count = 0
    /\ wiping = {}
    /\ op = [r \in Requests |-> "none"]
    /\ at = [r \in Requests |-> "idle"]
    /\ on = [r \in Requests |-> NoDiary]
    /\ seen = [r \in Requests |-> "unset"]
    /\ want = [r \in Requests |-> "same"]
    /\ files = [r \in Requests |-> {}]
    /\ sealed = {}
    /\ chosen = [d \in Diaries |-> "unset"]
    /\ exposed = {}
    /\ cut = {}
    /\ opened = {}
    /\ used = [k \in {"request", "crash"} |-> 0]

-----------------------------------------------------------------------------
(* Steps of a request.                                                     *)

Exists(d) == privacy[d] \in Stored

\* Request r of kind o starts on d and continues at step s.
Start(r, o, s, d, w, fs) ==
    /\ at[r] = "idle"
    /\ used["request"] < MaxRequests
    /\ used' = [used EXCEPT !["request"] = @ + 1]
    /\ op' = [op EXCEPT ![r] = o]
    /\ at' = [at EXCEPT ![r] = s]
    /\ on' = [on EXCEPT ![r] = d]
    /\ want' = [want EXCEPT ![r] = w]
    /\ files' = [files EXCEPT ![r] = fs]

\* r goes on to step s with the form it was sent.
Go(r, s) ==
    /\ at' = [at EXCEPT ![r] = s]
    /\ UNCHANGED <<op, formVars, used>>

\* r answers, or gives up: its locals are gone.
End(r) ==
    /\ op' = [op EXCEPT ![r] = "none"]
    /\ at' = [at EXCEPT ![r] = "idle"]
    /\ on' = [on EXCEPT ![r] = NoDiary]
    /\ seen' = [seen EXCEPT ![r] = "unset"]
    /\ want' = [want EXCEPT ![r] = "same"]
    /\ files' = [files EXCEPT ![r] = {}]
    /\ UNCHANGED used

\* The diary of r gets privacy p and original o, if it still exists.  A diary
\* that stops being public is exposed until the outbox hears of it.
Write(r, p, o) ==
    LET d == on[r]
    IN  IF Exists(d)
        THEN /\ privacy' = [privacy EXCEPT ![d] = p]
             /\ original' = [original EXCEPT ![d] = o]
             /\ exposed' = IF privacy[d] = "public" /\ p # "public"
                                                    /\ op[r] # "unhide"
                           THEN exposed \cup {d} ELSE exposed
             /\ opened' = IF p = "public"
                          THEN opened \cup {q \in Requests : on[q] = d}
                          ELSE opened
        ELSE UNCHANGED <<privacy, original, exposed, opened>>

\* _index_diary_async, _remove_from_index_async: the outbox will hear of d.
Schedule(d) ==
    /\ exposed' = exposed \ {d}
    /\ UNCHANGED <<privacy, original, sealed, chosen, opened>>

-----------------------------------------------------------------------------
(* The owner's requests.                                                   *)

\* create_diary, up to the insertion of the document.
Create(r, d) ==
    /\ privacy[d] = "absent"
    /\ \E p \in Choices, fs \in SUBSET Media :
          /\ Start(r, "create", "attach", d, p, fs)
          /\ privacy' = [privacy EXCEPT ![d] = p]
          /\ sealed' = IF p = "private" THEN sealed \cup {d} ELSE sealed
          /\ chosen' = [chosen EXCEPT ![d] = p]
    /\ opened' = opened \ {r}
    /\ UNCHANGED <<original, exposed, mediaVars, count, wiping, seen, cut>>

\* update_diary reads the diary and refuses to cross the private border.
Update(r, d) ==
    /\ Exists(d)
    /\ \E w \in Choices \cup {"same"}, fs \in SUBSET Media :
          /\ w # "same" => (w = "private" <=> privacy[d] = "private")
          /\ Start(r, "update", "write", d, w, fs)
    /\ seen' = [seen EXCEPT ![r] = privacy[d]]
    /\ opened' = opened \ {r}
    /\ UNCHANGED <<privacy, original, sealed, chosen, exposed, mediaVars, count,
                   wiping, cut>>

\* Mutant: the privacy read is not looked at.
SetsWhatIsAsked(r) == want[r] \in {"public", "draft"}

\* set_fields has a privacy: only between public and draft, by what was read.
SetsPrivacy(r) ==
    seen[r] \in {"public", "draft"} /\ want[r] \in {"public", "draft"}

\* diary_repo.update with set_fields.
UpdateWrite(r) ==
    /\ op[r] = "update" /\ at[r] = "write"
    /\ IF SetsPrivacy(r)
       THEN /\ Write(r, want[r], original[on[r]])
            /\ chosen' = [chosen EXCEPT ![on[r]] = want[r]]
       ELSE UNCHANGED <<privacy, original, exposed, opened, chosen>>
    /\ Go(r, "attach")
    /\ UNCHANGED <<sealed, mediaVars, count, wiping, seen, cut>>

\* The step after the files are attached.
AfterAttach(r) == IF op[r] = "create" THEN "count"
                  ELSE IF SetsPrivacy(r) THEN "sync" ELSE "reread"

\* File m may be attached to d.
Free(m, d) == m \in kept /\ home[m] \in {NoDiary, d}

\* ValidationException after the diary was written: the request ends there.
AttachRefused(r) ==
    /\ End(r)
    /\ cut' = cut \cup {on[r]}
    /\ UNCHANGED <<diaryVars, mediaVars, count, wiping>>

\* attach_to_diary reads the records and compares their owner and diary.
AttachCheck(r) ==
    /\ op[r] \in {"create", "update"} /\ at[r] = "attach"
    /\ \/ /\ files[r] = {}
          /\ Go(r, AfterAttach(r))
          /\ UNCHANGED <<diaryVars, mediaVars, count, wiping, seen, cut>>
       \/ /\ files[r] # {}
          /\ \A m \in files[r] : Free(m, on[r])
          /\ Go(r, "match")
          /\ UNCHANGED <<diaryVars, mediaVars, count, wiping, seen, cut>>
       \/ /\ \E m \in files[r] : ~Free(m, on[r])
          /\ AttachRefused(r)

\* The privacy _attach_media_to_diary is told.
AttachPrivacy(r) ==
    IF op[r] = "create" \/ SetsPrivacy(r) THEN want[r] ELSE seen[r]

\* Mutant: the update_many of attach_to_diary trusts the check before it.
AttachUnguarded(r) ==
    /\ at[r] = "match"
    /\ home' = [m \in Media |-> IF m \in files[r] \cap kept THEN on[r] ELSE home[m]]
    /\ isPrivate' = [m \in Media |-> IF m \in files[r] \cap kept
                                     THEN AttachPrivacy(r) # "public"
                                     ELSE isPrivate[m]]
    /\ Go(r, AfterAttach(r))
    /\ UNCHANGED <<kept, diaryVars, count, wiping, seen, cut>>

\* Its update_many matches the records that are still free, and the request
\* fails when they are not all of them.
AttachMatch(r) ==
    /\ at[r] = "match"
    /\ LET matched == {m \in files[r] : Free(m, on[r])}
       IN  /\ home' = [m \in Media |-> IF m \in matched THEN on[r] ELSE home[m]]
           /\ isPrivate' = [m \in Media |-> IF m \in matched
                                            THEN AttachPrivacy(r) # "public"
                                            ELSE isPrivate[m]]
           /\ IF matched = files[r]
              THEN Go(r, AfterAttach(r)) /\ UNCHANGED <<seen, cut>>
              ELSE End(r) /\ cut' = cut \cup {on[r]}
    /\ UNCHANGED <<kept, diaryVars, count, wiping>>

\* The counter, then the index task of a public diary, then the answer.
CreateCount(r) ==
    /\ at[r] = "count"
    /\ count' = count + 1
    /\ IF want[r] = "public" THEN Schedule(on[r]) ELSE UNCHANGED diaryVars
    /\ End(r)
    /\ UNCHANGED <<mediaVars, wiping, cut>>

\* sync_diary_media_privacy with the privacy this request has written.
Sync(r) ==
    /\ at[r] = "sync"
    /\ LET p == CASE op[r] = "update" -> want[r]
                  [] op[r] = "hide" -> "hidden"
                  [] op[r] = "unhide" -> seen[r]
       IN  isPrivate' = [m \in Media |-> IF m \in kept /\ home[m] = on[r]
                                         THEN p # "public" ELSE isPrivate[m]]
    /\ Go(r, IF op[r] = "hide" THEN "after" ELSE "reread")
    /\ UNCHANGED <<diaryVars, home, kept, count, wiping, seen, cut>>

\* The handler reads the diary again: a public one is indexed, and otherwise
\* one whose privacy was in the request is removed.  A diary deleted meanwhile
\* makes update_diary raise and unhide skip the index.
Reread(r) ==
    /\ at[r] = "reread"
    /\ IF \/ privacy[on[r]] = "public"
          \/ Exists(on[r]) /\ op[r] = "update" /\ want[r] # "same"
       THEN Schedule(on[r]) ELSE UNCHANGED diaryVars
    /\ End(r)
    /\ UNCHANGED <<mediaVars, count, wiping, cut>>

\* delete_diary reads the diary.
Delete(r, d) ==
    /\ Exists(d)
    /\ Start(r, "delete", "write", d, "same", {})
    /\ opened' = opened \ {r}
    /\ UNCHANGED <<privacy, original, sealed, chosen, exposed, mediaVars, count,
                   wiping, seen, cut>>

\* Mutant: the counter is decremented whatever delete_cascade returned.
DeleteUnchecked(r) ==
    /\ op[r] = "delete" /\ at[r] = "write"
    /\ Write(r, "deleted", original[on[r]])
    /\ Go(r, "after")
    /\ UNCHANGED <<seen, sealed, chosen, mediaVars, count, wiping, cut>>

\* delete_cascade, whose last step deletes the document if it is still there.
DeleteCascade(r) ==
    /\ op[r] = "delete" /\ at[r] = "write"
    /\ Write(r, "deleted", original[on[r]])
    /\ IF Exists(on[r]) THEN Go(r, "after") /\ UNCHANGED seen ELSE End(r)
    /\ UNCHANGED <<sealed, chosen, mediaVars, count, wiping, cut>>

\* Only if a document was deleted: counter, removal from the index, media task.
DeleteAfter(r) ==
    /\ op[r] = "delete" /\ at[r] = "after"
    /\ count' = count - 1
    /\ Schedule(on[r])
    /\ wiping' = wiping \cup {on[r]}
    /\ End(r)
    /\ UNCHANGED <<mediaVars, cut>>

\* cascade_delete_diary_media, in the background.
Wipe(d) ==
    /\ d \in wiping
    /\ wiping' = wiping \ {d}
    /\ kept' = {m \in kept : home[m] # d}
    /\ UNCHANGED <<diaryVars, home, isPrivate, count, op, at, formVars, seen, cut,
                   used>>

-----------------------------------------------------------------------------
(* The moderators' requests.                                               *)

\* admin_hide_diary reads the diary.
Hide(r, d) ==
    /\ Exists(d)
    /\ "hide" \in CarefulAbout => privacy[d] # "hidden"
    /\ Start(r, "hide", "write", d, "same", {})
    /\ seen' = [seen EXCEPT ![r] = privacy[d]]
    /\ opened' = opened \ {r}
    /\ UNCHANGED <<privacy, original, sealed, chosen, exposed, mediaVars, count,
                   wiping, cut>>

HideWrite(r) ==
    /\ op[r] = "hide" /\ at[r] = "write"
    /\ Write(r, "hidden", seen[r])
    /\ Go(r, "sync")
    /\ UNCHANGED <<sealed, chosen, mediaVars, count, wiping, seen, cut>>

\* Mutant: the index is left to the next full reindex.
HideForgetsIndex(r) ==
    /\ op[r] = "hide" /\ at[r] = "after"
    /\ End(r)
    /\ UNCHANGED <<diaryVars, mediaVars, count, wiping, cut>>

HideAfter(r) ==
    /\ op[r] = "hide" /\ at[r] = "after"
    /\ Schedule(on[r])
    /\ End(r)
    /\ UNCHANGED <<mediaVars, count, wiping, cut>>

\* admin_unhide_diary reads the privacy to restore, and takes "public" for
\* anything that is not one the owner could have chosen.
Unhide(r, d) ==
    /\ Exists(d)
    /\ "unhide" \in CarefulAbout => privacy[d] = "hidden"
    /\ Start(r, "unhide", "write", d, "same", {})
    /\ seen' = [seen EXCEPT ![r] = IF original[d] \in Choices
                                   THEN original[d] ELSE "public"]
    /\ opened' = opened \ {r}
    /\ UNCHANGED <<privacy, original, sealed, chosen, exposed, mediaVars, count,
                   wiping, cut>>

\* Mutant: the two fields are swapped.
UnhideSwapped(r) ==
    /\ op[r] = "unhide" /\ at[r] = "write"
    /\ Write(r, "unset", seen[r])
    /\ Go(r, "sync")
    /\ UNCHANGED <<sealed, chosen, mediaVars, count, wiping, seen, cut>>

UnhideWrite(r) ==
    /\ op[r] = "unhide" /\ at[r] = "write"
    /\ Write(r, seen[r], "unset")
    /\ Go(r, "sync")
    /\ UNCHANGED <<sealed, chosen, mediaVars, count, wiping, seen, cut>>

-----------------------------------------------------------------------------
(* A stranger's request for a file.                                        *)

\* resolve_media_file reads the record of m, which names the diary to read.  An
\* unattached file is refused at once: its flag is TRUE until it is attached.
Fetch(r, m) ==
    /\ m \in kept
    /\ home[m] # NoDiary
    /\ Start(r, "fetch", "check", home[m], "same", {m})
    /\ opened' = IF privacy[home[m]] = "public"
                 THEN opened \cup {r} ELSE opened \ {r}
    /\ UNCHANGED <<privacy, original, sealed, chosen, exposed, mediaVars, count,
                   wiping, seen, cut>>

\* Mutant: the stored flag is believed.
ServesStoredFlag(r) == \A m \in files[r] : ~isPrivate[m]

\* effective_is_private: the diary decides, and a missing one means private.
Serves(r) == privacy[on[r]] = "public"

\* The file is served ("after") or refused.
FetchCheck(r) ==
    /\ op[r] = "fetch" /\ at[r] = "check"
    /\ IF Serves(r) THEN Go(r, "after") /\ UNCHANGED seen ELSE End(r)
    /\ UNCHANGED <<diaryVars, mediaVars, count, wiping, cut>>

FetchDone(r) ==
    /\ op[r] = "fetch" /\ at[r] = "after"
    /\ End(r)
    /\ UNCHANGED <<diaryVars, mediaVars, count, wiping, cut>>

\* A process dies, or a database call raises, in the middle of a request.
Crash(r) ==
    /\ at[r] # "idle" /\ op[r] # "fetch"
    /\ used["crash"] < MaxCrashes
    /\ used' = [used EXCEPT !["crash"] = @ + 1]
    /\ op' = [op EXCEPT ![r] = "none"]
    /\ at' = [at EXCEPT ![r] = "idle"]
    /\ on' = [on EXCEPT ![r] = NoDiary]
    /\ seen' = [seen EXCEPT ![r] = "unset"]
    /\ want' = [want EXCEPT ![r] = "same"]
    /\ files' = [files EXCEPT ![r] = {}]
    /\ cut' = cut \cup {on[r]}
    /\ UNCHANGED <<diaryVars, mediaVars, count, wiping>>

-----------------------------------------------------------------------------

Next ==
    \/ \E r \in Requests :
          \/ \E d \in Diaries : \/ Create(r, d) \/ Update(r, d) \/ Delete(r, d)
                                \/ Hide(r, d) \/ Unhide(r, d)
          \/ \E m \in Media : Fetch(r, m)
          \/ UpdateWrite(r) \/ AttachCheck(r) \/ AttachMatch(r) \/ CreateCount(r)
          \/ Sync(r) \/ Reread(r) \/ DeleteCascade(r) \/ DeleteAfter(r)
          \/ HideWrite(r) \/ HideAfter(r) \/ UnhideWrite(r)
          \/ FetchCheck(r) \/ FetchDone(r) \/ Crash(r)
    \/ \E d \in Diaries : Wipe(d)

Spec == Init /\ [][Next]_vars

-----------------------------------------------------------------------------
(* Properties.                                                             *)

Busy(d) == \E r \in Requests : on[r] = d

\* A diary created private keeps its ciphertext to its owner: whatever stale
\* reads updates and moderators' requests are based on, it never becomes
\* public or a draft, and no other diary ever becomes private.
SealedStaysSealed ==
    \A d \in Diaries :
        /\ d \in sealed => privacy[d] \in {"private", "hidden", "deleted"}
        /\ privacy[d] = "private" => d \in sealed

\* Two requests that pass the check of attach_to_diary at the same time cannot
\* take a file from each other: it stays with the first diary it was given to.
NeverReattached ==
    [][\A m \in Media : home[m] # NoDiary => home'[m] = home[m]]_home

\* A stranger is only ever sent a file of a diary that was public at some
\* moment of the request, however the stored flags lag behind: nothing is
\* served of a diary that was hidden, unpublished or deleted before it began.
ServedOnlyIfOpened ==
    \A r \in Requests :
        op[r] = "fetch" /\ at[r] = "after" => r \in opened

\* Once no request works on it, a diary that was unpublished, hidden or
\* deleted has been sent to the search outbox, unless a request was cut short.
UnpublishedIsSent == \A d \in exposed \ cut : Busy(d)

\* diary_count agrees with the diaries whenever nothing is under way and no
\* request was cut short, though two deletions of one diary may race.
CountExact ==
    cut = {} /\ (\A r \in Requests : at[r] = "idle") =>
        count = Cardinality({d \in Diaries : Exists(d)})

\* The comment in admin_hide_diary (LOW-10): hiding preserves the diary's real
\* privacy, so an unhide never makes public what its owner had not published.
UnhideRestores ==
    \A d \in Diaries : privacy[d] = "public" => chosen[d] = "public"

=============================================================================
