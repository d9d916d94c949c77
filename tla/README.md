# A TLA+ model of DiaryArchive

DiaryArchive is a diary site: a FastAPI backend (`src/backend/app`) over MongoDB,
Redis, Meilisearch and MinIO, and a Next.js frontend (`src/frontend/src`).  MongoDB is
authoritative; everything else is a copy or a counter that some handler, background
task or periodic job has to keep in step.  Handlers are coroutines: between two
`await`s on a database anything else may happen, in this process or in another.
The pages of the frontend are concurrent too: an answer
arrives when the form, the list or the whole page has moved on, and several tabs share a
cookie.  That is what these modules are about.  Single-document operations of MongoDB and
single commands (or scripts) of Redis are atomic; nothing larger is, unless the code
uses a transaction.

## 1. Inventory

| Component | State | Operations | Hard part | Modules |
|---|---|---|---|---|
| Search synchronisation (`search/sync.py`, `search/indexer.py`, `core/background.py`) | outbox row per diary (status, attempts, due time, lease), index document | enqueue, claim, read current state, push, complete, retry; direct removal on ban, re-enqueue on unban | lost background tasks, overlapping leases, changes while an entry is in hand, swallowed outages | SearchOutbox, SearchPromise |
| Diaries and media (`services/diary_service.py`, `services/media_service.py`, admin hide/unhide) | privacy, original privacy, file → diary, `is_private` flag, `diary_count` | create, update, delete, hide, unhide, attach, wipe, download | decisions on stale reads; several documents written one after the other | DiaryPrivacy |
| Sessions (`api/v1/endpoints/auth.py`, `core/security.py`, `api/deps.py`) | refresh tokens, `tokens_invalid_before` and its Redis copy, access tokens in clients' hands | login, refresh, call, logout, password change and reset, ban | single-use tokens used twice, revocation racing with renewal and with cache fills | Sessions |
| Toggles and counters (`services/social_service.py`, the buttons) | likes, bookmarks, follows; counters; what a button shows | three toggles, each under an in-process lock; optimistic display and roll-back | locks per process and evicted; row and counter are separate writes; fast clicks, lost answers | SocialCounters, Reading |
| Maintenance (`tasks/cleanup.py`, `main.py`) | Redis lease; counts of the run | orphan sweeps, counter repair | lease shorter than the job; counts stored long after counting | SocialCounters |
| Comments (`services/comment_service.py`, comment components) | comments, reply and comment counters, the boxes | create, reply, soft delete, like | deletion is not conditional on not being deleted; comment and counter are separate writes | Reading |
| Moderation (`warnings.py`, `tasks/warnings.py`, `admin.py`) | warnings with deadlines, bans, roles | warn, confirm, enforce, ban, unban, promote, demote | the enforcing job works on old documents; last administrator | Moderation (warn), Support (ban, unban) |
| Tickets and appeals (`services/ticket_service.py`, `appeals.py` and their pages) | status, assignee, messages; what each page last saw | open, take, reply, close, accept, deny, appeal | check-then-write on the ticket; a resolution of five calls | Support |
| Reports (`services/report_service.py`, `app/admin/reports`) | status of a report, what was reported | submit, act, resolve, dismiss | acting and resolving are two requests | Support, Moderation |
| Private diaries (`hooks/use-master-key.ts`, `lib/crypto.ts`, `lib/master-key-cache.ts`) | wrapped master key on the server, unwrapped key per tab, ciphertexts | set up, load, re-wrap on password change, reset; decrypt on the diary's page | several tabs, inactivity timer, a new key over an old one | MasterKey, Reading |
| Editor (`components/editor`) | form, code panes, query, saves under way; blocks, tags, questions | type, format, save in four ways, refetch, chapters | overlapping saves, late answers, a missing key | Editor, EditorTools |
| Client and session store (`lib/api/client.ts`, `store/auth-store.ts`, forms of `app/(auth)` and the settings) | user, token, one request of each form, refreshes under way | log in, register, save, log out, renew | one refresh for many requests; refreshes that use each other's token | Account |
| Lists, explore, bell (`hooks/`, `store/explore-store.ts`) | pages of a list; filters, address, box; badge | load more, refetch, filter, navigate, poll, mark | items added between two pages; timers and navigation; polls against marks | Browsing |
| Accounts | profile, export, deletion | update, export, delete | a long chain of deletions | Account (forms), SocialCounters (deletion) |
| Rate limiting and lockout (`core/security.py`) | windows and counters in Redis, fallback in process | limit, count failures | check before, count after | none |
| Caches (feeds, banned ids) | Redis copies | fill, invalidate | fill from an old read | none |
| Achievements, mail, tags, search queries, sanitising, images, policy pages, deployment | none that matters | read-only, pure, or fire and forget | none that another part depends on | none |

`PROJECT.json` lists the same components with their files and, under `hazards`, the
places where one of these difficulties bites, with the property that covers it or why
none does.

What makes each component correct, in a sentence: the index never shows what the
database no longer does; what an owner sealed or unpublished is not served, whoever
works on stale data; an old session never outlives a revocation, its lifetime or its
rotation; a counter is the number of its rows, up to increments under way; two jobs
under one lease exclude each other; a ticket has one administrator, an appeal is not
lost, a report is not resolved for nothing; what the editor says it saved is stored, and
sealed exactly if private; what a page shows is what the server has, in the end; and
every request a form sends comes to an end.

## 2. Modules

### SearchOutbox (with SearchPromise, MCSearchOutbox, SearchOutboxProofs)

`diary[d]` is what MongoDB says of a diary, or `None` when it is private, a draft,
hidden or deleted, `index[d]` what Meilisearch has, `row[d]` its row in
`search_sync_outbox`.  `SaveDiary` is any handler that changes a diary and ends in
`_index_diary_async` or `_remove_from_index_async`; the task it starts is counted in
`tasks[d]` until `Enqueue` (the upsert of `enqueue_sync`) or `LoseEnqueue` (the process
dies or MongoDB fails).  A worker follows `process_outbox`: `Begin`, a series of
`Claim`s (`find_one_and_update`, oldest first, with one `now` for the batch), then for
every entry `ReadDiary`, `ReadAuthor`, `Push` or `PushSwallowed`, and `Finish` or
`Retry`, both conditional on the row still being `processing`.  Time is one bit a row:
its `next_attempt_at` or `lease_until` has passed.  Because all claims of a batch use
the `now` it began with, rows that fall due later are kept in `late`.

`SearchPromise` is the abstract specification: a source, a copy and a set of dirty
items; the source changes, the copy of an item is written, and an item is only clean
when its copy holds nothing stale.  `SearchOutbox` implements it with
`dirty <- unsettled, lost or dropped diaries` (`KeepsPromise`).

### DiaryPrivacy (MCDiaryPrivacy, MCModeration, DiaryPrivacyProofs)

Handlers of one owner's diaries and files.  A request has its kind, its next step and
what it has read so far (`op`, `at`, `seen`, `want`, `files`); a step is one database
call with the code up to the next.  A diary created private is in `sealed`: it holds
ciphertext.  `update_diary` becomes `Update`, `UpdateWrite`, `AttachCheck`,
`AttachMatch`, `Sync`, `Reread`; `delete_diary` `Delete`, `DeleteCascade`,
`DeleteAfter` and the background `Wipe`; `admin_hide_diary` and `admin_unhide_diary`
three steps each; `resolve_media_file` `Fetch` and `FetchCheck`.  `Crash` ends a
request between two steps.  `CarefulAbout` says whether moderators only hide what is
visible and only unhide what is hidden, as the admin pages offer it; the endpoints
themselves do not check it.

### Sessions (MCSessions, SessionsProofs)

One user, several logins, a coarse clock.  `Login`, `Issue`, `Insert` open a session;
`Refresh` (the `find_one_and_delete`), `RefreshUser`, `Issue`, `Insert` renew it with
the `original_login_at` carried over; `Call`, `AskRedis`, `AskMongo`, `AskMongoAlone`,
`Fill`, `Admit` are `get_current_user` with `_is_token_invalidated`; the endings are
`Logout`, `ChangePassword`, `ResetPassword`, `Ban` and what follows them (`SetPassword`,
`Purge`, `Store`, `Publish`, `BanPurge`).

### MasterKey (MCMasterKey, MasterKeyProofs)

One user, the tabs of one browser (they share the refresh cookie and nothing else), and
the user document.  A key is a number and wrapping it a pair, `<<wkey, wpw>>`; `sealed[d]`
is the key the stored diary `d` is encrypted under.  A tab has its user (`signed`, and
`knows`: the user has `has_master_key`), the cache of `master-key-cache.ts` (`cached`), the
state of the hook on the page (`shown`) and one request under way (`at`, `typed`, `fresh`,
`hand`).  `SetupSend`, `SetupAuth`, `SetupStore`, `SetupDone` are `setupMasterKey` around the
PUT; `LoadRead`, `LoadDone` are `loadMasterKey`; `ChangeBlind` and `RewrapRead`,
`RewrapDone`, then `ChangeVerify`, `ChangeWrite` are the settings page and `change_password`;
`Reset` is `reset_password`; `Save` is the save of a private diary.  `Login`, `FetchRead`,
`FetchDone`, `FetchFail` (`refreshAuth`), `Logout`, `Renew` and `Expel` (the interceptor after
a 401) decide what a tab knows; `Reload`, `Navigate`, `Inactive` are the user's.  An answer
can arrive when the page or the whole tab has moved on (`here`).  Ghosts: `replaced` (keys
the server gave up), `overtaken` (tabs with a key to wrap again that is no longer stored),
`excused` (why the password need not open the key), `kept` (a key outlived its user).

Coarser than the code: a save and its request, and a GET of the key and its answer, are
one step; the user waits on a page for an answer, or leaves it for good; the gap between
the write of a password and the purge of sessions is in `Sessions`; every chosen password
is a new one.  A request that ends without effect for no reason of the model's (lost,
rate limited) counts as one of `MaxMishaps`, as do a reload, idling and a sign-out.

### SocialCounters (MCSocialCounters, SocialCountersProofs)

Rows of likes, bookmarks and follows, counters on users and diaries, handlers that
toggle or delete, and runners of the cleanup.  `Toggle` has read the documents, `Enter`
takes the lock of `_ToggleLocks`, `Unlink` and `Link` are the conditional delete and
the upsert, `Bump` one `$inc`.  `Erase`, `EraseRows`, `EraseDoc` are what deletions do
to these rows (`delete_cascade`, `delete_account`; a follow's two directions go in one
step).  The runner takes or misses the lease (`StartCleanup`), sweeps (`Sweep`,
`Purge`), counts (`Count`) and stores (`Store`), and releases (`Release`);
`LeaseRunsOut`, `LeaseLapses` and `CleanupFails` are the ways it goes wrong.  Ghost
variables say why a counter may be off: `drift` (an `$inc` that was never sent, rows
deleted without one, a count that was stale when stored), `broken` (a row toggled
without mutual exclusion), `overran` (a runner without its lease).

### Support (MCModeration, SupportProofs)

Tickets, appeals and the sending of reports, for one user and several administrators.  A
request is a record in `calls` with its stage: `ReadTicket` is the read and its conditions
(`Permits`), then come the writes, each a step: `AssignAdmin` (whose filter decides a race),
`AddMessage`, `CloseTicket`, `OpenTicket`; `CheckAppeal`, `OpenAppeal` and `FindAppeal` of
`appeals.py`; `Weigh`, `UnbanUser`, `TellUser`, `ConcludeAppeal` of `resolve_ticket`;
`CheckReport`, `InsertReport`.  `CutShort` ends a request anywhere.  `BanUser`, `LiftBan` are
what an administrator does from the list of users meanwhile.  `page[p]` is the ticket as
person `p` last saw it (`AdminOpens`, `UserOpens`, `PollPage`), and every button is offered by
that copy (`Offers`, `Mine`): `TakeHere`, `TakeInList`, `CloseHere`, `CloseInList`, `UserCloses`,
`Resolve`, `SendReply`, `UserReplies`, `Attach`.  `appeal` is the page of a banned user, who
types the password, asks, polls, submits, replies and signs out, in one tab or two; `form` the
page and the dialog that send tickets and reports.  `voices` are those who wrote in a ticket,
and `about` numbers the ban an appeal is about (ghosts, as is `denied`).

### Moderation (MCWriting, WritingProofs)

One report and several moderators.  `desk[m]` is what a moderator looks at and has chosen.  A
press starts a job, which is a chain of requests: `handleResolve` first hides, deletes or warns,
then resolves (`FirstStep`, `GoesOn`, `Settles`), and goes on when its moderator has left the page
(`here`).  A request reads (`Look`) and writes (`Decide`, `TakeDown`, `IssueWarning`) in two
steps; `Mishap` loses it or its answer.  `Quick` are the buttons of the list, `WarnUser` the one
on a profile; the author may delete first (`AuthorDeletes`).

### Editor and EditorTools (MCWriting, WritingProofs)

`Editor` is `EditorPageContent` with the diaries it writes.  A text stands for everything in the
form.  `TypeRich`, `ChangeTitle` and the like change it at once; `TypeSource` and `TypeCss` put it
into a pane that reports later (`PassOn`) or never, if it is unmounted first (`DropPanes`).  The
query refetches (`Refocus`, `FetchDiary`, `DiaryArrives`, `FetchFails`) and fills the form by the
rule of its effect (`Fill`).  `SaveDraft`, `SavePrimary`, `PublishPreview` and `SaveKeys` are the four
ways into `doSave`; `StoreDiary` is `create_diary` or `update_diary`, `LoseSave` loses a request or
its answer, `SaveAnswered` is what follows.  The dialog that sets up a key is `OpenDialog` to
`KeyRefused`.  `OtherDevice` saves the same diary elsewhere.  `last` and `crossed` are ghosts.

`EditorTools` has the document as a sequence of blocks with the chapter operations of
`lib/editor/chapters.ts` at their positions, the module-wide `confirmDialog` with callers that go
on after their `await`, and the tag input with searches answered in any order.

### Browsing, Reading and Account (MCReading, ReadingProofs)

`Browsing`: a list read by page numbers (`LoadMore`, `Refetch`, `ReadPage`, `PagesArrive`) while
`AddItem` and `RemoveItem` (at whatever place) move it; the filters of the explore page in the
store, the address and the box with its timer (`Change`, `Push`, `Arrive`, `Visit`, `Back`, `FireSearch`); the bell with two
polled queries and marks under way.

`Reading`: the page of a diary with its query (which has nothing yet, has failed, has data, or has
data and a later error), key, password dialog and decryptions (`Watch` is the effect that starts
one or asks for the password); an optimistic button of four kinds, with
the roll-back of TanStack Query's last observer; comments from the box over `StoreComment` or
`SoftDelete` to the separate `Count`.

`Account`: the store, the cookie's session, one request of each form, and the three places that
ask for a new token: the interceptor (`asks["client"]`) with its queue, `refreshAuth` after a page
load and after a login.  A refresh token is used once, so of two refreshes under way one is
refused (`Rotated`, `fine`).  `Unauthorized` queues or starts a refresh, `ClientRefreshed` releases
and repeats, `ClientRefreshFails` refuses the queue, signs out and leaves the page (`Reload`).

MCModeration, MCWriting and MCReading instantiate parts that keep no state in common: the
variable `part` picks one for a behaviour, so that a run has the sum of their states and not the
product.

## 3. Runs

Every run finishes within three minutes on two workers.  Behaviours are bounded by the number of
outside events, never by what the system itself may do: requests and presses (`Limit`,
`MaxRequests`, `MaxEndings`, `MaxTokens`, `MaxKeys`, `MaxPasswords`, `MaxCalls`, `MaxJobs`,
`MaxTickets`, `MaxBans`, `MaxPresses`, `MaxTexts`, `MaxQuestions`, `MaxQueries`, `MaxTags`,
`MaxBlocks`, `MaxItems`, `MaxVisits`, `MaxNotes`, `MaxVersions`, `MaxClicks`, `MaxComments`,
`MaxDeletes`, `MaxSends`), time (`MaxClock`, `MaxExpiries`) and failures (`MaxCrashes`, `MaxFaults`,
`MaxMishaps`, `MaxBreaks`, `MaxEvents`, `MaxFailures`, `MaxLosses`; the last three also count what
merely disturbs).  The system may stop when these are used up, so deadlock is not checked,
except in `master_key` and `key_replaced`, where a tab can always sign in or go to another page.

| Run | Instance | Question |
|---|---|---|
| `search_single` | 1 diary with 2 texts, 1 worker, 2 edits, 2 bans or unbans, 1 lost enqueue, 1 outage, 2 faults, 1 crash | `NoStaleEntry`, `NothingMissing`, `KeepsPromise`, `EventuallyInSync` |
| `moderation` | diaries: 2 diaries, 1 file, 2 requests at a time, 3 in all, 1 crash; desk and appeal: 2 administrators, the user, 2 tickets, 3 requests, 2 bans, 1 break | seven properties below |
| `unhide_leak` | 1 diary, careless hide, 5 requests one after the other | refutes `UnhideRestores` |
| `sessions` | 1 login, 2 handlers, 3 refresh tokens, clock 2..4, 1 ending, 1 reset link, 1 Redis fault | four properties below |
| `session_survives` | as `sessions`, no fault | refutes `OthersLoggedOut` |
| `master_key` | 2 tabs, 1 diary, 2 keys, 2 passwords, 1 mishap | `PasswordUnlocks`, `LostOnlyByReplacement`, `LoggedOutForgets` |
| `key_replaced` | 1 tab, 1 diary, 2 keys, 1 password | refutes `DiariesReadable` |
| `social` | 2 users, 1 diary, likes and follows, 2 handlers, 2 runners, 2 requests, 1 fault | `BooksBalance`, `TogglesTakeTurns`, `LeaseExclusive` |
| `social_repair` | as `social` with 1 runner, under fairness | `EventuallyExact` |
| `writing` | form: 2 texts, 2 saves, 1 disturbance; document: 3 blocks, 2 questions; tags: 3 searches, 1 tag at most; report: 2 moderators, 2 presses, 1 mishap | six properties below |
| `private_edit` | 3 texts, 2 saves, nothing disturbs | refutes `NothingBlanked` |
| `reading` | list: 5 items, pages of 2; explore: 2 navigations under way; bell: 2 notifications; page: 2 versions; button: 3 clicks; comments: 2, and 2 deletions; 2 forms at a time in nine pairs, 2 requests, 1 expiry; 1 failure each, 2 answers lost | seven properties below |

Why these bounds are enough to be worth something: every race in the list of hazards is
between two actors on one or two documents, and every property has a mutant of the code
(an operator named in `PROJECT.json`) that the same instance refutes.

* **Search.** `NoStaleEntry`: a settled diary is not in the index with an old text or after
  it was taken back.  `NothingMissing`: without bans it is there exactly as stored.
  Both except diaries whose last enqueue was lost or whose last index write failed, which
  is what the code really promises: the indexer swallows the failure of its last retry.
* **Diaries** (in `moderation`). `SealedStaysSealed`: ciphertext never becomes a public diary or a
  draft.  `ServedOnlyIfOpened`: a stranger gets a file only if its diary was public at some moment
  of the request.  `UnpublishedIsSent`: what stopped being public was sent to the outbox.
  `CountExact`: deletions that race count once.  `NeverReattached`: two requests never
  take a file from each other.  Exceptions are only for requests that were cut short.
  `UnhideRestores` fails when a diary is hidden twice: the second hide stores "hidden" as
  the privacy to restore, and unhide then takes "public".
* **Tickets and appeals** (in `moderation`). `OneReviewer`: only the administrator who took a
  ticket has written in it, whatever pages were out of date.  `AppealsGranted`: an appeal is only
  deleted when the ban it was about has been lifted.
* **Reports** (in `writing`). `ReportsActedOn`: a report resolved on its page has been acted upon.
  It would not hold of the list's own Resolve button, which asks for no action (`from` tells them
  apart).
* **Sessions.** `OneTokenPerSession`, `SessionsExpire`, `OldPasswordLoggedOut`,
  `RevokedRejected`, the last two except for sessions that were in transit at the purge,
  and for revocations that raced with another or with a cache fill.  `OthersLoggedOut`
  fails for the first of these although the answer of `change_password` denies it.
* **Master key.** `PasswordUnlocks`: hash and wrapped key stay together through changes and
  resets, except a set-up that crosses one of them, a set-up under a password that is not the
  account's, and a change by a tab that does not know of the key.  `LostOnlyByReplacement`: a
  private diary stays under the stored key or one that was explicitly given up.
  `LoggedOutForgets`: no key stays in a tab without a user, except when its `refreshAuth` failed
  or an answer came late.  `DiariesReadable` fails with one tab and one password: a set-up is
  offered while the key is merely not loaded, and stores another key over the first.
* **Social.** `BooksBalance`: stored counter + increments owed = rows, for every counter not
  in `drift`.  `TogglesTakeTurns`: toggles of a row behave as a sequence.  `LeaseExclusive`: a
  late release never frees another runner's lease.  `EventuallyExact`: the cleanup repairs.
* **Writing.** `SealedIffPrivate`: in every combination of button, form and stored diary the page
  and `update_diary` agree on what is ciphertext.  `SavedIsStored`: "Saved" means that the last text
  sent is stored, unless saves or writers overlapped, which nothing orders.
  `ReplacedByNewerOnly`: a refetch takes the form away only for a newer diary.
  `SwapsChapters`: the position arithmetic of `moveChapter` exchanges two chapters and keeps all
  blocks.  `WaitingIsShown`: a caller of `confirmDialog` never waits for a question that is not on the
  screen.  `NothingBlanked` fails: the answer for a private diary has no title and no content, the
  form is filled with that, and Save stores it.
* **Reading.** `NoHoles`: without deletions, a list read by pages skips nothing between an item and
  an older one further down (what is added between the reads of two pages may be on neither).
  `FiltersAgree`: box,
  store and address agree when nothing is pending, except a year the address does not name.
  `WayForward`: the owner of a private diary is never left without text, dialog or error.
  `ButtonTrue`: with nothing under way a button shows the server's state, save for the named cases.
  `CountsAddUp`: comment counters are the live comments, less what is on its way, unless a comment
  is deleted twice (which the code counts twice) or the process dies in between.
  `BadgeCatchesUp`: the badge is right in the end.  `EveryRequestEnds`: no request waits for ever
  for a token, and no two renew for each other without end.

**Fairness.** Weak fairness only of what the event loop or a periodic loop runs without
being asked again: background tasks that were started, time passing, the steps of
`process_outbox` and of the cleanup loop (`main.py` calls them for ever), and steps of a
request that was begun.  Users, moderators, faults and crashes are under no obligation.
The scheduled jobs are only required to keep going, not to succeed; failures are bounded
events.  `NoteFairness`: the poll of the count is sent when it is due, read and answered, unless it
fails, which happens a bounded number of times; `BadgeCatchesUp` is conditional on a visible tab
and on no mark being under way for ever.  `AccountFairness`: as long as some request of a form, or
the client's refresh, is awaited, some such answer comes (an HTTP request ends, with a time-out if
nothing else); no single one is promised, since one may wait in the queue.


## 4. Proofs

`tlapm` checks these for every value of the constants, under the assumptions about them that
the modules name (`ConstantsOK`, `FiniteDiaries`, `CounterConstants`, `KeyConstants`,
`SessionConstants`, `PrivacyConstants`, `SupportBounds`, `SomeBan`, `ModerationBounds`, `EditorBounds`,
`ToolsBounds`, `BrowsingBounds`, `ReadingBounds`, `AccountBounds`; TLC evaluates them too).  Every safety
property of the passing runs is the conclusion of one of them.

* `OutboxTypeCorrect`: `Spec => []TypeOK`.
* `OutboxInvariant`: with one active worker (`OneWorker`, what the lease around the job is
  for) `OutboxInv` is invariant.  `NoStaleEntry` is not inductive: the step that breaks it is
  `Finish`, and whether the index is right at that moment depends on what the worker read
  and on what happened since.  The strengthening has four parts: `BansCounted`; `ClaimsHeld`
  (an entry in hand is in the batch, and its row has not been completed by anybody else);
  `ReadsFresh` (if nothing has touched the diary since, as far as the queue knows (no
  task, no pending row, no lost enqueue), what the worker holds, or has just written, is
  current); `SettledInSync`.  The proof has a step for every action and below it one for
  each part the action can disturb.
* `OutboxNoStaleEntry`, `OutboxNothingMissing`: corollaries.
* `OutboxKeepsPromise`: the refinement; initial states map to initial states and every step
  to a step of `SearchPromise` or a stutter.
* `CleanupLeaseExclusive`: `LeaseExclusive` through `LeaseInv` (a runner at work that has not
  outlived its lease holds it), for any number of runners.
* `RowsFollowClicks`: `TogglesTakeTurns` through `TurnsInv`.  The property speaks of rows
  nobody is working on; `Turns` says what a row looks like while one toggle is between its
  delete and its insert, and that there is only one, unless the row is in `broken`.
* `CountersTypeCorrect` and `BooksAlwaysBalance`, for finitely many rows (and handlers).
  `BooksBalance` breaks when a runner stores a count that no longer fits, so `BooksInv` adds
  that a count still to be stored is what there is, and that nobody owes its counter anything,
  unless it has gone stale.  The types say that a toggle owes one or two different counters;
  the rest is adding one element to a finite set, or taking one away.
* `MasterKeyTypeCorrect`, `DiaryLostOnlyByReplacement`: for any number of tabs, diaries, keys
  and passwords.  `LostOnlyByReplacement` needs to know what a tab might encrypt under next,
  hence `KeyFacts`: `FreshTyped` (a password about to be written was typed), `HeldKeysKnown`
  (every key a tab holds, or carries in a request it may take it from, is stored or was given
  up) and `RewrapsStored` (who carries a key to be stored again carries the stored one, or
  was overtaken: this is what makes `ChangeWrite` harmless).
* `PasswordOpensKey` adds to `PasswordUnlocks` that a set-up under way carries the password
  that was typed; `SignedOutTabForgets` (`LoggedOutForgets`) is inductive with the types.
* `SessionsInvariant`, and from it `SessionsTypeCorrect`, `RotationLeavesOne`, `SessionsEnd`,
  `OldPasswordsGone` and `RevokedTokensRejected`, for any number of logins, handlers and
  tokens.  `SessionInv` has four parts beside the types and what each handler has in hand
  (`Hands`).  `OriginKept`: a stored token carries the time of its login, which is why renewing
  does not prolong a session.  `Single`: a session is one stored token or one request that will
  store it; `find_one_and_delete` gives a token to one of the refreshes that race for it.
  `Passwords`: outside a change, who has a session under an old password was in transit at a
  purge.  `Revocation`: while nothing raced, the stored time of revocation is the latest, the
  cache is not behind it, and a handler about to fill the cache has what is stored.
* `PrivacyInvariant`, and from it `PrivacyTypeCorrect`, `CiphertextStaysSealed`,
  `ServedWhenOpened`, `UnpublishedReachesOutbox` and `FilesStayAttached`, for any number of
  diaries, files and requests.  `PrivacyInv` says what a request that has read may still do:
  `Fits` (its step belongs to its operation, its diary exists), `CarriesOver` (an update of a
  sealed diary has read that it is private or hidden, a hide or unhide that it was private: this
  needs `Careful` moderators), `Witnessed` (who will be served a file has seen the diary public)
  and `SentOn` (a diary that stopped being public has a request that will still send it).
* `DiaryCountExact`, for finitely many diaries and requests: `Balance` says that the counter and
  the creations that have not counted yet are the living diaries and the deletions that have not
  yet; a step moves one element of one of these sets.
* `SupportInvariant`, and from it `TicketHasOneReviewer` and `NoAppealLost`, for any number of
  administrators, tickets, requests and bans.  `OneReviewer` alone says nothing of a request
  that has passed its checks and not yet written.  `SupportInv` adds `TicketFacts` (a ticket
  nobody opened has no administrator, and only its administrator has a voice in it),
  `Belongs` (which request has which stages, and whose it may be) and `Owned`: past its read,
  an administrator's answer is to a ticket of that administrator, and since a ticket is taken
  once and for good, it still is when it is written; past the unban, an acceptance has nothing
  left to lift, whatever new bans there are.
* `ScenesTypes` (`MCTypeOK` of the composed run): `ScenesInvariant` carries `PrivacyInv` and
  `SupportInv` through `MCSpec`, whose scenes start after a ticket was opened or a ban was made,
  for which there must be one (`SomeBan`).
* `ModerationInvariant`, `ResolvedAfterAction`, for any number of moderators and presses.
  `ModerationInv` adds `ChoicesFit` (what a moderator may have chosen on the page fits what is
  reported) and `InOrder`: a chain of the page asks for the resolution only when its first
  request succeeded, or when what the moderator saw was already gone, and what is gone does
  not come back.
* `EditorInvariant`, `StoredSealedIffPrivate`, `SavedIsTrue`, `RefilledByNewerOnly`, for any
  number of texts, saves and disturbances.  `EditorInv` adds that a save under way carries
  ciphertext exactly if it will be private (`SealedRight`), that the query's copy and the answer
  on its way are versions of the stored diary in the order they were read (`CopiesInOrder`; two
  copies of one version are the same, which is why the effect may compare versions only), and
  that, as long as nothing overlapped, the one save under way is the last one and what it stored
  stays (`LastSave`).

* `WritingInvariant` puts the form, its tools and the reports beside each other, and gives
  `WritingTypes`.  For the tools `ToolsInv` adds that questions and queries are sequences, that the
  active question waits and no other does (`OneWaits`, with it `WaitingIsShown`), and that the
  suggestions are what some input finds.
* `ChaptersChangePlaces` (`SwapsChapters`), for a document of any length and any number of chapters.
  `CutAndInsert` computes block by block what deleting a slice and inserting it again does to a
  sequence.  The rest is to see where the headings of the new document are: the chapters' starts
  are the positions of the headings in ascending order, such a list is unique (`Starts` is a
  `CHOOSE`), so it is enough to exhibit one for the new document.  Its existence for any finite set
  of positions is an induction over the set, done with the least counterexample.
* `ReadingInvariant` carries the invariants of six parts of the reader's pages and the types of
  the session, and from it follow `ReadingTypes` and:
  * `ListsHaveNoHoles`, for pages of any length.  What a page shows depends on how long the list was
    when it was read, and no variable says that.  `ListInv` supplies it (`ReadInOrder`): there is a
    length for every page, of the list on the screen and of the one being fetched, such that the
    page is the slice that belongs there of a list of that length (`Slice`), and lengths only grow
    from one page to the next.  An item between two others is on the screen because, going down
    from the first, the first page that reaches as far as it cannot have begun below it: the least
    such page exists in any set of numbers (`LeastElement`).
  * `FiltersAndAddressAgree`: while the page is there, the store agrees with the address or, if
    navigations are pending, with the last of them; and the box with the store or with what was
    typed.
  * `TextHasAWay`: `WayForward` with the dialog or the decryption kept also while an error hides
    the diary (`WayKept`), for an error does not close them and the data come back.
  * `ButtonsAreTrue`: several clicks may be on their way, each of which the server will toggle.
    `ButtonInv` says that the button and the server agree if and only if the number of those is
    even, and that the latest click goes back to what was shown before it, which is what a
    roll-back needs.
  * `CommentCountsAddUp`: `CommentInv` adds that a request to create is known by its comment and
    one to delete by its number (`Known`), that a comment is there from its store on (`InTime`), and
    that unless one was deleted twice, the target of a request to delete is live until it is
    soft-deleted, and no other request is for it (`DeletedOnce`).  A step then moves one element
    of the finite sets that are counted.
  * `NobodyWaitsInVain`, the safety half of `EveryRequestEnds`: `QueueServed` says that while a request
    waits in the client, queued or as the one that asked, the refresh is under way, that just one
    request asked, and that this one will not ask again.

`SupportSpec`, `ModerationSpec` and `EditorSpec` are parts of the composed runs on their own:
the parts share no state, and `part` only picks one.

The proofs corrected the model.  `WayForward` was not inductive: a query that failed before it ever
had data counted as one that has some, which one lost answer could not show (`MaxLosses` is 2 now);
`Reading` distinguishes the two, as the page does (`isError || !diary`).  `NoHoles` used to
take any two items on the screen, and is false of longer lists when the older one is on an earlier
page: it is now about an item and an older one on the same or a later page.

Only model-checked: liveness (`EventuallyInSync`, `EventuallyExact`, `BadgeCatchesUp`,
`EveryRequestEnds`), which the prover's temporal reasoning does not reach.  Nor does it take
induction schemes for data; where a proof needs one, it argues by the least element of a set of
numbers.  The properties the violation runs refute are not theorems, of course.

## 5. What is abstracted, and what is not modelled

*Abstracted.*  Texts, titles, tags, images and wording; validation of form; the order in
which a page is listed.  A diary is one value, a file its record (MinIO is left out), time a
clock of a few readings or a flag.  A text of the editor stands for everything in its form,
and is the number of the keystroke it ends with.  `full_reindex` is only the initial state of
`SearchOutbox`.  Two workers that hold the same outbox row can leave a stale document behind
(one of the hazards): the safety properties of the outbox are therefore stated for one
active worker.  Each form of `Account` has one request under way, as its button is disabled
meanwhile, and a behaviour uses one pair of forms.  The parts that `part` chooses between
are read and written by different pages and handlers; what they have in common (a ban ends
sessions and empties the index, a warning follows a report) is modelled on each side.

*Not modelled.*  Deadlines of warnings, their enforcement by the periodic job and roles: the
hazards list what can go wrong there.  Rate limits, lockout and the caches of feeds and banned
ids: a refused request is one of the failures of every client modelled, a wrong cache entry
lives until its time is up.  Upload of media, its quota and the object storage.  Achievements (a
unique index decides), mail (fire and forget), migrations (run once before the server starts).
`use-draft.ts` keeps a draft in memory, which the page offers and never saves by itself.  The
search queries, sanitising, image processing and the cipher are functions without state.  Policy
pages, layout and deployment have no logic to speak of.

## 6. Plan

1. *(done)* Search outbox, its abstract promise and proofs; privacy; sessions; counters and
   maintenance; the master key and its proofs.
2. *(done)* Tickets, appeals, reports, and their proofs; comments; the editor and its proofs;
   lists, explore page, bell; the page of a diary; the client's refresh queue and the forms.
3. **Warnings**: deadlines enforced by a job under a claim, confirmation, bans, roles: each
   warning is punished at most once, never after compliance; there is always an administrator.
4. **Limits**: sliding window, fallback and lockout; **Caches**: fill against invalidation.
5. *(done)* Proofs of the safety properties of the sessions, the privacy of diaries, the master
   key, the counters.
6. *(done)* Proofs of the lists, the filters, the page of a diary, its buttons and comments, the
   editor's tools, and of the composed runs' types.
7. Proofs: that a counter is repaired by the step that stores a fresh count (the safety half of
   `EventuallyExact`), that a ticket keeps its administrator and its ban, and an abstract
   specification of the sessions that `Sessions` implements.
