------------------------------ MODULE Browsing ------------------------------
(* Looking around: the lists that are loaded page by page (hooks/use-social, *)
(* use-diaries, use-search, use-notifications), the filters of the explore  *)
(* page with the address they are kept in, and the badge of the bell.       *)
(*                                                                          *)
(* A list is read by page numbers while others add to its head; filters     *)
(* live in a store, in the address and in an input that waits 300 ms; the   *)
(* badge is polled.                                                         *)
EXTENDS Naturals, Sequences, SequencesExt, FiniteSets

CONSTANTS
    PerPage,     \* items of a page
    MaxItems,    \* bound: items ever in the list
    MaxVisits,   \* bound: navigations of the explore page under way
    MaxNotes,    \* bound: notifications ever sent
    MaxFailures  \* bound: failed requests

ASSUME BrowsingBounds ==
    /\ PerPage \in Nat \ {0} /\ MaxItems \in Nat
    /\ MaxVisits \in Nat /\ MaxNotes \in Nat /\ MaxFailures \in Nat

VARIABLES
    items, made, removed,   \* the server's list, newest first; ids given; any deleted
    pages, job,             \* the query: its pages; the request: pages read, pages to read
    filters, url, navs,     \* explore: the store, the address, pushed addresses
    box, typed, here,       \* the search box; what its timer will report; on the page
    notes, badge, shown,    \* each notification; the count and the read items on the screen
    countJob, listJob, puts,    \* the two queries; marks under way
    visible, failures

listVars == <<items, made, removed, pages, job>>
exploreVars == <<filters, url, navs, box, typed, here>>
noteVars == <<notes, badge, shown, countJob, listJob, puts, visible>>
BrowsingVars == <<listVars, exploreVars, noteVars, failures>>

Ids == 1..MaxItems
Pages == [no : Nat, ids : Seq(Ids), more : BOOLEAN]
NoJob == [acc |-> <<>>, left |-> 0]
None == "none"
Blank == ""
Words == {Blank, "w"}
Tags == {"s", "t"}
Years == {0, 2024}     \* 0: no year
Filters == [q : Words, tags : SUBSET Tags, year : Years]
NoFilters == [q |-> Blank, tags |-> {}, year |-> 0]
Notes == 1..MaxNotes
Idle == MaxNotes + 1
Asked == MaxNotes + 2

BrowsingTypeOK ==
    /\ items \in Seq(Ids) /\ made \in 0..MaxItems /\ removed \in BOOLEAN
    /\ pages \in Seq(Pages) /\ job.acc \in Seq(Pages) /\ job.left \in Nat
    /\ \A i \in DOMAIN pages : pages[i].no = i
    /\ filters \in Filters /\ url \in Filters /\ navs \in Seq(Filters)
    /\ box \in Words /\ typed \in Words \cup {None} /\ here \in BOOLEAN
    /\ notes \in [Notes -> {"none", "unread", "read"}]
    /\ badge \in 0..MaxNotes /\ shown \subseteq Notes
    /\ countJob \in 0..Asked /\ listJob \in [at : {"idle", "asked", "read"}, read : SUBSET Notes]
    /\ puts \subseteq Notes \X {"sent", "done"}
    /\ visible \in BOOLEAN /\ failures \in 0..MaxFailures

BrowsingInit ==
    /\ made \in 0..MaxItems /\ items = [i \in 1..made |-> made + 1 - i] /\ removed = FALSE
    /\ pages = <<>> /\ job = NoJob
    /\ filters = NoFilters /\ url = NoFilters /\ navs = <<>>
    /\ box = Blank /\ typed = None /\ here = FALSE
    /\ notes = [n \in Notes |-> "none"] /\ badge = 0 /\ shown = {}
    /\ countJob = Asked /\ listJob = [at |-> "asked", read |-> {}] /\ puts = {}
    /\ visible = TRUE /\ failures = 0

Fail == failures < MaxFailures /\ failures' = failures + 1

-----------------------------------------------------------------------------
(* Lists by pages.                                                          *)

Others == <<exploreVars, noteVars>>

\* Somebody adds an item, which comes first, or deletes one.
AddItem ==
    /\ made < MaxItems
    /\ made' = made + 1
    /\ items' = <<made + 1>> \o items
    /\ UNCHANGED <<removed, pages, job, Others, failures>>

RemoveItem(i) ==
    /\ items' = RemoveAt(items, i)
    /\ removed' = TRUE
    /\ UNCHANGED <<made, pages, job, Others, failures>>

\* The server's page: skip the pages before it.
PageAt(no) ==
    LET from == (no - 1) * PerPage + 1
        to == IF no * PerPage < Len(items) THEN no * PerPage ELSE Len(items)
    IN  [no |-> no, ids |-> SubSeq(items, from, to), more |-> no * PerPage < Len(items)]

\* Mutant: the last page is read again.
LastNo(ps) == IF ps = <<>> THEN 1 ELSE Last(ps).no

\* getNextPageParam.
NextNo(ps) == IF ps = <<>> THEN 1 ELSE Last(ps).no + 1

\* The list is opened, or invalidated: all its pages are read again, one by one; a
\* request that is under way is dropped.
Refetch ==
    /\ job' = [acc |-> <<>>, left |-> IF pages = <<>> THEN 1 ELSE Len(pages)]
    /\ UNCHANGED <<items, made, removed, pages, Others, failures>>

\* "Load more" is shown if the last page has a next one, and disabled meanwhile.
LoadMore ==
    /\ job.left = 0 /\ pages # <<>> /\ Last(pages).more
    /\ job' = [acc |-> pages, left |-> 1]
    /\ UNCHANGED <<items, made, removed, pages, Others, failures>>

ReadPage ==
    /\ job.left > 0
    /\ LET page == PageAt(NextNo(job.acc))
       IN  job' = [acc |-> Append(job.acc, page), left |-> IF page.more THEN job.left - 1 ELSE 0]
    /\ UNCHANGED <<items, made, removed, pages, Others, failures>>

\* Mutant: the first page is replaced, the later ones stay.
MergedHead(acc) ==
    IF Len(acc) <= Len(pages) THEN <<acc[1]>> \o SubSeq(pages, 2, Len(pages)) ELSE acc

Merged(acc) == acc

\* The pages are shown together when the last one has come.
PagesArrive ==
    /\ job.left = 0 /\ job.acc # <<>>
    /\ pages' = Merged(job.acc)
    /\ job' = NoJob
    /\ UNCHANGED <<items, made, removed, Others, failures>>

PagesFail ==
    /\ job.left > 0
    /\ Fail
    /\ job' = NoJob
    /\ UNCHANGED <<items, made, removed, pages, Others>>

-----------------------------------------------------------------------------
(* The explore page.                                                        *)

NotExplore == <<listVars, noteVars>>

\* A change of the store's query is copied to the box.
SetFilters(f) ==
    /\ filters' = f
    /\ box' = IF f.q # filters.q THEN f.q ELSE box

\* updateUrl: the store is written to the address, which follows later.
Push(f) == Len(navs) < MaxVisits /\ navs' = Append(navs, f)

Change(f) == here /\ SetFilters(f) /\ Push(f) /\ UNCHANGED <<url, here, NotExplore, failures>>

ToggleTag(t) ==
    /\ Change([filters EXCEPT !.tags = (@ \cup {t}) \ (@ \cap {t})])
    /\ UNCHANGED typed

PickDate(y) == Change([filters EXCEPT !.year = y]) /\ UNCHANGED typed

ClearAll == Change(NoFilters) /\ UNCHANGED typed

\* The timer starts anew with every key.
TypeSearch(w) ==
    /\ here
    /\ box' = w /\ typed' = w
    /\ UNCHANGED <<filters, url, navs, here, NotExplore, failures>>

FireSearch ==
    /\ typed # None
    /\ Change([filters EXCEPT !.q = typed])
    /\ typed' = None

PressEnter == Change([filters EXCEPT !.q = box]) /\ typed' = None

\* The cross empties box and query; the timer goes on.
ClearSearch ==
    /\ here
    /\ filters' = [filters EXCEPT !.q = Blank] /\ box' = Blank
    /\ Push(filters')
    /\ UNCHANGED <<url, here, typed, NotExplore, failures>>

\* Mutant: tags are added and never taken away.
SyncedAdds(u) ==
    [q |-> u.q, tags |-> filters.tags \cup u.tags, year |-> IF u.year # 0 THEN u.year ELSE filters.year]

\* The effect takes the store to what the address says; an address without a year leaves
\* the year as it is.
Synced(u) == [q |-> u.q, tags |-> u.tags, year |-> IF u.year # 0 THEN u.year ELSE filters.year]

\* Pushed addresses arrive in order; one may replace those before it.  The effect runs if
\* the address is another one.
Arrive(n) ==
    /\ here /\ n \in DOMAIN navs
    /\ url' = navs[n]
    /\ navs' = SubSeq(navs, n + 1, Len(navs))
    /\ IF navs[n] = url THEN UNCHANGED <<filters, box>> ELSE SetFilters(Synced(navs[n]))
    /\ UNCHANGED <<typed, here, NotExplore, failures>>

\* A link to the page (a tag, a year, the menu), or the browser's Back.  The store is
\* the one of the last visit.
Visit(u) ==
    /\ ~here
    /\ here' = TRUE
    /\ url' = u /\ filters' = Synced(u) /\ box' = u.q
    /\ UNCHANGED <<navs, typed, NotExplore, failures>>

Back(u) ==
    /\ here /\ navs = <<>>
    /\ url' = u
    /\ IF u = url THEN UNCHANGED <<filters, box>> ELSE SetFilters(Synced(u))
    /\ UNCHANGED <<navs, typed, here, NotExplore, failures>>

\* Unmounting stops the timer.
Leave ==
    /\ here
    /\ here' = FALSE
    /\ typed' = None /\ navs' = <<>>
    /\ UNCHANGED <<filters, url, box, NotExplore, failures>>

-----------------------------------------------------------------------------
(* Notifications.                                                           *)

NotNotes == <<listVars, exploreVars>>

Unread == {n \in Notes : notes[n] = "unread"}
ReadOnes == {n \in Notes : notes[n] = "read"}
AskList == listJob' = [at |-> "asked", read |-> {}]

Notify(n) ==
    /\ notes[n] = "none" /\ \A m \in 1..(n - 1) : notes[m] # "none"
    /\ notes' = [notes EXCEPT ![n] = "unread"]
    /\ UNCHANGED <<badge, shown, countJob, listJob, puts, visible, NotNotes, failures>>

\* Mutant: the count is asked for once.
Never == FALSE

\* Every minute, unless the tab is in the background.
Due == visible /\ countJob = Idle

PollCount ==
    /\ Due
    /\ countJob' = Asked
    /\ UNCHANGED <<notes, badge, shown, listJob, puts, visible, NotNotes, failures>>

PollList ==
    /\ visible /\ listJob.at = "idle"
    /\ AskList
    /\ UNCHANGED <<notes, badge, shown, countJob, puts, visible, NotNotes, failures>>

ReadCount ==
    /\ countJob = Asked
    /\ countJob' = Cardinality(Unread)
    /\ UNCHANGED <<notes, badge, shown, listJob, puts, visible, NotNotes, failures>>

CountArrives ==
    /\ countJob <= MaxNotes
    /\ badge' = countJob
    /\ countJob' = Idle
    /\ UNCHANGED <<notes, shown, listJob, puts, visible, NotNotes, failures>>

ReadList ==
    /\ listJob.at = "asked"
    /\ listJob' = [at |-> "read", read |-> ReadOnes]
    /\ UNCHANGED <<notes, badge, shown, countJob, puts, visible, NotNotes, failures>>

ListArrives ==
    /\ listJob.at = "read"
    /\ shown' = listJob.read
    /\ listJob' = [at |-> "idle", read |-> {}]
    /\ UNCHANGED <<notes, badge, countJob, puts, visible, NotNotes, failures>>

PollFails ==
    /\ Fail
    /\ \/ countJob # Idle /\ countJob' = Idle /\ UNCHANGED listJob
       \/ listJob.at # "idle" /\ listJob' = [at |-> "idle", read |-> {}] /\ UNCHANGED countJob
    /\ UNCHANGED <<notes, badge, shown, puts, visible, NotNotes>>

\* A click on an item that is shown as unread.
MarkRead(n) ==
    /\ notes[n] # "none" /\ n \notin shown
    /\ puts' = puts \cup {<<n, "sent">>}
    /\ UNCHANGED <<notes, badge, shown, countJob, listJob, visible, NotNotes, failures>>

StoreMark(n) ==
    /\ <<n, "sent">> \in puts
    /\ notes' = [notes EXCEPT ![n] = "read"]
    /\ puts' = (puts \ {<<n, "sent">>}) \cup {<<n, "done">>}
    /\ UNCHANGED <<badge, shown, countJob, listJob, visible, NotNotes, failures>>

\* "Mark all as read" is there while the badge is; what has come since is marked as well.
MarkAll ==
    /\ badge > 0
    /\ notes' = [n \in Notes |-> IF notes[n] = "unread" THEN "read" ELSE notes[n]]
    /\ puts' = puts \cup {<<n, "done">> : n \in Unread}
    /\ UNCHANGED <<badge, shown, countJob, listJob, visible, NotNotes, failures>>

\* invalidateAll: both queries ask again, and drop what they have asked before.
AskAgain == AskList /\ countJob' = Asked

Marked(n) ==
    /\ <<n, "done">> \in puts
    /\ puts' = puts \ {<<n, "done">>}
    /\ AskAgain
    /\ UNCHANGED <<notes, badge, shown, visible, NotNotes, failures>>

HideTab ==
    /\ visible' = ~visible
    /\ UNCHANGED <<notes, badge, shown, countJob, listJob, puts, NotNotes, failures>>

-----------------------------------------------------------------------------

ListNext ==
    \/ AddItem \/ \E i \in DOMAIN items : RemoveItem(i)
    \/ Refetch \/ LoadMore \/ ReadPage \/ PagesArrive \/ PagesFail

Links == {NoFilters} \cup {[NoFilters EXCEPT !.tags = {t}] : t \in Tags}
                     \cup {[NoFilters EXCEPT !.year = y] : y \in Years}

ExploreNext ==
    \/ \E t \in Tags : ToggleTag(t)
    \/ \E y \in Years : PickDate(y)
    \/ ClearAll \/ FireSearch \/ PressEnter \/ ClearSearch \/ Leave
    \/ \E w \in Words : TypeSearch(w)
    \/ \E n \in 1..MaxVisits : Arrive(n)
    \/ \E u \in Links : Visit(u) \/ Back(u)

NoteNext ==
    \/ \E n \in Notes : Notify(n) \/ MarkRead(n) \/ StoreMark(n) \/ Marked(n)
    \/ PollCount \/ PollList \/ ReadCount \/ CountArrives \/ ReadList \/ ListArrives
    \/ PollFails \/ MarkAll \/ HideTab

\* The timers of the page and the answers of the server come; a request may also fail,
\* and what is marked may never be sent.
NoteFairness ==
    /\ WF_noteVars(PollCount)
    /\ WF_noteVars(ReadCount) /\ WF_noteVars(CountArrives)

-----------------------------------------------------------------------------

\* A list that is read page by page, while items are added to its head, has no holes:
\* whatever the server has between an item on the screen and an older one further
\* down is on the screen.  It may show an item twice, and what is added between the
\* reads of two pages may be on neither.  With deletions there are holes: pages move up.
OnScreen == UNION {Range(pages[i].ids) : i \in DOMAIN pages}
NoHoles ==
    ~removed =>
        \A i, j \in DOMAIN pages : \A y \in Range(pages[i].ids), x \in Range(pages[j].ids) :
            i <= j => \A z \in Range(items) : x < z /\ z < y => z \in OnScreen

\* When no navigation and no timer is pending, the box, the store and the address agree
\* on words and tags, and on the year if the address names one: shared links show
\* what their sender saw.
Settled == here /\ navs = <<>> /\ typed = None
FiltersAgree ==
    Settled => /\ box = filters.q /\ url.q = filters.q /\ url.tags = filters.tags
               /\ url.year # 0 => url.year = filters.year

\* If the tab stays visible and the user stops marking, the badge counts the unread
\* notifications in the end, whichever marks, polls and failures overlapped.
BadgeCatchesUp == <>[](visible /\ puts = {}) => <>[](badge = Cardinality(Unread))

=============================================================================
