------------------------------- MODULE Reading -------------------------------
(* Reading a diary (app/(main)/diary/[id]/page.tsx) and answering it: the   *)
(* decryption of one's own private diary, the optimistic buttons (like,     *)
(* bookmark, follow, like of a comment), and comments from the box to the   *)
(* server's counters (services/comment_service.py).                         *)
(*                                                                          *)
(* The parts do not share state.  The button and the comments run against a *)
(* server that takes requests in any order, and whose answers may be lost.  *)
EXTENDS Integers, Sequences, FiniteSets

CONSTANTS
    MaxVersions,  \* bound: versions of the diary
    MaxClicks,    \* bound: clicks on the button
    MaxComments,  \* bound: comments ever sent
    MaxDeletes,   \* bound: deletions ever sent
    MaxLosses     \* bound: lost requests, answers and visits

ASSUME ReadingBounds ==
    /\ MaxVersions \in Nat \ {0} /\ MaxClicks \in Nat
    /\ MaxComments \in Nat \ {0} /\ MaxDeletes \in Nat /\ MaxLosses \in Nat

VARIABLES
    diary, owner, lostKey,     \* the server's [ver, private]; the reader owns it; its key is lost
    query, copy, asking,       \* what the page has of it
    key, cached,               \* the hook holds the master key; the tab's cache does
    prompt, passwords,         \* the password dialog; passwords being tried
    decrypting, plain, broken, \* versions being decrypted; the one decrypted; "Cannot Decrypt"
    kind, on, lit, clicks,     \* the button: whose, the server's state, what it shows, its requests
    seen, spoiled,             \* what the query holds of it; ghost: it cannot be trusted
    comments, total, replies,  \* each comment; the counters of the diary and of the comments
    ops, deletes, draft,       \* comment requests; deletions ever sent; the text of each box
    twice,                     \* ghost: a comment was deleted twice, or a counter lost
    losses

pageVars == <<diary, owner, lostKey, query, copy, asking, key, cached, prompt, passwords,
              decrypting, plain, broken>>
buttonVars == <<kind, on, lit, clicks, seen, spoiled>>
commentVars == <<comments, total, replies, ops, deletes, draft, twice>>
ReadingVars == <<pageVars, buttonVars, commentVars, losses>>

Diaries == [ver : 1..MaxVersions, private : BOOLEAN]
CommentIds == 1..MaxComments
Boxes == {0, 1}       \* under the diary, and under the first comment
Texts == 1..2         \* 0: an empty box
NoComment == [at |-> "none", parent |-> 0, text |-> 0]
CommentRecords == [at : {"none", "live", "deleted"}, parent : Boxes, text : {0} \cup Texts]
Buttons == {"like", "bookmark", "follow", "comment like"}
Click == [was : BOOLEAN, at : {"sent", "served", "failed", "over"}]
Ops == [n : Nat, kind : {"create", "delete"}, c : CommentIds, box : Boxes,
        text : {0} \cup Texts, at : {"sent", "stored", "counted", "failed"}]

ReadingTypeOK ==
    /\ diary \in Diaries /\ owner \in BOOLEAN /\ lostKey \in BOOLEAN
    /\ query \in {"loading", "failed", "data", "error"} /\ copy \in Diaries /\ asking \in BOOLEAN
    /\ key \in BOOLEAN /\ cached \in BOOLEAN /\ prompt \in BOOLEAN
    /\ passwords \subseteq {"right", "wrong"}
    /\ decrypting \subseteq 1..MaxVersions /\ plain \in 0..MaxVersions /\ broken \in BOOLEAN
    /\ kind \in Buttons /\ on \in BOOLEAN /\ lit \in BOOLEAN
    /\ clicks \in Seq(Click) /\ seen \in BOOLEAN /\ spoiled \in BOOLEAN
    /\ comments \in [CommentIds -> CommentRecords] /\ total \in Int /\ replies \in [CommentIds -> Int]
    /\ ops \subseteq Ops /\ deletes \in 0..MaxDeletes /\ draft \in [Boxes -> {0} \cup Texts]
    /\ twice \in BOOLEAN
    /\ losses \in 0..MaxLosses

ReadingInit ==
    /\ owner \in BOOLEAN /\ lostKey \in BOOLEAN /\ cached \in BOOLEAN
    /\ diary \in {d \in Diaries : d.ver = 1}
    /\ query = "loading" /\ copy = diary /\ asking = TRUE
    /\ key = FALSE /\ prompt = FALSE /\ passwords = {}
    /\ decrypting = {} /\ plain = 0 /\ broken = FALSE
    /\ kind \in Buttons
    /\ on = FALSE /\ lit = FALSE /\ clicks = <<>> /\ seen = FALSE /\ spoiled = FALSE
    /\ comments = [c \in CommentIds |-> NoComment] /\ total = 0 /\ replies = [c \in CommentIds |-> 0]
    /\ ops = {} /\ deletes = 0 /\ draft = [b \in Boxes |-> 0]
    /\ twice = FALSE
    /\ losses = 0

Lose == losses < MaxLosses /\ losses' = losses + 1

-----------------------------------------------------------------------------
(* The page of a diary.                                                     *)

NotPage == <<buttonVars, commentVars>>
diaryVars == <<diary, owner, lostKey>>

\* The query has a diary, which an error of a later request leaves there.
Held(q) == q \in {"data", "error"}

\* The effect: an owner without the text gets the dialog, or the decryption is started.
Watch(q, d, k) ==
    IF Held(q) /\ d.private /\ owner /\ plain = 0 /\ ~broken
    THEN IF k THEN decrypting' = decrypting \cup {d.ver} /\ UNCHANGED prompt
              ELSE prompt' = TRUE /\ UNCHANGED decrypting
    ELSE UNCHANGED <<prompt, decrypting>>

\* The answer of the query; an equal one changes nothing.
DiaryLoads ==
    /\ asking
    /\ asking' = FALSE
    /\ query' = "data" /\ copy' = diary
    /\ IF Held(query) /\ diary = copy THEN UNCHANGED <<prompt, decrypting>>
                                            ELSE Watch("data", diary, key)
    /\ UNCHANGED <<diaryVars, key, cached, passwords, plain, broken, NotPage, losses>>

\* A failed refetch hides the diary that is there.
DiaryFails ==
    /\ asking /\ Lose
    /\ asking' = FALSE
    /\ query' = IF Held(query) THEN "error" ELSE "failed"
    /\ UNCHANGED <<diaryVars, copy, key, cached, prompt, passwords, decrypting, plain, broken,
                   NotPage>>

\* Back in the window, or after a like: the query asks again.
AskDiary ==
    /\ ~asking /\ Lose
    /\ asking' = TRUE
    /\ query' = IF Held(query) THEN query ELSE "loading"
    /\ UNCHANGED <<diaryVars, copy, key, cached, prompt, passwords, decrypting, plain,
                   broken, NotPage>>

\* The owner saves the diary elsewhere.
EditElsewhere ==
    /\ diary.ver < MaxVersions
    /\ diary' = [diary EXCEPT !.ver = @ + 1]
    /\ UNCHANGED <<owner, lostKey, query, copy, asking, key, cached, prompt, passwords,
                   decrypting, plain, broken, NotPage, losses>>

\* Mutant: the dialog closes with the click.
CloseDialog == prompt' = FALSE

KeepDialog == UNCHANGED prompt

\* Enter tries also while a try is under way.
TryPassword(pw) ==
    /\ query = "data" /\ prompt /\ copy.private /\ owner /\ ~broken
    /\ passwords' = passwords \cup {pw}
    /\ KeepDialog
    /\ UNCHANGED <<diaryVars, query, copy, asking, key, cached, decrypting, plain, broken,
                   NotPage, losses>>

\* The key is decrypted with the password, or found in the cache of the tab.
KeyHeld ==
    /\ key' = TRUE
    /\ Watch(query, copy, TRUE)
    /\ UNCHANGED <<diaryVars, query, copy, asking, plain, broken, NotPage, losses>>

KeyLoads ==
    /\ "right" \in passwords
    /\ passwords' = passwords \ {"right"}
    /\ cached' = TRUE
    /\ IF key THEN UNCHANGED <<diaryVars, query, copy, asking, key, prompt, decrypting, plain,
                               broken, NotPage, losses>>
              ELSE KeyHeld

KeyFromCache == cached /\ ~key /\ KeyHeld /\ UNCHANGED <<cached, passwords>>

\* "Incorrect password": the dialog stays.
KeyRefused ==
    /\ "wrong" \in passwords
    /\ passwords' = passwords \ {"wrong"}
    /\ UNCHANGED <<diaryVars, query, copy, asking, key, cached, prompt, decrypting, plain,
                   broken, NotPage, losses>>

\* What has been decrypted stays, also if the query brings a newer diary.
Decrypted(v) ==
    /\ v \in decrypting
    /\ decrypting' = decrypting \ {v}
    /\ IF lostKey THEN broken' = TRUE /\ UNCHANGED <<plain, prompt>>
                  ELSE plain' = v /\ prompt' = FALSE /\ UNCHANGED broken
    /\ UNCHANGED <<diaryVars, query, copy, asking, key, cached, passwords, NotPage, losses>>

\* The page is left and opened again: a new component, the same caches.
Reopen ==
    /\ Held(query) /\ Lose
    /\ key' = FALSE /\ passwords' = {} /\ decrypting' = {} /\ plain' = 0 /\ broken' = FALSE
    /\ prompt' = (copy.private /\ owner)
    /\ asking' = TRUE
    /\ cached' \in {cached, FALSE}
    /\ UNCHANGED <<diaryVars, query, copy, NotPage>>

PageNext ==
    \/ DiaryLoads \/ DiaryFails \/ AskDiary \/ EditElsewhere
    \/ \E pw \in {"right", "wrong"} : TryPassword(pw)
    \/ KeyLoads \/ KeyFromCache \/ KeyRefused
    \/ \E v \in 1..MaxVersions : Decrypted(v)
    \/ Reopen

-----------------------------------------------------------------------------
(* An optimistic button.                                                    *)

NotButton == <<pageVars, commentVars>>

Open == {i \in DOMAIN clicks : clicks[i].at # "over"}

\* What a button shows changes at once.
Toggle(k) ==
    /\ kind = k /\ Len(clicks) < MaxClicks
    /\ clicks' = Append(clicks, [was |-> lit, at |-> "sent"])
    /\ lit' = ~lit
    /\ UNCHANGED <<kind, on, seen, spoiled, NotButton, losses>>

\* These are disabled while a request is under way, and the like of a comment is not.
Like == Open = {} /\ Toggle("like")
Bookmark == Open = {} /\ Toggle("bookmark")
Follow == Open = {} /\ Toggle("follow")
LikeOfComment == Toggle("comment like")

\* The server toggles, whatever the button shows.
Serve(i) ==
    /\ clicks[i].at = "sent"
    /\ on' = ~on
    /\ clicks' = [clicks EXCEPT ![i].at = "served"]
    /\ UNCHANGED <<kind, lit, seen, spoiled, NotButton, losses>>

\* The request is lost, or its answer: then the server has toggled.
LoseClick(i) ==
    /\ clicks[i].at \in {"sent", "served"} /\ Lose
    /\ clicks' = [clicks EXCEPT ![i].at = "failed"]
    /\ spoiled' = (spoiled \/ clicks[i].at = "served")
    /\ UNCHANGED <<kind, on, lit, seen, NotButton>>

\* Mutant: nothing is rolled back.
KeepLit(i) == UNCHANGED lit

\* The callback of the latest click only: earlier ones are not called any more.
RollBack(i) == lit' = IF i = Len(clicks) THEN clicks[i].was ELSE lit

\* A success makes the queries ask again; the button has its own state and ignores them.
ClickAnswered(i) ==
    /\ clicks[i].at \in {"served", "failed"}
    /\ clicks' = [clicks EXCEPT ![i].at = "over"]
    /\ IF clicks[i].at = "failed"
       THEN RollBack(i) /\ spoiled' = (spoiled \/ i # Len(clicks))
       ELSE UNCHANGED <<lit, spoiled>>
    /\ UNCHANGED <<kind, on, seen, NotButton, losses>>

Reread ==
    /\ seen # on
    /\ seen' = on
    /\ UNCHANGED <<kind, on, lit, clicks, spoiled, NotButton, losses>>

\* The button is mounted anew, and starts from what the query holds at that moment.
Remount ==
    /\ Lose
    /\ lit' = seen
    /\ clicks' = [i \in DOMAIN clicks |->
                    IF clicks[i].at = "sent" THEN clicks[i] ELSE [clicks[i] EXCEPT !.at = "over"]]
    /\ spoiled' = (seen # on \/ \E i \in DOMAIN clicks : clicks[i].at = "sent")
    /\ UNCHANGED <<kind, on, seen, NotButton>>

ButtonNext ==
    \/ Like \/ Bookmark \/ Follow \/ LikeOfComment \/ Reread \/ Remount
    \/ \E i \in DOMAIN clicks : Serve(i) \/ LoseClick(i) \/ ClickAnswered(i)

-----------------------------------------------------------------------------
(* Comments.                                                                *)

NotComments == <<pageVars, buttonVars>>
serverSide == <<comments, total, replies>>

Write(b, t) ==
    /\ draft[b] # t
    /\ b # 0 => comments[b].at = "live"
    /\ draft' = [draft EXCEPT ![b] = t]
    /\ UNCHANGED <<deletes, serverSide, ops, twice, NotComments, losses>>

Sent(o) == ops' = ops \cup {o}
Fresh(c) == comments[c].at = "none" /\ \A o \in ops : o.c # c

\* mutateAsync.
Submit(b, c) ==
    /\ draft[b] # 0 /\ Fresh(c) /\ \A d \in 1..(c - 1) : ~Fresh(d)
    /\ Sent([n |-> 0, kind |-> "create", c |-> c, box |-> b, text |-> draft[b], at |-> "sent"])
    /\ UNCHANGED <<deletes, serverSide, draft, twice, NotComments, losses>>

\* The buttons are disabled while a comment is being sent, and Enter is not: both send.
Send(c) == Submit(0, c)
Reply(c) == comments[1].at # "none" /\ Submit(1, c)

Move(o, stage) == ops' = (ops \ {o}) \cup {[o EXCEPT !.at = stage]}

\* create_comment: the parent is there, deleted or not; the comment is stored, then counted.
StoreComment(o) ==
    /\ o.kind = "create" /\ o.at = "sent"
    /\ comments' = [comments EXCEPT ![o.c] = [at |-> "live", parent |-> o.box, text |-> o.text]]
    /\ Move(o, "stored")
    /\ UNCHANGED <<deletes, total, replies, draft, twice, NotComments, losses>>

\* delete_comment: whoever may delete it, nothing asks whether it is deleted already.
DeleteComment(c) ==
    /\ comments[c].at # "none"
    /\ deletes < MaxDeletes /\ deletes' = deletes + 1
    /\ Sent([n |-> deletes', kind |-> "delete", c |-> c, box |-> 0, text |-> 0, at |-> "sent"])
    /\ twice' = (twice \/ comments[c].at = "deleted"
                       \/ \E o \in ops : o.kind = "delete" /\ o.c = c)
    /\ UNCHANGED <<serverSide, draft, NotComments, losses>>

SoftDelete(o) ==
    /\ o.kind = "delete" /\ o.at = "sent"
    /\ comments' = [comments EXCEPT ![o.c].at = "deleted"]
    /\ Move(o, "stored")
    /\ UNCHANGED <<deletes, total, replies, draft, twice, NotComments, losses>>

\* Mutant: a reply is taken off the diary's counter.
CountedOn(o) == IF o.kind = "delete" THEN 0 ELSE comments[o.c].parent

\* A reply is counted on its parent, any other comment on the diary.
CountOn(o) == comments[o.c].parent

Delta(o) == IF o.kind = "create" THEN 1 ELSE -1

Count(o) ==
    /\ o.at = "stored"
    /\ IF CountOn(o) = 0 THEN total' = total + Delta(o) /\ UNCHANGED replies
                         ELSE /\ replies' = [replies EXCEPT ![CountOn(o)] = @ + Delta(o)]
                              /\ UNCHANGED total
    /\ Move(o, "counted")
    /\ UNCHANGED <<deletes, comments, draft, twice, NotComments, losses>>

\* The process dies between two calls, or the answer is lost.
LoseComment(o) ==
    /\ o.at # "failed" /\ Lose
    /\ Move(o, "failed")
    /\ twice' = (twice \/ o.at = "stored")
    /\ UNCHANGED <<deletes, serverSide, draft, NotComments>>

\* The box is emptied by a success, together with what was typed since.
Empties(o) == draft' = IF o.at = "counted" THEN [draft EXCEPT ![o.box] = 0] ELSE draft

CommentAnswered(o) ==
    /\ o.at \in {"counted", "failed"}
    /\ IF o.kind = "create" THEN Empties(o) ELSE UNCHANGED draft
    /\ ops' = ops \ {o}
    /\ UNCHANGED <<deletes, serverSide, twice, NotComments, losses>>

CommentNext ==
    \/ \E b \in Boxes : \E t \in Texts : Write(b, t)
    \/ \E c \in CommentIds : Send(c) \/ Reply(c) \/ DeleteComment(c)
    \/ \E o \in ops : StoreComment(o) \/ SoftDelete(o) \/ Count(o) \/ LoseComment(o)
                      \/ CommentAnswered(o)

-----------------------------------------------------------------------------

\* The owner of a private diary whose text is not there always has a way to it: it is
\* being decrypted, cannot be, or the password dialog is open.  The query, the key,
\* the tries and the decryptions come and go in any order.
WayForward ==
    owner /\ copy.private /\ query = "data" /\ plain = 0 /\ ~broken /\ decrypting = {} => prompt

\* With no request under way a button shows what the server has, failures and fast clicks
\* included.  Not covered are lost answers, the failure of a click that was not the
\* last, and a button mounted from an older copy: they leave it wrong until the
\* next visit (spoiled).
ButtonTrue == Open = {} /\ ~spoiled => lit = on

\* The counters of the diary and of each comment are the numbers of live comments and
\* replies, less the increments that are on their way, unless a comment is deleted
\* twice or the process died before the increment.
On(c, p) == comments[c].parent = p
Coming(p, k) == Cardinality({o \in ops : o.at = "stored" /\ o.kind = k /\ On(o.c, p)})
Live(p) == Cardinality({c \in CommentIds : comments[c].at = "live" /\ On(c, p)})
Counter(p) == IF p = 0 THEN total ELSE replies[p]
CountsAddUp ==
    ~twice => \A p \in {0} \cup CommentIds : Counter(p) + Coming(p, "create") - Coming(p, "delete") = Live(p)

=============================================================================
