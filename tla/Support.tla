------------------------------ MODULE Support ------------------------------
(* Tickets and ban appeals (services/ticket_service.py, endpoints tickets.py *)
(* and appeals.py) of one user, the pages on which the user and the          *)
(* administrators work on them, and the form that opens them.                *)
(*                                                                          *)
(* A request reads the ticket, decides, and writes in one or several further *)
(* calls.  The pages decide what to offer by the ticket as it was when they  *)
(* last asked.                                                              *)
EXTENDS Naturals, FiniteSets

CONSTANTS
    Admins,      \* the administrators
    Nobody,      \* assigned_admin_id is missing
    MaxTickets,  \* bound: tickets ever opened
    MaxCalls,    \* bound: requests and uploads
    MaxBans,     \* bound: bans of the user
    MaxBreaks    \* bound: requests cut short, checks that fail

ASSUME SupportBounds ==
    /\ Nobody \notin Admins /\ "user" \notin Admins /\ Nobody # "user"
    /\ MaxTickets \in Nat \ {0} /\ MaxCalls \in Nat /\ MaxBans \in Nat /\ MaxBreaks \in Nat

VARIABLES
    ticket,          \* each ticket
    banned, bans,    \* of the user: banned now; how often
    reported,        \* the user has a pending report on some target
    calls, made,     \* requests under way; how many there were
    page,            \* each person's ticket page
    appeal,          \* the page of a banned user
    form,            \* the form for tickets and reports
    crashes

SupportVars == <<ticket, banned, bans, reported, calls, made, page, appeal, form, crashes>>

Tickets == 1..MaxTickets
People == Admins \cup {"user"}
NoTicket == [at |-> "none", appeal |-> FALSE, by |-> Nobody, voices |-> {}, denied |-> FALSE,
             about |-> 0]
Closing == {"close", "accept", "deny"}
Kinds == Closing \cup {"take", "reply", "open", "appeal", "appeal reply", "report", "bug"}
Stages == {"sent", "found", "read", "weighed", "unbanned", "told", "denied", "created",
           "done", "failed"}
Calls == [tab : {1, 2}, who : People, what : Kinds, t : 0..MaxTickets, at : Stages]
Statuses == {"none", "open", "closed", "gone"}
Forms == {"none", "bug", "ticket", "profile", "dialog"}

TicketRecords == [at : Statuses, appeal : BOOLEAN, by : Admins \cup {Nobody},
                  voices : SUBSET People, denied : BOOLEAN, about : 0..MaxBans]
Pages == [t : 0..MaxTickets, list : BOOLEAN, at : Statuses, by : Admins \cup {Nobody},
          media : {"none", "loading", "there"}]
AppealPages == [signed : BOOLEAN, thread : 0..MaxTickets, asks : SUBSET {"loud", "silent"},
                filed : BOOLEAN]
FormPages == [type : Forms, sending : BOOLEAN, done : BOOLEAN]
AllTickets == [Tickets -> TicketRecords]
AllPages == [People -> Pages]

SupportTypeOK ==
    /\ ticket \in AllTickets
    /\ banned \in BOOLEAN /\ bans \in 0..MaxBans /\ reported \in BOOLEAN
    /\ calls \subseteq Calls /\ made \in 0..MaxCalls
    /\ page \in AllPages /\ appeal \in AppealPages /\ form \in FormPages
    /\ crashes \in 0..MaxBreaks

NoPage == [t |-> 0, list |-> TRUE, at |-> "none", by |-> Nobody, media |-> "none"]

SupportInit ==
    /\ ticket = [t \in Tickets |-> NoTicket]
    /\ banned = FALSE /\ bans = 0 /\ reported = FALSE
    /\ calls = {} /\ made = 0
    /\ page = [p \in People |-> NoPage]
    /\ appeal = [signed |-> FALSE, thread |-> 0, asks |-> {}, filed |-> FALSE]
    /\ form = [type |-> "none", sending |-> FALSE, done |-> FALSE]
    /\ crashes = 0

-----------------------------------------------------------------------------
(* The server.                                                              *)

pageVars == <<page, appeal, form>>
There(t) == ticket[t].at \in {"open", "closed"}
Pending == {t \in Tickets : ticket[t].at = "open" /\ ticket[t].appeal}
Fresh(t) == ticket[t].at = "none" /\ \A u \in 1..(t - 1) : ticket[u].at # "none"

Goes(c, stage) == calls' = (calls \ {c}) \cup {[c EXCEPT !.at = stage]}
Gives(c, t, stage) == calls' = (calls \ {c}) \cup {[c EXCEPT !.t = t, !.at = stage]}
GoesIf(c, ok, stage) == Goes(c, IF ok THEN stage ELSE "failed")
KeepServer == UNCHANGED <<banned, bans, reported, made, pageVars, crashes>>

\* What the read of a request demands.  Any administrator may close.
Permits(c) ==
    CASE c.what = "take" -> ticket[c.t].by = Nobody
      [] c.what = "reply" /\ c.who # "user" -> ticket[c.t].by = c.who
      [] c.what \in {"accept", "deny"} -> ticket[c.t].appeal /\ ticket[c.t].by = c.who
      [] OTHER -> TRUE

ReadTicket(c) ==
    /\ \/ c.what \in Closing \cup {"take", "reply"} /\ c.at = "sent"
       \/ c.at = "found"
    /\ GoesIf(c, ticket[c.t].at = "open" /\ Permits(c), "read")
    /\ UNCHANGED ticket /\ KeepServer

\* Mutant: the update trusts the read before it.
AssignAnyway(t) == TRUE

\* The filter of assign_admin.
Unassigned(t) == ticket[t].by = Nobody

AssignAdmin(c) ==
    /\ c.what = "take" /\ c.at = "read"
    /\ LET ok == There(c.t) /\ Unassigned(c.t)
       IN  /\ ticket' = IF ok THEN [ticket EXCEPT ![c.t].by = c.who] ELSE ticket
           /\ GoesIf(c, ok, "done")
    /\ KeepServer

\* The message is pushed onto whatever is left of the ticket, closed or not.
Voiced(c) == IF There(c.t) THEN [ticket EXCEPT ![c.t].voices = @ \cup {c.who}] ELSE ticket

AddMessage(c) ==
    /\ \/ c.what \in {"reply", "appeal reply"} /\ c.at = "read"
       \/ c.at = "created"
    /\ ticket' = Voiced(c)
    /\ GoesIf(c, There(c.t), "done")
    /\ KeepServer

CloseTicket(c) ==
    /\ \/ c.what = "close" /\ c.at = "read"
       \/ c.at = "denied"
    /\ ticket' = IF There(c.t) THEN [ticket EXCEPT ![c.t].at = "closed"] ELSE ticket
    /\ GoesIf(c, There(c.t) \/ c.what = "deny", "done")
    /\ KeepServer

\* create_ticket: the ticket, and then its first message.
OpenTicket(c, t) ==
    /\ c.what = "open" /\ c.at = "sent" /\ Fresh(t)
    /\ ticket' = [ticket EXCEPT ![t] = [NoTicket EXCEPT !.at = "open"]]
    /\ Gives(c, t, "created")
    /\ KeepServer

\* submit_appeal: a pending appeal is looked for, and then another one opened.
CheckAppeal(c) ==
    /\ c.what = "appeal" /\ c.at = "sent"
    /\ GoesIf(c, banned /\ Pending = {}, "read")
    /\ UNCHANGED ticket /\ KeepServer

OpenAppeal(c, t) ==
    /\ c.what = "appeal" /\ c.at = "read" /\ Fresh(t)
    /\ ticket' = [ticket EXCEPT ![t] = [NoTicket EXCEPT !.at = "open", !.appeal = TRUE,
                                                        !.about = bans]]
    /\ Gives(c, t, "created")
    /\ KeepServer

\* reply_to_appeal takes whichever pending appeal it finds.
FindAppeal(c) ==
    /\ c.what = "appeal reply" /\ c.at = "sent"
    /\ \/ Pending = {} /\ Goes(c, "failed")
       \/ \E t \in Pending : Gives(c, t, "found")
    /\ UNCHANGED ticket /\ KeepServer

\* resolve_ticket: the user is read after the ticket.
Weigh(c) ==
    /\ c.what \in {"accept", "deny"} /\ c.at = "read"
    /\ GoesIf(c, banned, "weighed")
    /\ UNCHANGED ticket /\ KeepServer

\* Mutant: the update of the user matches nothing.
UnbanNobody == UNCHANGED banned

Unban == banned' = FALSE

UnbanUser(c) ==
    /\ c.what = "accept" /\ c.at = "weighed"
    /\ Unban
    /\ Goes(c, "unbanned")
    /\ UNCHANGED <<ticket, bans, reported, made, pageVars, crashes>>

TellUser(c) ==
    /\ \/ c.at = "unbanned"
       \/ c.what = "deny" /\ c.at = "weighed"
    /\ ticket' = Voiced(c)
    /\ Goes(c, "told")
    /\ KeepServer

\* An accepted appeal is deleted, a denied one gets its resolution and is closed.
ConcludeAppeal(c) ==
    /\ c.at = "told"
    /\ IF c.what = "accept"
       THEN /\ ticket' = IF There(c.t) THEN [ticket EXCEPT ![c.t].at = "gone"] ELSE ticket
            /\ Goes(c, "done")
       ELSE /\ ticket' = IF There(c.t) THEN [ticket EXCEPT ![c.t].denied = TRUE] ELSE ticket
            /\ Goes(c, "denied")
    /\ KeepServer

\* submit_report: the look for a duplicate, and the insert under a unique index.  Two
\* reports of a bug are duplicates when their text is the same; no index covers them.
CheckReport(c) ==
    /\ c.at = "sent"
    /\ \/ c.what = "report" /\ GoesIf(c, ~reported, "read")
       \/ c.what = "bug" /\ (Goes(c, "read") \/ Goes(c, "failed"))
    /\ UNCHANGED ticket /\ KeepServer

InsertReport(c) ==
    /\ c.what \in {"report", "bug"} /\ c.at = "read"
    /\ reported' = (reported \/ c.what = "report")
    /\ GoesIf(c, ~reported \/ c.what = "bug", "done")
    /\ UNCHANGED <<ticket, banned, bans, made, pageVars, crashes>>

CutShort(c) ==
    /\ c.at \notin {"done", "failed"}
    /\ crashes < MaxBreaks /\ crashes' = crashes + 1
    /\ Goes(c, "failed")
    /\ UNCHANGED <<ticket, banned, bans, reported, made, pageVars>>

\* From the list of users; the rest of a ban is in Sessions and SearchOutbox.
BanUser ==
    /\ ~banned /\ bans < MaxBans
    /\ banned' = TRUE /\ bans' = bans + 1
    /\ UNCHANGED <<ticket, reported, calls, made, pageVars, crashes>>

LiftBan ==
    /\ banned /\ banned' = FALSE
    /\ UNCHANGED <<ticket, bans, reported, calls, made, pageVars, crashes>>

ServerNext ==
    \/ BanUser \/ LiftBan
    \/ \E c \in calls :
         \/ ReadTicket(c) \/ AssignAdmin(c) \/ AddMessage(c) \/ CloseTicket(c)
         \/ CheckAppeal(c) \/ FindAppeal(c) \/ Weigh(c) \/ UnbanUser(c) \/ TellUser(c)
         \/ ConcludeAppeal(c) \/ CheckReport(c) \/ InsertReport(c) \/ CutShort(c)
         \/ \E t \in Tickets : OpenTicket(c, t) \/ OpenAppeal(c, t)

-----------------------------------------------------------------------------
(* The pages.                                                               *)

serverVars == <<ticket, banned, bans, reported, crashes>>

\* A button is disabled while its request is under way.
Waits(p, what) == \E c \in calls : c.who = p /\ c.what = what /\ c.tab = 1
Sends(c) ==
    /\ made < MaxCalls /\ made' = made + 1
    /\ calls' = calls \cup {c}
Call(p, what, t) ==
    /\ ~Waits(p, what)
    /\ Sends([tab |-> 1, who |-> p, what |-> what, t |-> t, at |-> "sent"])

Shows(p, t, list) ==
    page' = [page EXCEPT ![p] = [@ EXCEPT !.t = t, !.list = list, !.at = ticket[t].at,
                                          !.by = IF p = "user" THEN Nobody ELSE ticket[t].by]]

\* An administrator looks at a ticket in the list or on a page of its own.
AdminOpens(p, t, list) ==
    /\ p # "user" /\ ticket[t].at # "none"
    /\ page[p].t # t \/ page[p].list # list
    /\ page[p].media = "none"
    /\ Shows(p, t, list)
    /\ UNCHANGED <<serverVars, calls, made, appeal, form>>

\* The user comes from a list of the user's own tickets.
UserOpens(t) ==
    /\ ticket[t].at # "none" /\ ~banned /\ page["user"].t # t
    /\ page["user"].media = "none"
    /\ Shows("user", t, FALSE)
    /\ UNCHANGED <<serverVars, calls, made, appeal, form>>

\* A page asks every five seconds and after a success, the list after a success.
PollPage(p) ==
    /\ page[p].t # 0 /\ Shows(p, page[p].t, page[p].list) /\ page' # page
    /\ UNCHANGED <<serverVars, calls, made, appeal, form>>

Offers(p, list) == page[p].t # 0 /\ page[p].at = "open" /\ page[p].list = list
Mine(p) == p # "user" /\ page[p].by = p /\ Offers(p, FALSE)
Press(p, what) == Call(p, what, page[p].t) /\ UNCHANGED <<serverVars, pageVars>>

TakeHere(p) == p # "user" /\ Offers(p, FALSE) /\ page[p].by = Nobody /\ Press(p, "take")
TakeInList(p) == p # "user" /\ Offers(p, TRUE) /\ page[p].by = Nobody /\ Press(p, "take")

\* In the list an administrator may close any ticket.
CloseHere(p) == Mine(p) /\ Press(p, "close")
CloseInList(p) == p # "user" /\ Offers(p, TRUE) /\ Press(p, "close")
UserCloses == Offers("user", FALSE) /\ Press("user", "close")

\* The panel is shown for any ticket about an account.
Resolve(p, what) ==
    /\ Mine(p) /\ ~Waits(p, "accept") /\ ~Waits(p, "deny")
    /\ Press(p, what)

\* With an attachment or without; an upload that is not over is not waited for.
SendReply(p) == Mine(p) /\ Press(p, "reply")
UserReplies == Offers("user", FALSE) /\ Press("user", "reply")

Attach(p) ==
    /\ Mine(p) \/ (p = "user" /\ Offers(p, FALSE))
    /\ page[p].media = "none" /\ ~Waits(p, "reply")
    /\ made < MaxCalls /\ made' = made + 1
    /\ page' = [page EXCEPT ![p].media = "loading"]
    /\ UNCHANGED <<serverVars, calls, appeal, form>>

Uploaded(p, ok) ==
    /\ page[p].media = "loading"
    /\ page' = [page EXCEPT ![p].media = IF ok THEN "there" ELSE "none"]
    /\ UNCHANGED <<serverVars, calls, made, appeal, form>>

DropMedia(p) ==
    /\ page[p].media = "there"
    /\ page' = [page EXCEPT ![p].media = "none"]
    /\ UNCHANGED <<serverVars, calls, made, appeal, form>>

\* A success takes the attachment away and asks for the ticket again (PollPage).
PressAnswered(c) ==
    /\ c.what \in Closing \cup {"take", "reply"} /\ c.at \in {"done", "failed"}
    /\ calls' = calls \ {c}
    /\ page' = IF c.what = "reply" /\ c.at = "done" /\ page[c.who].media = "there"
               THEN [page EXCEPT ![c.who].media = "none"] ELSE page
    /\ UNCHANGED <<serverVars, made, appeal, form>>

-----------------------------------------------------------------------------
(* The page of a banned user, who has no session: every request carries the *)
(* password.                                                                *)

NotAppeal == <<serverVars, page, form>>

TypePassword ==
    /\ banned /\ ~appeal.signed
    /\ appeal' = [appeal EXCEPT !.signed = TRUE]
    /\ UNCHANGED <<NotAppeal, calls, made>>

Asks(how) ==
    /\ how \notin appeal.asks
    /\ appeal' = [appeal EXCEPT !.asks = @ \cup {how}]

\* The button, while no appeal is shown; the timer, while one is and there is a password.
AskStatus ==
    /\ appeal.signed /\ appeal.thread = 0 /\ ~appeal.filed /\ Asks("loud")
    /\ UNCHANGED <<NotAppeal, calls, made>>

PollStatus ==
    /\ appeal.signed /\ appeal.thread # 0 /\ Asks("silent")
    /\ UNCHANGED <<NotAppeal, calls, made>>

\* A denied or a closed appeal is no pending one.
StatusArrives(how) ==
    /\ how \in appeal.asks
    /\ \E t \in Tickets \cup {0} :
         /\ IF banned /\ Pending # {} THEN t \in Pending ELSE t = 0
         /\ appeal' = [appeal EXCEPT !.thread = t, !.asks = @ \ {how}]
    /\ UNCHANGED <<NotAppeal, calls, made>>

\* The timer's failure changes nothing.
StatusFails(how) ==
    /\ how \in appeal.asks
    /\ crashes < MaxBreaks /\ crashes' = crashes + 1
    /\ appeal' = [appeal EXCEPT !.asks = @ \ {how}, !.thread = IF how = "loud" THEN 0 ELSE @]
    /\ UNCHANGED <<ticket, banned, bans, reported, page, form, calls, made>>

\* Signing out empties the page; a check that is under way is not cancelled.
SignOut ==
    /\ appeal.thread # 0
    /\ appeal' = [appeal EXCEPT !.thread = 0, !.signed = FALSE]
    /\ UNCHANGED <<NotAppeal, calls, made>>

SubmitAppeal ==
    /\ appeal.signed /\ appeal.thread = 0 /\ ~appeal.filed
    /\ Call("user", "appeal", 0)
    /\ UNCHANGED <<serverVars, pageVars>>

\* From a second tab, before this one's appeal is there.
AppealElsewhere ==
    /\ banned /\ ~\E c \in calls : c.tab = 2
    /\ Sends([tab |-> 2, who |-> "user", what |-> "appeal", t |-> 0, at |-> "sent"])
    /\ UNCHANGED <<serverVars, pageVars>>

ReplyToAppeal ==
    /\ appeal.thread # 0
    /\ Call("user", "appeal reply", 0)
    /\ UNCHANGED <<serverVars, pageVars>>

AppealAnswered(c) ==
    /\ c.what \in {"appeal", "appeal reply"} /\ c.at \in {"done", "failed"}
    /\ calls' = calls \ {c}
    /\ appeal' = IF c.at = "failed" \/ c.tab = 2 THEN appeal
                 ELSE [appeal EXCEPT !.filed = @ \/ c.what = "appeal", !.asks = @ \cup {"silent"}]
    /\ UNCHANGED <<NotAppeal, made>>

\* The page is opened anew, here or in another tab.
OpenAppealPage ==
    /\ appeal.filed
    /\ appeal' = [appeal EXCEPT !.filed = FALSE, !.thread = 0, !.signed = FALSE, !.asks = {}]
    /\ UNCHANGED <<NotAppeal, calls, made>>

-----------------------------------------------------------------------------
(* The form for tickets and reports.                                        *)

NotForm == <<serverVars, page, appeal>>

\* On the page Back is offered also while a request is under way, and so is Cancel in
\* the dialog of a diary, a comment or a user.
ChooseForm(type) ==
    /\ ~form.done /\ (form.type = "none") # (type = "none")
    /\ type = "dialog" => ~form.sending
    /\ form' = [form EXCEPT !.type = type]
    /\ UNCHANGED <<NotForm, calls, made>>

Sent(type, what) ==
    /\ form.type = type /\ ~form.sending /\ ~form.done /\ ~banned
    /\ Call("user", what, 0)
    /\ form' = [form EXCEPT !.sending = TRUE]
    /\ UNCHANGED NotForm

SubmitTicket == Sent("ticket", "open")
SubmitBug == Sent("bug", "bug")
SubmitProfile == Sent("profile", "report")
SubmitDialog == Sent("dialog", "report")

\* The answer is taken for the form that is on the screen.  The dialog closes.
FormAnswered(c) ==
    /\ c.what \in {"open", "report", "bug"} /\ c.at \in {"done", "failed"}
    /\ calls' = calls \ {c}
    /\ form' = [form EXCEPT !.sending = FALSE,
                            !.type = IF @ = "dialog" /\ c.at = "done" THEN "none" ELSE @,
                            !.done = (c.at = "done" /\ form.type # "dialog")]
    /\ UNCHANGED <<NotForm, made>>

SubmitAnother ==
    /\ form.done
    /\ form' = [form EXCEPT !.type = "none", !.done = FALSE]
    /\ UNCHANGED <<NotForm, calls, made>>

\* The three scenes share the server.
DeskNext ==
    \/ ServerNext
    \/ \E p \in People :
         \/ \E t \in Tickets, list \in BOOLEAN : AdminOpens(p, t, list)
         \/ PollPage(p) \/ TakeHere(p) \/ TakeInList(p) \/ CloseHere(p) \/ CloseInList(p)
         \/ SendReply(p) \/ Attach(p) \/ DropMedia(p)
         \/ \E what \in {"accept", "deny"} : Resolve(p, what)
         \/ \E ok \in BOOLEAN : Uploaded(p, ok)
    \/ \E t \in Tickets : UserOpens(t)
    \/ UserCloses \/ UserReplies
    \/ \E c \in calls : PressAnswered(c)

AppealNext ==
    \/ ServerNext
    \/ \E c \in calls : AppealAnswered(c) \/ PressAnswered(c)
    \/ \E p \in Admins : CloseInList(p)
    \/ TypePassword \/ AskStatus \/ PollStatus \/ SignOut
    \/ SubmitAppeal \/ AppealElsewhere \/ ReplyToAppeal \/ OpenAppealPage
    \/ \E how \in {"loud", "silent"} : StatusArrives(how) \/ StatusFails(how)

FormNext ==
    \/ ServerNext
    \/ \E c \in calls : FormAnswered(c)
    \/ \E type \in Forms : ChooseForm(type)
    \/ SubmitBug \/ SubmitTicket \/ SubmitProfile \/ SubmitDialog \/ SubmitAnother

SupportSpec == SupportInit /\ [][DeskNext \/ AppealNext \/ FormNext]_SupportVars

-----------------------------------------------------------------------------

\* The user hears one administrator on a ticket, the one who took it: two who pressed
\* Take on pages that were out of date, or whose requests overlapped, do not both get it.
OneReviewer ==
    \A t \in Tickets : ticket[t].voices \cap Admins \subseteq {ticket[t].by}

\* An appeal only disappears when the ban it was about has been lifted, wherever the
\* resolution is cut short, and whatever the user and other administrators do meanwhile.
AppealsGranted ==
    \A t \in Tickets : ticket[t].at = "gone" => ~banned \/ bans > ticket[t].about

=============================================================================
