----------------------------- MODULE Moderation -----------------------------
(* One report, the list and the page on which moderators work it off         *)
(* (app/admin/reports), and the endpoints behind them.  The page first acts  *)
(* on what was reported and then resolves the report, each with a request of *)
(* its own; the chain goes on when its moderator has left the page.          *)
EXTENDS Naturals, FiniteSets

CONSTANTS
    Moderators,    \* the administrators at work on the report
    MaxJobs,       \* bound: presses of a button
    MaxMishaps     \* bound: requests or answers lost, rejections by a rate limit

ASSUME ModerationBounds == MaxJobs \in Nat /\ MaxMishaps \in Nat

VARIABLES
    kind,        \* target_type of the report
    report,      \* its status, and how it got it
    content,     \* what was reported
    warned,      \* the reported user has been warned
    desk,        \* what each moderator looks at
    jobs, hired, \* chains of requests under way; how many there were
    mishaps

ModerationVars == <<kind, report, content, warned, desk, jobs, hired, mishaps>>

Verdicts == {"resolved", "dismissed"}
Picks == {"none", "hide", "delete"}
Chores == {"hide", "delete", "warn", "resolve", "dismiss"}
Jobs == [who : Moderators, from : {"page", "list", "profile"}, here : BOOLEAN,
         acts : BOOLEAN, step : Chores, at : {"sent", "read", "done", "failed"}]

Reports == [status : Verdicts \cup {"pending"}, from : {"page", "list", "nowhere"}, acts : BOOLEAN]
Desks == [view : {"list", "page"}, status : Verdicts \cup {"pending"}, gone : BOOLEAN,
          pick : Picks, warn : BOOLEAN]
ManyDesks == [Moderators -> Desks]

ModerationTypeOK ==
    /\ kind \in {"diary", "comment", "user"} /\ report \in Reports
    /\ content \in {"shown", "hidden", "deleted"} /\ warned \in BOOLEAN
    /\ desk \in ManyDesks
    /\ jobs \subseteq Jobs /\ hired \in 0..MaxJobs /\ mishaps \in 0..MaxMishaps

ModerationInit ==
    /\ kind \in {"diary", "comment", "user"}
    /\ report = [status |-> "pending", from |-> "nowhere", acts |-> FALSE]
    /\ content = "shown" /\ warned = FALSE
    /\ desk = [m \in Moderators |-> [view |-> "list", status |-> "pending", gone |-> FALSE,
                                     pick |-> "none", warn |-> FALSE]]
    /\ jobs = {} /\ hired = 0 /\ mishaps = 0

-----------------------------------------------------------------------------
(* The server.                                                              *)

Becomes(j, k) == jobs' = (jobs \ {j}) \cup {k}
Reaches(j, stage) == Becomes(j, [j EXCEPT !.at = stage])
Untouched == UNCHANGED <<kind, desk, hired, mishaps>>

\* What a request reads before it writes.  A deleted comment can be deleted again
\* for as long as its diary exists.
Look(j) ==
    /\ j.at = "sent"
    /\ \/ /\ j.step \in {"resolve", "dismiss"}
          /\ Reaches(j, IF report.status = "pending" THEN "read" ELSE "failed")
       \/ /\ j.step \in {"hide", "delete"}
          /\ \/ content # "deleted" /\ Reaches(j, "read")
             \/ content = "deleted" /\ Reaches(j, "failed")
             \/ content = "deleted" /\ kind = "comment" /\ Reaches(j, "read")
    /\ UNCHANGED <<report, content, warned>> /\ Untouched

\* The filter of resolve_report lets one decision win.
Decide(j) ==
    /\ j.at = "read" /\ j.step \in {"resolve", "dismiss"}
    /\ IF report.status = "pending"
       THEN /\ report' = [status |-> IF j.step = "resolve" THEN "resolved" ELSE "dismissed",
                          from |-> j.from, acts |-> j.acts]
            /\ Reaches(j, "done")
       ELSE UNCHANGED report /\ Reaches(j, "failed")
    /\ UNCHANGED <<content, warned>> /\ Untouched

\* Hiding a diary that was deleted in between matches nothing, and says so to nobody.
TakeDown(j) ==
    /\ j.at = "read" /\ j.step \in {"hide", "delete"}
    /\ content' = IF j.step = "delete" \/ content = "deleted" THEN "deleted" ELSE "hidden"
    /\ Reaches(j, "done")
    /\ UNCHANGED <<report, warned>> /\ Untouched

IssueWarning(j) ==
    /\ j.at = "sent" /\ j.step = "warn"
    /\ warned' = TRUE
    /\ Reaches(j, "done")
    /\ UNCHANGED <<report, content>> /\ Untouched

\* A request is refused or gets lost before it is served, or only its answer does.
Mishap(j) ==
    /\ j.at \in {"sent", "done"} /\ mishaps < MaxMishaps
    /\ mishaps' = mishaps + 1
    /\ Reaches(j, "failed")
    /\ UNCHANGED <<kind, report, content, warned, desk, hired>>

\* The author deletes the diary or the comment.
AuthorDeletes ==
    /\ kind # "user" /\ content # "deleted" /\ content' = "deleted"
    /\ UNCHANGED <<report, warned, jobs>> /\ Untouched

-----------------------------------------------------------------------------
(* The pages.                                                               *)

serverSide == <<kind, report, content, warned, mishaps>>
Gone == content = "deleted"

\* The list of reports is read, by either page: on arrival, after a decision of the
\* moderator's own, when the window is looked at again.
LoadReports(m) ==
    /\ desk' = [desk EXCEPT ![m].status = report.status, ![m].gone = Gone]
    /\ desk' # desk
    /\ UNCHANGED <<serverSide, jobs, hired>>

\* Going to a page starts it afresh, from the list read before; the requests of the
\* page that was left go on.
Left(m) == {IF j.who = m /\ j.from = "page" THEN [j EXCEPT !.here = FALSE] ELSE j : j \in jobs}
GoTo(m, view) ==
    /\ desk' = [desk EXCEPT ![m].view = view, ![m].pick = "none", ![m].warn = FALSE]
    /\ jobs' = Left(m)
    /\ <<desk', jobs'>> # <<desk, jobs>>
    /\ UNCHANGED <<serverSide, hired>>

AtReport(m) == desk[m].view = "page" /\ desk[m].status = "pending"
NeedsAction(m) == kind # "user" /\ ~desk[m].gone

\* Choosing what is chosen takes the choice back.  The choice outlives its buttons.
PickAction(m, pick) ==
    /\ AtReport(m) /\ NeedsAction(m) /\ (pick = "hide" => kind = "diary")
    /\ desk' = [desk EXCEPT ![m].pick = IF @ = pick THEN "none" ELSE pick]
    /\ UNCHANGED <<serverSide, jobs, hired>>

\* A warning counts as chosen when a reason was typed.
TickWarning(m) ==
    /\ AtReport(m) /\ kind = "user"
    /\ desk' = [desk EXCEPT ![m].warn = ~@]
    /\ UNCHANGED <<serverSide, jobs, hired>>

Under(m, steps) == \E j \in jobs : j.who = m /\ j.here /\ j.from = "page" /\ j.step \in steps

Hire(m, from, acts, step) ==
    /\ hired < MaxJobs /\ hired' = hired + 1
    /\ jobs' = jobs \cup {[who |-> m, from |-> from, here |-> TRUE, acts |-> acts,
                           step |-> step, at |-> "sent"]}
    /\ UNCHANGED <<serverSide, desk>>

\* The first request of handleResolve.
FirstStep(m) ==
    IF desk[m].pick # "none" THEN desk[m].pick
    ELSE IF desk[m].warn THEN "warn" ELSE "resolve"

ResolveReport(m) ==
    /\ AtReport(m) /\ (NeedsAction(m) => desk[m].pick # "none")
    /\ ~Under(m, {"hide", "delete", "warn", "resolve"})
    /\ Hire(m, "page", desk[m].warn, FirstStep(m))

DismissReport(m) ==
    /\ AtReport(m) /\ ~Under(m, {"hide", "delete", "warn", "dismiss"})
    /\ Hire(m, "page", FALSE, "dismiss")

\* The buttons in the list, which are never disabled, and the one that warns a user.
Quick(m, step) ==
    /\ desk[m].view = "list" /\ desk[m].status = "pending"
    /\ Hire(m, "list", FALSE, step)

WarnUser(m) ==
    /\ kind = "user" /\ ~\E j \in jobs : j.who = m /\ j.from = "profile"
    /\ Hire(m, "profile", TRUE, "warn")

\* Mutant: a failure is reported and not raised.
GoesOnAnyway(j) == j.from = "page" /\ j.step \in {"hide", "delete", "warn"}

\* Only after a success does handleResolve go on to the report.
GoesOn(j) == j.from = "page" /\ j.step \in {"hide", "delete", "warn"} /\ j.at = "done"

\* A decision taken on the page that is still open leads back to the list.
Settles(j) ==
    /\ j.at \in {"done", "failed"}
    /\ IF GoesOn(j)
       THEN Becomes(j, [j EXCEPT !.step = "resolve", !.at = "sent"]) /\ UNCHANGED desk
       ELSE IF j.at = "done" /\ j.step \in {"resolve", "dismiss"} /\ j.here /\ j.from = "page"
       THEN /\ desk' = [desk EXCEPT ![j.who].view = "list", ![j.who].pick = "none",
                                    ![j.who].warn = FALSE]
            /\ jobs' = Left(j.who) \ {[j EXCEPT !.here = FALSE]}
       ELSE jobs' = jobs \ {j} /\ UNCHANGED desk
    /\ UNCHANGED <<serverSide, hired>>

ModerationNext ==
    \/ AuthorDeletes
    \/ \E j \in jobs : \/ Look(j) \/ Decide(j) \/ TakeDown(j) \/ IssueWarning(j)
                       \/ Mishap(j) \/ Settles(j)
    \/ \E m \in Moderators :
         \/ LoadReports(m) \/ TickWarning(m) \/ ResolveReport(m) \/ DismissReport(m)
         \/ WarnUser(m)
         \/ \E view \in {"list", "page"} : GoTo(m, view)
         \/ \E pick \in {"hide", "delete"} : PickAction(m, pick)
         \/ \E step \in {"resolve", "dismiss"} : Quick(m, step)

ModerationSpec == ModerationInit /\ [][ModerationNext]_ModerationVars

-----------------------------------------------------------------------------

\* A report resolved on its page has been acted upon: what was reported is no longer to
\* be seen, and a user it was to warn is warned.  No request that failed, no page out of
\* date, no press of another moderator gets it resolved and nothing done.
ReportsActedOn ==
    report.status = "resolved" /\ report.from = "page" =>
        IF kind = "user" THEN report.acts => warned ELSE content # "shown"

=============================================================================
