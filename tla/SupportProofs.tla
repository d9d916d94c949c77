--------------------------- MODULE SupportProofs ---------------------------
(* One reviewer of a ticket, and no appeal lost: for any number of          *)
(* administrators, tickets, requests and bans; and what MCModeration runs   *)
(* side by side, diaries and support.                                       *)
EXTENDS MCModeration, DiaryPrivacyProofs

Answers == {"reply", "accept", "deny"}
AboutTicket == Closing \cup {"take", "reply"}
Inside == {"read", "weighed", "unbanned", "told", "denied"}

\* A ticket nobody opened has no administrator; only its administrator has a voice in it;
\* it is about a ban that has happened, and goes away when that one is over.
TicketFacts(t) ==
    /\ ticket[t].at = "none" => ticket[t].by = Nobody
    /\ ticket[t].voices \cap Admins \subseteq {ticket[t].by}
    /\ ticket[t].about <= bans
    /\ ticket[t].at = "gone" => ~banned \/ bans > ticket[t].about

\* Who sends which request, which stages it has, and what it is about.
Belongs(c) ==
    /\ c.what \in AboutTicket => c.t \in Tickets
    /\ c.what = "appeal reply" /\ c.at \in {"found", "read"} => c.t \in Tickets
    /\ c.at = "created" => c.t \in Tickets /\ c.who = "user"
    /\ c.at = "found" => c.what = "appeal reply"
    /\ c.at \in {"weighed", "told"} => c.what \in {"accept", "deny"}
    /\ c.at = "unbanned" => c.what = "accept"
    /\ c.at = "denied" => c.what = "deny"
    /\ c.what \in {"take", "accept", "deny"} => c.who \in Admins
    /\ c.what \in {"open", "appeal", "appeal reply"} => c.who = "user"

\* Past its read, an administrator's answer is to a ticket of that administrator; past
\* the unban, an acceptance has nothing left to lift.
Owned(c) ==
    /\ c.what \in Answers /\ c.at \in Inside
         => ticket[c.t].at # "none" /\ (c.who \in Admins => ticket[c.t].by = c.who)
    /\ c.what = "accept" /\ c.at \in {"unbanned", "told"} => ~banned \/ bans > ticket[c.t].about

SupportInv ==
    /\ SupportTypeOK
    /\ \A t \in Tickets : TicketFacts(t)
    /\ \A c \in calls : Belongs(c) /\ Owned(c)

-----------------------------------------------------------------------------

\* The invariant holds before anything happened.
LEMMA SupportStarts == SupportInit => SupportInv
<1> SUFFICES ASSUME SupportInit PROVE SupportInv
  OBVIOUS
<1>1. NoTicket \in TicketRecords /\ NoPage \in Pages
  BY SupportBounds DEF NoTicket, TicketRecords, Statuses, NoPage, Pages
<1>2. ticket \in AllTickets /\ page \in AllPages
  BY <1>1 DEF SupportInit, AllTickets, AllPages
<1>3. appeal \in AppealPages /\ form \in FormPages
  BY SupportBounds DEF SupportInit, AppealPages, FormPages, Forms
<1>4. /\ bans \in 0..MaxBans /\ made \in 0..MaxCalls /\ crashes \in 0..MaxBreaks
      /\ calls \subseteq Calls /\ banned \in BOOLEAN /\ reported \in BOOLEAN
  <2>1. bans \in 0..MaxBans /\ made \in 0..MaxCalls /\ crashes \in 0..MaxBreaks
    BY SupportBounds DEF SupportInit
  <2>2. calls \subseteq Calls /\ banned \in BOOLEAN /\ reported \in BOOLEAN
    BY DEF SupportInit
  <2> QED
    BY <2>1, <2>2
<1>5. SupportTypeOK
  BY <1>2, <1>3, <1>4 DEF SupportTypeOK
<1>6. ASSUME NEW t \in Tickets PROVE TicketFacts(t)
  <2>1. ticket[t] = NoTicket /\ bans = 0
    BY <1>6 DEF SupportInit
  <2>2. NoTicket.at = "none" /\ NoTicket.by = Nobody /\ NoTicket.voices = {} /\ NoTicket.about = 0
    BY DEF NoTicket
  <2> QED
    BY <2>1, <2>2 DEF TicketFacts
<1> QED
  BY <1>5, <1>6 DEF SupportInit, SupportInv

\* What no step undoes: a ticket that exists keeps its administrator and what it is about,
\* and a new ban has a new number.
Onwards ==
    /\ \A t \in Tickets :
         ticket[t].at # "none" => /\ ticket[t].by # Nobody => ticket'[t].by = ticket[t].by
                                  /\ ticket'[t].at # "none"
                                  /\ ticket'[t].about = ticket[t].about
    /\ bans' \in Nat /\ bans' >= bans
    /\ banned' /\ ~banned => bans' > bans

\* What holds of a request goes on holding of it while other things happen.
LEMMA OwnedKept ==
    ASSUME SupportInv, Onwards, NEW c \in calls
    PROVE  Belongs(c)' /\ Owned(c)'
<1>1. Belongs(c) /\ Owned(c)
  BY DEF SupportInv
<1>2. Belongs(c)'
  BY <1>1 DEF Belongs
<1>3. ASSUME c.what \in Answers, c.at \in Inside
      PROVE  /\ ticket'[c.t].at # "none"
             /\ c.who \in Admins => ticket'[c.t].by = c.who
             /\ ticket'[c.t].about = ticket[c.t].about
             /\ ticket[c.t].about <= bans /\ ticket[c.t].about \in Nat
  <2>1. c.t \in Tickets
    BY <1>1, <1>3 DEF Belongs, Answers, AboutTicket, Closing
  <2>2. ticket[c.t].about <= bans /\ ticket[c.t] \in TicketRecords
    BY <2>1 DEF SupportInv, SupportTypeOK, TicketFacts, AllTickets
  <2>3. ticket[c.t].at # "none" /\ (c.who \in Admins => ticket[c.t].by = c.who)
    BY <1>1, <1>3 DEF Owned
  <2> QED
    BY <2>1, <2>2, <2>3, SupportBounds DEF Onwards, TicketRecords
<1>4. ASSUME c.what = "accept", c.at \in {"unbanned", "told"}
      PROVE  ~banned' \/ bans' > ticket'[c.t].about
  <2>1. ~banned \/ bans > ticket[c.t].about
    BY <1>1, <1>4 DEF Owned
  <2>2. /\ ticket'[c.t].about = ticket[c.t].about
        /\ ticket[c.t].about <= bans /\ ticket[c.t].about \in Nat
    BY <1>3, <1>4 DEF Answers, Inside
  <2>3. bans \in Nat
    BY SupportBounds DEF SupportInv, SupportTypeOK
  <2> QED
    BY <2>1, <2>2, <2>3 DEF Onwards
<1>5. Owned(c)'
  BY <1>3, <1>4 DEF Owned
<1> QED
  BY <1>2, <1>5

\* Request c goes to its next stage, and has become k.
LEMMA StageSafe ==
    ASSUME SupportInv, NEW c \in calls, NEW k \in Calls,
           calls' = (calls \ {c}) \cup {k}, Belongs(k)', Owned(k)',
           Onwards,
           ticket' \in AllTickets, \A t \in Tickets : TicketFacts(t)',
           banned' \in BOOLEAN, bans' \in 0..MaxBans, reported' \in BOOLEAN,
           crashes' \in 0..MaxBreaks, UNCHANGED <<made, page, appeal, form>>
    PROVE  SupportInv'
<1>1. \A x \in calls' : Belongs(x)' /\ Owned(x)'
  BY OwnedKept
<1>2. SupportTypeOK'
  BY DEF SupportInv, SupportTypeOK
<1> QED
  BY <1>1, <1>2 DEF SupportInv

\* Nothing has happened to the tickets and the user.
LEMMA Quiet ==
    ASSUME SupportInv, UNCHANGED <<ticket, banned, bans>>
    PROVE  /\ Onwards /\ \A t \in Tickets : TicketFacts(t)'
           /\ ticket' \in AllTickets /\ banned' \in BOOLEAN /\ bans' \in 0..MaxBans
<1>1. bans \in Nat
  BY SupportBounds DEF SupportInv, SupportTypeOK
<1> QED
  BY <1>1 DEF SupportInv, SupportTypeOK, Onwards, TicketFacts

\* The steps of a request that read, or touch neither a ticket nor a ban.
LEMMA ReadsSafe ==
    ASSUME SupportInv, NEW c \in calls,
           \/ ReadTicket(c) \/ CheckAppeal(c) \/ FindAppeal(c) \/ Weigh(c)
           \/ CheckReport(c) \/ InsertReport(c) \/ CutShort(c)
    PROVE  SupportInv'
<1>1. c \in Calls /\ c.t \in 0..MaxTickets /\ Belongs(c) /\ Owned(c)
  BY DEF SupportInv, SupportTypeOK, Calls
<1>2. /\ UNCHANGED <<ticket, banned, bans, made, page, appeal, form>>
      /\ reported' \in BOOLEAN /\ crashes' \in 0..MaxBreaks
  <2>1. UNCHANGED <<ticket, banned, bans, made, page, appeal, form>>
    BY DEF ReadTicket, CheckAppeal, FindAppeal, Weigh, CheckReport, InsertReport, CutShort,
       KeepServer, pageVars
  <2>2. reported \in BOOLEAN /\ crashes \in 0..MaxBreaks
    BY DEF SupportInv, SupportTypeOK
  <2>3. CASE InsertReport(c)
    BY <2>1, <2>2, <2>3 DEF InsertReport
  <2>4. CASE CutShort(c)
    BY <2>1, <2>2, <2>4, SupportBounds DEF CutShort
  <2>5. CASE ~InsertReport(c) /\ ~CutShort(c)
    BY <2>1, <2>2, <2>5 DEF ReadTicket, CheckAppeal, FindAppeal, Weigh, CheckReport, KeepServer
  <2> QED
    BY <2>3, <2>4, <2>5
<1>3. /\ Onwards /\ \A t \in Tickets : TicketFacts(t)'
      /\ ticket' \in AllTickets /\ banned' \in BOOLEAN /\ bans' \in 0..MaxBans
  BY <1>2, Quiet
<1>4. ASSUME NEW k \in Calls, calls' = (calls \ {c}) \cup {k}, Belongs(k), Owned(k)
      PROVE  SupportInv'
  <2>1. Belongs(k)' /\ Owned(k)'
    BY <1>2, <1>4 DEF Belongs, Owned
  <2> QED
    BY <1>2, <1>3, <1>4, <2>1, StageSafe
<1> DEFINE k(stage) == [c EXCEPT !.at = stage]
<1>5. ASSUME NEW stage \in {"read", "failed", "weighed", "done"}
      PROVE  /\ k(stage) \in Calls /\ k(stage).t = c.t /\ k(stage).at = stage
             /\ k(stage).what = c.what /\ k(stage).who = c.who
  BY <1>1 DEF Calls, Stages
<1>6. ASSUME NEW stage \in {"failed", "done"}, calls' = (calls \ {c}) \cup {k(stage)}
      PROVE  SupportInv'
  <2>1. Belongs(k(stage))
    BY <1>1, <1>5 DEF Belongs
  <2>2. Owned(k(stage))
    BY <1>5 DEF Owned, Inside
  <2> QED
    BY <1>4, <1>5, <1>6, <2>1, <2>2
<1>7. ASSUME calls' = (calls \ {c}) \cup {k("read")},
             c.what \in Answers => Permits(c) /\ ticket[c.t].at # "none",
             c.what = "appeal reply" => c.t \in Tickets
      PROVE  SupportInv'
  <2>1. Belongs(k("read"))
    BY <1>1, <1>5, <1>7 DEF Belongs
  <2>2. Owned(k("read"))
    <3>1. c.what \in Answers /\ c.who \in Admins => ticket[c.t].by = c.who
      BY <1>7, SupportBounds DEF Permits, Answers
    <3> QED
      BY <1>5, <1>7, <3>1 DEF Owned
  <2> QED
    BY <1>4, <1>5, <1>7, <2>1, <2>2
<1>8. CASE ReadTicket(c)
  <2>1. CASE ticket[c.t].at = "open" /\ Permits(c)
    <3>1. c.what = "appeal reply" => c.t \in Tickets
      BY <1>1, <1>8 DEF ReadTicket, Belongs, Closing
    <3>2. calls' = (calls \ {c}) \cup {k("read")}
      BY <1>8, <2>1 DEF ReadTicket, GoesIf, Goes
    <3> QED
      BY <1>7, <2>1, <3>1, <3>2
  <2>2. CASE ~(ticket[c.t].at = "open" /\ Permits(c))
    BY <1>6, <1>8, <2>2 DEF ReadTicket, GoesIf, Goes
  <2> QED
    BY <2>1, <2>2
<1>9. CASE CheckAppeal(c) \/ CheckReport(c)
  <2>1. c.what \in {"appeal", "report", "bug"} /\ \E stage \in {"read", "failed"} :
          calls' = (calls \ {c}) \cup {k(stage)}
    BY <1>9 DEF CheckAppeal, CheckReport, GoesIf, Goes
  <2> QED
    BY <1>6, <1>7, <2>1 DEF Answers
<1>10. CASE FindAppeal(c)
  <2>1. CASE calls' = (calls \ {c}) \cup {k("failed")}
    BY <1>6, <2>1
  <2>2. ASSUME NEW t \in Tickets, Gives(c, t, "found")
        PROVE  SupportInv'
    <3> DEFINE f == [c EXCEPT !.t = t, !.at = "found"]
    <3>1. t \in 0..MaxTickets
      BY SupportBounds DEF Tickets
    <3>2. /\ f \in Calls /\ f.t = t /\ f.at = "found"
          /\ f.what = "appeal reply" /\ f.who = c.who
      BY <1>1, <1>10, <3>1 DEF Calls, Stages, FindAppeal
    <3>3. Belongs(f)
      BY <1>1, <1>10, <3>2 DEF Belongs, AboutTicket, Closing, FindAppeal
    <3>4. Owned(f)
      BY <3>2 DEF Owned, Inside
    <3> QED
      BY <1>4, <2>2, <3>2, <3>3, <3>4 DEF Gives
  <2> QED
    BY <1>10, <2>1, <2>2 DEF FindAppeal, Goes, Pending
<1>11. CASE Weigh(c)
  <2>1. /\ c.what \in {"accept", "deny"} /\ c.at = "read"
        /\ \E stage \in {"weighed", "failed"} : calls' = (calls \ {c}) \cup {k(stage)}
    BY <1>11 DEF Weigh, GoesIf, Goes
  <2>2. Belongs(k("weighed"))
    BY <1>1, <1>5, <2>1 DEF Belongs
  <2>3. Owned(k("weighed"))
    BY <1>1, <1>5, <2>1 DEF Owned, Answers, Inside
  <2> QED
    BY <1>4, <1>5, <1>6, <2>1, <2>2, <2>3
<1>12. CASE InsertReport(c) \/ CutShort(c)
  <2>1. \E stage \in {"done", "failed"} : calls' = (calls \ {c}) \cup {k(stage)}
    BY <1>12 DEF InsertReport, CutShort, GoesIf, Goes
  <2> QED
    BY <1>6, <2>1
<1> QED
  BY <1>8, <1>9, <1>10, <1>11, <1>12

\* A request writes a ticket: t becomes v, which is as old and as much somebody's as it was.
LEMMA WriteSafe ==
    ASSUME SupportInv, NEW c \in calls, NEW k \in Calls, NEW t \in Tickets, NEW v \in TicketRecords,
           calls' = (calls \ {c}) \cup {k}, Belongs(k), Owned(k)',
           ticket' = [ticket EXCEPT ![t] = v],
           ticket[t].at # "none" => /\ ticket[t].by # Nobody => v.by = ticket[t].by
                                    /\ v.about = ticket[t].about,
           v.at # "none", v.voices \cap Admins \subseteq {v.by}, v.about <= bans,
           v.at = "gone" => ~banned \/ bans > v.about,
           UNCHANGED <<banned, bans, reported, crashes, made, page, appeal, form>>
    PROVE  SupportInv'
<1>1. ticket \in AllTickets /\ ticket' \in AllTickets /\ bans \in Nat
  BY SupportBounds DEF SupportInv, SupportTypeOK, AllTickets
<1>2. Onwards
  BY <1>1 DEF Onwards, AllTickets
<1>3. \A u \in Tickets : TicketFacts(u)'
  BY <1>1 DEF TicketFacts, SupportInv, AllTickets
<1>4. banned' \in BOOLEAN /\ reported' \in BOOLEAN /\ bans' \in 0..MaxBans /\ crashes' \in 0..MaxBreaks
  BY DEF SupportInv, SupportTypeOK
<1>5. Belongs(k)'
  BY DEF Belongs
<1> QED
  BY <1>1, <1>2, <1>3, <1>4, <1>5, StageSafe

\* A request goes on, and nothing else does.
LEMMA MoveSafe ==
    ASSUME SupportInv, NEW c \in calls, NEW k \in Calls,
           calls' = (calls \ {c}) \cup {k}, Belongs(k), Owned(k),
           UNCHANGED <<ticket, banned, bans, reported, crashes, made, page, appeal, form>>
    PROVE  SupportInv'
<1>1. Belongs(k)' /\ Owned(k)'
  BY DEF Belongs, Owned
<1>2. reported' \in BOOLEAN /\ crashes' \in 0..MaxBreaks
  BY DEF SupportInv, SupportTypeOK
<1> QED
  BY <1>1, <1>2, Quiet, StageSafe

\* The steps of a request that write a ticket which is there.
LEMMA WritesSafe ==
    ASSUME SupportInv, NEW c \in calls,
           AssignAdmin(c) \/ AddMessage(c) \/ CloseTicket(c) \/ TellUser(c) \/ ConcludeAppeal(c)
    PROVE  SupportInv'
<1>1. c \in Calls /\ c.t \in 0..MaxTickets /\ c.who \in People /\ Belongs(c) /\ Owned(c)
  BY DEF SupportInv, SupportTypeOK, Calls
<1>2. UNCHANGED <<banned, bans, reported, crashes, made, page, appeal, form>>
  BY DEF AssignAdmin, AddMessage, CloseTicket, TellUser, ConcludeAppeal, KeepServer, pageVars
<1>3. c.t \in Tickets
  BY <1>1 DEF AssignAdmin, AddMessage, CloseTicket, TellUser, ConcludeAppeal, Belongs, AboutTicket,
     Closing
<1> DEFINE v == ticket[c.t]
           k(stage) == [c EXCEPT !.at = stage]
<1>4. /\ v \in TicketRecords /\ TicketFacts(c.t) /\ ticket \in AllTickets
      /\ v.about \in Nat /\ bans \in Nat
  BY <1>3, SupportBounds DEF SupportInv, SupportTypeOK, AllTickets, TicketRecords
<1>5. ASSUME NEW stage \in {"done", "failed", "told", "denied"}
      PROVE  /\ k(stage) \in Calls /\ k(stage).t = c.t /\ k(stage).at = stage
             /\ k(stage).what = c.what /\ k(stage).who = c.who
  BY <1>1 DEF Calls, Stages
<1>6. ASSUME NEW stage \in {"done", "failed"}
      PROVE  Belongs(k(stage)) /\ Owned(k(stage)) /\ Owned(k(stage))'
  BY <1>1, <1>5 DEF Belongs, Owned, Inside
<1>7. ASSUME NEW stage \in {"done", "failed"}, ticket' = ticket,
             calls' = (calls \ {c}) \cup {k(stage)}
      PROVE  SupportInv'
  BY <1>2, <1>5, <1>6, <1>7, MoveSafe
<1>8. CASE AssignAdmin(c)
  <2>1. CASE There(c.t) /\ Unassigned(c.t)
    <3> DEFINE w == [v EXCEPT !.by = c.who]
    <3>1. c.who \in Admins
      BY <1>1, <1>8 DEF AssignAdmin, Belongs
    <3>2. /\ w \in TicketRecords /\ w.by = c.who /\ w.at = v.at /\ w.voices = v.voices
          /\ w.about = v.about
      BY <1>4, <3>1 DEF TicketRecords
    <3>3. ticket' = [ticket EXCEPT ![c.t] = w] /\ calls' = (calls \ {c}) \cup {k("done")}
      BY <1>8, <2>1 DEF AssignAdmin, GoesIf, Goes
    <3>4. v.by = Nobody /\ v.at \notin {"none", "gone"}
      BY <2>1 DEF There, Unassigned
    <3>5. w.voices \cap Admins \subseteq {w.by} /\ w.about <= bans
      BY <1>4, <3>2, <3>4, SupportBounds DEF TicketFacts
    <3> QED
      BY <1>2, <1>3, <1>5, <1>6, <3>2, <3>3, <3>4, <3>5, WriteSafe
  <2>2. CASE ~(There(c.t) /\ Unassigned(c.t))
    BY <1>7, <1>8, <2>2 DEF AssignAdmin, GoesIf, Goes
  <2> QED
    BY <2>1, <2>2
<1>9. ASSUME There(c.t), ticket' = Voiced(c), NEW stage \in {"done", "told"},
             calls' = (calls \ {c}) \cup {k(stage)}, Belongs(k(stage)), Owned(k(stage))',
             c.who \in Admins => v.by = c.who
      PROVE  SupportInv'
  <2> DEFINE w == [v EXCEPT !.voices = @ \cup {c.who}]
  <2>1. /\ w \in TicketRecords /\ w.by = v.by /\ w.at = v.at /\ w.voices = v.voices \cup {c.who}
        /\ w.about = v.about
    BY <1>1, <1>4 DEF TicketRecords
  <2>2. ticket' = [ticket EXCEPT ![c.t] = w] /\ v.at \notin {"none", "gone"}
    BY <1>9 DEF Voiced, There
  <2>3. w.voices \cap Admins \subseteq {w.by} /\ w.about <= bans
    BY <1>4, <1>9, <2>1 DEF TicketFacts
  <2> QED
    BY <1>2, <1>3, <1>5, <1>9, <2>1, <2>2, <2>3, WriteSafe
<1>10. CASE AddMessage(c)
  <2>1. CASE There(c.t)
    <3>1. calls' = (calls \ {c}) \cup {k("done")} /\ ticket' = Voiced(c)
      BY <1>10, <2>1 DEF AddMessage, GoesIf, Goes
    <3>2. c.who \in Admins => v.by = c.who
      BY <1>1, <1>10, SupportBounds DEF AddMessage, Belongs, Owned, Answers, Inside
    <3> QED
      BY <1>6, <1>9, <2>1, <3>1, <3>2
  <2>2. CASE ~There(c.t)
    BY <1>7, <1>10, <2>2 DEF AddMessage, GoesIf, Goes, Voiced
  <2> QED
    BY <2>1, <2>2
<1>11. CASE CloseTicket(c)
  <2>1. CASE There(c.t)
    <3> DEFINE w == [v EXCEPT !.at = "closed"]
    <3>1. /\ w \in TicketRecords /\ w.by = v.by /\ w.at = "closed" /\ w.voices = v.voices
          /\ w.about = v.about
      BY <1>4 DEF TicketRecords, Statuses
    <3>2. ticket' = [ticket EXCEPT ![c.t] = w] /\ calls' = (calls \ {c}) \cup {k("done")}
      BY <1>11, <2>1 DEF CloseTicket, GoesIf, Goes
    <3>3. w.voices \cap Admins \subseteq {w.by} /\ w.about <= bans
      BY <1>4, <3>1 DEF TicketFacts
    <3> QED
      BY <1>2, <1>3, <1>5, <1>6, <3>1, <3>2, <3>3, WriteSafe
  <2>2. CASE ~There(c.t)
    BY <1>7, <1>11, <2>2 DEF CloseTicket, GoesIf, Goes
  <2> QED
    BY <2>1, <2>2
<1>12. CASE TellUser(c)
  <2>1. /\ c.what \in {"accept", "deny"} /\ c.at \in {"weighed", "unbanned"}
        /\ c.what = "accept" => c.at = "unbanned"
        /\ ticket' = Voiced(c) /\ calls' = (calls \ {c}) \cup {k("told")}
    BY <1>1, <1>12 DEF TellUser, Goes, Belongs
  <2>2. v.at # "none" /\ (c.who \in Admins => v.by = c.who)
    BY <1>1, <2>1 DEF Owned, Answers, Inside
  <2>3. Belongs(k("told"))
    BY <1>1, <1>5, <2>1 DEF Belongs
  <2>4. /\ ticket'[c.t].at = v.at /\ ticket'[c.t].by = v.by /\ ticket'[c.t].about = v.about
    BY <1>3, <1>4, <2>1 DEF Voiced, AllTickets, TicketRecords
  <2>5. c.what = "accept" => ~banned \/ bans > v.about
    BY <1>1, <2>1 DEF Owned
  <2>6. Owned(k("told"))'
    BY <1>2, <1>5, <2>1, <2>2, <2>4, <2>5 DEF Owned
  <2>7. CASE There(c.t)
    BY <1>9, <2>1, <2>2, <2>3, <2>6, <2>7
  <2>8. CASE ~There(c.t)
    <3>1. ticket' = ticket
      BY <2>1, <2>8 DEF Voiced
    <3>2. Owned(k("told"))
      BY <1>5, <2>1, <2>2, <2>5 DEF Owned
    <3> QED
      BY <1>2, <1>5, <2>1, <2>3, <3>1, <3>2, MoveSafe
  <2> QED
    BY <2>7, <2>8
<1>13. CASE ConcludeAppeal(c)
  <2>1. /\ c.at = "told" /\ c.what \in {"accept", "deny"}
        /\ v.at # "none" /\ (c.who \in Admins => v.by = c.who)
        /\ c.what = "accept" => ~banned \/ bans > v.about
    BY <1>1, <1>13 DEF ConcludeAppeal, Belongs, Owned, Answers, Inside
  <2>2. CASE c.what = "accept" /\ There(c.t)
    <3> DEFINE w == [v EXCEPT !.at = "gone"]
    <3>1. /\ w \in TicketRecords /\ w.by = v.by /\ w.at = "gone" /\ w.voices = v.voices
          /\ w.about = v.about
      BY <1>4 DEF TicketRecords, Statuses
    <3>2. ticket' = [ticket EXCEPT ![c.t] = w] /\ calls' = (calls \ {c}) \cup {k("done")}
      BY <1>13, <2>2 DEF ConcludeAppeal, Goes
    <3>3. w.voices \cap Admins \subseteq {w.by} /\ w.about <= bans
      BY <1>4, <3>1 DEF TicketFacts
    <3> QED
      BY <1>2, <1>3, <1>5, <1>6, <2>1, <2>2, <3>1, <3>2, <3>3, WriteSafe
  <2>3. CASE c.what = "accept" /\ ~There(c.t)
    BY <1>7, <1>13, <2>3 DEF ConcludeAppeal, Goes
  <2>4. CASE c.what = "deny"
    <3>1. calls' = (calls \ {c}) \cup {k("denied")}
      BY <1>13, <2>4 DEF ConcludeAppeal, Goes
    <3>2. Belongs(k("denied"))
      BY <1>1, <1>5, <2>4 DEF Belongs
    <3>3. CASE There(c.t)
      <4> DEFINE w == [v EXCEPT !.denied = TRUE]
      <4>1. /\ w \in TicketRecords /\ w.by = v.by /\ w.at = v.at /\ w.voices = v.voices
            /\ w.about = v.about
        BY <1>4 DEF TicketRecords
      <4>2. ticket' = [ticket EXCEPT ![c.t] = w] /\ v.at \notin {"none", "gone"}
        BY <1>13, <2>4, <3>3 DEF ConcludeAppeal, There
      <4>3. w.voices \cap Admins \subseteq {w.by} /\ w.about <= bans
        BY <1>4, <4>1 DEF TicketFacts
      <4>4. ticket'[c.t].at = v.at /\ ticket'[c.t].by = v.by
        BY <1>3, <1>4, <4>1, <4>2 DEF AllTickets
      <4>5. Owned(k("denied"))'
        BY <1>5, <2>1, <2>4, <4>4 DEF Owned
      <4>6. k("denied") \in Calls
        BY <1>5
      <4> HIDE DEF k, w
      <4> QED
        BY <1>2, <1>3, <3>1, <3>2, <4>1, <4>2, <4>3, <4>5, <4>6, WriteSafe
    <3>4. CASE ~There(c.t)
      <4>1. ticket' = ticket
        BY <1>13, <2>4, <3>4 DEF ConcludeAppeal
      <4>2. Owned(k("denied"))
        BY <1>5, <2>1, <2>4 DEF Owned
      <4> QED
        BY <1>2, <1>5, <3>1, <3>2, <4>1, <4>2, MoveSafe
    <3> QED
      BY <3>3, <3>4
  <2> QED
    BY <2>1, <2>2, <2>3, <2>4
<1> QED
  BY <1>8, <1>10, <1>11, <1>12, <1>13

\* A ticket or an appeal is opened under a number that nobody has used.
LEMMA OpensSafe ==
    ASSUME SupportInv, NEW c \in calls, NEW t \in Tickets, OpenTicket(c, t) \/ OpenAppeal(c, t)
    PROVE  SupportInv'
<1>1. c \in Calls /\ Belongs(c)
  BY DEF SupportInv, SupportTypeOK
<1>2. /\ UNCHANGED <<banned, bans, reported, crashes, made, page, appeal, form>>
      /\ ticket[t].at = "none" /\ c.what \in {"open", "appeal"}
  BY DEF OpenTicket, OpenAppeal, KeepServer, pageVars, Fresh
<1>3. bans \in 0..MaxBans /\ bans \in Nat
  BY SupportBounds DEF SupportInv, SupportTypeOK
<1> DEFINE k == [c EXCEPT !.t = t, !.at = "created"]
<1>4. t \in 0..MaxTickets
  BY SupportBounds DEF Tickets
<1>5. /\ k \in Calls /\ k.t = t /\ k.at = "created" /\ k.what = c.what /\ k.who = c.who
  BY <1>1, <1>4 DEF Calls, Stages
<1>6. calls' = (calls \ {c}) \cup {k}
  BY DEF OpenTicket, OpenAppeal, Gives
<1>7. Belongs(k)
  BY <1>1, <1>2, <1>5 DEF Belongs, AboutTicket, Closing
<1>8. Owned(k)'
  BY <1>5 DEF Owned, Inside
<1>9. NoTicket \in TicketRecords
  BY SupportBounds DEF NoTicket, TicketRecords, Statuses
<1>10. PICK v \in TicketRecords :
         /\ ticket' = [ticket EXCEPT ![t] = v]
         /\ v.at = "open" /\ v.voices = {} /\ v.about <= bans
  <2>1. CASE OpenTicket(c, t)
    <3> DEFINE w == [NoTicket EXCEPT !.at = "open"]
    <3>1. w.at = "open" /\ w.voices = {} /\ w.about = 0
      BY DEF NoTicket
    <3>2. w \in TicketRecords
      BY <1>9 DEF TicketRecords, Statuses
    <3>3. ticket' = [ticket EXCEPT ![t] = w]
      BY <2>1 DEF OpenTicket
    <3>4. w.about <= bans
      BY <1>3, <3>1
    <3> HIDE DEF w
    <3> QED
      BY <3>1, <3>2, <3>3, <3>4
  <2>2. CASE OpenAppeal(c, t)
    <3> DEFINE w == [NoTicket EXCEPT !.at = "open", !.appeal = TRUE, !.about = bans]
    <3>1. w.at = "open" /\ w.voices = {} /\ w.about = bans
      BY DEF NoTicket
    <3>2. w \in TicketRecords
      BY <1>3, <1>9 DEF TicketRecords, Statuses
    <3>3. ticket' = [ticket EXCEPT ![t] = w]
      BY <2>2 DEF OpenAppeal
    <3>4. w.about <= bans
      BY <1>3, <3>1
    <3> HIDE DEF w
    <3> QED
      BY <3>1, <3>2, <3>3, <3>4
  <2> QED
    BY <2>1, <2>2
<1> QED
  BY <1>2, <1>5, <1>6, <1>7, <1>8, <1>10, WriteSafe

\* A ban comes or goes, by an accepted appeal or from the list of users.
LEMMA BansSafe ==
    ASSUME SupportInv, BanUser \/ LiftBan \/ \E c \in calls : UnbanUser(c)
    PROVE  SupportInv'
<1>1. /\ bans \in 0..MaxBans /\ bans \in Nat /\ banned \in BOOLEAN
      /\ \A t \in Tickets : TicketFacts(t) /\ ticket[t].about \in Nat
  BY SupportBounds DEF SupportInv, SupportTypeOK, AllTickets, TicketRecords
<1>2. UNCHANGED <<ticket, reported, made, page, appeal, form, crashes>>
  BY DEF BanUser, LiftBan, UnbanUser, pageVars
<1>3. bans' \in 0..MaxBans /\ bans' >= bans /\ banned' \in BOOLEAN
      /\ (banned' => ~banned /\ bans' > bans)
  <2>1. CASE BanUser
    <3>1. bans' \in 0..MaxBans /\ bans' > bans
      BY <1>1, <2>1, SupportBounds DEF BanUser
    <3>2. ~banned /\ banned' = TRUE
      BY <2>1 DEF BanUser
    <3> QED
      BY <1>1, <3>1, <3>2
  <2>2. CASE ~BanUser
    <3>1. bans' = bans /\ banned' = FALSE
      BY <2>2 DEF LiftBan, UnbanUser, Unban
    <3>2. bans' \in 0..MaxBans /\ bans' >= bans
      BY <1>1, <3>1
    <3> QED
      BY <3>1, <3>2
  <2> QED
    BY <2>1, <2>2
<1>4. Onwards
  BY <1>2, <1>3, SupportBounds DEF Onwards
<1>5. \A t \in Tickets : TicketFacts(t)'
  BY <1>1, <1>2, <1>3, SupportBounds DEF TicketFacts
<1>6. ticket' \in AllTickets /\ reported' \in BOOLEAN /\ crashes' \in 0..MaxBreaks
  BY <1>2 DEF SupportInv, SupportTypeOK
<1>7. CASE calls' = calls
  <2>1. \A x \in calls' : Belongs(x)' /\ Owned(x)'
    BY <1>4, <1>7, OwnedKept
  <2>2. SupportTypeOK'
    BY <1>2, <1>3, <1>6, <1>7 DEF SupportInv, SupportTypeOK
  <2> QED
    BY <1>5, <2>1, <2>2 DEF SupportInv
<1>8. ASSUME NEW c \in calls, UnbanUser(c)
      PROVE  SupportInv'
  <2> DEFINE k == [c EXCEPT !.at = "unbanned"]
  <2>1. c \in Calls /\ Belongs(c) /\ Owned(c) /\ c.what = "accept" /\ c.at = "weighed"
    BY <1>8 DEF SupportInv, SupportTypeOK, UnbanUser
  <2>2. /\ k \in Calls /\ k.t = c.t /\ k.at = "unbanned" /\ k.what = "accept" /\ k.who = c.who
    BY <2>1 DEF Calls, Stages
  <2>3. Belongs(k)'
    BY <2>1, <2>2 DEF Belongs
  <2>4. ~banned' /\ calls' = (calls \ {c}) \cup {k}
    BY <1>8 DEF UnbanUser, Unban, Goes
  <2>5. Owned(k)'
    BY <1>2, <2>1, <2>2, <2>4 DEF Owned, Answers, Inside
  <2> QED
    BY <1>2, <1>3, <1>4, <1>5, <1>6, <2>2, <2>3, <2>4, <2>5, StageSafe
<1> QED
  BY <1>7, <1>8 DEF BanUser, LiftBan

-----------------------------------------------------------------------------
(* The pages send requests, and change nothing but themselves otherwise.    *)

\* A page that changes itself, and sends at most a request.
LEMMA PageSafe ==
    ASSUME SupportInv,
           \A c \in calls' : c \in calls \/ (c \in Calls /\ c.at = "sent" /\ Belongs(c)),
           made' \in 0..MaxCalls, crashes' \in 0..MaxBreaks,
           page' \in AllPages, appeal' \in AppealPages, form' \in FormPages,
           UNCHANGED <<ticket, banned, bans, reported>>
    PROVE  SupportInv'
<1>1. \A c \in calls' : Belongs(c)' /\ Owned(c)'
  BY DEF SupportInv, Belongs, Owned, Inside
<1>2. SupportTypeOK'
  BY DEF SupportInv, SupportTypeOK
<1> QED
  BY <1>1, <1>2, Quiet DEF SupportInv

\* A count below its bound can go up.
LEMMA OneMore == \A n, k : k \in Nat /\ n \in 0..k /\ n < k => n + 1 \in 0..k
OBVIOUS

\* A request that a button sends.
LEMMA CallSafe ==
    ASSUME SupportInv, NEW p \in People, NEW what \in Kinds, NEW t \in 0..MaxTickets,
           Call(p, what, t),
           what \in AboutTicket => t \in Tickets,
           what \in {"take", "accept", "deny"} => p \in Admins,
           what \in {"open", "appeal", "appeal reply"} => p = "user",
           UNCHANGED <<ticket, banned, bans, reported, crashes, page, appeal>>,
           form' \in FormPages
    PROVE  SupportInv'
<1> DEFINE c == [tab |-> 1, who |-> p, what |-> what, t |-> t, at |-> "sent"]
<1>1. c \in Calls /\ c.at = "sent" /\ c.what = what /\ c.who = p /\ c.t = t
  BY DEF Calls, Stages
<1>2. Belongs(c)
  BY <1>1 DEF Belongs
<1>3. calls' = calls \cup {c}
  BY DEF Call, Sends
<1>4. made' \in 0..MaxCalls
  <2>1. made \in 0..MaxCalls
    BY DEF SupportInv, SupportTypeOK
  <2>2. Sends(c)
    BY DEF Call
  <2>3. made < MaxCalls /\ made' = made + 1
    BY <2>2 DEF Sends
  <2>4. MaxCalls \in Nat
    BY SupportBounds
  <2> QED
    BY <2>1, <2>3, <2>4, OneMore, Zenon
<1>5. /\ crashes' \in 0..MaxBreaks /\ page' \in AllPages /\ appeal' \in AppealPages
  BY DEF SupportInv, SupportTypeOK
<1> HIDE DEF c
<1> QED
  BY <1>1, <1>2, <1>3, <1>4, <1>5, PageSafe

\* The buttons of a ticket, in the list or on its page.
LEMMA PressSafe ==
    ASSUME SupportInv, NEW p \in People, NEW what \in AboutTicket, NEW list \in BOOLEAN,
           Offers(p, list), Press(p, what),
           what \in {"take", "accept", "deny"} => p \in Admins
    PROVE  SupportInv'
<1>1. page[p].t \in 0..MaxTickets /\ page[p].t \in Tickets
  <2>1. page[p].t \in 0..MaxTickets /\ page[p].t # 0
    BY DEF SupportInv, SupportTypeOK, AllPages, Pages, Offers
  <2> QED
    BY <2>1, SupportBounds DEF Tickets
<1>2. /\ UNCHANGED <<ticket, banned, bans, reported, crashes, page, appeal>>
      /\ Call(p, what, page[p].t) /\ form' \in FormPages
  BY DEF Press, serverVars, pageVars, SupportInv, SupportTypeOK
<1>3. what \in Kinds /\ what \notin {"open", "appeal", "appeal reply"}
  BY DEF AboutTicket, Kinds, Closing
<1> QED
  BY <1>1, <1>2, <1>3, CallSafe

\* The desk: a ticket that is looked at, and the buttons it offers.
LEMMA DeskSafe ==
    ASSUME SupportInv, NEW p \in People,
           \/ TakeHere(p) \/ TakeInList(p) \/ CloseHere(p) \/ CloseInList(p) \/ SendReply(p)
           \/ \E what \in {"accept", "deny"} : Resolve(p, what)
           \/ UserCloses \/ UserReplies
    PROVE  SupportInv'
<1>1. "user" \in People /\ (p # "user" => p \in Admins)
  BY DEF People
<1>2. CASE TakeHere(p) \/ TakeInList(p)
  BY <1>1, <1>2, PressSafe DEF TakeHere, TakeInList, AboutTicket
<1>3. CASE CloseHere(p) \/ CloseInList(p)
  BY <1>1, <1>3, PressSafe DEF CloseHere, CloseInList, Mine, AboutTicket, Closing
<1>4. CASE SendReply(p)
  BY <1>1, <1>4, PressSafe DEF SendReply, Mine, AboutTicket
<1>5. ASSUME NEW what \in {"accept", "deny"}, Resolve(p, what)
      PROVE  SupportInv'
  BY <1>1, <1>5, PressSafe DEF Resolve, Mine, AboutTicket, Closing
<1>6. CASE UserCloses \/ UserReplies
  BY <1>1, <1>6, PressSafe DEF UserCloses, UserReplies, AboutTicket, Closing
<1> QED
  BY <1>2, <1>3, <1>4, <1>5, <1>6

\* Looking at tickets, attachments, and the answers to the buttons.
LEMMA LooksSafe ==
    ASSUME SupportInv, NEW p \in People,
           \/ \E t \in Tickets, list \in BOOLEAN : AdminOpens(p, t, list)
           \/ PollPage(p) \/ Attach(p) \/ DropMedia(p)
           \/ \E ok \in BOOLEAN : Uploaded(p, ok)
           \/ \E t \in Tickets : UserOpens(t)
           \/ \E c \in calls : PressAnswered(c)
    PROVE  SupportInv'
<1>1. /\ page \in AllPages /\ ticket \in AllTickets /\ calls \subseteq Calls
      /\ made \in 0..MaxCalls /\ crashes \in 0..MaxBreaks
      /\ appeal \in AppealPages /\ form \in FormPages
  BY DEF SupportInv, SupportTypeOK
<1>2. UNCHANGED <<ticket, banned, bans, reported, crashes, appeal, form>>
  BY DEF AdminOpens, PollPage, Attach, DropMedia, Uploaded, UserOpens, PressAnswered, serverVars
<1>3. \A c \in calls' : c \in calls
  BY DEF AdminOpens, PollPage, Attach, DropMedia, Uploaded, UserOpens, PressAnswered
<1>4. made' \in 0..MaxCalls
  <2>1. made' = made \/ (made < MaxCalls /\ made' = made + 1)
    BY DEF AdminOpens, PollPage, Attach, DropMedia, Uploaded, UserOpens, PressAnswered
  <2> QED
    BY <1>1, <2>1, SupportBounds
<1>5. ASSUME NEW q \in People, NEW t \in Tickets, NEW list \in BOOLEAN, Shows(q, t, list)
      PROVE  page' \in AllPages
  <2> DEFINE d == [page[q] EXCEPT !.t = t, !.list = list, !.at = ticket[t].at,
                                  !.by = IF q = "user" THEN Nobody ELSE ticket[t].by]
  <2>1. t \in 0..MaxTickets
    BY SupportBounds DEF Tickets
  <2>2. ticket[t].at \in Statuses /\ ticket[t].by \in Admins \cup {Nobody}
    BY <1>1 DEF AllTickets, TicketRecords
  <2>3. d \in Pages
    BY <1>1, <2>1, <2>2 DEF AllPages, Pages
  <2>4. page' = [page EXCEPT ![q] = d]
    BY <1>5 DEF Shows
  <2> QED
    BY <1>1, <2>3, <2>4 DEF AllPages
<1>6. ASSUME NEW q \in People, NEW m \in {"none", "loading", "there"},
             page' = [page EXCEPT ![q].media = m]
      PROVE  page' \in AllPages
  <2> DEFINE d == [page[q] EXCEPT !.media = m]
  <2>1. d \in Pages
    BY <1>1 DEF AllPages, Pages
  <2> QED
    BY <1>1, <1>6, <2>1 DEF AllPages
<1>7. page' \in AllPages
  <2>1. CASE \E t \in Tickets, list \in BOOLEAN : AdminOpens(p, t, list)
    BY <1>5, <2>1 DEF AdminOpens
  <2>2. CASE \E t \in Tickets : UserOpens(t)
    BY <1>5, <2>2 DEF UserOpens, People
  <2>3. CASE PollPage(p)
    <3>1. page[p].t \in 0..MaxTickets /\ page[p].t # 0 /\ page[p].list \in BOOLEAN
      BY <1>1, <2>3 DEF PollPage, AllPages, Pages
    <3>2. page[p].t \in Tickets
      BY <3>1, SupportBounds DEF Tickets
    <3> QED
      BY <1>5, <2>3, <3>1, <3>2 DEF PollPage
  <2>4. CASE Attach(p) \/ DropMedia(p)
    BY <1>6, <2>4 DEF Attach, DropMedia
  <2>5. ASSUME NEW ok \in BOOLEAN, Uploaded(p, ok)
        PROVE  page' \in AllPages
    BY <1>6, <2>5 DEF Uploaded
  <2>6. ASSUME NEW c \in calls, PressAnswered(c)
        PROVE  page' \in AllPages
    <3>1. c.who \in People
      BY <1>1 DEF Calls
    <3> QED
      BY <1>1, <1>6, <2>6, <3>1 DEF PressAnswered
  <2> QED
    BY <2>1, <2>2, <2>3, <2>4, <2>5, <2>6
<1> QED
  BY <1>1, <1>2, <1>3, <1>4, <1>7, PageSafe

\* The page of a banned user.
LEMMA AppealPageSafe ==
    ASSUME SupportInv,
           \/ TypePassword \/ AskStatus \/ PollStatus \/ SignOut
           \/ SubmitAppeal \/ AppealElsewhere \/ ReplyToAppeal \/ OpenAppealPage
           \/ \E how \in {"loud", "silent"} : StatusArrives(how) \/ StatusFails(how)
           \/ \E c \in calls : AppealAnswered(c)
    PROVE  SupportInv'
<1>1. /\ page \in AllPages /\ made \in 0..MaxCalls /\ crashes \in 0..MaxBreaks
      /\ appeal \in AppealPages /\ form \in FormPages
      /\ "user" \in People /\ 0 \in 0..MaxTickets /\ Tickets \subseteq 0..MaxTickets
  BY SupportBounds DEF SupportInv, SupportTypeOK, People, Tickets
<1>2. CASE SubmitAppeal \/ ReplyToAppeal
  <2>1. UNCHANGED <<ticket, banned, bans, reported, crashes, page, appeal>> /\ form' = form
    BY <1>2 DEF SubmitAppeal, ReplyToAppeal, serverVars, pageVars
  <2>2. \E what \in {"appeal", "appeal reply"} : Call("user", what, 0)
    BY <1>2 DEF SubmitAppeal, ReplyToAppeal
  <2>3. /\ {"appeal", "appeal reply"} \subseteq Kinds
        /\ {"appeal", "appeal reply"} \cap (AboutTicket \cup {"take", "accept", "deny"}) = {}
    BY DEF Kinds, AboutTicket, Closing
  <2> QED
    BY <1>1, <2>1, <2>2, <2>3, CallSafe
<1>3. CASE AppealElsewhere
  <2> DEFINE c == [tab |-> 2, who |-> "user", what |-> "appeal", t |-> 0, at |-> "sent"]
  <2>1. c \in Calls /\ c.at = "sent" /\ c.what = "appeal" /\ c.who = "user"
    BY <1>1 DEF Calls, Stages, Kinds
  <2>2. Belongs(c)
    BY <2>1 DEF Belongs, AboutTicket, Closing
  <2>3. /\ UNCHANGED <<ticket, banned, bans, reported, crashes, page, appeal, form>>
        /\ calls' = calls \cup {c}
    BY <1>3 DEF AppealElsewhere, Sends, serverVars, pageVars
  <2>4. made' \in 0..MaxCalls
    BY <1>1, <1>3, SupportBounds DEF AppealElsewhere, Sends
  <2> HIDE DEF c
  <2> QED
    BY <1>1, <2>1, <2>2, <2>3, <2>4, PageSafe
<1>4. CASE ~SubmitAppeal /\ ~ReplyToAppeal /\ ~AppealElsewhere
  <2>1. UNCHANGED <<ticket, banned, bans, reported, page, form, made>> /\ calls' \subseteq calls
    BY <1>4 DEF TypePassword, AskStatus, PollStatus, SignOut, OpenAppealPage, StatusArrives,
       StatusFails, AppealAnswered, Asks, NotAppeal, serverVars
  <2>2. crashes' \in 0..MaxBreaks
    <3>1. CASE \E how \in {"loud", "silent"} : StatusFails(how)
      BY <1>1, <3>1, SupportBounds DEF StatusFails
    <3>2. CASE ~\E how \in {"loud", "silent"} : StatusFails(how)
      BY <1>1, <1>4, <3>2 DEF TypePassword, AskStatus, PollStatus, SignOut, OpenAppealPage,
         StatusArrives, AppealAnswered, Asks, NotAppeal, serverVars
    <3> QED
      BY <3>1, <3>2
  <2>3. appeal' \in AppealPages
    <3>1. CASE TypePassword \/ SignOut \/ OpenAppealPage
      BY <1>1, <3>1 DEF TypePassword, SignOut, OpenAppealPage, AppealPages
    <3>2. CASE AskStatus \/ PollStatus
      BY <1>1, <3>2 DEF AskStatus, PollStatus, Asks, AppealPages
    <3>3. ASSUME NEW how \in {"loud", "silent"}, StatusArrives(how)
          PROVE  appeal' \in AppealPages
      BY <1>1, <3>3 DEF StatusArrives, AppealPages
    <3>4. ASSUME NEW how \in {"loud", "silent"}, StatusFails(how)
          PROVE  appeal' \in AppealPages
      BY <1>1, <3>4 DEF StatusFails, AppealPages
    <3>5. ASSUME NEW c \in calls, AppealAnswered(c)
          PROVE  appeal' \in AppealPages
      <4>1. CASE c.at = "failed" \/ c.tab = 2
        BY <1>1, <3>5, <4>1 DEF AppealAnswered
      <4>2. CASE ~(c.at = "failed" \/ c.tab = 2)
        <5> DEFINE a == [appeal EXCEPT !.filed = @ \/ c.what = "appeal", !.asks = @ \cup {"silent"}]
        <5>1. appeal' = a
          BY <3>5, <4>2 DEF AppealAnswered
        <5>2. a \in AppealPages
          BY <1>1 DEF AppealPages
        <5> QED
          BY <5>1, <5>2
      <4> QED
        BY <4>1, <4>2
    <3> QED
      BY <1>4, <3>1, <3>2, <3>3, <3>4, <3>5
  <2> QED
    BY <1>1, <2>1, <2>2, <2>3, PageSafe
<1> QED
  BY <1>2, <1>3, <1>4

\* The form for tickets and reports.
LEMMA FormSafe ==
    ASSUME SupportInv,
           \/ SubmitBug \/ SubmitTicket \/ SubmitProfile \/ SubmitDialog \/ SubmitAnother
           \/ \E type \in Forms : ChooseForm(type)
           \/ \E c \in calls : FormAnswered(c)
    PROVE  SupportInv'
<1>1. /\ page \in AllPages /\ made \in 0..MaxCalls /\ crashes \in 0..MaxBreaks
      /\ appeal \in AppealPages /\ form \in FormPages
      /\ "user" \in People /\ 0 \in 0..MaxTickets
  BY SupportBounds DEF SupportInv, SupportTypeOK, People
<1>2. ASSUME NEW type, NEW what \in {"open", "bug", "report"}, Sent(type, what)
      PROVE  SupportInv'
  <2>1. UNCHANGED <<ticket, banned, bans, reported, crashes, page, appeal>>
    BY <1>2 DEF Sent, NotForm, serverVars
  <2>2. form' \in FormPages /\ Call("user", what, 0)
    BY <1>1, <1>2 DEF Sent, FormPages
  <2>3. what \in Kinds /\ what \notin AboutTicket \cup {"take", "accept", "deny"}
    BY DEF Kinds, AboutTicket, Closing
  <2> QED
    BY <1>1, <2>1, <2>2, <2>3, CallSafe
<1>3. CASE SubmitBug \/ SubmitTicket \/ SubmitProfile \/ SubmitDialog
  BY <1>2, <1>3 DEF SubmitBug, SubmitTicket, SubmitProfile, SubmitDialog
<1>4. CASE SubmitAnother \/ (\E type \in Forms : ChooseForm(type)) \/ \E c \in calls : FormAnswered(c)
  <2>1. /\ UNCHANGED <<ticket, banned, bans, reported, crashes, page, appeal, made>>
        /\ calls' \subseteq calls
    BY <1>4 DEF SubmitAnother, ChooseForm, FormAnswered, NotForm, serverVars
  <2>2. CASE SubmitAnother
    BY <1>1, <2>1, <2>2, PageSafe DEF SubmitAnother, FormPages, Forms
  <2>3. ASSUME NEW type \in Forms, ChooseForm(type)
        PROVE  SupportInv'
    BY <1>1, <2>1, <2>3, PageSafe DEF ChooseForm, FormPages
  <2>4. ASSUME NEW c \in calls, FormAnswered(c)
        PROVE  SupportInv'
    <3>1. form' \in FormPages
      BY <1>1, <2>4 DEF FormAnswered, FormPages, Forms
    <3> QED
      BY <1>1, <2>1, <3>1, PageSafe
  <2> QED
    BY <1>4, <2>2, <2>3, <2>4
<1> QED
  BY <1>3, <1>4

-----------------------------------------------------------------------------

\* No step of the three scenes breaks the invariant.
LEMMA SupportStep ==
    SupportInv /\ [DeskNext \/ AppealNext \/ FormNext]_SupportVars => SupportInv'
<1>1. ASSUME SupportInv, [DeskNext \/ AppealNext \/ FormNext]_SupportVars
      PROVE  SupportInv'
  <2>1. CASE ServerNext
    BY <1>1, <2>1, ReadsSafe, WritesSafe, OpensSafe, BansSafe DEF ServerNext
  <2>2. CASE DeskNext
    <3>1. ASSUME NEW p \in People,
                 \/ TakeHere(p) \/ TakeInList(p) \/ CloseHere(p) \/ CloseInList(p) \/ SendReply(p)
                 \/ \E what \in {"accept", "deny"} : Resolve(p, what)
          PROVE  SupportInv'
      BY <1>1, <3>1, DeskSafe
    <3>2. ASSUME NEW p \in People,
                 \/ \E t \in Tickets, list \in BOOLEAN : AdminOpens(p, t, list)
                 \/ PollPage(p) \/ Attach(p) \/ DropMedia(p)
                 \/ \E ok \in BOOLEAN : Uploaded(p, ok)
          PROVE  SupportInv'
      BY <1>1, <3>2, LooksSafe
    <3>3. CASE \/ UserCloses \/ UserReplies \/ \E t \in Tickets : UserOpens(t)
               \/ \E c \in calls : PressAnswered(c)
      BY <1>1, <3>3, DeskSafe, LooksSafe DEF People
    <3> QED
      BY <2>1, <2>2, <3>1, <3>2, <3>3 DEF DeskNext
  <2>3. CASE AppealNext
    <3>1. CASE (\E p \in Admins : CloseInList(p)) \/ \E c \in calls : PressAnswered(c)
      BY <1>1, <3>1, DeskSafe, LooksSafe DEF People
    <3> QED
      BY <1>1, <2>1, <2>3, <3>1, AppealPageSafe DEF AppealNext
  <2>4. CASE FormNext
    BY <1>1, <2>1, <2>4, FormSafe DEF FormNext
  <2>5. CASE UNCHANGED SupportVars
    BY <1>1, <2>5, PageSafe DEF SupportVars, SupportInv, SupportTypeOK
  <2> QED
    BY <1>1, <2>2, <2>3, <2>4, <2>5
<1> QED
  BY <1>1

\* The invariant is inductive, in all three scenes together.
THEOREM SupportInvariant == SupportSpec => []SupportInv
  BY SupportStarts, SupportStep, PTL DEF SupportSpec

\* However many administrators press Take and answer on whatever their pages show, only
\* the one who took a ticket has written in it.
THEOREM TicketHasOneReviewer == SupportSpec => []OneReviewer
<1>1. SupportInv => OneReviewer
  BY DEF SupportInv, TicketFacts, OneReviewer
<1> QED
  BY <1>1, SupportInvariant, PTL

\* Wherever a resolution is cut short, and whatever is banned and lifted meanwhile, an
\* appeal is only deleted when the ban it was about is over.
THEOREM NoAppealLost == SupportSpec => []AppealsGranted
<1>1. SupportInv => AppealsGranted
  BY DEF SupportInv, TicketFacts, AppealsGranted
<1> QED
  BY <1>1, SupportInvariant, PTL

-----------------------------------------------------------------------------
(* The scenes that are checked together (MCModeration).                     *)

\* A scene may start when a ticket has been opened, in or after a ban.
LEMMA OpenedFits ==
    ASSUME NEW isAppeal \in BOOLEAN, bans \in 1..MaxBans, ticket = Opened(isAppeal)
    PROVE  ticket \in AllTickets /\ \A t \in Tickets : TicketFacts(t)
<1>1. /\ NoTicket \in TicketRecords /\ "user" \in People
      /\ NoTicket.at = "none" /\ NoTicket.by = Nobody /\ NoTicket.voices = {}
      /\ NoTicket.about = 0
  BY SupportBounds DEF NoTicket, TicketRecords, Statuses, People
<1>2. /\ bans \in Nat /\ bans >= 1 /\ 0 \in 0..MaxBans /\ 1 \in 0..MaxBans
  BY SupportBounds
<1>3. ASSUME NEW t \in Tickets
      PROVE  ticket[t] \in TicketRecords /\ TicketFacts(t)
  <2>1. CASE ticket[t] = NoTicket
    BY <1>1, <1>2, <2>1 DEF TicketFacts
  <2>2. CASE ticket[t] = [NoTicket EXCEPT !.at = "open", !.voices = {"user"},
                                          !.appeal = isAppeal,
                                          !.about = IF isAppeal THEN 1 ELSE 0]
    <3>1. /\ ticket[t].at = "open" /\ ticket[t].by = Nobody
          /\ ticket[t].voices = {"user"} /\ ticket[t].about \in {0, 1}
      BY <2>2 DEF NoTicket
    <3>2. ticket[t] \in TicketRecords
      BY <1>1, <1>2, <2>2 DEF TicketRecords, Statuses, NoTicket
    <3>3. TicketFacts(t)
      BY <1>2, <3>1, SupportBounds DEF TicketFacts
    <3> QED
      BY <3>2, <3>3
  <2> QED
    BY <2>1, <2>2 DEF Opened
<1>4. ticket = [t \in Tickets |-> ticket[t]]
  BY DEF Opened
<1> QED
  BY <1>3, <1>4 DEF AllTickets

\* Every scene starts within the invariant.
LEMMA ScenesStart == MCInit => SupportInv
<1>1. CASE SupportInit
  BY <1>1, SupportStarts
<1>2. ASSUME DeskStart \/ AppealStart, Started PROVE SupportInv
  <2>1. NoPage \in Pages
    BY SupportBounds DEF NoPage, Pages, Statuses
  <2>2. 1 \in 0..MaxTickets /\ MaxBans \in 1..MaxBans /\ 1 \in 1..MaxBans
    BY SupportBounds, SomeBan
  <2>3. page \in AllPages
    <3>1. ASSUME NEW q \in Admins,
                 page = [p \in People |-> IF p = q THEN [NoPage EXCEPT !.t = 1, !.list = FALSE,
                                                                      !.at = "open"]
                                         ELSE NoPage]
          PROVE  page \in AllPages
      BY <2>1, <2>2, <3>1 DEF AllPages, Pages, NoPage, Statuses
    <3>2. ASSUME NEW q \in Admins,
                 page = [p \in People |-> IF p = q THEN [NoPage EXCEPT !.t = 1, !.at = "open"]
                                         ELSE NoPage]
          PROVE  page \in AllPages
      BY <2>1, <2>2, <3>2 DEF AllPages, Pages, NoPage, Statuses
    <3>3. CASE page = [p \in People |-> NoPage]
      BY <2>1, <3>3 DEF AllPages
    <3> QED
      BY <1>2, <3>1, <3>2, <3>3 DEF DeskStart, AppealStart
  <2>4. /\ ticket \in AllTickets /\ (\A t \in Tickets : TicketFacts(t))
        /\ bans \in 1..MaxBans /\ banned \in BOOLEAN
    <3>1. bans \in 1..MaxBans /\ banned \in BOOLEAN
      BY <1>2, <2>2 DEF DeskStart, AppealStart
    <3>2. CASE ticket = Opened(FALSE) \/ ticket = Opened(TRUE)
      BY <3>1, <3>2, OpenedFits
    <3>3. CASE ticket = [t \in Tickets |-> NoTicket]
      <4>1. /\ NoTicket \in TicketRecords
            /\ NoTicket.at = "none" /\ NoTicket.by = Nobody /\ NoTicket.voices = {}
            /\ NoTicket.about = 0
        BY SupportBounds DEF NoTicket, TicketRecords, Statuses
      <4>2. 0 <= bans
        BY <3>1, SupportBounds
      <4> QED
        BY <3>1, <3>3, <4>1, <4>2 DEF AllTickets, TicketFacts
    <3> QED
      BY <1>2, <3>1, <3>2, <3>3 DEF DeskStart, AppealStart
  <2>5. /\ appeal \in AppealPages /\ form \in FormPages /\ calls = {}
        /\ made \in 0..MaxCalls /\ crashes \in 0..MaxBreaks /\ reported \in BOOLEAN
    <3>1. 0 \in 0..MaxTickets /\ 0 \in 0..MaxCalls /\ 0 \in 0..MaxBreaks
      BY SupportBounds
    <3>2. appeal \in AppealPages /\ form \in FormPages
      BY <1>2, <3>1 DEF Started, AppealPages, FormPages, Forms
    <3> QED
      BY <1>2, <3>1, <3>2 DEF Started
  <2>6. bans \in 0..MaxBans
    BY <2>4, SupportBounds
  <2> QED
    BY <2>3, <2>4, <2>5, <2>6 DEF SupportInv, SupportTypeOK
<1> QED
  BY <1>1, <1>2 DEF MCInit

\* Whichever part a behaviour is of, all keep their invariants.
THEOREM ScenesInvariant == MCSpec => [](PrivacyInv /\ SupportInv)
<1>1. MCInit => PrivacyInv /\ SupportInv
  BY PrivacyStarts, ScenesStart DEF MCInit
<1>2. ASSUME PrivacyInv, SupportInv, [MCNext]_<<vars, SupportVars, part>>
      PROVE  PrivacyInv' /\ SupportInv'
  <2>1. [Next]_vars /\ [DeskNext \/ AppealNext \/ FormNext]_SupportVars
    BY <1>2 DEF MCNext
  <2> QED
    BY <1>2, <2>1, PrivacyStep, SupportStep
<1> QED
  BY <1>1, <1>2, PTL DEF MCSpec

\* Diaries, tickets, requests and pages keep to their types (diary_service.py,
\* ticket_service.py), for any number of each.
THEOREM ScenesTypes == MCSpec => []MCTypeOK
<1>1. PrivacyInv /\ SupportInv => MCTypeOK
  BY DEF PrivacyInv, SupportInv, MCTypeOK
<1> QED
  BY <1>1, ScenesInvariant, PTL

=============================================================================
