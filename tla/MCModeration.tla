---------------------------- MODULE MCModeration ----------------------------
(* Instances of DiaryPrivacy and Support for TLC: the parts do not interact, *)
(* and each behaviour is one of a single part.                               *)
EXTENDS DiaryPrivacy, Support, TLC

\* Two of the scenes start when the user has been banned.
ASSUME SomeBan == MaxBans # 0

VARIABLE part

Parts == {"diaries", "desk", "appeal", "form"}

\* A ticket opened by the user and read by an administrator, an ordinary one or the
\* appeal against a ban.
Opened(isAppeal) ==
    [t \in Tickets |->
       IF t > 1 THEN NoTicket
       ELSE [NoTicket EXCEPT !.at = "open", !.voices = {"user"}, !.appeal = isAppeal,
                             !.about = IF isAppeal THEN 1 ELSE 0]]

DeskStart ==
    /\ part = "desk"
    /\ \/ ticket = Opened(FALSE) /\ banned = FALSE /\ bans = MaxBans
       \/ ticket = Opened(TRUE) /\ banned = TRUE /\ bans = 1
    /\ \E q \in Admins :
         page = [p \in People |-> IF p = q THEN [NoPage EXCEPT !.t = 1, !.list = FALSE,
                                                               !.at = "open"]
                                  ELSE NoPage]

AppealStart ==
    /\ part = "appeal"
    /\ banned = TRUE /\ bans = 1
    /\ \/ /\ ticket = [t \in Tickets |-> NoTicket]
          /\ page = [p \in People |-> NoPage]
       \/ /\ ticket = Opened(TRUE)
          /\ \E q \in Admins :
               page = [p \in People |-> IF p = q THEN [NoPage EXCEPT !.t = 1, !.at = "open"]
                                        ELSE NoPage]

Started ==
    /\ reported = FALSE /\ calls = {} /\ made = 0 /\ crashes = 0
    /\ appeal = [signed |-> FALSE, thread |-> 0, asks |-> {}, filed |-> FALSE]
    /\ form = [type |-> "none", sending |-> FALSE, done |-> FALSE]

MCInit ==
    /\ part \in Parts
    /\ Init
    /\ \/ part \in {"diaries", "form"} /\ SupportInit
       \/ (DeskStart \/ AppealStart) /\ Started

MCNext ==
    /\ UNCHANGED part
    /\ \/ part = "diaries" /\ Next /\ UNCHANGED SupportVars
       \/ part = "desk" /\ DeskNext /\ UNCHANGED vars
       \/ part = "appeal" /\ AppealNext /\ UNCHANGED vars
       \/ part = "form" /\ FormNext /\ UNCHANGED vars

MCSpec == MCInit /\ [][MCNext]_<<vars, SupportVars, part>>

\* The other parts stay as they were at the start.
MCTypeOK == IF part = "diaries" THEN TypeOK ELSE SupportTypeOK

\* Two of each kind, and no part has two kinds: either all change places or none does.
Alike == {Requests, Admins}
MCSymmetry ==
    {p \in Permutations(UNION Alike) :
        /\ \A S \in Alike : \A x \in S : p[x] \in S
        /\ (\E x \in UNION Alike : p[x] = x) => \A x \in UNION Alike : p[x] = x}

=============================================================================
