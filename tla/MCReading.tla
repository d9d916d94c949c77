----------------------------- MODULE MCReading -----------------------------
(* Instances of Browsing, Reading and Account for TLC.  Their parts keep no *)
(* state in common; one of them is picked, and only it moves.  Of the forms *)
(* of Account two are used at a time, which need not be of one page.        *)
EXTENDS Browsing, Reading, Account

VARIABLE part

Uses ==
    [form1 |-> {"login", "profile"}, form2 |-> {"register", "picture"},
     form3 |-> {"profile", "badge"}, form4 |-> {"preferences", "switches"},
     form5 |-> {"email", "resend"}, form6 |-> {"password", "picture"},
     form7 |-> {"profile", "email"}, form8 |-> {"reset", "forgot"},
     form9 |-> {"verify", "login"}]

Init ==
    /\ part \in {"list", "explore", "notes", "page", "button", "comments"} \cup DOMAIN Uses
    /\ BrowsingInit /\ ReadingInit /\ AccountInit
    /\ part # "list" => made = 0
    /\ part # "page" => owner /\ lostKey /\ cached /\ diary.private
    /\ part # "button" => kind = "like"
    /\ page = "home" /\ session

FormsNext ==
    /\ AccountNext
    /\ \A f \in Forms \ Uses[part] : req'[f] = NoRequest
    /\ "picture" \in Uses[part] \/ crop' = "closed"
    /\ page' \in {"home", "login", "settings"} \cup Uses[part]

Next ==
    /\ UNCHANGED part
    /\ \/ part = "list" /\ ListNext /\ UNCHANGED <<ReadingVars, AccountVars>>
       \/ part = "explore" /\ ExploreNext /\ UNCHANGED <<ReadingVars, AccountVars>>
       \/ part = "notes" /\ NoteNext /\ UNCHANGED <<ReadingVars, AccountVars>>
       \/ part = "page" /\ PageNext /\ UNCHANGED <<BrowsingVars, AccountVars>>
       \/ part = "button" /\ ButtonNext /\ UNCHANGED <<BrowsingVars, AccountVars>>
       \/ part = "comments" /\ CommentNext /\ UNCHANGED <<BrowsingVars, AccountVars>>
       \/ part \in DOMAIN Uses /\ FormsNext /\ UNCHANGED <<BrowsingVars, ReadingVars>>

Spec ==
    /\ Init /\ [][Next]_<<part, BrowsingVars, ReadingVars, AccountVars>>
    /\ part = "notes" => NoteFairness
    /\ AccountFairness    \* without requests it asks for nothing

TypeOK == BrowsingTypeOK /\ ReadingTypeOK /\ AccountTypeOK

=============================================================================
