--------------------------- MODULE MCSearchOutbox ---------------------------
(* Small instances of SearchOutbox: the author of every diary, and the     *)
(* bounds on the outside events.                                           *)
EXTENDS SearchOutbox, TLC

CONSTANTS d1, d2, a1, a2

OneAuthor == [d \in Diaries |-> a1]

\* One worker, every kind of outside event.
SingleLimit ==
    [edit |-> 2, ban |-> 2, lost |-> 1, outage |-> 1, fault |-> 2, crash |-> 1]

=============================================================================
