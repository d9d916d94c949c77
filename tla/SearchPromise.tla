--------------------------- MODULE SearchPromise ---------------------------
(***************************************************************************)
(* What the search index promises its readers, without workers, queues,    *)
(* leases or retries: the index holds a copy of each public diary, the     *)
(* copy may lag behind the diary while the diary is "dirty", and it may    *)
(* only be declared clean again when it is absent or up to date.  A clean  *)
(* entry is never rewritten with anything else; it may be taken out (the   *)
(* author was banned).                                                     *)
(***************************************************************************)
CONSTANTS
    Diaries,    \* the diaries
    Contents,   \* what a public diary may say
    None        \* "not public" in the database, "not found" in the index

VARIABLES
    source,     \* source[d]: the public content of d in MongoDB, or None
    copy,       \* copy[d]: the content of d in the index, or None
    dirty       \* the diaries whose copy may lag behind

promiseVars == <<source, copy, dirty>>

Values == Contents \cup {None}

PromiseInit ==
    /\ source \in [Diaries -> Values]
    /\ copy = source
    /\ dirty = {}

\* The owner or a moderator changes a diary: its copy may now be stale.
Change(d) ==
    /\ \E v \in Values : source' = [source EXCEPT ![d] = v]
    /\ dirty' = dirty \cup {d}
    /\ UNCHANGED copy

\* Synchronisation is asked for again, or is still under way.
Mark(d) ==
    /\ dirty' = dirty \cup {d}
    /\ UNCHANGED <<source, copy>>

\* While d is dirty the index may be written with what d says or once said.
Write(d) ==
    /\ d \in dirty
    /\ \E v \in Values : copy' = [copy EXCEPT ![d] = v]
    /\ UNCHANGED <<source, dirty>>

\* An entry may always be taken out of the index.
TakeOut(d) ==
    /\ copy' = [copy EXCEPT ![d] = None]
    /\ UNCHANGED <<source, dirty>>

\* The promise: d is declared clean only when its copy is absent or current.
Settle(d) ==
    /\ copy[d] \in {None, source[d]}
    /\ dirty' = dirty \ {d}
    /\ UNCHANGED <<source, copy>>

PromiseNext ==
    \E d \in Diaries :
        Change(d) \/ Mark(d) \/ Write(d) \/ TakeOut(d) \/ Settle(d)

PromiseSpec == PromiseInit /\ [][PromiseNext]_promiseVars

=============================================================================
