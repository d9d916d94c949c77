---------------------------- MODULE EditorTools ----------------------------
(* What stands beside the text in the editor: the chapters of the document  *)
(* (lib/editor/chapters.ts, chapter-manager.tsx), the media gallery, the    *)
(* tag input, and the one confirmation dialog they share.                   *)
(*                                                                          *)
(* The document is a sequence of blocks; a chapter runs from an H1 heading  *)
(* up to the next one.  Positions are block positions.                      *)
EXTENDS Integers, Sequences, FiniteSets

CONSTANTS
    MaxBlocks,     \* bound: blocks ever made
    MaxQuestions,  \* bound: confirmations ever asked
    MaxQueries,    \* bound: tag searches ever sent
    MaxTags        \* the tag limit (50 in the page)

ASSUME ToolsBounds ==
    MaxBlocks \in Nat /\ MaxQuestions \in Nat /\ MaxQueries \in Nat /\ MaxTags \in Nat

VARIABLES
    doc,        \* the blocks: [h |-> is an H1, id]
    media,      \* the files of the gallery
    blocks,     \* blocks made so far
    active,     \* the question on the screen (0: none)
    questions,  \* every confirmDialog call: what for, and whether it waits for the user,
                \* has been granted, or is over (refused, or acted on)
    input, tags,         \* the tag input and the chosen tags
    suggested, highlight,    \* the list under the input, and its marked entry
    queries     \* the tag searches: what was typed, and whether they are answered

docVars == <<doc, media, blocks>>
dialogVars == <<active, questions>>
tagVars == <<input, tags, suggested, highlight, queries>>
ToolsVars == <<docVars, dialogVars, tagVars>>

Blocks == [h : BOOLEAN, id : 1..MaxBlocks]
Names == {"a", "ab"}
Blank == ""
Inputs == Names \cup {Blank}
\* What the search finds for an input.
Found(q) == IF q = Blank THEN <<>> ELSE IF q = "a" THEN <<"a", "ab">> ELSE <<"ab">>
Files == {1}

ToolsTypeOK ==
    /\ doc \in Seq(Blocks) /\ media \subseteq Files /\ blocks \in 0..MaxBlocks
    /\ active \in 0..Len(questions)
    /\ \A q \in DOMAIN questions :
        questions[q] \in [on : {"chapter", "media"}, index : Nat,
                          at : {"waiting", "yes", "over"}]
    /\ input \in Inputs /\ tags \subseteq Names
    /\ highlight \in -1..2
    /\ \A q \in DOMAIN queries : queries[q] \in [for : Inputs, open : BOOLEAN]

ToolsInit ==
    /\ doc = <<>> /\ media = Files /\ blocks = 0
    /\ active = 0 /\ questions = <<>>
    /\ input = Blank /\ tags = {} /\ suggested = <<>> /\ highlight = -1 /\ queries = <<>>

-----------------------------------------------------------------------------
(* Chapters.                                                                *)

\* getChapters: the k-th chapter starts at Starts(d)[k], the k-th heading, and ends before
\* EndOf(d, k).
Heads(d) == {i \in DOMAIN d : d[i].h}
Ascending(s) == \A i, j \in DOMAIN s : i < j => s[i] < s[j]
Starts(d) == CHOOSE s \in [1..Cardinality(Heads(d)) -> Heads(d)] : Ascending(s)
EndOf(d, k) == IF k < Len(Starts(d)) THEN Starts(d)[k + 1] ELSE Len(d) + 1
Chapters(d) == DOMAIN Starts(d)

Cut(d, from, to) == SubSeq(d, 1, from - 1) \o SubSeq(d, to, Len(d))
Insert(d, at, part) == SubSeq(d, 1, at - 1) \o part \o SubSeq(d, at, Len(d))
Slice(d, k) == SubSeq(d, Starts(d)[k], EndOf(d, k) - 1)

WriteBlock(h) ==
    /\ blocks < MaxBlocks
    /\ blocks' = blocks + 1
    /\ doc' = Append(doc, [h |-> h, id |-> blocks + 1])
    /\ UNCHANGED <<media, dialogVars, tagVars>>

\* The H1 button of the toolbar.
ToggleHeading(i) ==
    /\ doc' = [doc EXCEPT ![i].h = ~@]
    /\ UNCHANGED <<media, blocks, dialogVars, tagVars>>

\* A heading and an empty paragraph, at the end.
AddChapter ==
    /\ blocks + 2 <= MaxBlocks
    /\ blocks' = blocks + 2
    /\ doc' = doc \o <<[h |-> TRUE, id |-> blocks + 1], [h |-> FALSE, id |-> blocks + 2]>>
    /\ UNCHANGED <<media, dialogVars, tagVars>>

\* Mutant: downwards, the end of the neighbour is taken from before the cut.
PlaceStale(k, dir) ==
    LET from == Starts(doc)[k]
        rest == Cut(doc, from, EndOf(doc, k))
    IN  Insert(rest, IF dir = -1 THEN Starts(doc)[k - 1]
                     ELSE IF EndOf(doc, k + 1) <= Len(rest) + 1 THEN EndOf(doc, k + 1)
                     ELSE Len(rest) + 1,
               Slice(doc, k))

\* The chapter is cut out and inserted at a position of the document before the cut,
\* less its own size when it moves down.
Place(k, dir) ==
    LET from == Starts(doc)[k]
        size == EndOf(doc, k) - from
        rest == Cut(doc, from, EndOf(doc, k))
    IN  Insert(rest, IF dir = -1 THEN Starts(doc)[k - 1] ELSE EndOf(doc, k + 1) - size,
               Slice(doc, k))

MoveChapter(k, dir) ==
    /\ k \in Chapters(doc) /\ k + dir \in Chapters(doc)
    /\ doc' = Place(k, dir)
    /\ UNCHANGED <<media, blocks, dialogVars, tagVars>>

RemoveChapter(k) ==
    doc' = IF k \in Chapters(doc) THEN Cut(doc, Starts(doc)[k], EndOf(doc, k)) ELSE doc

\* The only chapter goes without a question.
DeleteOnly ==
    /\ Chapters(doc) = {1}
    /\ RemoveChapter(1)
    /\ UNCHANGED <<media, blocks, dialogVars, tagVars>>

-----------------------------------------------------------------------------
(* The confirmation dialog.                                                 *)

\* Mutant: the call that was on the screen is forgotten.
Keep(qs) == qs

\* A new call while one is open resolves the previous one as false.
Refuse(qs) == IF active = 0 THEN qs ELSE [qs EXCEPT ![active].at = "over"]

Ask(kind, k) ==
    /\ Len(questions) < MaxQuestions
    /\ questions' = Append(Refuse(questions), [on |-> kind, index |-> k, at |-> "waiting"])
    /\ active' = Len(questions) + 1
    /\ UNCHANGED <<docVars, tagVars>>

\* The trash button of one of several chapters keeps the index it was drawn with.
AskChapter(k) == k \in Chapters(doc) /\ Cardinality(Chapters(doc)) > 1 /\ Ask("chapter", k)

AskMedia(f) == f \in media /\ Ask("media", f)

\* The two buttons; closing the dialog is a no.
Settle(yes) ==
    /\ active # 0
    /\ questions' = [questions EXCEPT ![active].at = IF yes THEN "yes" ELSE "over"]
    /\ active' = 0
    /\ UNCHANGED <<docVars, tagVars>>

\* The caller goes on after its await; the document may be another one by now.
Proceed(q) ==
    /\ questions[q].at = "yes"
    /\ questions' = [questions EXCEPT ![q].at = "over"]
    /\ IF questions[q].on = "chapter"
       THEN RemoveChapter(questions[q].index) /\ UNCHANGED media
       ELSE media' = media \ {questions[q].index} /\ UNCHANGED doc
    /\ UNCHANGED <<blocks, active, tagVars>>

\* The content is set anew under the dialog: by a refetch, or a template.
SetContent ==
    /\ doc # <<>>
    /\ doc' = <<>>
    /\ UNCHANGED <<media, blocks, dialogVars, tagVars>>

-----------------------------------------------------------------------------
(* Tags.                                                                    *)

\* Typing restarts the timer of the search; an empty input searches nothing and
\* empties the list.
TypeTag(t) ==
    /\ input' = t
    /\ IF t = Blank THEN suggested' = <<>> /\ UNCHANGED queries
       ELSE /\ Len(queries) < MaxQueries
            /\ queries' = Append(queries, [for |-> t, open |-> TRUE])
            /\ UNCHANGED suggested
    /\ UNCHANGED <<docVars, dialogVars, tags, highlight>>

Marked == -1

\* Answers come in any order, and the last one to come is shown.
Suggest(q) ==
    /\ queries[q].open
    /\ queries' = [queries EXCEPT ![q].open = FALSE]
    /\ suggested' = Found(queries[q].for)
    /\ highlight' = Marked
    /\ UNCHANGED <<docVars, dialogVars, input, tags>>

\* The arrow keys go one entry beyond the list, where "Create" stands.
Arrow(step) ==
    /\ suggested # <<>>
    /\ highlight' = LET h == highlight + step
                    IN  IF h > Len(suggested) THEN Len(suggested) ELSE IF h < -1 THEN -1 ELSE h
    /\ UNCHANGED <<docVars, dialogVars, input, tags, suggested, queries>>

\* addTag leaves the list, hidden; the input is cleared.
AddTag(t) ==
    IF t = Blank \/ t \in tags \/ Cardinality(tags) >= MaxTags
    THEN UNCHANGED <<tags, input, highlight>>
    ELSE tags' = tags \cup {t} /\ input' = Blank /\ highlight' = -1

\* Enter takes the marked entry, or what was typed.
Enter ==
    /\ Cardinality(tags) < MaxTags
    /\ AddTag(IF suggested # <<>> /\ highlight \in 0..(Len(suggested) - 1)
              THEN suggested[highlight + 1] ELSE input)
    /\ UNCHANGED <<docVars, dialogVars, suggested, queries>>

\* A click on an entry, or on "Create".
PickTag(t) ==
    /\ (t = input \/ \E i \in DOMAIN suggested : suggested[i] = t) /\ suggested # <<>>
    /\ AddTag(t)
    /\ UNCHANGED <<docVars, dialogVars, suggested, queries>>

RemoveTag(t) ==
    /\ t \in tags
    /\ tags' = tags \ {t}
    /\ UNCHANGED <<docVars, dialogVars, input, suggested, highlight, queries>>

-----------------------------------------------------------------------------

DocumentNext ==
    \/ \E h \in BOOLEAN : WriteBlock(h)
    \/ \E i \in DOMAIN doc : ToggleHeading(i)
    \/ AddChapter \/ DeleteOnly \/ SetContent
    \/ \E k \in Chapters(doc), dir \in {-1, 1} : MoveChapter(k, dir)
    \/ \E k \in Chapters(doc) : AskChapter(k)
    \/ \E f \in Files : AskMedia(f)
    \/ \E yes \in BOOLEAN : Settle(yes)
    \/ \E q \in DOMAIN questions : Proceed(q)

TagNext ==
    \/ \E t \in Inputs : TypeTag(t)
    \/ \E q \in DOMAIN queries : Suggest(q)
    \/ \E step \in {-1, 1} : Arrow(step)
    \/ Enter
    \/ \E t \in Names : PickTag(t)
    \/ \E t \in tags : RemoveTag(t)

-----------------------------------------------------------------------------

\* What moveChapter is for, said without positions: the preface and the chapters, each
\* with its own blocks, are the same, and two neighbours have changed places.
Preface(d) == IF Starts(d) = <<>> THEN d ELSE SubSeq(d, 1, Starts(d)[1] - 1)
Contents(d) == [k \in Chapters(d) |-> Slice(d, k)]
Swapped(s, i, j) == [s EXCEPT ![i] = s[j], ![j] = s[i]]

\* Moving a chapter exchanges it with its neighbour and touches nothing else.
SwapsChapters ==
    [][\A k \in Chapters(doc), dir \in {-1, 1} :
         MoveChapter(k, dir) =>
            /\ Preface(doc') = Preface(doc)
            /\ Contents(doc') = Swapped(Contents(doc), k, k + dir)]_ToolsVars

\* Every confirmDialog call that still waits is the one on the screen, so that each
\* caller gets its answer, and a "yes" belongs to the question that was shown.
WaitingIsShown ==
    \A q \in DOMAIN questions : questions[q].at = "waiting" => q = active

=============================================================================
