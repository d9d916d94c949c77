------------------------------- MODULE Editor -------------------------------
(* The page that writes a diary (components/editor/editor-page.tsx), for a  *)
(* new diary or for one that exists, with the store it saves to.            *)
(*                                                                          *)
(* A text stands for title, HTML, CSS and tags together; 0 is the empty     *)
(* form, and every edit makes a new one.  The form and the server drift     *)
(* apart in many ways: saves and refetches are answered late and in any     *)
(* order, the code editor holds on to what is typed for 150 ms, another     *)
(* device writes the same diary, the key of private diaries may be missing. *)
EXTENDS Naturals, Sequences

CONSTANTS
    MaxTexts,    \* bound: texts ever written
    MaxPresses,  \* bound: saves ever pressed
    MaxEvents    \* bound: refetches, failures and disturbances

ASSUME EditorBounds ==
    MaxTexts \in Nat \ {0} /\ MaxPresses \in Nat \ {0} /\ MaxEvents \in Nat

VARIABLES
    store,       \* the user's diaries, in the order of their creation
    gone,        \* the edited diary has been deleted
    edit,        \* the page edits store[1]; else it writes a new diary
    page,        \* "loading", "form" or "left"
    text, privacy,       \* the form
    pane,        \* what each code editor holds and has not passed on (0: nothing)
    source, full,        \* HTML source instead of rich text; full screen
    key, setup,  \* the page holds the master key, and keeps it; it is setting one up
    dialog,      \* the key dialog: [shown, step]
    status,      \* of the last save
    saves,       \* the saves under way
    fetch,       \* the query of the diary: [at, got]
    loaded,      \* the copy of the diary that the query holds
    texts, presses, events,     \* what the bounds count
    last, crossed        \* ghosts: the text of the last save; saves or writers overlapped

serverVars == <<store, gone>>
formVars == <<text, privacy, pane, source, full>>
keyVars == <<key, setup, dialog>>
saveVars == <<status, saves, last, crossed>>
queryVars == <<fetch, loaded>>
countVars == <<texts, presses, events>>
EditorVars == <<serverVars, edit, page, formVars, keyVars, saveVars, queryVars, countVars>>

Privacies == {"public", "draft", "private"}
Texts == 0..MaxTexts
Panes == {"page", "full", "css"}
NoPanes == [p \in Panes |-> 0]

Diaries == [privacy : Privacies, text : Texts, sealed : BOOLEAN, ver : Nat]

\* Mutant: the null that a private diary has for a title is taken for a text.
Null == MaxTexts + 1
CopyRaw(d) == [privacy |-> d.privacy, text |-> IF d.sealed THEN Null ELSE d.text, ver |-> d.ver]

\* What GET /diaries/{id} gives the form: no title and no content for a private one.
Copy(d) == [privacy |-> d.privacy, text |-> IF d.sealed THEN 0 ELSE d.text, ver |-> d.ver]
NoCopy == [privacy |-> "public", text |-> 0, ver |-> 0]
Copies == [privacy : Privacies, text : Texts, ver : Nat]

Requests == [n : 1..MaxPresses, privacy : Privacies, text : Texts, sealed : BOOLEAN,
             at : {"sent", "stored", "failed"}]

EditorTypeOK ==
    /\ store \in Seq(Diaries) /\ gone \in BOOLEAN
    /\ edit \in BOOLEAN /\ page \in {"loading", "form", "left"}
    /\ text \in Texts /\ privacy \in Privacies
    /\ pane \in [Panes -> Texts] /\ source \in BOOLEAN /\ full \in BOOLEAN
    /\ key \in BOOLEAN /\ setup \in BOOLEAN
    /\ dialog \in [shown : BOOLEAN, step : {"explain", "password"}]
    /\ status \in {"idle", "saving", "saved", "error"}
    /\ saves \subseteq Requests
    /\ fetch \in [at : {"idle", "asked", "read"}, got : Copies]
    /\ loaded \in Copies
    /\ texts \in Texts /\ presses \in 0..MaxPresses /\ events \in 0..MaxEvents
    /\ last \in Texts /\ crossed \in BOOLEAN

EditorInit ==
    /\ edit \in BOOLEAN /\ key \in BOOLEAN
    /\ \E p \in Privacies :
        store = IF edit THEN <<[privacy |-> p, text |-> 1, sealed |-> p = "private", ver |-> 1]>>
                        ELSE <<>>
    /\ texts = (IF edit THEN 1 ELSE 0)
    /\ page = IF edit THEN "loading" ELSE "form"
    /\ fetch = [at |-> IF edit THEN "asked" ELSE "idle", got |-> NoCopy]
    /\ gone = FALSE /\ text = 0 /\ privacy = "public" /\ pane = NoPanes
    /\ source = FALSE /\ full = FALSE /\ setup = FALSE
    /\ dialog = [shown |-> FALSE, step |-> "explain"]
    /\ status = "idle" /\ saves = {} /\ loaded = NoCopy
    /\ presses = 0 /\ events = 0 /\ last = 0 /\ crossed = FALSE

\* The page is unmounted, and its state with it; what it has sent goes on.
Unmount ==
    /\ page' = "left"
    /\ text' = 0 /\ privacy' = "public" /\ pane' = NoPanes
    /\ source' = FALSE /\ full' = FALSE /\ setup' = FALSE
    /\ dialog' = [shown |-> FALSE, step |-> "explain"]
    /\ status' = "idle"
    /\ fetch' = [at |-> "idle", got |-> NoCopy]

Disturb == events < MaxEvents /\ events' = events + 1
NewText == texts < MaxTexts /\ texts' = texts + 1

-----------------------------------------------------------------------------
(* The query of the edited diary.                                           *)

\* The window gets the focus again, and what the query holds is older than a minute.
Refocus ==
    /\ edit /\ page = "form" /\ fetch.at = "idle"
    /\ Disturb
    /\ fetch' = [fetch EXCEPT !.at = "asked"]
    /\ UNCHANGED <<serverVars, edit, page, formVars, keyVars, saveVars, loaded, texts, presses>>

FetchDiary ==
    /\ fetch.at = "asked" /\ ~gone
    /\ fetch' = [at |-> "read", got |-> Copy(store[1])]
    /\ UNCHANGED <<serverVars, edit, page, formVars, keyVars, saveVars, loaded, countVars>>

\* Mutant: the form is filled by every answer.
FillAlways ==
    /\ page' = "form" /\ loaded' = fetch.got
    /\ text' = fetch.got.text /\ privacy' = fetch.got.privacy

\* The effect runs when the query's data is another object, and equal answers keep
\* the old one.  It takes the form's text, whatever was typed.
Fill ==
    /\ page' = "form" /\ loaded' = fetch.got
    /\ IF fetch.got = loaded THEN UNCHANGED <<text, privacy>>
       ELSE text' = fetch.got.text /\ privacy' = fetch.got.privacy

DiaryArrives ==
    /\ fetch.at = "read" /\ page # "left"
    /\ Fill
    /\ fetch' = [at |-> "idle", got |-> NoCopy]
    /\ UNCHANGED <<serverVars, edit, pane, source, full, keyVars, saveVars, countVars>>

\* All tries fail, or the diary is gone: the page shows what it has, at first an
\* empty form.
FetchFails ==
    /\ fetch.at # "idle" /\ page # "left"
    /\ IF gone THEN UNCHANGED events ELSE Disturb
    /\ page' = "form"
    /\ fetch' = [at |-> "idle", got |-> NoCopy]
    /\ UNCHANGED <<serverVars, edit, formVars, keyVars, saveVars, loaded, texts, presses>>

-----------------------------------------------------------------------------
(* Writing.                                                                 *)

Writable == page = "form" /\ ~dialog.shown

EditForm ==
    /\ NewText
    /\ text' = texts + 1
    /\ UNCHANGED <<serverVars, edit, page, privacy, pane, source, full, keyVars, saveVars,
                   queryVars, presses, events>>

\* The rich editor reports every change at once.
TypeRich == Writable /\ ~source /\ EditForm

\* The toolbar's formatting is there as long as the rich editor is mounted.
Format == Writable /\ ~source /\ text # 0 /\ EditForm

\* The floating toolbar stands over a selection.
FormatSelection == Format

ChangeTitle == Writable /\ EditForm

\* Tags, emotion, comments, warnings and size belong to the form in either view.
ChangeSettings == Writable /\ EditForm

\* The page's editor stays mounted behind the one of the full screen.
Typed == IF full THEN "full" ELSE "page"

\* The code editor waits for 150 ms without a key before it reports.
TypeInto(p) ==
    /\ NewText
    /\ pane' = [pane EXCEPT ![p] = texts + 1]
    /\ UNCHANGED <<serverVars, edit, page, text, privacy, source, full, keyVars, saveVars,
                   queryVars, presses>>

TypeSource == Writable /\ source /\ TypeInto(Typed) /\ UNCHANGED events

\* The custom CSS of the page can be edited in either view.
TypeCss == Writable /\ TypeInto("css") /\ UNCHANGED events

PassOn(p) ==
    /\ page = "form" /\ pane[p] # 0
    /\ text' = pane[p]
    /\ pane' = [pane EXCEPT ![p] = 0]
    /\ UNCHANGED <<serverVars, edit, page, privacy, source, full, keyVars, saveVars, queryVars,
                   countVars>>

\* An unmounted code editor clears its timer: what it held is lost.
DropPanes(closed) == pane' = [p \in Panes |-> IF p \in closed THEN 0 ELSE pane[p]]

ToggleSource ==
    /\ Writable
    /\ source' = ~source
    /\ DropPanes({"page", "full"})
    /\ UNCHANGED <<serverVars, edit, page, text, privacy, full, keyVars, saveVars, queryVars,
                   countVars>>

Expand ==
    /\ Writable /\ ~full
    /\ full' = TRUE
    /\ UNCHANGED <<serverVars, edit, page, text, privacy, pane, source, keyVars, saveVars,
                   queryVars, countVars>>

Collapse ==
    /\ page = "form" /\ full
    /\ full' = FALSE
    /\ DropPanes({"full"})
    /\ UNCHANGED <<serverVars, edit, page, text, privacy, source, keyVars, saveVars, queryVars,
                   countVars>>

\* A template replaces the text and leaves the source view.
ApplyTemplate ==
    /\ Writable
    /\ NewText
    /\ text' = texts + 1
    /\ source' = FALSE /\ DropPanes({"page", "full"})
    /\ UNCHANGED <<serverVars, edit, page, privacy, full, keyVars, saveVars, queryVars, presses,
                   events>>

\* An image goes to the rich editor, or to the code editor that reported itself last.
InsertImage ==
    IF source THEN TypeInto(Typed)
    ELSE /\ NewText
         /\ text' = texts + 1
         /\ UNCHANGED <<serverVars, edit, page, privacy, pane, source, full, keyVars, saveVars,
                        queryVars, presses>>

\* An upload is answered while the page is open.
ImageArrives == page = "form" /\ Disturb /\ InsertImage

InsertFromGallery == Writable /\ InsertImage /\ UNCHANGED events

-----------------------------------------------------------------------------
(* Privacy and the master key.                                              *)

OpenDialog == dialog' = [dialog EXCEPT !.shown = TRUE]

\* The choice is disabled for a diary that exists; private needs the key.
ChoosePrivacy(p) ==
    /\ Writable /\ ~edit
    /\ IF p = "private" /\ ~key THEN OpenDialog /\ UNCHANGED privacy
                                ELSE privacy' = p /\ UNCHANGED dialog
    /\ UNCHANGED <<serverVars, edit, page, text, pane, source, full, key, setup, saveVars,
                   queryVars, countVars>>

Continue ==
    /\ page = "form" /\ dialog.shown /\ dialog.step = "explain"
    /\ dialog' = [dialog EXCEPT !.step = "password"]
    /\ UNCHANGED <<serverVars, edit, page, formVars, key, setup, saveVars, queryVars, countVars>>

\* Cancel hides the dialog and keeps its step.
CancelDialog ==
    /\ page = "form" /\ dialog.shown
    /\ dialog' = [dialog EXCEPT !.shown = FALSE]
    /\ UNCHANGED <<serverVars, edit, page, formVars, key, setup, saveVars, queryVars, countVars>>

GenerateKey ==
    /\ page = "form" /\ dialog.shown /\ dialog.step = "password" /\ ~setup
    /\ setup' = TRUE
    /\ UNCHANGED <<serverVars, edit, page, formVars, key, dialog, saveVars, queryVars, countVars>>

\* The answer makes the form private, also if the dialog was cancelled meanwhile.
KeyGenerated ==
    /\ page = "form" /\ setup
    /\ key' = TRUE /\ setup' = FALSE
    /\ privacy' = "private"
    /\ dialog' = [shown |-> FALSE, step |-> "explain"]
    /\ UNCHANGED <<serverVars, edit, page, text, pane, source, full, saveVars, queryVars,
                   countVars>>

KeyRefused ==
    /\ page = "form" /\ setup
    /\ Disturb
    /\ setup' = FALSE
    /\ UNCHANGED <<serverVars, edit, page, formVars, key, dialog, saveVars, queryVars, texts,
                   presses>>

-----------------------------------------------------------------------------
(* Saving.                                                                  *)

\* Mutant: the form's privacy decides what is encrypted.
SealsByForm(p) == privacy = "private"

Seals(p) == p = "private"

\* doSave: a private diary needs the key, everything else is sent as it is.  Nothing
\* keeps a second save from being sent while one is under way.
DoSave(p) ==
    /\ page = "form" /\ presses < MaxPresses
    /\ presses' = presses + 1
    /\ IF p = "private" /\ ~key
       THEN OpenDialog /\ status' = "error" /\ UNCHANGED <<saves, last, crossed>>
       ELSE /\ status' = "saving"
            /\ saves' = saves \cup
                {[n |-> presses + 1, privacy |-> p, text |-> text, sealed |-> Seals(p),
                  at |-> "sent"]}
            /\ last' = text
            /\ crossed' = (crossed \/ saves # {})
            /\ UNCHANGED dialog
    /\ UNCHANGED <<serverVars, edit, page, formVars, key, setup, queryVars, texts, events>>

SaveDraft == ~dialog.shown /\ DoSave("draft")

\* Publish, Save Encrypted, or Save Changes.
SavePrimary == ~dialog.shown /\ DoSave(IF privacy = "private" THEN "private" ELSE "public")

\* The preview's button publishes, whatever the privacy is.
PublishPreview == ~dialog.shown /\ DoSave("public")

\* Ctrl+S reaches the page through every dialog.
SaveKeys == DoSave(privacy)

Stored(d, s) == [privacy |-> s.privacy, text |-> s.text, sealed |-> s.sealed,
                 ver |-> d.ver + 1]

\* update_diary refuses to seal a diary or to open a sealed one.
Accepts(s) == ~gone /\ ((s.privacy = "private") <=> (store[1].privacy = "private"))

Put(s) == store' = [store EXCEPT ![1] = Stored(@, s)]

Move(s, stage) == saves' = (saves \ {s}) \cup {[s EXCEPT !.at = stage]}

\* The server takes the request.
StoreDiary(s) ==
    /\ s.at = "sent"
    /\ IF edit
       THEN IF Accepts(s) THEN Put(s) /\ Move(s, "stored")
                          ELSE UNCHANGED store /\ Move(s, "failed")
       ELSE /\ store' = Append(store, Stored([ver |-> 0], s))
            /\ Move(s, "stored")
    /\ UNCHANGED <<gone, edit, page, formVars, keyVars, status, last, crossed, queryVars,
                   countVars>>

\* The request or its answer is lost; in the second case the diary is written.
LoseSave(s) ==
    /\ s.at # "failed" /\ page = "form"
    /\ Disturb
    /\ Move(s, "failed")
    /\ UNCHANGED <<serverVars, edit, page, formVars, keyVars, status, last, crossed, queryVars,
                   texts, presses>>

\* Every diary that is not a draft opens its page; so does a public one that was edited.
Opens(s) == (~edit /\ s.privacy # "draft") \/ (edit /\ s.privacy = "public")

\* Mutant: whatever became of the save, the page says that it is saved.
OutcomeAlike(s) == "saved"

Outcome(s) == IF s.at = "failed" THEN "error" ELSE "saved"

\* A successful update makes the query of the diary ask again.
SaveAnswered(s) ==
    /\ s.at # "sent" /\ page = "form"
    /\ saves' = saves \ {s}
    /\ IF s.at = "stored" /\ Opens(s)
       THEN Unmount
       ELSE /\ status' = Outcome(s)
            /\ IF edit /\ s.at = "stored" THEN fetch' = [at |-> "asked", got |-> NoCopy]
                                          ELSE UNCHANGED fetch
            /\ UNCHANGED <<page, formVars, setup, dialog>>
    /\ UNCHANGED <<serverVars, edit, key, last, crossed, loaded, countVars>>

-----------------------------------------------------------------------------

\* The button asks first, and leaves the page when the server has deleted the diary.
DeleteDiary ==
    /\ Writable /\ edit
    /\ gone' = TRUE
    /\ Unmount
    /\ UNCHANGED <<store, edit, key, saves, last, crossed, loaded, countVars>>

\* The same user on another device.
OtherDevice ==
    /\ edit /\ ~gone /\ page # "left"
    /\ Disturb /\ NewText
    /\ store' = [store EXCEPT ![1] = [store[1] EXCEPT !.text = texts + 1, !.ver = store[1].ver + 1]]
    /\ crossed' = TRUE
    /\ UNCHANGED <<gone, edit, page, formVars, keyVars, status, saves, last, queryVars, presses>>

\* Back is a plain link.
Back ==
    /\ page # "left"
    /\ Unmount
    /\ UNCHANGED <<serverVars, edit, key, saves, last, crossed, loaded, countVars>>

EditorNext ==
    \/ Refocus \/ FetchDiary \/ DiaryArrives \/ FetchFails
    \/ TypeRich \/ Format \/ FormatSelection \/ ChangeTitle \/ ChangeSettings
    \/ TypeSource \/ TypeCss \/ ToggleSource \/ Expand \/ Collapse
    \/ ApplyTemplate \/ ImageArrives \/ InsertFromGallery
    \/ \E p \in Panes : PassOn(p)
    \/ \E p \in Privacies : ChoosePrivacy(p)
    \/ Continue \/ CancelDialog \/ GenerateKey \/ KeyGenerated \/ KeyRefused
    \/ SaveDraft \/ SavePrimary \/ PublishPreview \/ SaveKeys
    \/ \E s \in saves : StoreDiary(s) \/ LoseSave(s) \/ SaveAnswered(s)
    \/ DeleteDiary \/ OtherDevice \/ Back

EditorSpec == EditorInit /\ [][EditorNext]_EditorVars

-----------------------------------------------------------------------------

\* A stored diary is sealed exactly if it is private: the button that was pressed, the
\* privacy of the form, the key and what is stored change independently, and
\* doSave and update_diary agree in every combination.
SealedIffPrivate == \A i \in DOMAIN store : store[i].sealed <=> store[i].privacy = "private"

\* "Saved" is true: the text that was sent last is stored, once all saves are answered,
\* unless two saves, or a save and another device, overlapped: they are not put
\* in order, and the one the server takes last stays.
SavedIsStored ==
    status = "saved" /\ saves = {} /\ ~crossed
        => \E i \in DOMAIN store : store[i].text = last

\* The query takes the text of the form away only for a copy of the diary that was
\* written after the one the form was filled from.
ReplacedByNewerOnly ==
    [][DiaryArrives /\ text' # text => fetch.got.ver > loaded.ver]_EditorVars

\* What milestone 7 says: the edit page is "pre-populated" with the diary.  So
\* saving it from there never replaces what was written by an empty diary.
NothingBlanked == \A i \in DOMAIN store : edit => store[i].text # 0

=============================================================================
