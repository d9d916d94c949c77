---------------------------- MODULE WritingProofs ----------------------------
(* What the editor stores, says and shows, and what the moderation of       *)
(* reports does, however long somebody writes and however often saves,      *)
(* refetches, other devices, questions and moderators overlap.              *)
EXTENDS MCWriting, SequenceTheorems, FiniteSetTheorems, WellFoundedInduction, TLAPS

(* The form.                                                                *)

\* A diary is sealed exactly if it is private, on its way and in the store.
SealedRight(d) == d.sealed <=> d.privacy = "private"

\* The edited diary is stored, and only an edit has a query.
EditsStored == IF edit THEN Len(store) >= 1 ELSE fetch.at = "idle"

\* A copy that was read from the edited diary: older, or the same.
CopyOf(c) == /\ c.ver <= store[1].ver
             /\ c.ver = store[1].ver => c = Copy(store[1])

\* The query's copy and the answer on its way are copies of the diary, the answer
\* newer than the copy or equal to it.
CopiesInOrder ==
    edit => /\ store[1].ver >= 1 /\ CopyOf(loaded)
            /\ fetch.at = "read" => /\ CopyOf(fetch.got)
                                    /\ loaded.ver <= fetch.got.ver
                                    /\ loaded.ver = fetch.got.ver => loaded = fetch.got

\* The text of the last save is stored.
HasLast == \E i \in DOMAIN store : store[i].text = last

\* As long as nothing overlaps, at most the last save is under way, and what it
\* stored stays.
LastSave ==
    crossed \/ \/ saves = {} /\ (status = "saved" => HasLast)
               \/ \E s : /\ saves = {s} /\ status # "saved"
                         /\ s.text = last /\ (s.at = "stored" => HasLast)

EditorInv ==
    /\ EditorTypeOK /\ SealedIffPrivate /\ (\A s \in saves : SealedRight(s))
    /\ EditsStored /\ CopiesInOrder /\ LastSave

-----------------------------------------------------------------------------

\* The invariant holds on both ways into the page.
LEMMA EditorStarts == EditorInit => EditorInv
<1> SUFFICES ASSUME EditorInit PROVE EditorInv
  OBVIOUS
<1>1. PICK p \in Privacies :
        store = IF edit THEN <<[privacy |-> p, text |-> 1, sealed |-> p = "private", ver |-> 1]>>
                        ELSE <<>>
  BY DEF EditorInit
<1> DEFINE d == [privacy |-> p, text |-> 1, sealed |-> p = "private", ver |-> 1]
<1>2. 1 \in Texts /\ 0 \in Texts /\ 0 \in 0..MaxPresses /\ 0 \in 0..MaxEvents
  BY EditorBounds DEF Texts
<1>3. d \in Diaries /\ d.ver = 1 /\ SealedRight(d)
  BY <1>2 DEF Diaries, SealedRight
<1>4. NoCopy \in Copies /\ NoCopy.ver = 0
  BY <1>2 DEF NoCopy, Copies, Privacies
<1> HIDE DEF d
<1>5. /\ store \in Seq(Diaries) /\ edit \in BOOLEAN
      /\ edit => Len(store) = 1 /\ store[1] = d
      /\ ~edit => Len(store) = 0
  BY <1>1, <1>3 DEF EditorInit, d
<1>6. EditorTypeOK
  <2>1. /\ pane \in [Panes -> Texts] /\ text \in Texts /\ texts \in Texts /\ last \in Texts
        /\ presses \in 0..MaxPresses /\ events \in 0..MaxEvents
    BY <1>2 DEF EditorInit, NoPanes
  <2>2. /\ fetch \in [at : {"idle", "asked", "read"}, got : Copies] /\ loaded \in Copies
        /\ dialog \in [shown : BOOLEAN, step : {"explain", "password"}]
    BY <1>4 DEF EditorInit
  <2>3. /\ gone \in BOOLEAN /\ edit \in BOOLEAN /\ page \in {"loading", "form", "left"}
        /\ privacy \in Privacies /\ source \in BOOLEAN /\ full \in BOOLEAN /\ key \in BOOLEAN
        /\ setup \in BOOLEAN /\ status \in {"idle", "saving", "saved", "error"}
        /\ saves \subseteq Requests /\ crossed \in BOOLEAN
    BY DEF EditorInit, Privacies
  <2> QED
    BY <1>5, <2>1, <2>2, <2>3 DEF EditorTypeOK
<1>7. SealedIffPrivate
  BY <1>3, <1>5 DEF SealedIffPrivate, SealedRight
<1>8. EditsStored /\ CopiesInOrder
  BY <1>3, <1>4, <1>5 DEF EditorInit, EditsStored, CopiesInOrder, CopyOf
<1>9. LastSave /\ \A s \in saves : SealedRight(s)
  BY DEF EditorInit, LastSave
<1> QED
  BY <1>6, <1>7, <1>8, <1>9 DEF EditorInv

-----------------------------------------------------------------------------
(* What the writer does to the form.                                        *)

\* Neither the store nor a save nor the query is touched.
formOnly == <<store, edit, saves, status, last, crossed, fetch, loaded>>

\* A step that changes only the form keeps the rest of the invariant.
LEMMA FormOnly ==
    ASSUME EditorInv, EditorTypeOK', UNCHANGED formOnly
    PROVE  EditorInv'
BY DEF EditorInv, formOnly, SealedIffPrivate, EditsStored, CopiesInOrder, CopyOf, LastSave,
   HasLast, SealedRight

\* A new text is one of those the bound allows.
LEMMA NewTextFits ==
    ASSUME EditorTypeOK, NewText
    PROVE  texts + 1 \in Texts /\ texts' \in Texts
<1>1. texts \in 0..MaxTexts /\ MaxTexts \in Nat /\ texts < MaxTexts /\ texts' = texts + 1
  BY EditorBounds DEF EditorTypeOK, NewText, Texts
<1> QED
  BY <1>1 DEF Texts

\* An event is one of those the bound allows.
LEMMA DisturbFits ==
    ASSUME EditorTypeOK, Disturb
    PROVE  events' \in 0..MaxEvents
<1>1. events \in 0..MaxEvents /\ MaxEvents \in Nat /\ events < MaxEvents /\ events' = events + 1
  BY EditorBounds DEF EditorTypeOK, Disturb
<1> QED
  BY <1>1

\* What is typed, formatted, inserted or passed on stays in the form.
LEMMA WritingSafe ==
    ASSUME EditorInv,
           \/ TypeRich \/ Format \/ FormatSelection \/ ChangeTitle \/ ChangeSettings
           \/ TypeSource \/ TypeCss \/ ApplyTemplate \/ ImageArrives \/ InsertFromGallery
           \/ \E p \in Panes : PassOn(p)
    PROVE  EditorInv'
<1> USE DEF EditorInv
<1>1. ASSUME EditForm PROVE EditorInv'
  BY <1>1, NewTextFits, FormOnly
  DEF EditForm, EditorTypeOK, serverVars, keyVars, saveVars, queryVars, formOnly
<1>2. ASSUME NEW p \in Panes, TypeInto(p), events' \in 0..MaxEvents PROVE EditorInv'
  <2>1. pane' \in [Panes -> Texts] /\ texts' \in Texts
    BY <1>2, NewTextFits DEF TypeInto, EditorTypeOK
  <2>2. EditorTypeOK'
    BY <1>2, <2>1 DEF TypeInto, EditorTypeOK, serverVars, keyVars, saveVars, queryVars
  <2> QED
    BY <1>2, <2>2, FormOnly DEF TypeInto, serverVars, keyVars, saveVars, queryVars, formOnly
<1>3. Typed \in Panes /\ "css" \in Panes
  BY DEF Typed, Panes
<1>4. CASE TypeRich \/ Format \/ FormatSelection \/ ChangeTitle \/ ChangeSettings
  BY <1>1, <1>4 DEF TypeRich, Format, FormatSelection, ChangeTitle, ChangeSettings
<1>5. CASE TypeSource \/ TypeCss
  <2>1. events' \in 0..MaxEvents
    BY <1>5 DEF TypeSource, TypeCss, EditorTypeOK
  <2> QED
    BY <1>2, <1>3, <1>5, <2>1 DEF TypeSource, TypeCss
<1>6. ASSUME InsertImage, events' \in 0..MaxEvents PROVE EditorInv'
  <2>1. CASE source
    BY <1>2, <1>3, <1>6, <2>1 DEF InsertImage
  <2>2. CASE ~source
    <3>1. EditorTypeOK'
      BY <1>6, <2>2, NewTextFits
      DEF InsertImage, EditorTypeOK, serverVars, keyVars, saveVars, queryVars
    <3> QED
      BY <1>6, <2>2, <3>1, FormOnly DEF InsertImage, serverVars, keyVars, saveVars, queryVars, formOnly
  <2> QED
    BY <2>1, <2>2
<1>7. CASE ImageArrives
  BY <1>6, <1>7, DisturbFits DEF ImageArrives
<1>8. CASE InsertFromGallery
  <2>1. events' \in 0..MaxEvents
    BY <1>8 DEF InsertFromGallery, EditorTypeOK
  <2> QED
    BY <1>6, <1>8, <2>1 DEF InsertFromGallery
<1>9. CASE ApplyTemplate
  <2>1. pane' \in [Panes -> Texts]
    BY <1>9, EditorBounds DEF ApplyTemplate, DropPanes, EditorTypeOK, Texts
  <2>2. text' \in Texts /\ texts' \in Texts /\ source' \in BOOLEAN
    BY <1>9, NewTextFits DEF ApplyTemplate
  <2>3. EditorTypeOK'
    BY <1>9, <2>1, <2>2 DEF ApplyTemplate, EditorTypeOK, serverVars, keyVars, saveVars, queryVars
  <2> QED
    BY <1>9, <2>3, FormOnly DEF ApplyTemplate, serverVars, keyVars, saveVars, queryVars, formOnly
<1>10. ASSUME NEW p \in Panes, PassOn(p) PROVE EditorInv'
  <2>1. pane' \in [Panes -> Texts] /\ text' \in Texts
    BY <1>10, EditorBounds DEF PassOn, EditorTypeOK, Texts
  <2>2. EditorTypeOK'
    BY <1>10, <2>1 DEF PassOn, EditorTypeOK, serverVars, keyVars, saveVars, queryVars, countVars
  <2> QED
    BY <1>10, <2>2, FormOnly
    DEF PassOn, serverVars, keyVars, saveVars, queryVars, countVars, formOnly
<1> QED
  BY <1>4, <1>5, <1>7, <1>8, <1>9, <1>10

\* The views, the privacy and the dialog of the key.
LEMMA ViewsSafe ==
    ASSUME EditorInv,
           \/ ToggleSource \/ Expand \/ Collapse
           \/ \E p \in Privacies : ChoosePrivacy(p)
           \/ Continue \/ CancelDialog \/ GenerateKey \/ KeyGenerated \/ KeyRefused
    PROVE  EditorInv'
<1> USE DEF EditorInv
<1>1. UNCHANGED formOnly
  BY DEF ToggleSource, Expand, Collapse, ChoosePrivacy, Continue, CancelDialog, GenerateKey,
     KeyGenerated, KeyRefused, serverVars, formVars, keyVars, saveVars, queryVars, countVars, formOnly
<1>2. CASE ToggleSource \/ Collapse
  <2>1. pane' \in [Panes -> Texts]
    BY <1>2, EditorBounds DEF ToggleSource, Collapse, DropPanes, EditorTypeOK, Texts
  <2>2. source' \in BOOLEAN /\ full' \in BOOLEAN
    BY <1>2 DEF ToggleSource, Collapse, EditorTypeOK
  <2>3. EditorTypeOK'
    BY <1>2, <2>1, <2>2
    DEF ToggleSource, Collapse, EditorTypeOK, serverVars, keyVars, saveVars, queryVars, countVars
  <2> QED
    BY <1>1, <2>3, FormOnly
<1>3. CASE Expand
  BY <1>1, <1>3, FormOnly
  DEF Expand, EditorTypeOK, serverVars, keyVars, saveVars, queryVars, countVars
<1>4. ASSUME NEW p \in Privacies, ChoosePrivacy(p) PROVE EditorInv'
  <2>1. /\ dialog' \in [shown : BOOLEAN, step : {"explain", "password"}]
        /\ privacy' \in Privacies
    BY <1>4 DEF ChoosePrivacy, OpenDialog, EditorTypeOK
  <2>2. EditorTypeOK'
    BY <1>4, <2>1 DEF ChoosePrivacy, EditorTypeOK, serverVars, saveVars, queryVars, countVars
  <2> QED
    BY <1>1, <2>2, FormOnly
<1>5. CASE Continue \/ CancelDialog
  <2>1. dialog' \in [shown : BOOLEAN, step : {"explain", "password"}]
    BY <1>5 DEF Continue, CancelDialog, EditorTypeOK
  <2>2. EditorTypeOK'
    BY <1>5, <2>1
    DEF Continue, CancelDialog, EditorTypeOK, serverVars, formVars, saveVars, queryVars, countVars
  <2> QED
    BY <1>1, <2>2, FormOnly
<1>6. CASE GenerateKey
  BY <1>1, <1>6, FormOnly
  DEF GenerateKey, EditorTypeOK, serverVars, formVars, saveVars, queryVars, countVars
<1>7. CASE KeyGenerated
  <2>1. dialog' \in [shown : BOOLEAN, step : {"explain", "password"}] /\ privacy' \in Privacies
    BY <1>7 DEF KeyGenerated, Privacies
  <2>2. EditorTypeOK'
    BY <1>7, <2>1 DEF KeyGenerated, EditorTypeOK, serverVars, saveVars, queryVars, countVars
  <2> QED
    BY <1>1, <2>2, FormOnly
<1>8. CASE KeyRefused
  <2>1. setup' \in BOOLEAN /\ events' \in 0..MaxEvents
    BY <1>8, DisturbFits DEF KeyRefused
  <2>2. EditorTypeOK'
    BY <1>8, <2>1 DEF KeyRefused, EditorTypeOK, serverVars, formVars, saveVars, queryVars
  <2> QED
    BY <1>1, <2>2, FormOnly
<1> QED
  BY <1>2, <1>3, <1>4, <1>5, <1>6, <1>7, <1>8

-----------------------------------------------------------------------------
(* The query.                                                               *)

\* Neither the store nor a save is touched.
serverOnly == <<store, edit, saves, status, last, crossed>>

\* A step that leaves the server alone keeps what is said of it and of its saves.
LEMMA QueryOnly ==
    ASSUME EditorInv, EditorTypeOK', UNCHANGED serverOnly, EditsStored', CopiesInOrder'
    PROVE  EditorInv'
BY DEF EditorInv, serverOnly, SealedIffPrivate, LastSave, HasLast, SealedRight

\* A diary and the copy that the form gets of it.
LEMMA CopyFits ==
    ASSUME EditorInv, edit
    PROVE  /\ store[1] \in Diaries /\ Copy(store[1]) \in Copies
           /\ Copy(store[1]).ver = store[1].ver /\ store[1].ver \in Nat
<1>1. store \in Seq(Diaries) /\ Len(store) >= 1
  BY DEF EditorInv, EditorTypeOK, EditsStored
<1>2. store[1] \in Diaries
  BY <1>1
<1>3. 0 \in Texts
  BY EditorBounds DEF Texts
<1> QED
  BY <1>2, <1>3 DEF Copy, Copies, Diaries

\* An answer fills the form, fails, or is asked for.
LEMMA QuerySafe ==
    ASSUME EditorInv, Refocus \/ FetchDiary \/ DiaryArrives \/ FetchFails
    PROVE  EditorInv'
<1>1. EditorTypeOK /\ EditsStored /\ CopiesInOrder
  BY DEF EditorInv
<1>2. NoCopy \in Copies
  BY EditorBounds DEF NoCopy, Copies, Privacies, Texts
<1>3. UNCHANGED serverOnly
  BY DEF Refocus, FetchDiary, DiaryArrives, FetchFails, serverVars, saveVars, serverOnly
<1>4. CASE Refocus
  <2>1. /\ fetch' \in [at : {"idle", "asked", "read"}, got : Copies] /\ fetch'.at = "asked"
        /\ events' \in 0..MaxEvents
    BY <1>1, <1>4, DisturbFits DEF Refocus, EditorTypeOK
  <2>2. EditorTypeOK'
    BY <1>1, <1>4, <2>1 DEF Refocus, EditorTypeOK, serverVars, formVars, keyVars, saveVars
  <2>3. EditsStored' /\ CopiesInOrder'
    BY <1>1, <1>4, <2>1 DEF Refocus, EditsStored, CopiesInOrder, CopyOf, serverVars
  <2> QED
    BY <1>3, <2>2, <2>3, QueryOnly
<1>5. CASE FetchDiary
  <2>1. edit /\ fetch.at = "asked" /\ fetch' = [at |-> "read", got |-> Copy(store[1])]
    BY <1>1, <1>5 DEF FetchDiary, EditsStored
  <2>2. /\ Copy(store[1]) \in Copies /\ Copy(store[1]).ver = store[1].ver
        /\ store[1].ver \in Nat
    BY <2>1, CopyFits
  <2>3. EditorTypeOK'
    BY <1>1, <1>5, <2>1, <2>2
    DEF FetchDiary, EditorTypeOK, serverVars, formVars, keyVars, saveVars, countVars
  <2>4. EditsStored' /\ CopiesInOrder'
    BY <1>1, <1>5, <2>1, <2>2 DEF FetchDiary, EditsStored, CopiesInOrder, CopyOf, serverVars
  <2> QED
    BY <1>3, <2>3, <2>4, QueryOnly
<1>6. CASE DiaryArrives
  <2>1. /\ loaded' = fetch.got /\ fetch.got \in Copies /\ fetch.at = "read"
        /\ fetch' = [at |-> "idle", got |-> NoCopy] /\ page' = "form"
    BY <1>1, <1>6 DEF DiaryArrives, Fill, EditorTypeOK
  <2>2. text' \in Texts /\ privacy' \in Privacies
    BY <1>1, <1>6, <2>1 DEF DiaryArrives, Fill, EditorTypeOK, Copies
  <2>3. EditorTypeOK'
    BY <1>1, <1>2, <1>6, <2>1, <2>2
    DEF DiaryArrives, EditorTypeOK, serverVars, keyVars, saveVars, countVars
  <2>4. EditsStored' /\ CopiesInOrder'
    BY <1>1, <1>6, <2>1 DEF DiaryArrives, EditsStored, CopiesInOrder, CopyOf, serverVars
  <2> QED
    BY <1>3, <2>3, <2>4, QueryOnly
<1>7. CASE FetchFails
  <2>1. events' \in 0..MaxEvents
    BY <1>1, <1>7, DisturbFits DEF FetchFails, EditorTypeOK
  <2>2. fetch' = [at |-> "idle", got |-> NoCopy] /\ page' = "form"
    BY <1>7 DEF FetchFails
  <2>3. EditorTypeOK'
    BY <1>1, <1>2, <1>7, <2>1, <2>2
    DEF FetchFails, EditorTypeOK, serverVars, formVars, keyVars, saveVars
  <2>4. EditsStored' /\ CopiesInOrder'
    BY <1>1, <1>7, <2>2 DEF FetchFails, EditsStored, CopiesInOrder, CopyOf, serverVars
  <2> QED
    BY <1>3, <2>3, <2>4, QueryOnly
<1> QED
  BY <1>4, <1>5, <1>6, <1>7

-----------------------------------------------------------------------------
(* Saving.                                                                  *)

\* A save is sent, or the dialog of the key is shown instead.
LEMMA SendsSafe ==
    ASSUME EditorInv, SaveDraft \/ SavePrimary \/ PublishPreview \/ SaveKeys
    PROVE  EditorInv'
<1>1. EditorTypeOK
  BY DEF EditorInv
<1>2. PICK p \in Privacies : DoSave(p)
  BY <1>1 DEF SaveDraft, SavePrimary, PublishPreview, SaveKeys, Privacies, EditorTypeOK
<1>3. presses' \in 0..MaxPresses /\ presses + 1 \in 1..MaxPresses
  <2>1. presses \in 0..MaxPresses /\ presses < MaxPresses /\ presses' = presses + 1
    BY <1>1, <1>2 DEF DoSave, EditorTypeOK
  <2> QED
    BY <2>1, EditorBounds
<1>4. UNCHANGED <<store, gone, edit, page, text, privacy, pane, source, full, key, setup, fetch,
                  loaded, texts, events>>
  BY <1>2 DEF DoSave, serverVars, formVars, queryVars
<1>5. EditsStored' /\ CopiesInOrder' /\ SealedIffPrivate'
  BY <1>4 DEF EditorInv, EditsStored, CopiesInOrder, CopyOf, SealedIffPrivate
<1>6. CASE p = "private" /\ ~key
  <2>1. /\ UNCHANGED <<saves, last, crossed>> /\ status' = "error"
        /\ dialog' \in [shown : BOOLEAN, step : {"explain", "password"}]
    BY <1>1, <1>2, <1>6 DEF DoSave, OpenDialog, EditorTypeOK
  <2>2. EditorTypeOK'
    BY <1>1, <1>3, <1>4, <2>1 DEF EditorTypeOK
  <2>3. LastSave' /\ \A s \in saves' : SealedRight(s)'
    BY <1>4, <2>1 DEF EditorInv, LastSave, HasLast, SealedRight
  <2> QED
    BY <1>5, <2>2, <2>3 DEF EditorInv
<1>7. CASE ~(p = "private" /\ ~key)
  <2> DEFINE s == [n |-> presses + 1, privacy |-> p, text |-> text, sealed |-> Seals(p), at |-> "sent"]
  <2>1. /\ status' = "saving" /\ saves' = saves \cup {s} /\ last' = text
        /\ crossed' = (crossed \/ saves # {}) /\ dialog' = dialog
    BY <1>2, <1>7 DEF DoSave
  <2>2. s \in Requests /\ s.text = text /\ s.at = "sent" /\ SealedRight(s)
    BY <1>1, <1>3 DEF Requests, EditorTypeOK, Seals, SealedRight
  <2> HIDE DEF s
  <2>3. crossed' \in BOOLEAN
    BY <1>1, <2>1 DEF EditorTypeOK
  <2>4. EditorTypeOK'
    BY <1>1, <1>3, <1>4, <2>1, <2>2, <2>3 DEF EditorTypeOK
  <2>5. LastSave'
    BY <2>1, <2>2 DEF LastSave
  <2>6. \A x \in saves' : SealedRight(x)'
    BY <2>1, <2>2 DEF EditorInv, SealedRight
  <2> QED
    BY <1>5, <2>4, <2>5, <2>6 DEF EditorInv
<1> QED
  BY <1>6, <1>7

\* A save s goes on to a stage, or is over.
LEMMA MovedFits ==
    ASSUME EditorInv, NEW s \in saves, NEW stage \in {"stored", "failed"}
    PROVE  /\ [s EXCEPT !.at = stage] \in Requests
           /\ [s EXCEPT !.at = stage].text = s.text /\ [s EXCEPT !.at = stage].at = stage
           /\ SealedRight([s EXCEPT !.at = stage])
BY DEF EditorInv, EditorTypeOK, Requests, SealedRight

\* The server takes or refuses a save.
LEMMA StoreSafe ==
    ASSUME EditorInv, NEW s \in saves, StoreDiary(s)
    PROVE  EditorInv'
<1>1. /\ EditorTypeOK /\ EditsStored /\ CopiesInOrder /\ LastSave /\ SealedIffPrivate
      /\ s \in Requests /\ SealedRight(s) /\ s.at = "sent"
  BY DEF EditorInv, EditorTypeOK, StoreDiary
<1>2. UNCHANGED <<gone, edit, page, text, privacy, pane, source, full, key, setup, dialog, status, last,
                  crossed, fetch, loaded, texts, presses, events>>
  BY DEF StoreDiary, formVars, keyVars, queryVars, countVars
<1> DEFINE k(stage) == [s EXCEPT !.at = stage]
<1>3. PICK stage \in {"stored", "failed"} :
         /\ saves' = (saves \ {s}) \cup {k(stage)}
         /\ stage = "failed" => store' = store
         /\ stage = "stored" => IF edit THEN Put(s) ELSE store' = Append(store, Stored([ver |-> 0], s))
  BY DEF StoreDiary, Move
<1>4. /\ k(stage) \in Requests /\ k(stage).text = s.text /\ k(stage).at = stage
      /\ SealedRight(k(stage))
  BY MovedFits
<1> HIDE DEF k
<1>5. \A x \in saves' : SealedRight(x)'
  BY <1>3, <1>4 DEF EditorInv, SealedRight
<1>6. ASSUME NEW d, d.ver \in Nat
      PROVE  /\ Stored(d, s) \in Diaries /\ SealedRight(Stored(d, s))
             /\ Stored(d, s).text = s.text /\ Stored(d, s).ver = d.ver + 1
  BY <1>1, <1>6 DEF Stored, Diaries, Requests, SealedRight
<1>7. /\ store' \in Seq(Diaries) /\ SealedIffPrivate' /\ EditsStored' /\ CopiesInOrder'
      /\ stage = "stored" => \E i \in DOMAIN store' : store'[i].text = s.text
      /\ ~edit => \A i \in DOMAIN store : i \in DOMAIN store' /\ store'[i] = store[i]
  <2>1. CASE stage = "failed"
    BY <1>1, <1>2, <1>3, <2>1
    DEF EditorTypeOK, SealedIffPrivate, EditsStored, CopiesInOrder, CopyOf
  <2>2. CASE stage = "stored" /\ edit
    <3> DEFINE d == Stored(store[1], s)
    <3>1. store[1] \in Diaries /\ store[1].ver \in Nat /\ store \in Seq(Diaries) /\ Len(store) >= 1
      BY <1>1, <2>2, CopyFits DEF EditsStored, EditorTypeOK
    <3>2. d \in Diaries /\ SealedRight(d) /\ d.text = s.text /\ d.ver = store[1].ver + 1
      BY <1>6, <3>1
    <3>3. store' = [store EXCEPT ![1] = d]
      BY <1>3, <2>2 DEF Put
    <3> HIDE DEF d
    <3>4. /\ store' \in Seq(Diaries) /\ Len(store') = Len(store) /\ store'[1] = d
          /\ DOMAIN store' = DOMAIN store /\ 1 \in DOMAIN store
          /\ \A i \in DOMAIN store : i # 1 => store'[i] = store[i]
      BY <3>1, <3>2, <3>3
    <3>5. SealedIffPrivate'
      BY <1>1, <3>2, <3>4 DEF SealedIffPrivate, SealedRight
    <3>6. EditsStored'
      BY <1>2, <2>2, <3>1, <3>4 DEF EditsStored
    <3>7. loaded.ver \in Nat /\ fetch.got.ver \in Nat
      BY <1>1 DEF EditorTypeOK, Copies
    <3>8. CopiesInOrder'
      BY <1>1, <1>2, <2>2, <3>1, <3>2, <3>4, <3>7 DEF CopiesInOrder, CopyOf
    <3> QED
      BY <2>2, <3>2, <3>4, <3>5, <3>6, <3>8
  <2>3. CASE stage = "stored" /\ ~edit
    <3> DEFINE d == Stored([ver |-> 0], s)
    <3>1. d \in Diaries /\ SealedRight(d) /\ d.text = s.text
      BY <1>6
    <3>2. store' = Append(store, d) /\ store \in Seq(Diaries)
      BY <1>1, <1>3, <2>3 DEF EditorTypeOK
    <3> HIDE DEF d
    <3>3. /\ store' \in Seq(Diaries) /\ Len(store') = Len(store) + 1 /\ store'[Len(store) + 1] = d
          /\ \A i \in DOMAIN store : i \in DOMAIN store' /\ store'[i] = store[i]
          /\ \A i \in DOMAIN store' : i \in DOMAIN store \/ i = Len(store) + 1
          /\ Len(store) + 1 \in DOMAIN store'
      BY <3>1, <3>2
    <3>4. SealedIffPrivate'
      BY <1>1, <3>1, <3>3 DEF SealedIffPrivate, SealedRight
    <3>5. EditsStored' /\ CopiesInOrder'
      BY <1>1, <1>2, <2>3 DEF EditsStored, CopiesInOrder
    <3> QED
      BY <3>1, <3>3, <3>4, <3>5
  <2> QED
    BY <2>1, <2>2, <2>3
<1>8. EditorTypeOK'
  BY <1>1, <1>2, <1>3, <1>4, <1>7 DEF EditorTypeOK
<1>9. LastSave'
  <2>1. CASE crossed
    BY <1>2, <2>1 DEF LastSave
  <2>2. CASE ~crossed
    <3>1. saves = {s} /\ status # "saved" /\ s.text = last
      BY <1>1, <2>2 DEF LastSave
    <3>2. saves' = {k(stage)}
      BY <1>3, <3>1
    <3>3. stage = "stored" => HasLast'
      BY <1>2, <1>7, <3>1 DEF HasLast
    <3> QED
      BY <1>2, <1>4, <3>1, <3>2, <3>3 DEF LastSave
  <2> QED
    BY <2>1, <2>2
<1> QED
  BY <1>5, <1>7, <1>8, <1>9 DEF EditorInv

\* A save or its answer is lost.
LEMMA LossSafe ==
    ASSUME EditorInv, NEW s \in saves, LoseSave(s)
    PROVE  EditorInv'
<1> DEFINE k == [s EXCEPT !.at = "failed"]
<1>1. k \in Requests /\ k.text = s.text /\ k.at = "failed" /\ SealedRight(k)
  BY MovedFits
<1>2. /\ saves' = (saves \ {s}) \cup {k} /\ events' \in 0..MaxEvents
      /\ UNCHANGED <<store, gone, edit, page, text, privacy, pane, source, full, key, setup, dialog,
                     status, last, crossed, fetch, loaded, texts, presses>>
  BY DisturbFits DEF LoseSave, Move, serverVars, formVars, keyVars, queryVars, EditorInv
<1> HIDE DEF k
<1>3. EditorTypeOK'
  BY <1>1, <1>2 DEF EditorInv, EditorTypeOK
<1>4. SealedIffPrivate' /\ EditsStored' /\ CopiesInOrder' /\ \A x \in saves' : SealedRight(x)'
  BY <1>1, <1>2
  DEF EditorInv, SealedIffPrivate, EditsStored, CopiesInOrder, CopyOf, SealedRight
<1>5. LastSave'
  <2>1. CASE crossed
    BY <1>2, <2>1 DEF LastSave
  <2>2. CASE ~crossed
    <3>1. saves = {s} /\ status # "saved" /\ s.text = last
      BY <2>2 DEF LastSave, EditorInv
    <3>2. saves' = {k}
      BY <1>2, <3>1
    <3> QED
      BY <1>1, <1>2, <3>1, <3>2 DEF LastSave
  <2> QED
    BY <2>1, <2>2
<1> QED
  BY <1>3, <1>4, <1>5 DEF EditorInv

\* The page hears of its save.
LEMMA AnswerSafe ==
    ASSUME EditorInv, NEW s \in saves, SaveAnswered(s)
    PROVE  EditorInv'
<1>1. EditorTypeOK /\ s \in Requests /\ s.at # "sent"
  BY DEF EditorInv, EditorTypeOK, SaveAnswered
<1>2. /\ saves' = saves \ {s}
      /\ UNCHANGED <<store, gone, edit, key, last, crossed, loaded, texts, presses, events>>
  BY DEF SaveAnswered, serverVars, countVars
<1>3. NoCopy \in Copies /\ 0 \in Texts
  BY EditorBounds DEF NoCopy, Copies, Privacies, Texts
<1>4. /\ EditorTypeOK'
      /\ fetch'.at # "read" \/ fetch' = fetch
      /\ status' = "saved" => s.at = "stored"
      /\ ~edit => fetch'.at = "idle"
  <2>1. CASE s.at = "stored" /\ Opens(s)
    <3>1. Unmount
      BY <2>1 DEF SaveAnswered
    <3>2. pane' \in [Panes -> Texts]
      BY <1>3, <3>1 DEF Unmount, NoPanes
    <3>3. /\ dialog' \in [shown : BOOLEAN, step : {"explain", "password"}]
          /\ fetch' \in [at : {"idle", "asked", "read"}, got : Copies] /\ fetch'.at = "idle"
      BY <1>3, <3>1 DEF Unmount
    <3>4. /\ page' \in {"loading", "form", "left"} /\ privacy' \in Privacies /\ text' \in Texts
          /\ source' \in BOOLEAN /\ full' \in BOOLEAN /\ setup' \in BOOLEAN /\ status' = "idle"
      BY <1>3, <3>1 DEF Unmount, Privacies
    <3>5. EditorTypeOK'
      BY <1>1, <1>2, <3>2, <3>3, <3>4 DEF EditorTypeOK
    <3> QED
      BY <3>3, <3>4, <3>5
  <2>2. CASE ~(s.at = "stored" /\ Opens(s))
    <3>1. /\ UNCHANGED <<page, text, privacy, pane, source, full, setup, dialog>>
          /\ status' = Outcome(s)
      BY <2>2 DEF SaveAnswered, formVars
    <3>2. /\ fetch' \in [at : {"idle", "asked", "read"}, got : Copies]
          /\ fetch'.at # "read" \/ fetch' = fetch
          /\ ~edit => fetch' = fetch
      BY <1>1, <1>3, <2>2 DEF SaveAnswered, EditorTypeOK
    <3>3. /\ status' \in {"idle", "saving", "saved", "error"}
          /\ status' = "saved" => s.at = "stored"
      BY <1>1, <3>1 DEF Outcome, Requests
    <3>4. EditorTypeOK'
      BY <1>1, <1>2, <3>1, <3>2, <3>3 DEF EditorTypeOK
    <3>5. ~edit => fetch'.at = "idle"
      BY <3>2 DEF EditorInv, EditsStored
    <3> QED
      BY <3>2, <3>3, <3>4, <3>5
  <2> QED
    BY <2>1, <2>2
<1>5. SealedIffPrivate' /\ EditsStored' /\ CopiesInOrder' /\ \A x \in saves' : SealedRight(x)'
  BY <1>2, <1>4
  DEF EditorInv, SealedIffPrivate, EditsStored, CopiesInOrder, CopyOf, SealedRight
<1>6. LastSave'
  <2>1. CASE crossed
    BY <1>2, <2>1 DEF LastSave
  <2>2. CASE ~crossed
    <3>1. saves = {s} /\ (s.at = "stored" => HasLast)
      BY <2>2 DEF LastSave, EditorInv
    <3>2. saves' = {} /\ (status' = "saved" => HasLast')
      BY <1>2, <1>4, <3>1 DEF HasLast
    <3> QED
      BY <3>2 DEF LastSave
  <2> QED
    BY <2>1, <2>2
<1> QED
  BY <1>4, <1>5, <1>6 DEF EditorInv

-----------------------------------------------------------------------------
(* Leaving, deleting, and the other device.                                 *)

\* The page is left, by the back link or because the diary is deleted.
LEMMA LeavesSafe ==
    ASSUME EditorInv, DeleteDiary \/ Back
    PROVE  EditorInv'
<1>1. /\ Unmount /\ gone' \in BOOLEAN
      /\ UNCHANGED <<store, edit, key, saves, last, crossed, loaded, texts, presses, events>>
  BY DEF DeleteDiary, Back, serverVars, countVars, EditorInv, EditorTypeOK
<1>2. NoCopy \in Copies /\ 0 \in Texts
  BY EditorBounds DEF NoCopy, Copies, Privacies, Texts
<1>3. pane' \in [Panes -> Texts]
  BY <1>1, <1>2 DEF Unmount, NoPanes
<1>4. /\ dialog' \in [shown : BOOLEAN, step : {"explain", "password"}]
      /\ fetch' \in [at : {"idle", "asked", "read"}, got : Copies] /\ fetch'.at = "idle"
  BY <1>1, <1>2 DEF Unmount
<1>5. /\ page' \in {"loading", "form", "left"} /\ privacy' \in Privacies /\ text' \in Texts
      /\ source' \in BOOLEAN /\ full' \in BOOLEAN /\ setup' \in BOOLEAN /\ status' = "idle"
  BY <1>1, <1>2 DEF Unmount, Privacies
<1>6. EditorTypeOK'
  BY <1>1, <1>3, <1>4, <1>5 DEF EditorInv, EditorTypeOK
<1>7. SealedIffPrivate' /\ EditsStored' /\ CopiesInOrder' /\ \A x \in saves' : SealedRight(x)'
  BY <1>1, <1>4 DEF EditorInv, SealedIffPrivate, EditsStored, CopiesInOrder, CopyOf, SealedRight
<1>8. LastSave'
  BY <1>1, <1>5 DEF EditorInv, LastSave, HasLast
<1> QED
  BY <1>6, <1>7, <1>8 DEF EditorInv

\* Another device writes the diary: the copies are older now.
LEMMA DeviceSafe ==
    ASSUME EditorInv, OtherDevice
    PROVE  EditorInv'
<1> DEFINE d == [store[1] EXCEPT !.text = texts + 1, !.ver = store[1].ver + 1]
<1>1. /\ edit /\ store' = [store EXCEPT ![1] = d] /\ crossed' = TRUE /\ Disturb /\ NewText
      /\ UNCHANGED <<gone, edit, page, text, privacy, pane, source, full, key, setup, dialog, status,
                     saves, last, fetch, loaded, presses>>
  BY DEF OtherDevice, formVars, keyVars, queryVars
<1>2. /\ store[1] \in Diaries /\ store[1].ver \in Nat /\ store \in Seq(Diaries) /\ Len(store) >= 1
  BY <1>1, CopyFits DEF EditorInv, EditsStored, EditorTypeOK
<1>3. texts + 1 \in Texts /\ texts' \in Texts /\ events' \in 0..MaxEvents
  BY <1>1, NewTextFits, DisturbFits DEF EditorInv
<1>4. d \in Diaries /\ d.privacy = store[1].privacy /\ d.sealed = store[1].sealed
      /\ d.ver = store[1].ver + 1
  <2>1. store[1].ver + 1 \in Nat
    BY <1>2
  <2> QED
    BY <1>2, <1>3, <2>1 DEF Diaries
<1> HIDE DEF d
<1>5. /\ store' \in Seq(Diaries) /\ Len(store') = Len(store) /\ store'[1] = d
      /\ DOMAIN store' = DOMAIN store /\ 1 \in DOMAIN store
      /\ \A i \in DOMAIN store : i # 1 => store'[i] = store[i]
  BY <1>1, <1>2, <1>4
<1>6. EditorTypeOK'
  BY <1>1, <1>3, <1>5 DEF EditorInv, EditorTypeOK
<1>7. SealedIffPrivate' /\ \A x \in saves' : SealedRight(x)'
  BY <1>1, <1>4, <1>5 DEF EditorInv, SealedIffPrivate, SealedRight
<1>8. loaded.ver \in Nat /\ fetch.got.ver \in Nat
  BY DEF EditorInv, EditorTypeOK, Copies
<1>9. EditsStored' /\ CopiesInOrder'
  BY <1>1, <1>2, <1>4, <1>5, <1>8 DEF EditorInv, EditsStored, CopiesInOrder, CopyOf
<1>10. LastSave'
  BY <1>1 DEF LastSave
<1> QED
  BY <1>6, <1>7, <1>9, <1>10 DEF EditorInv

-----------------------------------------------------------------------------

\* The invariant is inductive.
LEMMA EditorStep == EditorInv /\ [EditorNext]_EditorVars => EditorInv'
<1> SUFFICES ASSUME EditorInv, [EditorNext]_EditorVars PROVE EditorInv'
  OBVIOUS
<1>1. CASE \/ TypeRich \/ Format \/ FormatSelection \/ ChangeTitle \/ ChangeSettings
           \/ TypeSource \/ TypeCss \/ ApplyTemplate \/ ImageArrives \/ InsertFromGallery
           \/ \E p \in Panes : PassOn(p)
  BY <1>1, WritingSafe
<1>2. CASE \/ ToggleSource \/ Expand \/ Collapse
           \/ \E p \in Privacies : ChoosePrivacy(p)
           \/ Continue \/ CancelDialog \/ GenerateKey \/ KeyGenerated \/ KeyRefused
  BY <1>2, ViewsSafe
<1>3. CASE Refocus \/ FetchDiary \/ DiaryArrives \/ FetchFails
  BY <1>3, QuerySafe
<1>4. CASE SaveDraft \/ SavePrimary \/ PublishPreview \/ SaveKeys
  BY <1>4, SendsSafe
<1>5. ASSUME NEW s \in saves, StoreDiary(s) \/ LoseSave(s) \/ SaveAnswered(s)
      PROVE  EditorInv'
  BY <1>5, StoreSafe, LossSafe, AnswerSafe
<1>6. CASE DeleteDiary \/ OtherDevice \/ Back
  BY <1>6, LeavesSafe, DeviceSafe
<1>7. CASE UNCHANGED EditorVars
  <2>1. EditorTypeOK'
    BY <1>7 DEF EditorVars, EditorInv, EditorTypeOK, serverVars, formVars, keyVars, saveVars, queryVars,
       countVars
  <2>2. UNCHANGED formOnly
    BY <1>7 DEF EditorVars, formOnly, serverVars, saveVars, queryVars
  <2> QED
    BY <2>1, <2>2, FormOnly
<1> QED
  BY <1>1, <1>2, <1>3, <1>4, <1>5, <1>6, <1>7 DEF EditorNext

\* Type correctness, and what the copies, the saves and the store have to do with
\* each other, hold in every behaviour of the editor.
THEOREM EditorInvariant == EditorSpec => []EditorInv
BY EditorStarts, EditorStep, PTL DEF EditorSpec

\* In every combination of button, form, key and stored diary, what is stored is sealed
\* exactly if it is private.
THEOREM StoredSealedIffPrivate == EditorSpec => []SealedIffPrivate
<1>1. EditorInv => SealedIffPrivate
  BY DEF EditorInv
<1> QED
  BY <1>1, EditorInvariant, PTL

\* "Saved" is true, however the requests and their answers are lost, unless saves or
\* devices overlapped.
THEOREM SavedIsTrue == EditorSpec => []SavedIsStored
<1>1. EditorInv => SavedIsStored
  BY DEF EditorInv, SavedIsStored, LastSave, HasLast
<1> QED
  BY <1>1, EditorInvariant, PTL

\* The form is only refilled by a version of the diary newer than the one it was filled
\* from, however late the answers come.
THEOREM RefilledByNewerOnly == EditorSpec => ReplacedByNewerOnly
<1>1. ASSUME EditorInv, DiaryArrives, text' # text
      PROVE  fetch.got.ver > loaded.ver
  <2>1. /\ fetch.at = "read" /\ fetch.got # loaded /\ edit
        /\ loaded.ver \in Nat /\ fetch.got.ver \in Nat
    BY <1>1 DEF DiaryArrives, Fill, EditorInv, EditsStored, EditorTypeOK, Copies
  <2> QED
    BY <1>1, <2>1 DEF EditorInv, CopiesInOrder
<1>2. EditorInv /\ [EditorNext]_EditorVars
        => [DiaryArrives /\ text' # text => fetch.got.ver > loaded.ver]_EditorVars
  BY <1>1
<1> QED
  BY <1>2, EditorInvariant, PTL DEF EditorSpec, ReplacedByNewerOnly

-----------------------------------------------------------------------------
(* Order.                                                                   *)

\* A set of naturals that is not empty has a least element.
LEMMA LeastElement ==
    ASSUME NEW S \in SUBSET Nat, S # {}
    PROVE  \E m \in S : \A k \in S : m <= k
<1> DEFINE R == OpToRel(<, Nat)
<1>1. IsWellFoundedOn(R, Nat)
  BY NatLessThanWellFounded
<1>2. \A a, b \in Nat : a < b => <<a, b>> \in R
  BY DEF OpToRel
<1> HIDE DEF R
<1>3. PICK m \in S : \A y \in S : ~ (<<y, m>> \in R)
  BY <1>1, WFMin
<1>4. \A y \in S : ~ (y < m) /\ m \in Nat /\ y \in Nat
  BY <1>2, <1>3
<1> QED
  BY <1>4

\* Induction, for a set instead of a formula.
LEMMA SetInduction ==
    ASSUME NEW S, 0 \in S, \A n \in Nat : n \in S => n + 1 \in S
    PROVE  \A n \in Nat : n \in S
<1> SUFFICES ASSUME NEW n \in Nat, n \notin S PROVE FALSE
  OBVIOUS
<1>1. PICK m \in Nat \ S : \A k \in Nat \ S : m <= k
  <2> DEFINE T == Nat \ S
  <2>1. T \in SUBSET Nat /\ T # {}
    OBVIOUS
  <2> HIDE DEF T
  <2>2. \E m \in T : \A k \in T : m <= k
    BY <2>1, LeastElement
  <2> QED
    BY <2>2 DEF T
<1>2. m # 0 /\ m - 1 \in Nat
  BY <1>1
<1>3. m - 1 \in S
  BY <1>1, <1>2
<1>4. (m - 1) + 1 \in S
  BY <1>2, <1>3
<1> QED
  BY <1>1, <1>2, <1>4

\* A finite set of naturals that is not empty has a greatest element.
LEMMA GreatestElement ==
    ASSUME NEW N \in Nat, NEW S \in SUBSET (1..N), S # {}
    PROVE  \E m \in S : \A k \in S : k <= m
<1> DEFINE U == {u \in Nat : \A k \in S : k <= u}
<1>1. N \in U
  OBVIOUS
<1>2. PICK m \in U : \A u \in U : m <= u
  <2> HIDE DEF U
  <2>1. U \in SUBSET Nat
    BY DEF U
  <2> QED
    BY <1>1, <2>1, LeastElement
<1>3. m \in S
  <2> SUFFICES ASSUME m \notin S PROVE FALSE
    OBVIOUS
  <2>1. PICK h \in S : TRUE
    OBVIOUS
  <2>2. m >= 1 /\ m - 1 \in Nat
    BY <1>2, <2>1
  <2>3. \A k \in S : k <= m - 1
    BY <1>2
  <2>4. m - 1 \in U
    BY <2>2, <2>3
  <2> QED
    BY <1>2, <2>2, <2>4
<1> QED
  BY <1>2, <1>3

\* Every set of positions can be listed in ascending order.
LEMMA ListInOrder ==
    ASSUME NEW N \in Nat, NEW H \in SUBSET (1..N)
    PROVE  \E s \in [1..Cardinality(H) -> H] :
             Ascending(s) /\ \A h \in H : \E i \in DOMAIN s : s[i] = h
<1> DEFINE Listed(n, G) ==
        \E s \in [1..n -> G] : Ascending(s) /\ \A h \in G : \E i \in DOMAIN s : s[i] = h
    S == {n \in Nat : \A G \in SUBSET (1..N) : Cardinality(G) = n => Listed(n, G)}
<1>1. \A G \in SUBSET (1..N) : IsFiniteSet(G) /\ Cardinality(G) \in Nat
  <2>1. IsFiniteSet(1..N)
    BY FS_Interval
  <2> QED
    BY <2>1, FS_Subset, FS_CardinalityType
<1>2. 0 \in S
  <2>1. ASSUME NEW G \in SUBSET (1..N), Cardinality(G) = 0 PROVE Listed(0, G)
    <3>1. G = {}
      BY <1>1, <2>1, FS_EmptySet
    <3>2. <<>> \in [1..0 -> G] /\ Ascending(<<>>)
      BY DEF Ascending
    <3> QED
      BY <3>1, <3>2
  <2> QED
    BY <2>1
<1>3. ASSUME NEW n \in Nat, n \in S PROVE n + 1 \in S
  <2>1. ASSUME NEW G \in SUBSET (1..N), Cardinality(G) = n + 1 PROVE Listed(n + 1, G)
    <3>1. G # {}
      BY <1>1, <2>1, FS_EmptySet
    <3>2. PICK m \in G : \A k \in G : k <= m
      BY <3>1, GreatestElement
    <3>3. Cardinality(G \ {m}) = n
      BY <1>1, <2>1, <3>2, FS_RemoveElement
    <3>4. PICK s \in [1..n -> G \ {m}] :
            Ascending(s) /\ \A h \in G \ {m} : \E i \in DOMAIN s : s[i] = h
      BY <1>3, <3>3
    <3> DEFINE t == [i \in 1..(n + 1) |-> IF i = n + 1 THEN m ELSE s[i]]
    <3>5. t \in [1..(n + 1) -> G]
      BY <3>4
    <3>6. ASSUME NEW i \in 1..(n + 1), NEW j \in 1..(n + 1), i < j PROVE t[i] < t[j]
      <4>1. i \in 1..n /\ t[i] = s[i] /\ m \in Nat
        BY <3>6
      <4>1z. s[i] \in G \ {m}
        BY <3>4, <4>1
      <4>1a. s[i] \in G /\ s[i] # m /\ s[i] \in Nat
        <5>1. \A g \in G : g \in Nat
          OBVIOUS
        <5> QED
          BY <4>1z, <5>1
      <4>2. CASE j = n + 1
        <5>1. t[j] = m /\ s[i] <= m
          BY <3>2, <4>1a, <4>2
        <5> QED
          BY <4>1, <4>1a, <5>1
      <4>3. CASE j # n + 1
        <5>1. j \in 1..n /\ t[j] = s[j]
          BY <4>3
        <5> QED
          BY <3>4, <3>6, <4>1, <5>1 DEF Ascending
      <4> QED
        BY <4>2, <4>3
    <3>7. ASSUME NEW h \in G PROVE \E i \in 1..(n + 1) : t[i] = h
      <4>1. CASE h = m
        BY <4>1, n + 1 \in 1..(n + 1)
      <4>2. CASE h # m
        <5>1. PICK i \in 1..n : s[i] = h
          BY <3>4, <4>2
        <5>2. i \in 1..(n + 1) /\ t[i] = h
          BY <5>1
        <5> QED
          BY <5>2
      <4> QED
        BY <4>1, <4>2
    <3> HIDE DEF t
    <3>8. DOMAIN t = 1..(n + 1)
      BY <3>5
    <3> QED
      BY <3>5, <3>6, <3>7, <3>8 DEF Ascending
  <2> QED
    BY <2>1
<1> HIDE DEF S
<1>4. \A n \in Nat : n \in S
  BY <1>2, <1>3, SetInduction
<1>5. Cardinality(H) \in S
  BY <1>1, <1>4
<1> QED
  BY <1>5 DEF S

\* There is only one such list.
LEMMA OneOrder ==
    ASSUME NEW n \in Nat, NEW H \in SUBSET Nat,
           NEW s \in [1..n -> H], Ascending(s), \A h \in H : \E i \in 1..n : s[i] = h,
           NEW t \in [1..n -> H], Ascending(t), \A h \in H : \E i \in 1..n : t[i] = h
    PROVE  s = t
<1> SUFFICES ASSUME NEW i \in 1..n, s[i] # t[i] PROVE FALSE
  OBVIOUS
<1> DEFINE D == {k \in 1..n : s[k] # t[k]}
<1>1. D \in SUBSET Nat /\ D # {}
  OBVIOUS
<1>2. PICK k \in D : \A l \in D : k <= l
  <2> HIDE DEF D
  <2> QED
    BY <1>1, LeastElement
<1>3. k \in 1..n /\ s[k] \in Nat /\ t[k] \in Nat /\ s[k] # t[k]
  BY <1>2
<1>4. \A l \in 1..n : l < k => s[l] = t[l]
  BY <1>2, <1>3
<1>5. ASSUME NEW f \in [1..n -> H], NEW g \in [1..n -> H], Ascending(f), Ascending(g),
             \A h \in H : \E l \in 1..n : g[l] = h,
             \A l \in 1..n : l < k => f[l] = g[l], f[k] < g[k]
      PROVE  FALSE
  <2>1. PICK l \in 1..n : g[l] = f[k]
    BY <1>3, <1>5
  <2>2. CASE l < k
    <3>1. f[l] = f[k] /\ f[l] < f[k] /\ f[k] \in Nat
      BY <1>3, <1>5, <2>1, <2>2 DEF Ascending
    <3> QED
      BY <3>1
  <2>3. CASE l = k
    <3>1. f[k] = g[k] /\ f[k] \in Nat
      BY <1>3, <1>5, <2>1, <2>3
    <3> QED
      BY <1>5, <3>1
  <2>4. CASE k < l
    <3>1. g[k] < g[l] /\ g[k] \in Nat /\ g[l] \in Nat
      BY <1>3, <1>5, <2>4 DEF Ascending
    <3> QED
      BY <1>5, <2>1, <3>1
  <2> QED
    BY <1>3, <2>2, <2>3, <2>4
<1>6. s[k] < t[k] \/ t[k] < s[k]
  BY <1>3
<1> QED
  BY <1>4, <1>5, <1>6

-----------------------------------------------------------------------------
(* Chapters.                                                                *)

\* The starts of the chapters are the headings, all of them, in ascending order.
LEMMA StartsListHeads ==
    ASSUME NEW d \in Seq(Blocks)
    PROVE  /\ Cardinality(Heads(d)) \in Nat
           /\ Heads(d) \subseteq 1..Len(d)
           /\ Starts(d) \in [1..Cardinality(Heads(d)) -> Heads(d)]
           /\ Chapters(d) = 1..Cardinality(Heads(d))
           /\ Ascending(Starts(d))
           /\ \A h \in Heads(d) : \E i \in Chapters(d) : Starts(d)[i] = h
<1> DEFINE H == Heads(d)
           n == Cardinality(H)
<1>1. Len(d) \in Nat /\ DOMAIN d = 1..Len(d)
  BY LenProperties
<1>2. H \in SUBSET (1..Len(d))
  BY <1>1 DEF Heads
<1>3. IsFiniteSet(H) /\ n \in Nat
  <2>1. IsFiniteSet(1..Len(d))
    BY <1>1, FS_Interval
  <2> QED
    BY <1>2, <2>1, FS_Subset, FS_CardinalityType
<1>3a. \A h \in H : h \in Nat
  BY <1>1, <1>2
<1> HIDE DEF H
<1>4. \E s \in [1..n -> H] : Ascending(s) /\ \A h \in H : \E i \in DOMAIN s : s[i] = h
  BY <1>1, <1>2, ListInOrder
<1>5. Starts(d) \in [1..n -> H] /\ Ascending(Starts(d))
  BY <1>4 DEF Starts, H
<1> DEFINE s == Starts(d)
<1> HIDE DEF s, n
<1>6. s \in Injection(1..n, H)
  <2>1. ASSUME NEW i \in 1..n, NEW j \in 1..n, s[i] = s[j] PROVE i = j
    <3>1. s[i] \in Nat /\ s[j] \in Nat
      BY <1>3a, <1>5 DEF s
    <3>2. i < j \/ j < i \/ i = j
      BY <1>3
    <3>3. DOMAIN s = 1..n /\ Ascending(s)
      BY <1>5 DEF s
    <3> QED
      BY <2>1, <3>1, <3>2, <3>3 DEF Ascending
  <2> QED
    BY <1>5, <2>1 DEF Injection, IsInjective, s
<1>7. Cardinality(1..n) = Cardinality(H)
  BY <1>3, FS_Interval DEF n
<1>8. s \in Surjection(1..n, H)
  BY <1>3, <1>6, <1>7, FS_Injection
<1>9. \A h \in H : \E i \in 1..n : s[i] = h
  BY <1>8 DEF Surjection
<1>10. Chapters(d) = 1..n
  BY <1>5 DEF Chapters
<1> QED
  BY <1>2, <1>3, <1>5, <1>9, <1>10 DEF H, n, s

\* A chapter begins inside the document, before it ends, and where the one before it ends.
LEMMA ChapterPlaces ==
    ASSUME NEW d \in Seq(Blocks), NEW k \in Chapters(d)
    PROVE  /\ k \in Nat \ {0}
           /\ Starts(d)[k] \in 1..Len(d)
           /\ EndOf(d, k) \in 1..(Len(d) + 1)
           /\ Starts(d)[k] < EndOf(d, k)
           /\ k + 1 \in Chapters(d) => EndOf(d, k) = Starts(d)[k + 1]
           /\ k + 1 \notin Chapters(d) => EndOf(d, k) = Len(d) + 1
<1> DEFINE n == Cardinality(Heads(d))
           s == Starts(d)
<1>1. /\ n \in Nat /\ Chapters(d) = 1..n /\ s \in [1..n -> Heads(d)]
      /\ Heads(d) \subseteq 1..Len(d) /\ Ascending(s)
  BY StartsListHeads
<1> HIDE DEF n, s
<1>2. Len(s) = n
  BY <1>1
<1>3. Len(d) \in Nat /\ k \in 1..n /\ s[k] \in 1..Len(d)
  BY <1>1, LenProperties
<1>4. CASE k < n
  <2>1. k + 1 \in 1..n /\ s[k + 1] \in 1..Len(d) /\ s[k] < s[k + 1]
    BY <1>1, <1>3, <1>4 DEF Ascending
  <2>2. EndOf(d, k) = s[k + 1]
    BY <1>2, <1>4 DEF EndOf, s
  <2> QED
    BY <1>1, <1>3, <2>1, <2>2 DEF s
<1>5. CASE ~(k < n)
  <2>1. EndOf(d, k) = Len(d) + 1
    BY <1>2, <1>5 DEF EndOf, s
  <2>2. k + 1 \notin 1..n
    BY <1>1, <1>3, <1>5
  <2> QED
    BY <1>1, <1>3, <2>1, <2>2 DEF s
<1> QED
  BY <1>4, <1>5

\* A document without the blocks from one position up to another.
LEMMA CutDocument ==
    ASSUME NEW S, NEW d \in Seq(S), NEW from \in Int, NEW to \in Int,
           1 <= from, from <= to, to <= Len(d) + 1
    PROVE  /\ Cut(d, from, to) \in Seq(S)
           /\ Len(Cut(d, from, to)) = Len(d) - (to - from)
           /\ \A i \in 1..(Len(d) - (to - from)) :
                Cut(d, from, to)[i] = IF i < from THEN d[i] ELSE d[i + (to - from)]
<1> DEFINE a == SubSeq(d, 1, from - 1)
           b == SubSeq(d, to, Len(d))
<1>1. Len(d) \in Nat /\ \A i \in 1..Len(d) : d[i] \in S
  BY LenProperties, ElementOfSeq
<1>2. /\ a \in Seq(S) /\ Len(a) = from - 1
      /\ \A i \in 1..(from - 1) : a[i] = d[i]
  BY <1>1, SubSeqProperties
<1>3. /\ b \in Seq(S) /\ Len(b) = Len(d) + 1 - to
      /\ \A i \in 1..(Len(d) + 1 - to) : b[i] = d[to + i - 1]
  BY <1>1, SubSeqProperties
<1>4. Cut(d, from, to) = a \o b
  BY DEF Cut
<1> HIDE DEF a, b
<1>5. /\ a \o b \in Seq(S) /\ Len(a \o b) = Len(a) + Len(b)
      /\ \A i \in 1..(Len(a) + Len(b)) :
           (a \o b)[i] = IF i <= Len(a) THEN a[i] ELSE b[i - Len(a)]
  BY <1>2, <1>3, ConcatProperties
<1>6. Len(a) + Len(b) = Len(d) - (to - from)
  BY <1>1, <1>2, <1>3
<1>7. ASSUME NEW i \in 1..(Len(d) - (to - from))
      PROVE  (a \o b)[i] = IF i < from THEN d[i] ELSE d[i + (to - from)]
  <2>1. CASE i < from
    BY <1>2, <1>5, <1>6, <2>1
  <2>2. CASE ~(i < from)
    <3>1. (a \o b)[i] = b[i - Len(a)]
      BY <1>2, <1>5, <1>6, <2>2
    <3>2. i - Len(a) \in 1..(Len(d) + 1 - to) /\ to + (i - Len(a)) - 1 = i + (to - from)
      BY <1>1, <1>2, <2>2
    <3> QED
      BY <1>3, <2>2, <3>1, <3>2
  <2> QED
    BY <2>1, <2>2
<1> QED
  BY <1>4, <1>5, <1>6, <1>7

\* f is d with p before its position at.
WithPart(f, d, at, p) ==
    /\ Len(f) = Len(d) + Len(p)
    /\ \A i \in 1..(Len(d) + Len(p)) :
         f[i] = IF i < at THEN d[i] ELSE IF i < at + Len(p) THEN p[i - (at - 1)]
                ELSE d[i - Len(p)]

\* A document with some blocks inserted at a position.
LEMMA InsertIntoDocument ==
    ASSUME NEW S, NEW d \in Seq(S), NEW p \in Seq(S), NEW at \in 1..(Len(d) + 1)
    PROVE  Insert(d, at, p) \in Seq(S) /\ WithPart(Insert(d, at, p), d, at, p)
<1> DEFINE a == SubSeq(d, 1, at - 1)
           b == SubSeq(d, at, Len(d))
           l == Len(p)
<1>1. Len(d) \in Nat /\ l \in Nat /\ \A i \in 1..Len(d) : d[i] \in S
  BY LenProperties, ElementOfSeq
<1>2. /\ a \in Seq(S) /\ Len(a) = at - 1
      /\ \A i \in 1..(at - 1) : a[i] = d[i]
  BY <1>1, SubSeqProperties
<1>3. /\ b \in Seq(S) /\ Len(b) = Len(d) + 1 - at
      /\ \A i \in 1..(Len(d) + 1 - at) : b[i] = d[at + i - 1]
  BY <1>1, SubSeqProperties
<1>4. Insert(d, at, p) = (a \o p) \o b
  BY DEF Insert
<1> HIDE DEF a, b
<1>5. /\ a \o p \in Seq(S) /\ Len(a \o p) = (at - 1) + l
      /\ \A i \in 1..((at - 1) + l) :
           (a \o p)[i] = IF i <= at - 1 THEN a[i] ELSE p[i - (at - 1)]
  <2>1. /\ a \o p \in Seq(S) /\ Len(a \o p) = Len(a) + Len(p)
        /\ \A i \in 1..(Len(a) + Len(p)) :
             (a \o p)[i] = IF i <= Len(a) THEN a[i] ELSE p[i - Len(a)]
    BY <1>2, ConcatProperties
  <2> QED
    BY <1>2, <2>1
<1> DEFINE ap == a \o p
<1> HIDE DEF ap
<1>6. /\ ap \o b \in Seq(S) /\ Len(ap \o b) = Len(ap) + Len(b)
      /\ \A i \in 1..(Len(ap) + Len(b)) :
           (ap \o b)[i] = IF i <= Len(ap) THEN ap[i] ELSE b[i - Len(ap)]
  <2>1. ap \in Seq(S)
    BY <1>5 DEF ap
  <2> QED
    BY <1>3, <2>1, ConcatProperties
<1>7. Len(ap) = (at - 1) + l /\ Len(ap) + Len(b) = Len(d) + l
  BY <1>1, <1>3, <1>5 DEF ap
<1>8. ASSUME NEW i \in 1..(Len(d) + l)
      PROVE  (ap \o b)[i] = IF i < at THEN d[i] ELSE IF i < at + l THEN p[i - (at - 1)]
                            ELSE d[i - l]
  <2>1. CASE i < at
    <3>1. (ap \o b)[i] = ap[i] /\ i \in 1..(at - 1)
      BY <1>1, <1>6, <1>7, <2>1
    <3>2. ap[i] = a[i]
      BY <1>1, <1>5, <3>1 DEF ap
    <3> QED
      BY <1>2, <2>1, <3>1, <3>2
  <2>2. CASE ~(i < at) /\ i < at + l
    <3>1. (ap \o b)[i] = ap[i] /\ i \in 1..((at - 1) + l) /\ ~(i <= at - 1)
      BY <1>1, <1>6, <1>7, <2>2
    <3>2. ap[i] = p[i - (at - 1)]
      BY <1>5, <3>1 DEF ap
    <3> QED
      BY <2>2, <3>1, <3>2
  <2>3. CASE ~(i < at) /\ ~(i < at + l)
    <3>1. (ap \o b)[i] = b[i - Len(ap)]
      BY <1>1, <1>6, <1>7, <2>3
    <3>2. i - Len(ap) \in 1..(Len(d) + 1 - at) /\ at + (i - Len(ap)) - 1 = i - l
      BY <1>1, <1>7, <2>3
    <3>3. b[i - Len(ap)] = d[i - l]
      BY <1>3, <3>2
    <3> QED
      BY <2>3, <3>1, <3>3
  <2> QED
    BY <2>1, <2>2, <2>3
<1> QED
  BY <1>4, <1>6, <1>7, <1>8 DEF ap, WithPart

\* The document with the blocks from a up to b and those from b up to c exchanged.
Exchanged(d, a, b, c) ==
    [i \in 1..Len(d) |-> IF i < a THEN d[i]
                         ELSE IF i < a + (c - b) THEN d[i + (b - a)]
                         ELSE IF i < c THEN d[i - (c - b)]
                         ELSE d[i]]

\* To cut out the first part and insert it behind the second exchanges them, and so does
\* to cut out the second and insert it before the first.
LEMMA CutAndInsert ==
    ASSUME NEW S, NEW d \in Seq(S), NEW a \in Int, NEW b \in Int, NEW c \in Int,
           1 <= a, a < b, b < c, c <= Len(d) + 1
    PROVE  /\ Exchanged(d, a, b, c) \in Seq(S)
           /\ Insert(Cut(d, a, b), c - (b - a), SubSeq(d, a, b - 1)) = Exchanged(d, a, b, c)
           /\ Insert(Cut(d, b, c), a, SubSeq(d, b, c - 1)) = Exchanged(d, a, b, c)
<1>1. Len(d) \in Nat /\ \A i \in 1..Len(d) : d[i] \in S
  BY LenProperties, ElementOfSeq
<1>2. ASSUME NEW m \in Int, NEW n \in Int, 1 <= m, m < n, n <= Len(d) + 1
      PROVE  /\ SubSeq(d, m, n - 1) \in Seq(S) /\ Len(SubSeq(d, m, n - 1)) = n - m
             /\ \A i \in 1..(n - m) : SubSeq(d, m, n - 1)[i] = d[m + i - 1]
  <2>1. \A i \in m..(n - 1) : d[i] \in S
    BY <1>1, <1>2
  <2>2. (n - 1) - m + 1 = n - m /\ m <= n - 1 /\ n - 1 \in Int
    BY <1>2
  <2>3. /\ SubSeq(d, m, n - 1) \in Seq(S)
        /\ Len(SubSeq(d, m, n - 1)) = IF m <= n - 1 THEN (n - 1) - m + 1 ELSE 0
        /\ \A i \in 1..((n - 1) - m + 1) : SubSeq(d, m, n - 1)[i] = d[m + i - 1]
    BY <2>1, <2>2, SubSeqProperties
  <2> QED
    BY <2>2, <2>3
<1> DEFINE e == Exchanged(d, a, b, c)
<1>3. ASSUME NEW f \in Seq(S), Len(f) = Len(d),
             \A i \in 1..Len(d) : f[i] = IF i < a THEN d[i]
                                         ELSE IF i < a + (c - b) THEN d[i + (b - a)]
                                         ELSE IF i < c THEN d[i - (c - b)]
                                         ELSE d[i]
      PROVE  f = e
  <2>1. f \in [1..Len(d) -> S]
    BY <1>3, LenProperties
  <2> QED
    BY <1>3, <2>1 DEF Exchanged
<1>4. LET f == Insert(Cut(d, a, b), c - (b - a), SubSeq(d, a, b - 1))
      IN  f \in Seq(S) /\ f = e
  <2> DEFINE r == Cut(d, a, b)
             p == SubSeq(d, a, b - 1)
             f == Insert(r, c - (b - a), p)
  <2>1. /\ r \in Seq(S) /\ Len(r) = Len(d) - (b - a)
        /\ \A i \in 1..(Len(d) - (b - a)) : r[i] = IF i < a THEN d[i] ELSE d[i + (b - a)]
    <3>1. a <= b /\ b <= Len(d) + 1
      BY <1>1
    <3> QED
      BY <3>1, CutDocument, SMTT(30)
  <2>2. /\ p \in Seq(S) /\ Len(p) = b - a
        /\ \A i \in 1..(b - a) : p[i] = d[a + i - 1]
    <3>1. b <= Len(d) + 1
      BY <1>1
    <3> QED
      BY <1>2, <3>1
  <2> HIDE DEF r, p
  <2>3. c - (b - a) \in 1..(Len(r) + 1)
    BY <1>1, <2>1
  <2>4. /\ f \in Seq(S) /\ Len(f) = Len(r) + Len(p)
        /\ \A i \in 1..(Len(r) + Len(p)) :
             f[i] = IF i < c - (b - a) THEN r[i]
                    ELSE IF i < (c - (b - a)) + Len(p) THEN p[i - ((c - (b - a)) - 1)]
                    ELSE r[i - Len(p)]
    <3> DEFINE at == c - (b - a)
    <3>1. r \in Seq(S) /\ p \in Seq(S) /\ at \in 1..(Len(r) + 1)
      BY <2>1, <2>2, <2>3
    <3> HIDE DEF at
    <3>2. f \in Seq(S) /\ WithPart(f, r, at, p)
      BY <3>1, InsertIntoDocument DEF at
    <3> QED
      BY <3>2 DEF at, WithPart
  <2> HIDE DEF f
  <2>5. Len(f) = Len(d) /\ Len(r) + Len(p) = Len(d)
    BY <1>1, <2>1, <2>2, <2>4
  <2>6. ASSUME NEW i \in 1..Len(d)
        PROVE  f[i] = IF i < a THEN d[i] ELSE IF i < a + (c - b) THEN d[i + (b - a)]
                      ELSE IF i < c THEN d[i - (c - b)] ELSE d[i]
    <3>1. CASE i < c - (b - a)
      <4>1. f[i] = r[i] /\ i \in 1..(Len(d) - (b - a)) /\ i < a + (c - b)
        BY <1>1, <2>4, <2>5, <3>1
      <4> QED
        BY <2>1, <4>1
    <3>2. CASE ~(i < c - (b - a)) /\ i < c
      <4>1. i < (c - (b - a)) + Len(p)
        BY <1>1, <2>2, <3>2
      <4>2. f[i] = p[i - ((c - (b - a)) - 1)]
        BY <2>4, <2>5, <3>2, <4>1
      <4>3. i - ((c - (b - a)) - 1) \in 1..(b - a)
        BY <1>1, <3>2
      <4>4. a + (i - ((c - (b - a)) - 1)) - 1 = i - (c - b)
        BY <1>1
      <4>5. f[i] = d[i - (c - b)]
        BY <2>2, <4>2, <4>3, <4>4
      <4> QED
        BY <1>1, <3>2, <4>5
    <3>3. CASE ~(i < c)
      <4>1. ~(i < c - (b - a)) /\ ~(i < (c - (b - a)) + Len(p))
        BY <1>1, <2>2, <3>3
      <4>2. f[i] = r[i - (b - a)]
        BY <2>2, <2>4, <2>5, <4>1
      <4>3. i - (b - a) \in 1..(Len(d) - (b - a)) /\ ~(i - (b - a) < a)
            /\ (i - (b - a)) + (b - a) = i
        BY <1>1, <3>3
      <4>4. f[i] = d[i]
        BY <2>1, <4>2, <4>3
      <4> QED
        BY <1>1, <3>3, <4>4
    <3> QED
      BY <1>1, <3>1, <3>2, <3>3
  <2> HIDE DEF e
  <2> QED
    BY <1>3, <2>4, <2>5, <2>6 DEF f, r, p
<1>5. Insert(Cut(d, b, c), a, SubSeq(d, b, c - 1)) = e
  <2> DEFINE r == Cut(d, b, c)
             p == SubSeq(d, b, c - 1)
             f == Insert(r, a, p)
  <2>1. /\ r \in Seq(S) /\ Len(r) = Len(d) - (c - b)
        /\ \A i \in 1..(Len(d) - (c - b)) : r[i] = IF i < b THEN d[i] ELSE d[i + (c - b)]
    <3>1. 1 <= b /\ b <= c
      BY <1>1
    <3> QED
      BY <3>1, CutDocument
  <2>2. /\ p \in Seq(S) /\ Len(p) = c - b
        /\ \A i \in 1..(c - b) : p[i] = d[b + i - 1]
    <3>1. 1 <= b
      BY <1>1
    <3> QED
      BY <1>2, <3>1
  <2> HIDE DEF r, p
  <2>3. a \in 1..(Len(r) + 1)
    BY <1>1, <2>1
  <2>4. /\ f \in Seq(S) /\ Len(f) = Len(r) + Len(p)
        /\ \A i \in 1..(Len(r) + Len(p)) :
             f[i] = IF i < a THEN r[i] ELSE IF i < a + Len(p) THEN p[i - (a - 1)]
                    ELSE r[i - Len(p)]
    <3>1. r \in Seq(S) /\ p \in Seq(S)
      BY <2>1, <2>2
    <3>2. f \in Seq(S) /\ WithPart(f, r, a, p)
      BY <2>3, <3>1, InsertIntoDocument
    <3> QED
      BY <3>2 DEF WithPart
  <2> HIDE DEF f
  <2>5. Len(f) = Len(d) /\ Len(r) + Len(p) = Len(d)
    BY <1>1, <2>1, <2>2, <2>4
  <2>6. ASSUME NEW i \in 1..Len(d)
        PROVE  f[i] = IF i < a THEN d[i] ELSE IF i < a + (c - b) THEN d[i + (b - a)]
                      ELSE IF i < c THEN d[i - (c - b)] ELSE d[i]
    <3>1. CASE i < a
      <4>1. f[i] = r[i] /\ i \in 1..(Len(d) - (c - b)) /\ i < b
        BY <1>1, <2>4, <2>5, <3>1
      <4> QED
        BY <2>1, <3>1, <4>1
    <3>2. CASE ~(i < a) /\ i < a + (c - b)
      <4>1. f[i] = p[i - (a - 1)]
        BY <2>2, <2>4, <2>5, <3>2
      <4>2. i - (a - 1) \in 1..(c - b) /\ b + (i - (a - 1)) - 1 = i + (b - a)
        BY <1>1, <3>2
      <4>3. f[i] = d[i + (b - a)]
        BY <2>2, <4>1, <4>2
      <4> QED
        BY <3>2, <4>3
    <3>3. CASE ~(i < a + (c - b))
      <4>0. ~(i < a)
        BY <1>1, <3>3
      <4>1. f[i] = r[i - (c - b)]
        BY <2>2, <2>4, <2>5, <3>3, <4>0
      <4>2. i - (c - b) \in 1..(Len(d) - (c - b)) /\ (i - (c - b)) + (c - b) = i
            /\ (i - (c - b) < b <=> i < c)
        BY <1>1, <3>3
      <4>3. f[i] = IF i < c THEN d[i - (c - b)] ELSE d[i]
        BY <2>1, <4>1, <4>2
      <4> QED
        BY <3>3, <4>0, <4>3
    <3> QED
      BY <1>1, <3>1, <3>2, <3>3
  <2> HIDE DEF e
  <2> QED
    BY <1>3, <2>4, <2>5, <2>6 DEF f, r, p
<1> QED
  BY <1>4, <1>5

\* No heading stands inside a chapter.
LEMMA NoHeadInside ==
    ASSUME NEW d \in Seq(Blocks), NEW k \in Chapters(d), NEW h \in Heads(d),
           Starts(d)[k] < h
    PROVE  EndOf(d, k) <= h
<1> DEFINE n == Cardinality(Heads(d))
           s == Starts(d)
<1>1. /\ n \in Nat /\ Chapters(d) = 1..n /\ s \in [1..n -> Heads(d)]
      /\ Heads(d) \subseteq 1..Len(d) /\ Ascending(s)
      /\ \A g \in Heads(d) : \E i \in Chapters(d) : s[i] = g
  BY StartsListHeads
<1>2. /\ k + 1 \in 1..n => EndOf(d, k) = s[k + 1]
      /\ k \in Nat
  BY <1>1, ChapterPlaces
<1> HIDE DEF n, s
<1>3. PICK i \in 1..n : s[i] = h
  BY <1>1
<1>4. Len(d) \in Nat /\ \A g \in Heads(d) : g \in Nat
  BY <1>1, LenProperties
<1>5. DOMAIN s = 1..n /\ k \in 1..n /\ s[k] < s[i] /\ \A l \in 1..n : s[l] \in Nat
  BY <1>1, <1>3, <1>4 DEF s
<1>6. k < i
  <2>1. ~(i = k)
    BY <1>5
  <2>2. ~(i < k)
    <3> SUFFICES ASSUME i < k PROVE FALSE
      OBVIOUS
    <3>1. s[i] < s[k]
      BY <1>1, <1>5 DEF Ascending
    <3> QED
      BY <1>5, <3>1
  <2> QED
    BY <1>1, <1>5, <2>1, <2>2
<1>7. k + 1 \in 1..n
  BY <1>1, <1>5, <1>6
<1>8. s[k + 1] <= s[i]
  <2>1. CASE k + 1 = i
    BY <1>5, <2>1
  <2>2. CASE k + 1 < i
    BY <1>1, <1>5, <1>7, <2>2 DEF Ascending
  <2> QED
    BY <1>1, <1>5, <1>6, <2>1, <2>2
<1> QED
  BY <1>2, <1>3, <1>7, <1>8

\* The blocks from m to n of one document stand k places further on in the other.
Shifted(d, m, n, e, k) == \A i \in m..n : d[i] = e[i + k]

\* Two stretches of the same blocks are the same.
LEMMA SameStretch ==
    ASSUME NEW S, NEW d \in Seq(S), NEW e \in Seq(S),
           NEW m \in Int, NEW n \in Int, NEW x \in Int, NEW y \in Int, NEW k \in Int,
           1 <= m, n <= Len(d), 1 <= x, y <= Len(e), x = m + k, y = n + k,
           Shifted(d, m, n, e, k)
    PROVE  SubSeq(d, m, n) = SubSeq(e, x, y)
<1>0. y - x = n - m /\ \A i \in m..n : d[i] = e[i + k]
  BY DEF Shifted
<1>1. /\ Len(d) \in Nat /\ \A i \in 1..Len(d) : d[i] \in S
      /\ Len(e) \in Nat /\ \A i \in 1..Len(e) : e[i] \in S
  BY LenProperties, ElementOfSeq
<1> DEFINE s == SubSeq(d, m, n)
           t == SubSeq(e, x, y)
<1>2. /\ s \in Seq(S) /\ Len(s) = IF m <= n THEN n - m + 1 ELSE 0
      /\ \A i \in 1..(n - m + 1) : s[i] = d[m + i - 1]
  BY <1>1, SubSeqProperties
<1>3. /\ t \in Seq(S) /\ Len(t) = IF x <= y THEN y - x + 1 ELSE 0
      /\ \A i \in 1..(y - x + 1) : t[i] = e[x + i - 1]
  BY <1>1, SubSeqProperties
<1> HIDE DEF s, t
<1>4. Len(s) = Len(t)
  BY <1>0, <1>2, <1>3
<1>5. ASSUME NEW i \in 1..Len(s) PROVE s[i] = t[i]
  <2>1. i \in 1..(n - m + 1) /\ i \in 1..(y - x + 1)
    BY <1>0, <1>2
  <2>2. m + i - 1 \in m..n /\ (m + i - 1) + k = x + i - 1
    BY <2>1
  <2>3. s[i] = d[m + i - 1] /\ t[i] = e[x + i - 1]
    BY <1>2, <1>3, <2>1
  <2> QED
    BY <1>0, <2>2, <2>3
<1>6. s = t
  BY <1>2, <1>3, <1>4, <1>5, SeqEqual
<1> QED
  BY <1>6 DEF s, t

\* After the exchange the second chapter begins where the first did, and the first behind
\* it; every other chapter begins where it did.
LEMMA StartsExchanged ==
    ASSUME NEW d \in Seq(Blocks), NEW j \in Chapters(d), j + 1 \in Chapters(d),
           NEW a, a = Starts(d)[j], NEW b, b = Starts(d)[j + 1], NEW c, c = EndOf(d, j + 1),
           NEW e, e = Exchanged(d, a, b, c)
    PROVE  /\ e \in Seq(Blocks) /\ Len(e) = Len(d)
           /\ Starts(e) = [Starts(d) EXCEPT ![j + 1] = a + (c - b)]
<1> DEFINE n == Cardinality(Heads(d))
           s == Starts(d)
           H == Heads(d)
           G == Heads(e)
           t == [s EXCEPT ![j + 1] = a + (c - b)]
<1>1. /\ n \in Nat /\ Chapters(d) = 1..n /\ s \in [1..n -> H]
      /\ H \subseteq 1..Len(d) /\ Ascending(s) /\ Len(d) \in Nat
      /\ \A h \in H : \E i \in 1..n : s[i] = h
  BY StartsListHeads, LenProperties
<1>2. /\ j \in 1..n /\ j + 1 \in 1..n
      /\ a \in 1..Len(d) /\ b \in 1..Len(d) /\ c \in 1..(Len(d) + 1) /\ a < b /\ b < c
      /\ EndOf(d, j) = b
  BY <1>1, ChapterPlaces
<1>3. e \in Seq(Blocks)
  BY <1>2, CutAndInsert
<1>4. /\ DOMAIN e = 1..Len(d) /\ Len(e) = Len(d)
      /\ \A i \in 1..Len(d) : e[i] = IF i < a THEN d[i]
                                     ELSE IF i < a + (c - b) THEN d[i + (b - a)]
                                     ELSE IF i < c THEN d[i - (c - b)]
                                     ELSE d[i]
  <2>1. DOMAIN e = 1..Len(d)
    BY DEF Exchanged
  <2>2. DOMAIN e = 1..Len(e) /\ Len(e) \in Nat
    BY <1>3, LenProperties
  <2>3. Len(e) = Len(d)
    BY <1>1, <2>1, <2>2
  <2> QED
    BY <2>1, <2>3 DEF Exchanged
<1>5. \A i \in 1..Len(d) : i \in H <=> d[i].h
  BY LenProperties DEF Heads
<1>6. \A i \in 1..Len(d) : i \in G <=> e[i].h
  BY <1>4 DEF Heads
<1>7. G \subseteq 1..Len(d)
  BY <1>4 DEF Heads
<1>8. a \in H /\ b \in H
  BY <1>1, <1>2
<1>9. \A h \in H : ~(a < h /\ h < b) /\ ~(b < h /\ h < c)
  <2>1. ASSUME NEW h \in H PROVE ~(a < h /\ h < b) /\ ~(b < h /\ h < c)
    <3>1. a < h => b <= h
      BY <1>2, NoHeadInside
    <3>2. b < h => c <= h
      BY <1>2, NoHeadInside
    <3>3. h \in Nat
      BY <1>1
    <3> QED
      BY <1>2, <3>1, <3>2, <3>3
  <2> QED
    BY <2>1
<1> HIDE DEF n, s, H, G
<1>10. G = (H \ {b}) \cup {a + (c - b)}
  <2>1. ASSUME NEW i \in 1..Len(d) PROVE i \in G <=> i \in (H \ {b}) \cup {a + (c - b)}
    <3>1. CASE i < a
      <4>1. e[i] = d[i] /\ i # b /\ i # a + (c - b)
        BY <1>2, <1>4, <3>1
      <4> QED
        BY <1>5, <1>6, <4>1
    <3>2. CASE ~(i < a) /\ i < a + (c - b)
      <4>0. i + (b - a) \in 1..Len(d) /\ i # a + (c - b) /\ b <= i + (b - a) /\ i + (b - a) < c
        BY <1>1, <1>2, <3>2
      <4>1. e[i] = d[i + (b - a)] /\ i + (b - a) \in 1..Len(d) /\ i # a + (c - b)
            /\ b <= i + (b - a) /\ i + (b - a) < c
        BY <1>4, <3>2, <4>0
      <4>2. i \in G <=> i + (b - a) \in H
        BY <1>5, <1>6, <4>1
      <4>3. i + (b - a) \in H <=> i = a
        <5>1. i = a => i + (b - a) = b
          BY <1>2
        <5>2. i # a => b < i + (b - a)
          BY <1>2, <3>2
        <5> QED
          BY <1>8, <1>9, <4>1, <5>1, <5>2
      <4>4. CASE i = a
        BY <1>2, <1>8, <4>2, <4>3, <4>4
      <4>5. CASE i # a
        <5>1. i \notin H \/ i = b
          <6>1. a < i /\ i < c /\ (i < b \/ i = b \/ b < i)
            BY <1>2, <3>2, <4>1, <4>5, SMTT(30)
          <6> QED
            BY <1>9, <6>1
        <5> QED
          BY <4>1, <4>2, <4>3, <4>5, <5>1
      <4> QED
        BY <4>4, <4>5
    <3>3. CASE ~(i < a + (c - b)) /\ i < c
      <4>0. i - (c - b) \in 1..Len(d) /\ ~(i < a) /\ a <= i - (c - b) /\ i - (c - b) < b
        <5>1. /\ Len(d) \in Nat /\ a \in Int /\ b \in Int /\ c \in Int /\ i \in Int
              /\ 1 <= a /\ a < b /\ b < c /\ i <= Len(d)
          BY <1>1, <1>2
        <5>2. a <= i - (c - b) /\ i - (c - b) < b /\ i - (c - b) <= i
          BY <3>3, <5>1
        <5> QED
          BY <5>1, <5>2
      <4>1. e[i] = d[i - (c - b)] /\ i - (c - b) \in 1..Len(d) /\ ~(i < a)
            /\ a <= i - (c - b) /\ i - (c - b) < b
        BY <1>4, <3>3, <4>0
      <4>2. i \in G <=> i - (c - b) \in H
        BY <1>5, <1>6, <4>1
      <4>3. i - (c - b) \in H <=> i = a + (c - b)
        <5>1. i = a + (c - b) => i - (c - b) = a
          BY <1>2
        <5>2. i # a + (c - b) => a < i - (c - b)
          BY <1>2, <3>3
        <5> QED
          BY <1>8, <1>9, <4>1, <5>1, <5>2
      <4>4. i \notin H \ {b}
        <5>1. a < i
          BY <1>2, <3>3
        <5> QED
          BY <1>2, <1>9, <3>3, <5>1
      <4> QED
        BY <4>2, <4>3, <4>4
    <3>4. CASE ~(i < c)
      <4>1. e[i] = d[i] /\ i # b /\ i # a + (c - b)
        BY <1>1, <1>2, <1>4, <3>4, SMTT(30)
      <4> QED
        BY <1>5, <1>6, <4>1
    <3> QED
      BY <1>2, <3>1, <3>2, <3>3, <3>4
  <2>2. (H \ {b}) \cup {a + (c - b)} \subseteq 1..Len(d)
    <3>1. a + (c - b) \in 1..Len(d)
      BY <1>1, <1>2
    <3> QED
      BY <1>1, <3>1 DEF H
  <2> QED
    BY <1>7, <2>1, <2>2
<1>11. /\ \A i \in 1..n : s[i] \in H /\ s[i] \in 1..Len(d)
       /\ \A i, k \in 1..n : i < k => s[i] < s[k]
       /\ DOMAIN s = 1..n
  BY <1>1 DEF Ascending, H, s, n
<1>12. /\ DOMAIN t = 1..n /\ t[j + 1] = a + (c - b)
       /\ \A i \in 1..n : i # j + 1 => t[i] = s[i] /\ t[i] # b
  <2>1. \A i \in 1..n : i # j + 1 => s[i] # b
    <3>1. ASSUME NEW i \in 1..n, i # j + 1 PROVE s[i] # b
      <4>1. i < j + 1 \/ j + 1 < i
        BY <1>1, <1>2, <3>1 DEF n
      <4>2. s[i] < b \/ b < s[i]
        BY <1>2, <1>11, <4>1 DEF s, n
      <4> QED
        BY <1>2, <4>2
    <3> QED
      BY <3>1
  <2> QED
    BY <1>2, <1>11, <2>1 DEF n
<1> HIDE DEF t
<1>13. t \in [1..n -> G]
  <2>1. \A i \in 1..n : t[i] \in G
    BY <1>10, <1>11, <1>12
  <2>2. t = [i \in 1..n |-> t[i]]
    BY <1>12 DEF t
  <2> QED
    BY <2>1, <2>2
<1>14. ASSUME NEW i \in 1..n, NEW k \in 1..n, i < k PROVE t[i] < t[k]
  <2>1. s[i] < s[k] /\ s[i] \in 1..Len(d) /\ s[k] \in 1..Len(d)
    BY <1>11, <1>14
  <2>2. CASE i # j + 1 /\ k # j + 1
    BY <1>12, <2>1, <2>2
  <2>3. CASE k = j + 1
    <3>1. i = j \/ i < j
      BY <1>1, <1>2, <1>14, <2>3 DEF n
    <3>2. s[i] <= a
      BY <1>2, <1>11, <3>1, <2>1 DEF s, n
    <3>3. t[i] = s[i] /\ t[k] = a + (c - b)
      BY <1>12, <1>14, <2>3
    <3> QED
      BY <1>2, <2>1, <3>2, <3>3
  <2>4. CASE i = j + 1
    <3>1. s[k] \in H /\ b < s[k]
      BY <1>11, <2>1, <2>4 DEF s
    <3>2. c <= s[k]
      BY <1>2, <1>9, <2>1, <3>1
    <3>3. t[k] = s[k] /\ t[i] = a + (c - b)
      BY <1>12, <1>14, <2>4
    <3> QED
      BY <1>2, <2>1, <3>2, <3>3
  <2> QED
    BY <2>2, <2>3, <2>4
<1>15. Ascending(t)
  BY <1>12, <1>14 DEF Ascending
<1>16. \A g \in G : \E i \in 1..n : t[i] = g
  <2>1. ASSUME NEW g \in G PROVE \E i \in 1..n : t[i] = g
    <3>1. CASE g = a + (c - b)
      BY <1>2, <1>12, <3>1 DEF n
    <3>2. CASE g # a + (c - b)
      <4>1. g \in H /\ g # b
        BY <1>10, <3>2
      <4>2. PICK i \in 1..n : s[i] = g
        BY <1>1, <4>1 DEF s, n, H
      <4>3. i # j + 1
        BY <4>1, <4>2 DEF s
      <4> QED
        BY <1>12, <4>2, <4>3
    <3> QED
      BY <3>1, <3>2
  <2> QED
    BY <2>1
<1>17. Cardinality(G) = n
  <2>1. t \in Surjection(1..n, G)
    BY <1>13, <1>16 DEF Surjection
  <2>2. t \in Injection(1..n, G)
    <3>1. ASSUME NEW i \in 1..n, NEW k \in 1..n, t[i] = t[k] PROVE i = k
      <4>1. t[i] \in Nat /\ t[k] \in Nat
        BY <1>7, <1>13 DEF G
      <4>2. i = k \/ i < k \/ k < i
        OBVIOUS
      <4> QED
        BY <1>14, <3>1, <4>1, <4>2
    <3> QED
      BY <1>12, <1>13, <3>1 DEF Injection, IsInjective
  <2>3. ExistsBijection(1..n, G) /\ n \in Nat
    BY <1>1, <2>1, <2>2 DEF ExistsBijection, Bijection, n
  <2> QED
    BY <2>3, FS_CountingElements
<1>18. /\ Starts(e) \in [1..n -> G] /\ Ascending(Starts(e))
       /\ \A g \in G : \E i \in 1..n : Starts(e)[i] = g
  BY <1>3, <1>17, StartsListHeads DEF G
<1>19. Starts(e) = t
  <2>1. G \in SUBSET Nat /\ n \in Nat
    BY <1>1, <1>7 DEF n, G
  <2> QED
    BY <1>13, <1>15, <1>16, <1>18, <2>1, OneOrder
<1> QED
  BY <1>3, <1>4, <1>19 DEF t, s

\* The document with a chapter and the next one exchanged.
Moved(d, j) == Exchanged(d, Starts(d)[j], Starts(d)[j + 1], EndOf(d, j + 1))

\* After the exchange the preface is the same, and so is every chapter but the two, which
\* have changed places.
LEMMA ContentsExchanged ==
    ASSUME NEW d \in Seq(Blocks), NEW j \in Chapters(d), j + 1 \in Chapters(d)
    PROVE  /\ Moved(d, j) \in Seq(Blocks)
           /\ Preface(Moved(d, j)) = Preface(d)
           /\ Contents(Moved(d, j)) = Swapped(Contents(d), j, j + 1)
<1> DEFINE n == Cardinality(Heads(d))
           s == Starts(d)
           a == s[j]
           b == s[j + 1]
           c == EndOf(d, j + 1)
           e == Moved(d, j)
           t == Starts(e)
<1>1. /\ n \in Nat /\ Chapters(d) = 1..n /\ Len(d) \in Nat /\ DOMAIN s = 1..n
      /\ \A i, k \in 1..n : i < k => s[i] < s[k]
  BY StartsListHeads, LenProperties DEF Ascending
<1>2. /\ j \in 1..n /\ j + 1 \in 1..n /\ j \in Nat
      /\ a \in 1..Len(d) /\ b \in 1..Len(d) /\ c \in 1..(Len(d) + 1) /\ a < b /\ b < c
      /\ EndOf(d, j) = b
  BY <1>1, ChapterPlaces
<1>3. \A i \in 1..n : /\ s[i] \in 1..Len(d) /\ EndOf(d, i) \in 1..(Len(d) + 1)
                      /\ s[i] < EndOf(d, i)
                      /\ EndOf(d, i) = IF i < n THEN s[i + 1] ELSE Len(d) + 1
  <2>1. ASSUME NEW i \in 1..n
        PROVE  /\ s[i] \in 1..Len(d) /\ EndOf(d, i) \in 1..(Len(d) + 1) /\ s[i] < EndOf(d, i)
               /\ EndOf(d, i) = IF i < n THEN s[i + 1] ELSE Len(d) + 1
    <3>1. i < n => i + 1 \in Chapters(d)
      BY <1>1
    <3>2. ~(i < n) => i + 1 \notin Chapters(d)
      BY <1>1
    <3> QED
      BY <1>1, <3>1, <3>2, ChapterPlaces
  <2> QED
    BY <2>1
<1>4. /\ e \in Seq(Blocks) /\ Len(e) = Len(d) /\ t = [s EXCEPT ![j + 1] = a + (c - b)]
  BY StartsExchanged DEF Moved
<1>6. Chapters(e) = 1..n
  BY <1>1, <1>4 DEF Chapters
<1>2a. /\ a \in Int /\ b \in Int /\ c \in Int /\ 1 <= a /\ 1 <= b /\ c - 1 <= Len(d)
       /\ a < b /\ b < c /\ Len(d) \in Int /\ b <= Len(d) /\ a <= Len(d)
  BY <1>1, <1>2
<1>2b. Len(e) = Len(d)
  BY <1>4
<1>2c. e \in Seq(Blocks)
  BY <1>4
<1>7. /\ Len(s) = n /\ Len(t) = n
      /\ t[j + 1] = a + (c - b) /\ \A i \in 1..n : i # j + 1 => t[i] = s[i]
  <2>1. s \in [1..n -> Int]
    BY <1>1, <1>3, StartsListHeads
  <2>2. t \in [1..n -> Int] /\ t[j + 1] = a + (c - b) /\ \A i \in 1..n : i # j + 1 => t[i] = s[i]
    <3>1. a + (c - b) \in Int
      BY <1>2a
    <3>2. j + 1 \in 1..n
      BY <1>2
    <3> HIDE DEF s, t, n, a, b, c
    <3> QED
      BY <1>4, <2>1, <3>1, <3>2
  <2> QED
    BY <1>1, <2>1, <2>2
<1>8. \A i \in 1..n : EndOf(e, i) = IF i < n THEN t[i + 1] ELSE Len(d) + 1
  BY <1>4, <1>7 DEF EndOf
<1>9. \A i \in 1..n : Slice(d, i) = SubSeq(d, s[i], EndOf(d, i) - 1)
                      /\ Slice(e, i) = SubSeq(e, t[i], EndOf(e, i) - 1)
  BY DEF Slice
<1>10. s[j] = a /\ s[j + 1] = b /\ c = EndOf(d, j + 1) /\ e = Exchanged(d, a, b, c)
  BY DEF Moved
<1> HIDE DEF n, s, t, a, b, c, e

<1>10c. /\ SubSeq(d, b, c - 1) = SubSeq(e, a, (a + (c - b)) - 1)
        /\ SubSeq(d, a, b - 1) = SubSeq(e, a + (c - b), c - 1)
        /\ \A m, q \in Int : 1 <= m /\ q <= Len(d) /\ (q < a \/ c <= m)
                             => SubSeq(d, m, q) = SubSeq(e, m, q)
  <2> DEFINE g == a + (c - b)
  <2>1. Len(d) \in Nat /\ 1 <= a /\ c - 1 <= Len(d) /\ a \in Int /\ b \in Int /\ c \in Int
        /\ a < b /\ b < c /\ Len(e) = Len(d) /\ d \in Seq(Blocks) /\ e \in Seq(Blocks)
    BY <1>1, <1>2a, <1>2b, <1>2c
  <2>1c. Len(d) \in Nat /\ 1 <= a /\ c - 1 <= Len(d) /\ a \in Int /\ b \in Int /\ c \in Int
         /\ a < b /\ b < c
    BY <2>1
  <2>1b. g \in Int /\ 1 <= g /\ a < g /\ g < c /\ (c - 1) - g = (b - 1) - a /\ g - a = c - b
    BY <2>1c
  <2>1a. \A i \in 1..Len(d) : e[i] = IF i < a THEN d[i] ELSE IF i < g THEN d[i + (b - a)]
                                     ELSE IF i < c THEN d[i - (c - b)] ELSE d[i]
    BY <1>10 DEF Exchanged
  <2> HIDE DEF g
  <2>2. SubSeq(d, b, c - 1) = SubSeq(e, a, g - 1)
    <3>1. ASSUME NEW i \in b..(c - 1) PROVE d[i] = e[i + (a - b)]
      <4>1. /\ i + (a - b) \in 1..Len(d) /\ ~(i + (a - b) < a) /\ i + (a - b) < g
            /\ (i + (a - b)) + (b - a) = i
        BY <2>1c, <2>1b
      <4> QED
        BY <2>1a, <4>1
    <3>2. Shifted(d, b, c - 1, e, a - b)
      BY <3>1 DEF Shifted
    <3>3. /\ c - 1 \in Int /\ g - 1 \in Int /\ a - b \in Int /\ 1 <= b /\ g - 1 <= Len(e)
          /\ a = b + (a - b) /\ g - 1 = (c - 1) + (a - b)
      BY <2>1c, <2>1b, <2>1
    <3> DEFINE n1 == c - 1
               y == g - 1
               k == a - b
    <3>4. /\ n1 \in Int /\ y \in Int /\ k \in Int /\ 1 <= b /\ n1 <= Len(d) /\ 1 <= a
          /\ y <= Len(e) /\ a = b + k /\ y = n1 + k
      BY <2>1c, <3>3
    <3>5. d \in Seq(Blocks) /\ e \in Seq(Blocks) /\ b \in Int /\ a \in Int
          /\ Shifted(d, b, n1, e, k)
      BY <2>1, <3>2
    <3> HIDE DEF n1, y, k
    <3>6. SubSeq(d, b, n1) = SubSeq(e, a, y)
      BY <3>4, <3>5, SameStretch
    <3> QED
      BY <3>6 DEF n1, y
  <2>3. SubSeq(d, a, b - 1) = SubSeq(e, g, c - 1)
    <3>1. ASSUME NEW i \in a..(b - 1) PROVE d[i] = e[i + (g - a)]
      <4>1. /\ i + (g - a) \in 1..Len(d) /\ ~(i + (g - a) < a) /\ ~(i + (g - a) < g)
            /\ i + (g - a) < c /\ (i + (g - a)) - (c - b) = i
        BY <2>1c, <2>1b
      <4> QED
        BY <2>1a, <4>1
    <3>2. Shifted(d, a, b - 1, e, g - a)
      BY <3>1 DEF Shifted
    <3>3. /\ c - 1 \in Int /\ b - 1 \in Int /\ g - a \in Int /\ b - 1 <= Len(d)
          /\ c - 1 <= Len(e) /\ g = a + (g - a) /\ c - 1 = (b - 1) + (g - a)
      BY <2>1c, <2>1b, <2>1
    <3> QED
      BY <2>1, <2>1b, <3>2, <3>3, SameStretch
  <2>4. ASSUME NEW m \in Int, NEW q \in Int, 1 <= m, q <= Len(d), q < a \/ c <= m
        PROVE  SubSeq(d, m, q) = SubSeq(e, m, q)
    <3>1. ASSUME NEW i \in m..q PROVE d[i] = e[i + 0]
      <4>1. i \in 1..Len(d) /\ i + 0 = i /\ (i < a \/ (~(i < a) /\ ~(i < g) /\ ~(i < c)))
        BY <2>1c, <2>1b, <2>4
      <4> QED
        BY <2>1a, <4>1
    <3>2. Shifted(d, m, q, e, 0)
      BY <3>1 DEF Shifted
    <3>3. 1 <= m /\ q <= Len(d) /\ q <= Len(e) /\ m = m + 0 /\ q = q + 0
      BY <2>1, <2>4
    <3> QED
      BY <2>1, <3>2, <3>3, SameStretch
  <2> QED
    BY <2>2, <2>3, <2>4 DEF g
<1>11. Slice(e, j) = Slice(d, j + 1)
  <2>1. t[j] = a /\ EndOf(e, j) = a + (c - b)
    BY <1>1, <1>2, <1>7, <1>8, <1>10
  <2> QED
    <3>1. Slice(e, j) = SubSeq(e, a, (a + (c - b)) - 1)
      BY <1>2, <1>9, <2>1
    <3>2. Slice(d, j + 1) = SubSeq(d, b, c - 1)
      BY <1>2, <1>9, <1>10
    <3> QED
      BY <1>10c, <3>1, <3>2
<1>12. Slice(e, j + 1) = Slice(d, j)
  <2>1. t[j + 1] = a + (c - b) /\ EndOf(e, j + 1) = c
    <3>1. t[j + 1] = a + (c - b)
      BY <1>7
    <3>2. CASE j + 1 < n
      <4>1. (j + 1) + 1 \in 1..n /\ (j + 1) + 1 # j + 1
        BY <1>1, <1>2, <3>2
      <4>2. t[(j + 1) + 1] = s[(j + 1) + 1]
        BY <1>7, <4>1
      <4> QED
        BY <1>2, <1>3, <1>8, <1>10, <3>1, <3>2, <4>2
    <3>3. CASE ~(j + 1 < n)
      BY <1>2, <1>3, <1>8, <1>10, <3>1, <3>3
    <3> QED
      BY <3>2, <3>3
  <2>2. Slice(e, j + 1) = SubSeq(e, a + (c - b), c - 1)
    BY <1>2, <1>9, <2>1
  <2>3. Slice(d, j) = SubSeq(d, a, b - 1)
    BY <1>2, <1>9, <1>10
  <2> QED
    BY <1>10c, <2>2, <2>3
<1>14. ASSUME NEW i \in 1..n, i # j, i # j + 1 PROVE Slice(e, i) = Slice(d, i)
  <2>1. t[i] = s[i]
    BY <1>7, <1>14
  <2>2. EndOf(e, i) = EndOf(d, i)
    <3>1. i < n => i + 1 \in 1..n /\ i + 1 # j + 1
      BY <1>1, <1>2, <1>14 DEF n
    <3> QED
      BY <1>3, <1>7, <1>8, <3>1
  <2>3. /\ s[i] \in 1..Len(d) /\ EndOf(d, i) \in 1..(Len(d) + 1)
    BY <1>3
  <2>4. EndOf(d, i) - 1 < a \/ c <= s[i]
    <3>1. CASE i < j
      <4>1. i < n /\ i + 1 \in 1..n /\ (i + 1 = j \/ i + 1 < j)
        BY <1>1, <1>2, <3>1 DEF n
      <4>2. EndOf(d, i) = s[i + 1] /\ s[i + 1] \in 1..Len(d)
        BY <1>3, <4>1
      <4>3. s[i + 1] <= a
        <5>1. i + 1 < j => s[i + 1] < s[j]
          BY <1>1, <1>2, <4>1 DEF n, s
        <5> QED
          BY <1>2a, <1>10, <4>1, <4>2, <5>1
      <4> QED
        BY <1>2, <4>2, <4>3
    <3>2. CASE j + 1 < i
      <4>1. j + 1 < n /\ (j + 1) + 1 \in 1..n /\ ((j + 1) + 1 = i \/ (j + 1) + 1 < i)
        BY <1>1, <1>2, <3>2 DEF n
      <4>2. c = s[(j + 1) + 1]
        BY <1>2, <1>3, <1>10, <4>1
      <4> QED
        BY <1>1, <1>2, <2>3, <4>1, <4>2
    <3> QED
      BY <1>1, <1>2, <1>14, <3>1, <3>2 DEF n
  <2>5. SubSeq(e, s[i], EndOf(d, i) - 1) = SubSeq(d, s[i], EndOf(d, i) - 1)
    <3>1. s[i] \in Int /\ EndOf(d, i) - 1 \in Int /\ 1 <= s[i] /\ EndOf(d, i) - 1 <= Len(d)
      BY <1>1, <2>3
    <3> QED
      BY <1>10c, <2>4, <3>1
  <2> QED
    BY <1>9, <2>1, <2>2, <2>5
<1>15. Contents(e) = Swapped(Contents(d), j, j + 1)
  <2>1. Contents(d) = [k \in 1..n |-> Slice(d, k)] /\ Contents(e) = [k \in 1..n |-> Slice(e, k)]
    BY <1>1, <1>6 DEF Contents, n
  <2>2. j # j + 1
    BY <1>2
  <2>3. Swapped(Contents(d), j, j + 1)
          = [k \in 1..n |-> IF k = j THEN Slice(d, j + 1) ELSE IF k = j + 1 THEN Slice(d, j)
                            ELSE Slice(d, k)]
    BY <1>2, <2>1, <2>2 DEF Swapped
  <2>4. \A k \in 1..n : Slice(e, k) = IF k = j THEN Slice(d, j + 1)
                                      ELSE IF k = j + 1 THEN Slice(d, j) ELSE Slice(d, k)
    BY <1>11, <1>12, <1>14
  <2> QED
    BY <2>1, <2>3, <2>4
<1>16. Preface(e) = Preface(d)
  <2>1. s # <<>> /\ t # <<>>
    BY <1>2, <1>7 DEF n
  <2>2. 1 \in 1..n /\ 1 # j + 1
    BY <1>1, <1>2 DEF n
  <2>3. t[1] = s[1] /\ s[1] \in 1..Len(d) /\ s[1] <= a
    <3>1. t[1] = s[1]
      BY <1>7, <2>2
    <3>2. s[1] \in 1..Len(d)
      BY <1>3, <2>2
    <3>3. CASE j = 1
      BY <1>10, <3>1, <3>2, <3>3
    <3>4. CASE j # 1
      <4>1. 1 < j
        BY <1>2, <3>4
      <4>2. s[1] < s[j]
        BY <1>1, <1>2, <2>2, <4>1
      <4> QED
        BY <1>2, <1>10, <3>1, <3>2, <4>2
    <3> QED
      BY <3>3, <3>4
  <2>4. SubSeq(e, 1, s[1] - 1) = SubSeq(d, 1, s[1] - 1)
    <3>1. s[1] - 1 \in Int /\ s[1] - 1 <= Len(d) /\ s[1] - 1 < a
      BY <1>1, <1>2, <2>3
    <3> QED
      BY <1>10c, <3>1
  <2> QED
    BY <2>1, <2>3, <2>4 DEF Preface, s, t
<1> QED
  BY <1>2c, <1>15, <1>16 DEF e

\* Both directions of moveChapter exchange the chapter with its neighbour.
LEMMA PlaceExchanges ==
    ASSUME doc \in Seq(Blocks), NEW k \in Chapters(doc), NEW dir \in {-1, 1},
           k + dir \in Chapters(doc)
    PROVE  \E j \in Chapters(doc) :
             /\ j + 1 \in Chapters(doc)
             /\ {k, k + dir} = {j, j + 1} /\ (k = j \/ k = j + 1)
             /\ Place(k, dir) = Moved(doc, j)
<1>1. k \in Nat \ {0} /\ k + dir \in Nat \ {0}
  BY ChapterPlaces
<1>2. CASE dir = 1
  <2> DEFINE a == Starts(doc)[k]
             b == Starts(doc)[k + 1]
             c == EndOf(doc, k + 1)
  <2>1. /\ k + 1 \in Chapters(doc) /\ EndOf(doc, k) = b
        /\ a \in 1..Len(doc) /\ b \in 1..Len(doc) /\ c \in 1..(Len(doc) + 1) /\ a < b /\ b < c
        /\ Len(doc) \in Nat
    BY <1>2, ChapterPlaces, LenProperties
  <2>2. Place(k, dir) = Insert(Cut(doc, a, b), c - (b - a), SubSeq(doc, a, b - 1))
    BY <1>2, <2>1 DEF Place, Slice
  <2> HIDE DEF a, b, c
  <2>3. a \in Int /\ b \in Int /\ c \in Int /\ 1 <= a /\ c <= Len(doc) + 1
    BY <2>1
  <2>4. Place(k, dir) = Exchanged(doc, a, b, c)
    BY <2>1, <2>2, <2>3, CutAndInsert
  <2> QED
    BY <1>2, <2>1, <2>4 DEF a, b, c, Moved
<1>3. CASE dir = -1
  <2>0. PICK j \in Nat : k = j + 1 /\ j = k + dir
    BY <1>1, <1>3
  <2> DEFINE a == Starts(doc)[j]
             b == Starts(doc)[j + 1]
             c == EndOf(doc, j + 1)
  <2>1. /\ j \in Chapters(doc) /\ j + 1 \in Chapters(doc) /\ EndOf(doc, j) = b
        /\ a \in 1..Len(doc) /\ b \in 1..Len(doc) /\ c \in 1..(Len(doc) + 1) /\ a < b /\ b < c
        /\ Len(doc) \in Nat
    BY <2>0, ChapterPlaces, LenProperties
  <2>2. k - 1 = j
    BY <2>0
  <2>3. Place(k, dir) = Insert(Cut(doc, b, c), a, SubSeq(doc, b, c - 1))
    BY <1>3, <2>0, <2>2 DEF Place, Slice
  <2> HIDE DEF a, b, c
  <2>4. a \in Int /\ b \in Int /\ c \in Int /\ 1 <= a /\ c <= Len(doc) + 1
    BY <2>1
  <2>5. Place(k, dir) = Exchanged(doc, a, b, c)
    BY <2>1, <2>3, <2>4, CutAndInsert
  <2> QED
    BY <2>0, <2>1, <2>5 DEF a, b, c, Moved
<1> QED
  BY <1>2, <1>3

\* Moving a chapter exchanges it with its neighbour and touches nothing else.
LEMMA MoveExchanges ==
    ASSUME doc \in Seq(Blocks), NEW k \in Chapters(doc), NEW dir \in {-1, 1},
           MoveChapter(k, dir)
    PROVE  /\ doc' \in Seq(Blocks)
           /\ Preface(doc') = Preface(doc)
           /\ Contents(doc') = Swapped(Contents(doc), k, k + dir)
<1>1. k + dir \in Chapters(doc) /\ doc' = Place(k, dir)
  BY DEF MoveChapter
<1>2. PICK j \in Chapters(doc) :
             /\ j + 1 \in Chapters(doc)
             /\ {k, k + dir} = {j, j + 1} /\ (k = j \/ k = j + 1)
             /\ Place(k, dir) = Moved(doc, j)
  BY <1>1, PlaceExchanges
<1>3. /\ Moved(doc, j) \in Seq(Blocks)
      /\ Preface(Moved(doc, j)) = Preface(doc)
      /\ Contents(Moved(doc, j)) = Swapped(Contents(doc), j, j + 1)
  BY <1>2, ContentsExchanged
<1>4. j \in Nat /\ DOMAIN Contents(doc) = Chapters(doc)
  BY <1>2, ChapterPlaces DEF Contents
<1>5. Swapped(Contents(doc), k, k + dir) = Swapped(Contents(doc), j, j + 1)
  <2>1. (k = j /\ k + dir = j + 1) \/ (k = j + 1 /\ k + dir = j)
    <3>1. j # j + 1 /\ k # k + dir
      BY <1>2, <1>4
    <3> QED
      BY <1>2, <3>1
  <2>2. ASSUME NEW f, NEW x \in DOMAIN f, NEW y \in DOMAIN f
        PROVE  Swapped(f, x, y) = Swapped(f, y, x)
    BY DEF Swapped
  <2> QED
    BY <1>2, <1>4, <2>1, <2>2
<1> QED
  BY <1>1, <1>2, <1>3, <1>5

\* What a call of the dialog and a search of the tags hold.
Questions == [on : {"chapter", "media"}, index : Nat, at : {"waiting", "yes", "over"}]
Queries == [for : Inputs, open : BOOLEAN]

\* The question on the screen waits, and no other does.
OneWaits ==
    /\ active # 0 => questions[active].at = "waiting"
    /\ WaitingIsShown

\* The suggestions are what some input finds.
SuggestedFound == \E q \in Inputs : suggested = Found(q)

ToolsInv ==
    /\ ToolsTypeOK /\ questions \in Seq(Questions) /\ queries \in Seq(Queries)
    /\ OneWaits /\ SuggestedFound

\* The invariant holds when the page opens.
LEMMA ToolsStart == ToolsInit => ToolsInv
<1> SUFFICES ASSUME ToolsInit PROVE ToolsInv
  OBVIOUS
<1>1. \A S : <<>> \in Seq(S)
  OBVIOUS
<1>2. /\ doc = <<>> /\ blocks = 0 /\ active = 0 /\ questions = <<>> /\ queries = <<>>
      /\ suggested = <<>> /\ highlight = -1 /\ input = Blank /\ tags = {} /\ media = Files
  BY DEF ToolsInit
<1>2a. /\ DOMAIN questions = {} /\ DOMAIN queries = {} /\ Len(questions) = 0
       /\ doc \in Seq(Blocks) /\ questions \in Seq(Questions) /\ queries \in Seq(Queries)
  BY <1>2
<1>2b. 0 \in 0..0 /\ 0 \in 0..MaxBlocks /\ -1 \in -1..2
  BY ToolsBounds
<1>3. ToolsTypeOK
  BY <1>2, <1>2a, <1>2b DEF ToolsTypeOK, Inputs
<1>4. SuggestedFound
  BY <1>2 DEF SuggestedFound, Found, Inputs
<1> QED
  BY <1>2, <1>2a, <1>3, <1>4 DEF ToolsInv, OneWaits, WaitingIsShown

\* Without the chapter with a number, the document is a document.
LEMMA CutChapter ==
    ASSUME doc \in Seq(Blocks), NEW k, RemoveChapter(k)
    PROVE  doc' \in Seq(Blocks)
<1>1. CASE k \in Chapters(doc)
  <2> DEFINE a == Starts(doc)[k]
             b == EndOf(doc, k)
  <2>1. a \in Int /\ b \in Int /\ 1 <= a /\ a <= b /\ b <= Len(doc) + 1
    <3>1. Len(doc) \in Nat
      BY LenProperties
    <3> QED
      BY <1>1, <3>1, ChapterPlaces
  <2>2. doc' = Cut(doc, a, b)
    BY <1>1 DEF RemoveChapter
  <2> HIDE DEF a, b
  <2> QED
    BY <2>1, <2>2, CutDocument
<1>2. CASE k \notin Chapters(doc)
  BY <1>2 DEF RemoveChapter
<1> QED
  BY <1>1, <1>2

\* Steps that leave the dialog and the tags alone.
LEMMA DocumentOnly ==
    ASSUME ToolsInv, doc' \in Seq(Blocks), media' \subseteq Files, blocks' \in 0..MaxBlocks,
           UNCHANGED <<dialogVars, tagVars>>
    PROVE  ToolsInv'
BY DEF ToolsInv, ToolsTypeOK, OneWaits, WaitingIsShown, SuggestedFound, dialogVars, tagVars

\* Writing, formatting and moving leave a document.
LEMMA DocumentSafe ==
    ASSUME ToolsInv,
           \/ \E h \in BOOLEAN : WriteBlock(h)
           \/ \E i \in DOMAIN doc : ToggleHeading(i)
           \/ AddChapter \/ DeleteOnly \/ SetContent
           \/ \E k \in Chapters(doc), dir \in {-1, 1} : MoveChapter(k, dir)
    PROVE  ToolsInv'
<1>1. doc \in Seq(Blocks) /\ media \subseteq Files /\ blocks \in 0..MaxBlocks
  BY DEF ToolsInv, ToolsTypeOK
<1>2. CASE \E h \in BOOLEAN : WriteBlock(h)
  <2>1. PICK h \in BOOLEAN : WriteBlock(h)
    BY <1>2
  <2> DEFINE b == [h |-> h, id |-> blocks + 1]
  <2>2. b \in Blocks /\ doc' = Append(doc, b) /\ blocks' \in 0..MaxBlocks
    BY <1>1, <2>1, ToolsBounds DEF WriteBlock, Blocks
  <2> HIDE DEF b
  <2>3. doc' \in Seq(Blocks)
    BY <1>1, <2>2, AppendProperties
  <2>4. media' = media /\ UNCHANGED <<dialogVars, tagVars>>
    BY <2>1 DEF WriteBlock
  <2> QED
    BY <1>1, <2>2, <2>3, <2>4, DocumentOnly
<1>3. CASE \E i \in DOMAIN doc : ToggleHeading(i)
  <2>1. PICK i \in DOMAIN doc : ToggleHeading(i)
    BY <1>3
  <2> DEFINE b == [doc[i] EXCEPT !.h = ~doc[i].h]
  <2>2. i \in 1..Len(doc) /\ doc[i] \in Blocks
    BY <1>1, <2>1, ElementOfSeq, LenProperties
  <2>3. b \in Blocks /\ doc' = [doc EXCEPT ![i] = b]
    BY <2>1, <2>2 DEF ToggleHeading, Blocks
  <2> HIDE DEF b
  <2>4. doc' \in Seq(Blocks)
    BY <1>1, <2>2, <2>3, ExceptSeq
  <2>5. media' = media /\ blocks' = blocks /\ UNCHANGED <<dialogVars, tagVars>>
    BY <2>1 DEF ToggleHeading
  <2> QED
    BY <1>1, <2>4, <2>5, DocumentOnly
<1>4. CASE AddChapter
  <2> DEFINE b == [h |-> TRUE, id |-> blocks + 1]
             c == [h |-> FALSE, id |-> blocks + 2]
  <2>1. b \in Blocks /\ c \in Blocks /\ doc' = doc \o <<b, c>> /\ blocks' \in 0..MaxBlocks
    BY <1>1, <1>4, ToolsBounds DEF AddChapter, Blocks
  <2> HIDE DEF b, c
  <2>2. <<b, c>> \in Seq(Blocks)
    BY <2>1
  <2>3. doc' \in Seq(Blocks)
    BY <1>1, <2>1, <2>2, ConcatProperties
  <2>4. media' = media /\ UNCHANGED <<dialogVars, tagVars>>
    BY <1>4 DEF AddChapter
  <2> QED
    BY <1>1, <2>1, <2>3, <2>4, DocumentOnly
<1>5. CASE DeleteOnly
  <2>1. RemoveChapter(1) /\ media' = media /\ blocks' = blocks /\ UNCHANGED <<dialogVars, tagVars>>
    BY <1>5 DEF DeleteOnly
  <2>2. doc' \in Seq(Blocks)
    BY <1>1, <2>1, CutChapter
  <2> QED
    BY <1>1, <2>1, <2>2, DocumentOnly
<1>6. CASE SetContent
  <2>1. doc' = <<>> /\ media' = media /\ blocks' = blocks /\ UNCHANGED <<dialogVars, tagVars>>
    BY <1>6 DEF SetContent
  <2>2. doc' \in Seq(Blocks)
    BY <2>1
  <2> QED
    BY <1>1, <2>1, <2>2, DocumentOnly
<1>7. CASE \E k \in Chapters(doc), dir \in {-1, 1} : MoveChapter(k, dir)
  <2>1. PICK k \in Chapters(doc), dir \in {-1, 1} : MoveChapter(k, dir)
    BY <1>7
  <2>2. media' = media /\ blocks' = blocks /\ UNCHANGED <<dialogVars, tagVars>>
    BY <2>1 DEF MoveChapter
  <2>3. doc' \in Seq(Blocks)
    BY <1>1, <2>1, MoveExchanges
  <2> QED
    BY <1>1, <2>2, <2>3, DocumentOnly
<1> QED
  BY <1>2, <1>3, <1>4, <1>5, <1>6, <1>7

\* Steps that leave the tags and the number of blocks alone.
LEMMA DialogOnly ==
    ASSUME ToolsInv, doc' \in Seq(Blocks), media' \subseteq Files,
           questions' \in Seq(Questions), active' \in 0..Len(questions'), OneWaits',
           UNCHANGED <<blocks, tagVars>>
    PROVE  ToolsInv'
<1>1. \A q \in DOMAIN questions' : questions'[q] \in Questions
  BY ElementOfSeq, LenProperties
<1>2. ToolsTypeOK'
  BY <1>1 DEF ToolsInv, ToolsTypeOK, Questions, tagVars
<1> QED
  BY <1>2 DEF ToolsInv, SuggestedFound, tagVars

\* What is known of the questions.
LEMMA QuestionsFit ==
    ASSUME ToolsInv
    PROVE  /\ questions \in Seq(Questions) /\ Len(questions) \in Nat
           /\ DOMAIN questions = 1..Len(questions)
           /\ active \in 0..Len(questions) /\ doc \in Seq(Blocks) /\ media \subseteq Files
           /\ \A q \in 1..Len(questions) :
                questions[q] \in Questions /\ (questions[q].at = "waiting" => q = active)
           /\ active # 0 => questions[active].at = "waiting"
<1>1. /\ questions \in Seq(Questions) /\ active \in 0..Len(questions) /\ doc \in Seq(Blocks)
      /\ media \subseteq Files
  BY DEF ToolsInv, ToolsTypeOK
<1>2. /\ Len(questions) \in Nat /\ DOMAIN questions = 1..Len(questions)
      /\ \A q \in 1..Len(questions) : questions[q] \in Questions
  BY <1>1, ElementOfSeq, LenProperties
<1>3. /\ \A q \in DOMAIN questions : questions[q].at = "waiting" => q = active
      /\ active # 0 => questions[active].at = "waiting"
  BY DEF ToolsInv, OneWaits, WaitingIsShown
<1> QED
  BY <1>1, <1>2, <1>3

\* A new question takes the place of the one before, which is over.
LEMMA AskSafe ==
    ASSUME ToolsInv, NEW on \in {"chapter", "media"}, NEW k \in Nat, Ask(on, k)
    PROVE  ToolsInv'
<1> DEFINE asked == [on |-> on, index |-> k, at |-> "waiting"]
           n == Len(questions)
<1>1. /\ questions \in Seq(Questions) /\ n \in Nat /\ DOMAIN questions = 1..n
      /\ active \in 0..n /\ doc \in Seq(Blocks) /\ media \subseteq Files
      /\ \A q \in 1..n : questions[q] \in Questions /\ (questions[q].at = "waiting" => q = active)
  BY QuestionsFit
<1>2. asked \in Questions /\ asked.at = "waiting"
  BY DEF Questions
<1>3. /\ Refuse(questions) \in Seq(Questions) /\ Len(Refuse(questions)) = n
      /\ \A q \in 1..n : Refuse(questions)[q].at # "waiting"
  <2>1. CASE active = 0
    BY <1>1, <2>1 DEF Refuse
  <2>2. CASE active # 0
    <3> DEFINE b == [questions[active] EXCEPT !.at = "over"]
    <3>1. active \in 1..n
      BY <1>1, <2>2
    <3>2. b \in Questions /\ b.at = "over" /\ Refuse(questions) = [questions EXCEPT ![active] = b]
      BY <1>1, <2>2, <3>1 DEF Questions, Refuse
    <3> HIDE DEF b
    <3>3. Refuse(questions) \in Seq(Questions) /\ Len(Refuse(questions)) = n
      BY <1>1, <3>1, <3>2, ExceptSeq
    <3> QED
      BY <1>1, <3>1, <3>2, <3>3
  <2> QED
    BY <2>1, <2>2
<1>4. /\ questions' = Append(Refuse(questions), asked) /\ active' = n + 1
      /\ UNCHANGED <<docVars, tagVars>>
  BY DEF Ask
<1> HIDE DEF asked
<1>5. /\ questions' \in Seq(Questions) /\ Len(questions') = n + 1
      /\ \A q \in 1..n : questions'[q] = Refuse(questions)[q]
      /\ questions'[n + 1] = asked
  BY <1>2, <1>3, <1>4, AppendProperties
<1> HIDE DEF n
<1>6. active' \in 0..Len(questions') /\ DOMAIN questions' = 1..(n + 1)
  <2>1. n + 1 \in 0..(n + 1)
    BY <1>1
  <2>2. DOMAIN questions' = 1..(n + 1)
    BY <1>5, LenProperties
  <2> QED
    BY <1>4, <1>5, <2>1, <2>2
<1>7. OneWaits'
  <2>1. \A q \in 1..(n + 1) : q \in 1..n \/ q = n + 1
    BY <1>1
  <2> QED
    BY <1>2, <1>3, <1>4, <1>5, <1>6, <2>1 DEF OneWaits, WaitingIsShown
<1> QED
  BY <1>1, <1>4, <1>5, <1>6, <1>7, DialogOnly DEF docVars

\* The answer of the user, and what the caller does with a yes.
LEMMA AnsweredSafe ==
    ASSUME ToolsInv, \/ \E yes \in BOOLEAN : Settle(yes)
                     \/ \E q \in DOMAIN questions : Proceed(q)
    PROVE  ToolsInv'
<1> DEFINE n == Len(questions)
<1>1. /\ questions \in Seq(Questions) /\ n \in Nat /\ DOMAIN questions = 1..n
      /\ active \in 0..n /\ doc \in Seq(Blocks) /\ media \subseteq Files
      /\ \A q \in 1..n : questions[q] \in Questions /\ (questions[q].at = "waiting" => q = active)
      /\ active # 0 => questions[active].at = "waiting"
  BY QuestionsFit
<1>2. ASSUME NEW q \in 1..n, NEW at \in {"yes", "over"},
             questions' = [questions EXCEPT ![q].at = at]
      PROVE  /\ questions' \in Seq(Questions) /\ Len(questions') = n
             /\ questions'[q].at = at
             /\ \A i \in 1..n : i # q => questions'[i] = questions[i]
  <2> DEFINE b == [questions[q] EXCEPT !.at = at]
  <2>1. b \in Questions /\ b.at = at /\ questions' = [questions EXCEPT ![q] = b]
    BY <1>1, <1>2 DEF Questions
  <2> HIDE DEF b
  <2>2. /\ [questions EXCEPT ![q] = b] \in Seq(Questions) /\ Len([questions EXCEPT ![q] = b]) = n
        /\ [questions EXCEPT ![q] = b][q] = b
        /\ \A i \in 1..n : i # q => [questions EXCEPT ![q] = b][i] = questions[i]
    BY <1>1, <2>1, ExceptSeq
  <2> QED
    BY <2>1, <2>2
<1>3. CASE \E yes \in BOOLEAN : Settle(yes)
  <2>1. PICK yes \in BOOLEAN : Settle(yes)
    BY <1>3
  <2>2. PICK at \in {"yes", "over"} :
          /\ active # 0 /\ active' = 0 /\ UNCHANGED <<docVars, tagVars>>
          /\ questions' = [questions EXCEPT ![active].at = at]
    BY <2>1 DEF Settle
  <2>3. active \in 1..n
    BY <1>1, <2>2
  <2>4. /\ questions' \in Seq(Questions) /\ Len(questions') = n
        /\ questions'[active].at = at
        /\ \A i \in 1..n : i # active => questions'[i] = questions[i]
    BY <1>2, <2>2, <2>3
  <2>5. DOMAIN questions' = 1..n /\ active' \in 0..Len(questions')
    BY <1>1, <2>2, <2>4, LenProperties
  <2>6. OneWaits'
    BY <1>1, <2>2, <2>4, <2>5 DEF OneWaits, WaitingIsShown
  <2> QED
    BY <1>1, <2>2, <2>4, <2>5, <2>6, DialogOnly DEF docVars
<1>4. CASE \E q \in DOMAIN questions : Proceed(q)
  <2>1. PICK q \in 1..n : Proceed(q)
    BY <1>1, <1>4
  <2>2. /\ questions[q].at = "yes" /\ questions' = [questions EXCEPT ![q].at = "over"]
        /\ active' = active /\ UNCHANGED <<blocks, tagVars>>
    BY <2>1 DEF Proceed
  <2>3. /\ questions' \in Seq(Questions) /\ Len(questions') = n
        /\ questions'[q].at = "over"
        /\ \A i \in 1..n : i # q => questions'[i] = questions[i]
    BY <1>2, <2>2
  <2>4. DOMAIN questions' = 1..n /\ active' \in 0..Len(questions')
    BY <1>1, <2>2, <2>3, LenProperties
  <2>5. OneWaits'
    <3>1. active # q
      BY <1>1, <2>2
    <3> QED
      BY <1>1, <2>2, <2>3, <2>4, <3>1 DEF OneWaits, WaitingIsShown
  <2>6. doc' \in Seq(Blocks) /\ media' \subseteq Files
    <3>1. CASE questions[q].on = "chapter"
      <4>1. RemoveChapter(questions[q].index) /\ media' = media
        BY <2>1, <3>1 DEF Proceed
      <4> QED
        BY <1>1, <4>1, CutChapter
    <3>2. CASE questions[q].on # "chapter"
      BY <1>1, <2>1, <3>2 DEF Proceed
    <3> QED
      BY <3>1, <3>2
  <2> QED
    BY <2>2, <2>3, <2>4, <2>5, <2>6, DialogOnly
<1> QED
  BY <1>3, <1>4

\* Every list of suggestions is a short list of names.
LEMMA FoundFits ==
    ASSUME SuggestedFound
    PROVE  /\ Len(suggested) \in 0..2 /\ Len(suggested) \in Int /\ Len(suggested) <= 2
           /\ DOMAIN suggested = 1..Len(suggested)
           /\ \A i \in DOMAIN suggested : suggested[i] \in Names
<1>1. suggested \in {<<>>, <<"a", "ab">>, <<"ab">>}
  BY DEF SuggestedFound, Found
<1>2. CASE suggested = <<>>
  BY <1>2
<1>3. CASE suggested = <<"a", "ab">>
  BY <1>3 DEF Names
<1>4. CASE suggested = <<"ab">>
  BY <1>4 DEF Names
<1> QED
  BY <1>1, <1>2, <1>3, <1>4

\* Steps that touch the tags only.
LEMMA TagsOnly ==
    ASSUME ToolsInv, input' \in Inputs, tags' \subseteq Names, highlight' \in -1..2,
           queries' \in Seq(Queries), SuggestedFound', UNCHANGED <<docVars, dialogVars>>
    PROVE  ToolsInv'
<1>1. \A q \in DOMAIN queries' : queries'[q] \in Queries
  BY ElementOfSeq, LenProperties
<1>2. ToolsTypeOK'
  BY <1>1 DEF ToolsInv, ToolsTypeOK, Queries, docVars, dialogVars
<1> QED
  BY <1>2 DEF ToolsInv, OneWaits, WaitingIsShown, dialogVars

\* Adding a tag adds a name, or does nothing.
LEMMA AddFits ==
    ASSUME ToolsInv, NEW t \in Inputs, AddTag(t)
    PROVE  input' \in Inputs /\ tags' \subseteq Names /\ highlight' \in -1..2
<1>1. input \in Inputs /\ tags \subseteq Names /\ highlight \in -1..2
  BY Zenon DEF ToolsInv, ToolsTypeOK
<1>1a. -1 \in -1..2
  OBVIOUS
<1>2. CASE t = Blank \/ t \in tags \/ Cardinality(tags) >= MaxTags
  BY <1>1, <1>2 DEF AddTag
<1>3. CASE ~(t = Blank \/ t \in tags \/ Cardinality(tags) >= MaxTags)
  <2>1. tags' = tags \cup {t} /\ input' = Blank /\ highlight' = -1 /\ t \in Names
    BY <1>3 DEF AddTag, Inputs
  <2>2. Blank \in Inputs
    BY DEF Inputs
  <2> QED
    BY <1>1, <1>1a, <2>1, <2>2
<1> QED
  BY <1>2, <1>3

\* Typing, searching and choosing tags.
LEMMA TagsSafe == ToolsInv /\ TagNext => ToolsInv'
<1> SUFFICES ASSUME ToolsInv, TagNext PROVE ToolsInv'
  OBVIOUS
<1>1. /\ input \in Inputs /\ tags \subseteq Names /\ highlight \in -1..2
      /\ queries \in Seq(Queries)
  BY Zenon DEF ToolsInv, ToolsTypeOK
<1>1c. -1 \in -1..2
  OBVIOUS
<1>1a. SuggestedFound
  BY DEF ToolsInv
<1>1b. DOMAIN queries = 1..Len(queries) /\ \A q \in DOMAIN queries : queries[q] \in Queries
  BY <1>1, ElementOfSeq, LenProperties
<1>2. CASE \E t \in Inputs : TypeTag(t)
  <2>1. PICK t \in Inputs : TypeTag(t)
    BY <1>2
  <2>2. /\ input' = t /\ UNCHANGED <<docVars, dialogVars, tags, highlight>>
    BY <2>1 DEF TypeTag
  <2>3. SuggestedFound'
    <3>1. suggested' = <<>> \/ suggested' = suggested
      BY <2>1 DEF TypeTag
    <3> QED
      BY <1>1a, <3>1 DEF SuggestedFound, Found, Inputs
  <2>4. queries' \in Seq(Queries)
    <3> DEFINE b == [for |-> t, open |-> TRUE]
    <3>1. b \in Queries /\ (queries' = queries \/ queries' = Append(queries, b))
      BY <2>1 DEF TypeTag, Queries
    <3> HIDE DEF b
    <3>2. Append(queries, b) \in Seq(Queries)
      BY <1>1, <3>1, AppendProperties
    <3> QED
      BY <1>1, <3>1, <3>2
  <2> QED
    BY <1>1, <2>2, <2>3, <2>4, TagsOnly
<1>3. CASE \E q \in DOMAIN queries : Suggest(q)
  <2>1. PICK q \in DOMAIN queries : Suggest(q)
    BY <1>3
  <2>2. /\ suggested' = Found(queries[q].for) /\ highlight' = -1
        /\ UNCHANGED <<docVars, dialogVars, input, tags>>
    BY <2>1 DEF Suggest, Marked
  <2>3. queries[q].for \in Inputs
    BY <1>1b DEF Queries
  <2>4. SuggestedFound'
    BY <2>2, <2>3 DEF SuggestedFound
  <2>5. queries' \in Seq(Queries)
    <3> DEFINE b == [queries[q] EXCEPT !.open = FALSE]
    <3>1. b \in Queries /\ queries' = [queries EXCEPT ![q] = b]
      BY <1>1b, <2>1 DEF Suggest, Queries
    <3> HIDE DEF b
    <3> QED
      BY <1>1, <1>1b, <3>1, ExceptSeq
  <2> QED
    BY <1>1, <1>1a, <1>1c, <2>2, <2>4, <2>5, TagsOnly
<1>4. CASE \E step \in {-1, 1} : Arrow(step)
  <2>1. PICK step \in {-1, 1} : Arrow(step)
    BY <1>4
  <2>2. UNCHANGED <<docVars, dialogVars, input, tags, suggested, queries>>
    BY <2>1 DEF Arrow
  <2>3. highlight' \in -1..2
    <3>1. Len(suggested) \in 0..2
      BY <1>1a, FoundFits
    <3>2. highlight + step \in Int
      <4>1. highlight \in Int /\ step \in Int
        BY <1>1
      <4> QED
        BY <4>1
    <3>3. highlight' = IF highlight + step > Len(suggested) THEN Len(suggested)
                       ELSE IF highlight + step < -1 THEN -1 ELSE highlight + step
      BY <2>1 DEF Arrow
    <3> DEFINE x == highlight + step
    <3> HIDE DEF x
    <3>4. highlight' = IF x > Len(suggested) THEN Len(suggested) ELSE IF x < -1 THEN -1 ELSE x
      BY <3>3 DEF x
    <3>5. x \in Int
      BY <3>2 DEF x
    <3>6. x \in -1..2 \/ x > Len(suggested) \/ x < -1
      <4> HIDE DEF x
      <4>1. Len(suggested) \in Int /\ Len(suggested) <= 2
        BY <1>1a, FoundFits
      <4>2. ~(x > Len(suggested)) /\ ~(x < -1) => x <= 2 /\ -1 <= x
        BY <3>5, <4>1
      <4> QED
        BY <3>5, <4>2
    <3>7. Len(suggested) \in -1..2 /\ -1 \in -1..2
      BY <3>1
    <3>8. CASE x > Len(suggested)
      BY <3>4, <3>7, <3>8
    <3>9. CASE ~(x > Len(suggested)) /\ x < -1
      BY <3>4, <3>7, <3>9
    <3>10. CASE ~(x > Len(suggested)) /\ ~(x < -1)
      <4>1. highlight' = x
        BY <3>4, <3>10
      <4> QED
        BY <3>6, <3>10, <4>1
    <3> QED
      BY <3>8, <3>9, <3>10
  <2>4. SuggestedFound'
    BY <1>1a, <2>2 DEF SuggestedFound
  <2> QED
    BY <1>1, <2>2, <2>3, <2>4, TagsOnly
<1>5. ASSUME NEW t \in Inputs, AddTag(t),
             UNCHANGED <<docVars, dialogVars, suggested, queries>>
      PROVE  ToolsInv'
  <2>1. SuggestedFound'
    BY <1>1a, <1>5 DEF SuggestedFound
  <2> QED
    BY <1>1, <1>5, <2>1, AddFits, TagsOnly
<1>6. CASE Enter
  <2>1. suggested # <<>> /\ highlight \in 0..(Len(suggested) - 1)
          => suggested[highlight + 1] \in Names
    <3>1. Len(suggested) \in Nat
      BY <1>1a, FoundFits
    <3>2. highlight \in 0..(Len(suggested) - 1) => highlight + 1 \in 1..Len(suggested)
      BY <3>1
    <3> QED
      BY <1>1a, <3>2, FoundFits
  <2>2. \E t \in Inputs : AddTag(t)
    BY <1>1, <1>6, <2>1 DEF Enter, Inputs
  <2>3. UNCHANGED <<docVars, dialogVars, suggested, queries>>
    BY <1>6 DEF Enter
  <2> QED
    BY <1>5, <2>2, <2>3
<1>7. CASE \E t \in Names : PickTag(t)
  BY <1>5, <1>7 DEF PickTag, Inputs
<1>8. CASE \E t \in tags : RemoveTag(t)
  <2>1. tags' \subseteq Names /\ UNCHANGED <<docVars, dialogVars, input, suggested, highlight, queries>>
    BY <1>1, <1>8 DEF RemoveTag
  <2>2. SuggestedFound'
    BY <1>1a, <2>1 DEF SuggestedFound
  <2> QED
    BY <1>1, <2>1, <2>2, TagsOnly
<1> QED
  BY <1>2, <1>3, <1>4, <1>6, <1>7, <1>8 DEF TagNext

\* The invariant is inductive.
LEMMA ToolsStep == ToolsInv /\ [DocumentNext \/ TagNext]_ToolsVars => ToolsInv'
<1> SUFFICES ASSUME ToolsInv, [DocumentNext \/ TagNext]_ToolsVars PROVE ToolsInv'
  OBVIOUS
<1>1. CASE \/ \E h \in BOOLEAN : WriteBlock(h)
           \/ \E i \in DOMAIN doc : ToggleHeading(i)
           \/ AddChapter \/ DeleteOnly \/ SetContent
           \/ \E k \in Chapters(doc), dir \in {-1, 1} : MoveChapter(k, dir)
  BY <1>1, DocumentSafe
<1>2. CASE \E k \in Chapters(doc) : AskChapter(k)
  <2>1. PICK k \in Chapters(doc) : AskChapter(k)
    BY <1>2
  <2>2. k \in Nat
    BY <2>1, ChapterPlaces DEF ToolsInv, ToolsTypeOK
  <2> QED
    BY <2>1, <2>2, AskSafe DEF AskChapter
<1>3. CASE \E f \in Files : AskMedia(f)
  BY <1>3, AskSafe DEF AskMedia, Files
<1>4. CASE \/ \E yes \in BOOLEAN : Settle(yes)
           \/ \E q \in DOMAIN questions : Proceed(q)
  BY <1>4, AnsweredSafe
<1>5. CASE TagNext
  BY <1>5, TagsSafe
<1>6. CASE UNCHANGED ToolsVars
  BY <1>6 DEF ToolsVars, docVars, dialogVars, tagVars, ToolsInv, ToolsTypeOK, OneWaits,
              WaitingIsShown, SuggestedFound
<1> QED
  BY <1>1, <1>2, <1>3, <1>4, <1>5, <1>6 DEF DocumentNext

-----------------------------------------------------------------------------
(* Reports: none is resolved for nothing, however many moderators press.    *)

\* What a decision of job j, taken now, may rely on.
Acted(j) == IF kind = "user" THEN j.acts => warned ELSE content # "shown"

\* A moderator chooses an action only for content and a warning only for a user, and
\* takes for gone only what is.
ChoicesFit ==
    \A m \in Moderators : /\ desk[m].pick # "none" => kind # "user"
                          /\ desk[m].warn => kind = "user"
                          /\ desk[m].gone => content = "deleted"

\* A chain of the page asks for the resolution when its action has succeeded, or when
\* there is none to take.
InOrder(j) ==
    /\ j.from = "profile" => j.step = "warn"
    /\ j.from = "page" /\ j.step = "resolve" => Acted(j)
    /\ j.from = "page" /\ j.step = "warn" => kind = "user" /\ (j.at = "done" => warned)
    /\ j.from = "page" /\ j.step \in {"hide", "delete"}
         => kind # "user" /\ (j.at = "done" => content # "shown")

ModerationInv ==
    ModerationTypeOK /\ ChoicesFit /\ (\A j \in jobs : InOrder(j)) /\ ReportsActedOn

-----------------------------------------------------------------------------

\* The invariant holds when nobody has looked at the report yet.
LEMMA ModerationStarts == ModerationInit => ModerationInv
<1> SUFFICES ASSUME ModerationInit PROVE ModerationInv
  OBVIOUS
<1> DEFINE clean == [view |-> "list", status |-> "pending", gone |-> FALSE, pick |-> "none",
                     warn |-> FALSE]
<1>1. desk = [m \in Moderators |-> clean] /\ clean \in Desks
  BY DEF ModerationInit, Desks, Picks
<1>2. desk \in [Moderators -> Desks]
  BY <1>1
<1>3. report \in Reports
  BY DEF ModerationInit, Reports
<1>4. ModerationTypeOK
  <2>1. hired \in 0..MaxJobs /\ mishaps \in 0..MaxMishaps
    BY ModerationBounds DEF ModerationInit
  <2>2. /\ kind \in {"diary", "comment", "user"} /\ jobs \subseteq Jobs
        /\ content \in {"shown", "hidden", "deleted"} /\ warned \in BOOLEAN
    BY DEF ModerationInit
  <2> QED
    BY <2>1, <2>2, <1>2, <1>3 DEF ModerationTypeOK, ManyDesks
<1>5. ChoicesFit
  BY <1>1 DEF ChoicesFit
<1> QED
  BY <1>4, <1>5 DEF ModerationInit, ModerationInv, ReportsActedOn

\* Nothing makes what was reported visible again, takes a warning back or changes what
\* the report is about.
Onwards ==
    /\ kind' = kind
    /\ content # "shown" => content' # "shown"
    /\ content = "deleted" => content' = "deleted"
    /\ warned => warned'

\* What holds of a job goes on holding of it while other things happen.
LEMMA OrderKept ==
    ASSUME NEW j, InOrder(j), Onwards
    PROVE  InOrder(j)'
BY DEF InOrder, Acted, Onwards

\* A request of job j is served, or lost: the job moves on in its chain.
LEMMA ServerSafe ==
    ASSUME ModerationInv, NEW j \in jobs,
           Look(j) \/ Decide(j) \/ TakeDown(j) \/ IssueWarning(j) \/ Mishap(j)
    PROVE  ModerationInv'
<1>1. j \in Jobs /\ InOrder(j)
  BY DEF ModerationInv, ModerationTypeOK
<1>2. PICK stage \in {"read", "done", "failed"} :
         /\ jobs' = (jobs \ {j}) \cup {[j EXCEPT !.at = stage]}
         /\ stage = "done" => \/ Decide(j) \/ TakeDown(j) \/ IssueWarning(j)
  BY DEF Look, Decide, TakeDown, IssueWarning, Mishap, Reaches, Becomes
<1> DEFINE k == [j EXCEPT !.at = stage]
<1>3. /\ k \in Jobs /\ k.at = stage
      /\ k.from = j.from /\ k.step = j.step /\ k.acts = j.acts
  BY <1>1 DEF Jobs
<1>4. desk' = desk /\ Onwards
  BY DEF Look, Decide, TakeDown, IssueWarning, Mishap, Untouched, Onwards
<1>5. ChoicesFit'
  BY <1>4 DEF ChoicesFit, Onwards, ModerationInv
<1>6. InOrder(k)'
  <2>1. InOrder(j)'
    BY <1>1, <1>4, OrderKept
  <2>2. stage = "done" /\ k.from = "page" /\ k.step = "warn" => warned'
    BY <1>2, <1>3 DEF Decide, TakeDown, IssueWarning
  <2>3. stage = "done" /\ k.from = "page" /\ k.step \in {"hide", "delete"} => content' # "shown"
    BY <1>2, <1>3 DEF Decide, TakeDown, IssueWarning
  <2> QED
    BY <1>3, <2>1, <2>2, <2>3 DEF InOrder, Acted
<1>7. \A i \in jobs' : InOrder(i)'
  BY <1>2, <1>4, <1>6, OrderKept DEF ModerationInv
<1>8. report' \in Reports /\ ReportsActedOn'
  <2>1. CASE report' = report
    BY <2>1, <1>4 DEF ModerationInv, ModerationTypeOK, ReportsActedOn, Reports, Onwards
  <2>2. CASE report' # report
    <3>1. /\ Decide(j) /\ j.step \in {"resolve", "dismiss"}
          /\ report' = [status |-> IF j.step = "resolve" THEN "resolved" ELSE "dismissed",
                        from |-> j.from, acts |-> j.acts]
          /\ content' = content /\ warned' = warned
      BY <2>2 DEF Look, Decide, TakeDown, IssueWarning, Mishap
    <3>2. j.from \in {"page", "list"} /\ j.acts \in BOOLEAN
      BY <1>1, <3>1 DEF InOrder, Jobs
    <3>3. report' \in Reports
      BY <3>1, <3>2 DEF Reports, Verdicts
    <3>4. ReportsActedOn'
      BY <1>1, <1>4, <3>1 DEF ReportsActedOn, InOrder, Acted, Onwards
    <3> QED
      BY <3>3, <3>4
  <2> QED
    BY <2>1, <2>2
<1>9. ModerationTypeOK'
  <2>1. jobs' \subseteq Jobs
    BY <1>2, <1>3 DEF ModerationInv, ModerationTypeOK
  <2>2. mishaps' \in 0..MaxMishaps /\ hired' = hired /\ kind' = kind
    BY ModerationBounds
    DEF Look, Decide, TakeDown, IssueWarning, Mishap, Untouched, ModerationInv, ModerationTypeOK
  <2>3. content' \in {"shown", "hidden", "deleted"} /\ warned' \in BOOLEAN
    BY DEF Look, Decide, TakeDown, IssueWarning, Mishap, ModerationInv, ModerationTypeOK
  <2> QED
    BY <2>1, <2>2, <2>3, <1>4, <1>8 DEF ModerationInv, ModerationTypeOK, Reports
<1> QED
  BY <1>5, <1>7, <1>8, <1>9 DEF ModerationInv

\* A press starts a chain, whose first request is the action if there is one.
LEMMA HireSafe ==
    ASSUME ModerationInv, NEW m \in Moderators,
           NEW from \in {"page", "list", "profile"}, NEW acts \in BOOLEAN, NEW step \in Chores,
           Hire(m, from, acts, step),
           from = "profile" => step = "warn",
           from = "page" /\ step = "resolve" => IF kind = "user" THEN ~acts ELSE content # "shown",
           from = "page" /\ step = "warn" => kind = "user",
           from = "page" /\ step \in {"hide", "delete"} => kind # "user"
    PROVE  ModerationInv'
<1> DEFINE j == [who |-> m, from |-> from, here |-> TRUE, acts |-> acts, step |-> step, at |-> "sent"]
<1>1. /\ jobs' = jobs \cup {j} /\ hired' \in 0..MaxJobs
      /\ UNCHANGED <<kind, report, content, warned, mishaps, desk>>
  BY ModerationBounds DEF Hire, serverSide, ModerationInv, ModerationTypeOK
<1>2. j \in Jobs
  BY DEF Jobs
<1>3. InOrder(j)'
  BY <1>1 DEF InOrder, Acted
<1>4. Onwards
  BY <1>1 DEF Onwards
<1>5. \A i \in jobs' : InOrder(i)'
  BY <1>1, <1>3, <1>4, OrderKept DEF ModerationInv
<1>6. ModerationTypeOK'
  BY <1>1, <1>2 DEF ModerationInv, ModerationTypeOK
<1> QED
  BY <1>1, <1>5, <1>6 DEF ModerationInv, ChoicesFit, ReportsActedOn

\* The desk changes: what a moderator sees, or has chosen.
LEMMA DeskSafe ==
    ASSUME ModerationInv, NEW m \in Moderators, NEW d \in Desks,
           desk' = [desk EXCEPT ![m] = d],
           UNCHANGED <<kind, report, content, warned, hired, mishaps>>,
           jobs' \subseteq Jobs, \A j \in jobs' : InOrder(j),
           d.pick # "none" => kind # "user",
           d.warn => kind = "user",
           d.gone => content = "deleted"
    PROVE  ModerationInv'
<1>1. desk \in [Moderators -> Desks]
  BY DEF ModerationInv, ModerationTypeOK, ManyDesks, Desks
<1>2. desk' \in [Moderators -> Desks]
  BY <1>1
<1>3. ModerationTypeOK'
  BY <1>2 DEF ModerationInv, ModerationTypeOK, ManyDesks, Desks
<1>4. ChoicesFit'
  BY <1>1 DEF ModerationInv, ChoicesFit
<1>5. \A j \in jobs' : InOrder(j)'
  BY DEF InOrder, Acted
<1> QED
  BY <1>3, <1>4, <1>5 DEF ModerationInv, ReportsActedOn

\* The author deletes what was reported.
LEMMA AuthorSafe == ModerationInv /\ AuthorDeletes => ModerationInv'
<1> SUFFICES ASSUME ModerationInv, AuthorDeletes PROVE ModerationInv'
  OBVIOUS
<1>1. /\ UNCHANGED <<kind, report, warned, jobs, desk, hired, mishaps>>
      /\ content' = "deleted"
  BY DEF AuthorDeletes, Untouched
<1>2. ModerationTypeOK'
  BY <1>1 DEF ModerationInv, ModerationTypeOK
<1>3. ChoicesFit'
  BY <1>1 DEF ModerationInv, ChoicesFit
<1>4. \A j \in jobs' : InOrder(j)'
  BY <1>1, OrderKept DEF Onwards, ModerationInv
<1>5. ReportsActedOn'
  BY <1>1 DEF ModerationInv, ReportsActedOn
<1> QED
  BY <1>2, <1>3, <1>4, <1>5 DEF ModerationInv

\* Leaving the page changes nothing about the chains it started but who watches them.
LEMMA LeftInOrder ==
    ASSUME ModerationInv, NEW m
    PROVE  Left(m) \subseteq Jobs /\ \A j \in Left(m) : InOrder(j)
<1>1. ASSUME NEW j \in jobs
      PROVE  [j EXCEPT !.here = FALSE] \in Jobs /\ InOrder([j EXCEPT !.here = FALSE])
  <2>1. j \in Jobs /\ InOrder(j)
    BY DEF ModerationInv, ModerationTypeOK
  <2> DEFINE k == [j EXCEPT !.here = FALSE]
  <2>2. k \in Jobs /\ k.from = j.from /\ k.step = j.step /\ k.acts = j.acts /\ k.at = j.at
    BY <2>1 DEF Jobs
  <2> QED
    BY <2>1, <2>2 DEF InOrder, Acted
<1>2. \A j \in jobs : j \in Jobs /\ InOrder(j)
  BY DEF ModerationInv, ModerationTypeOK
<1> QED
  BY <1>1, <1>2 DEF Left

\* What a moderator does with the pages.
LEMMA PagesSafe ==
    ASSUME ModerationInv, NEW m \in Moderators,
           \/ LoadReports(m) \/ TickWarning(m)
           \/ \E view \in {"list", "page"} : GoTo(m, view)
           \/ \E pick \in {"hide", "delete"} : PickAction(m, pick)
    PROVE  ModerationInv'
<1>1. /\ desk[m] \in Desks /\ desk \in [Moderators -> Desks]
      /\ desk[m].pick # "none" => kind # "user"
      /\ desk[m].warn => kind = "user"
      /\ desk[m].gone => content = "deleted"
  BY DEF ModerationInv, ModerationTypeOK, ManyDesks, Desks, ChoicesFit
<1>2. jobs \subseteq Jobs /\ \A j \in jobs : InOrder(j)
  BY DEF ModerationInv, ModerationTypeOK
<1>3. CASE LoadReports(m)
  <2> DEFINE d == [desk[m] EXCEPT !.status = report.status, !.gone = Gone]
  <2>1. desk' = [desk EXCEPT ![m] = d]
    BY <1>1, <1>3 DEF LoadReports
  <2>2. /\ d \in Desks /\ d.pick = desk[m].pick /\ d.warn = desk[m].warn
        /\ d.gone => content = "deleted"
    BY <1>1 DEF Desks, Reports, Gone, ModerationInv, ModerationTypeOK
  <2>3. jobs' = jobs /\ UNCHANGED <<kind, report, content, warned, hired, mishaps>>
    BY <1>3 DEF LoadReports, serverSide
  <2>4. /\ d.pick # "none" => kind # "user"
        /\ d.warn => kind = "user"
    BY <1>1, <2>2
  <2> HIDE DEF d
  <2> QED
    BY <1>2, <2>1, <2>2, <2>3, <2>4, DeskSafe
<1>4. CASE TickWarning(m)
  <2> DEFINE d == [desk[m] EXCEPT !.warn = ~@]
  <2>1. desk' = [desk EXCEPT ![m] = d] /\ kind = "user"
    BY <1>1, <1>4 DEF TickWarning
  <2>2. d \in Desks /\ d.pick = desk[m].pick /\ d.gone = desk[m].gone
    BY <1>1 DEF Desks
  <2> QED
    BY <1>1, <1>2, <1>4, <2>1, <2>2, DeskSafe DEF TickWarning, serverSide
<1>5. ASSUME NEW view \in {"list", "page"}, GoTo(m, view)
      PROVE  ModerationInv'
  <2> DEFINE d == [desk[m] EXCEPT !.view = view, !.pick = "none", !.warn = FALSE]
  <2>1. desk' = [desk EXCEPT ![m] = d]
    BY <1>1, <1>5 DEF GoTo
  <2>2. d \in Desks /\ d.pick = "none" /\ d.warn = FALSE /\ d.gone = desk[m].gone
    BY <1>1 DEF Desks, Picks
  <2> QED
    BY <1>1, <1>5, <2>1, <2>2, LeftInOrder, DeskSafe DEF GoTo, serverSide
<1>6. ASSUME NEW pick \in {"hide", "delete"}, PickAction(m, pick)
      PROVE  ModerationInv'
  <2> DEFINE d == [desk[m] EXCEPT !.pick = IF @ = pick THEN "none" ELSE pick]
  <2>1. desk' = [desk EXCEPT ![m] = d] /\ kind # "user"
    BY <1>1, <1>6 DEF PickAction, NeedsAction
  <2>2. d \in Desks /\ d.warn = desk[m].warn /\ d.gone = desk[m].gone
    BY <1>1 DEF Desks, Picks
  <2> QED
    BY <1>1, <1>2, <1>6, <2>1, <2>2, DeskSafe DEF PickAction, serverSide
<1> QED
  BY <1>3, <1>4, <1>5, <1>6

\* The buttons: of the page, of the list and of the profile.
LEMMA ButtonsSafe ==
    ASSUME ModerationInv, NEW m \in Moderators,
           \/ ResolveReport(m) \/ DismissReport(m) \/ WarnUser(m)
           \/ \E step \in {"resolve", "dismiss"} : Quick(m, step)
    PROVE  ModerationInv'
<1>1. /\ desk[m].warn \in BOOLEAN /\ desk[m].pick \in Picks
      /\ desk[m].pick # "none" => kind # "user"
      /\ desk[m].warn => kind = "user"
      /\ desk[m].gone => content = "deleted"
  BY DEF ModerationInv, ModerationTypeOK, ManyDesks, Desks, ChoicesFit
<1>2. CASE ResolveReport(m)
  <2>1. /\ FirstStep(m) \in Chores
        /\ FirstStep(m) = "resolve" => desk[m].pick = "none" /\ ~desk[m].warn
        /\ FirstStep(m) = "warn" => desk[m].warn
        /\ FirstStep(m) \in {"hide", "delete"} => desk[m].pick # "none"
    BY <1>1 DEF FirstStep, Chores, Picks
  <2>2. FirstStep(m) = "resolve" => IF kind = "user" THEN ~desk[m].warn ELSE content # "shown"
    BY <1>1, <1>2, <2>1 DEF ResolveReport, NeedsAction
  <2>3. Hire(m, "page", desk[m].warn, FirstStep(m))
    BY <1>2 DEF ResolveReport
  <2> QED
    BY <1>1, <2>1, <2>2, <2>3, HireSafe
<1>3. CASE DismissReport(m)
  BY <1>3, HireSafe DEF DismissReport, Chores
<1>4. CASE WarnUser(m)
  BY <1>4, HireSafe DEF WarnUser, Chores
<1>5. ASSUME NEW step \in {"resolve", "dismiss"}, Quick(m, step)
      PROVE  ModerationInv'
  BY <1>5, HireSafe DEF Quick, Chores
<1> QED
  BY <1>2, <1>3, <1>4, <1>5

\* A chain goes on to the report, leads back to the list, or ends.
LEMMA SettlesSafe ==
    ASSUME ModerationInv, NEW j \in jobs, Settles(j)
    PROVE  ModerationInv'
<1>1. j \in Jobs /\ InOrder(j) /\ jobs \subseteq Jobs
  BY DEF ModerationInv, ModerationTypeOK
<1>2. UNCHANGED <<kind, report, content, warned, mishaps, hired>>
  BY DEF Settles, serverSide
<1>3. Onwards
  BY <1>2 DEF Onwards
<1>4. ASSUME desk' = desk, jobs' \subseteq Jobs, \A i \in jobs' : InOrder(i)'
      PROVE  ModerationInv'
  BY <1>2, <1>4 DEF ModerationInv, ModerationTypeOK, ChoicesFit, ReportsActedOn
<1>5. CASE GoesOn(j)
  <2> DEFINE k == [j EXCEPT !.step = "resolve", !.at = "sent"]
  <2>1. /\ k \in Jobs /\ k.step = "resolve" /\ k.at = "sent"
        /\ k.from = j.from /\ k.acts = j.acts
    BY <1>1 DEF Jobs, Chores
  <2>2. InOrder(k)'
    BY <1>1, <1>2, <1>5, <2>1 DEF InOrder, Acted, GoesOn
  <2>3. jobs' = (jobs \ {j}) \cup {k} /\ desk' = desk
    BY <1>5 DEF Settles, Becomes
  <2> QED
    BY <1>1, <1>3, <1>4, <2>1, <2>2, <2>3, OrderKept DEF ModerationInv
<1>6. CASE ~GoesOn(j) /\ j.at = "done" /\ j.step \in {"resolve", "dismiss"} /\ j.here
            /\ j.from = "page"
  <2> DEFINE m == j.who
             d == [desk[m] EXCEPT !.view = "list", !.pick = "none", !.warn = FALSE]
  <2>1. /\ m \in Moderators
        /\ desk' = [desk EXCEPT ![m].view = "list", ![m].pick = "none", ![m].warn = FALSE]
        /\ jobs' \subseteq Left(m)
    BY <1>1, <1>6 DEF Settles, Jobs
  <2>2. desk \in [Moderators -> Desks]
    BY DEF ModerationInv, ModerationTypeOK, ManyDesks, Desks
  <2>3. desk[m].gone => content = "deleted"
    BY <2>1 DEF ModerationInv, ChoicesFit
  <2>4. d \in Desks /\ d.pick = "none" /\ d.warn = FALSE /\ d.gone = desk[m].gone
    <3>1. desk[m] \in Desks
      BY <2>1, <2>2
    <3> QED
      BY <3>1 DEF Desks, Picks
  <2>5. desk' = [desk EXCEPT ![m] = d]
    BY <2>1, <2>2 DEF Desks
  <2>6. jobs' \subseteq Jobs /\ \A i \in jobs' : InOrder(i)
    BY <2>1, LeftInOrder
  <2> QED
    BY <1>2, <2>1, <2>3, <2>4, <2>5, <2>6, DeskSafe
<1>7. CASE ~GoesOn(j) /\ ~(j.at = "done" /\ j.step \in {"resolve", "dismiss"} /\ j.here
                          /\ j.from = "page")
  <2>1. jobs' = jobs \ {j} /\ desk' = desk
    BY <1>7 DEF Settles
  <2> QED
    BY <1>1, <1>3, <1>4, <2>1, OrderKept DEF ModerationInv
<1> QED
  BY <1>5, <1>6, <1>7

\* The invariant is inductive.
LEMMA ModerationStep == ModerationInv /\ [ModerationNext]_ModerationVars => ModerationInv'
<1> SUFFICES ASSUME ModerationInv, [ModerationNext]_ModerationVars PROVE ModerationInv'
  OBVIOUS
<1>1. CASE AuthorDeletes
  BY <1>1, AuthorSafe
<1>2. ASSUME NEW j \in jobs,
             Look(j) \/ Decide(j) \/ TakeDown(j) \/ IssueWarning(j) \/ Mishap(j)
      PROVE  ModerationInv'
  BY <1>2, ServerSafe
<1>3. ASSUME NEW j \in jobs, Settles(j)
      PROVE  ModerationInv'
  BY <1>3, SettlesSafe
<1>4. ASSUME NEW m \in Moderators,
             \/ LoadReports(m) \/ TickWarning(m)
             \/ \E view \in {"list", "page"} : GoTo(m, view)
             \/ \E pick \in {"hide", "delete"} : PickAction(m, pick)
      PROVE  ModerationInv'
  BY <1>4, PagesSafe
<1>5. ASSUME NEW m \in Moderators,
             \/ ResolveReport(m) \/ DismissReport(m) \/ WarnUser(m)
             \/ \E step \in {"resolve", "dismiss"} : Quick(m, step)
      PROVE  ModerationInv'
  BY <1>5, ButtonsSafe
<1>6. CASE UNCHANGED ModerationVars
  BY <1>6
  DEF ModerationVars, ModerationInv, ModerationTypeOK, ChoicesFit, InOrder, Acted, ReportsActedOn
<1> QED
  BY <1>1, <1>2, <1>3, <1>4, <1>5, <1>6 DEF ModerationNext

\* Type correctness, and what the page, the desks and the jobs know of the report, hold
\* in every behaviour of the moderation.
THEOREM ModerationInvariant == ModerationSpec => []ModerationInv
BY ModerationStarts, ModerationStep, PTL DEF ModerationSpec

\* However many moderators press whatever they see on whichever page, a report resolved
\* on its page has been acted upon.
THEOREM ResolvedAfterAction == ModerationSpec => []ReportsActedOn
<1>1. ModerationInv => ReportsActedOn
  BY DEF ModerationInv
<1> QED
  BY <1>1, ModerationInvariant, PTL

-----------------------------------------------------------------------------
(* The three beside each other.                                             *)

\* Each part keeps its invariant, whichever of them moves.
WritingInv ==
    /\ part \in {"form", "document", "tags", "report"}
    /\ EditorInv /\ ToolsInv /\ ModerationInv

\* The invariant holds at the start and after every step of any part.
THEOREM WritingInvariant == Spec => []WritingInv
<1>1. Init => WritingInv
  BY EditorStarts, ToolsStart, ModerationStarts DEF Init, WritingInv
<1>2. WritingInv /\ [Next]_<<part, EditorVars, ToolsVars, ModerationVars>> => WritingInv'
  <2> SUFFICES ASSUME WritingInv, [Next]_<<part, EditorVars, ToolsVars, ModerationVars>>
               PROVE  WritingInv'
    OBVIOUS
  <2>1. /\ part' = part /\ [EditorNext]_EditorVars /\ [DocumentNext \/ TagNext]_ToolsVars
        /\ [ModerationNext]_ModerationVars
    BY DEF Next
  <2> QED
    BY <2>1, EditorStep, ToolsStep, ModerationStep DEF WritingInv
<1> QED
  BY <1>1, <1>2, PTL DEF Spec

\* Every part keeps its types.
THEOREM WritingTypes == Spec => []TypeOK
<1>1. WritingInv => TypeOK
  BY DEF WritingInv, EditorInv, ToolsInv, ModerationInv, TypeOK
<1> QED
  BY <1>1, WritingInvariant, PTL

\* Whoever asks and whenever, the one question that waits for an answer is the one on the
\* screen.
THEOREM EveryQuestionAnswered == Spec => []WaitingIsShown
<1>1. WritingInv => WaitingIsShown
  BY DEF WritingInv, ToolsInv, OneWaits
<1> QED
  BY <1>1, WritingInvariant, PTL

\* In a document of any length and with any number of chapters, moving a chapter up or
\* down exchanges it with its neighbour, block by block, and leaves the rest alone.
THEOREM ChaptersChangePlaces == Spec => SwapsChapters
<1>1. ASSUME WritingInv, NEW k \in Chapters(doc), NEW dir \in {-1, 1}, MoveChapter(k, dir)
      PROVE  /\ Preface(doc') = Preface(doc)
             /\ Contents(doc') = Swapped(Contents(doc), k, k + dir)
  <2>1. doc \in Seq(Blocks)
    BY <1>1 DEF WritingInv, ToolsInv, ToolsTypeOK
  <2> QED
    BY <1>1, <2>1, MoveExchanges
<1>2. WritingInv
        => [\A k \in Chapters(doc), dir \in {-1, 1} :
              MoveChapter(k, dir) =>
                 /\ Preface(doc') = Preface(doc)
                 /\ Contents(doc') = Swapped(Contents(doc), k, k + dir)]_ToolsVars
  BY <1>1
<1> QED
  BY <1>2, WritingInvariant, PTL DEF SwapsChapters

=============================================================================
