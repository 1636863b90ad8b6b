--------------------------- MODULE ConfigEditorsProofs ---------------------------
(***************************************************************************)
(* What the Config tab promises, for every set of documents, every number  *)
(* of requests and applies under way and every interleaving of the tab,    *)
(* relayctl, the relay's restarts and End Close.                           *)
(***************************************************************************)
EXTENDS ConfigEditors, TLAPS

\* An apply under way.
Applying(v) == \E a, t, h, l : v = [at |-> a, text |-> t, here |-> h, left |-> l]

\* What the argument needs: which applies there may be, and that each is one.
SaveTyped ==
    /\ DOMAIN save = SaveSlot /\ DOMAIN clicked = SaveSlot
    /\ \A s \in SaveSlot : save[s] = None \/ Applying(save[s])

EditorsInv == SaveTyped /\ PostsWhatWasClicked

\* The program starts with no apply under way.
LEMMA EditorsInit == Init => EditorsInv
  BY DEF Init, EditorsInv, SaveTyped, PostsWhatWasClicked

\* An apply that goes on keeps its text: what a step makes of it is not read
\* from the editor.
LEMMA AppliesKeepText ==
    ASSUME EditorsInv, DOMAIN save' = SaveSlot, UNCHANGED clicked,
           \A s \in SaveSlot : \/ save'[s] \in {None, save[s]}
                               \/ /\ save[s] # None /\ Applying(save'[s])
                                  /\ save'[s].text = save[s].text
    PROVE  EditorsInv'
  BY DEF EditorsInv, SaveTyped, PostsWhatWasClicked

\* Whatever else of an apply is replaced, its text is not.
LEMMA ApplyParts ==
    ASSUME NEW v, Applying(v), NEW x, NEW w,
           w \in {[v EXCEPT !.at = x], [v EXCEPT !.here = x], [v EXCEPT !.left = x]}
    PROVE  Applying(w) /\ w.text = v.text
  <1>1. PICK a, t, h, l : v = [at |-> a, text |-> t, here |-> h, left |-> l]
    BY DEF Applying
  <1>2. \/ w = [at |-> x, text |-> t, here |-> h, left |-> l]
        \/ w = [at |-> a, text |-> t, here |-> x, left |-> l]
        \/ w = [at |-> a, text |-> t, here |-> h, left |-> x]
    BY <1>1
  <1>3. Applying(w)
    BY <1>2, Zenon DEF Applying
  <1> QED
    BY <1>1, <1>2, <1>3

\* A step that replaces one apply: it ends, or keeps its text.
LEMMA OneApplyGoesOn ==
    ASSUME EditorsInv, UNCHANGED clicked, NEW s \in SaveSlot, save[s] # None, NEW v,
           save' = [save EXCEPT ![s] = v],
           v = None \/ (Applying(v) /\ v.text = save[s].text)
    PROVE  EditorsInv'
  <1>1. DOMAIN save = SaveSlot
    BY DEF EditorsInv, SaveTyped
  <1>2. DOMAIN save' = SaveSlot /\ save'[s] = v
        /\ \A o \in SaveSlot \ {s} : save'[o] = save[o]
    BY <1>1
  <1> QED
    BY <1>2, AppliesKeepText

\* A click takes the text that stands in the editor.
LEMMA ClickTakesText ==
    ASSUME EditorsInv, NEW s \in SaveSlot, clickApply(s)
    PROVE  EditorsInv'
  <1> DEFINE v == [at |-> "validate", text |-> tab.yaml, here |-> TRUE, left |-> WaitPolls]
  <1>1. save' = [save EXCEPT ![s] = v] /\ clicked' = [clicked EXCEPT ![s] = tab.yaml]
    BY DEF clickApply
  <1>2. Applying(v) /\ v.text = tab.yaml
    BY DEF Applying
  <1>3. /\ DOMAIN save' = SaveSlot /\ DOMAIN clicked' = SaveSlot
        /\ save'[s] = v /\ clicked'[s] = tab.yaml
        /\ \A o \in SaveSlot \ {s} : save'[o] = save[o] /\ clicked'[o] = clicked[o]
    BY <1>1 DEF EditorsInv, SaveTyped
  <1> HIDE DEF v
  <1> QED
    BY <1>2, <1>3 DEF EditorsInv, SaveTyped, PostsWhatWasClicked

\* Wherever an onSave stands, its next step keeps the text it was started with.
LEMMA SavingStep ==
    ASSUME EditorsInv, NEW s \in SaveSlot,
           clickApply(s) \/ onSave(s) \/ Post(s) \/ Posted(s) \/ waitForRunning(s)
    PROVE  EditorsInv'
  <1>0. DOMAIN save = SaveSlot /\ (save[s] # None => Applying(save[s]))
    BY DEF EditorsInv, SaveTyped
  <1>1. CASE clickApply(s)
    BY <1>1, ClickTakesText
  <1>2. CASE onSave(s)
    <2>1. save[s] # None /\ UNCHANGED clicked
      BY <1>2 DEF onSave
    <2>2. PICK v \in {None, [save[s] EXCEPT !.at = "post"]} : save' = [save EXCEPT ![s] = v]
      BY <1>2 DEF onSave
    <2>3. v = None \/ (Applying(v) /\ v.text = save[s].text)
      BY <1>0, <2>1, <2>2, ApplyParts
    <2> QED
      BY <2>1, <2>2, <2>3, OneApplyGoesOn
  <1>3. CASE Post(s)
    <2>1. save[s] # None /\ UNCHANGED clicked
      BY <1>3 DEF Post
    <2>2. PICK v \in {None, [save[s] EXCEPT !.at = mode]} : save' = [save EXCEPT ![s] = v]
      BY <1>0, <1>3 DEF Post
    <2>3. v = None \/ (Applying(v) /\ v.text = save[s].text)
      BY <1>0, <2>1, <2>2, ApplyParts
    <2> QED
      BY <2>1, <2>2, <2>3, OneApplyGoesOn
  <1>4. CASE Posted(s)
    <2>1. save[s] # None /\ UNCHANGED clicked
      BY <1>4 DEF Posted
    <2>2. PICK v \in {None, [save[s] EXCEPT !.at = "waiting"]} : save' = [save EXCEPT ![s] = v]
      BY <1>4 DEF Posted
    <2>3. v = None \/ (Applying(v) /\ v.text = save[s].text)
      BY <1>0, <2>1, <2>2, ApplyParts
    <2> QED
      BY <2>1, <2>2, <2>3, OneApplyGoesOn
  <1>5. CASE waitForRunning(s)
    <2>1. save[s] # None /\ UNCHANGED clicked
      BY <1>5 DEF waitForRunning
    <2>2. CASE save' = [o \in SaveSlot |-> None]
      BY <2>1, <2>2, AppliesKeepText
    <2>3. CASE \E v \in {None, [save[s] EXCEPT !.left = @ - 1]} : save' = [save EXCEPT ![s] = v]
      <3>1. PICK v \in {None, [save[s] EXCEPT !.left = @ - 1]} : save' = [save EXCEPT ![s] = v]
        BY <2>3
      <3>2. v = None \/ (Applying(v) /\ v.text = save[s].text)
        BY <1>0, <2>1, <3>1, ApplyParts
      <3> QED
        BY <2>1, <3>1, <3>2, OneApplyGoesOn
    <2>4. \/ save' = [o \in SaveSlot |-> None]
          \/ \E v \in {None, [save[s] EXCEPT !.left = @ - 1]} : save' = [save EXCEPT ![s] = v]
      BY <1>0, <1>5 DEF waitForRunning, reloadPage
    <2> QED
      BY <2>2, <2>3, <2>4
  <1> QED
    BY <1>1, <1>2, <1>3, <1>4, <1>5

\* The tab goes, its applies go on.
LEMMA LeavingKeepsText ==
    ASSUME EditorsInv, leaves, UNCHANGED clicked
    PROVE  EditorsInv'
  <1>1. save' = [s \in SaveSlot |-> IF save[s] = None THEN None
                                    ELSE [save[s] EXCEPT !.here = FALSE]]
    BY DEF leaves
  <1>2. ASSUME NEW s \in SaveSlot, save[s] # None
        PROVE  Applying(save'[s]) /\ save'[s].text = save[s].text
    <2>1. Applying(save[s]) /\ save'[s] = [save[s] EXCEPT !.here = FALSE]
      BY <1>1, <1>2 DEF EditorsInv, SaveTyped
    <2> QED
      BY <2>1, ApplyParts
  <1>3. \A s \in SaveSlot : save[s] = None => save'[s] = None
    BY <1>1
  <1>4. DOMAIN save' = SaveSlot
    BY <1>1
  <1> QED
    BY <1>2, <1>3, <1>4, AppliesKeepText

\* The editors' invariant is inductive: nothing else touches an apply.
LEMMA EditorsStep == EditorsInv /\ [Next]_vars => EditorsInv'
  <1> SUFFICES ASSUME EditorsInv, [Next]_vars PROVE EditorsInv'
    OBVIOUS
  <1>1. CASE UNCHANGED <<save, clicked>>
    BY <1>1 DEF EditorsInv, SaveTyped, PostsWhatWasClicked
  <1>2. CASE leaves /\ UNCHANGED clicked
    BY <1>2, LeavingKeepsText
  <1>3. CASE Saving
    BY <1>3, SavingStep DEF Saving
  <1>4. UNCHANGED <<save, clicked>> \/ (leaves /\ UNCHANGED clicked) \/ Saving
    BY DEF Next, vars, page, relay, Restarted, EndClose, Requests, Tick, Read, Polled,
           getConfig, Loaded, OpenTab, CloseTab, Relayctl, configEdit, editInEditor,
           cliValidated, cliPost, configApply, Type, restoreVersion
  <1> QED
    BY <1>1, <1>2, <1>3, <1>4

\* The Config tab posts the text its operator clicked apply on, whatever the
\* reloads of the tab, the polls of the page and further clicks do before the
\* post is sent.
THEOREM ClickedIsPosted == Spec => []PostsWhatWasClicked
  <1>1. EditorsInv => PostsWhatWasClicked
    BY DEF EditorsInv
  <1> QED
    BY <1>1, EditorsInit, EditorsStep, PTL DEF Spec
================================================================================
