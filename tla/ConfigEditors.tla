------------------------------ MODULE ConfigEditors ------------------------------
(***************************************************************************)
(* The clients of the admin plane that edit the configuration: the Config  *)
(* tab of the browser page (apps/relay/ui/src/ConfigTab.tsx under App.tsx) *)
(* and relayctl config edit and apply (apps/relay/src/cli/commands).  Each *)
(* loads the document, has it validated and posts it, in requests of its   *)
(* own; the page polls /status meanwhile, End Close replaces the document, *)
(* and an apply in bootstrap mode restarts the relay under its clients.    *)
(*                                                                         *)
(* A text stands for its hash.                                             *)
(***************************************************************************)
EXTENDS Naturals

CONSTANTS
    None,
    Text,           \* documents the schema accepts
    Broken,         \* a stored document that it no longer accepts
    Refused,        \* documents that name a secret which is not set
    Starter, Blank, \* what the tab and relayctl start from without a document
    Unterminated,   \* texts that do not end in a newline
    Newline(_),     \* a text with a newline at its end
    LoadSlot, PollSlot, SaveSlot,  \* bounds on requests of one kind under way
    WaitPolls,      \* how often the tab asks whether the relay is back
    MaxOps          \* bound on what operators and End Close do

AnyText == Text \union {Broken}

ASSUME EditorAssumption ==
    /\ Broken \notin Text /\ None \notin AnyText /\ {Starter, Blank} \subseteq Text
    /\ Refused \subseteq Text /\ Unterminated \subseteq AnyText
    /\ \A t \in AnyText : /\ Newline(t) \in AnyText \ Unterminated
                          /\ t \notin Unterminated => Newline(t) = t
    /\ WaitPolls \in Nat \ {0} /\ MaxOps \in Nat

VARIABLES
    stored, managed, mode,  \* the relay: document, owner, down/bootstrap/running
    status, polls,          \* the page: what /status last said; polls under way
    tab,                    \* the Config tab: its state, or None
    loads,                  \* its GETs under way: None, sent, or the answer
    save,                   \* each onSave under way, or None: where it is, the text it holds,
                            \* whether its tab is still mounted, the polls it has left
    cli,                    \* relayctl
    clicked,                \* history: the text in the tab when apply was clicked
    ops

relay == <<stored, managed, mode>>
page == <<status, polls, tab, loads, save>>
vars == <<relay, page, cli, clicked, ops>>

Operate == ops < MaxOps /\ ops' = ops + 1

NoCli == [at |-> "idle", initial |-> None, text |-> None, touched |-> FALSE]

Init ==
    /\ \/ stored \in Text /\ mode = "running"
       \/ stored \in {None, Broken} /\ mode = "bootstrap"
    /\ managed \in BOOLEAN /\ (mode = "bootstrap" => ~managed)
    /\ status = None /\ polls = [s \in PollSlot |-> None]
    /\ tab = None /\ loads = [s \in LoadSlot |-> None]
    /\ save = [s \in SaveSlot |-> None] /\ clicked = [s \in SaveSlot |-> None]
    /\ cli = NoCli /\ ops = 0

-----------------------------------------------------------------------------
(* The relay.                                                               *)

parses(text) == text \in Text

\* POST /config: 409 while managed, 422 when it cannot be used.
accepted(text) == mode # "down" /\ ~managed /\ parses(text) /\ text \notin Refused

postConfig(text) ==
    IF accepted(text)
    THEN stored' = text /\ mode' = IF mode = "bootstrap" THEN "down" ELSE mode
    ELSE UNCHANGED <<stored, mode>>

Restarted ==
    /\ mode = "down" /\ mode' = IF parses(stored) THEN "running" ELSE "bootstrap"
    /\ UNCHANGED <<stored, managed, page, cli, clicked, ops>>

\* End Close's document arrives, or End Close lets go.
EndClose ==
    /\ Operate /\ mode # "down"
    /\ \/ /\ stored' \in Text /\ managed' = TRUE
          /\ mode' = IF mode = "bootstrap" THEN "down" ELSE mode
       \/ managed /\ managed' = FALSE /\ UNCHANGED <<stored, mode>>
    /\ UNCHANGED <<page, cli, clicked>>

-----------------------------------------------------------------------------
(* The page.                                                                *)

NewTab == [yaml |-> None, hash |-> None, dirty |-> FALSE]
NoLoads == [s \in LoadSlot |-> None]
Sent == [is |-> "sent"]

bootstrapPage(s) == s # None /\ s.mode = "bootstrap"
lockedBy(s) == s # None /\ ~bootstrapPage(s) /\ s.managed
locked == lockedBy(status)

reload == \E s \in LoadSlot : loads[s] = None /\ loads' = [loads EXCEPT ![s] = Sent]
mount == tab' = NewTab /\ \E s \in LoadSlot : loads' = [NoLoads EXCEPT ![s] = Sent]
unmount == tab' = None /\ loads' = NoLoads

\* An onSave outlives the tab it was clicked in.
leaves == save' = [s \in SaveSlot |-> IF save[s] = None THEN None
                                      ELSE [save[s] EXCEPT !.here = FALSE]]

\* The tab that waits for the relay shows no editor.
restarting == \E s \in SaveSlot : save[s] # None /\ save[s].at = "waiting" /\ save[s].here

\* usePolled: every five seconds, whatever became of the last poll.
Tick(s) ==
    /\ polls[s] = None /\ polls' = [polls EXCEPT ![s] = Sent]
    /\ UNCHANGED <<relay, status, tab, loads, save, cli, clicked, ops>>

\* The relay reads for a request, GET /status or GET /config, or is down.
Read(s) ==
    /\ polls[s] = Sent
    /\ polls' = [polls EXCEPT ![s] =
          IF mode = "down" THEN [is |-> "failed"]
          ELSE [is |-> "read", mode |-> mode, hash |-> stored, managed |-> managed]]
    /\ UNCHANGED <<relay, status, tab, loads, save, cli, clicked, ops>>

getConfig(s) ==
    /\ loads[s] = Sent
    /\ loads' = [loads EXCEPT ![s] = IF mode = "down" \/ stored = None THEN [is |-> "failed"]
                                     ELSE [is |-> "read", text |-> stored]]
    /\ UNCHANGED <<relay, status, polls, tab, save, cli, clicked, ops>>

\* A status comes back and the page is drawn: another mode has another tree,
\* and the tab's effect on configHash may reload.
Polled(s) ==
    /\ polls[s] # None /\ polls[s] # Sent /\ polls' = [polls EXCEPT ![s] = None]
    /\ IF polls[s].is = "failed" THEN UNCHANGED <<status, tab, loads, save>>
       ELSE /\ status' = polls[s]
            /\ IF bootstrapPage(polls[s]) # bootstrapPage(status)
               THEN leaves /\ IF bootstrapPage(polls[s]) THEN mount ELSE unmount
               ELSE /\ UNCHANGED <<tab, save>>
                    /\ IF /\ tab # None /\ tab.hash # None /\ ~bootstrapPage(polls[s])
                          /\ status # None => status.hash # polls[s].hash
                          /\ polls[s].hash \notin {None, tab.hash}
                          /\ lockedBy(polls[s]) \/ ~tab.dirty
                       THEN reload ELSE UNCHANGED loads
    /\ UNCHANGED <<relay, cli, clicked, ops>>

OpenTab ==
    /\ tab = None /\ ~bootstrapPage(status) /\ mount
    /\ UNCHANGED <<relay, status, polls, save, cli, clicked, ops>>

CloseTab ==
    /\ tab # None /\ ~bootstrapPage(status) /\ Operate /\ unmount /\ leaves
    /\ UNCHANGED <<relay, status, polls, cli, clicked>>

\* What reload and restoreVersion do with the answer.  A document that fails validation comes
\* without a hash, to be repaired; no answer is taken for no document.
Loaded(s) ==
    /\ loads[s] # None /\ loads[s] # Sent /\ loads' = [loads EXCEPT ![s] = None]
    /\ tab' = IF loads[s].is = "failed"
              THEN [yaml |-> IF tab.yaml = None THEN Starter ELSE tab.yaml,
                    hash |-> None, dirty |-> TRUE]
              ELSE IF loads[s].is = "version"
              THEN [tab EXCEPT !.yaml = loads[s].text, !.dirty = TRUE]
              ELSE IF parses(loads[s].text)
              THEN [yaml |-> loads[s].text, hash |-> loads[s].text, dirty |-> FALSE]
              ELSE [yaml |-> loads[s].text, hash |-> None, dirty |-> TRUE]
    /\ UNCHANGED <<relay, status, polls, save, cli, clicked, ops>>

\* The operator has an earlier version put into the editor, or types.
restoreVersion(text) ==
    /\ tab # None /\ ~locked /\ ~restarting /\ text # tab.hash /\ Operate
    /\ \E s \in LoadSlot :
         loads[s] = None /\ loads' = [loads EXCEPT ![s] = [is |-> "version", text |-> text]]
    /\ UNCHANGED <<relay, status, polls, tab, save, cli, clicked>>

Type(text) ==
    /\ tab # None /\ ~locked /\ ~restarting /\ Operate
    /\ tab' = [tab EXCEPT !.yaml = text, !.dirty = TRUE]
    /\ UNCHANGED <<relay, status, polls, loads, save, cli, clicked>>

-----------------------------------------------------------------------------
(* onSave, and waitForRunning after it.                                     *)

\* The button asks only for an edited text: a click before the last one is
\* done with starts another onSave.
clickApply(s) ==
    /\ tab # None /\ ~locked /\ ~restarting /\ tab.dirty /\ tab.yaml # None
    /\ save[s] = None /\ Operate
    /\ save' = [save EXCEPT ![s] = [at |-> "validate", text |-> tab.yaml, here |-> TRUE,
                                    left |-> WaitPolls]]
    /\ clicked' = [clicked EXCEPT ![s] = tab.yaml]
    /\ UNCHANGED <<relay, status, polls, tab, loads, cli>>

\* Mutation: what the editor holds after the validation is posted.
onSaveCurrent(s) ==
    /\ save[s] # None /\ save[s].at = "validate"
    /\ save' = [save EXCEPT ![s] = IF mode # "down" /\ parses(save[s].text) /\ tab # None
                                   THEN [save[s] EXCEPT !.at = "post", !.text = tab.yaml] ELSE None]
    /\ UNCHANGED <<relay, status, polls, tab, loads, cli, clicked, ops>>

\* The validation is answered and the operator confirms; or not.
onSave(s) ==
    /\ save[s] # None /\ save[s].at = "validate"
    /\ \/ save' = [save EXCEPT ![s] = None]
       \/ mode # "down" /\ parses(save[s].text) /\ save' = [save EXCEPT ![s].at = "post"]
    /\ UNCHANGED <<relay, status, polls, tab, loads, cli, clicked, ops>>

\* The post, and its answer: live, restarting, or an error.
Post(s) ==
    /\ save[s] # None /\ save[s].at = "post"
    /\ postConfig(save[s].text)
    /\ save' = [save EXCEPT ![s] = IF accepted(save[s].text)
                                   THEN [save[s] EXCEPT !.at = mode] ELSE None]
    /\ UNCHANGED <<managed, status, polls, tab, loads, cli, clicked, ops>>

\* Live: the tab reloads, if it is the one that posted.  Restarting: it waits.
Posted(s) ==
    /\ save[s] # None
    /\ \/ /\ save[s].at = "bootstrap" /\ save' = [save EXCEPT ![s].at = "waiting"]
          /\ UNCHANGED loads
       \/ /\ save[s].at = "running" /\ save' = [save EXCEPT ![s] = None]
          /\ IF save[s].here THEN reload ELSE UNCHANGED loads
    /\ UNCHANGED <<relay, status, polls, tab, cli, clicked, ops>>

\* location.reload(): a new page, without anything the old one was about.
reloadPage ==
    /\ status' = None /\ polls' = [s \in PollSlot |-> None]
    /\ unmount /\ save' = [s \in SaveSlot |-> None]

\* Mutation: the polls that fail are not counted.
WaitUncounted(s) ==
    /\ save[s] # None /\ save[s].at = "waiting"
    /\ IF mode = "running" THEN reloadPage ELSE UNCHANGED page
    /\ UNCHANGED <<relay, cli, clicked, ops>>

\* One round of waitForRunning: the page is reloaded, or there are fewer left.
waitForRunning(s) ==
    /\ save[s] # None /\ save[s].at = "waiting"
    /\ IF mode = "running" THEN reloadPage
       ELSE /\ save' = [save EXCEPT ![s] = IF save[s].left = 1 THEN None
                                        ELSE [save[s] EXCEPT !.left = @ - 1]]
            /\ UNCHANGED <<status, polls, tab, loads>>
    /\ UNCHANGED <<relay, cli, clicked, ops>>

-----------------------------------------------------------------------------
(* relayctl.                                                                *)

configApply(text) ==
    /\ cli.at = "idle" /\ Operate
    /\ cli' = [NoCli EXCEPT !.at = "validate", !.text = text, !.touched = TRUE]
    /\ UNCHANGED <<relay, page, clicked>>

configEdit ==
    /\ cli.at = "idle" /\ mode # "down" /\ Operate
    /\ cli' = [NoCli EXCEPT !.at = "editor", !.initial = stored]
    /\ UNCHANGED <<relay, page, clicked>>

\* The text that was loaded is not applied, unless there was none.
edited(text, touched) ==
    cli' = IF text = cli.initial THEN NoCli
           ELSE [cli EXCEPT !.at = "validate", !.text = text, !.touched = touched]

\* editInEditor ends the file in a newline; then the operator writes another
\* text, or leaves it alone.
editInEditor ==
    /\ cli.at = "editor"
    /\ LET opened == IF cli.initial = None THEN Blank ELSE Newline(cli.initial)
       IN  \/ edited(opened, FALSE)
           \/ \E text \in Text \ {opened} : edited(text, TRUE)
    /\ UNCHANGED <<relay, page, clicked, ops>>

cliValidated ==
    /\ cli.at = "validate"
    /\ cli' = IF mode # "down" /\ parses(cli.text) THEN [cli EXCEPT !.at = "post"] ELSE NoCli
    /\ UNCHANGED <<relay, page, clicked, ops>>

cliPost ==
    /\ cli.at = "post" /\ postConfig(cli.text) /\ cli' = NoCli
    /\ UNCHANGED <<managed, page, clicked, ops>>

-----------------------------------------------------------------------------

Relayctl == configEdit \/ editInEditor \/ cliValidated \/ cliPost \/ \E t \in AnyText : configApply(t)
Saving == \E s \in SaveSlot :
              clickApply(s) \/ onSave(s) \/ Post(s) \/ Posted(s) \/ waitForRunning(s)
Requests == (\E s \in PollSlot : Tick(s) \/ Read(s) \/ Polled(s))
            \/ \E s \in LoadSlot : getConfig(s) \/ Loaded(s)

Next ==
    \/ Restarted \/ EndClose \/ Requests \/ OpenTab \/ CloseTab \/ Saving \/ Relayctl
    \/ \E t \in AnyText : Type(t) \/ restoreVersion(t)

Spec == Init /\ [][Next]_vars

\* Requests are answered or fail, and timers fire; nobody owes a click, and the
\* tab may not count on the relay to come back.
Fairness ==
    /\ \A s \in SaveSlot : /\ WF_vars(onSave(s)) /\ WF_vars(Post(s)) /\ WF_vars(Posted(s))
                           /\ WF_vars(waitForRunning(s))
    /\ \A s \in LoadSlot : WF_vars(getConfig(s)) /\ WF_vars(Loaded(s))

FairSpec == Spec /\ Fairness

-----------------------------------------------------------------------------
(* Properties.                                                              *)

\* What the tab posts is the text that stood in it when its operator clicked
\* apply and that was validated, though a reload that was under way may have
\* put another text there since, or the operator clicked again on another one.
PostsWhatWasClicked ==
    \A s \in SaveSlot : save[s] # None => save[s].text = clicked[s]

\* docs/RELAYCTL.md:55 says of relayctl config edit "Open active YAML in $EDITOR / $VISUAL,
\* then apply if changed.", and config.ts:147 calls the other case "unchanged - nothing applied": a
\* document that its operator left alone is not applied, and so undoes nobody's work.
UnchangedEditAppliesNothing ==
    (cli.at = "post" /\ accepted(cli.text) /\ cli.initial # None) => cli.touched

\* An apply in the tab comes to an end: an error, a reload, or the page of the
\* restarted relay; never a tab that waits forever, though the relay may not
\* come back.
EveryApplyEnds == \A s \in SaveSlot : [](save[s] # None => <>(save[s] = None))
=============================================================================
