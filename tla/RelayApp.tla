-------------------------------- MODULE RelayApp --------------------------------
(***************************************************************************)
(* The relay application around the engine: how a process boots, who owns  *)
(* its configuration, and what survives it (apps/relay/src/index.ts,       *)
(* config/remote.ts, config/store.ts, admin/server.ts, forward/manifest.ts).*)
(* The database outlives the process; the manager's opinion, the request   *)
(* to End Close under way and the reporter do not.  A process crashes, is  *)
(* stopped or restarts itself, comes back with another environment, and    *)
(* may be interrupted between two writes of one answer.                    *)
(*                                                                         *)
(* A document stands for its text: its hash is the document itself, and so *)
(* is the ETag End Close gives it.                                         *)
(***************************************************************************)
EXTENDS Naturals

CONSTANTS
    None,
    Local, Remote,      \* documents an operator applies; documents End Close holds
    Old,                \* a stored document that the schema no longer accepts
    RoutesOf,           \* the routes of each document
    Secretive,          \* documents with a route whose secret may be unset
    Seeds,              \* what relay.yaml may hold; None: there is no file
    Environments,       \* what the environment may be at a boot
    Tags,               \* may End Close answer with an ETag, without one?
    Interrupts,         \* the writes after which a check may be cut short
    MaxOps, MaxStops, MaxShifts  \* bounds: operator actions and failed writes,
                                 \* crashes and stops, changes at End Close

Doc == Local \union Remote
Route == UNION {RoutesOf[d] : d \in Doc \union {Old}}

\* required: everything checkRequiredEnv asks for; remote: a key, and
\* RELAY_REMOTE_CONFIG not off; secret: the secrets of Secretive; telemetry.
EnvVar == {"required", "remote", "secret", "telemetry"}
Silence == {"not_found", "unauthorized", "unavailable"}

ASSUME AppAssumption ==
    /\ Local \intersect Remote = {} /\ Old \notin Doc /\ Secretive \subseteq Doc
    /\ None \notin Doc \union {Old} /\ Seeds \subseteq Local \union {Old, None}
    /\ Environments \subseteq SUBSET EnvVar /\ Tags \subseteq BOOLEAN
    /\ Interrupts \subseteq {"saved", "tagged", "untagged", "done"}
    /\ {MaxOps, MaxStops, MaxShifts} \subseteq Nat

VARIABLES
    db,         \* what the database holds
    seed,       \* relay.yaml
    endclose,   \* what End Close answers: a document, or why it has none
    proc, env,  \* the process; its environment
    mgr,        \* the RemoteConfigManager's status: state and managed
    check,      \* the check under way: what it read, and End Close's answer
    boot,       \* how resolveActiveConfig found the stored configuration
    leaving,    \* restarting, or shuttingDown
    reporter,   \* the instance reporter: idle, on, off
    pending,    \* manifests under way, by the configuration source they name
    told,       \* the source End Close last heard of
    owner,      \* history: did End Close's last answer give it the
                \* configuration, and is that recorded, or only halfway?
    unreviewed, \* history: a repair applied, or answered as applied, that no
                \* operator has looked at since
    ops, stops, shifts

reports == <<reporter, pending, told>>
counts == <<ops, stops, shifts>>
process == <<proc, env, mgr, check, boot, leaving>>
vars == <<db, seed, endclose, process, reports, owner, unreviewed, counts>>

Asking == proc = "asking"
Serving == proc \in {"bootstrap", "running"}

-----------------------------------------------------------------------------
(* The configuration in the database.                                       *)

\* parseConfig accepts a document or throws.
parses(d) == d \in Doc

\* requireSecret for every route.
usable(d) == parses(d) /\ (d \in Secretive => "secret" \in env)

\* Mutation: the pauses of routes that are gone stay.
saveKeepsPauses(base, d) ==
    IF d = base.stored THEN base
    ELSE [base EXCEPT !.stored = d, !.routes = RoutesOf[d]]

\* The transaction of saveConfig, for a usable document.
saveConfig(base, d) ==
    IF d = base.stored THEN base
    ELSE [base EXCEPT !.stored = d, !.routes = RoutesOf[d],
                      !.paused = @ \intersect RoutesOf[d]]

\* getActiveConfig.
active == IF parses(db.stored) THEN db.stored ELSE None

resolve(stored) ==
    IF stored = None THEN "empty" ELSE IF parses(stored) THEN "ok" ELSE "invalid"

wasManagedByEndClose == active # None /\ db.hash = active

Init ==
    /\ \E stored \in Local \union {None, Old} :
         db = [stored |-> stored,
               routes |-> IF stored = None THEN {} ELSE RoutesOf[stored],
               paused |-> {}, switch |-> "none", etag |-> None, hash |-> None]
    /\ seed \in Seeds
    /\ endclose \in Remote \union {"not_found", "unavailable"}
    /\ proc = "down" /\ env = {} /\ mgr = [state |-> "unknown", managed |-> FALSE]
    /\ check = None /\ boot = "empty" /\ leaving = FALSE
    /\ reporter = "idle" /\ pending = {} /\ told = None
    /\ owner = "none" /\ unreviewed = "no"
    /\ ops = 0 /\ stops = 0 /\ shifts = 0

-----------------------------------------------------------------------------
(* The instance reporter.  A manifest says where the configuration comes    *)
(* from at the moment it is sent.                                           *)

\* Mutation: the source is read once, before End Close has answered.
SourceAtStart(m) == "local"

Source(m) == IF m.managed THEN "remote" ELSE "local"

announce(m) == pending' = IF "telemetry" \in env THEN pending \union {Source(m)}
                          ELSE pending

\* start(), the last act of a boot: requests may be served before it.
StartReporter ==
    /\ Serving /\ reporter = "idle" /\ "telemetry" \in env
    /\ reporter' = "on" /\ announce(mgr)
    /\ UNCHANGED <<db, seed, endclose, process, told, owner, unreviewed, counts>>

\* stop(): the shutdown manifest.
stopReporter(m) ==
    IF reporter = "on" THEN reporter' = "off" /\ announce(m)
    ELSE UNCHANGED <<reporter, pending>>

Heartbeat ==
    /\ reporter = "on" /\ announce(mgr)
    /\ UNCHANGED <<db, seed, endclose, process, reporter, told, owner, unreviewed, counts>>

\* An engine error; the throttle is time that has passed.
reportError ==
    /\ proc = "running" /\ announce(mgr)
    /\ UNCHANGED <<db, seed, endclose, process, reporter, told, owner, unreviewed, counts>>

\* A manifest arrives, in any order, or is refused and only logged.
Arrive(s) ==
    /\ s \in pending /\ pending' = pending \ {s}
    /\ told' = IF endclose \in {"unauthorized", "unavailable"} THEN told ELSE s
    /\ UNCHANGED <<db, seed, endclose, process, reporter, owner, unreviewed, counts>>

-----------------------------------------------------------------------------
(* A check: what it reads, what End Close answers, what becomes of it.      *)

\* Mutation: the ETag is sent whatever has become of the stored document.
askWithAnyTag == [stored |-> active, etag |-> db.etag, answer |-> None]

\* checkEndCloseInner up to its await.  The ETag is sent only when the stored
\* document is the one it describes.
ask == [stored |-> active,
        etag |-> IF active # None /\ db.hash = active THEN db.etag ELSE None,
        answer |-> None]

\* main(): the environment, the database, the manager, what is stored, and
\* the first check.
Boot ==
    /\ proc = "down"
    /\ env' \in Environments
    /\ IF "required" \in env'
       THEN /\ proc' = "asking" /\ boot' = resolve(db.stored) /\ check' = ask
            /\ mgr' = [state |-> "unknown",
                       managed |-> "remote" \in env' /\ wasManagedByEndClose]
            /\ owner' = IF "remote" \in env' THEN owner ELSE "none"
       ELSE /\ proc' = "setup"     \* the setup page, until the next start
            /\ UNCHANGED <<boot, check, mgr, owner>>
    /\ UNCHANGED <<db, seed, endclose, leaving, reports, unreviewed, counts>>

\* A poll; one that finds a check under way joins it.
Poll ==
    /\ Serving /\ ~leaving /\ mgr.state # "disabled" /\ check = None
    /\ check' = ask
    /\ UNCHANGED <<db, seed, endclose, proc, env, mgr, boot, leaving, reports, owner,
                   unreviewed, counts>>

\* End Close answers from what it holds; "unchanged" (304) only to the ETag of
\* that document.
Reply ==
    /\ check # None /\ check.answer = None /\ "remote" \in env
    /\ \E tag \in Tags :
         check' = [check EXCEPT !.answer =
            IF endclose \in Silence THEN [kind |-> endclose]
            ELSE IF check.etag = endclose THEN [kind |-> "unchanged"]
            ELSE [kind |-> "document", doc |-> endclose, tag |-> tag]]
    /\ UNCHANGED <<db, seed, endclose, proc, env, mgr, boot, leaving, reports, owner,
                   unreviewed, counts>>

\* Mutation: the hash is kept, with or without an ETag beside it.
ServedKeepsHash(doc, tag) ==
    LET saved == [saveConfig(db, doc) EXCEPT !.hash = doc]
    IN  [done |-> IF tag THEN [saved EXCEPT !.etag = doc] ELSE saved]

\* The database after each write that an answer causes.
Served(doc, tag) ==
    LET saved == saveConfig(db, doc)
        tagged == [saved EXCEPT !.etag = doc]
        untagged == [saved EXCEPT !.etag = None]
    IN  IF tag THEN [saved |-> saved, tagged |-> tagged,
                     done |-> [tagged EXCEPT !.hash = doc]]
        ELSE [saved |-> saved, untagged |-> untagged,
              done |-> [untagged EXCEPT !.hash = None]]

Writes(answer) ==
    IF answer.kind = "document" /\ usable(answer.doc) THEN Served(answer.doc, answer.tag)
    ELSE IF answer.kind = "not_found"
    THEN [untagged |-> [db EXCEPT !.etag = None],
          done |-> [db EXCEPT !.etag = None, !.hash = None]]
    ELSE [done |-> db]

\* The result checkEndClose makes of an answer.
Result(answer) ==
    CASE answer.kind = "unchanged" -> "managed"
      [] answer.kind = "document" /\ usable(answer.doc) -> "managed"
      [] answer.kind = "not_found" -> "unmanaged"
      [] OTHER -> "failed"

\* Mutation: a check that fails hands the configuration to the operator.
recordForgets(result) == [state |-> result, managed |-> result = "managed"]

\* record: a failure leaves ownership as it was.
record(result) ==
    [state |-> result,
     managed |-> IF result = "failed" THEN mgr.managed ELSE result = "managed"]

\* The rest of main() once the first check is over: running, or bootstrap
\* mode with or without an error to repair.
Booted(result, now) ==
    LET fromSeed == now.stored = None /\ seed # None
        found == IF result = "managed" THEN "ok"
                 ELSE IF boot # "empty" THEN boot
                 ELSE IF fromSeed THEN IF usable(seed) THEN "ok" ELSE "invalid"
                 ELSE resolve(now.stored)
    IN  /\ boot' = found
        /\ proc' = IF found = "ok" THEN "running" ELSE "bootstrap"
        /\ db' = IF result # "managed" /\ fromSeed /\ usable(seed) THEN saveConfig(now, seed)
                 ELSE now

\* A check is over: its result is recorded, and a boot goes on or a bootstrap
\* that has received a configuration restarts.
Conclude(result, now) ==
    /\ check' = None
    /\ mgr' = record(result)
    /\ IF Asking
       THEN Booted(result, now) /\ UNCHANGED <<leaving, reporter, pending>>
       ELSE /\ db' = now /\ UNCHANGED <<proc, boot>>
            /\ IF proc = "bootstrap" /\ result = "managed" /\ ~leaving
               THEN leaving' = TRUE /\ stopReporter(mgr')
               ELSE UNCHANGED <<leaving, reporter, pending>>

\* Asking is disabled: only ever at boot.
CheckDisabled ==
    /\ check # None /\ "remote" \notin env
    /\ Conclude("disabled", db)
    /\ UNCHANGED <<seed, endclose, env, told, owner, unreviewed, counts>>

\* What is owned and on record, in the words of the history.
Owned(result, answer) ==
    CASE result = "managed" /\ answer.kind = "document" ->
            IF answer.tag THEN "recorded" ELSE "unrecorded"
      [] result = "unmanaged" -> "none"
      [] OTHER -> owner

Settle ==
    /\ check # None /\ check.answer # None
    /\ Conclude(Result(check.answer), Writes(check.answer).done)
    /\ owner' = Owned(Result(check.answer), check.answer)
    /\ UNCHANGED <<seed, endclose, env, told, unreviewed, counts>>

\* What is on record of an ownership when a check is cut short: before the hash
\* of another document is written, halfway between the two.
OwnedSoFar(answer, at) ==
    IF owner # "recorded" THEN owner
    ELSE IF at = "done" THEN Owned(Result(answer), answer)
    ELSE IF answer.kind = "document" /\ answer.doc # db.stored THEN "halfway"
    ELSE owner

\* A write fails and the check with it; what was written before stays (the
\* environment's name is written last).
SettleInterrupted ==
    /\ check # None /\ check.answer # None
    /\ ops < MaxOps /\ ops' = ops + 1
    /\ \E at \in Interrupts \intersect DOMAIN Writes(check.answer) :
         /\ Conclude("failed", Writes(check.answer)[at])
         /\ owner' = OwnedSoFar(check.answer, at)
    /\ UNCHANGED <<seed, endclose, env, told, unreviewed, stops, shifts>>

-----------------------------------------------------------------------------
(* The admin plane.  Editors (the Config tab, relayctl config edit and      *)
(* apply) load a document, change it, have it validated and post it; what   *)
(* they post is any document that parses, at any time.                      *)

Operate ==
    /\ Serving /\ ops < MaxOps /\ ops' = ops + 1
    /\ UNCHANGED <<seed, endclose, told, owner, stops, shifts>>

setKillswitch(state) ==
    /\ Operate /\ db' = [db EXCEPT !.switch = state] /\ unreviewed' = "no"
    /\ UNCHANGED <<process, reporter, pending>>

setRoutePaused(r, paused) ==
    /\ Operate /\ r \in db.routes
    /\ db' = [db EXCEPT !.paused = IF paused THEN @ \union {r} ELSE @ \ {r}]
    /\ UNCHANGED <<process, reporter, pending, unreviewed>>

\* Mutation: a repair leaves the killswitch as it is.
holdNothing(now) == now

\* After a repair forwarding is held, and no pause or panic is loosened.
holdForReview(now) ==
    IF boot = "invalid" /\ now.switch = "none" THEN [now EXCEPT !.switch = "pause"]
    ELSE now

\* restart() of bootstrap mode, after onConfigApplied has announced.
restart ==
    /\ leaving' = TRUE
    /\ reporter' = IF reporter = "on" /\ ~leaving THEN "off" ELSE reporter
    /\ announce(mgr)

\* POST /config.  A managed configuration answers 409, one that cannot be
\* used 422: neither changes anything.
postConfig(d) ==
    /\ Operate /\ ~mgr.managed /\ usable(d)
    /\ IF proc = "bootstrap"
       THEN /\ db' = holdForReview(saveConfig(db, d)) /\ restart
            /\ unreviewed' = IF boot = "invalid" THEN "answered" ELSE unreviewed
       ELSE /\ db' = saveConfig(db, d) /\ announce(mgr)
            /\ UNCHANGED <<leaving, reporter, unreviewed>>
    /\ UNCHANGED <<proc, env, mgr, check, boot>>

\* The document and the killswitch of a repair are two commits: the second fails,
\* or its audit entry does (500, and no restart), or the process dies before it (a
\* Crash that follows).
RepairCutShort(d) ==
    /\ Operate /\ ~mgr.managed /\ usable(d)
    /\ proc = "bootstrap" /\ boot = "invalid" /\ db.switch = "none"
    /\ LET saved == saveConfig(db, d) IN db' \in {saved, holdForReview(saved)}
    /\ unreviewed' = "applied"
    /\ announce(mgr)
    /\ UNCHANGED <<process, reporter>>

-----------------------------------------------------------------------------
(* The end of a process, and End Close.                                     *)

\* SIGTERM while running: polls stop, ingest and dispatch drain, the reporter
\* says goodbye; the admin plane serves until the end.
shutdown ==
    /\ proc = "running" /\ reporter # "idle" /\ ~leaving
    /\ stops < MaxStops /\ stops' = stops + 1
    /\ leaving' = TRUE /\ stopReporter(mgr)
    /\ UNCHANGED <<db, seed, endclose, proc, env, mgr, check, boot, told, owner, unreviewed,
                   ops, shifts>>

\* What a process takes with it.
Gone ==
    /\ proc' = "down" /\ env' = {} /\ mgr' = [state |-> "unknown", managed |-> FALSE]
    /\ check' = None /\ boot' = "empty" /\ leaving' = FALSE
    /\ reporter' = "idle" /\ pending' = {}

End ==
    /\ Gone
    /\ UNCHANGED <<db, seed, endclose, told, owner, unreviewed, ops, shifts>>

Exit == Serving /\ leaving /\ End /\ UNCHANGED stops

Crash == proc # "down" /\ stops < MaxStops /\ stops' = stops + 1 /\ End

EndCloseChanges(to) ==
    /\ shifts < MaxShifts /\ shifts' = shifts + 1
    /\ to # endclose /\ endclose' = to
    /\ UNCHANGED <<db, seed, process, reports, owner, unreviewed, ops, stops>>

Operator ==
    \/ \E state \in {"none", "pause", "panic"} : setKillswitch(state)
    \/ \E r \in Route, paused \in BOOLEAN : setRoutePaused(r, paused)
    \/ \E d \in Doc : postConfig(d) \/ RepairCutShort(d)

Checks == Poll \/ Reply \/ CheckDisabled \/ Settle \/ SettleInterrupted

Reports == StartReporter \/ Heartbeat \/ reportError \/ \E s \in pending : Arrive(s)

Next ==
    \/ Boot \/ Checks \/ Operator \/ Reports \/ shutdown \/ Exit \/ Crash
    \/ \E to \in Remote \union Silence : EndCloseChanges(to)

Spec == Init /\ [][Next]_vars

\* The restart policy starts a process that is down, the polls and heartbeats
\* are timers, requests settle (they have a timeout), and a process that has
\* decided to exit does.  Operators and End Close owe nothing.
Fairness ==
    /\ WF_vars(Boot) /\ WF_vars(Poll) /\ WF_vars(Reply) /\ WF_vars(CheckDisabled)
    /\ WF_vars(Settle) /\ WF_vars(Exit)
    /\ WF_vars(StartReporter) /\ WF_vars(Heartbeat)
    /\ \A s \in {"local", "remote"} : WF_vars(Arrive(s))

FairSpec == Spec /\ Fairness

-----------------------------------------------------------------------------
(* Properties.                                                              *)

\* The routes that ingest and dispatch read are those of the configuration,
\* and only they can be paused: a route that comes back is not silently
\* paused, whoever replaced the configuration, in which mode.
NoGhostPause ==
    /\ db.routes = IF db.stored = None THEN {} ELSE RoutesOf[db.stored]
    /\ db.paused \subseteq db.routes

\* A stored ETag that would be sent describes the stored document: after any
\* mixture of answers, local edits, restarts and a switched-off remote
\* configuration, an "unchanged" can only be about what is stored.
TagDescribesStored ==
    (db.hash # None /\ db.hash = db.stored /\ db.etag # None) => db.etag = db.stored

\* From the answer to a repair of an invalid configuration until an operator sets
\* the killswitch forwarding stays held, across the restart and End Close's answers,
\* and whatever an earlier repair that was cut short has left.
RecoveryHeld == unreviewed = "answered" => db.switch # "none"

\* "A repair applied from recovery restarts the relay with forwarding paused"
\* (docs/CONFIG.md): no relay forwards on a repaired configuration that nobody has
\* reviewed.
RepairComesUpPaused ==
    (unreviewed # "no" /\ proc = "running") => db.switch # "none"

\* A relay whose document came from End Close and was recorded with its ETag
\* stays managed through failures, restarts and outages, and through checks cut
\* short, except between another document and its hash.
RecordedOwnershipSurvives ==
    (Serving /\ "remote" \in env /\ owner = "recorded") => mgr.managed

\* "Ownership survives a restart: until End Close answers, a relay that was managed
\* stays managed" (config/remote.ts): also one that has stored End Close's next
\* document and not yet its hash.
OwnershipSurvives ==
    (Serving /\ "remote" \in env /\ owner \in {"recorded", "halfway"}) => mgr.managed

\* While End Close serves a document this relay can use, and is asked, the
\* relay comes to run it, managed: whatever was stored, applied, cut short
\* or answered late before.
ComesToRunEndCloses ==
    <>[](endclose \in Remote /\ {"required", "remote", "secret"} \subseteq env)
        => <>[](proc = "running" /\ mgr.managed /\ db.stored = endclose)

\* End Close comes to know where the configuration of a running relay comes
\* from, however its manifests overtake each other.
SourceIsReported ==
    \A m \in BOOLEAN :
      <>[](/\ proc = "running" /\ ~leaving /\ "telemetry" \in env /\ mgr.managed = m
           /\ endclose \notin {"unauthorized", "unavailable"})
        => <>[](told = IF m THEN "remote" ELSE "local")
=============================================================================
