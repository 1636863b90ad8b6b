----------------------------- MODULE RelayAppProofs -----------------------------
(***************************************************************************)
(* What the application keeps in its database, and who owns the            *)
(* configuration, for every set of documents, routes and environments, and *)
(* any number of restarts, edits and answers.                              *)
(***************************************************************************)
EXTENDS RelayApp, TLAPS

\* The rows of the database.
DbType ==
    [stored : Doc \union {Old, None}, routes : SUBSET Route, paused : SUBSET Route,
     switch : {"none", "pause", "panic"}, etag : Doc \union {None},
     hash : Doc \union {None}]

\* NoGhostPause of a database that may not be the current one.
Sound(x) ==
    /\ x \in DbType
    /\ x.routes = IF x.stored = None THEN {} ELSE RoutesOf[x.stored]
    /\ x.paused \subseteq x.routes

\* The recorded hash and ETag belong to one document, stored or not.
Paired(x) == (x.hash # None /\ x.etag # None) => x.etag = x.hash

\* An answer comes from a remote configuration that is asked for.
AnswersAreAsked ==
    check # None => /\ proc \in {"asking", "bootstrap", "running"}
                    /\ check.answer # None => "remote" \in env

\* What a recorded ownership rests on: the stored document is the recorded
\* one, and the manager of a process under way knows.
OwnershipRests ==
    owner = "recorded" =>
        /\ parses(db.stored) /\ db.hash = db.stored
        /\ proc \in {"asking", "bootstrap", "running"} =>
               "remote" \in env /\ mgr.managed

DbInv == Sound(db) /\ RecoveryHeld
OwnerInv == AnswersAreAsked /\ OwnershipRests

--------------------------------------------------------------------------------
(* The writes.                                                              *)

\* The routes of a document are routes.
LEMMA RoutesAreRoutes == \A d \in Doc \union {Old} : RoutesOf[d] \subseteq Route
  BY DEF Route

\* saveConfig drops the pauses of routes that are gone, and touches nothing
\* but the document, its routes and their pauses.
LEMMA SaveIsSound ==
    ASSUME NEW x, Sound(x), NEW d \in Doc
    PROVE  /\ Sound(saveConfig(x, d))
           /\ saveConfig(x, d).switch = x.switch
           /\ saveConfig(x, d).etag = x.etag /\ saveConfig(x, d).hash = x.hash
           /\ saveConfig(x, d).stored = d
  <1>1. CASE d = x.stored
    BY <1>1 DEF saveConfig
  <1>2. CASE d # x.stored
    <2> DEFINE y == saveConfig(x, d)
    <2>1. y = [x EXCEPT !.stored = d, !.routes = RoutesOf[d],
                        !.paused = x.paused \intersect RoutesOf[d]]
      BY <1>2 DEF saveConfig
    <2>2. x \in DbType /\ RoutesOf[d] \subseteq Route
      BY RoutesAreRoutes DEF Sound
    <2>3. /\ y.stored = d /\ y.routes = RoutesOf[d] /\ y.paused = x.paused \intersect RoutesOf[d]
          /\ y.switch = x.switch /\ y.etag = x.etag /\ y.hash = x.hash
      BY <2>1, <2>2 DEF DbType
    <2>4. y \in DbType
      BY <2>1, <2>2 DEF DbType
    <2>5. d # None
      BY AppAssumption
    <2> QED
      BY <2>3, <2>4, <2>5 DEF Sound
  <1> QED
    BY <1>1, <1>2

\* Recording an ETag or a hash leaves the rest of a database alone.
WithTag(x, t) == [x EXCEPT !.etag = t]
WithHash(x, t) == [x EXCEPT !.hash = t]

\* Writing the ETag keeps a database sound.
LEMMA TagIsSound ==
    ASSUME NEW x, Sound(x), NEW t \in Doc \union {None}
    PROVE  /\ Sound(WithTag(x, t)) /\ WithTag(x, t).switch = x.switch
           /\ WithTag(x, t).stored = x.stored
           /\ WithTag(x, t).etag = t /\ WithTag(x, t).hash = x.hash
  <1>1. x \in DbType
    BY DEF Sound
  <1> DEFINE y == [x EXCEPT !.etag = t]
  <1>2. /\ y \in DbType /\ y.stored = x.stored /\ y.routes = x.routes /\ y.paused = x.paused
        /\ y.switch = x.switch /\ y.etag = t /\ y.hash = x.hash
    BY <1>1 DEF DbType
  <1> QED
    BY <1>2 DEF Sound, WithTag

\* Writing the hash keeps a database sound.
LEMMA HashIsSound ==
    ASSUME NEW x, Sound(x), NEW t \in Doc \union {None}
    PROVE  /\ Sound(WithHash(x, t)) /\ WithHash(x, t).switch = x.switch
           /\ WithHash(x, t).stored = x.stored
           /\ WithHash(x, t).hash = t /\ WithHash(x, t).etag = x.etag
  <1>1. x \in DbType
    BY DEF Sound
  <1> DEFINE y == [x EXCEPT !.hash = t]
  <1>2. /\ y \in DbType /\ y.stored = x.stored /\ y.routes = x.routes /\ y.paused = x.paused
        /\ y.switch = x.switch /\ y.hash = t /\ y.etag = x.etag
    BY <1>1 DEF DbType
  <1> QED
    BY <1>2 DEF Sound, WithHash

\* Holding a repair back touches nothing but the killswitch, and never loosens it.
LEMMA HoldIsSound ==
    ASSUME NEW x, Sound(x)
    PROVE  /\ Sound(holdForReview(x))
           /\ x.switch # "none" => holdForReview(x).switch # "none"
           /\ boot = "invalid" => holdForReview(x).switch # "none"
           /\ holdForReview(x).stored = x.stored
           /\ holdForReview(x).etag = x.etag /\ holdForReview(x).hash = x.hash
  <1>1. x \in DbType
    BY DEF Sound
  <1> DEFINE y == [x EXCEPT !.switch = "pause"]
  <1>2. /\ y \in DbType /\ y.stored = x.stored /\ y.routes = x.routes /\ y.paused = x.paused
        /\ y.switch = "pause" /\ y.etag = x.etag /\ y.hash = x.hash
    BY <1>1 DEF DbType
  <1>3. holdForReview(x) = IF boot = "invalid" /\ x.switch = "none" THEN y ELSE x
    BY DEF holdForReview
  <1> HIDE DEF y
  <1> QED
    BY <1>2, <1>3 DEF Sound

\* What a check may leave behind, wherever it is cut short: a sound database
\* with the killswitch as it was, and an ETag and a hash that belong together
\* unless it ends between the two.
Leaves(x, at) ==
    /\ Sound(x) /\ x.switch = db.switch
    /\ (Paired(db) /\ at # "tagged") => Paired(x)

\* A document served, after each of its writes.
LEMMA ServedLeaves ==
    ASSUME Sound(db), NEW doc \in Doc, NEW tag,
           NEW at \in DOMAIN Served(doc, tag)
    PROVE  /\ Leaves(Served(doc, tag)[at], at)
           /\ Served(doc, tag).done.stored = doc
           /\ tag => Served(doc, tag).done.hash = doc
  <1> DEFINE saved == saveConfig(db, doc)
             tagged == WithTag(saved, doc)
             untagged == WithTag(saved, None)
  <1>1. /\ Sound(saved) /\ saved.switch = db.switch /\ saved.stored = doc
        /\ saved.etag = db.etag /\ saved.hash = db.hash
    BY SaveIsSound
  <1>2. /\ Sound(tagged) /\ tagged.switch = db.switch /\ tagged.stored = doc
        /\ tagged.etag = doc
    BY <1>1, TagIsSound
  <1>3. /\ Sound(untagged) /\ untagged.switch = db.switch /\ untagged.stored = doc
        /\ untagged.etag = None
    BY <1>1, TagIsSound
  <1> DEFINE done == WithHash(tagged, doc)
             undone == WithHash(untagged, None)
  <1>4. /\ Sound(done) /\ done.switch = db.switch /\ done.stored = doc
        /\ done.etag = doc /\ done.hash = doc
    BY <1>2, HashIsSound
  <1>5. /\ Sound(undone) /\ undone.switch = db.switch /\ undone.stored = doc
        /\ undone.hash = None
    BY <1>3, HashIsSound
  <1> HIDE DEF saved, tagged, untagged, done, undone
  <1>6. CASE tag
    <2>1. Served(doc, tag) = [saved |-> saved, tagged |-> tagged, done |-> done]
      BY <1>6 DEF Served, saved, tagged, done, WithTag, WithHash
    <2> QED
      BY <2>1, <1>1, <1>2, <1>4 DEF Leaves, Paired
  <1>7. CASE ~tag
    <2>1. Served(doc, tag) = [saved |-> saved, untagged |-> untagged, done |-> undone]
      BY <1>7 DEF Served, saved, untagged, undone, WithTag, WithHash
    <2> QED
      BY <2>1, <1>1, <1>3, <1>5, <1>7 DEF Leaves, Paired
  <1> QED
    BY <1>6, <1>7

\* Any answer, after each of its writes.
LEMMA WritesLeave ==
    ASSUME Sound(db), NEW answer, NEW at \in DOMAIN Writes(answer)
    PROVE  Leaves(Writes(answer)[at], at)
  <1>1. CASE answer.kind = "document" /\ usable(answer.doc)
    <2>1. answer.doc \in Doc /\ Writes(answer) = Served(answer.doc, answer.tag)
      BY <1>1 DEF Writes, usable, parses
    <2> QED
      BY <2>1, ServedLeaves
  <1>2. CASE ~(answer.kind = "document" /\ usable(answer.doc)) /\ answer.kind = "not_found"
    <2> DEFINE untagged == WithTag(db, None)
               undone == WithHash(untagged, None)
    <2>1. Sound(untagged) /\ untagged.switch = db.switch /\ untagged.etag = None
      BY TagIsSound
    <2>2. Sound(undone) /\ undone.switch = db.switch /\ undone.hash = None
      BY <2>1, HashIsSound
    <2>3. [db EXCEPT !.etag = None, !.hash = None] = undone
      BY DEF WithTag, WithHash
    <2> HIDE DEF untagged, undone
    <2>4. Writes(answer) = [untagged |-> untagged, done |-> undone]
      BY <1>2, <2>3 DEF Writes, untagged, WithTag
    <2> QED
      BY <2>1, <2>2, <2>4 DEF Leaves, Paired
  <1>3. CASE ~(answer.kind = "document" /\ usable(answer.doc)) /\ answer.kind # "not_found"
    <2>1. Writes(answer) = [done |-> db]
      BY <1>3 DEF Writes
    <2> QED
      BY <2>1 DEF Leaves
  <1> QED
    BY <1>1, <1>2, <1>3

\* Every answer has a last write.
LEMMA WritesEnd == \A answer : "done" \in DOMAIN Writes(answer)
  <1> TAKE answer
  <1>1. CASE answer.kind = "document" /\ usable(answer.doc)
    BY <1>1 DEF Writes, Served
  <1>2. CASE ~(answer.kind = "document" /\ usable(answer.doc))
    BY <1>2 DEF Writes
  <1> QED
    BY <1>1, <1>2

--------------------------------------------------------------------------------
(* The steps, as the database sees them.                                    *)

\* A check that ends leaves what it wrote, and at a boot perhaps the seed.
Left(now, at) ==
    Leaves(now, at) /\ (db' = now \/ \E d \in Doc : db' = saveConfig(now, d))
Concluded(at) == UNCHANGED unreviewed /\ \E now : Left(now, at)

\* The end of a check saves nothing beyond what it wrote but a usable seed,
\* and that only when nothing was stored and End Close gave nothing.
LEMMA ConcludeSaves ==
    ASSUME NEW result, NEW now, Conclude(result, now)
    PROVE  \/ db' = now
           \/ /\ Asking /\ result # "managed" /\ now.stored = None /\ seed \in Doc
              /\ db' = saveConfig(now, seed)
  <1>1. CASE Asking
    BY <1>1 DEF Conclude, Booted, usable, parses
  <1>2. CASE ~Asking
    BY <1>2 DEF Conclude
  <1> QED
    BY <1>1, <1>2

\* Only the end of a check and the admin calls write the database.
LEMMA DatabaseSteps ==
    ASSUME DbInv, [Next]_vars
    PROVE  \/ UNCHANGED <<db, unreviewed>>
           \/ \E at \in Interrupts \union {"done"} : Concluded(at)
           \/ \E state \in {"none", "pause", "panic"} : setKillswitch(state)
           \/ \E r \in Route, paused \in BOOLEAN : setRoutePaused(r, paused)
           \/ \E d \in Doc : postConfig(d) \/ RepairCutShort(d)
  <1>0. Sound(db)
    BY DEF DbInv
  <1>1. CASE CheckDisabled
    <2>1. Leaves(db, "done") /\ Conclude("disabled", db) /\ UNCHANGED unreviewed
      BY <1>0, <1>1 DEF CheckDisabled, Leaves
    <2> QED
      BY <2>1, ConcludeSaves DEF Concluded, Left
  <1>2. CASE Settle
    <2> DEFINE now == Writes(check.answer).done
    <2>1. Leaves(now, "done")
      BY <1>0, WritesLeave, WritesEnd
    <2>2. Conclude(Result(check.answer), now) /\ UNCHANGED unreviewed
      BY <1>2 DEF Settle
    <2> HIDE DEF now
    <2> QED
      BY <2>1, <2>2, ConcludeSaves DEF Concluded, Left
  <1>3. CASE SettleInterrupted
    <2>1. PICK at \in Interrupts \intersect DOMAIN Writes(check.answer) :
             Conclude("failed", Writes(check.answer)[at])
      BY <1>3 DEF SettleInterrupted
    <2> DEFINE now == Writes(check.answer)[at]
    <2>2. Leaves(now, at)
      BY <1>0, WritesLeave
    <2>3. Conclude("failed", now) /\ UNCHANGED unreviewed
      BY <1>3, <2>1 DEF SettleInterrupted
    <2> HIDE DEF now
    <2> QED
      BY <2>2, <2>3, ConcludeSaves DEF Concluded, Left
  <1>4. \/ UNCHANGED <<db, unreviewed>> \/ Operator \/ CheckDisabled \/ Settle
        \/ SettleInterrupted
    BY DEF Next, vars, Boot, Checks, Poll, Reply, Reports, StartReporter, Heartbeat,
           reportError, Arrive, shutdown, Exit, Crash, End, EndCloseChanges
  <1> QED
    BY <1>1, <1>2, <1>3, <1>4 DEF Operator

\* The pauses and the review survive every step.
LEMMA DbStep == DbInv /\ [Next]_vars => DbInv'
  <1> SUFFICES ASSUME DbInv, [Next]_vars PROVE DbInv'
    OBVIOUS
  <1> USE DEF RecoveryHeld
  <1>0. Sound(db) /\ RecoveryHeld
    BY DEF DbInv
  <1>1. CASE UNCHANGED <<db, unreviewed>>
    BY <1>0, <1>1 DEF DbInv, Sound
  <1>2. CASE \E at \in Interrupts \union {"done"} : Concluded(at)
    <2>0. PICK at \in Interrupts \union {"done"} : Concluded(at)
      BY <1>2
    <2>1. PICK now : Left(now, at)
      BY <2>0 DEF Concluded
    <2>2. Sound(now) /\ now.switch = db.switch
      BY <2>1 DEF Left, Leaves
    <2>3. Sound(db') /\ db'.switch = db.switch
      BY <2>1, <2>2, SaveIsSound DEF Left
    <2>4. UNCHANGED unreviewed
      BY <2>0 DEF Concluded
    <2> QED
      BY <1>0, <2>3, <2>4 DEF DbInv, Sound
  <1>3. ASSUME NEW state \in {"none", "pause", "panic"}, setKillswitch(state)
        PROVE  DbInv'
    <2>1. db' = [db EXCEPT !.switch = state] /\ unreviewed' = "no"
      BY <1>3 DEF setKillswitch
    <2>2. db \in DbType
      BY <1>0 DEF Sound
    <2>3. /\ db' \in DbType /\ db'.stored = db.stored /\ db'.routes = db.routes
          /\ db'.paused = db.paused
      BY <2>1, <2>2 DEF DbType
    <2> QED
      BY <1>0, <2>1, <2>3 DEF DbInv, Sound
  <1>4. ASSUME NEW r \in Route, NEW paused \in BOOLEAN, setRoutePaused(r, paused)
        PROVE  DbInv'
    <2> DEFINE P == IF paused THEN db.paused \union {r} ELSE db.paused \ {r}
    <2>1. db' = [db EXCEPT !.paused = P] /\ r \in db.routes /\ UNCHANGED unreviewed
      BY <1>4 DEF setRoutePaused
    <2>2. db \in DbType /\ db.paused \subseteq db.routes
      BY <1>0 DEF Sound
    <2>3. P \in SUBSET Route /\ P \subseteq db.routes
      BY <2>1, <2>2 DEF DbType
    <2> HIDE DEF P
    <2>4. /\ db' \in DbType /\ db'.stored = db.stored /\ db'.routes = db.routes
          /\ db'.paused = P /\ db'.switch = db.switch
      BY <2>1, <2>2, <2>3 DEF DbType
    <2> QED
      BY <1>0, <2>1, <2>3, <2>4 DEF DbInv, Sound
  <1>5. ASSUME NEW d \in Doc, postConfig(d) PROVE DbInv'
    <2> DEFINE now == saveConfig(db, d)
    <2>1. Sound(now) /\ now.switch = db.switch
      BY <1>0, SaveIsSound
    <2>2. \/ db' = now /\ UNCHANGED unreviewed
          \/ /\ db' = holdForReview(now)
             /\ unreviewed' = IF boot = "invalid" THEN "answered" ELSE unreviewed
      BY <1>5 DEF postConfig
    <2>3. /\ Sound(holdForReview(now)) /\ (now.switch # "none" => holdForReview(now).switch # "none")
          /\ boot = "invalid" => holdForReview(now).switch # "none"
      BY <2>1, HoldIsSound
    <2> HIDE DEF now
    <2>4. CASE db' = now /\ UNCHANGED unreviewed
      BY <1>0, <2>1, <2>4 DEF DbInv, Sound
    <2>5. CASE /\ db' = holdForReview(now)
               /\ unreviewed' = IF boot = "invalid" THEN "answered" ELSE unreviewed
      BY <1>0, <2>1, <2>3, <2>5 DEF DbInv, Sound
    <2> QED
      BY <2>2, <2>4, <2>5
  <1>6. ASSUME NEW d \in Doc, RepairCutShort(d) PROVE DbInv'
    <2> DEFINE now == saveConfig(db, d)
    <2>1. Sound(now) /\ Sound(holdForReview(now))
      BY <1>0, SaveIsSound, HoldIsSound
    <2>2. db' \in {now, holdForReview(now)} /\ unreviewed' = "applied"
      BY <1>6 DEF RepairCutShort
    <2> HIDE DEF now
    <2> QED
      BY <2>1, <2>2 DEF DbInv, Sound
  <1> QED
    BY <1>1, <1>2, <1>3, <1>4, <1>5, <1>6, DatabaseSteps

\* A database begins sound, with nothing recorded and nothing to review.
LEMMA DbInit == Init => DbInv /\ Paired(db)
  <1> SUFFICES ASSUME Init PROVE DbInv /\ Paired(db)
    OBVIOUS
  <1>1. PICK stored \in Local \union {None, Old} :
           db = [stored |-> stored,
                 routes |-> IF stored = None THEN {} ELSE RoutesOf[stored],
                 paused |-> {}, switch |-> "none", etag |-> None, hash |-> None]
    BY DEF Init
  <1>2. stored \in Doc \union {Old, None} /\ (stored # None => RoutesOf[stored] \subseteq Route)
    BY RoutesAreRoutes DEF Doc
  <1>3. db \in DbType
    BY <1>1, <1>2 DEF DbType
  <1>4. Sound(db) /\ Paired(db)
    BY <1>1, <1>3 DEF Sound, Paired
  <1> QED
    BY <1>4 DEF Init, DbInv, RecoveryHeld

\* The database stays sound and a repair held.
LEMMA DbInvariant == Spec => []DbInv
  BY DbInit, DbStep, PTL DEF Spec

\* Whoever replaces the configuration, in whichever mode, and wherever a
\* check is cut short: the routes are those of the stored document, and no
\* route that is gone stays paused.
THEOREM PausesFollowRoutes == Spec => []NoGhostPause
  <1>1. DbInv => NoGhostPause
    BY DEF DbInv, Sound, NoGhostPause
  <1> QED
    BY <1>1, DbInvariant, PTL

\* A repair that was answered is held until an operator sets the killswitch, through
\* restarts, whatever End Close answers, and repairs cut short before it.
THEOREM RepairIsHeld == Spec => []RecoveryHeld
  <1>1. DbInv => RecoveryHeld
    BY DEF DbInv
  <1> QED
    BY <1>1, DbInvariant, PTL

--------------------------------------------------------------------------------
(* The ETag.                                                                *)

\* No step but a check cut short between its two writes parts the ETag from
\* the hash.
LEMMA PairedStep ==
    ASSUME "tagged" \notin Interrupts
    PROVE  DbInv /\ Paired(db) /\ [Next]_vars => Paired(db)'
  <1> SUFFICES ASSUME DbInv, Paired(db), [Next]_vars PROVE Paired(db')
    BY DEF Paired
  <1> USE DEF Paired
  <1>0. Sound(db) /\ db \in DbType
    BY DEF DbInv, Sound
  <1>1. CASE UNCHANGED <<db, unreviewed>>
    BY <1>1
  <1>2. CASE \E at \in Interrupts \union {"done"} : Concluded(at)
    <2>0. PICK at \in Interrupts \union {"done"} : Concluded(at)
      BY <1>2
    <2>1. PICK now : Left(now, at)
      BY <2>0 DEF Concluded
    <2>2. Sound(now) /\ Paired(now)
      BY <2>1 DEF Left, Leaves
    <2> QED
      BY <2>1, <2>2, SaveIsSound DEF Left
  <1>3. ASSUME NEW state \in {"none", "pause", "panic"}, setKillswitch(state)
        PROVE  Paired(db')
    BY <1>0, <1>3 DEF setKillswitch, DbType
  <1>4. ASSUME NEW r \in Route, NEW paused \in BOOLEAN, setRoutePaused(r, paused)
        PROVE  Paired(db')
    <2>1. PICK P : db' = [db EXCEPT !.paused = P]
      BY <1>4 DEF setRoutePaused
    <2> QED
      BY <1>0, <2>1 DEF DbType
  <1>5. ASSUME NEW d \in Doc, postConfig(d) \/ RepairCutShort(d) PROVE Paired(db')
    <2> DEFINE now == saveConfig(db, d)
    <2>1. Sound(now) /\ now.etag = db.etag /\ now.hash = db.hash
      BY <1>0, SaveIsSound
    <2>2. db' = now \/ db' = holdForReview(now)
      BY <1>5 DEF postConfig, RepairCutShort
    <2> HIDE DEF now
    <2>3. db'.etag = now.etag /\ db'.hash = now.hash
      BY <2>1, <2>2, HoldIsSound
    <2> QED
      BY <2>1, <2>3
  <1> QED
    BY <1>1, <1>2, <1>3, <1>4, <1>5, DatabaseSteps

\* A stored ETag that would be sent is the stored document's, provided no
\* check dies between writing the ETag and writing the hash.
THEOREM SentTagIsStoreds ==
    ASSUME "tagged" \notin Interrupts
    PROVE  Spec => []TagDescribesStored
  <1>1. DbInv /\ Paired(db) /\ [Next]_vars => (DbInv /\ Paired(db))'
    BY DbStep, PairedStep
  <1>2. Paired(db) => TagDescribesStored
    BY DEF Paired, TagDescribesStored
  <1> QED
    BY <1>1, <1>2, DbInit, PTL DEF Spec

--------------------------------------------------------------------------------
(* Who owns the configuration.                                              *)

\* A process that has gone has asked nothing.
LEMMA AskedStep == AnswersAreAsked /\ [Next]_vars => AnswersAreAsked'
  <1> SUFFICES ASSUME AnswersAreAsked, [Next]_vars PROVE AnswersAreAsked'
    OBVIOUS
  <1> USE DEF AnswersAreAsked
  <1>1. CASE UNCHANGED <<check, env, proc>>
    BY <1>1
  <1>2. CASE check' = None
    BY <1>2
  <1>3. CASE Boot
    BY <1>3 DEF Boot, ask
  <1>4. CASE Poll
    BY <1>4 DEF Poll, ask, Serving
  <1>5. CASE Reply
    BY <1>5 DEF Reply
  <1>6. UNCHANGED <<check, env, proc>> \/ check' = None \/ Boot \/ Poll \/ Reply
    BY DEF Next, vars, process, Checks, CheckDisabled, Settle, SettleInterrupted, Conclude,
           Reports, StartReporter, Heartbeat, reportError, Arrive, Operator, setKillswitch,
           setRoutePaused, postConfig, RepairCutShort, shutdown, Exit, Crash, End, Gone,
           EndCloseChanges
  <1> QED
    BY <1>1, <1>2, <1>3, <1>4, <1>5, <1>6

\* A check cut short leaves an ownership on record where the history says so: the
\* document that is stored is still the one that is recorded.
LEMMA RecordedWrites ==
    ASSUME Sound(db), owner = "recorded", OwnershipRests,
           NEW answer, NEW at \in DOMAIN Writes(answer),
           OwnedSoFar(answer, at) = "recorded"
    PROVE  parses(Writes(answer)[at].stored) /\ Writes(answer)[at].hash = Writes(answer)[at].stored
  <1> DEFINE now == Writes(answer)[at]
  <1>0. db \in DbType /\ db.stored \in Doc /\ db.hash = db.stored
    BY DEF Sound, OwnershipRests, parses
  <1>1. CASE answer.kind = "document" /\ usable(answer.doc)
    <2> DEFINE doc == answer.doc
               saved == saveConfig(db, doc)
               tagged == WithTag(saved, doc)
               untagged == WithTag(saved, None)
    <2>1. doc \in Doc /\ Writes(answer) = Served(doc, answer.tag) /\ Result(answer) = "managed"
      BY <1>1 DEF Writes, Result, usable, parses
    <2>2. CASE at = "done"
      <3>1. answer.tag
        BY <1>1, <2>1, <2>2 DEF OwnedSoFar, Owned
      <3>2. "done" \in DOMAIN Served(doc, answer.tag)
        BY <2>1, <2>2
      <3>3. Served(doc, answer.tag).done.stored = doc /\ Served(doc, answer.tag).done.hash = doc
        BY <2>1, <3>1, <3>2, ServedLeaves
      <3> QED
        BY <2>1, <2>2, <3>3 DEF parses
    <2>3. CASE at # "done"
      <3>1. doc = db.stored
        BY <1>1, <2>3 DEF OwnedSoFar
      <3>2. /\ Sound(saved) /\ saved.stored = doc /\ saved.hash = db.hash
        BY <2>1, SaveIsSound
      <3>3. /\ tagged.stored = doc /\ tagged.hash = db.hash
            /\ untagged.stored = doc /\ untagged.hash = db.hash
        BY <2>1, <3>2, TagIsSound
      <3>4. now \in {saved, tagged, untagged}
        BY <2>1, <2>3 DEF Served, WithTag
      <3> HIDE DEF saved, tagged, untagged
      <3> QED
        BY <1>0, <2>1, <3>1, <3>2, <3>3, <3>4 DEF parses
    <2> QED
      BY <2>2, <2>3
  <1>2. CASE ~(answer.kind = "document" /\ usable(answer.doc)) /\ answer.kind = "not_found"
    <2>1. at # "done"
      BY <1>2 DEF OwnedSoFar, Owned, Result
    <2>2. now = [db EXCEPT !.etag = None]
      BY <1>2, <2>1 DEF Writes
    <2> QED
      BY <1>0, <2>2 DEF DbType, parses
  <1>3. CASE ~(answer.kind = "document" /\ usable(answer.doc)) /\ answer.kind # "not_found"
    <2>1. now = db
      BY <1>3 DEF Writes
    <2> QED
      BY <1>0, <2>1 DEF parses
  <1> QED
    BY <1>1, <1>2, <1>3

\* A configuration on record stays on record until End Close lets go, asking is
\* switched off, or a check is cut short between another document and its hash.
LEMMA OwnershipStep ==
    DbInv /\ OwnerInv /\ [Next]_vars => OwnershipRests'
  <1> SUFFICES ASSUME DbInv, OwnerInv, [Next]_vars, owner' = "recorded"
               PROVE  OwnershipRests'
    BY DEF OwnershipRests
  <1> USE DEF OwnershipRests, Asking, Serving
  <1>0. /\ Sound(db) /\ OwnershipRests /\ AnswersAreAsked
        /\ db \in DbType /\ None \notin Doc
    BY AppAssumption DEF DbInv, OwnerInv, Sound
  <1>1. CASE UNCHANGED <<db, owner, proc, env, mgr>>
    BY <1>0, <1>1 DEF parses
  <1>2. CASE Boot
    <2>1. db' = db
      BY <1>2 DEF Boot
    <2>2. CASE "required" \in env'
      <3>1. /\ mgr' = [state |-> "unknown",
                       managed |-> "remote" \in env' /\ wasManagedByEndClose]
            /\ "remote" \in env' /\ owner = "recorded"
        BY <1>2, <2>2 DEF Boot
      <3>2. wasManagedByEndClose
        BY <1>0, <3>1 DEF wasManagedByEndClose, active, parses
      <3>3. mgr'.managed
        BY <3>1, <3>2
      <3> QED
        BY <1>0, <2>1, <3>1, <3>3 DEF parses
    <2>3. CASE "required" \notin env'
      <3>1. proc' = "setup" /\ owner = "recorded"
        BY <1>2, <2>3 DEF Boot
      <3> QED
        BY <1>0, <2>1, <3>1 DEF parses
    <2> QED
      BY <2>2, <2>3
  <1>3. CASE CheckDisabled
    <2>1. "remote" \notin env /\ owner = "recorded" /\ env' = env
      BY <1>3 DEF CheckDisabled
    <2>2. proc \notin {"asking", "bootstrap", "running"}
      BY <1>0, <2>1
    <2>3. db' = db /\ proc' = proc
      BY <1>3, <2>2 DEF CheckDisabled, Conclude
    <2> QED
      BY <1>0, <2>1, <2>2, <2>3 DEF parses
  <1>4. CASE Settle
    <2> DEFINE answer == check.answer
               now == Writes(answer).done
    <2>1. /\ Conclude(Result(answer), now) /\ owner' = Owned(Result(answer), answer)
          /\ env' = env /\ "remote" \in env
      BY <1>0, <1>4 DEF Settle, AnswersAreAsked
    <2>2. mgr'.managed = IF Result(answer) = "failed" THEN mgr.managed
                         ELSE Result(answer) = "managed"
      BY <2>1 DEF Conclude, record
    <2>3. CASE answer.kind = "document" /\ usable(answer.doc)
      <3>1. Result(answer) = "managed" /\ answer.doc \in Doc
        BY <2>3 DEF Result, usable, parses
      <3>2. answer.tag
        BY <2>1, <2>3, <3>1 DEF Owned
      <3>3. now = Served(answer.doc, answer.tag).done
        BY <2>3 DEF Writes
      <3>4. now.stored = answer.doc /\ now.hash = answer.doc
        BY <1>0, <3>1, <3>2, <3>3, ServedLeaves DEF Served
      <3>5. db' = now
        BY <2>1, <3>1, ConcludeSaves
      <3> QED
        BY <2>1, <2>2, <3>1, <3>4, <3>5 DEF parses
    <2>4. CASE ~(answer.kind = "document" /\ usable(answer.doc))
      <3>1. answer.kind # "not_found"
        BY <2>1 DEF Result, Owned
      <3>2. now = db
        BY <2>4, <3>1 DEF Writes
      <3>3. owner = "recorded"
        BY <2>1, <2>4, <3>1 DEF Result, Owned
      <3>4. Result(answer) \in {"managed", "failed"}
        BY <2>4, <3>1 DEF Result
      <3>5. db' = db
        BY <1>0, <2>1, <3>2, <3>3, ConcludeSaves DEF parses
      <3>6. proc' \in {"asking", "bootstrap", "running"} =>
                proc \in {"asking", "bootstrap", "running"}
        BY <2>1 DEF Conclude
      <3> QED
        BY <1>0, <2>1, <2>2, <3>3, <3>4, <3>5, <3>6 DEF parses
    <2> QED
      BY <2>3, <2>4
  <1>5. CASE SettleInterrupted
    <2> DEFINE answer == check.answer
    <2>1. PICK at \in Interrupts \intersect DOMAIN Writes(answer) :
             Conclude("failed", Writes(answer)[at]) /\ owner' = OwnedSoFar(answer, at)
      BY <1>5 DEF SettleInterrupted
    <2> DEFINE now == Writes(answer)[at]
    <2>2. owner = "recorded" /\ env' = env
      BY <1>5, <2>1 DEF SettleInterrupted, OwnedSoFar
    <2>3. mgr.managed /\ "remote" \in env
      BY <1>0, <1>5, <2>2 DEF SettleInterrupted, AnswersAreAsked
    <2>4. mgr'.managed
      BY <2>1, <2>3 DEF Conclude, record
    <2>5. parses(now.stored) /\ now.hash = now.stored
      BY <1>0, <2>1, <2>2, RecordedWrites
    <2>6. db' = now
      BY <1>0, <2>1, <2>5, ConcludeSaves DEF parses
    <2> QED
      BY <2>2, <2>3, <2>4, <2>5, <2>6
  <1>6. CASE Operator
    <2>1. Serving /\ UNCHANGED <<owner, proc, env, mgr>>
      BY <1>6 DEF Operator, setKillswitch, setRoutePaused, postConfig, RepairCutShort, Operate,
                   process
    <2>2. mgr.managed
      BY <1>0, <2>1
    <2>3. db'.stored = db.stored /\ db'.hash = db.hash
      BY <1>0, <1>6, <2>2 DEF Operator, setKillswitch, setRoutePaused, postConfig, RepairCutShort,
                               DbType
    <2> QED
      BY <1>0, <2>1, <2>3 DEF parses
  <1>7. CASE UNCHANGED <<db, owner>> /\ proc' = "down"
    BY <1>0, <1>7 DEF parses
  <1>8. \/ UNCHANGED <<db, owner, proc, env, mgr>> \/ Boot \/ CheckDisabled \/ Settle
        \/ SettleInterrupted \/ Operator \/ (UNCHANGED <<db, owner>> /\ proc' = "down")
    BY DEF Next, vars, process, Checks, Poll, Reply, Reports, StartReporter, Heartbeat,
           reportError, Arrive, shutdown, Exit, Crash, End, Gone, EndCloseChanges
  <1> QED
    BY <1>1, <1>2, <1>3, <1>4, <1>5, <1>6, <1>7, <1>8

\* Nobody owns the configuration at first.
LEMMA OwnerInit == Init => OwnerInv
  BY DEF Init, OwnerInv, AnswersAreAsked, OwnershipRests

\* A relay whose configuration End Close gave it, with the ETag on record, serves it
\* as managed after any number of restarts, outages, edits tried and checks cut short
\* anywhere but between another document and its hash.
THEOREM RecordSurvives == Spec => []RecordedOwnershipSurvives
  <1>1. DbInv /\ OwnerInv /\ [Next]_vars => OwnerInv'
    BY AskedStep, OwnershipStep DEF OwnerInv
  <1>2. OwnerInv => RecordedOwnershipSurvives
    BY DEF OwnerInv, OwnershipRests, RecordedOwnershipSurvives, Serving
  <1> QED
    BY <1>1, <1>2, OwnerInit, DbInvariant, PTL DEF Spec
================================================================================
