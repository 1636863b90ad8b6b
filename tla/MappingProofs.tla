----------------------------- MODULE MappingProofs -----------------------------
(***************************************************************************)
(* Theorems about Mapping, for every payload, map block, enrichment and    *)
(* answer, and any number of attempts.                                     *)
(***************************************************************************)
EXTENDS Mapping, WellFoundedInduction, TLAPS

-----------------------------------------------------------------------------
(* The inductive invariant.                                                 *)

\* What mapEvent took from the payload is in the record as it was.
MappedBase ==
    /\ record = [external_id |-> record.external_id, amount |-> record.amount,
                 fields |-> record.fields, pending |-> record.pending]
    /\ record.external_id = resolve(map.external_id, payload)
    /\ record.amount = toCents(resolve(map.amount, payload)) /\ record.amount # None
    /\ record.pending = Pending(map, payload)

\* A field holds a string that answers this attempt's own call for it.
AnswerTo(f, i) ==
    /\ f.name = Name(map.fields[i])
    /\ \A s \in f.value.leaves :
          s.try = attempt /\ s.from = {f.name} /\ "denied" \notin s.marks

FieldsKnown ==
    \A f \in record.fields :
        f \in Entered(map, payload) \/ \E i \in Pending(map, payload) : AnswerTo(f, i)

MappingInv ==
    /\ payload \in Payloads /\ map \in Routes /\ attempt \in Nat \ {0}
    /\ record # None => MappedBase
    /\ pc \in {"enrich", "sent"} => MappedBase /\ FieldsKnown
    /\ pc = "enrich" => todo # {} /\ todo \subseteq Pending(map, payload)

-----------------------------------------------------------------------------
(* Lemmas about the operators.                                              *)

IsLeaf(l) == l = [t |-> l.t, marks |-> l.marks, from |-> l.from, try |-> l.try, loose |-> l.loose]
IsValue(v) == v = Value(v.t, v.reads, v.leaves) /\ \A l \in v.leaves : IsLeaf(l)

\* A leaf of the payload, from places at or under a path.
FromUnder(doc, path, l) == l.try = 0 /\ \A q \in l.from : Follows(doc, path, q)

\* The first of the pending entries is one of them.
LEMMA FirstIsIn ==
  ASSUME NEW S, S \subseteq Nat, S # {}
  PROVE  First(S) \in S
  <1>1. \E i \in S : \A j \in S : ~(<<j, i>> \in OpToRel(<, Nat))
    BY WFMin, NatLessThanWellFounded
  <1>2. PICK i \in S : \A j \in S : ~(j < i)
    BY <1>1 DEF OpToRel
  <1>3. \A j \in S : i <= j
    BY <1>2
  <1>4. QED
    BY <1>3 DEF First

\* What getSegments yields is a value with leaves at or under the path.
LEMMA SegmentsFollow ==
  ASSUME NEW doc, NEW path
  PROVE  /\ IsValue(getSegments(doc, path))
         /\ \A l \in getSegments(doc, path).leaves : FromUnder(doc, path, l)
  <1>1. \A l \in Leaves(doc, path) : IsLeaf(l) /\ FromUnder(doc, path, l)
    BY DEF Leaves, Leaf, IsLeaf, FromUnder
  <1>2. IsValue(Undefined)
    BY DEF IsValue, Undefined, Value
  <1>3. \A t, reads : IsValue(Value(t, reads, Leaves(doc, path)))
    BY <1>1 DEF IsValue, Value
  <1>4. getSegments(doc, path).leaves \subseteq Leaves(doc, path)
    BY DEF getSegments, Value, Undefined
  <1>5. QED
    BY <1>1, <1>2, <1>3, <1>4 DEF getSegments

\* Transforms rewrite leaves and never say that one comes from elsewhere.
LEMMA TransformsKeepSources ==
  ASSUME NEW doc, NEW names, NEW path, NEW v, IsValue(v), \A l \in v.leaves : FromUnder(doc, path, l)
  PROVE  /\ IsValue(applyTransforms(names, v))
         /\ \A l \in applyTransforms(names, v).leaves : FromUnder(doc, path, l)
  <1>1. CASE "hash" \in names
    BY <1>1 DEF applyTransforms, IsValue, IsLeaf, Value, FromUnder
  <1>2. CASE "hash" \notin names
    <2>1. ASSUME NEW l \in v.leaves
          PROVE  IsLeaf(Rewritten(names, l)) /\ FromUnder(doc, path, Rewritten(names, l))
      <3>1. IsLeaf(l) /\ FromUnder(doc, path, l)
        BY <2>1 DEF IsValue
      <3>2. [l EXCEPT !.marks = @ \ Undone(names)]
              = [t |-> l.t, marks |-> l.marks \ Undone(names), from |-> l.from, try |-> l.try,
                 loose |-> l.loose]
        BY <3>1 DEF IsLeaf
      <3>3. QED
        BY <3>1, <3>2 DEF Rewritten, IsLeaf, FromUnder
    <2>2. QED
      BY <1>2, <2>1 DEF applyTransforms, IsValue, Value
  <1>3. QED
    BY <1>1, <1>2

LEMMA ResolvedFollows ==
  ASSUME NEW ref, NEW doc
  PROVE  /\ IsValue(resolve(ref, doc))
         /\ \A l \in resolve(ref, doc).leaves : FromUnder(doc, ref.source, l)
  <1>1. IsValue(Undefined) /\ Undefined.leaves = {}
    BY DEF IsValue, Undefined, Value
  <1>2. QED
    BY <1>1, SegmentsFollow, TransformsKeepSources DEF resolve

\* The denylist changes marks alone, and leaves no string it recognises.
LEMMA DenyRedacts ==
  ASSUME NEW v, IsValue(v)
  PROVE  /\ hardDenyDeep(v).leaves = {Redacted(l) : l \in v.leaves}
         /\ \A l \in v.leaves :
              /\ Redacted(l).from = l.from /\ Redacted(l).try = l.try
              /\ Redacted(l).t = l.t
              /\ Redacted(l).t = "str" => Redacted(l).marks = l.marks \ {"denied"}
              /\ Redacted(l).t # "str" => Redacted(l).marks = l.marks
  <1>1. hardDenyDeep(v).leaves = {Redacted(l) : l \in v.leaves}
    BY DEF hardDenyDeep, IsValue, Value
  <1>2. QED
    BY <1>1 DEF Redacted, IsValue, IsLeaf

\* An amount that can be read has digits, wherever the payload has it.
LEMMA AmountsAreNumbers ==
  ASSUME NEW doc \in Payloads, NEW ref, resolve(ref, doc).reads.as = "amount"
  PROVE  /\ resolve(ref, doc).reads.whole \in Nat
         /\ resolve(ref, doc).reads.frac \in Nat
         /\ resolve(ref, doc).reads.places \in Nat
  <1> DEFINE found == getSegments(doc, ref.source)
  <1>1. Neither.as # "amount" /\ Undefined.reads = Neither
    BY DEF Neither, Undefined, Value
  <1>2. resolve(ref, doc).reads \in {Neither, found.reads}
    BY SegmentsFollow DEF resolve, applyTransforms, Undefined, Value, IsValue
  <1>3. found.reads = Neither \/ \E q \in DOMAIN doc : found.reads = doc[q].reads
    <2> DEFINE at == CHOOSE q \in Targets(doc, ref.source) : TRUE
    <2>1. Targets(doc, ref.source) # {} => at \in DOMAIN doc
      BY DEF Targets
    <2>2. \/ found.reads = Neither
          \/ Targets(doc, ref.source) # {} /\ found.reads = doc[at].reads
      BY DEF getSegments, Undefined, Value
    <2>3. QED
      BY <2>1, <2>2
  <1>4. QED
    BY <1>1, <1>2, <1>3, DocumentsAreTrees

\* Cents are the amount: for each number of decimals that toCents reads.
LEMMA CentsAreExact ==
  ASSUME NEW v, v.reads.whole \in Nat, v.reads.frac \in Nat, v.reads.places \in Nat,
         toCents(v) # None
  PROVE  LET n == v.reads.whole * Tens[v.reads.places + 1] + v.reads.frac
         IN  toCents(v) * Tens[v.reads.places + 1] = 100 * (IF v.reads.negative THEN -n ELSE n)
  <1>1. v.reads.places \in {0, 1, 2}
    BY DEF toCents
  <1>2. Tens[1] = 1 /\ Tens[2] = 10 /\ Tens[3] = 100
    BY DEF Tens
  <1>3. CASE v.reads.places = 0
    BY <1>2, <1>3 DEF toCents
  <1>4. CASE v.reads.places = 1
    BY <1>2, <1>4 DEF toCents
  <1>5. CASE v.reads.places = 2
    BY <1>2, <1>5 DEF toCents
  <1>6. QED
    BY <1>1, <1>3, <1>4, <1>5

-----------------------------------------------------------------------------
(* The invariant holds.                                                     *)

\* What mapEvent returns, if it returns.
LEMMA MappedIsSound ==
  ASSUME mapEvent(map, payload) # None, record' = mapEvent(map, payload),
         UNCHANGED <<payload, map, attempt>>
  PROVE  MappedBase' /\ FieldsKnown' /\ record'.pending = Pending(map, payload)
  <1>1. record' = [external_id |-> resolve(map.external_id, payload),
                   amount |-> toCents(resolve(map.amount, payload)),
                   fields |-> Entered(map, payload), pending |-> Pending(map, payload)]
    BY DEF mapEvent
  <1>2. toCents(resolve(map.amount, payload)) # None
    BY DEF mapEvent
  <1>3. QED
    BY <1>1, <1>2 DEF MappedBase, FieldsKnown

\* The entries of a map block are numbered.
LEMMA PendingIsNumbered ==
  ASSUME map \in Routes
  PROVE  Pending(map, payload) \subseteq DOMAIN map.fields /\ DOMAIN map.fields \subseteq Nat
  BY FieldsAreNamed DEF Routes, Pending, Present, Clear

\* A step that leaves the record and the attempt, and does not go on, keeps it.
LEMMA HoldStep ==
  ASSUME MappingInv, UNCHANGED <<payload, map, attempt, record, todo>>,
         pc' \in {pc, "parked", "retry"}
  PROVE  MappingInv'
  <1>1. MappedBase => MappedBase'
    BY DEF MappedBase
  <1>2. FieldsKnown => FieldsKnown'
    BY DEF FieldsKnown, AnswerTo
  <1>3. QED
    BY <1>1, <1>2 DEF MappingInv

\* The loop goes on with a sound record and with entries that are pending.
LEMMA ProceedStep ==
  ASSUME MappingInv, UNCHANGED <<payload, map, attempt>>, NEW left, NEW rec, NEW running,
         Proceed(left, rec, running), MappedBase', FieldsKnown',
         left \subseteq Pending(map, payload)
  PROVE  MappingInv'
  <1>1. todo' = left /\ pc' \in {"sent", "parked", "enrich"} /\ (pc' = "enrich" => left # {})
    BY DEF Proceed
  <1>2. QED
    BY <1>1 DEF MappingInv

\* An answer that is accepted answers the call it was asked in, redacted.
LEMMA FillIsSound ==
  ASSUME MappingInv, UNCHANGED <<payload, map, attempt>>, NEW c, NEW reply, Awaited(c),
         record' = Fill(c, validateEnrichedValue(c, reply))
  PROVE  MappedBase' /\ FieldsKnown'
  <1> DEFINE i == First(todo)
             value == validateEnrichedValue(c, reply)
             new == [name |-> c.field, value |-> value]
  <1>1. MappedBase /\ FieldsKnown /\ todo # {} /\ todo \subseteq Pending(map, payload)
    BY DEF Awaited, MappingInv
  <1>2. i \in Pending(map, payload)
    BY <1>1, FirstIsIn, PendingIsNumbered DEF MappingInv
  <1>3. c.field = Name(map.fields[i]) /\ c.try = attempt
    BY DEF Awaited, Call
  <1>4. value.leaves = {Redacted(Answered(c, reply))}
    BY DEF validateEnrichedValue, hardDenyDeep, Value
  <1>5. Redacted(Answered(c, reply)) =
          [t |-> "str", marks |-> reply.marks \ {"denied"}, from |-> {c.field}, try |-> c.try,
           loose |-> TRUE]
    BY DEF Redacted, Answered
  <1>6. AnswerTo(new, i)
    BY <1>3, <1>4, <1>5 DEF AnswerTo
  <1>7. record' = [external_id |-> record.external_id, amount |-> record.amount,
                   fields |-> record.fields \union {new}, pending |-> record.pending]
    BY <1>1 DEF MappedBase, Fill
  <1>8. MappedBase'
    BY <1>1, <1>7 DEF MappedBase
  <1>9. \A f, j : AnswerTo(f, j) => AnswerTo(f, j)'
    BY DEF AnswerTo
  <1>10. FieldsKnown'
    BY <1>1, <1>2, <1>6, <1>7, <1>9 DEF FieldsKnown
  <1>11. QED
    BY <1>8, <1>10

LEMMA MappingInit == Init => MappingInv
  BY DEF Init, MappingInv

LEMMA MappingStep == MappingInv /\ [Next]_vars => MappingInv'
  <1> SUFFICES ASSUME MappingInv, [Next]_vars PROVE MappingInv'
    OBVIOUS
  <1>1. CASE Map
    <2>1. CASE mapEvent(map, payload) = None
      BY <1>1, <2>1, HoldStep DEF Map
    <2>2. CASE mapEvent(map, payload) # None
      <3>1. /\ Proceed(mapEvent(map, payload).pending, mapEvent(map, payload), calls)
            /\ record' = mapEvent(map, payload) /\ UNCHANGED <<payload, map, attempt>>
        BY <1>1, <2>2 DEF Map, Proceed
      <3>2. MappedBase' /\ FieldsKnown' /\ mapEvent(map, payload).pending = Pending(map, payload)
        BY <2>2, <3>1, MappedIsSound
      <3>3. QED
        BY <3>1, <3>2, ProceedStep
    <2>3. QED
      BY <2>1, <2>2
  <1>2. CASE Timeout
    BY <1>2, HoldStep DEF Timeout
  <1>3. CASE Retry
    <2>1. record' = None /\ pc' = "map" /\ map' \in Routes /\ attempt' = attempt + 1 /\ payload' = payload
      BY <1>3 DEF Retry
    <2>2. QED
      BY <2>1 DEF MappingInv
  <1>4. ASSUME NEW c \in calls, NEW reply \in Replies, Answer(c, reply) PROVE MappingInv'
    <2> DEFINE left == todo \ {First(todo)}
    <2>1. UNCHANGED <<payload, map, attempt>>
      BY <1>4 DEF Answer
    <2>2. ASSUME NEW where \in {pc, "retry", "parked"}, Ends(c, where) PROVE MappingInv'
      BY <2>1, <2>2, HoldStep DEF Ends
    <2>3. ASSUME Awaited(c)
          PROVE  left \subseteq Pending(map, payload) /\ MappedBase /\ FieldsKnown
      BY <2>3 DEF Awaited, MappingInv
    <2>4. CASE Awaited(c) /\ Proceed(left, record, calls \ {c})
      <3>1. record' = record
        BY <2>4 DEF Proceed
      <3>2. MappedBase' /\ FieldsKnown'
        BY <2>1, <2>3, <2>4, <3>1 DEF MappedBase, FieldsKnown, AnswerTo
      <3>3. QED
        BY <2>1, <2>3, <2>4, <3>2, ProceedStep
    <2>5. CASE Awaited(c) /\ Proceed(left, Fill(c, validateEnrichedValue(c, reply)), calls \ {c})
      <3>1. record' = Fill(c, validateEnrichedValue(c, reply))
        BY <2>5 DEF Proceed
      <3>2. MappedBase' /\ FieldsKnown'
        BY <2>1, <2>5, <3>1, FillIsSound
      <3>3. QED
        BY <2>1, <2>3, <2>5, <3>2, ProceedStep
    <2>6. QED
      BY <1>4, <2>2, <2>4, <2>5 DEF Answer
  <1>5. CASE UNCHANGED vars
    BY <1>5, HoldStep DEF vars
  <1>6. QED
    BY <1>1, <1>2, <1>3, <1>4, <1>5 DEF Next

LEMMA MappingInvariant == Spec => []MappingInv
  BY MappingInit, MappingStep, PTL DEF Spec

-----------------------------------------------------------------------------
(* The theorems.                                                            *)

\* What a field of the record holds: what the map names in clear, or an answer.
LEMMA FieldIsKnown ==
  ASSUME MappingInv, pc = "sent", NEW f \in record.fields
  PROVE  \/ \E i \in Clear(map, payload) :
               /\ f.name = Name(map.fields[i])
               /\ f.value = hardDenyDeep(resolve(map.fields[i].ref, payload))
         \/ \E i \in Pending(map, payload) : AnswerTo(f, i)
  BY DEF MappingInv, FieldsKnown, Entered, FieldValue

\* A mapped field holds leaves of the payload, redacted, from under its source.
LEMMA ClearFieldIsMapped ==
  ASSUME NEW i \in Clear(map, payload), NEW v,
         v = hardDenyDeep(resolve(map.fields[i].ref, payload)), NEW s \in v.leaves
  PROVE  /\ s.try = 0 /\ (s.t = "str" => "denied" \notin s.marks)
         /\ \A q \in s.from : Follows(payload, map.fields[i].ref.source, q)
  <1>1. PICK l \in resolve(map.fields[i].ref, payload).leaves : s = Redacted(l)
    BY ResolvedFollows, DenyRedacts
  <1>2. FromUnder(payload, map.fields[i].ref.source, l)
    BY ResolvedFollows
  <1>3. QED
    BY <1>1, <1>2, ResolvedFollows, DenyRedacts DEF FromUnder

\* Of two entries of a map block with one name there is one, in clear or not.
LEMMA NamesAreApart ==
  ASSUME map \in Routes, NEW i \in DOMAIN map.fields, NEW j \in DOMAIN map.fields,
         Name(map.fields[i]) = Name(map.fields[j])
  PROVE  i = j
  BY FieldsAreNamed DEF Routes

\* The map is the allowlist (mapEvent): for every payload and map block, in
\* whatever way wildcards, lists, objects and transforms combine.
THEOREM MapIsAllowlist == Spec => []OnlyMappedLeaves
  <1>1. MappingInv => OnlyMappedLeaves
    <2> SUFFICES ASSUME MappingInv, pc = "sent", NEW s \in Forwarded, s.try = 0, NEW leaf \in s.from
                 PROVE  \E p \in UsedPaths(map, payload) : Follows(payload, p, leaf)
      BY DEF OnlyMappedLeaves
    <2>1. CASE s \in record.external_id.leaves
      <3>1. Follows(payload, map.external_id.source, leaf)
        BY <2>1, ResolvedFollows DEF MappingInv, MappedBase, FromUnder
      <3>2. QED
        BY <3>1 DEF UsedPaths
    <2>2. ASSUME NEW f \in record.fields, s \in f.value.leaves
          PROVE  \E p \in UsedPaths(map, payload) : Follows(payload, p, leaf)
      <3>1. CASE \E i \in Pending(map, payload) : AnswerTo(f, i)
        BY <2>2, <3>1 DEF AnswerTo, MappingInv
      <3>2. ASSUME NEW i \in Clear(map, payload),
                   f.value = hardDenyDeep(resolve(map.fields[i].ref, payload))
            PROVE  \E p \in UsedPaths(map, payload) : Follows(payload, p, leaf)
        <4>1. Follows(payload, map.fields[i].ref.source, leaf)
          BY <2>2, <3>2, ClearFieldIsMapped
        <4>2. QED
          BY <4>1 DEF UsedPaths, Clear
      <3>3. QED
        BY <3>1, <3>2, FieldIsKnown
    <2>3. s \in record.external_id.leaves \/ \E f \in record.fields : s \in f.value.leaves
      BY DEF Forwarded
    <2>4. QED
      BY <2>1, <2>2, <2>3
  <1>2. QED
    BY <1>1, MappingInvariant, PTL

\* The denylist (hardDenyDeep) is on every way into the record, mapEvent's and
\* that of the host's answers.
THEOREM DenylistIsComplete == Spec => []DeniedNeverForwarded
  <1>1. MappingInv => DeniedNeverForwarded
    <2> SUFFICES ASSUME MappingInv, pc = "sent", NEW f \in record.fields, NEW s \in f.value.leaves,
                        s.t = "str"
                 PROVE  "denied" \notin s.marks
      BY DEF DeniedNeverForwarded
    <2>1. QED
      BY FieldIsKnown, ClearFieldIsMapped DEF AnswerTo
  <1>2. QED
    BY <1>1, MappingInvariant, PTL

\* toCents is exact for every amount it reads, and refuses the others.
THEOREM AmountKeepsCents == Spec => []AmountIsExact
  <1>1. MappingInv => AmountIsExact
    <2> SUFFICES ASSUME MappingInv, record # None PROVE AmountIsExact
      BY DEF AmountIsExact
    <2> DEFINE v == resolve(map.amount, payload)
    <2>1. record.amount = toCents(v) /\ toCents(v) # None
      BY DEF MappingInv, MappedBase
    <2>2. v.reads.whole \in Nat /\ v.reads.frac \in Nat /\ v.reads.places \in Nat
      BY <2>1, AmountsAreNumbers DEF toCents, MappingInv
    <2>3. QED
      BY <2>1, <2>2, CentsAreExact DEF AmountIsExact
  <1>2. QED
    BY <1>1, MappingInvariant, PTL

\* A late answer (withTimeout abandons calls, it does not cancel them) never
\* fills a field, in any number of attempts.
THEOREM AnswersAreOwn == Spec => []AnswersMatchTheirQuestion
  <1>1. MappingInv => AnswersMatchTheirQuestion
    <2> SUFFICES ASSUME MappingInv, pc = "sent", NEW f \in record.fields, NEW s \in f.value.leaves
                 PROVE  IF \E i \in record.pending : Name(map.fields[i]) = f.name
                        THEN s.try = attempt /\ s.from = {f.name} ELSE s.try = 0
      BY DEF AnswersMatchTheirQuestion
    <2>1. record.pending = Pending(map, payload) /\ map \in Routes
      BY DEF MappingInv, MappedBase
    <2>2. CASE \E i \in Pending(map, payload) : AnswerTo(f, i)
      BY <2>1, <2>2 DEF AnswerTo
    <2>3. ASSUME NEW i \in Clear(map, payload), f.name = Name(map.fields[i]),
                 f.value = hardDenyDeep(resolve(map.fields[i].ref, payload))
          PROVE  s.try = 0 /\ ~\E j \in record.pending : Name(map.fields[j]) = f.name
      <3>1. s.try = 0
        BY <2>3, ClearFieldIsMapped
      <3>2. i \in DOMAIN map.fields /\ i \notin record.pending
        BY <2>1 DEF Clear, Present, Pending
      <3>3. QED
        BY <2>1, <2>3, <3>1, <3>2, NamesAreApart, PendingIsNumbered
    <2>4. QED
      BY <2>2, <2>3, FieldIsKnown
  <1>2. QED
    BY <1>1, MappingInvariant, PTL
=============================================================================
