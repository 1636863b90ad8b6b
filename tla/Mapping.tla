-------------------------------- MODULE Mapping --------------------------------
(***************************************************************************)
(* What leaves for End Close: the mapping of a payload to a record         *)
(* (packages/core/src/forward/mapper.ts, mask/paths.ts, mask/defaults.ts)  *)
(* and the host's enrichments, which run one after the other under a       *)
(* deadline and may answer late (forward/enrich.ts, resolveEnrichments in  *)
(* forward/dispatcher.ts).                                                 *)
(*                                                                         *)
(* A document is a function from paths to nodes.  A value that was read    *)
(* from it is what the code tells apart in it: its type, what its text     *)
(* reads as, and its leaves, each with its marks (white space, upper case, *)
(* something the denylist redacts), where it comes from (paths of the      *)
(* payload, or the field it was computed for) and in which attempt (0: it  *)
(* comes from the payload).                                                *)
(***************************************************************************)
EXTENDS Integers, Sequences

CONSTANTS
    None,
    Payloads,       \* decoded webhook bodies
    Maps,           \* map blocks that operators write
    Spelling,       \* segments that spell an index of a list in another way, and
                    \* that index: Number("01") is 1
    Sensitive,      \* names that keyNameIsSensitive recognises
    Known,          \* enrichments that routes may name when they are validated
    Registered,     \* enrichments the host that dispatches has registered
    Replies,        \* what an enrichment may answer
    MaxAttempts     \* bound on deliveries of the event

\* A payload: [paths -> nodes], a path being the keys from the root down to the
\* node, which is [t : type, marks, reads].  What a text reads as: an amount, a
\* sign and the digits before and after the point, of which there are "places";
\* a date; or neither.
Containers == {"obj", "arr"}
Amount(negative, whole, frac, places) ==
    [as |-> "amount", negative |-> negative, whole |-> whole, frac |-> frac, places |-> places]
Neither == [as |-> "neither"]

\* A map block: [external_id, amount : Ref, date : path or None, fields : the
\* entries of metadata in order, then the description if there is one], with
\* Ref == [source : path, transforms : set of names, enrich : name or None].
Name(entry) == <<entry.block, entry.key>>

ASSUME DocumentsAreTrees ==
    \A doc \in Payloads : \A q \in DOMAIN doc :
        /\ \A n \in 0..(Len(q) - 1) : SubSeq(q, 1, n) \in DOMAIN doc /\ doc[SubSeq(q, 1, n)].t \in Containers
        /\ doc[q].reads.as = "amount" =>
              doc[q].reads.whole \in Nat /\ doc[q].reads.frac \in Nat /\ doc[q].reads.places \in Nat

\* The keys of metadata are those of one object.
ASSUME FieldsAreNamed ==
    \A map \in Maps :
        /\ DOMAIN map.fields \subseteq Nat
        /\ \A i, j \in DOMAIN map.fields : Name(map.fields[i]) = Name(map.fields[j]) => i = j

-----------------------------------------------------------------------------
(* Paths and values.                                                        *)

Value(t, reads, leaves) == [t |-> t, reads |-> reads, leaves |-> leaves]
Undefined == Value("undefined", Neither, {})

\* The key that a segment names in a node: node[Number(head)] in a list.
Key(node, segment) ==
    IF node.t = "arr" /\ segment \in DOMAIN Spelling THEN Spelling[segment] ELSE segment

\* A node at or under what a path names: "*" stands for any key.
Follows(doc, path, q) ==
    /\ Len(path) <= Len(q)
    /\ \A i \in 1..Len(path) : path[i] = "*" \/ Key(doc[SubSeq(q, 1, i - 1)], path[i]) = q[i]

\* The node that a path without "*" leads to, if there is one.
Targets(doc, path) == {q \in DOMAIN doc : Len(q) = Len(path) /\ Follows(doc, path, q)}

\* A leaf of the value at the depth of the path; it is loose if only lists are
\* around it there.
Leaf(doc, q, depth) ==
    [t |-> doc[q].t, marks |-> doc[q].marks, from |-> {q}, try |-> 0,
     loose |-> \A n \in depth..(Len(q) - 1) : doc[SubSeq(q, 1, n)].t = "arr"]

Leaves(doc, path) ==
    {Leaf(doc, q, Len(path)) : q \in {r \in DOMAIN doc : doc[r].t \notin Containers /\ Follows(doc, path, r)}}

\* The first "*" fans out over a list or an object, or the path leads nowhere.
FirstFan(path, n) == path[n] = "*" /\ \A m \in 1..(n - 1) : path[m] # "*"
FansOut(doc, path) ==
    \E n \in 1..Len(path) :
        /\ FirstFan(path, n)
        /\ \E q \in Targets(doc, SubSeq(path, 1, n - 1)) : doc[q].t \in Containers

\* Mutation: a path that leads nowhere yields what it was looking into.
getSegmentsOrParent(doc, path) ==
    LET found == {n \in 0..Len(path) : SubSeq(path, 1, n) \in DOMAIN doc}
        at    == SubSeq(path, 1, CHOOSE n \in found : \A m \in found : m <= n)
    IN  IF FansOut(doc, path) THEN Value("arr", Neither, Leaves(doc, path))
        ELSE Value(doc[at].t, doc[at].reads, Leaves(doc, at))

\* The value at a path; a list of all matches if the path fans out.
getSegments(doc, path) ==
    IF FansOut(doc, path) THEN Value("arr", Neither, Leaves(doc, path))
    ELSE IF Targets(doc, path) = {} THEN Undefined
    ELSE LET at == CHOOSE q \in Targets(doc, path) : TRUE
         IN  Value(doc[at].t, doc[at].reads, Leaves(doc, path))

Redacted(leaf) == IF leaf.t = "str" THEN [leaf EXCEPT !.marks = @ \ {"denied"}] ELSE leaf

\* Mutation: strings inside a list or an object are not redacted.
hardDenyShallow(v) ==
    IF v.t = "str" THEN Value(v.t, v.reads, {Redacted(l) : l \in v.leaves}) ELSE v

\* The denylist redacts what it recognises, in every string of a value.
hardDenyDeep(v) == Value(v.t, v.reads, {Redacted(l) : l \in v.leaves})

\* hash consumes anything and yields a text that the others leave alone; trim and
\* lowercase act on strings, elementwise over lists, in whatever order.
Undone(names) == {IF name = "trim" THEN "space" ELSE "upper" : name \in names}
Rewritten(names, leaf) ==
    IF leaf.loose /\ leaf.t = "str" THEN [leaf EXCEPT !.marks = @ \ Undone(names)] ELSE leaf

applyTransforms(names, v) ==
    IF "hash" \in names
    THEN Value("str", Neither,
               {[t |-> "str", marks |-> {"hashed"}, from |-> UNION {l.from : l \in v.leaves},
                 try |-> 0, loose |-> TRUE]})
    ELSE Value(v.t, v.reads, {Rewritten(names, l) : l \in v.leaves})

resolve(ref, doc) ==
    LET found == getSegments(doc, ref.source)
    IN  IF found = Undefined THEN Undefined ELSE applyTransforms(ref.transforms, found)

\* Ten to the power n - 1.
Tens == <<1, 10, 100>>

\* Mutation: one decimal counts as hundredths.
toCentsUnpadded(v) ==
    IF v.reads.as # "amount" \/ v.reads.places > 2 THEN None
    ELSE LET cents == v.reads.whole * 100 + v.reads.frac
         IN  IF v.reads.negative THEN -cents ELSE cents

\* "3,762.87" to cents, the decimals padded to two; None stands for the
\* MappingError.
toCents(v) ==
    IF v.reads.as # "amount" \/ v.reads.places > 2 THEN None
    ELSE LET cents == v.reads.whole * 100 + v.reads.frac * Tens[3 - v.reads.places]
         IN  IF v.reads.negative THEN -cents ELSE cents

\* parseDate returns or throws.
parsesAsDate(v) == v.t = "str" /\ v.reads.as = "date"

-----------------------------------------------------------------------------
(* mapEvent.                                                                *)

\* What it does with field i: it has a value or none, and it is in clear or
\* left to the host.
FieldValue(map, doc, i) == resolve(map.fields[i].ref, doc)
Present(map, doc) == {i \in DOMAIN map.fields : FieldValue(map, doc, i) # Undefined}
Clear(map, doc) == {i \in Present(map, doc) : map.fields[i].ref.enrich = None}
Pending(map, doc) == Present(map, doc) \ Clear(map, doc)

\* The paths whose values were used.
UsedPaths(map, doc) ==
    {map.external_id.source, map.amount.source}
        \union {map.fields[i].ref.source : i \in Present(map, doc)}
        \union (IF map.date = None THEN {} ELSE {map.date})

\* A field enters the record after the denylist; a description only as a string.
Entered(map, doc) ==
    {[name |-> Name(map.fields[i]), value |-> hardDenyDeep(FieldValue(map, doc, i))] :
        i \in {j \in Clear(map, doc) :
                 map.fields[j].block = "description" => FieldValue(map, doc, j).t = "str"}}

\* None stands for a MappingError: no external id, amount or date.
mapEvent(map, doc) ==
    LET id == resolve(map.external_id, doc)
        cents == toCents(resolve(map.amount, doc))
    IN  IF \/ id.t \notin {"str", "num"} \/ cents = None
           \/ map.date # None /\ ~parsesAsDate(getSegments(doc, map.date))
        THEN None
        ELSE [external_id |-> id, amount |-> cents, fields |-> Entered(map, doc),
              pending |-> Pending(map, doc)]

-----------------------------------------------------------------------------
(* Which map blocks can be in force.                                        *)

Hashed(ref) == "hash" \in ref.transforms
SourceName(entry) == entry.ref.source[Len(entry.ref.source)]
KeyNames(entry) == {entry.key, SourceName(entry)}
Metadata(map) == {i \in DOMAIN map.fields : map.fields[i].block = "metadata"}

\* The refinement of recordMapSchema: a hash protects the source, but not the
\* output name of a field the host computes.
acceptsNames(map) ==
    \A i \in Metadata(map) :
        LET entry == map.fields[i]
        IN  \A name \in KeyNames(entry) \intersect Sensitive :
                Hashed(entry.ref) /\ ~(entry.ref.enrich # None /\ name = entry.key)

routeEnrichments(map) == {map.fields[i].ref.enrich : i \in DOMAIN map.fields} \ {None}

\* parseRoutes.
Routes == {map \in Maps : acceptsNames(map) /\ routeEnrichments(map) \subseteq Known}

-----------------------------------------------------------------------------
(* One event on its way, attempt by attempt.                                *)

VARIABLES
    payload, map,
    pc,         \* map, enrich, sent, parked, retry
    attempt,
    record,     \* the record so far
    todo,       \* the pending fields from the one that is waited for on
    calls       \* enrichments that run: the attempt, field and name of each

vars == <<payload, map, pc, attempt, record, todo, calls>>

Init ==
    /\ payload \in Payloads /\ map \in Routes
    /\ pc = "map" /\ attempt = 1 /\ record = None /\ todo = {} /\ calls = {}

First(S) == CHOOSE i \in S : \A j \in S : i <= j

Call(i) == [try |-> attempt, field |-> Name(map.fields[i]), enrich |-> map.fields[i].ref.enrich]

\* What the loop over pending does when these entries are left: it is done, an
\* unknown name parks, or the host's function is called.
Proceed(left, rec, running) ==
    /\ todo' = left /\ record' = rec
    /\ \/ left = {} /\ pc' = "sent" /\ calls' = running
       \/ /\ left # {} /\ map.fields[First(left)].ref.enrich \notin Registered
          /\ pc' = "parked" /\ calls' = running
       \/ /\ left # {} /\ map.fields[First(left)].ref.enrich \in Registered
          /\ pc' = "enrich" /\ calls' = running \union {Call(First(left))}

Map ==
    /\ pc = "map"
    /\ LET mapped == mapEvent(map, payload)
       IN  IF mapped = None THEN pc' = "parked" /\ UNCHANGED <<record, todo, calls>>
           ELSE Proceed(mapped.pending, mapped, calls)
    /\ UNCHANGED <<payload, map, attempt>>

\* Mutation: the answer to any call for a field is taken for the awaited one.
AwaitedByField(c) == pc = "enrich" /\ c.field = Name(map.fields[First(todo)])

Awaited(c) == pc = "enrich" /\ c = Call(First(todo))

\* The string an answer is, marked with where it comes from.
Answered(c, reply) ==
    [t |-> "str", marks |-> reply.marks, from |-> {c.field}, try |-> c.try, loose |-> TRUE]

\* None stands for the EnrichmentError: the host throws it, or the answer is not
\* JSON, names a sensitive key, or is no string where a description is due.
Refuses(c, reply) ==
    reply.kind = "refused" \/ (reply.kind = "array" /\ c.field[1] = "description")

validateEnrichedValue(c, reply) ==
    hardDenyDeep(Value(IF reply.kind = "array" THEN "arr" ELSE "str", Neither, {Answered(c, reply)}))

Fill(c, value) ==
    [record EXCEPT !.fields = @ \union {[name |-> c.field, value |-> value]}]

Ends(c, where) == pc' = where /\ calls' = calls \ {c} /\ UNCHANGED <<record, todo>>

\* The host answers a call: late ones go unheard.
Answer(c, reply) ==
    /\ c \in calls
    /\ LET left == todo \ {First(todo)}
       IN  \/ ~Awaited(c) /\ Ends(c, pc)
           \/ Awaited(c) /\ reply.kind = "throws" /\ Ends(c, "retry")
           \/ Awaited(c) /\ Refuses(c, reply) /\ Ends(c, "parked")
           \/ Awaited(c) /\ reply.kind = "undefined" /\ Proceed(left, record, calls \ {c})
           \/ /\ Awaited(c) /\ reply.kind \in {"string", "array"} /\ ~Refuses(c, reply)
              /\ Proceed(left, Fill(c, validateEnrichedValue(c, reply)), calls \ {c})
    /\ UNCHANGED <<payload, map, attempt>>

\* withTimeout: the call is abandoned, not cancelled.
Timeout ==
    /\ pc = "enrich" /\ pc' = "retry"
    /\ UNCHANGED <<payload, map, attempt, record, todo, calls>>

\* The event is due again, with the configuration of that time.
Retry ==
    /\ pc = "retry" /\ attempt < MaxAttempts
    /\ pc' = "map" /\ attempt' = attempt + 1 /\ record' = None /\ todo' = {}
    /\ map' \in Routes
    /\ UNCHANGED <<payload, calls>>

Next == Map \/ Timeout \/ Retry \/ \E c \in calls, reply \in Replies : Answer(c, reply)

Spec == Init /\ [][Next]_vars

-----------------------------------------------------------------------------
(* Properties.                                                              *)

Forwarded == (UNION {f.value.leaves : f \in record.fields}) \union record.external_id.leaves

\* The map is the allowlist: a value of the payload that leaves lies at or
\* under a path that the map of this attempt names, wildcards included.
OnlyMappedLeaves ==
    pc = "sent" => \A s \in Forwarded :
        s.try = 0 => \A leaf \in s.from : \E p \in UsedPaths(map, payload) : Follows(payload, p, leaf)

\* No string the denylist recognises leaves in a description or in metadata,
\* at any depth, mapped or computed by the host.
DeniedNeverForwarded ==
    pc = "sent" => \A f \in record.fields : \A s \in f.value.leaves :
        s.t = "str" => "denied" \notin s.marks

\* The cents of a record are its amount, exactly, for every number of decimals.
AmountIsExact ==
    record # None =>
        LET a == resolve(map.amount, payload).reads
            n == a.whole * Tens[a.places + 1] + a.frac
        IN  record.amount * Tens[a.places + 1] = 100 * (IF a.negative THEN -n ELSE n)

\* A field the map leaves to the host leaves as the answer to the call that
\* this attempt made for this very field, or not at all; no other field does:
\* no answer to an abandoned call, and no value in clear, finds its way in.
AnswersMatchTheirQuestion ==
    pc = "sent" => \A f \in record.fields : \A s \in f.value.leaves :
        IF \E i \in record.pending : Name(map.fields[i]) = f.name
        THEN s.try = attempt /\ s.from = {f.name}
        ELSE s.try = 0

\* "A non-configurable hard denylist (PANs, SSNs, CVV/account-number-named fields)
\* applies on top of every mapped value" (README.md): what stands in a field of the
\* payload with a sensitive name, at any depth, leaves hashed or not at all.
SensitiveFieldsNeverInClear ==
    pc = "sent" => \A s \in Forwarded :
        s.try = 0 /\ "hashed" \notin s.marks =>
            \A leaf \in s.from : \A n \in DOMAIN leaf : leaf[n] \notin Sensitive
=============================================================================
