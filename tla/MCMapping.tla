------------------------------- MODULE MCMapping -------------------------------
(***************************************************************************)
(* An instance of Mapping for TLC: payloads and map blocks of every shape  *)
(* that the code tells apart.                                              *)
(***************************************************************************)
EXTENDS Mapping, TLC

Node(t, marks, reads) == [t |-> t, marks |-> marks, reads |-> reads]
Obj == Node("obj", {}, Neither)
List == Node("arr", {}, Neither)
Null == Node("null", {}, Neither)
Text(marks) == Node("str", marks, Neither)
Date == Node("str", {}, [as |-> "date"])
Money(whole, frac, places) ==
    {Node("str", {"space"}, Amount(neg, whole, frac, places)) : neg \in BOOLEAN}

Amounts == Money(12, 0, 0) \union Money(12, 5, 1) \union Money(12, 5, 2) \union Money(12, 123, 3)
               \union {Node("num", {}, Amount(FALSE, 3762, 87, 2)), Null, Text({})}

\* What may stand at "c": a string, an object, lists of them, nothing.
c == <<"c">>
Contents ==
    {c :> Date} \union {c :> Text(m) : m \in {{"denied", "space"}, {"upper"}}} \union
    {c :> Obj @@ <<"c", "x">> :> Text({}) @@ <<"c", "ssn">> :> Text({"upper"}),
     c :> List @@ <<"c", "0">> :> Text({}) @@ <<"c", "1">> :> Text({"denied"}),
     c :> List @@ <<"c", "0">> :> Obj @@ <<"c", "0", "x">> :> Text({"denied"}) @@ <<"c", "1">> :> Null,
     c :> List @@ <<"c", "0">> :> List @@ <<"c", "0", "0">> :> Text({"upper"}),
     c :> List}

Body(amount, content) ==
    <<>> :> Obj @@ <<"id">> :> Text({}) @@ <<"amt">> :> amount @@ content
Bodies == {Body(a, content) : a \in Money(7, 0, 0), content \in Contents} \union
          {Body(a, c :> Date) : a \in Amounts} \union
          {<<>> :> Obj @@ <<"id">> :> Null}

\* Lists have at most two elements here.
Spellings == "01" :> "1"

Ref(path, transforms, enrich) == [source |-> path, transforms |-> transforms, enrich |-> enrich]

\* "name" is a known enrichment, "lost" one the host no longer registers.
Paths == {<<"c">>, <<"c", "ssn">>, <<"c", "x">>, <<"c", "*">>, <<"c", "*", "x">>, <<"c", "01">>}
Refs == {Ref(p, t, e) : p \in Paths, t \in {{}, {"trim"}, {"lowercase", "hash"}}, e \in {None, "name"}}
        \union {Ref(<<"c">>, {}, "lost")}

Metadatum(key, ref) == [block |-> "metadata", key |-> key, ref |-> ref]
Description(ref) == [block |-> "description", key |-> "description", ref |-> ref]

Block(date, fields) ==
    [external_id |-> Ref(<<"id">>, {}, None), amount |-> Ref(<<"amt">>, {}, None),
     date |-> date, fields |-> fields]

Blocks == {Block(None, <<Metadatum(key, ref)>>) : key \in {"k", "ssn"}, ref \in Refs} \union
          {Block(d, <<Metadatum("k", Ref(p, {}, e)), Description(Ref(<<"c">>, {}, f))>>) :
              d \in {None, <<"c">>}, p \in {<<"c">>, <<"c", "*">>}, e \in {None, "name"}, f \in {None, "name", "lost"}}

Answers == {[kind |-> k, marks |-> {}] : k \in {"throws", "undefined", "refused"}} \union
           {[kind |-> k, marks |-> {"denied"}] : k \in {"string", "array"}}
=============================================================================
