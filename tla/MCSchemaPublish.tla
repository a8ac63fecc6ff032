-------------------------- MODULE MCSchemaPublish --------------------------
\* Small instances of SchemaPublish: the namespaces doc and group, the tuple
\* shared of a document and a userset of group, and the tuple plain.
EXTENDS SchemaPublish, TLC

CONSTANTS doc, group, salted, shared, plain

\* The locks of doc and salted collide.
Hashes == [ns \in {doc, group, salted} |-> IF ns = group THEN 2 ELSE 1]
ObjectsOf == [f \in {shared, plain} |-> doc]
SubjectsOf == [f \in {shared, plain} |-> IF f = shared THEN group ELSE Missing]

Open == [takes |-> {shared, plain}, has |-> {}]
Closed == [takes |-> {}, has |-> {}]
Groups == [takes |-> {}, has |-> {shared}]
NoGroups == [takes |-> {}, has |-> {}]

\* Two sources that declare the same namespaces in opposite orders, of which one
\* takes the tuples; one source of a single namespace; and one of the fuzzer.
Wide == [order |-> <<doc, group>>, config |-> (doc :> Open @@ group :> Groups)]
Narrow == [order |-> <<group, doc>>, config |-> (doc :> Closed @@ group :> NoGroups)]
GroupOnly == [order |-> <<group>>, config |-> (group :> NoGroups)]
GroupBack == [order |-> <<group>>, config |-> (group :> Groups)]
DocOnly == [order |-> <<doc>>, config |-> (doc :> Closed)]
Fuzz == [order |-> <<salted>>, config |-> (salted :> Open)]

JointSources == {Wide, Narrow, GroupOnly, Fuzz}
SeparateSources == {Wide, DocOnly, GroupOnly, GroupBack}
FuzzOnly == {Fuzz}

\* Writers and checks do not meet: each is explored beside the publishers alone.
OneKindOfReader == \/ \A w \in Writers : wpc[w] = "idle" /\ stored[w] = Missing
                   \/ \A k \in Checks : kpc[k] = "idle" /\ told[k] = Missing
=============================================================================
