------------------------------- MODULE MCFeed -------------------------------
(* Feed with a tweet and another user's retweet of it. *)
EXTENDS Feed

CONSTANTS alice, bob, nameA, nameB

MCUserIds == {alice, bob}
MCNames   == {nameA, nameB}

T(id, name, tweet) == [user |-> [id |-> id, name |-> name], id |-> tweet, rest |-> TRUE, rtId |-> NoField]

First   == Plain("tweet", T(alice, nameA, 1))
Retweet == [kind |-> "tweet", body |-> T(bob, nameB, 2), rt |-> First.body]

MCCatalogue == {First, Retweet}

\* The first tweet's id under another author, and a notice that nobody sent.
Forged     == Plain("tweet", T(bob, nameB, 1))
MCInvented == {Forged, Notice(2)}

MCBefore == {{}, {First}}

Ordered(s) == {r \in [1 .. Cardinality(s) -> s] :
                 \A i, j \in DOMAIN r : i < j => r[i].body.id > r[j].body.id}

\* Such a timeline cut short, with what it was completed with.
CutShort(r) == {SubSeq(r, 1, k) \o g : k \in 0 .. Len(r), g \in {<<>>, <<Forged>>}}

\* What a chunk can parse to, and every timeline, cut or not.
MCResponses ==
  {<<e>> : e \in MCCatalogue \cup {Notice(id) : id \in 1 .. 2} \cup {EventEntity, NoEntity}}
    \cup UNION {UNION {CutShort(r) : r \in Ordered(s)} : s \in SUBSET MCCatalogue}

=============================================================================
