---------------------------- MODULE MCTweetStore ----------------------------
(* Replies for TweetStore: every short entity, and timelines of two that matter together. *)
EXTENDS TweetStore

CONSTANTS alice, bob, nameA, nameB, t1, t2, t3

MCUserIds  == {alice, bob}
MCNames    == {nameA, nameB}
MCTweetIds == {t1, t2, t3}

U(id, name) == [id |-> id, name |-> name]

T(user, id) == [user |-> user, id |-> id, rest |-> TRUE, rtId |-> NoField]

Retweet(body, inner) == [kind |-> "tweet", body |-> body, rt |-> inner]
Plain(body)          == Retweet(body, NoField)
Other(kind, id)      == [kind |-> kind, body |-> T(NoField, id), rt |-> NoField]

\* Alice, Bob, Bob under Alice's screen_name, a user without an id, and no user.
Users == {U(alice, nameA), U(bob, nameB), U(bob, nameA), U(NoField, nameB), NoField}

Bodies == {T(u, id) : u \in Users, id \in {t1, t2}}

Broken == {[T(U(alice, nameA), t1) EXCEPT !.rest = FALSE], T(U(bob, nameA), NoField)}

Inners == {T(U(bob, nameA), t3), T(U(alice, nameA), t1), T(NoField, t3)}

Outers == {T(U(alice, nameA), t1), T(U(bob, nameB), t2), T(NoField, t2),
           [T(U(alice, nameA), t2) EXCEPT !.rtId = t3]}

Singles == {Plain(b) : b \in Bodies \cup Broken}
             \cup {Retweet(b, i) : b \in Outers, i \in Inners}
             \cup {Other("delete", id) : id \in MCTweetIds \cup {NoField}}
             \cup {Other("event", NoField), Other("scalar", NoField)}

\* A tweet, something that throws or deletes or collides, and a tweet.
Middles == {Plain(T(NoField, t2)), Other("delete", t1), Other("scalar", NoField),
            Retweet(T(U(alice, nameA), t2), T(NoField, t3)),
            Plain(T(U(bob, nameA), t2))}

MCResponses == {<<e>> : e \in Singles}
                 \cup {<<Plain(T(U(bob, nameB), t3)), m, Plain(T(U(alice, nameA), t1))>> : m \in Middles}

=============================================================================
