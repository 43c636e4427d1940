------------------------------ MODULE MCServer ------------------------------
(* Server on a small instance: two clients whose addresses differ only in  *)
(* a dropped character, two buckets, general tokens with and without ':'.  *)
EXTENDS Server, TLC

CONSTANTS r1, r2

MCSymbols == {"b1", "b2", "t", "g", "s", "token", "1", ":"}
b1 == <<"b1">>
b2 == <<"b2">>
Plain == <<"t">>
Colon == <<"b1", ":", "g">>
Weak == <<"token">>
MCBootTokens == {<<>>, Plain, Weak}
MCEnvTokens == {Colon}
MCSound == {Plain, Colon}

\* The scoped token of b1 expires, the one of b2 does not.
Entries == (b1 :> [secret |-> <<"s">>, expires |-> 1]) @@ (b2 :> [secret |-> <<"s">>, expires |-> 0])
MCTokenFiles == {[invalid |-> FALSE, entries |-> Entries], [invalid |-> TRUE, entries |-> <<>>]}

Shape(route, ip, header, raw, bucket) ==
  [route |-> route, ip |-> ip, header |-> header, raw |-> raw, bucket |-> bucket]

v4 == <<"1">>
v6 == <<":", "1">>

\* The first request uploads or reads, the second is anything.
MCShapes ==
  (r1 :> { Shape("upload", v4, "bearer", Colon, b2), Shape("read", v4, "none", <<>>, b1) }) @@
  (r2 :> { Shape("write", v4, "bearer", b1 \o <<":", "s">>, NoBucket),
           Shape("write", v4, "bearer", b2 \o <<":", "s">>, b1),
           Shape("operator", v4, "bearer", b2 \o <<":", "s">>, NoBucket),
           Shape("resize", v4, "bearer", b1 \o <<":", "s">>, NoBucket),
           Shape("ws", v4, "none", Plain, NoBucket),
           Shape("health", v4, "none", <<>>, NoBucket),
           Shape("index", v6, "none", <<>>, NoBucket) })

MCBootAnswers == {[l \in Limiters |-> TRUE], [l \in Limiters |-> l = "upload"]}

\* Two requests of one key are over a limit; so is one upload, counted twice,
\* unless boot left the global limiter off or Redis forgot a count.
MCMaxHits == [l \in Limiters |-> 1]
=============================================================================
