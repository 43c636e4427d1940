----------------------------- MODULE MCHandlers -----------------------------
(* Handlers for TLC: two buckets, one name the start of the other, one     *)
(* slot of each kind, a batch of two files next to two single requests.    *)
EXTENDS Handlers, TLC

CONSTANTS r1, r2, r3

MCSymbols == {"/", "..", "a", "b", "c", "l", "n", "p", "t", "x", "u1", "u2", "u3", "u4", "u5"}
a == <<"a">>
ab == <<"a", "b">>
new == <<"n">>

Ask(op, bucket, files, optimize, want, aws) ==
  [op |-> op, bucket |-> bucket, files |-> files, optimize |-> optimize, want |-> want, aws |-> aws]
F(key, kind, long) == [key |-> key, kind |-> kind, long |-> long, size |-> <<3, 2>>]

MCRequests == {r1, r2, r3}
MCUuid == r1 :> <<"u1", "u2", "u3">> @@ r2 :> <<"u4">> @@ r3 :> <<"u5">>

picture == F(<<"p">>, "image", FALSE)
text == F(<<"t">>, "other", FALSE)

\* With a cap of 4, <<0, 9>> of a picture of 3 by 2 is answered 6 by 4, and
\* <<9, 1>> is cut to 4 by 1.
Read(want, f) == Ask("read", a, <<f>>, FALSE, want, FALSE)

batch == Ask("batch_upload", ab, <<picture, text>>, TRUE, <<0, 0>>, FALSE)
broken == Ask("batch_upload", ab, <<picture, F(<<"x">>, "broken", FALSE)>>, TRUE, <<0, 0>>, FALSE)
many == Ask("batch_upload", a, <<text, text, text>>, FALSE, <<0, 0>>, FALSE)
remove == Ask("batch_delete", a, <<picture, text>>, FALSE, <<0, 0>>, TRUE)
delete == Ask("delete", a, <<picture>>, FALSE, <<0, 0>>, FALSE)
uploaded == F(<<"u1">>, "image", FALSE)
undo == Ask("batch_delete", a, <<uploaded, text>>, FALSE, <<0, 0>>, TRUE)
drop == Ask("delete", a, <<uploaded>>, FALSE, <<0, 0>>, FALSE)
optimized == Ask("upload", a, <<picture>>, TRUE, <<0, 0>>, FALSE)
scaled == Ask("upload", new, <<picture>>, FALSE, <<2, 0>>, FALSE)
fetched == Ask("url", new, <<picture>>, TRUE, <<0, 0>>, FALSE)
misnamed == Ask("upload", <<"x">>, <<text>>, FALSE, <<0, 0>>, FALSE)
longer == Ask("url", a, <<F(<<"l">>, "image", TRUE)>>, FALSE, <<0, 0>>, FALSE)

MCScenarios ==
  {r1 :> ask[1] @@ r2 :> ask[2] @@ r3 :> ask[3] : ask \in {
     <<batch, optimized, Read(<<2, 0>>, picture)>>,
     <<broken, fetched, delete>>,
     <<many, scaled, fetched>>,
     <<optimized, undo, Read(<<2, 0>>, uploaded)>>,
     <<remove, Read(<<2, 0>>, picture), Read(<<0, 9>>, picture)>>,
     <<remove, longer, Read(<<9, 1>>, F(<<"c">>, "image", FALSE))>>,
     <<optimized, drop, misnamed>>,
     <<delete, Read(<<-1, 0>>, picture), Read(<<1, 1>>, F(<<"a", "..">>, "image", FALSE))>>}}

Env(dest, only, key) ==
  [enabled |-> TRUE, credentials |-> {key}, dest |-> dest, only |-> only, s3buckets |-> {a, <<"arch">>}]
MCEnvironments == {Env(<<"arch">>, <<>>, "key"), Env(<<>>, <<a, <<>>>>, "key"), Env(<<>>, <<>>, "placeholder")}

MCValidNames == {new}
MCLocal == {<<a, <<"p">>>>, <<a, <<"t">>>>, <<ab, <<"p">>>>}
MCCold == {<<a, <<"p">>>>, <<a, <<"c">>>>}
=============================================================================
