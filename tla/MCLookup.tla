------------------------------ MODULE MCLookup ------------------------------
(* Instances of Lookup for TLC. *)
EXTENDS Lookup

CONSTANTS app, env, a, b

Exact(s) == Value(s, FALSE)
Prefix(s) == Value(s, TRUE)
Equal(k, vs) == Clause(k, "Equal", vs)
NotEqual(k, vs) == Clause(k, "NotEqual", vs)
Exists(k) == Clause(k, "KeyExists", <<>>)
NotExists(k) == Clause(k, "KeyNotExists", <<>>)

Short == {<<>>, <<a>>, <<b>>, <<a, b>>}
NonEmpty == Short \ {<<>>}
Long == {<<>>, <<a>>, <<b>>, <<a, b>>, <<a, b, a>>, <<a, b, b>>, <<a, a>>}

(* Exact values, a key that must not exist, alone and next to another clause,
   and a key that must exist, alone. *)
Plain == {
    <<Equal(app, <<Exact(<<a>>), Exact(<<a, b>>)>>)>>,
    <<Equal(app, <<Exact(<<a>>)>>), Equal(env, <<Exact(<<a>>), Exact(<<b>>)>>)>>,
    <<Equal(env, <<Exact(<<b>>)>>), NotExists(app)>>,
    <<NotExists(env)>>,
    <<Exists(app)>>}

(* NotEqual with one and with two values. *)
Negative == {
    <<NotEqual(app, <<Exact(<<a>>), Exact(<<b>>)>>)>>,
    <<NotEqual(app, <<Exact(<<a>>)>>), Equal(env, <<Exact(<<a>>)>>)>>,
    <<NotEqual(app, <<Exact(<<b>>)>>), NotExists(env)>>}

(* What the tables tell apart. *)
Supported == Plain \cup Negative

(* Two policies with KeyExists on one key. *)
TwoExist == {<<Exists(app), Equal(env, <<Exact(<<a>>)>>)>>, <<Exists(app), Equal(env, <<Exact(<<b>>)>>)>>}

TwoNotExist == {<<NotExists(app)>>, <<NotExists(env)>>}

(* Prefixes of four lengths. *)
FourLengths == {
    <<Equal(app, <<Prefix(<<a, b, a>>)>>)>>, <<Equal(app, <<Prefix(<<a>>)>>)>>,
    <<Equal(app, <<Prefix(<<a, b>>)>>)>>, <<Exists(app), Equal(env, <<Exact(<<b>>)>>)>>}
=============================================================================
