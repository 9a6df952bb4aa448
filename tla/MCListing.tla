------------------------------ MODULE MCListing ------------------------------
EXTENDS Listing

MCCharacters == {"/", "a", "b"}

MCRank == [c \in MCCharacters |-> CASE c = "/" -> 1 [] c = "a" -> 2 [] c = "b" -> 3]

AtRoot == <<"a">>

\* Markers, siblings of the root, groups and plain objects.
MCKeys == {<<"a">>, <<"a", "/">>, <<"a", "b">>, <<"a", "/", "a">>,
           <<"a", "/", "a", "/", "b">>, <<"a", "/", "a", "/">>, <<"a", "/", "b", "/", "a">>}

Ask(grouped, delimiter, prefix, max, token) ==
    [grouped |-> grouped, delimiter |-> delimiter, prefix |-> prefix, max |-> max,
     token |-> token]

HonestRequests ==
    {Ask(d # <<>>, d, p, m, NoToken) : d \in {<<>>, <<"/">>, <<"a">>},
                                      p \in {<<>>, <<"a">>, <<"a", "/">>}, m \in {0, 1}}

\* Requests that are refused, or whose token the server does not know.
OddRequests ==
    {Ask(g, d, p, m, t) : g \in BOOLEAN, d \in {<<>>, <<"/">>}, p \in {<<>>, <<"/">>},
                         m \in {2, 9}, t \in {NoToken, Token("malformed", <<>>),
                                              Token("forged", <<>>)}}

ShortSeqs(S, n) == UNION {[1 .. k -> S] : k \in 0 .. n}

FaultyKeys == {Missing, <<"a">>, <<"a", "/">>, <<"a", "b">>, <<"a", "/", "a">>,
               <<"a", "/", "b", "/">>}

FaultyPages ==
    {Page(o, p, f, t) : o \in ShortSeqs(FaultyKeys, 2), p \in ShortSeqs(FaultyKeys, 1),
                       f \in {"missing", "yes", "no"},
                       t \in {NoToken, Token("malformed", <<>>),
                              Token("issued", <<"a", "/", "a">>)}}

FaultyRequests ==
    {Ask(g, <<"/">>, p, m, NoToken) : g \in BOOLEAN, p \in {<<>>, <<"a">>}, m \in {0, 1}}
    \cup OddRequests

MCRequests == HonestRequests \cup FaultyRequests
=============================================================================
