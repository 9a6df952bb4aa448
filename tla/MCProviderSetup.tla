--------------------------- MODULE MCProviderSetup ---------------------------
(***************************************************************************)
(* Providers of few buckets, roots, endpoints, regions and sources of      *)
(* credentials; among the texts are relative and absolute ones, and among  *)
(* the endpoints and roots some that hold the separator of an identity.    *)
(***************************************************************************)
EXTENDS ProviderSetup

MCCharacters == {"a", "b", "h", "u", "v", "s", "3", "g", "/", ":", "@", "|"}
ShortTexts   == {<<>>} \cup UNION {[1 .. n -> {"a", "b", "/"}] : n \in 1 .. 3}
MCTexts == ShortTexts \cup
    {<<"a", "/", "b", "/">>, <<"a", "/", "/", "b">>, <<"/", "a", "/", "b">>,
     <<"a", ":", "/", "/", "b">>, <<"/", "a", ":", "/", "/", "b">>,
     S3Uri, S3Uri \o <<"a">>, S3Uri \o <<"a", "/", "b">>, S3Uri \o <<"a", "/", "/", "b">>,
     S3Uri \o <<"/", "a">>, <<"/">> \o S3Uri \o <<"a">>}

MCPartition == [r \in {"us-east-1", "us-west-2", "cn-north-1"} |->
                   IF r = "cn-north-1" THEN "aws-cn" ELSE "aws"]

Roots  == {<<>>, <<"/">>, <<"/", "a", "/">>, <<"a", "/", "b">>, <<"a", "|", "a">>}
Plain  == [mode |-> "default_chain", profile |-> None, values |-> {}]
Host   == <<"h", ":", "/", "/", "a", "/">>
Users  == {<<"h", ":", "/", "/", u, "@", "a">> : u \in {"u", "v"}}
Barred == {<<"h", ":", "/", "/", "a", "/", "|", "b">>, <<"h", ":", "/", "/", "a", "/", "|", "u", "@">>}

Made(by, uri, container, root, region, endpoint, credentials) ==
    [by |-> by, uri |-> uri, container |-> container, root |-> root, region |-> region,
     endpoint |-> endpoint, credentials |-> credentials]

Uris == {S3Uri \o <<"b">>, S3Uri \o <<"b", "/", "a">>, S3Uri \o <<"b", "/", "/", "a", "|", "b", "/">>,
         S3Uri, S3Uri \o <<"/", "a">>, <<"g">> \o S3Uri \o <<"b">>}

\* Where the provider points.
Targets ==
    {Made("uri", uri, <<>>, root, "us-east-1", e, Plain) :
        uri \in Uris, root \in {<<>>, <<"a">>, <<"/">>}, e \in {NoEndpoint, Host}}
    \cup {Made("config", <<>>, bucket, root, "us-east-1", e, Plain) :
        bucket \in {<<"a">>, <<"b">>}, root \in Roots, e \in {NoEndpoint, Host} \cup Users \cup Barred}
    \cup {Made("config", <<>>, bucket, <<>>, region, NoEndpoint, Plain) :
        bucket \in {<<>>, <<"b">>}, region \in DOMAIN MCPartition}

\* Where its credentials come from.
Names   == {"AWS_ACCESS_KEY_ID", "access_key", "AWS_SECRET_ACCESS_KEY", "secret_key"}
Sources == {Made("config", <<>>, <<"b">>, <<>>, "us-east-1", NoEndpoint,
                 [mode |-> mode, profile |-> None, values |-> values]) :
                mode \in {"inline", "env"}, values \in SUBSET Names}
    \cup {Made("config", <<>>, <<"b">>, <<>>, "us-east-1", NoEndpoint,
               [mode |-> mode, profile |-> "team", values |-> {}]) :
                mode \in {"profile", "credentials_file"}}

MCSetups == Targets \cup Sources
=============================================================================
