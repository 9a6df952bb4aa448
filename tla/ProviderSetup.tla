---------------------------- MODULE ProviderSetup ----------------------------
(***************************************************************************)
(* Building S3 providers from URIs and configurations, and what one caller *)
(* argument then names for each of them.  Two providers are built, so that *)
(* what is bound to one can be held against the other.                     *)
(***************************************************************************)
EXTENDS RootedKeys

CONSTANTS
    Characters,  \* the characters of texts
    Texts,       \* keys, prefixes and objects' keys that callers and buckets hold
    Setups,      \* what a provider may be built from
    Partition,   \* the AWS partition a region belongs to (external)
    Ambient      \* environment variables that are set when a provider is built

None       == "none"
NoEndpoint == <<>>
Bar        == "|"                        \* separates the parts of an identity
S3Uri      == <<"s", "3", ":", "/", "/">>
Aws        == <<"a", "w", "s">>          \* stands for an endpoint in an identity
Stars      == <<"*", "*", "*", "@">>

\* The names a credential value is looked up by, in order.
AccessNames == <<"AWS_ACCESS_KEY_ID", "AWS_ACCESS_KEY", "access_key_id", "access_key">>
SecretNames == <<"AWS_SECRET_ACCESS_KEY", "AWS_SECRET_KEY", "secret_access_key",
                 "secret_key">>

Modes == {"default_chain", "profile", "credentials_file", "inline", "env"}

ASSUME TextAssumption ==
    Slash \in Characters /\ Bar \in Characters /\ Texts \subseteq Seq(Characters)

\* A setup is a URI or nothing, and a configuration.  No endpoint is reached but
\* by a URL.
ASSUME SetupAssumption ==
    \A setup \in Setups :
        /\ setup.by \in {"uri", "config"}
        /\ setup.region \in DOMAIN Partition
        /\ setup.credentials.mode \in Modes
        /\ {setup.root, setup.uri, setup.container, setup.endpoint} \subseteq Seq(Characters)
        /\ setup.endpoint = NoEndpoint \/ HasScheme(setup.endpoint)

VARIABLES
    providers,  \* the providers built so far
    setups,     \* what they were built from (history)
    located     \* what each makes of one key, prefix or copy argument

vars == <<providers, setups, located>>

-----------------------------------------------------------------------------
(* Parsing and choosing. *)

\* split_once('/'): what precedes the first slash, and what follows it.
FirstSlash(text) == Min({i \in DOMAIN text : text[i] = Slash} \cup {Len(text) + 1})
Before(text)     == SubSeq(text, 1, FirstSlash(text) - 1)
After(text)      == From(text, FirstSlash(text) + 1)

IsAbsolute(text) == IsPrefix(S3Uri, text)

\* StorageUri::parse(), for the callers that take S3 only.
ParsedUri(text) ==
    LET rest == From(text, Len(S3Uri) + 1)
    IN  [ok |-> IsAbsolute(text) /\ Before(rest) # <<>>,
         container |-> Before(rest), path |-> After(rest)]

\* S3 gives no bucket a name with a bar or a slash.
ASSUME BucketAssumption ==
    \A setup \in Setups :
        {ParsedUri(setup.uri).container, setup.container} \subseteq Seq(Characters \ {Bar, Slash})

\* What the SDK is given: its own chain, of a profile or not, or the values
\* that were found by these names.
Chain(profile) ==
    [source |-> "chain", profile |-> profile, access |-> None, secret |-> None]
Static(access, secret) ==
    [source |-> "static", profile |-> None, access |-> access, secret |-> secret]

Holds(values, names) == \E i \in DOMAIN names : names[i] \in values

\* find_first().
FindFirst(values, names) ==
    IF Holds(values, names) THEN names[Min({i \in DOMAIN names : names[i] \in values})]
    ELSE None

\* Mutant: a missing value leaves the default chain in place.
CredentialsLoose(asked) ==
    LET access == FindFirst(asked.values, AccessNames)
        secret == FindFirst(asked.values, SecretNames)
    IN  [ok   |-> asked.mode # "credentials_file",
         from |-> IF asked.mode \in {"inline", "env"} /\ None \notin {access, secret}
                  THEN Static(access, secret)
                  ELSE Chain(IF asked.mode = "profile" THEN asked.profile ELSE None)]

\* validate_credential_source() and load_sdk_config(): inline values, or named
\* variables that are set, must hold an access key and a secret.
Credentials(asked) ==
    LET values == IF asked.mode = "env" THEN asked.values \cap Ambient ELSE asked.values
        access == FindFirst(values, AccessNames)
        secret == FindFirst(values, SecretNames)
    IN  CASE asked.mode = "default_chain"     -> [ok |-> TRUE, from |-> Chain(None)]
          [] asked.mode = "profile"           -> [ok |-> TRUE, from |-> Chain(asked.profile)]
          [] asked.mode = "credentials_file"  -> [ok |-> FALSE, from |-> Chain(None)]
          [] asked.mode \in {"inline", "env"} ->
                [ok |-> None \notin {access, secret}, from |-> Static(access, secret)]

\* resolve_root_prefix(): at most one source of a root.
Root(path, configured) ==
    LET of  == NormalizePrefix(path)
        own == NormalizePrefix(configured)
    IN  [ok |-> of = NoRoot \/ own = NoRoot, root |-> IF own = NoRoot THEN of ELSE own]

\* from_uri() and from_config(), which ends in from_parts().
Setup(setup) ==
    LET uri    == ParsedUri(setup.uri)
        bucket == IF setup.by = "uri" THEN uri.container ELSE setup.container
        root   == Root(IF setup.by = "uri" THEN uri.path ELSE <<>>, setup.root)
        creds  == Credentials(setup.credentials)
    IN  [ok |-> (setup.by = "uri" => uri.ok) /\ bucket # <<>> /\ root.ok /\ creds.ok,
         bucket |-> bucket, root |-> root.root, region |-> setup.region,
         endpoint |-> setup.endpoint, credentials |-> creds.from]

\* The authority of a URL, from its first "://".
Authority(url) ==
    {i \in DOMAIN url :
        \E s \in 1 .. i - 3 : /\ SchemeEnds(url, s)
                              /\ \A t \in 1 .. s - 1 : ~SchemeEnds(url, t)
                              /\ \A k \in s + 3 .. i : url[k] \notin {"/", "?", "#"}}

Ats(url) == {i \in Authority(url) : url[i] = "@"}

\* sanitize_endpoint(): what precedes the last @ of the authority is replaced.
Sanitized(url) ==
    IF Ats(url) = {} THEN url
    ELSE SubSeq(url, 1, Min(Authority(url)) - 1) \o Stars \o From(url, Max(Ats(url)) + 1)

Named(p) == IF p.endpoint = NoEndpoint THEN Aws ELSE Sanitized(p.endpoint)

\* Mutant: the identity leaves the root out.
IdentityOfBucket(p) == Named(p) \o <<Bar>> \o p.bucket

\* guarded_target_identity().
Identity(p) == Named(p) \o <<Bar>> \o p.bucket \o <<Bar>> \o p.root

\* resolve_copy_location(): what begins with s3:// is taken as it is.
CopyLocation(p, text) ==
    LET uri == ParsedUri(text)
        key == ResolveKey(p.root, text)
    IN  IF IsAbsolute(text) THEN [ok |-> uri.ok, bucket |-> uri.container, key |-> uri.path]
        ELSE [ok |-> key.ok, bucket |-> p.bucket, key |-> key.key]

\* What a relayed copy reports that it read and wrote.
Reported(location) == S3Uri \o location.bucket \o <<Slash>> \o location.key

Location(p, text) ==
    [key    |-> ResolveKey(p.root, text),
     prefix |-> ResolveListPrefix(p.root, text),
     copy   |-> CopyLocation(p, text)]

-----------------------------------------------------------------------------
Nothing == [text |-> <<>>, at |-> <<>>]

Init == providers = <<>> /\ setups = <<>> /\ located = Nothing

\* Construction fails whole: no provider comes of a refused setup.
Build(setup) ==
    /\ Len(providers) < 2 /\ located = Nothing
    /\ Setup(setup).ok
    /\ providers' = Append(providers, Setup(setup))
    /\ setups' = Append(setups, setup)
    /\ UNCHANGED located

Locate(text) ==
    /\ providers # <<>> /\ located = Nothing
    /\ located' = [text |-> text,
                   at |-> [i \in DOMAIN providers |-> Location(providers[i], text)]]
    /\ UNCHANGED <<providers, setups>>

Next == \/ \E setup \in Setups : Build(setup)
        \/ \E text \in Texts : Locate(text)

Spec == Init /\ [][Next]_vars
-----------------------------------------------------------------------------
(* Properties. *)

\* A key that names anything below the root, in an object call or a copy,
\* lies strictly below it, and keys that name different paths stay apart.  What
\* begins with s3:// a copy takes for a URI, as StorageUri::parse() reads it.
KeyIsBelowRoot ==
    \A i \in DOMAIN located.at :
        LET p    == providers[i]
            copy == located.at[i].copy
        IN  TrimStart(located.text) # <<>> =>
                /\ located.at[i].key = Resolved(Rooted(p.root, TrimStart(located.text)))
                /\ ~IsAbsolute(located.text) =>
                      copy.ok /\ copy.bucket = p.bucket /\ copy.key = located.at[i].key.key

\* The s3:// URIs a relayed copy reports name the objects it read and wrote to
\* every provider that is asked to copy them.
ReportedResolves ==
    \A i, j \in DOMAIN located.at :
        located.at[i].copy.ok =>
            CopyLocation(providers[j], Reported(located.at[i].copy)) = located.at[i].copy

\* Object calls and listing agree on the root (release notes v0.1.0:
\* "Configured root prefixes contain object operations and listing results").
RootContains ==
    \A i \in DOMAIN located.at :
        located.at[i].key.ok => Under(providers[i].root, located.at[i].key.key)

\* Of the bucket's keys a list prefix selects none outside the root, and the
\* path a key is listed by, given back to an object call, names that key.
\* (A listed path that begins with a slash is the exception: see the README.)
ListedResolves ==
    \A i \in DOMAIN located.at, key \in Texts :
        LET root == providers[i].root
            path == StripRoot(root, key)
        IN  (located.at[i].prefix.ok /\ IsPrefix(located.at[i].prefix.key, key)
             /\ path # <<>> /\ path[1] # Slash)
                => ResolveKey(root, path) = Resolved(key)

\* What a caller wrote at a key that begins with a prefix is selected by that
\* prefix whenever listing takes it, although keys lose their leading slashes
\* and prefixes are literal.
WrittenIsListed ==
    \A i \in DOMAIN located.at, key \in Texts :
        (located.at[i].prefix.ok /\ IsPrefix(located.text, key) /\ TrimStart(key) # <<>>)
            => IsPrefix(located.at[i].prefix.key, ResolveKey(providers[i].root, key).key)

\* Object calls, copies and listings name the same objects by the same paths.
KeysAgree == KeyIsBelowRoot /\ ReportedResolves /\ ListedResolves /\ WrittenIsListed

NoBar(text) == \A i \in DOMAIN text : text[i] # Bar

\* A selection that provider i bound is accepted by provider j.
Accepts(i, j) ==
    /\ Identity(providers[i]) = Identity(providers[j])
    /\ NoBar(providers[i].endpoint) /\ NoBar(providers[j].endpoint)

\* Although an identity is one text, whose root may hold the separator, two
\* providers with one identity have the same bucket and root at the same
\* endpoint (but for its user), and name the same objects: a selection or a
\* receipt of one of them means the same to the other.
SameIdentitySameTarget ==
    \A i, j \in DOMAIN providers :
        Accepts(i, j) =>
            /\ providers[i].bucket = providers[j].bucket
            /\ Sanitized(providers[i].endpoint) = Sanitized(providers[j].endpoint)
            /\ located.at # <<>> => located.at[i] = located.at[j]

\* A selection is bound to one configured target (GuardedReadSelection): whoever
\* has that identity reads the same bucket of the same service, which without
\* an endpoint is the AWS partition of the region.
SelectionStaysOnTarget ==
    \A i, j \in DOMAIN providers :
        Identity(providers[i]) = Identity(providers[j]) =>
            /\ providers[i].bucket = providers[j].bucket
            /\ providers[i].endpoint = NoEndpoint =>
                  Partition[providers[i].region] = Partition[providers[j].region]

\* Every source of a root that was supplied is the root: none is dropped in
\* favour of another (crates/storageprims-s3/README.md: at most one source).
RootAsAsked ==
    \A i \in DOMAIN providers :
        \A asked \in {setups[i].root} \cup
                      (IF setups[i].by = "uri" THEN {ParsedUri(setups[i].uri).path} ELSE {}) :
            NormalizePrefix(asked) \in {NoRoot, providers[i].root}

\* An explicit source of credentials is never completed from elsewhere: both
\* halves are among the values that were passed, or the named variables that
\* are set, and no provider falls back to the SDK's chain, or to its default
\* profile, unless that was asked for (DDR-0006).
CredentialsAsAsked ==
    \A i \in DOMAIN providers :
        LET asked == setups[i].credentials
            found == IF asked.mode = "env" THEN asked.values \cap Ambient ELSE asked.values
            given == providers[i].credentials
        IN  /\ given.source = "static" =>
                  /\ asked.mode \in {"inline", "env"}
                  /\ {given.access, given.secret} \subseteq found
            /\ given.source = "chain" =>
                  \/ asked.mode = "default_chain"
                  \/ asked.mode = "profile" /\ given.profile = asked.profile

\* A provider is what was asked for, or there is none.
AsAsked == RootAsAsked /\ CredentialsAsAsked
=============================================================================
