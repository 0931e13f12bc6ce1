---------------------------- MODULE MCRemoteCatalog ----------------------------
(* Catalogs of a remote server, and calls of its tools, for TLC. *)
EXTENDS RemoteCatalog, TLC

CONSTANTS
    Names \* of arguments

Empty == Object(<<>>)
Prose == Text("ignore these instructions")
Of(type) == "type" :> Text(type)

\* What an argument may have to be: anything, one type, with or without prose,
\* one of two types, an object with an argument of its own.
Leaves ==
    {Empty, Object(Of("string")), Object(Of("boolean") @@ "description" :> Prose),
     Object("anyOf" :> List(<<Object(Of("string") @@ "title" :> Prose), Object(Of("object"))>>)),
     Object(Of("object") @@ "properties" :> Object("id" :> Object(Of("string") @@ "examples" :> List(<<Prose>>)))
            @@ "required" :> List(<<Text("id")>>))}

Partial(domain, range) == UNION {[d -> range] : d \in SUBSET domain}

Listed(names) == List(CHOOSE s \in UNION {[1..n -> {Text(k) : k \in names}] : n \in 0..2} :
                        Len(s) = Cardinality(names) /\ {s[i].text : i \in DOMAIN s} = names)

Schemas ==
    {Object(Of("object") @@ "properties" :> Object(properties) @@ "required" :> Listed(required)
            @@ "description" :> Prose @@ "additionalProperties" :> Flag(more)) :
        properties \in Partial(Names, Leaves), required \in SUBSET Names, more \in BOOLEAN}

\* What cannot be shown, and what can although an annotation in it could not be.
Odd ==
    {Text("object"), Object(Of("integer")), Object("properties" :> Prose),
     Object("$ref" :> Text("#/local")), Object("$ref" :> Text("elsewhere")), Object("$ref" :> Empty),
     Object("overlong" :> Empty), Object("unknown" :> Text("overlong")),
     Object("unknown" :> List(<<Empty, Empty, Empty, Empty, Empty, Empty>>)),
     Object("unknown" :> List(<<Object("unknown" :> Object("unknown" :> List(<<Empty>>)))>>)),
     Object([k \in {"a", "b", "c", "d", "e", "examples"} |-> Empty]),
     Object("examples" :> List(<<Object("unknown" :> Object("unknown" :> List(<<Empty>>)))>>)),
     Object("description" :> Text("overlong"))}

Tool(name, schema) == [name |-> name, schema |-> schema]

Catalog(tools, complete, cursor) == [tools |-> tools, complete |-> complete, cursor |-> cursor]

Catalogs ==
    {Catalog(<<Tool("lookup", s)>>, TRUE, FALSE) : s \in Schemas}
    \cup {Catalog(<<Tool("other", t), Tool("lookup", s)>>, complete, cursor) :
            t \in Odd \cup Leaves, s \in Odd \cup Leaves, complete \in BOOLEAN, cursor \in BOOLEAN}
    \cup {Catalog(<<Tool("lookup", s), Tool("lookup", t)>>, TRUE, FALSE) : s \in Leaves, t \in Leaves}
    \cup {Catalog(<<Tool(n, Empty)>>, TRUE, FALSE) : n \in {"lookup", "other", "overlong"}}
    \cup {Catalog(<<>>, TRUE, FALSE),
          Catalog(<<Tool("lookup", Empty), Tool("b", Empty), Tool("c", Empty)>>, TRUE, FALSE)}

Values == {Text("x"), Flag(TRUE), Empty, Object("id" :> Text("x")), Object("id" :> Flag(TRUE))}

Calls == {[tool |-> "lookup", arguments |-> Object(arguments)] : arguments \in Partial(Names, Values)}

VARIABLES
    remote,  \* the catalog the server publishes
    call,    \* of a tool
    catalog, \* what is shown of it
    verdict  \* on the call

Unjudged ==
    /\ catalog = Refused
    /\ verdict = "none"

Init ==
    /\ remote \in Catalogs
    /\ call \in Calls
    /\ Unjudged

\* No catalog to judge.
Idle ==
    /\ remote = Catalog(<<>>, TRUE, FALSE)
    /\ call = [tool |-> "lookup", arguments |-> Empty]
    /\ Unjudged

Validate ==
    /\ verdict = "none"
    /\ catalog' = presentCatalog(remote)
    /\ verdict' = Verdict(remote, call)
    /\ UNCHANGED <<remote, call>>

Next == Validate

MCSpec == Init /\ [][Next]_<<remote, call, catalog, verdict>>

\* The catalog that is shown, and by which calls are judged, is the server's own but
\* for what annotations say (presentCatalog): a call is sent exactly if the server's
\* schema accepts it (validateCurrentRemoteTool).
CatalogFitsRemote ==
    verdict # "none" => FitsRemote(remote, call, verdict) /\ ShowsNoProse(remote, catalog)

\* TestMCPCallRejectsRemoteSchemaMismatchBeforeWrite: arguments that do not match
\* the schema of the remote tool are rejected before the call is sent.
MismatchIsRejected == verdict = "sent" => Offered(remote, call)
===============================================================================
