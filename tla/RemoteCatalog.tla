----------------------------- MODULE RemoteCatalog -----------------------------
(***************************************************************************)
(* What the MCP tools make of the catalog of a remote server               *)
(* (mcptools/adapter.go): the catalog that is shown, with schemas from     *)
(* which annotations are taken out, and the verdict on a call of a remote  *)
(* tool, which is judged by the same schemas right before it is sent.      *)
(* When the catalog is read, and what may change meanwhile, is modelled in *)
(* AccountWrite.                                                           *)
(*                                                                         *)
(* JSON is a tree of objects, lists, texts and flags. The schema compiler  *)
(* is external: a few keywords stand for those it knows.                   *)
(*                                                                         *)
(* An operator Bug_X is the definition X with a plausible bug in it.       *)
(***************************************************************************)
EXTENDS Naturals, Sequences, FiniteSets

CONSTANTS
    Annotations, \* keys that are taken out
    Oversized,   \* keys and texts that are too long or not valid text
    LocalRefs,   \* references into the schema itself
    MaxDepth,    \* of a schema; 32 in the code
    MaxChildren, \* of an object or a list; 256 in the code
    MaxTools     \* of a catalog; 64 in the code

Object(entries) == [form |-> "object", entries |-> entries]
List(items)     == [form |-> "list", items |-> items]
Text(text)      == [form |-> "text", text |-> text]
Flag(flag)      == [form |-> "flag", flag |-> flag]

\* In place of a schema or a catalog that is refused.
Refused == [form |-> "refused"]

Keys(value)   == IF value.form = "object" THEN DOMAIN value.entries ELSE {}
Has(value, k) == k \in Keys(value)

-----------------------------------------------------------------------------
(* Sanitizing a schema *)

\* A reference to another document.
Foreign(value) ==
    /\ Has(value, "$ref")
    /\ value.entries["$ref"].form # "text" \/ value.entries["$ref"].text \notin LocalRefs

\* Annotations are dropped unseen; everything else is looked into.
Looked(value) == Keys(value) \ Annotations

RECURSIVE sanitizeSchemaValue(_, _)

Bug_Items(items, depth) == items
Items(items, depth) == [i \in DOMAIN items |-> sanitizeSchemaValue(items[i], depth + 1)]

sanitizeSchemaValue(value, depth) ==
    LET clean == [k \in Looked(value) |-> sanitizeSchemaValue(value.entries[k], depth + 1)]
    IN IF depth > MaxDepth THEN Refused
       ELSE CASE value.form = "object" ->
                   IF \/ Cardinality(Keys(value)) > MaxChildren
                      \/ Looked(value) \cap Oversized # {}
                      \/ Foreign(value)
                      \/ \E k \in Looked(value) : clean[k] = Refused
                   THEN Refused ELSE Object(clean)
              [] value.form = "list" ->
                   IF \/ Len(value.items) > MaxChildren
                      \/ \E i \in DOMAIN value.items : Items(value.items, depth)[i] = Refused
                   THEN Refused ELSE List(Items(value.items, depth))
              [] value.form = "text" -> IF value.text \in Oversized THEN Refused ELSE value
              [] OTHER -> value

-----------------------------------------------------------------------------
(* The schema compiler: what a schema must be, and what it accepts *)

RECURSIVE Compiles(_)
Compiles(schema) ==
    /\ schema.form = "object"
    /\ Has(schema, "type") =>
         schema.entries["type"] \in {Text(t) : t \in {"string", "boolean", "object"}}
    /\ Has(schema, "properties") =>
         /\ schema.entries["properties"].form = "object"
         /\ \A k \in Keys(schema.entries["properties"]) :
              Compiles(schema.entries["properties"].entries[k])
    /\ Has(schema, "anyOf") =>
         /\ schema.entries["anyOf"].form = "list"
         /\ \A i \in DOMAIN schema.entries["anyOf"].items : Compiles(schema.entries["anyOf"].items[i])
    /\ Has(schema, "required") => schema.entries["required"].form = "list"
    /\ Has(schema, "additionalProperties") => schema.entries["additionalProperties"].form = "flag"

TypeOf(value) == CASE value.form = "text" -> "string" [] value.form = "flag" -> "boolean" [] OTHER -> value.form

Properties(schema) == IF Has(schema, "properties") THEN schema.entries["properties"].entries ELSE <<>>

RECURSIVE Accepts(_, _)
Accepts(schema, value) ==
    /\ Has(schema, "type") => schema.entries["type"] = Text(TypeOf(value))
    /\ Has(schema, "anyOf") =>
         \E i \in DOMAIN schema.entries["anyOf"].items : Accepts(schema.entries["anyOf"].items[i], value)
    /\ value.form = "object" =>
         /\ \A k \in Keys(value) \cap DOMAIN Properties(schema) :
              Accepts(Properties(schema)[k], value.entries[k])
         /\ Has(schema, "required") =>
              \A i \in DOMAIN schema.entries["required"].items :
                  Has(value, schema.entries["required"].items[i].text)
         /\ Has(schema, "additionalProperties") /\ ~schema.entries["additionalProperties"].flag =>
              Keys(value) \subseteq DOMAIN Properties(schema)

-----------------------------------------------------------------------------
(* The catalog and the calls. A catalog is [tools, complete, cursor]: its  *)
(* tools, each [name, schema], whether it says that it is complete (it is  *)
(* unless it says no), and whether it names a next page.                   *)

sanitizeInputSchema(schema) ==
    LET clean == sanitizeSchemaValue(schema, 0)
    IN IF schema.form = "object" /\ clean # Refused /\ Compiles(clean) THEN clean ELSE Refused

Distinct(tools) == \A i, j \in DOMAIN tools : i # j => tools[i].name # tools[j].name

Bug_Whole(remote) == remote.complete
Whole(remote) == remote.complete /\ ~remote.cursor

\* One tool that cannot be shown makes the catalog unusable.
presentCatalog(remote) ==
    LET tools == [i \in DOMAIN remote.tools |->
                    [name |-> remote.tools[i].name, schema |-> sanitizeInputSchema(remote.tools[i].schema)]]
    IN IF \/ Len(tools) > MaxTools
          \/ ~Distinct(tools)
          \/ \E i \in DOMAIN tools : tools[i].name \in Oversized \/ tools[i].schema = Refused
       THEN Refused
       ELSE [form |-> "catalog", tools |-> tools, complete |-> Whole(remote)]

\* validateCurrentRemoteTool: the tool must be in a complete catalog, and its
\* schema must accept the arguments.
Verdict(remote, call) ==
    LET catalog  == presentCatalog(remote)
        selected == {i \in DOMAIN catalog.tools : catalog.tools[i].name = call.tool}
    IN CASE catalog = Refused -> "unavailable"
         [] catalog # Refused /\ ~catalog.complete -> "unavailable"
         [] catalog # Refused /\ catalog.complete /\ selected = {} -> "forbidden"
         [] OTHER -> IF \A i \in selected : Accepts(catalog.tools[i].schema, call.arguments)
                     THEN "sent" ELSE "bad_request"

-----------------------------------------------------------------------------
(* Properties, of a catalog and a call. They speak of the schemas as the   *)
(* server has published them.                                              *)

\* The values in a tree, each with the keys and places that lead to it.
RECURSIVE Nodes(_)
Nodes(value) ==
    LET Below(key, child) == {[path |-> <<key>> \o n.path, value |-> n.value] : n \in Nodes(child)}
    IN {[path |-> <<>>, value |-> value]} \cup
       CASE value.form = "object" -> UNION {Below(k, value.entries[k]) : k \in DOMAIN value.entries}
         [] value.form = "list" -> UNION {Below("item", value.items[i]) : i \in DOMAIN value.items}
         [] OTHER -> {}

Annotated(node) == \E i \in DOMAIN node.path : node.path[i] \in Annotations

\* A schema that may be refused for what it is, leaving annotations aside.
Unshowable(schema) ==
    \/ ~Compiles(schema)
    \/ \E node \in {n \in Nodes(schema) : ~Annotated(n)} :
         \/ Len(node.path) > MaxDepth
         \/ node.value.form = "text" /\ node.value.text \in Oversized
         \/ node.value.form = "list" /\ Len(node.value.items) > MaxChildren
         \/ node.value.form = "object" /\ Cardinality(Keys(node.value)) > MaxChildren
         \/ (Keys(node.value) \ Annotations) \cap Oversized # {}
         \/ Foreign(node.value)

\* The server offers the tool, in all of its catalog, and accepts the arguments.
Offered(remote, call) ==
    /\ remote.complete /\ ~remote.cursor
    /\ \E i \in DOMAIN remote.tools :
         /\ remote.tools[i].name = call.tool
         /\ Compiles(remote.tools[i].schema)
         /\ Accepts(remote.tools[i].schema, call.arguments)

\* validateCurrentRemoteTool lets pass what the server offers and nothing else,
\* though it looks at schemas without annotations; it refuses more only if the
\* catalog cannot be shown.
FitsRemote(remote, call, verdict) ==
    LET tools == remote.tools IN
    /\ verdict = "sent" => Offered(remote, call)
    /\ Offered(remote, call) /\ verdict # "sent" =>
         \/ Len(tools) > MaxTools
         \/ \E i, j \in DOMAIN tools : i # j /\ tools[i].name = tools[j].name
         \/ \E i \in DOMAIN tools : tools[i].name \in Oversized \/ Unshowable(tools[i].schema)

\* What a tree says, where: an object and a list say only that they are one.
Content(nodes) ==
    {[path |-> n.path,
      says |-> IF n.value.form \in {"object", "list"} THEN [form |-> n.value.form] ELSE n.value] :
        n \in nodes}

\* presentCatalog shows nothing that an annotation says, at any depth, and all
\* else as it is, in the order of the server and each name once.
ShowsNoProse(remote, catalog) ==
    catalog # Refused =>
        /\ Len(catalog.tools) = Len(remote.tools)
        /\ \A i \in DOMAIN catalog.tools :
             /\ catalog.tools[i].name = remote.tools[i].name
             /\ Content(Nodes(catalog.tools[i].schema)) =
                  Content({n \in Nodes(remote.tools[i].schema) : ~Annotated(n)})
        /\ \A i, j \in DOMAIN catalog.tools : i # j => catalog.tools[i].name # catalog.tools[j].name
===============================================================================
