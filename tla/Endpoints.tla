------------------------------ MODULE Endpoints ------------------------------
(***************************************************************************)
(* What an endpoint may be set to, and what it answers (endpoint,           *)
(* endpoint_json2).  An endpoint runs a piece of code, or gives access to a *)
(* method of a model: it checks the request, adds its default domain, reads *)
(* relational fields through dotted names, selects and renames the keys of  *)
(* the rows.  Requests carry a JSON object, or nothing.                     *)
(*                                                                          *)
(* A field is a sequence of one name, or of two for a dotted name; a value  *)
(* is the sequence of what it shows: nothing, one thing, or the records of  *)
(* a to-many field.                                                         *)
(***************************************************************************)
EXTENDS Integers, SequencesExt

CONSTANTS
  Partners,   \* the records of the model, as functions from fields to values
  Places,     \* the records they are related to
  Archived,   \* those of them that are archived
  Layouts,    \* the response fields: sequences of lines <<field>> or <<field, alias>>
  FirstEndpoints,  \* the endpoints there are at the beginning
  MaxEdits    \* bound: how often it is edited

VARIABLES endpoint, edits

PlainFields == [partner |-> {"id", "name", "country", "tags"}, lead |-> {"id", "name"}]
Relational == [partner |-> {"country", "tags"}, lead |-> {}]

-----------------------------------------------------------------------------
(* Configuration                                                            *)

\* What the fields of an endpoint can be set to.  A parameter of the method is not
\* declared, or declared as one that may be left out, that is required or has a default.
Settings ==
  [mode |-> {"code", "json2"}, verb |-> {"GET", "POST"}, ctype |-> {"", "text", "json"},
   schema |-> {"", "json", "xml"}, code |-> {"", "comments", "good"},
   model |-> {"", "partner", "lead"},
   method |-> {"", "search_read", "search_count", "_search"},
   snippet |-> {"", "a result", "no result"},
   groups |-> {"none", "some"}, layout |-> Layouts, domain |-> {"", "named", "malformed"},
   domainParam |-> {"none", "optional", "required"},
   fieldsParam |-> {"none", "optional", "default", "bad default"}]
Setting == DOMAIN Settings

ASSUME EndpointsAssumption ==
  \A e \in FirstEndpoints :
    DOMAIN e = Setting /\ \A k \in Setting : e[k] \in Settings[k]

LayoutFields(layout) == {layout[n][1] : n \in DOMAIN layout}

\* _json2_is_valid_response_field
ValidField(model, f) ==
  IF Len(f) = 1 THEN f[1] \in PlainFields[model]
  ELSE f[1] \in Relational[model] /\ f[2] = "name"

\* Checks of endpoint.mixin and endpoint.route.handler on a write of some fields
MixinAllows(e, written) ==
  /\ "mode" \in written => IF e.mode = "code" THEN e.code # "" ELSE e.model # ""
  /\ written \cap {"schema", "ctype"} # {} /\ e.schema # "" /\ e.ctype = "json" =>
       e.schema = "json"
  /\ written \cap {"verb", "ctype"} # {} /\ e.verb = "POST" => e.ctype # ""

\* MUTANT: the fields are not checked again when the model changes.
LayoutAllowsOnce(e, written) ==
  "layout" \in written /\ e.model # "" =>
    \A f \in LayoutFields(e.layout) :
      Len(f) = 2 \/ e.method = "search_read" => ValidField(e.model, f)

\* _check_json2_response_fields
LayoutAllows(e, written) ==
  written \cap {"layout", "model", "method"} # {} /\ e.model # "" =>
    \A f \in LayoutFields(e.layout) :
      Len(f) = 2 \/ e.method = "search_read" => ValidField(e.model, f)

\* The other checks of endpoint_json2
Json2Allows(e, written) ==
  /\ e.mode = "json2" =>
       /\ written \cap {"mode", "method", "snippet"} # {} => (e.method = "") # (e.snippet = "")
       /\ written \cap {"mode", "groups"} # {} => e.groups = "some"
       /\ written \cap {"verb", "ctype", "mode"} # {} => e.verb = "POST" /\ e.ctype = "json"
  /\ "method" \in written => e.method # "_search"
  /\ "domain" \in written => e.domain # "malformed"
  /\ "fieldsParam" \in written => e.fieldsParam # "bad default"

Allowed(e, written) ==
  MixinAllows(e, written) /\ LayoutAllows(e, written) /\ Json2Allows(e, written)

\* What the forms ask for (the model of json2, the content type), and show of e.
FormAllows(e) ==
  /\ e.mode = "json2" => e.model # "" /\ e.groups = "some"
  /\ e.verb = "POST" => e.ctype # ""

Shown(e) ==
  {"mode", "verb"}
  \cup (IF e.verb = "POST" THEN {"ctype"} ELSE {})
  \cup (IF e.verb = "POST" /\ e.ctype = "json" THEN {"schema"} ELSE {})
  \cup IF e.mode = "code" THEN {"code"}
       ELSE {"model", "groups", "layout", "domain", "domainParam", "fieldsParam"}
            \cup (IF e.snippet = "" THEN {"method"} ELSE {})
            \cup (IF e.method = "" THEN {"snippet"} ELSE {})

\* A field is typed; the onchange methods follow.
Typed(e, k, v) ==
  LET set == [e EXCEPT ![k] = v] IN
  CASE k = "mode" /\ v = "json2" ->
         [set EXCEPT !.verb = "POST", !.ctype = "json",
                     !.schema = IF e.ctype = "json" THEN @ ELSE ""]
    [] k = "ctype" -> [set EXCEPT !.schema = ""]
    [] OTHER -> set

TypedOnce(e) == UNION {{Typed(e, k, v) : v \in Settings[k] \ {e[k]}} : k \in Shown(e)}
TypedTwice(e) == UNION {TypedOnce(f) : f \in TypedOnce(e)}

InitEndpoint ==
  /\ endpoint \in {e \in FirstEndpoints : FormAllows(e) /\ Allowed(e, Setting)}
  /\ edits = 0

\* One field or two are changed in the form, and saved.
EditEndpoint ==
  /\ edits < MaxEdits /\ edits' = edits + 1
  /\ \E e \in TypedOnce(endpoint) \cup TypedTwice(endpoint) :
       /\ FormAllows(e)
       /\ Allowed(e, {k \in Setting : e[k] # endpoint[k]})
       /\ endpoint' = e

SpecEndpoints == InitEndpoint /\ [][EditEndpoint]_<<endpoint, edits>>

-----------------------------------------------------------------------------
(* A request                                                                *)

\* Whether there is a value for a parameter; "wrong": one of another type.
Extracted(declared, given) ==
  IF declared = "none" THEN "absent"
  ELSE IF given # "absent" THEN given
  ELSE CASE declared = "default" -> "default"
         [] declared = "required" -> "missing"
         [] OTHER -> "absent"

DomainOf(e, r) == Extracted(e.domainParam, r.domain)
FieldsOf(e, r) == Extracted(e.fieldsParam, r.fields)

Dotted(e) == {f \in LayoutFields(e.layout) : Len(f) = 2}

\* MUTANT: the relational fields behind dotted names are not read.
FieldsReadAsAsked(e, r) ==
  CASE FieldsOf(e, r) = "absent" -> {<<k>> : k \in PlainFields[e.model]}
    [] OTHER -> {<<"id">>, <<"name">>}

\* What search_read reads: all fields, or those asked for and the bases of dotted
\* names.  (The parameter is always the list of the name, or left out.)
FieldsRead(e, r) ==
  CASE FieldsOf(e, r) = "absent" -> {<<k>> : k \in PlainFields[e.model]}
    [] OTHER -> {<<"id">>, <<"name">>} \cup {<<f[1]>> : f \in Dotted(e)}

\* What a sequence has at some of its places, in its order: SelectSeq, in a form that can
\* be reasoned about
SelectAt(seq, ns) ==
  LET selected[n \in 0..Len(seq)] ==
        IF n = 0 THEN <<>>
        ELSE IF n \in ns THEN Append(selected[n - 1], seq[n]) ELSE selected[n - 1]
  IN  selected[Len(seq)]

\* The records in the default domain (those that have a name) and that of the request
\* (those that have a country).  There are no leads.
Searched(e, r) ==
  IF e.model = "lead" THEN <<>>
  ELSE SelectAt(Partners, {n \in DOMAIN Partners :
         /\ e.domain = "named" => Partners[n][<<"name">>] # <<>>
         /\ DomainOf(e, r) = "placed" => Partners[n][<<"country">>] # <<>>})

\* search_read of the related records finds no archived one; its names.
NamesOf(ids) == SelectAt(ids, {n \in DOMAIN ids : ids[n] \in Places \ Archived})

Get(row, f) == IF f \in DOMAIN row THEN row[f] ELSE <<>>

\* _json2_resolve_dotted_fields for one row
Injected(row, dotted) ==
  [f \in DOMAIN row \cup dotted |->
     IF f \in dotted THEN NamesOf(Get(row, <<f[1]>>)) ELSE row[f]]

\* _json2_filter_result
Filtered(row, layout) ==
  IF layout = <<>> THEN row ELSE Restrict(row, DOMAIN row \cap LayoutFields(layout))

\* The alias of a field is that of the last of its lines that has one.
AliasOf(layout, f) ==
  LET lines == {n \in DOMAIN layout : layout[n][1] = f /\ Len(layout[n]) = 2}
  IN  IF lines = {} THEN f ELSE layout[Max(lines)][2]

\* Records have their fields; labels are not used twice.
ASSUME RecordsAssumption ==
  /\ Partners \in Seq([{<<k>> : k \in PlainFields.partner} -> Seq(STRING)])
  /\ \A n \in DOMAIN Partners, k \in Relational.partner : Partners[n][<<k>>] \in Seq(Places)
  /\ \A layout \in Layouts : \A f, g \in LayoutFields(layout) :
       AliasOf(layout, f) = AliasOf(layout, g) => f = g

\* _json2_apply_aliases
Renamed(row, layout) ==
  [k \in {AliasOf(layout, f) : f \in DOMAIN row} |->
     row[CHOOSE f \in DOMAIN row : AliasOf(layout, f) = k]]

Payload(e, r) ==
  [n \in DOMAIN Searched(e, r) |->
     Renamed(Filtered(Injected(Restrict(Searched(e, r)[n], FieldsRead(e, r)), Dotted(e)),
                      e.layout), e.layout)]

Refusal(status) == [status |-> status, payload |-> <<>>]

\* Neither the endpoint nor the request has a domain.
Domainless(e, r) == e.domain = "" /\ DomainOf(e, r) = "absent"

\* What methods can be called with: a domain that is one; search_count has no fields, and
\* cannot do without a domain.
Callable(e, r) ==
  /\ DomainOf(e, r) = "malformed" => e.domain = "" /\ e.method = ""
  /\ e.method = "search_count" => e.fieldsParam = "none" /\ ~Domainless(e, r)

\* EndpointControllerMixin._handle_endpoint: the checks in their order.  "broken" is an
\* exception that nothing foresees; a piece of code answers what it likes.
Answer(e, r) ==
  IF e.verb # r.verb THEN Refusal("method not allowed")
  ELSE IF e.ctype # "" /\ e.ctype # r.ctype THEN Refusal("unsupported media type")
  ELSE IF e.schema = "xml" /\ e.verb = "POST" /\ e.ctype = "json" THEN Refusal("broken")
  ELSE IF e.schema = "json" /\ e.verb = "POST" /\ e.ctype = "json" /\ ~r.conforms
  THEN Refusal("bad request")
  ELSE IF e.mode = "code" THEN Refusal(IF e.code = "comments" THEN "bad request" ELSE "code")
  ELSE IF ~r.member THEN Refusal("forbidden")
  ELSE IF {DomainOf(e, r), FieldsOf(e, r)} \cap {"missing", "wrong"} # {}
  THEN Refusal("unprocessable")
  ELSE IF e.model = "" \/ (e.method = "" /\ e.snippet = "") THEN Refusal("broken")
  ELSE IF ~Callable(e, r) \/ \E f \in Dotted(e) : ~ValidField(e.model, f)
  THEN Refusal("broken")
  ELSE IF e.snippet = "no result" THEN Refusal("no result")
  ELSE IF e.snippet = "a result" \/ e.method = "search_count" THEN Refusal("scalar")
  ELSE [status |-> "ok", payload |-> Payload(e, r)]

\* EndpointJson2DocController: whether the endpoint is listed for a user
Documented(e, member) == e.mode = "json2" /\ e.groups = "some" /\ member

Requests ==
  {[verb |-> v, ctype |-> c, conforms |-> TRUE, member |-> TRUE,
    domain |-> "absent", fields |-> "absent"] : v \in {"GET", "POST"}, c \in {"", "text", "json"}}
  \cup {[verb |-> "POST", ctype |-> "json", conforms |-> b, member |-> m, domain |-> d,
         fields |-> f] : b \in BOOLEAN, m \in BOOLEAN, d \in {"absent", "wrong", "malformed", "placed"},
                         f \in {"absent", "wrong", "name"}}

-----------------------------------------------------------------------------

\* However an endpoint was edited, one that could be saved is able to answer: no request
\* meets an exception that nothing foresees, those excepted that the method cannot be called
\* with, which nothing checks; and the documentation lists a JSON-2 endpoint for those users
\* whom it does not turn away.
SavedEndpointsAnswer ==
  \A r \in Requests :
    /\ endpoint.mode = "code" \/ Callable(endpoint, r) => Answer(endpoint, r).status # "broken"
    /\ endpoint.mode = "json2" /\ r.verb = "POST" /\ r.ctype = "json" /\ r.conforms =>
         Documented(endpoint, r.member) = (Answer(endpoint, r).status # "forbidden")

\* The value of a field of a partner, read through a dotted name or not.
Shows(p, f) == p[<<f[1]>>]

\* The rows of an answer are the records in both domains, in order; each has, under its
\* alias, every response field that was asked for or has a dotted name, and what the
\* record shows for it.
RowsAreAsAsked ==
  \A r \in Requests :
    LET a == Answer(endpoint, r)
        layout == endpoint.layout
        all == {<<k>> : k \in PlainFields[endpoint.model]}
        asked == IF FieldsOf(endpoint, r) = "absent" THEN all ELSE {<<"id">>, <<"name">>}
        bases == {<<f[1]>> : f \in Dotted(endpoint)}
        shown == IF layout = <<>> THEN asked
                 ELSE {f \in LayoutFields(layout) : Len(f) = 2 \/ f \in asked \cup bases}
        found == SelectAt(Partners, {n \in DOMAIN Partners :
                   /\ endpoint.domain = "named" => Partners[n][<<"name">>] # <<>>
                   /\ endpoint.domainParam # "none" /\ r.domain = "placed"
                        => Partners[n][<<"country">>] # <<>>})
    IN  a.status = "ok" /\ endpoint.model = "partner" =>
          /\ Len(a.payload) = Len(found)
          /\ \A n \in DOMAIN found :
               /\ DOMAIN a.payload[n] = {AliasOf(layout, f) : f \in shown}
               /\ \A f \in shown : a.payload[n][AliasOf(layout, f)] = Shows(found[n], f)
=============================================================================
