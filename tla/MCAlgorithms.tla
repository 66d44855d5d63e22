----------------------------- MODULE MCAlgorithms -----------------------------
(***************************************************************************)
(* Four parts that compute much and interleave little, checked in one run:  *)
(* jobs that are composed (DelayGraph), endpoints (Endpoints), imports      *)
(* (ImportMatch) and changes of lines (LineTracking).  Each behaviour is    *)
(* about one of them; the variables of the others keep one value.           *)
(***************************************************************************)
EXTENDS DelayGraph, Endpoints, ImportMatch, LineTracking, TLC

VARIABLE part

\* Either no job of a graph has an identity key or all of them have.
AllOrNone == {{}, Delayables}

\* Jobs do not differ but by their keys.
AnyJob == Permutations(Delayables)

\* Partners: what their fields show.
Partner(id, name, country, tags) ==
  <<"id">> :> <<id>> @@ <<"name">> :> name @@ <<"country">> :> country @@ <<"tags">> :> tags
MCPartners ==
  <<Partner("1", <<"ann">>, <<"here">>, <<"here", "there">>),
    Partner("2", <<"bob">>, <<>>, <<>>),
    Partner("3", <<>>, <<"there">>, <<"there">>)>>

MCLayouts ==
  {<<>>, << << <<"name">> >> >>,
   << << <<"name">>, <<"country">> >>, << <<"country">>, <<"name">> >> >>,
   << << <<"id">> >>, << <<"country", "name">>, <<"place">> >>, << <<"tags", "name">> >> >>}

Json2 == [mode |-> "json2", verb |-> "POST", ctype |-> "json", schema |-> "", code |-> "",
          model |-> "partner", method |-> "search_read", snippet |-> "", groups |-> "some",
          layout |-> <<>>, domain |-> "", domainParam |-> "optional",
          fieldsParam |-> "optional"]
Code == [Json2 EXCEPT !.mode = "code", !.code = "good", !.verb = "GET", !.ctype = "",
                      !.model = "", !.method = "", !.groups = "none"]
MCFirst == {Json2, Code}

\* Tables of up to two records; files of up to two rows, some with an id, some without
\* one of the columns; rules on one column or both, with and without a condition.
MCTables == UNION {[1..n -> [{"ref", "name"} -> {"", "x", "y"}]] : n \in 0..2}
Row(id, ref, name) == [id |-> id, ref |-> ref, name |-> name]
NewRows == {Row(0, ref, name) : ref \in {"", "x", "y"}, name \in {"x", "y"}}
MCFiles ==
  {[columns |-> {"ref", "name"}, rows |-> rs] :
     rs \in UNION {[1..n -> NewRows] : n \in 1..2} \cup {<<Row(1, "x", "y"), Row(0, "y", "y")>>}}
  \cup {[columns |-> {"name"}, rows |-> <<Row(0, "", "x")>>]}
On(fields) == [fields |-> fields, only_if |-> <<>>]
OnlyX == [fields |-> {"ref"}, only_if |-> "ref" :> "x"]
MCRules == {<<>>, <<On({"ref"})>>, <<On({"ref", "name"})>>, <<OnlyX>>,
            <<OnlyX, On({"name"})>>}

\* A line, of one of two owners; its list is tracked, by the fields configured or by
\* those that can be written, or not at all.
MCFirstLines == 1 :> Line("o", 0)
Listed == [owner |-> TRUE, lines |-> FALSE, list |-> TRUE, fields |-> {"quantity", "rank"}]
MCSettings == {Listed, [Listed EXCEPT !.lines = TRUE], [Listed EXCEPT !.list = FALSE]}

InitAlgorithms ==
  /\ part \in {"jobs", "endpoint", "import", "lines"}
  /\ IF part = "jobs" THEN InitGraph
     ELSE /\ made = <<>> /\ onDone = [o \in AllObjects |-> {}] /\ keyed = {} /\ existing = {}
          /\ top = Nothing /\ edges = {} /\ rows = {} /\ handles = {}
          /\ todo = [j \in Delayables |-> 0] /\ ready = {} /\ executed = {}
  /\ IF part = "endpoint" THEN InitEndpoint ELSE endpoint = Json2 /\ edits = 0
  /\ IF part = "import" THEN InitImport ELSE records = <<>> /\ rules = <<>> /\ imports = 0
  /\ IF part = "lines" THEN InitLines
     ELSE /\ lines = <<>> /\ was = <<>> /\ setting = Listed /\ known = Nobody /\ inForce = Listed
          /\ before = <<>> /\ notes = <<>> /\ saved = <<>> /\ told = {}
          /\ born = <<>> /\ died = <<>> /\ steps = 0

endpointVars == <<endpoint, edits>>
importVars == <<records, rules, imports>>

NextAlgorithms ==
  /\ UNCHANGED part
  /\ \/ part = "jobs" /\ NextGraph /\ UNCHANGED <<endpointVars, importVars, lineVars>>
     \/ part = "endpoint" /\ EditEndpoint /\ UNCHANGED <<delayVars, importVars, lineVars>>
     \/ part = "import" /\ ImportFile /\ UNCHANGED <<delayVars, endpointVars, lineVars>>
     \/ part = "lines" /\ NextLines /\ UNCHANGED <<delayVars, endpointVars, importVars>>

SpecAlgorithms ==
  InitAlgorithms /\ [][NextAlgorithms]_<<delayVars, endpointVars, importVars, lineVars, part>>
=============================================================================
