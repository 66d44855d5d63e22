----------------------------- MODULE MCJobRouting -----------------------------
(* Configurations of the server and patterns for the run of JobRouting.     *)
EXTENDS JobRouting, TLC

Entry(name, capacity, options) == [name |-> name, capacity |-> capacity, options |-> options]

\* With parents before and after their children, with "root" and without it, and a
\* channel that is configured twice.
MCConfigs == {
  <<>>,
  <<Entry(<<"root">>, 3, {}), Entry(<<"a">>, 2, {"paused"})>>,
  <<Entry(<<"a", "b">>, 1, {"sequential"}), Entry(<<"root", "a">>, 0, {"paused"}),
    Entry(<<"root">>, 4, {})>>,
  <<Entry(<<"b">>, 2, {}), Entry(<<"root", "b", "a">>, 1, {}),
    Entry(<<"root", "b">>, 1, {"sequential"})>>,
  <<Entry(<<"a">>, 2, {"sequential"})>> }

\* 2: 10 seconds, 4: between 20 and 30
MCPatterns == {<<>>, 2 :> <<10, 10>> @@ 4 :> <<20, 30>>}

\* Records of channels do not differ (only safety is checked).
AnyChannel == Permutations(Channels)
=============================================================================
