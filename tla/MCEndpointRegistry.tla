------------------------- MODULE MCEndpointRegistry -------------------------
(* Servers for the runs of EndpointRegistry.                               *)
EXTENDS EndpointRegistry, TLC

CONSTANTS a_get, a_post, b, c

\* Two routes share a path.
Paths == [route \in Routes |-> IF route = a_post THEN a_get ELSE route]

\* "workers" > 0: each process serves one request at a time.
Prefork == [t \in Threads |-> t]

\* "workers" = 0: one process with threads
Threaded == [t \in Threads |-> CHOOSE p \in Procs : TRUE]

\* Records do not differ, nor do the routes alone on their path (only safety
\* is checked with it).
AnyRecord == Permutations(Records) \cup Permutations({b, c})
=============================================================================
