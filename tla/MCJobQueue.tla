----------------------------- MODULE MCJobQueue -----------------------------
(* Small instances of the job queue. *)
EXTENDS JobQueue

CONSTANTS k1, k2, i1, w1, w2

\* One worker serves both keys, the other one.
MCFetchKeys == w1 :> <<k1, k2>> @@ w2 :> <<k1>>
MCTraffic == {<<"JobCancel", k1, i1>>, <<"JobRespondToInput", k2, i1>>}

\* One key, and besides starts only responses are queued.
OneKey == [w \in Workers |-> <<k1>>]
ResponsesOnly == {<<"JobRespondToInput", k1, i1>>}
=============================================================================
