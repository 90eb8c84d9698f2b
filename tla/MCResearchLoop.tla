---------------------------- MODULE MCResearchLoop ----------------------------
(* Small instances of ResearchLoop for TLC. *)
EXTENDS ResearchLoop

ThreeNeeds == 1..3
SomeSeeds ==
    {<<"sufficient", "missing", "missing">>, <<"insufficient", "sufficient", "blocked">>,
     <<"sufficient", "sufficient", "sufficient">>}
SomeFindings == {"partial", "sufficient"}
===============================================================================
