---------------------------- MODULE MCPipelines ----------------------------
(* The pipelines that wait for the language model: extraction of a source  *)
(* and memorizing the messages of a group.  They share no state, so one of *)
(* them moves in a behaviour.                                              *)
EXTENDS MCExtraction, MCMemorize

VARIABLE pipeline \* the one that moves

MCInit == pipeline \in {"extract", "memorize"} /\ ExtractInit /\ MemorizeInit

MCNext ==
    /\ \/ pipeline = "extract" /\ ExtractNext /\ UNCHANGED memorizeVars
       \/ pipeline = "memorize" /\ MemorizeNext /\ LastAlone /\ UNCHANGED extractVars
    /\ UNCHANGED pipeline

MCSpec ==
    /\ MCInit /\ [][MCNext]_<<pipeline, extractVars, memorizeVars>>
    /\ \A j \in Jobs : WF_extractVars(JobMoves(j))
    /\ \A r \in Requests : WF_memorizeVars(MemorizeMoves(r))

\* Extraction jobs end unless the process dies, and memorize ends for every
\* message, whatever fails or is delivered again.
PipelinesEnd == JobsEnd /\ RequestsEnd
=============================================================================
