------------------------------ MODULE Evidence ------------------------------
(* The stages of an analysis and the searches over its result, side by side.   *)
(* A stage hands the next one a finished list, and a search reads a finished   *)
(* graph: what one does disables and changes nothing in another, so it is      *)
(* enough to follow one at a time (stage), each on inputs of its own.          *)
EXTENDS Extraction, Detection, GraphSearch

VARIABLE stage  \* the stage whose steps this behaviour follows

evidenceVars == <<stage, exVars, seVars, gsVars>>

EvidenceInit ==
    /\ stage \in {"extraction", "detection", "search"}
    /\ ExInit /\ SeInit /\ GsInit
    (* the stages not followed have one input each *)
    /\ stage # "extraction" => exTraffic = CHOOSE T \in ExTraffic : TRUE
    /\ stage # "detection" => seCapture = CHOOSE C \in SeCaptures : TRUE
    /\ stage # "search" =>
          /\ gsGraph = CHOOSE G \in GsGraphs : TRUE
          /\ gsAsked = CHOOSE r \in GsRequests(gsGraph) : TRUE

EvidenceNext ==
    /\ UNCHANGED stage
    /\ \/ stage = "extraction" /\ ExNext /\ UNCHANGED <<seVars, gsVars>>
       \/ stage = "detection" /\ SeNext /\ UNCHANGED <<exVars, gsVars>>
       \/ stage = "search" /\ GsNext /\ UNCHANGED <<exVars, seVars>>

EvidenceSpec == EvidenceInit /\ [][EvidenceNext]_evidenceVars

(* The variables of every stage hold what its code can put into them.          *)
EvidenceTypeOK == ExTypeOK /\ SeTypeOK /\ GsTypeOK
=============================================================================
