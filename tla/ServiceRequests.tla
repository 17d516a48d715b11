--------------------------- MODULE ServiceRequests --------------------------
(* The request-serving parts that share no state with each other, side by     *)
(* side: what one of them does disables, enables and changes nothing in        *)
(* another, so a behaviour of the whole is an interleaving of behaviours of    *)
(* the parts, and it is enough to follow one part at a time (part).            *)
EXTENDS RateLimiter, SetupConfig, AuthSession, Cases, RetrySession, JobWatch

VARIABLE part  \* the part whose steps this behaviour follows

serviceVars == <<part, rlVars, scVars, asVars, csVars, rsVars, jwVars>>

ServiceInit ==
    /\ part \in {"limiter", "setup", "auth", "cases", "retry", "watch"}
    /\ RlInit /\ ScInit /\ AsInit /\ CsInit /\ RsInit /\ JwInit
    (* the parts not followed start in one of their initial states *)
    /\ part # "setup" => scEnv = ScUnset
    /\ part # "retry" => rsRow = [r \in RsRows |-> RsAbsent]

ServiceNext ==
    /\ UNCHANGED part
    /\ \/ part = "limiter" /\ RlNext /\ UNCHANGED <<scVars, asVars, csVars, rsVars, jwVars>>
       \/ part = "setup" /\ ScNext /\ UNCHANGED <<rlVars, asVars, csVars, rsVars, jwVars>>
       \/ part = "auth" /\ AsNext /\ UNCHANGED <<rlVars, scVars, csVars, rsVars, jwVars>>
       \/ part = "cases" /\ CsNext /\ UNCHANGED <<rlVars, scVars, asVars, rsVars, jwVars>>
       \/ part = "retry" /\ RsNext /\ UNCHANGED <<rlVars, scVars, asVars, csVars, jwVars>>
       \/ part = "watch" /\ JwNext /\ UNCHANGED <<rlVars, scVars, asVars, csVars, rsVars>>

ServiceSpec == ServiceInit /\ [][ServiceNext]_serviceVars

(* The variables of every part hold what their code can put into them.         *)
ServiceTypeOK == RlTypeOK /\ ScTypeOK /\ AsTypeOK /\ CsTypeOK /\ RsTypeOK /\ JwTypeOK
=============================================================================
