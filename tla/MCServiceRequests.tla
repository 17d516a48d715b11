-------------------------- MODULE MCServiceRequests -------------------------
(* Small instance of ServiceRequests: the units of work are given here, the   *)
(* environments and setup bodies in MCSetupConfig, the numbers in the cfg.         *)
EXTENDS ServiceRequests, MCSetupConfig, TLC

MCSet(column) == [kind |-> "set", cols |-> {column}]
MCUnits == {
    [r \in {"r1"} |-> MCSet("a")],
    [r \in {"r1"} |-> MCSet("b")],
    [r \in {"r1", "r2"} |-> IF r = "r1" THEN MCSet("a") ELSE [kind |-> "add"]],
    [r \in {"r1", "r2"} |-> IF r = "r1" THEN [kind |-> "delete"] ELSE MCSet("b")]}

(* The two tabs, threads and clients are interchangeable and only compared.    *)
(* One part is followed at a time, so they may be exchanged together.          *)
MCPairs == {AsTabs, RlThreads, CsClients}
MCExchanged(f) == \A pair \in MCPairs : \A x \in pair : f[x] \in pair \ {x}
MCSymmetric ==
    {f \in Permutations(UNION MCPairs) : MCExchanged(f) \/ \A x \in DOMAIN f : f[x] = x}
=============================================================================
