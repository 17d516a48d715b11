---------------------------- MODULE SetupConfig ----------------------------
(* First-run setup and reconfiguration: app/core/config.py (environment >     *)
(* setup file > defaults) and app/setup/*.py.  POST /oidc is a plain function,*)
(* so two saves may run at once: each reads the file, writes the merged file   *)
(* and then mutates the live settings, with no lock.  The process may crash    *)
(* and restart between any two steps.                                          *)
EXTENDS Naturals, Sequences, FiniteSets, SequencesExt

CONSTANTS
    ScThreads,  \* worker threads that run POST /api/setup/oidc
    ScEnvs,     \* the environments to start in: functions [ScFields -> values]
    ScBodies,   \* the bodies submitted: functions [ScFields -> values]
    ScMaxPosts, \* bound: number of POSTs
    ScMaxBoots  \* bound: number of restarts

(* SETUP_FIELDS with their order; oidc_client_id is checked like the secret,   *)
(* and the scope and group names are only carried: they are left out.          *)
ScFieldOrder == [oidc_issuer |-> 1, oidc_client_secret |-> 2, oidc_redirect_uri |-> 3, public_url |-> 4]
ScFields == DOMAIN ScFieldOrder
ScUrlFields == {"oidc_issuer", "public_url"}
ScUnset == [f \in ScFields |-> <<>>]

(* Values: <<>> is the empty string, <<v>> a text, <<v, "/">> the same text    *)
(* with a trailing slash, <<"callback", v>> the callback URL under base v.     *)
(* _clean: a URL loses its trailing slashes, all of them: one that is nothing  *)
(* but slashes passes the checks of a save as a text and ends as the empty one.*)
ScClean(f, v) ==
    IF f \in ScUrlFields THEN SubSeq(v, 1, SelectLastInSeq(v, LAMBDA c : c # "/")) ELSE v

ASSUME ScAssumption ==
    /\ ScMaxPosts \in Nat /\ ScMaxBoots \in Nat
    /\ \A e \in ScEnvs \cup ScBodies : e \in [ScFields -> Seq(STRING)]

VARIABLES
    scEnv,    \* the process environment
    scFile,   \* the persisted setup file
    scLive,   \* config.settings
    scReq,    \* per thread: where its POST is
    scPosts, scBoots,
    scMixed,  \* history: did two saves overlap?
    scBlanked \* history: was a save let through whose issuer is only slashes?

scVars == <<scEnv, scFile, scLive, scReq, scPosts, scBoots, scMixed, scBlanked>>

ScIdle == [pc |-> "idle"]

(* Fault: only the secret is pinned by the environment.                        *)
ScLockedSecret == {"oidc_client_secret"} \cap {f \in ScFields : scEnv[f] # <<>>}

(* locked_fields: what the environment sets cannot be saved.                   *)
ScLocked == {f \in ScFields : scEnv[f] # <<>>}
ScAuthEnabled == scLive["oidc_issuer"] # <<>>

(* _derive_defaults: only an EMPTY redirect URI is derived.                    *)
ScDerive(s) ==
    IF s["oidc_redirect_uri"] = <<>> /\ s["public_url"] # <<>>
    THEN [s EXCEPT !["oidc_redirect_uri"] = <<"callback">> \o s["public_url"]]
    ELSE s

(* Settings() followed by apply_persisted(): what a process that starts on this *)
(* environment and this file works with.                                       *)
ScStartup(env, file) ==
    LET default == ScDerive([f \in ScFields |-> ScClean(f, env[f])])
    IN  ScDerive([f \in ScFields |->
                    IF env[f] = <<>> /\ file[f] # <<>> THEN ScClean(f, file[f]) ELSE default[f]])

ScInit ==
    /\ scEnv \in ScEnvs
    /\ scFile = ScUnset
    /\ scLive = ScStartup(scEnv, ScUnset)
    /\ scReq = [t \in ScThreads |-> ScIdle]
    /\ scPosts = 0 /\ scBoots = 0
    /\ scMixed = FALSE /\ scBlanked = FALSE

-----------------------------------------------------------------------------
(* Fault: the issuer may be submitted blank.                                   *)
ScUpdateIssuer(body) ==
    {f \in ScFields : (body[f] # <<>> \/ f = "oidc_issuer") /\ f \notin ScLocked}

(* values(): blank fields are dropped; the update leaves out the locked ones.  *)
ScUpdate(body) == {f \in ScFields : body[f] # <<>> /\ f \notin ScLocked}
(* 409: a locked field submitted with another text than the live one (the text *)
(* is compared before it is cleaned).                                          *)
ScConflict(body) == \E f \in ScLocked : body[f] # <<>> /\ body[f] # scLive[f]
(* Fault: only the issuer is demanded.                                         *)
ScMissingIssuer(body) ==
    ~ScAuthEnabled /\ "oidc_issuer" \notin ScUpdate(body) /\ scLive["oidc_issuer"] = <<>>

(* 400: what enabling authentication for the first time needs.                 *)
ScMissing(body) ==
    /\ ~ScAuthEnabled
    /\ \E f \in {"oidc_client_secret", "oidc_issuer"} : f \notin ScUpdate(body) /\ scLive[f] = <<>>

(* An issuer of nothing but slashes is a text for the checks above.            *)
ScBlanksIssuer(body) == body["oidc_issuer"] # <<>> /\ ScClean("oidc_issuer", body["oidc_issuer"]) = <<>>

(* The validation of save_configuration and, when it passes, the read of the   *)
(* file with which persist_setup begins.                                       *)
ScBegin(t, body) ==
    /\ scReq[t] = ScIdle
    /\ scPosts < ScMaxPosts
    /\ ~ScConflict(body)
    /\ ~ScMissing(body)
    /\ scReq' = [scReq EXCEPT ![t] = [pc |-> "write", body |-> body, read |-> scFile,
                                      fields |-> ScUpdate(body)]]
    /\ scPosts' = scPosts + 1
    /\ scMixed' = (scMixed \/ \E u \in ScThreads \ {t} : scReq[u] # ScIdle)
    /\ scBlanked' = (scBlanked \/ ScBlanksIssuer(body))
    /\ UNCHANGED <<scEnv, scFile, scLive, scBoots>>

(* write_setup_file: the merged values replace the file in one rename.         *)
ScWrite(t) ==
    /\ scReq[t].pc = "write"
    /\ LET r == scReq[t]
       IN  /\ scFile' = [f \in ScFields |->
                            IF f \in r.fields THEN ScClean(f, r.body[f]) ELSE r.read[f]]
           /\ scReq' = [scReq EXCEPT ![t] =
                            [pc |-> "apply", body |-> r.body, todo |-> r.fields]]
    /\ UNCHANGED <<scEnv, scLive, scPosts, scBoots, scMixed, scBlanked>>

(* The write fails (read-only volume): the temporary file goes, the request    *)
(* ends with an error and the live settings are not touched.                   *)
ScWriteFails(t) ==
    /\ scReq[t].pc = "write"
    /\ scReq' = [scReq EXCEPT ![t] = ScIdle]
    /\ UNCHANGED <<scEnv, scFile, scLive, scPosts, scBoots, scMixed, scBlanked>>

(* apply_values sets one attribute after the other, then derives.              *)
ScApply(t) ==
    /\ scReq[t].pc = "apply"
    /\ LET r == scReq[t]
       IN  \/ /\ r.todo = {}
              /\ scLive' = ScDerive(scLive)
              /\ scReq' = [scReq EXCEPT ![t] = ScIdle]
           \/ \E f \in r.todo :
              /\ \A g \in r.todo : ScFieldOrder[f] <= ScFieldOrder[g]
              /\ scLive' = [scLive EXCEPT ![f] = ScClean(f, r.body[f])]
              /\ scReq' = [scReq EXCEPT ![t].todo = @ \ {f}]
    /\ UNCHANGED <<scEnv, scFile, scPosts, scBoots, scMixed, scBlanked>>

(* The process dies and starts again on the same environment and file.         *)
ScRestart ==
    /\ scBoots < ScMaxBoots
    /\ scBoots' = scBoots + 1
    /\ scLive' = ScStartup(scEnv, scFile)
    /\ scReq' = [t \in ScThreads |-> ScIdle]
    /\ UNCHANGED <<scEnv, scFile, scPosts, scMixed, scBlanked>>

ScNext ==
    \/ ScRestart
    \/ \E t \in ScThreads :
          \/ ScWrite(t) \/ ScWriteFails(t) \/ ScApply(t)
          \/ \E body \in ScBodies : ScBegin(t, body)

ScSpec == ScInit /\ [][ScNext]_scVars

-----------------------------------------------------------------------------
ScQuiet == \A t \in ScThreads : scReq[t] = ScIdle

ScValue == {<<>>} \cup {ScClean(f, b[f]) : b \in ScBodies \cup ScEnvs, f \in ScFields}
                  \cup {<<"callback">> \o ScClean("public_url", b["public_url"]) : b \in ScBodies \cup ScEnvs}

ScTypeOK ==
    /\ scEnv \in ScEnvs
    /\ scFile \in [ScFields -> ScValue]
    /\ scLive \in [ScFields -> ScValue]
    /\ \A t \in ScThreads : scReq[t].pc \in {"idle", "write", "apply"}
    /\ scPosts \in 0 .. ScMaxPosts /\ scBoots \in 0 .. ScMaxBoots
    /\ scMixed \in BOOLEAN /\ scBlanked \in BOOLEAN

(* What the operator sees is what a restart will give: unless two saves        *)
(* overlapped, whenever no save is in progress the live value of every setting *)
(* but the redirect URI is the one a new process derives from environment and  *)
(* file, failed writes and crashes included.                                   *)
ScRestartAgrees ==
    (ScQuiet /\ ~scMixed) =>
        \A f \in ScFields \ {"oidc_redirect_uri"} : scLive[f] = ScStartup(scEnv, scFile)[f]

(* No crash point leaves half a configuration on disk: at every moment, with   *)
(* overlapping saves as well, a process that starts now has authentication off *)
(* or has both the issuer and the secret, unless the environment itself sets   *)
(* the issuer (start-up does not ask whether it sets the secret as well).      *)
ScDurableIsComplete ==
    LET s == ScStartup(scEnv, scFile)
    IN  s["oidc_issuer"] # <<>> => s["oidc_client_secret"] # <<>> \/ scEnv["oidc_issuer"] # <<>>

(* Once authentication is on, no save, lost update or restart turns it off     *)
(* again (the server would go back to the setup wizard), unless an issuer of   *)
(* nothing but slashes was saved: the checks take it for a text, and what is   *)
(* stored of it is empty.                                                      *)
ScNeverDisabled == [][ScAuthEnabled /\ ~scBlanked' => ScAuthEnabled']_scVars

(* config.py:11-13: a save mutates the live settings "so no process restart is *)
(* needed": with no save in progress and no two saves overlapping, a restart   *)
(* would change nothing.                                                       *)
ScNoRestartNeeded ==
    (ScQuiet /\ ~scMixed) => scLive = ScStartup(scEnv, scFile)
=============================================================================
