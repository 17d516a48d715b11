-------------------------- MODULE Access_proofs --------------------------
(* Who gets in: setup, logins and sessions, the rate limiter.                  *)
EXTENDS SetupConfig, AuthSession, RateLimiter, DataLemmas, TLAPS

-----------------------------------------------------------------------------
(* What no save, crash or overlap of saves can do to the configuration, for    *)
(* any number of threads, saves and restarts, any environments and any bodies. *)
(* The two settings that turn authentication on.                               *)
ScKeys == {"oidc_issuer", "oidc_client_secret"}

(* The setting survives a restart.                                             *)
ScHas(f) == scEnv[f] # <<>> \/ scFile[f] # <<>>

(* What a save in progress promises, step by step: a locked field is not in it, *)
(* what it read is clean; the secret is safe if the environment leaves the     *)
(* issuer to the file, the issuer while no issuer of slashes was submitted.    *)
ScWriting(t) ==
    /\ DOMAIN scReq[t].read = ScFields /\ scReq[t].body \in ScBodies
    /\ scReq[t].fields \subseteq {f \in ScFields : scReq[t].body[f] # <<>> /\ scEnv[f] = <<>>}
    /\ \A f \in ScFields : scReq[t].read[f] # <<>> => ScClean(f, scReq[t].read[f]) # <<>>
    /\ scEnv["oidc_issuer"] = <<>> =>
          scEnv["oidc_client_secret"] # <<>> \/ scReq[t].read["oidc_client_secret"] # <<>>
             \/ "oidc_client_secret" \in scReq[t].fields
    /\ ~scBlanked =>
          /\ scEnv["oidc_issuer"] # <<>> \/ scReq[t].read["oidc_issuer"] # <<>>
                \/ "oidc_issuer" \in scReq[t].fields
          /\ ~ScBlanksIssuer(scReq[t].body)

ScApplying(t) ==
    /\ scReq[t] \in [pc : {"apply"}, body : ScBodies, todo : SUBSET ScFields]
    /\ scReq[t].body \in ScBodies
    /\ scReq[t].todo \subseteq {f \in ScFields : scReq[t].body[f] # <<>> /\ scEnv[f] = <<>>}
    /\ scEnv["oidc_issuer"] = <<>> => ScHas("oidc_client_secret")
    /\ ~scBlanked => ScHas("oidc_issuer") /\ ~ScBlanksIssuer(scReq[t].body)

(* The secret outlives the process whenever the issuer is the file's to give.  *)
ScSecretKept ==
    (scEnv["oidc_issuer"] = <<>> /\ \E f \in ScKeys : scLive[f] # <<>> \/ scFile[f] # <<>>) =>
        ScHas("oidc_client_secret")

(* The live issuer is the environment's, or, while no issuer of slashes was    *)
(* submitted, outlives the process.                                            *)
ScIssuerKept ==
    /\ scEnv["oidc_issuer"] # <<>> => scLive["oidc_issuer"] = ScClean("oidc_issuer", scEnv["oidc_issuer"])
    /\ ~scBlanked => (scLive["oidc_issuer"] # <<>> => ScHas("oidc_issuer"))

ScInv ==
    /\ scEnv \in ScEnvs
    /\ DOMAIN scFile = ScFields /\ DOMAIN scLive = ScFields /\ DOMAIN scReq = ScThreads
    /\ \A f \in ScFields : scFile[f] # <<>> => ScClean(f, scFile[f]) # <<>>
    /\ ScSecretKept /\ ScIssuerKept
    /\ \A t \in ScThreads : /\ scReq[t].pc \in {"idle", "write", "apply"}
                            /\ scReq[t].pc = "write" => ScWriting(t)
                            /\ scReq[t].pc = "apply" => ScApplying(t)

-----------------------------------------------------------------------------
LEMMA ScFieldNames ==
    /\ ScFields = {"oidc_issuer", "oidc_client_secret", "oidc_redirect_uri", "public_url"}
    /\ ScKeys \subseteq ScFields /\ "oidc_redirect_uri" \notin ScKeys
  BY DEF ScFields, ScFieldOrder, ScKeys

(* Where the last character of v that is not a slash is.                       *)
LEMMA ScLastText ==
    ASSUME NEW v \in Seq(STRING), NEW k, k = SelectLastInSeq(v, LAMBDA c : c # "/")
    PROVE  /\ k \in 0 .. Len(v) /\ (k # 0 => v[k] # "/")
           /\ \A i \in 1 .. Len(v) : i > k => v[i] = "/"
  <1> DEFINE I == {i \in 1 .. Len(v) : v[i] # "/"}
  <1>1. k = IF I # {} THEN Max(I) ELSE 0
    BY DEF SelectLastInSeq
  <1>2. I \in SUBSET Int /\ Len(v) \in Int /\ \A i \in I : i <= Len(v)
    OBVIOUS
  <1>3. CASE I = {}
    BY <1>1, <1>3
  <1>4. CASE I # {}
    <2>1. k \in I /\ \A i \in I : i <= k
      <3> HIDE DEF I
      <3> QED
        BY <1>1, <1>2, <1>4, IntGreatest
    <2> QED
      BY <2>1
  <1> QED
    BY <1>3, <1>4

(* rstrip: what is cleaned is clean.                                           *)
LEMMA ScCleanOnce ==
    ASSUME NEW f, NEW v \in Seq(STRING)
    PROVE  ScClean(f, v) \in Seq(STRING) /\ ScClean(f, ScClean(f, v)) = ScClean(f, v)
  <1>1. PICK k : k = SelectLastInSeq(v, LAMBDA c : c # "/")
    OBVIOUS
  <1>2. k \in 0 .. Len(v) /\ (k # 0 => v[k] # "/")
    BY <1>1, ScLastText
  <1>3. PICK w : w = SubSeq(v, 1, k)
    OBVIOUS
  <1>4. w \in Seq(STRING) /\ Len(w) = k /\ \A i \in 1 .. k : w[i] = v[i]
    BY <1>2, <1>3
  <1>5. PICK m : m = SelectLastInSeq(w, LAMBDA c : c # "/")
    OBVIOUS
  <1>6. m \in 0 .. Len(w) /\ \A i \in 1 .. Len(w) : i > m => w[i] = "/"
    BY <1>4, <1>5, ScLastText
  <1>7. m = k
    BY <1>2, <1>4, <1>6
  <1>8. SubSeq(w, 1, m) = w
    BY <1>4, <1>7, <1>2
  <1> QED
    BY <1>1, <1>3, <1>4, <1>5, <1>8 DEF ScClean

LEMMA ScCleanEmpty == \A f : ScClean(f, <<>>) = <<>>
  BY DEF ScClean

(* A setting that is no URL is stored as it is.                                *)
LEMMA ScCleanSecret == \A v : ScClean("oidc_client_secret", v) = v
  BY DEF ScClean, ScUrlFields

LEMMA ScTexts ==
    /\ \A e \in ScEnvs \cup ScBodies : DOMAIN e = ScFields
    /\ \A e \in ScEnvs \cup ScBodies, f \in ScFields :
          /\ e[f] \in Seq(STRING) /\ ScClean(f, e[f]) \in Seq(STRING)
          /\ ScClean(f, ScClean(f, e[f])) = ScClean(f, e[f])
  BY ScAssumption, ScCleanOnce

(* Deriving defaults touches the redirect URI only.                            *)
LEMMA ScDeriveKeeps ==
    ASSUME NEW s, DOMAIN s = ScFields
    PROVE  /\ DOMAIN ScDerive(s) = ScFields
           /\ \A f \in ScKeys : ScDerive(s)[f] = s[f]
  BY ScFieldNames DEF ScDerive

(* What a process that starts works with: the file's text if the environment   *)
(* leaves it the choice, and the environment's text if not.                    *)
LEMMA ScStartupKeys ==
    ASSUME NEW env \in ScEnvs, NEW file, DOMAIN file = ScFields
    PROVE  /\ DOMAIN ScStartup(env, file) = ScFields
           /\ \A f \in ScKeys : ScStartup(env, file)[f] =
                 IF env[f] = <<>> /\ file[f] # <<>> THEN ScClean(f, file[f]) ELSE ScClean(f, env[f])
  <1> DEFINE plain == [f \in ScFields |-> ScClean(f, env[f])]
             default == ScDerive(plain)
             merged == [f \in ScFields |->
                           IF env[f] = <<>> /\ file[f] # <<>> THEN ScClean(f, file[f]) ELSE default[f]]
  <1>1. \A f \in ScKeys : default[f] = ScClean(f, env[f])
    <2>1. \A f \in ScKeys : plain[f] = ScClean(f, env[f])
      BY ScFieldNames
    <2>2. DOMAIN plain = ScFields
      OBVIOUS
    <2> HIDE DEF plain
    <2> QED
      BY <2>1, <2>2, ScDeriveKeeps
  <1>2. \A f \in ScKeys : merged[f] =
            IF env[f] = <<>> /\ file[f] # <<>> THEN ScClean(f, file[f]) ELSE ScClean(f, env[f])
    BY <1>1, ScFieldNames
  <1>3. DOMAIN merged = ScFields /\ ScStartup(env, file) = ScDerive(merged)
    BY DEF ScStartup
  <1> HIDE DEF merged
  <1> QED
    BY <1>2, <1>3, ScDeriveKeeps

(* A process that starts on a file that is clean: it has the secret if the     *)
(* environment or the file has it, and the issuer if the file has it and the   *)
(* environment leaves it the choice.                                           *)
LEMMA ScStartupHas ==
    ASSUME NEW env \in ScEnvs, NEW file, DOMAIN file = ScFields,
           \A f \in ScFields : file[f] # <<>> => ScClean(f, file[f]) # <<>>
    PROVE  /\ ScStartup(env, file)["oidc_client_secret"] # <<>> <=>
                  (env["oidc_client_secret"] # <<>> \/ file["oidc_client_secret"] # <<>>)
           /\ env["oidc_issuer"] = <<>> =>
                  (ScStartup(env, file)["oidc_issuer"] # <<>> <=> file["oidc_issuer"] # <<>>)
           /\ env["oidc_issuer"] # <<>> =>
                  ScStartup(env, file)["oidc_issuer"] = ScClean("oidc_issuer", env["oidc_issuer"])
  BY ScStartupKeys, ScFieldNames, ScCleanSecret, ScCleanEmpty DEF ScKeys

LEMMA ScInitInv == ScInit => ScInv
  <1> SUFFICES ASSUME ScInit PROVE ScInv
    OBVIOUS
  <1>1. /\ scEnv \in ScEnvs /\ scFile = ScUnset /\ scLive = ScStartup(scEnv, scFile)
        /\ DOMAIN scFile = ScFields /\ \A f \in ScFields : scFile[f] = <<>>
    BY DEF ScInit, ScUnset
  <1>2. DOMAIN scLive = ScFields /\ ScSecretKept /\ ScIssuerKept
    BY <1>1, ScStartupKeys, ScStartupHas, ScFieldNames DEF ScSecretKept, ScIssuerKept, ScHas, ScKeys
  <1>3. DOMAIN scReq = ScThreads /\ \A t \in ScThreads : scReq[t].pc = "idle"
    BY DEF ScInit, ScIdle
  <1> QED
    BY <1>1, <1>2, <1>3 DEF ScInv

-----------------------------------------------------------------------------
(* A request that changes neither the file nor another request.                *)
LEMMA ScRequestStep ==
    ASSUME ScInv, NEW t \in ScThreads, UNCHANGED <<scEnv, scFile>>, DOMAIN scReq' = ScThreads,
           ~scBlanked' => ~scBlanked,
           \A u \in ScThreads : u # t => scReq'[u] = scReq[u],
           DOMAIN scLive' = ScFields, ScSecretKept', ScIssuerKept',
           scReq'[t].pc \in {"idle", "write", "apply"},
           scReq'[t].pc = "write" => ScWriting(t)', scReq'[t].pc = "apply" => ScApplying(t)'
    PROVE  ScInv'
  <1>1. \A f : ScHas(f)' <=> ScHas(f)
    BY DEF ScHas
  <1>2. \A u \in ScThreads : u # t => (ScWriting(u) => ScWriting(u)')
    BY DEF ScWriting
  <1>3. \A u \in ScThreads : u # t => (ScApplying(u) => ScApplying(u)')
    BY <1>1 DEF ScApplying
  <1> QED
    BY <1>1, <1>2, <1>3 DEF ScInv

LEMMA ScBeginKeeps ==
    ASSUME ScInv, NEW t \in ScThreads, NEW body \in ScBodies, ScBegin(t, body) PROVE ScInv'
  <1> DEFINE req == [pc |-> "write", body |-> body, read |-> scFile, fields |-> ScUpdate(body)]
  <1>1. /\ scReq' = [scReq EXCEPT ![t] = req] /\ ~ScMissing(body)
        /\ scBlanked' = (scBlanked \/ ScBlanksIssuer(body))
        /\ UNCHANGED <<scEnv, scFile, scLive, scBoots>>
    BY DEF ScBegin
  <1>2. scReq'[t] = req /\ DOMAIN scReq' = ScThreads /\ \A u \in ScThreads : u # t => scReq'[u] = scReq[u]
    BY <1>1 DEF ScInv
  <1>3. ~ScAuthEnabled => \A f \in ScKeys : f \in ScUpdate(body) \/ scLive[f] # <<>>
    BY <1>1 DEF ScMissing, ScKeys
  <1>4. scEnv["oidc_issuer"] = <<>> => "oidc_client_secret" \in ScUpdate(body) \/ ScHas("oidc_client_secret")
    BY <1>3 DEF ScInv, ScSecretKept, ScAuthEnabled, ScKeys
  <1>5. ~scBlanked => "oidc_issuer" \in ScUpdate(body) \/ ScHas("oidc_issuer")
    BY <1>3 DEF ScInv, ScIssuerKept, ScAuthEnabled, ScKeys
  <1>6. ScUpdate(body) \subseteq {f \in ScFields : body[f] # <<>> /\ scEnv[f] = <<>>}
    BY DEF ScUpdate, ScLocked
  <1>7. ScWriting(t)'
    <2>1. scReq'[t].read = scFile /\ scReq'[t].body = body /\ scReq'[t].fields = ScUpdate(body)
      BY <1>2
    <2> HIDE DEF req
    <2> QED
      BY <1>1, <2>1, <1>4, <1>5, <1>6 DEF ScWriting, ScInv, ScHas, ScBlanksIssuer
  <1>8. ScSecretKept' /\ ScIssuerKept' /\ (~scBlanked' => ~scBlanked) /\ DOMAIN scLive' = ScFields
    BY <1>1 DEF ScInv, ScSecretKept, ScIssuerKept, ScHas
  <1>9. scReq'[t].pc = "write"
    BY <1>2
  <1> QED
    BY <1>1, <1>2, <1>7, <1>8, <1>9, ScRequestStep

LEMMA ScWriteKeeps == ASSUME ScInv, NEW t \in ScThreads, ScWrite(t) PROVE ScInv'
  <1> DEFINE r == scReq[t]
             req == [pc |-> "apply", body |-> r.body, todo |-> r.fields]
  <1>1. /\ ScWriting(t)
        /\ scFile' = [f \in ScFields |-> IF f \in r.fields THEN ScClean(f, r.body[f]) ELSE r.read[f]]
        /\ scReq' = [scReq EXCEPT ![t] = req]
        /\ UNCHANGED <<scEnv, scLive, scBlanked>>
    BY DEF ScWrite, ScInv
  <1>2. scReq'[t] = req /\ DOMAIN scReq' = ScThreads /\ \A u \in ScThreads : u # t => scReq'[u] = scReq[u]
    BY <1>1 DEF ScInv
  <1>3. \A f \in ScFields : f \in r.fields => ScClean(f, ScClean(f, r.body[f])) = ScClean(f, r.body[f])
    BY <1>1, ScTexts DEF ScWriting
  <1>4. DOMAIN scFile' = ScFields /\ \A f \in ScFields : scFile'[f] # <<>> => ScClean(f, scFile'[f]) # <<>>
    BY <1>1, <1>3 DEF ScWriting
  <1>5. scEnv["oidc_issuer"] = <<>> => ScHas("oidc_client_secret")'
    <2>1. CASE "oidc_client_secret" \in r.fields
      <3>1. scFile'["oidc_client_secret"] = r.body["oidc_client_secret"] /\ r.body["oidc_client_secret"] # <<>>
        BY <1>1, <2>1, ScFieldNames, ScCleanSecret DEF ScWriting
      <3> QED
        BY <3>1 DEF ScHas
    <2>2. CASE "oidc_client_secret" \notin r.fields
      <3>1. scFile'["oidc_client_secret"] = r.read["oidc_client_secret"]
        BY <1>1, <2>2, ScFieldNames
      <3> QED
        BY <1>1, <2>2, <3>1 DEF ScWriting, ScHas
    <2> QED
      BY <2>1, <2>2
  <1>6. ~scBlanked => ScHas("oidc_issuer")'
    <2>1. CASE "oidc_issuer" \in r.fields
      <3>1. scFile'["oidc_issuer"] = ScClean("oidc_issuer", r.body["oidc_issuer"]) /\ r.body["oidc_issuer"] # <<>>
        BY <1>1, <2>1, ScFieldNames DEF ScWriting
      <3> QED
        BY <1>1, <3>1 DEF ScWriting, ScHas, ScBlanksIssuer
    <2>2. CASE "oidc_issuer" \notin r.fields
      <3>1. scFile'["oidc_issuer"] = r.read["oidc_issuer"]
        BY <1>1, <2>2, ScFieldNames
      <3> QED
        BY <1>1, <2>2, <3>1 DEF ScWriting, ScHas
    <2> QED
      BY <2>1, <2>2
  <1>7. scReq'[t].pc = "apply" /\ scReq'[t].body = r.body /\ scReq'[t].todo = r.fields
    BY <1>2
  <1>8. ScApplying(t)'
    <2>1. r.body \in ScBodies /\ r.fields \subseteq {f \in ScFields : r.body[f] # <<>> /\ scEnv[f] = <<>>}
      BY <1>1 DEF ScWriting
    <2>2. scReq'[t] \in [pc : {"apply"}, body : ScBodies, todo : SUBSET ScFields]
      BY <1>2, <2>1
    <2>3. ~scBlanked => ~ScBlanksIssuer(r.body)
      BY <1>1 DEF ScWriting
    <2> HIDE DEF r, req
    <2> QED
      BY <1>1, <1>5, <1>6, <1>7, <2>1, <2>2, <2>3 DEF ScApplying, ScBlanksIssuer
  <1>9. ASSUME NEW u \in ScThreads, u # t
        PROVE  (ScWriting(u) => ScWriting(u)') /\ (ScApplying(u) => ScApplying(u)')
    BY <1>1, <1>2, <1>5, <1>6, <1>9 DEF ScWriting, ScApplying
  <1>10. ScSecretKept' /\ ScIssuerKept'
    BY <1>1, <1>5, <1>6 DEF ScSecretKept, ScIssuerKept, ScInv
  <1> HIDE DEF r, req
  <1> QED
    BY <1>1, <1>2, <1>4, <1>7, <1>8, <1>9, <1>10 DEF ScInv

LEMMA ScWriteFailsKeeps == ASSUME ScInv, NEW t \in ScThreads, ScWriteFails(t) PROVE ScInv'
  <1>1. scReq' = [scReq EXCEPT ![t] = ScIdle] /\ UNCHANGED <<scEnv, scFile, scLive, scBlanked>>
    BY DEF ScWriteFails
  <1>2. /\ scReq'[t].pc = "idle" /\ DOMAIN scReq' = ScThreads
        /\ \A u \in ScThreads : u # t => scReq'[u] = scReq[u]
    BY <1>1 DEF ScInv, ScIdle
  <1>3. ScSecretKept' /\ ScIssuerKept' /\ DOMAIN scLive' = ScFields
    BY <1>1 DEF ScInv, ScSecretKept, ScIssuerKept, ScHas
  <1> QED
    BY <1>1, <1>2, <1>3, ScRequestStep

(* What one step of applying does to the key settings: each stays or becomes   *)
(* what the save has for it.                                                   *)
LEMMA ScApplyEffect ==
    ASSUME ScInv, NEW t \in ScThreads, ScApply(t)
    PROVE  /\ DOMAIN scLive' = ScFields /\ ScApplying(t)
           /\ \A f \in ScKeys :
                 scLive'[f] = scLive[f] \/ (/\ scReq[t].body[f] # <<>> /\ scEnv[f] = <<>>
                                            /\ scLive'[f] = ScClean(f, scReq[t].body[f]))
  <1>1. ScApplying(t)
    BY DEF ScApply, ScInv
  <1>2. CASE scLive' = ScDerive(scLive)
    BY <1>1, <1>2, ScDeriveKeeps DEF ScInv
  <1>3. ASSUME NEW g \in scReq[t].todo, scLive' = [scLive EXCEPT ![g] = ScClean(g, scReq[t].body[g])]
        PROVE  /\ DOMAIN scLive' = ScFields
               /\ \A f \in ScKeys :
                     scLive'[f] = scLive[f] \/ (/\ scReq[t].body[f] # <<>> /\ scEnv[f] = <<>>
                                                /\ scLive'[f] = ScClean(f, scReq[t].body[f]))
    <2>1. g \in ScFields /\ scReq[t].body[g] # <<>> /\ scEnv[g] = <<>>
      BY <1>1 DEF ScApplying
    <2> QED
      BY <1>3, <2>1 DEF ScInv
  <1> QED
    BY <1>1, <1>2, <1>3 DEF ScApply

LEMMA ScTodoShrinks ==
    ASSUME NEW r \in [pc : {"apply"}, body : ScBodies, todo : SUBSET ScFields], NEW f
    PROVE  [r EXCEPT !.todo = @ \ {f}] = [pc |-> "apply", body |-> r.body, todo |-> r.todo \ {f}]
  OBVIOUS

LEMMA ScApplyKeeps == ASSUME ScInv, NEW t \in ScThreads, ScApply(t) PROVE ScInv'
  <1>1. DOMAIN scLive' = ScFields /\ ScApplying(t) /\ UNCHANGED <<scEnv, scFile, scBlanked>>
    BY ScApplyEffect DEF ScApply
  <1>2. ScSecretKept'
    BY <1>1 DEF ScSecretKept, ScApplying, ScHas
  <1>3. ScIssuerKept'
    BY <1>1, ScApplyEffect DEF ScIssuerKept, ScApplying, ScHas, ScInv, ScKeys
  <1>4. CASE scReq' = [scReq EXCEPT ![t] = ScIdle]
    <2>1. /\ scReq'[t].pc = "idle" /\ DOMAIN scReq' = ScThreads
          /\ \A u \in ScThreads : u # t => scReq'[u] = scReq[u]
      BY <1>4 DEF ScInv, ScIdle
    <2> QED
      BY <1>1, <1>2, <1>3, <2>1, ScRequestStep
  <1>5. ASSUME NEW f \in scReq[t].todo, scReq' = [scReq EXCEPT ![t].todo = @ \ {f}]
        PROVE  ScInv'
    <2> DEFINE r == scReq[t]
               req == [pc |-> "apply", body |-> r.body, todo |-> r.todo \ {f}]
    <2>1. [r EXCEPT !.todo = @ \ {f}] = req
      BY <1>1, ScTodoShrinks DEF ScApplying
    <2>2. scReq' = [scReq EXCEPT ![t] = req]
      BY <1>5, <2>1
    <2>3. /\ scReq'[t] = req /\ DOMAIN scReq' = ScThreads
          /\ \A u \in ScThreads : u # t => scReq'[u] = scReq[u]
      BY <2>2 DEF ScInv
    <2>4. ScApplying(t)'
      BY <1>1, <2>3 DEF ScApplying, ScHas
    <2>5. scReq'[t].pc = "apply"
      BY <2>3
    <2> HIDE DEF req
    <2> QED
      BY <1>1, <1>2, <1>3, <2>3, <2>4, <2>5, ScRequestStep
  <1> QED
    BY <1>4, <1>5 DEF ScApply

LEMMA ScRestartKeeps == ASSUME ScInv, ScRestart PROVE ScInv'
  <1>1. /\ scLive' = ScStartup(scEnv, scFile) /\ scReq' = [t \in ScThreads |-> ScIdle]
        /\ UNCHANGED <<scEnv, scFile, scBlanked>>
    BY DEF ScRestart
  <1>2. DOMAIN scLive' = ScFields
    BY <1>1, ScStartupKeys DEF ScInv
  <1>3. ScSecretKept'
    <2> SUFFICES ASSUME scEnv["oidc_issuer"] = <<>>, NEW f \in ScKeys, scLive'[f] # <<>> \/ scFile[f] # <<>>
                 PROVE  ScHas("oidc_client_secret")
      BY <1>1 DEF ScSecretKept, ScHas
    <2>1. CASE scFile[f] # <<>>
      BY <2>1 DEF ScInv, ScSecretKept
    <2>2. CASE scLive'[f] # <<>>
      <3>1. CASE f = "oidc_issuer"
        BY <1>1, <2>1, <2>2, <3>1, ScStartupHas DEF ScInv
      <3>2. CASE f = "oidc_client_secret"
        BY <1>1, <2>2, <3>2, ScStartupHas DEF ScInv, ScHas
      <3> QED
        BY <3>1, <3>2 DEF ScKeys
    <2> QED
      BY <2>1, <2>2
  <1>4. ScIssuerKept'
    BY <1>1, ScStartupHas DEF ScInv, ScIssuerKept, ScHas
  <1>5. DOMAIN scReq' = ScThreads /\ \A t \in ScThreads : scReq'[t].pc = "idle"
    BY <1>1 DEF ScIdle
  <1> QED
    BY <1>1, <1>2, <1>3, <1>4, <1>5 DEF ScInv

LEMMA ScStepInv == ScInv /\ [ScNext]_scVars => ScInv'
  <1> SUFFICES ASSUME ScInv, [ScNext]_scVars PROVE ScInv'
    OBVIOUS
  <1>1. CASE ScRestart
    BY <1>1, ScRestartKeeps
  <1>2. ASSUME NEW t \in ScThreads, ScWrite(t) \/ ScWriteFails(t) \/ ScApply(t) PROVE ScInv'
    BY <1>2, ScWriteKeeps, ScWriteFailsKeeps, ScApplyKeeps
  <1>3. ASSUME NEW t \in ScThreads, NEW body \in ScBodies, ScBegin(t, body) PROVE ScInv'
    BY <1>3, ScBeginKeeps
  <1>4. CASE UNCHANGED scVars
    BY <1>4 DEF ScInv, ScSecretKept, ScIssuerKept, ScHas, ScWriting, ScApplying, scVars
  <1> QED
    BY <1>1, <1>2, <1>3, <1>4 DEF ScNext

LEMMA ScAlwaysInv == ScSpec => []ScInv
  BY ScInitInv, ScStepInv, PTL DEF ScSpec

-----------------------------------------------------------------------------
(* write_setup_file and the checks of save_configuration: whatever the saves   *)
(* that overlap and wherever the process dies, the process that starts next    *)
(* has authentication off or has the client secret as well, unless its issuer  *)
(* is the environment's.                                                       *)
THEOREM DurableIsComplete == ScSpec => []ScDurableIsComplete
  <1>1. ScInv => ScDurableIsComplete
    BY ScStartupHas DEF ScInv, ScDurableIsComplete, ScSecretKept, ScHas, ScKeys
  <1> QED
    BY <1>1, ScAlwaysInv, PTL

LEMMA ScStepKeepsEnabled ==
    ScInv /\ [ScNext]_scVars => [ScAuthEnabled /\ ~scBlanked' => ScAuthEnabled']_scVars
  <1> SUFFICES ASSUME ScInv, ScNext, ScAuthEnabled, ~scBlanked' PROVE ScAuthEnabled'
    OBVIOUS
  <1>1. CASE ScRestart
    BY <1>1, ScStartupHas DEF ScInv, ScIssuerKept, ScAuthEnabled, ScRestart, ScHas
  <1>2. ASSUME NEW t \in ScThreads, ScApply(t) PROVE ScAuthEnabled'
    <2>1. ScApplying(t) /\ ~scBlanked
      BY <1>2, ScApplyEffect DEF ScApply
    <2> QED
      BY <1>2, <2>1, ScApplyEffect DEF ScApplying, ScAuthEnabled, ScKeys, ScBlanksIssuer
  <1>3. ASSUME NEW t \in ScThreads, ScWrite(t) \/ ScWriteFails(t) PROVE ScAuthEnabled'
    BY <1>3 DEF ScWrite, ScWriteFails, ScAuthEnabled
  <1>4. ASSUME NEW t \in ScThreads, NEW body \in ScBodies, ScBegin(t, body) PROVE ScAuthEnabled'
    BY <1>4 DEF ScBegin, ScAuthEnabled
  <1> QED
    BY <1>1, <1>2, <1>3, <1>4 DEF ScNext

(* apply_persisted and apply_values: once the issuer is set, no save, no lost  *)
(* update and no restart takes the server back to the setup wizard, until an   *)
(* issuer of nothing but slashes is submitted.                                 *)
THEOREM NeverDisabled == ScSpec => ScNeverDisabled
  BY ScAlwaysInv, ScStepKeepsEnabled, PTL DEF ScSpec, ScNeverDisabled

-----------------------------------------------------------------------------
(* What the file and the live settings may hold, field by field, and what a    *)
(* save has still to apply.                                                    *)
ScTextsOf(f) == {<<>>} \cup {ScClean(f, b[f]) : b \in ScBodies \cup ScEnvs}
ScCallbacks == {<<"callback">> \o ScClean("public_url", b["public_url"]) : b \in ScBodies \cup ScEnvs}
ScLiveTexts(f) == ScTextsOf(f) \cup (IF f = "oidc_redirect_uri" THEN ScCallbacks ELSE {})

ScStored ==
    /\ scFile = [f \in ScFields |-> scFile[f]] /\ scLive = [f \in ScFields |-> scLive[f]]
    /\ \A f \in ScFields : scFile[f] \in ScTextsOf(f) /\ scLive[f] \in ScLiveTexts(f)
    /\ \A t \in ScThreads : scReq[t].pc = "write" => \A f \in ScFields : scReq[t].read[f] \in ScTextsOf(f)
    /\ scPosts \in 0 .. ScMaxPosts /\ scBoots \in 0 .. ScMaxBoots
    /\ scMixed \in BOOLEAN /\ scBlanked \in BOOLEAN

(* The value of a field other than the redirect URI in a process that starts.  *)
ScMerged(f) ==
    IF scEnv[f] = <<>> /\ scFile[f] # <<>> THEN ScClean(f, scFile[f]) ELSE ScClean(f, scEnv[f])

(* Until two saves overlap: the save in progress has read the file as it is,   *)
(* and the live settings differ from a restart's in what it has yet to apply.  *)
ScAlone ==
    ~scMixed =>
        /\ \A t, u \in ScThreads : scReq[t] # ScIdle /\ scReq[u] # ScIdle => t = u
        /\ \A t \in ScThreads :
              /\ scReq[t].pc = "write" =>
                    scReq[t].read = scFile /\ \A f \in scReq[t].fields : scEnv[f] = <<>>
              /\ scReq[t].pc = "apply" =>
                    \A f \in scReq[t].todo : scEnv[f] = <<>> /\ scFile[f] = ScClean(f, scReq[t].body[f])
        /\ \A f \in ScFields \ {"oidc_redirect_uri"} :
              (\A t \in ScThreads : scReq[t].pc = "apply" => f \notin scReq[t].todo) => scLive[f] = ScMerged(f)

(* Deriving defaults, field by field.                                          *)
LEMMA ScDeriveFields ==
    ASSUME NEW s, DOMAIN s = ScFields
    PROVE  /\ DOMAIN ScDerive(s) = ScFields
           /\ \A f \in ScFields \ {"oidc_redirect_uri"} : ScDerive(s)[f] = s[f]
           /\ ScDerive(s)["oidc_redirect_uri"] \in {s["oidc_redirect_uri"], <<"callback">> \o s["public_url"]}
           /\ s["public_url"] = <<>> => ScDerive(s) = s
           /\ s = [f \in ScFields |-> s[f]] => ScDerive(s) = [f \in ScFields |-> ScDerive(s)[f]]
  BY ScFieldNames DEF ScDerive

LEMMA ScDeriveTyped ==
    ASSUME NEW s, DOMAIN s = ScFields, \A f \in ScFields : s[f] \in ScLiveTexts(f)
    PROVE  \A f \in ScFields : ScDerive(s)[f] \in ScLiveTexts(f)
  <1>1. \A f \in ScFields \ {"oidc_redirect_uri"} : ScDerive(s)[f] \in ScLiveTexts(f)
    BY ScDeriveFields
  <1>2. CASE s["public_url"] = <<>>
    BY <1>2, ScDeriveFields
  <1>3. CASE s["public_url"] # <<>>
    <2>1. PICK b \in ScBodies \cup ScEnvs : s["public_url"] = ScClean("public_url", b["public_url"])
      BY <1>3, ScFieldNames DEF ScLiveTexts, ScTextsOf
    <2>2. <<"callback">> \o s["public_url"] \in ScLiveTexts("oidc_redirect_uri")
      BY <2>1 DEF ScLiveTexts, ScCallbacks
    <2> QED
      BY <1>1, <2>2, ScDeriveFields, ScFieldNames
  <1> QED
    BY <1>2, <1>3

(* What a process that starts works with, field by field.                      *)
LEMMA ScStartupFields ==
    ASSUME NEW env \in ScEnvs, NEW file, DOMAIN file = ScFields
    PROVE  /\ \A f \in ScFields \ {"oidc_redirect_uri"} : ScStartup(env, file)[f] =
                  IF env[f] = <<>> /\ file[f] # <<>> THEN ScClean(f, file[f]) ELSE ScClean(f, env[f])
           /\ (\A f \in ScFields : file[f] \in ScTextsOf(f)) =>
                  \A f \in ScFields : ScStartup(env, file)[f] \in ScLiveTexts(f)
           /\ ScStartup(env, file) = [f \in ScFields |-> ScStartup(env, file)[f]]
  <1>1. PICK plain : plain = [f \in ScFields |-> ScClean(f, env[f])]
    OBVIOUS
  <1>2. PICK default : default = ScDerive(plain)
    OBVIOUS
  <1>3. PICK merged : merged = [f \in ScFields |->
            IF env[f] = <<>> /\ file[f] # <<>> THEN ScClean(f, file[f]) ELSE default[f]]
    OBVIOUS
  <1>4. ScStartup(env, file) = ScDerive(merged)
    BY <1>1, <1>2, <1>3 DEF ScStartup
  <1>5. DOMAIN plain = ScFields /\ DOMAIN merged = ScFields
    BY <1>1, <1>3
  <1>6. \A f \in ScFields \ {"oidc_redirect_uri"} : default[f] = ScClean(f, env[f])
    BY <1>1, <1>2, <1>5, ScDeriveFields
  <1>7. \A f \in ScFields \ {"oidc_redirect_uri"} : ScStartup(env, file)[f] = merged[f]
    BY <1>4, <1>5, ScDeriveFields
  <1>8. ASSUME \A f \in ScFields : file[f] \in ScTextsOf(f)
        PROVE  \A f \in ScFields : ScStartup(env, file)[f] \in ScLiveTexts(f)
    <2>1. \A f \in ScFields : plain[f] \in ScLiveTexts(f)
      BY <1>1 DEF ScLiveTexts, ScTextsOf
    <2>2. \A f \in ScFields : default[f] \in ScLiveTexts(f)
      BY <1>2, <1>5, <2>1, ScDeriveTyped
    <2>3. \A f \in ScFields : file[f] # <<>> => ScClean(f, file[f]) \in ScLiveTexts(f)
      BY <1>8, ScTexts DEF ScLiveTexts, ScTextsOf
    <2>4. \A f \in ScFields : merged[f] \in ScLiveTexts(f)
      BY <1>3, <2>2, <2>3
    <2> QED
      BY <1>4, <1>5, <2>4, ScDeriveTyped
  <1>9. ScStartup(env, file) = [f \in ScFields |-> ScStartup(env, file)[f]]
    BY <1>3, <1>4, <1>5, ScDeriveFields
  <1> QED
    BY <1>3, <1>6, <1>7, <1>8, <1>9

LEMMA ScBounds == ScMaxPosts \in Nat /\ ScMaxBoots \in Nat
  BY ScAssumption

LEMMA ScInitStored == ScInit => ScStored /\ ScAlone
  <1> SUFFICES ASSUME ScInit PROVE ScStored /\ ScAlone
    OBVIOUS
  <1>1. DOMAIN ScUnset = ScFields /\ \A f \in ScFields : ScUnset[f] = <<>> /\ ScUnset[f] \in ScTextsOf(f)
    BY DEF ScUnset, ScTextsOf
  <1>2. \A t \in ScThreads : scReq[t] = ScIdle /\ ScIdle.pc = "idle"
    BY DEF ScInit, ScIdle
  <1>3. /\ \A f \in ScFields : scLive[f] \in ScLiveTexts(f)
        /\ \A f \in ScFields \ {"oidc_redirect_uri"} : scLive[f] = ScMerged(f)
    <2>1. scEnv \in ScEnvs /\ scFile = ScUnset /\ scLive = ScStartup(scEnv, scFile)
      BY DEF ScInit
    <2>2. DOMAIN scFile = ScFields /\ \A f \in ScFields : scFile[f] \in ScTextsOf(f)
      BY <1>1, <2>1
    <2>3. \A f \in ScFields : scLive[f] \in ScLiveTexts(f)
      BY <2>1, <2>2, ScStartupFields
    <2>4. \A f \in ScFields \ {"oidc_redirect_uri"} : scLive[f] = ScMerged(f)
      BY <2>1, <2>2, ScStartupFields DEF ScMerged
    <2> QED
      BY <2>3, <2>4
  <1>4. /\ scPosts \in 0 .. ScMaxPosts /\ scBoots \in 0 .. ScMaxBoots
        /\ scMixed \in BOOLEAN /\ scBlanked \in BOOLEAN
    <2>1. scPosts = 0 /\ scBoots = 0
      BY DEF ScInit
    <2>2. scMixed \in BOOLEAN /\ scBlanked \in BOOLEAN
      BY DEF ScInit
    <2> QED
      BY <2>1, <2>2, ScBounds
  <1>5. \A f \in ScFields : scFile[f] \in ScTextsOf(f)
    BY <1>1 DEF ScInit
  <1>6. scFile = [f \in ScFields |-> scFile[f]] /\ scLive = [f \in ScFields |-> scLive[f]]
    <2>1. scEnv \in ScEnvs /\ scFile = ScUnset /\ scLive = ScStartup(scEnv, scFile)
      BY DEF ScInit
    <2> QED
      BY <1>1, <2>1, ScStartupFields DEF ScUnset
  <1> QED
    BY <1>2, <1>3, <1>4, <1>5, <1>6 DEF ScStored, ScAlone

(* One request goes on or ends; neither the file nor another request changes.  *)
LEMMA ScRequestAlone ==
    ASSUME ScAlone, NEW t \in ScThreads, UNCHANGED <<scEnv, scFile>>, scMixed' \in BOOLEAN,
           ~scMixed' => ~scMixed /\ \A u \in ScThreads : u # t => scReq[u] = ScIdle,
           \A u \in ScThreads : u # t => scReq'[u] = scReq[u],
           scReq'[t].pc = "write" =>
               scReq'[t].read = scFile /\ \A f \in scReq'[t].fields : scEnv[f] = <<>>,
           scReq'[t].pc = "apply" =>
               \A f \in scReq'[t].todo : scEnv[f] = <<>> /\ scFile[f] = ScClean(f, scReq'[t].body[f]),
           \A f \in ScFields \ {"oidc_redirect_uri"} :
               (scReq'[t].pc = "apply" => f \notin scReq'[t].todo) => scLive'[f] = ScMerged(f)
    PROVE  ScAlone'
  <1>1. \A f : ScMerged(f)' = ScMerged(f)
    BY DEF ScMerged
  <1>2. ScIdle.pc = "idle"
    BY DEF ScIdle
  <1> QED
    BY <1>1, <1>2 DEF ScAlone

LEMMA ScBeginStored ==
    ASSUME ScInv, ScStored, ScAlone, NEW t \in ScThreads, NEW body \in ScBodies, ScBegin(t, body)
    PROVE  ScStored' /\ ScAlone'
  <1> DEFINE req == [pc |-> "write", body |-> body, read |-> scFile, fields |-> ScUpdate(body)]
  <1>1. /\ scReq' = [scReq EXCEPT ![t] = req] /\ scReq[t] = ScIdle
        /\ scPosts < ScMaxPosts /\ scPosts' = scPosts + 1
        /\ scMixed' = (scMixed \/ \E u \in ScThreads \ {t} : scReq[u] # ScIdle)
        /\ scBlanked' = (scBlanked \/ ScBlanksIssuer(body))
        /\ UNCHANGED <<scEnv, scFile, scLive, scBoots>>
    BY DEF ScBegin
  <1>2. scReq'[t] = req /\ \A u \in ScThreads : u # t => scReq'[u] = scReq[u]
    BY <1>1 DEF ScInv
  <1>3. scPosts' \in 0 .. ScMaxPosts /\ scMixed' \in BOOLEAN /\ scBlanked' \in BOOLEAN
    BY <1>1, ScBounds DEF ScStored, ScBlanksIssuer
  <1>4. ScStored'
    BY <1>1, <1>2, <1>3 DEF ScStored
  <1>5. \A f \in scReq'[t].fields : scEnv[f] = <<>>
    BY <1>2 DEF ScUpdate, ScLocked
  <1>6. ~scMixed' => ~scMixed /\ \A u \in ScThreads : scReq[u] = ScIdle
    BY <1>1
  <1>7. \A f \in ScFields \ {"oidc_redirect_uri"} : ~scMixed' => scLive'[f] = ScMerged(f)
    BY <1>1, <1>6 DEF ScAlone, ScIdle
  <1>8. scReq'[t].pc = "write" /\ scReq'[t].read = scFile
    BY <1>2
  <1> HIDE DEF req
  <1>9. CASE scMixed'
    BY <1>4, <1>9 DEF ScAlone
  <1>10. CASE ~scMixed'
    BY <1>1, <1>2, <1>3, <1>4, <1>5, <1>6, <1>7, <1>8, <1>10, ScRequestAlone
  <1> QED
    BY <1>4, <1>9, <1>10

LEMMA ScWriteStored ==
    ASSUME ScInv, ScStored, ScAlone, NEW t \in ScThreads, ScWrite(t)
    PROVE  ScStored' /\ ScAlone'
  <1> DEFINE r == scReq[t]
             req == [pc |-> "apply", body |-> r.body, todo |-> r.fields]
  <1>1. /\ ScWriting(t) /\ r.pc = "write"
        /\ scFile' = [f \in ScFields |-> IF f \in r.fields THEN ScClean(f, r.body[f]) ELSE r.read[f]]
        /\ scReq' = [scReq EXCEPT ![t] = req]
        /\ UNCHANGED <<scEnv, scLive, scPosts, scBoots, scMixed, scBlanked>>
    BY DEF ScWrite, ScInv
  <1>2. scReq'[t] = req /\ \A u \in ScThreads : u # t => scReq'[u] = scReq[u]
    BY <1>1 DEF ScInv
  <1>3. \A f \in ScFields : scFile'[f] \in ScTextsOf(f)
    BY <1>1 DEF ScWriting, ScStored, ScTextsOf
  <1>4. ScStored'
    BY <1>1, <1>2, <1>3 DEF ScStored
  <1>5. CASE ~scMixed
    <2>1. /\ \A u \in ScThreads : u # t => scReq[u] = ScIdle
          /\ r.read = scFile /\ \A f \in r.fields : scEnv[f] = <<>>
      BY <1>1, <1>5 DEF ScAlone, ScIdle
    <2>2. \A f \in r.fields : f \in ScFields /\ scFile'[f] = ScClean(f, r.body[f])
      BY <1>1 DEF ScWriting
    <2>3. \A f \in ScFields : f \notin r.fields => scFile'[f] = scFile[f] /\ ScMerged(f)' = ScMerged(f)
      BY <1>1, <2>1 DEF ScMerged
    <2>4. \A f \in ScFields \ {"oidc_redirect_uri"} : scLive[f] = ScMerged(f)
      BY <1>1, <1>5, <2>1 DEF ScAlone, ScIdle
    <2>5. /\ \A u, v \in ScThreads : scReq'[u] # ScIdle /\ scReq'[v] # ScIdle => u = v
          /\ \A u \in ScThreads : u # t => scReq'[u].pc = "idle"
      BY <1>2, <2>1 DEF ScIdle
    <2>6. scReq'[t].pc = "apply" /\ scReq'[t].body = r.body /\ scReq'[t].todo = r.fields
      BY <1>2
    <2>7. \A f \in ScFields \ {"oidc_redirect_uri"} :
              f \notin scReq'[t].todo => scLive'[f] = ScMerged(f)'
      BY <1>1, <2>3, <2>4, <2>6
    <2>8. \A f \in scReq'[t].todo : scEnv'[f] = <<>> /\ scFile'[f] = ScClean(f, scReq'[t].body[f])
      BY <1>1, <2>1, <2>2, <2>6
    <2> HIDE DEF r, req
    <2> QED
      BY <1>4, <2>5, <2>6, <2>7, <2>8 DEF ScAlone
  <1> QED
    BY <1>1, <1>4, <1>5 DEF ScAlone

LEMMA ScWriteFailsStored ==
    ASSUME ScInv, ScStored, ScAlone, NEW t \in ScThreads, ScWriteFails(t)
    PROVE  ScStored' /\ ScAlone'
  <1>1. /\ scReq' = [scReq EXCEPT ![t] = ScIdle] /\ scReq[t].pc = "write"
        /\ UNCHANGED <<scEnv, scFile, scLive, scPosts, scBoots, scMixed, scBlanked>>
    BY DEF ScWriteFails
  <1>2. scReq'[t].pc = "idle" /\ \A u \in ScThreads : u # t => scReq'[u] = scReq[u]
    BY <1>1 DEF ScInv, ScIdle
  <1>3. ScStored'
    BY <1>1, <1>2 DEF ScStored
  <1>4. ~scMixed => /\ \A u \in ScThreads : u # t => scReq[u] = ScIdle
                    /\ \A f \in ScFields \ {"oidc_redirect_uri"} : scLive[f] = ScMerged(f)
    BY <1>1 DEF ScAlone, ScIdle
  <1>5. CASE scMixed
    BY <1>1, <1>3, <1>5 DEF ScAlone
  <1>6. CASE ~scMixed
    BY <1>1, <1>2, <1>3, <1>4, <1>6, ScRequestAlone DEF ScStored
  <1> QED
    BY <1>3, <1>5, <1>6

LEMMA ScRestartStored ==
    ASSUME ScInv, ScStored, ScAlone, ScRestart
    PROVE  ScStored' /\ ScAlone'
  <1>1. /\ scBoots < ScMaxBoots /\ scBoots' = scBoots + 1
        /\ scLive' = ScStartup(scEnv, scFile)
        /\ scReq' = [t \in ScThreads |-> ScIdle]
        /\ UNCHANGED <<scEnv, scFile, scPosts, scMixed, scBlanked>>
    BY DEF ScRestart
  <1>2. \A t \in ScThreads : scReq'[t] = ScIdle /\ scReq'[t].pc = "idle"
    BY <1>1 DEF ScIdle
  <1>3. scBoots' \in 0 .. ScMaxBoots
    BY <1>1, ScBounds DEF ScStored
  <1>4. \A f \in ScFields : scLive'[f] \in ScLiveTexts(f)
    BY <1>1, ScStartupFields DEF ScInv, ScStored
  <1>5. \A f \in ScFields \ {"oidc_redirect_uri"} : scLive'[f] = ScMerged(f)'
    BY <1>1, ScStartupFields DEF ScInv, ScMerged
  <1>6. scLive' = [f \in ScFields |-> scLive'[f]]
    BY <1>1, ScStartupFields DEF ScInv
  <1> QED
    BY <1>1, <1>2, <1>3, <1>4, <1>5, <1>6 DEF ScStored, ScAlone

LEMMA ScApplyStored ==
    ASSUME ScInv, ScStored, ScAlone, NEW t \in ScThreads, ScApply(t)
    PROVE  ScStored' /\ ScAlone'
  <1>1. /\ ScApplying(t) /\ scReq[t].pc = "apply"
        /\ UNCHANGED <<scEnv, scFile, scPosts, scBoots, scMixed, scBlanked>>
    BY DEF ScApply, ScInv
  <1>2. ~scMixed => \A u \in ScThreads : u # t => scReq[u] = ScIdle
    BY <1>1 DEF ScAlone, ScIdle
  <1>3. ~scMixed => \A f \in ScFields \ {"oidc_redirect_uri"} :
                        f \notin scReq[t].todo => scLive[f] = ScMerged(f)
    BY <1>1, <1>2 DEF ScAlone, ScIdle
  <1>4. CASE scReq[t].todo = {} /\ scLive' = ScDerive(scLive) /\ scReq' = [scReq EXCEPT ![t] = ScIdle]
    <2>1. scReq'[t].pc = "idle" /\ \A u \in ScThreads : u # t => scReq'[u] = scReq[u]
      BY <1>4 DEF ScInv, ScIdle
    <2>2. \A f \in ScFields : scLive'[f] \in ScLiveTexts(f)
      BY <1>4, ScDeriveTyped DEF ScInv, ScStored
    <2>3. ScStored'
      <3>1. scLive' = [f \in ScFields |-> scLive'[f]]
        BY <1>4, ScDeriveFields DEF ScInv, ScStored
      <3> QED
        BY <1>1, <2>1, <2>2, <3>1 DEF ScStored
    <2>4. \A f \in ScFields \ {"oidc_redirect_uri"} : scLive'[f] = scLive[f]
      BY <1>4, ScDeriveFields DEF ScInv
    <2>5. CASE scMixed
      BY <1>1, <2>3, <2>5 DEF ScAlone
    <2>6. CASE ~scMixed
      BY <1>1, <1>2, <1>3, <1>4, <2>1, <2>3, <2>4, <2>6, ScRequestAlone DEF ScStored
    <2> QED
      BY <2>3, <2>5, <2>6
  <1>5. ASSUME NEW g \in scReq[t].todo, scLive' = [scLive EXCEPT ![g] = ScClean(g, scReq[t].body[g])],
               scReq' = [scReq EXCEPT ![t].todo = @ \ {g}]
        PROVE  ScStored' /\ ScAlone'
    <2>1. PICK req : req = [pc |-> "apply", body |-> scReq[t].body, todo |-> scReq[t].todo \ {g}]
      OBVIOUS
    <2>2. scReq' = [scReq EXCEPT ![t] = req]
      BY <1>1, <1>5, <2>1, ScTodoShrinks DEF ScApplying
    <2>3. scReq'[t] = req /\ \A u \in ScThreads : u # t => scReq'[u] = scReq[u]
      BY <2>2 DEF ScInv
    <2>4. scReq'[t].pc = "apply" /\ scReq'[t].body = scReq[t].body /\ scReq'[t].todo = scReq[t].todo \ {g}
      BY <2>1, <2>3
    <2>5. /\ g \in ScFields /\ scReq[t].body \in ScBodies
          /\ scReq[t].body[g] # <<>>
      BY <1>1 DEF ScApplying
    <2>6. scLive'[g] = ScClean(g, scReq[t].body[g]) /\ \A f \in ScFields : f # g => scLive'[f] = scLive[f]
      BY <1>5, <2>5 DEF ScInv
    <2>7. scLive'[g] \in ScLiveTexts(g)
      BY <2>5, <2>6 DEF ScLiveTexts, ScTextsOf
    <2>8. ScStored'
      <3>1. scLive' = [f \in ScFields |-> scLive'[f]]
        BY <1>5, <2>5 DEF ScStored
      <3>2. \A f \in ScFields : scLive'[f] \in ScLiveTexts(f)
        BY <2>6, <2>7 DEF ScStored
      <3> QED
        BY <1>1, <2>3, <2>4, <3>1, <3>2 DEF ScStored
    <2>9. CASE scMixed
      BY <1>1, <2>8, <2>9 DEF ScAlone
    <2>10. CASE ~scMixed
      <3>1. \A f \in scReq[t].todo : scEnv[f] = <<>> /\ scFile[f] = ScClean(f, scReq[t].body[f])
        BY <1>1, <2>10 DEF ScAlone
      <3>2. scLive'[g] = ScMerged(g)
        BY <2>5, <2>6, <3>1, ScTexts, ScCleanEmpty DEF ScMerged
      <3>3. \A f \in ScFields \ {"oidc_redirect_uri"} : f \notin scReq'[t].todo => scLive'[f] = ScMerged(f)
        BY <1>3, <2>4, <2>6, <2>10, <3>2
      <3> QED
        <4>1. scMixed' \in BOOLEAN
          BY <1>1 DEF ScStored
        <4>2. /\ scReq'[t].pc # "write"
              /\ \A f \in scReq'[t].todo : scEnv[f] = <<>> /\ scFile[f] = ScClean(f, scReq'[t].body[f])
          BY <2>4, <3>1
        <4>3. ~scMixed' => ~scMixed /\ \A u \in ScThreads : u # t => scReq[u] = ScIdle
          BY <1>1, <1>2
        <4>4. ScAlone'
          BY <1>1, <2>3, <2>4, <3>3, <4>1, <4>2, <4>3, ScRequestAlone
        <4> QED
          BY <2>8, <4>4
    <2> QED
      BY <2>8, <2>9, <2>10
  <1> QED
    BY <1>4, <1>5 DEF ScApply

LEMMA ScStepStored == ScInv /\ ScStored /\ ScAlone /\ [ScNext]_scVars => ScStored' /\ ScAlone'
  <1> SUFFICES ASSUME ScInv, ScStored, ScAlone, [ScNext]_scVars PROVE ScStored' /\ ScAlone'
    OBVIOUS
  <1>1. CASE ScRestart
    BY <1>1, ScRestartStored
  <1>2. ASSUME NEW t \in ScThreads, ScWrite(t) \/ ScWriteFails(t) \/ ScApply(t)
        PROVE  ScStored' /\ ScAlone'
    BY <1>2, ScWriteStored, ScWriteFailsStored, ScApplyStored
  <1>3. ASSUME NEW t \in ScThreads, NEW body \in ScBodies, ScBegin(t, body)
        PROVE  ScStored' /\ ScAlone'
    BY <1>3, ScBeginStored
  <1>4. CASE UNCHANGED scVars
    BY <1>4 DEF ScStored, ScAlone, ScMerged, scVars
  <1> QED
    BY <1>1, <1>2, <1>3, <1>4 DEF ScNext

LEMMA ScAlwaysStored == ScSpec => [](ScInv /\ ScStored /\ ScAlone)
  BY ScInitInv, ScStepInv, ScInitStored, ScStepStored, PTL DEF ScSpec

(* persist_setup and apply_values: with no save in progress, and as long as no *)
(* two saves overlapped, the live settings (the redirect URI apart) are those  *)
(* of a process that starts on this environment and this file.                 *)
THEOREM RestartAgrees == ScSpec => []ScRestartAgrees
  <1>1. ScInv /\ ScAlone => ScRestartAgrees
    <2> SUFFICES ASSUME ScInv, ScAlone, ScQuiet, ~scMixed, NEW f \in ScFields \ {"oidc_redirect_uri"}
                 PROVE  scLive[f] = ScStartup(scEnv, scFile)[f]
      BY DEF ScRestartAgrees
    <2>1. scLive[f] = ScMerged(f)
      BY DEF ScAlone, ScQuiet, ScIdle
    <2> QED
      BY <2>1, ScStartupFields DEF ScInv, ScMerged
  <1> QED
    BY <1>1, ScAlwaysStored, PTL

(* The file and the live settings only ever hold texts that were configured,   *)
(* cleaned, or a callback URL derived from one.                                *)
THEOREM SetupTyped == ScSpec => []ScTypeOK
  <1>1. ScInv /\ ScStored => ScTypeOK
    <2> SUFFICES ASSUME ScInv, ScStored PROVE ScTypeOK
      OBVIOUS
    <2>1. \A f \in ScFields : ScTextsOf(f) \subseteq ScValue /\ ScLiveTexts(f) \subseteq ScValue
      BY DEF ScTextsOf, ScLiveTexts, ScCallbacks, ScValue
    <2>2. \A f \in ScFields : scFile[f] \in ScValue /\ scLive[f] \in ScValue
      BY <2>1 DEF ScStored
    <2> QED
      BY <2>2 DEF ScInv, ScStored, ScTypeOK
  <1> QED
    BY <1>1, ScAlwaysStored, PTL

-----------------------------------------------------------------------------
(* What holds of logins and sessions, for any number of tabs, logins, key      *)
(* rotations and configurations, and for any lifetimes.                        *)
AsLoading == [pc : {"metadata"}, conf : AsConfs]
AsWaiting == [pc : {"provider"}, id : Nat, conf : AsConfs]
AsExchanging == [pc : {"exchange"}, id : Nat, conf : AsConfs, client : AsConfs,
                 nonce : Nat, latest : Nat]
AsTokens == [key : Nat, issued : Nat, exp : Nat, nonce : Nat, member : BOOLEAN]
AsVerifying == [pc : {"verify"}, id : Nat, client : AsConfs, nonce : Nat, latest : Nat,
                token : AsTokens]
AsVerdicts == [why : {"ok", "unknown_key", "expired", "nonce"}, id : Nat, at : Nat, latest : Nat,
               stale : BOOLEAN, since : Nat]

AsTyped ==
    /\ asClock \in Nat \ {0} /\ asConf \in AsConfs /\ asLeft \in Nat /\ asLogins \in Nat
    /\ asKey \in [AsConfs -> [number : Nat \ {0}, since : Nat]]
    /\ asJwks \in [AsConfs -> [number : Nat, at : Nat]]
    /\ asHandshake \in {AsNone} \cup [id : Nat, until : Nat]
    /\ asTab \in [AsTabs -> {AsIdle} \cup AsLoading \cup AsWaiting \cup AsExchanging \cup AsVerifying]
    /\ asRows \in SUBSET [id : Nat, member : BOOLEAN, until : Nat]

(* The handshake cookie is that of the last login, and so is a callback that   *)
(* passed it at that time.                                                     *)
AsLatest ==
    /\ asHandshake # AsNone => asHandshake.id = asLogins
    /\ \A b \in AsTabs : asTab[b].pc \in {"exchange", "verify"} => asTab[b].id = asTab[b].latest

(* Keys that are not the provider's own were fetched, or signed with, before   *)
(* its last rotation.                                                          *)
AsKeysAge ==
    /\ \A c \in AsConfs :
          asJwks[c].number \notin {0, asKey[c].number} => asJwks[c].at <= asKey[c].since
    /\ \A b \in AsTabs :
          (asTab[b].pc = "verify" /\ asTab[b].token.key # asKey[asTab[b].client].number) =>
              asTab[b].token.issued <= asKey[asTab[b].client].since

(* Nothing was fetched or issued in the future.                                *)
AsPast ==
    /\ \A c \in AsConfs : asJwks[c].at <= asClock
    /\ \A b \in AsTabs : asTab[b].pc = "verify" => asTab[b].token.issued <= asClock

(* The last moment the user was seen to be a member.                           *)
AsLastSeen == IF asLeft = 0 THEN asClock ELSE asLeft

AsMembersAge ==
    /\ \A b \in AsTabs :
          (asTab[b].pc = "verify" /\ asTab[b].token.member) =>
              asTab[b].token.exp <= AsLastSeen + AsTokenTtl
    /\ \A row \in asRows :
          row.member => row.until <= AsLastSeen + AsTokenTtl + AsLeeway + AsSessionTtl

AsInv == AsTyped /\ AsLatest /\ AsKeysAge /\ AsMembersAge /\ AsSessionOfLastLogin /\ AsRotationHeals

-----------------------------------------------------------------------------
(* The fields a tab has at each point.                                         *)
LEMMA AsTabFields ==
    ASSUME AsTyped, NEW b \in AsTabs
    PROVE  /\ asTab[b].pc \in {"idle", "metadata", "provider", "exchange", "verify"}
           /\ asTab[b].pc = "metadata" => asTab[b] \in AsLoading
           /\ asTab[b].pc = "provider" => asTab[b] \in AsWaiting
           /\ asTab[b].pc = "exchange" => asTab[b] \in AsExchanging
           /\ asTab[b].pc = "verify" => asTab[b] \in AsVerifying
  BY DEF AsTyped, AsIdle, AsLoading, AsWaiting, AsExchanging, AsVerifying

LEMMA AsNats ==
    /\ AsHandshakeTtl \in Nat /\ AsJwksTtl \in Nat /\ AsTokenTtl \in Nat
    /\ AsLeeway \in Nat /\ AsSessionTtl \in Nat
    /\ 1 \in AsConfs
  BY AsAssumption DEF AsConfs

LEMMA AsInitInv == AsInit => AsInv
  <1> SUFFICES ASSUME AsInit PROVE AsInv
    OBVIOUS
  <1>1. \A b \in AsTabs : asTab[b].pc = "idle"
    BY DEF AsInit, AsIdle
  <1>2. AsTyped
    BY AsNats DEF AsInit, AsTyped, AsNoKeys
  <1>3. AsLatest /\ AsMembersAge /\ AsSessionOfLastLogin /\ AsRotationHeals
    BY <1>1 DEF AsInit, AsLatest, AsMembersAge, AsSessionOfLastLogin, AsRotationHeals
  <1>4. AsKeysAge
    BY <1>1 DEF AsInit, AsKeysAge, AsNoKeys
  <1> QED
    BY <1>2, <1>3, <1>4 DEF AsInv

(* What a step of one tab must do: its own part of the invariant.              *)
LEMMA AsTabStep ==
    ASSUME AsInv, NEW b \in AsTabs,
           NEW tab \in {AsIdle} \cup AsLoading \cup AsWaiting \cup AsExchanging \cup AsVerifying,
           asTab' = [asTab EXCEPT ![b] = tab],
           tab.pc \in {"exchange", "verify"} => tab.id = tab.latest,
           tab.pc = "verify" =>
              /\ tab.token.key # asKey[tab.client].number => tab.token.issued <= asKey[tab.client].since
              /\ tab.token.member => tab.token.exp <= AsLastSeen + AsTokenTtl,
           asHandshake' \in {AsNone} \cup [id : Nat, until : Nat],
           asLogins' \in Nat, asHandshake' # AsNone => asHandshake'.id = asLogins',
           UNCHANGED <<asClock, asConf, asKey, asLeft, asJwks, asRows, asDone, asSession>>
    PROVE  AsInv'
  <1>1. asTab'[b] = tab /\ \A c \in AsTabs : c # b => asTab'[c] = asTab[c]
    BY DEF AsInv, AsTyped
  <1>2. AsTyped'
    BY DEF AsInv, AsTyped
  <1>3. AsLatest'
    BY <1>1 DEF AsInv, AsLatest
  <1>4. AsKeysAge'
    BY <1>1 DEF AsInv, AsKeysAge
  <1>5. AsMembersAge'
    BY <1>1 DEF AsInv, AsMembersAge, AsLastSeen
  <1> QED
    BY <1>2, <1>3, <1>4, <1>5 DEF AsInv, AsSessionOfLastLogin, AsRotationHeals

LEMMA AsLoginKeeps == ASSUME AsInv, NEW b \in AsTabs, AsLogin(b) PROVE AsInv'
  <1> DEFINE tab == [pc |-> "metadata", conf |-> asConf]
  <1>1. tab \in AsLoading /\ tab.pc = "metadata"
    BY DEF AsInv, AsTyped, AsLoading
  <1>2. /\ asTab' = [asTab EXCEPT ![b] = tab] /\ asLogins \in Nat
        /\ asHandshake \in {AsNone} \cup [id : Nat, until : Nat]
        /\ asHandshake # AsNone => asHandshake.id = asLogins
        /\ UNCHANGED <<asClock, asConf, asKey, asLeft, asJwks, asRows, asDone, asSession, asHandshake, asLogins>>
    BY DEF AsLogin, AsInv, AsTyped, AsLatest
  <1> HIDE DEF tab
  <1> QED
    BY <1>1, <1>2, AsTabStep

LEMMA AsRedirectKeeps == ASSUME AsInv, NEW b \in AsTabs, AsRedirect(b) PROVE AsInv'
  <1> DEFINE tab == [pc |-> "provider", id |-> asLogins + 1, conf |-> asTab[b].conf]
             cookie == [id |-> asLogins + 1, until |-> asClock + AsHandshakeTtl]
  <1>1. asTab[b] \in AsLoading
    BY AsTabFields DEF AsRedirect, AsInv
  <1>2. tab \in AsWaiting /\ cookie \in [id : Nat, until : Nat]
    BY <1>1, AsNats DEF AsInv, AsTyped, AsLoading, AsWaiting
  <1>3. /\ asTab' = [asTab EXCEPT ![b] = tab] /\ asHandshake' = cookie /\ asLogins' = asLogins + 1
        /\ UNCHANGED <<asClock, asConf, asKey, asLeft, asJwks, asRows, asDone, asSession>>
    BY DEF AsRedirect, AsSetHandshake
  <1>4. asLogins' \in Nat /\ asHandshake'.id = asLogins' /\ tab.pc = "provider"
    BY <1>3 DEF AsInv, AsTyped
  <1>5. asHandshake' \in {AsNone} \cup [id : Nat, until : Nat]
    BY <1>2, <1>3
  <1> HIDE DEF tab, cookie
  <1> QED
    BY <1>2, <1>3, <1>4, <1>5, AsTabStep

LEMMA AsCallbackKeeps == ASSUME AsInv, NEW b \in AsTabs, AsCallback(b) PROVE AsInv'
  <1> DEFINE tab == [pc |-> "exchange", id |-> asTab[b].id, conf |-> asTab[b].conf,
                     client |-> asConf, nonce |-> asHandshake.id, latest |-> asLogins]
  <1>1. /\ asTab[b] \in AsWaiting /\ asLogins \in Nat
        /\ asHandshake \in {AsNone} \cup [id : Nat, until : Nat]
        /\ asHandshake # AsNone => asHandshake.id = asLogins
        /\ UNCHANGED <<asClock, asConf, asKey, asLeft, asJwks, asRows, asDone, asSession, asHandshake, asLogins>>
    BY AsTabFields DEF AsCallback, AsInv, AsTyped, AsLatest
  <1>2. CASE asHandshake # AsNone /\ asClock <= asHandshake.until /\ asHandshake.id = asTab[b].id
    <2>1. asTab' = [asTab EXCEPT ![b] = tab]
      BY <1>2 DEF AsCallback
    <2>2. tab \in AsExchanging /\ tab.id = tab.latest
      BY <1>1, <1>2 DEF AsInv, AsTyped, AsWaiting, AsExchanging
    <2> QED
      BY <1>1, <2>1, <2>2, AsTabStep DEF AsExchanging
  <1>3. CASE ~(asHandshake # AsNone /\ asClock <= asHandshake.until /\ asHandshake.id = asTab[b].id)
    <2>1. asTab' = [asTab EXCEPT ![b] = AsIdle] /\ AsIdle.pc = "idle"
      BY <1>3 DEF AsCallback, AsFail, AsIdle
    <2> QED
      BY <1>1, <2>1, AsTabStep
  <1> QED
    BY <1>2, <1>3

LEMMA AsTokenKeeps == ASSUME AsInv, NEW b \in AsTabs, AsToken(b) PROVE AsInv'
  <1> DEFINE client == asTab[b].client
             token == [key |-> asKey[client].number, issued |-> asClock, exp |-> asClock + AsTokenTtl,
                       nonce |-> asTab[b].id, member |-> asLeft = 0]
             tab == [pc |-> "verify", id |-> asTab[b].id, client |-> client,
                     nonce |-> asTab[b].nonce, latest |-> asTab[b].latest, token |-> token]
  <1>1. /\ asTab[b] \in AsExchanging /\ asTab[b].pc = "exchange" /\ asLogins \in Nat
        /\ asHandshake \in {AsNone} \cup [id : Nat, until : Nat]
        /\ asHandshake # AsNone => asHandshake.id = asLogins
        /\ UNCHANGED <<asClock, asConf, asKey, asLeft, asJwks, asRows, asDone, asSession, asHandshake, asLogins>>
    BY AsTabFields DEF AsToken, AsInv, AsTyped, AsLatest
  <1>2. CASE asTab[b].client = asTab[b].conf
    <2>1. asTab' = [asTab EXCEPT ![b] = tab]
      BY <1>2 DEF AsToken
    <2>2. token \in AsTokens
      BY <1>1, AsNats DEF AsInv, AsTyped, AsExchanging, AsTokens
    <2>3. tab \in AsVerifying
      BY <1>1, <2>2 DEF AsExchanging, AsVerifying
    <2>4. tab.id = tab.latest /\ tab.client = client /\ tab.token = token
      BY <1>1 DEF AsInv, AsLatest
    <2>5. token.key = asKey[client].number /\ (token.member => token.exp = AsLastSeen + AsTokenTtl)
      BY DEF AsLastSeen
    <2>6. asClock \in Nat /\ AsTokenTtl \in Nat /\ asLeft \in Nat /\ AsLastSeen \in Nat
      BY AsNats DEF AsInv, AsTyped, AsLastSeen
    <2>7. /\ tab.token.key # asKey[tab.client].number => tab.token.issued <= asKey[tab.client].since
          /\ tab.token.member => tab.token.exp <= AsLastSeen + AsTokenTtl
      BY <2>4, <2>5, <2>6
    <2>8. tab \in {AsIdle} \cup AsLoading \cup AsWaiting \cup AsExchanging \cup AsVerifying
      BY <2>3
    <2> HIDE DEF token, tab, client
    <2> QED
      BY <1>1, <2>1, <2>4, <2>7, <2>8, AsTabStep
  <1>3. CASE asTab[b].client # asTab[b].conf
    <2>1. asTab' = [asTab EXCEPT ![b] = AsIdle] /\ AsIdle.pc = "idle"
      BY <1>3 DEF AsToken, AsFail, AsIdle
    <2> QED
      BY <1>1, <2>1, AsTabStep
  <1> QED
    BY <1>2, <1>3

LEMMA AsOutageKeeps == ASSUME AsInv, NEW b \in AsTabs, AsOutage(b) PROVE AsInv'
  <1>1. /\ asTab' = [asTab EXCEPT ![b] = AsIdle] /\ AsIdle.pc = "idle" /\ asLogins \in Nat
        /\ asHandshake \in {AsNone} \cup [id : Nat, until : Nat]
        /\ asHandshake # AsNone => asHandshake.id = asLogins
        /\ UNCHANGED <<asClock, asConf, asKey, asLeft, asJwks, asRows, asDone, asSession, asHandshake, asLogins>>
    BY DEF AsOutage, AsFail, AsIdle, AsInv, AsTyped, AsLatest
  <1> QED
    BY <1>1, AsTabStep

LEMMA AsVerifyKeeps == ASSUME AsInv, NEW b \in AsTabs, AsVerify(b) PROVE AsInv'
  <1> DEFINE tab == asTab[b]
             token == tab.token
             key == asKey[tab.client]
             jwks == AsJwksNow(tab.client)
             why == AsReason(token, jwks, tab.nonce)
             row == [id |-> tab.id, member |-> token.member, until |-> asClock + AsSessionTtl]
             verdict == [why |-> why, id |-> tab.id, at |-> asClock, latest |-> tab.latest,
                         stale |-> key.since < token.issued, since |-> key.since]
  <1>1. /\ tab \in AsVerifying /\ tab.pc = "verify" /\ token \in AsTokens
        /\ tab.client \in AsConfs /\ key \in [number : Nat \ {0}, since : Nat]
        /\ asClock \in Nat \ {0} /\ asLeft \in Nat /\ AsLastSeen \in Nat
        /\ asTab' = [asTab EXCEPT ![b] = AsIdle]
        /\ asJwks' = [asJwks EXCEPT ![tab.client] = jwks]
        /\ asDone' = {verdict}
        /\ UNCHANGED <<asClock, asConf, asKey, asLeft, asLogins>>
    BY AsTabFields DEF AsVerify, AsInv, AsTyped, AsVerifying, AsLastSeen
  <1>2. /\ asTab'[b] = AsIdle /\ AsIdle.pc = "idle"
        /\ \A c \in AsTabs : c # b => asTab'[c] = asTab[c]
    BY <1>1 DEF AsInv, AsTyped, AsIdle
  <1>3. \/ why # "ok" /\ UNCHANGED <<asRows, asSession, asHandshake>>
        \/ why = "ok" /\ asRows' = asRows \cup {row} /\ asSession' = tab.id /\ asHandshake' = AsNone
    BY DEF AsVerify
  <1>4. jwks \in [number : Nat, at : Nat]
    BY <1>1 DEF AsJwksNow, AsInv, AsTyped
  <1>5. jwks.number # key.number => /\ jwks = asJwks[tab.client] /\ jwks.number # 0
                                    /\ asClock - jwks.at <= AsJwksTtl
    BY <1>1 DEF AsJwksNow, AsFresh
  <1>6. jwks.number # key.number => jwks.at <= key.since
    BY <1>1, <1>5 DEF AsInv, AsKeysAge
  <1>7. AsTyped'
    <2>1. row \in [id : Nat, member : BOOLEAN, until : Nat]
      BY <1>1, AsNats DEF AsVerifying, AsTokens
    <2>2. asRows' \in SUBSET [id : Nat, member : BOOLEAN, until : Nat]
      BY <1>3, <2>1 DEF AsInv, AsTyped
    <2>3. asHandshake' \in {AsNone} \cup [id : Nat, until : Nat]
      BY <1>3 DEF AsInv, AsTyped
    <2>4. asJwks' \in [AsConfs -> [number : Nat, at : Nat]]
      BY <1>1, <1>4 DEF AsInv, AsTyped
    <2> QED
      BY <1>1, <2>2, <2>3, <2>4 DEF AsInv, AsTyped
  <1>8. AsLatest'
    BY <1>1, <1>2, <1>3 DEF AsInv, AsLatest
  <1>9. AsKeysAge'
    <2>1. \A c \in AsConfs : c # tab.client => asJwks'[c] = asJwks[c]
      BY <1>1 DEF AsInv, AsTyped
    <2>2. asJwks'[tab.client] = jwks
      BY <1>1 DEF AsInv, AsTyped
    <2>3. \A c \in AsConfs :
              asJwks'[c].number \notin {0, asKey[c].number} => asJwks'[c].at <= asKey[c].since
      BY <1>6, <2>1, <2>2 DEF AsInv, AsKeysAge
    <2> QED
      BY <1>1, <1>2, <2>3 DEF AsInv, AsKeysAge
  <1>10. AsMembersAge'
    <2>1. why = "ok" => token.exp + AsLeeway >= asClock
      BY DEF AsReason, AsUnexpired
    <2>2. token.member => token.exp <= AsLastSeen + AsTokenTtl
      BY <1>1 DEF AsInv, AsMembersAge
    <2>3. (why = "ok" /\ token.member) =>
              asClock + AsSessionTtl <= AsLastSeen + AsTokenTtl + AsLeeway + AsSessionTtl
      BY <1>1, <2>1, <2>2, AsNats DEF AsTokens
    <2>4. AsLastSeen' = AsLastSeen
      BY <1>1 DEF AsLastSeen
    <2>5. \A r \in asRows' : r.member => r.until <= AsLastSeen + AsTokenTtl + AsLeeway + AsSessionTtl
      BY <1>3, <2>3 DEF AsInv, AsMembersAge
    <2> QED
      BY <1>1, <1>2, <2>4, <2>5 DEF AsInv, AsMembersAge
  <1>11. AsSessionOfLastLogin'
    BY <1>1 DEF AsInv, AsLatest, AsSessionOfLastLogin
  <1>12. AsRotationHeals'
    <2>1. why = "unknown_key" => jwks.number # token.key
      BY DEF AsReason
    <2>2. token.key # key.number => token.issued <= key.since
      BY <1>1 DEF AsInv, AsKeysAge
    <2>3. ASSUME why = "unknown_key", key.since < token.issued
          PROVE  asClock <= key.since + AsJwksTtl
      <3>1. token.key = key.number
        BY <1>1, <2>2, <2>3 DEF AsTokens
      <3>2. jwks.number # key.number
        BY <2>1, <2>3, <3>1
      <3> QED
        BY <1>1, <1>4, <1>5, <1>6, <3>2, AsNats
    <2>4. verdict.why = why /\ verdict.at = asClock /\ verdict.since = key.since
          /\ verdict.stale = (key.since < token.issued)
      OBVIOUS
    <2> HIDE DEF verdict, why, key, token
    <2> QED
      BY <1>1, <2>3, <2>4 DEF AsRotationHeals
  <1> QED
    BY <1>7, <1>8, <1>9, <1>10, <1>11, <1>12 DEF AsInv

LEMMA AsLogoutKeeps == ASSUME AsInv, AsLogout PROVE AsInv'
  <1>1. /\ asRows' \subseteq asRows
        /\ UNCHANGED <<asClock, asConf, asKey, asLeft, asJwks, asHandshake, asSession, asTab, asLogins, asDone>>
    BY DEF AsLogout
  <1> QED
    BY <1>1 DEF AsInv, AsTyped, AsLatest, AsKeysAge, AsMembersAge, AsLastSeen, AsSessionOfLastLogin,
       AsRotationHeals

(* Time passes, or the user leaves: the last moment does not move back.        *)
LEMMA AsTimeKeeps == ASSUME AsInv, AsTick \/ AsLeave PROVE AsInv'
  <1>1. /\ asClock' \in Nat \ {0} /\ asLeft' \in Nat
        /\ UNCHANGED <<asConf, asKey, asJwks, asHandshake, asSession, asTab, asLogins, asRows, asDone>>
    BY DEF AsTick, AsLeave, AsInv, AsTyped
  <1>2. AsLastSeen \in Nat /\ AsLastSeen' \in Nat /\ AsLastSeen <= AsLastSeen'
    BY DEF AsTick, AsLeave, AsInv, AsTyped, AsLastSeen
  <1>3. AsTyped' /\ AsLatest' /\ AsKeysAge' /\ AsSessionOfLastLogin' /\ AsRotationHeals'
    BY <1>1 DEF AsInv, AsTyped, AsLatest, AsKeysAge, AsSessionOfLastLogin, AsRotationHeals
  <1>4. AsMembersAge'
    <2>1. ASSUME NEW b \in AsTabs, asTab[b].pc = "verify", asTab[b].token.member
          PROVE  asTab[b].token.exp <= AsLastSeen' + AsTokenTtl
      <3>1. asTab[b].token.exp <= AsLastSeen + AsTokenTtl /\ asTab[b].token.exp \in Nat
        BY <2>1, AsTabFields DEF AsInv, AsMembersAge, AsVerifying, AsTokens
      <3> QED
        BY <1>2, <3>1, AsNats
    <2>2. ASSUME NEW row \in asRows, row.member
          PROVE  row.until <= AsLastSeen' + AsTokenTtl + AsLeeway + AsSessionTtl
      <3>1. row.until <= AsLastSeen + AsTokenTtl + AsLeeway + AsSessionTtl /\ row.until \in Nat
        BY <2>2 DEF AsInv, AsTyped, AsMembersAge
      <3> QED
        BY <1>2, <3>1, AsNats
    <2> QED
      BY <1>1, <2>1, <2>2 DEF AsMembersAge
  <1> QED
    BY <1>3, <1>4 DEF AsInv

(* A rotation makes every key known until then older than the new one.         *)
LEMMA AsRotateKeeps == ASSUME AsInv, AsPast, AsRotate PROVE AsInv'
  <1>1. /\ asKey' = [asKey EXCEPT ![asConf] = [number |-> asKey[asConf].number + 1, since |-> asClock]]
        /\ UNCHANGED <<asClock, asConf, asLeft, asJwks, asHandshake, asSession, asTab, asLogins, asRows, asDone>>
    BY DEF AsRotate
  <1>2. /\ asKey'[asConf].since = asClock
        /\ \A c \in AsConfs : c # asConf => asKey'[c] = asKey[c]
    BY <1>1 DEF AsInv, AsTyped
  <1>3. AsTyped'
    BY <1>1 DEF AsInv, AsTyped
  <1>4. AsLatest' /\ AsMembersAge' /\ AsSessionOfLastLogin' /\ AsRotationHeals'
    BY <1>1 DEF AsInv, AsLatest, AsMembersAge, AsLastSeen, AsSessionOfLastLogin, AsRotationHeals
  <1>5. \A b \in AsTabs : asTab[b].pc = "verify" => asTab[b].client \in AsConfs
    BY AsTabFields DEF AsInv, AsVerifying
  <1>6. AsKeysAge'
    BY <1>1, <1>2, <1>5 DEF AsInv, AsPast, AsKeysAge
  <1> QED
    BY <1>3, <1>4, <1>6 DEF AsInv

LEMMA AsReconfigureKeeps == ASSUME AsInv, AsReconfigure PROVE AsInv'
  <1>1. asConf' \in AsConfs
    BY AsAssumption DEF AsReconfigure, AsInv, AsTyped, AsConfs
  <1>2. UNCHANGED <<asClock, asKey, asLeft, asJwks, asHandshake, asSession, asTab, asLogins,
                    asRows, asDone>>
    BY DEF AsReconfigure
  <1>3. AsTyped'
    BY <1>1, <1>2 DEF AsInv, AsTyped
  <1>4. AsLatest' /\ AsKeysAge'
    BY <1>2 DEF AsInv, AsLatest, AsKeysAge
  <1>5. AsMembersAge'
    BY <1>2 DEF AsInv, AsMembersAge, AsLastSeen
  <1>6. AsSessionOfLastLogin' /\ AsRotationHeals'
    BY <1>2 DEF AsInv, AsSessionOfLastLogin, AsRotationHeals
  <1> QED
    BY <1>3, <1>4, <1>5, <1>6 DEF AsInv

LEMMA AsRestartKeeps == ASSUME AsInv, AsRestart PROVE AsInv' /\ (AsPast => AsPast')
  <1>1. /\ asJwks' = [c \in AsConfs |-> AsNoKeys]
        /\ asTab' = [b \in AsTabs |-> IF asTab[b].pc \in {"metadata", "exchange", "verify"}
                                      THEN AsIdle ELSE asTab[b]]
        /\ UNCHANGED <<asClock, asConf, asKey, asLeft, asHandshake, asSession, asLogins, asRows, asDone>>
    BY DEF AsRestart
  <1>2. \A b \in AsTabs : asTab'[b].pc \notin {"exchange", "verify"}
    BY <1>1 DEF AsIdle
  <1>3. \A c \in AsConfs : asJwks'[c].number = 0 /\ asJwks'[c].at = 0
    BY <1>1 DEF AsNoKeys
  <1>4. AsTyped'
    <2>1. asJwks' \in [AsConfs -> [number : Nat, at : Nat]]
      BY <1>1 DEF AsNoKeys
    <2>2. asTab' \in [AsTabs -> {AsIdle} \cup AsLoading \cup AsWaiting \cup AsExchanging \cup AsVerifying]
      BY <1>1 DEF AsInv, AsTyped
    <2> QED
      BY <1>1, <2>1, <2>2 DEF AsInv, AsTyped
  <1>5. AsLatest' /\ AsKeysAge' /\ AsMembersAge' /\ AsSessionOfLastLogin' /\ AsRotationHeals'
    BY <1>1, <1>2, <1>3
    DEF AsInv, AsLatest, AsKeysAge, AsMembersAge, AsLastSeen, AsSessionOfLastLogin, AsRotationHeals
  <1>6. AsPast => AsPast'
    BY <1>1, <1>2, <1>3, <1>4 DEF AsPast, AsTyped
  <1> QED
    BY <1>4, <1>5, <1>6 DEF AsInv

LEMMA AsStepPast == ASSUME AsInv, AsPast, [AsNext]_asVars PROVE AsPast'
  <1>1. asClock \in Nat
    BY DEF AsInv, AsTyped
  <1>2. ASSUME NEW b \in AsTabs, AsLogin(b) \/ AsRedirect(b) \/ AsCallback(b) \/ AsOutage(b)
         PROVE  AsPast'
    BY <1>2 DEF AsLogin, AsRedirect, AsCallback, AsOutage, AsFail, AsPast, AsInv, AsTyped, AsIdle
  <1>3. ASSUME NEW b \in AsTabs, AsToken(b) PROVE AsPast'
    BY <1>1, <1>3 DEF AsToken, AsFail, AsPast, AsInv, AsTyped, AsIdle
  <1>4. ASSUME NEW b \in AsTabs, AsVerify(b) PROVE AsPast'
    <2>1. /\ asJwks' = [asJwks EXCEPT ![asTab[b].client] = AsJwksNow(asTab[b].client)]
          /\ asTab' = [asTab EXCEPT ![b] = AsIdle] /\ asClock' = asClock
      BY <1>4 DEF AsVerify
    <2>2. asTab[b].client \in AsConfs
      BY <1>4, AsTabFields DEF AsVerify, AsInv, AsVerifying
    <2>3. AsJwksNow(asTab[b].client).at <= asClock
      BY <1>1, <2>2 DEF AsJwksNow, AsPast
    <2> QED
      BY <2>1, <2>2, <2>3 DEF AsPast, AsInv, AsTyped, AsIdle
  <1>5. CASE AsTick
    <2>1. asClock' = asClock + 1 /\ asJwks' = asJwks /\ asTab' = asTab
      BY <1>5 DEF AsTick
    <2>2. \A c \in AsConfs : asJwks[c].at \in Nat
      BY DEF AsInv, AsTyped
    <2>3. \A b \in AsTabs : asTab[b].pc = "verify" => asTab[b].token.issued \in Nat
      BY AsTabFields DEF AsInv, AsVerifying, AsTokens
    <2> QED
      BY <1>1, <2>1, <2>2, <2>3 DEF AsPast
  <1>6. CASE AsLogout \/ AsRotate \/ AsLeave \/ AsReconfigure \/ UNCHANGED asVars
    BY <1>6 DEF AsLogout, AsRotate, AsLeave, AsReconfigure, asVars, AsPast
  <1>7. CASE AsRestart
    BY <1>7, AsRestartKeeps
  <1> QED
    BY <1>2, <1>3, <1>4, <1>5, <1>6, <1>7 DEF AsNext

LEMMA AsStepInv == AsInv /\ AsPast /\ [AsNext]_asVars => AsInv'
  <1> SUFFICES ASSUME AsInv, AsPast, [AsNext]_asVars PROVE AsInv'
    OBVIOUS
  <1>1. CASE AsNext
    BY <1>1, AsLoginKeeps, AsRedirectKeeps, AsCallbackKeeps, AsTokenKeeps, AsVerifyKeeps, AsOutageKeeps,
       AsLogoutKeeps, AsTimeKeeps, AsRotateKeeps, AsReconfigureKeeps, AsRestartKeeps
    DEF AsNext
  <1>2. CASE UNCHANGED asVars
    BY <1>2 DEF asVars, AsInv, AsTyped, AsLatest, AsKeysAge, AsMembersAge, AsLastSeen,
       AsSessionOfLastLogin, AsRotationHeals
  <1> QED
    BY <1>1, <1>2

LEMMA AsAlwaysInv == AsSpec => [](AsInv /\ AsPast)
  <1>1. AsInit => AsInv /\ AsPast
    BY AsInitInv DEF AsInit, AsPast, AsNoKeys, AsIdle
  <1>2. (AsInv /\ AsPast) /\ [AsNext]_asVars => (AsInv /\ AsPast)'
    BY AsStepInv, AsStepPast
  <1> QED
    BY <1>1, <1>2, PTL DEF AsSpec

-----------------------------------------------------------------------------
(* /login and /callback: of several logins in one browser only the one         *)
(* answered last can become a session.                                         *)
THEOREM SessionOfLastLogin == AsSpec => []AsSessionOfLastLogin
  <1>1. AsInv => AsSessionOfLastLogin
    BY DEF AsInv
  <1> QED
    BY <1>1, AsAlwaysInv, PTL

(* jwks and verify_id_token: a key rotation costs logins no longer than the    *)
(* cached keys live.                                                           *)
THEOREM RotationHeals == AsSpec => []AsRotationHeals
  <1>1. AsInv => AsRotationHeals
    BY DEF AsInv
  <1> QED
    BY <1>1, AsAlwaysInv, PTL

(* session_is_valid: who left the group is served for a bounded time.          *)
THEOREM LeaverIsOut == AsSpec => []AsLeaverIsOut
  <1>1. ASSUME AsInv PROVE AsLeaverIsOut
    <2> SUFFICES ASSUME asLeft # 0, NEW row \in asRows, asClock < row.until, row.member
                 PROVE  asClock < asLeft + AsTokenTtl + AsLeeway + AsSessionTtl
      BY DEF AsLeaverIsOut, AsServed, AsValid
    <2>1. row.until <= asLeft + AsTokenTtl + AsLeeway + AsSessionTtl
      BY <1>1 DEF AsInv, AsMembersAge, AsLastSeen
    <2>2. row.until \in Nat /\ asClock \in Nat /\ asLeft \in Nat
      BY <1>1 DEF AsInv, AsTyped
    <2> QED
      BY <2>1, <2>2, AsNats
  <1> QED
    BY <1>1, AsAlwaysInv, PTL

(* Every login at the provider, cookie and session row bears the number of a   *)
(* login that was answered, and the clock stays within its bound.              *)
AsBounded ==
    /\ asClock <= AsMaxClock /\ asLeft <= AsMaxClock /\ asLogins <= AsMaxLogins
    /\ asSession \in 0 .. AsMaxLogins
    /\ asHandshake.id \in 0 .. AsMaxLogins
    /\ \A b \in AsTabs : asTab[b].pc \notin {"idle", "metadata"} => asTab[b].id \in 1 .. AsMaxLogins
    /\ \A row \in asRows : row.id \in 1 .. AsMaxLogins

LEMMA AsLimits == AsMaxClock \in Nat /\ AsMaxClock >= 1 /\ AsMaxLogins \in Nat
  BY AsAssumption

LEMMA AsStepBounded == AsInv /\ AsBounded /\ [AsNext]_asVars => AsBounded'
  <1> SUFFICES ASSUME AsInv, AsBounded, [AsNext]_asVars PROVE AsBounded'
    OBVIOUS
  <1>1. asClock \in Nat /\ asLeft \in Nat /\ asLogins \in Nat
    BY DEF AsInv, AsTyped
  <1>2. ASSUME NEW b \in AsTabs, AsLogin(b) \/ AsRedirect(b) PROVE AsBounded'
    BY <1>1, <1>2, AsLimits DEF AsLogin, AsRedirect, AsSetHandshake, AsBounded, AsInv, AsTyped
  <1>3. ASSUME NEW b \in AsTabs, AsCallback(b) \/ AsToken(b) \/ AsOutage(b) PROVE AsBounded'
    BY <1>3 DEF AsCallback, AsToken, AsOutage, AsFail, AsIdle, AsBounded, AsInv, AsTyped
  <1>4. ASSUME NEW b \in AsTabs, AsVerify(b) PROVE AsBounded'
    <2>1. /\ asTab' = [asTab EXCEPT ![b] = AsIdle]
          /\ UNCHANGED <<asClock, asLeft, asLogins>>
          /\ asTab[b].id \in 1 .. AsMaxLogins
      BY <1>4 DEF AsVerify, AsBounded
    <2>2. \/ UNCHANGED <<asRows, asSession, asHandshake>>
          \/ /\ asSession' = asTab[b].id /\ asHandshake' = AsNone
             /\ \A row \in asRows' : row \in asRows \/ row.id = asTab[b].id
      BY <1>4 DEF AsVerify
    <2>3. asSession' \in 0 .. AsMaxLogins /\ asHandshake'.id \in 0 .. AsMaxLogins
          /\ \A row \in asRows' : row.id \in 1 .. AsMaxLogins
      BY <2>1, <2>2, AsLimits DEF AsBounded, AsNone
    <2> QED
      BY <2>1, <2>3 DEF AsBounded, AsIdle, AsInv, AsTyped
  <1>5. CASE AsLogout
    BY <1>5 DEF AsLogout, AsBounded
  <1>6. CASE AsTick
    BY <1>1, <1>6, AsLimits DEF AsTick, AsBounded
  <1>7. CASE AsRotate \/ AsLeave \/ AsReconfigure \/ UNCHANGED asVars
    BY <1>7 DEF AsRotate, AsLeave, AsReconfigure, asVars, AsBounded
  <1>8. CASE AsRestart
    BY <1>8 DEF AsRestart, AsIdle, AsBounded
  <1> QED
    BY <1>2, <1>3, <1>4, <1>5, <1>6, <1>7, <1>8 DEF AsNext

(* The clock, the logins, the cookies and the session rows stay in their types. *)
THEOREM SessionTyped == AsSpec => []AsTypeOK
  <1>1. AsInit => AsBounded
    BY AsLimits DEF AsInit, AsBounded, AsNone, AsIdle
  <1>2. ASSUME AsInv, AsBounded PROVE AsTypeOK
    <2>1. asClock \in 1 .. AsMaxClock /\ asLeft \in 0 .. AsMaxClock /\ asLogins \in 0 .. AsMaxLogins
      BY <1>2, AsLimits DEF AsInv, AsTyped, AsBounded
    <2>2. \A b \in AsTabs : asTab[b].pc \in {"idle", "metadata", "provider", "exchange", "verify"}
      BY <1>2, AsTabFields DEF AsInv
    <2>3. asRows \subseteq [id : 1 .. AsMaxLogins, member : BOOLEAN, until : Nat]
      BY <1>2 DEF AsInv, AsTyped, AsBounded
    <2> QED
      BY <1>2, <2>1, <2>2, <2>3 DEF AsTypeOK, AsInv, AsTyped, AsBounded
  <1> QED
    BY <1>1, <1>2, AsStepBounded, AsAlwaysInv, PTL DEF AsSpec

-----------------------------------------------------------------------------
(* What the limiter promises, for any number of clients and threads, any       *)
(* window, limit and sweep period, and however long the calls are delayed      *)
(* between reading the clock and taking the lock.                              *)
RlEntry == [key : RlKeys, at : Nat, ok : BOOLEAN]

(* Entry j of the log had left the window, as far as the i-th call could tell: *)
(* a call that came with it or after it is a whole window older.               *)
RlLeft(log, j, n) ==
    \E i \in 1 .. n, l \in 1 .. n : j <= l /\ l < i /\ log[l].at + RlWindow <= log[i].at

(* g tells which call left each timestamp of the bucket of k; every admitted   *)
(* call of k among the first m is there or has left.                           *)
RlKept(log, m, bucket, k, g) ==
    /\ bucket \in Seq(Nat)
    /\ g \in [1 .. Len(bucket) -> 1 .. m]
    /\ \A a, b \in 1 .. Len(bucket) : a < b => g[a] < g[b]
    /\ \A a \in 1 .. Len(bucket) : log[g[a]].key = k /\ log[g[a]].at = bucket[a] /\ log[g[a]].ok
    /\ \A j \in 1 .. m : (log[j].key = k /\ log[j].ok) =>
          (\E a \in 1 .. Len(bucket) : g[a] = j) \/ RlLeft(log, j, Len(log))

(* The calls that left the timestamps of a bucket.                             *)
RlCounted(bucket, g) == {g[a] : a \in 1 .. Len(bucket)}

(* What decided the i-th call: the calls B its bucket still counted.           *)
RlAdmits(log, i) ==
    \E B \in SUBSET (1 .. i - 1) :
        /\ IsFiniteSet(B) /\ Cardinality(B) < RlLimit
        /\ \A j \in 1 .. i - 1 : (log[j].key = log[i].key /\ log[j].ok) => j \in B \/ RlLeft(log, j, i)
RlRefuses(log, i) ==
    \E B \in SUBSET (1 .. i - 1), h \in 1 .. i - 1 :
        /\ IsFiniteSet(B) /\ Cardinality(B) >= RlLimit
        /\ \A j \in B : log[j].key = log[i].key /\ log[j].ok /\ h <= j
        /\ log[h].at + RlWindow > log[i].at
RlDecided(log, i) == IF log[i].ok THEN RlAdmits(log, i) ELSE RlRefuses(log, i)

RlInv ==
    /\ RlTypeOK
    /\ \A t \in RlThreads : rlCall[t] # <<>> => rlCall[t][2] <= rlClock
    /\ \A i \in 1 .. Len(rlLog) : rlLog[i].at <= rlClock /\ RlDecided(rlLog, i)
    /\ \A k \in RlKeys : \E g : RlKept(rlLog, Len(rlLog), rlBuckets[k], k, g)

LEMMA RlNumbers ==
    RlWindow \in Nat \ {0} /\ RlLimit \in Nat \ {0} /\ RlCleanupEvery \in Nat \ {0}
  BY RlAssumption

(* The trimming loop drops a prefix of timestamps that left the window.        *)
LEMMA RlTrimmed ==
    ASSUME NEW bucket \in Seq(Nat), NEW now \in Nat
    PROVE  \E d \in 0 .. Len(bucket) :
              /\ RlTrim(bucket, now) = SubSeq(bucket, d + 1, Len(bucket))
              /\ \A a \in 1 .. d : bucket[a] + RlWindow <= now
              /\ d < Len(bucket) => bucket[d + 1] + RlWindow > now
  <1> DEFINE I == {i \in 1 .. Len(bucket) : bucket[i] + RlWindow > now}
  <1>1. RlTrim(bucket, now) = LET kept == IF I # {} THEN Min(I) ELSE 0
                              IN  IF kept = 0 THEN <<>> ELSE SubSeq(bucket, kept, Len(bucket))
    BY DEF RlTrim, SelectInSeq
  <1>2. \A a \in 1 .. Len(bucket) : bucket[a] \in Nat
    OBVIOUS
  <1>3. CASE I = {}
    <2>1. RlTrim(bucket, now) = SubSeq(bucket, Len(bucket) + 1, Len(bucket))
      <3>1. RlTrim(bucket, now) = <<>>
        BY <1>1, <1>3
      <3>2. SubSeq(bucket, Len(bucket) + 1, Len(bucket)) = <<>>
        OBVIOUS
      <3> QED
        BY <3>1, <3>2
    <2>2. ASSUME NEW a \in 1 .. Len(bucket) PROVE bucket[a] + RlWindow <= now
      <3>1. a \notin I
        BY <1>3
      <3>2. ~(bucket[a] + RlWindow > now)
        BY <3>1
      <3>3. bucket[a] \in Nat
        BY <1>2
      <3> HIDE DEF I
      <3> QED
        BY <3>2, <3>3, RlNumbers
    <2> QED
      BY <2>1, <2>2
  <1>4. CASE I # {}
    <2>1. PICK m : m = Min(I)
      OBVIOUS
    <2>2. m \in I /\ \A i \in I : m <= i
      <3>1. I \in SUBSET Nat
        OBVIOUS
      <3> HIDE DEF I
      <3> QED
        BY <1>4, <2>1, <3>1, NatMin
    <2>3. m \in 1 .. Len(bucket) /\ bucket[m] + RlWindow > now
      BY <2>2
    <2>4. RlTrim(bucket, now) = SubSeq(bucket, m, Len(bucket))
      <3>1. m # 0
        BY <2>3
      <3> HIDE DEF I
      <3> QED
        BY <1>1, <1>4, <2>1, <3>1
    <2>5. \A a \in 1 .. m - 1 : bucket[a] + RlWindow <= now
      <3>1. ASSUME NEW a \in 1 .. m - 1 PROVE ~(bucket[a] + RlWindow > now) /\ bucket[a] \in Nat
        BY <1>2, <2>2, <2>3
      <3> QED
        BY <3>1, RlNumbers
    <2>6. m - 1 \in 0 .. Len(bucket) /\ (m - 1) + 1 = m
      BY <2>3
    <2> QED
      BY <2>3, <2>4, <2>5, <2>6
  <1> QED
    BY <1>3, <1>4

(* What left the window stays out of it as the log grows.                      *)
LEMMA RlLeftStays ==
    ASSUME NEW log \in Seq(RlEntry), NEW e \in RlEntry, NEW j, NEW n \in 0 .. Len(log),
           NEW m \in n .. Len(log) + 1, RlLeft(log, j, n)
    PROVE  RlLeft(Append(log, e), j, m)
  <1>1. PICK i \in 1 .. n, l \in 1 .. n : j <= l /\ l < i /\ log[l].at + RlWindow <= log[i].at
    BY DEF RlLeft
  <1>2. Append(log, e)[i] = log[i] /\ Append(log, e)[l] = log[l]
    OBVIOUS
  <1> QED
    BY <1>1, <1>2 DEF RlLeft

LEMMA RlDecidedStays ==
    ASSUME NEW log \in Seq(RlEntry), NEW e \in RlEntry, NEW i \in 1 .. Len(log), RlDecided(log, i)
    PROVE  RlDecided(Append(log, e), i)
  <1>0. PICK w : w = Append(log, e)
    OBVIOUS
  <1>1. /\ \A j \in 1 .. i : w[j] = log[j]
        /\ \A j \in 1 .. i - 1 : j \in 1 .. i /\ w[j] = log[j]
        /\ w[i] = log[i]
    BY <1>0
  <1>2. \A j : RlLeft(log, j, i) => RlLeft(w, j, i)
    BY <1>0, RlLeftStays
  <1>3. CASE log[i].ok
    <2>1. PICK B \in SUBSET (1 .. i - 1) :
              /\ IsFiniteSet(B) /\ Cardinality(B) < RlLimit
              /\ \A j \in 1 .. i - 1 :
                    (log[j].key = log[i].key /\ log[j].ok) => j \in B \/ RlLeft(log, j, i)
      BY <1>3 DEF RlDecided, RlAdmits
    <2>2. \A j \in 1 .. i - 1 : (w[j].key = w[i].key /\ w[j].ok) => j \in B \/ RlLeft(w, j, i)
      BY <1>1, <1>2, <2>1
    <2>3. RlAdmits(w, i)
      BY <2>1, <2>2 DEF RlAdmits
    <2> QED
      BY <1>0, <1>1, <1>3, <2>3 DEF RlDecided
  <1>4. CASE ~log[i].ok
    <2>1. RlRefuses(log, i)
      BY <1>4 DEF RlDecided
    <2>2. PICK B \in SUBSET (1 .. i - 1), h \in 1 .. i - 1 :
              /\ IsFiniteSet(B) /\ Cardinality(B) >= RlLimit
              /\ \A j \in B : log[j].key = log[i].key /\ log[j].ok /\ h <= j
              /\ log[h].at + RlWindow > log[i].at
      BY <2>1 DEF RlRefuses
    <2>3. \A j \in B : w[j].key = w[i].key /\ w[j].ok /\ h <= j
      BY <1>1, <2>2
    <2>4. w[h].at + RlWindow > w[i].at
      BY <1>1, <2>2
    <2>5. RlRefuses(w, i)
      BY <2>2, <2>3, <2>4 DEF RlRefuses
    <2> QED
      BY <1>0, <1>1, <1>4, <2>5 DEF RlDecided
  <1> QED
    BY <1>3, <1>4

(* The call that is being decided is the last of the log; the buckets account  *)
(* for the calls before it.                                                    *)
LEMMA RlKeptLonger ==
    ASSUME NEW log \in Seq(RlEntry), NEW e \in RlEntry, NEW k, NEW bucket, NEW g,
           RlKept(log, Len(log), bucket, k, g)
    PROVE  RlKept(Append(log, e), Len(log), bucket, k, g)
  <1>1. PICK w : w = Append(log, e)
    OBVIOUS
  <1>2. \A j \in 1 .. Len(log) : w[j] = log[j]
    BY <1>1
  <1>3. \A j : RlLeft(log, j, Len(log)) => RlLeft(w, j, Len(w))
    BY <1>1, RlLeftStays
  <1>4. \A a \in 1 .. Len(bucket) : w[g[a]].key = k /\ w[g[a]].at = bucket[a] /\ w[g[a]].ok
    BY <1>2 DEF RlKept
  <1>5. \A j \in 1 .. Len(log) : (w[j].key = k /\ w[j].ok) =>
            (\E a \in 1 .. Len(bucket) : g[a] = j) \/ RlLeft(w, j, Len(w))
    BY <1>2, <1>3 DEF RlKept
  <1> QED
    BY <1>1, <1>4, <1>5 DEF RlKept

(* Dropping the first d timestamps, which left the window by the last call.    *)
LEMMA RlKeptTrimmed ==
    ASSUME NEW m \in Nat, NEW log \in Seq(RlEntry), Len(log) = m + 1,
           NEW k, NEW bucket, NEW g, RlKept(log, m, bucket, k, g),
           NEW d \in 0 .. Len(bucket),
           \A a \in 1 .. d : \E c \in a .. Len(bucket) : bucket[c] + RlWindow <= log[m + 1].at
    PROVE  \E f : RlKept(log, m, SubSeq(bucket, d + 1, Len(bucket)), k, f)
  <1>1. PICK rest : rest = SubSeq(bucket, d + 1, Len(bucket))
    OBVIOUS
  <1>2. PICK f : f = [a \in 1 .. Len(bucket) - d |-> g[a + d]]
    OBVIOUS
  <1>3. bucket \in Seq(Nat) /\ g \in [1 .. Len(bucket) -> 1 .. m]
    BY DEF RlKept
  <1>4. /\ rest \in Seq(Nat) /\ Len(rest) = Len(bucket) - d
        /\ \A a \in 1 .. Len(bucket) - d : a + d \in 1 .. Len(bucket) /\ rest[a] = bucket[a + d]
    <2>1. PICK n : n = Len(bucket)
      OBVIOUS
    <2>2. n \in Nat /\ d \in 0 .. n
      BY <1>3, <2>1
    <2>3. rest \in Seq(Nat) /\ Len(rest) = n - d
      BY <1>1, <1>3, <2>1, <2>2
    <2>4. ASSUME NEW a \in 1 .. n - d PROVE a + d \in 1 .. n /\ rest[a] = bucket[a + d]
      <3>1. a + d \in 1 .. n /\ (d + 1) + a - 1 = a + d
        BY <2>2
      <3> QED
        BY <1>1, <1>3, <2>1, <2>2, <3>1
    <2> QED
      BY <2>1, <2>3, <2>4
  <1>5. f \in [1 .. Len(rest) -> 1 .. m] /\ \A a \in 1 .. Len(rest) : f[a] = g[a + d]
    BY <1>2, <1>3, <1>4
  <1>6. \A a, b \in 1 .. Len(rest) : a < b => f[a] < f[b]
    <2>1. \A a, b \in 1 .. Len(bucket) : a < b => g[a] < g[b]
      BY DEF RlKept
    <2>2. \A a, b \in 1 .. Len(rest) : a < b => a + d < b + d
      BY <1>3
    <2> QED
      BY <1>4, <1>5, <2>1, <2>2
  <1>7. \A a \in 1 .. Len(rest) : log[f[a]].key = k /\ log[f[a]].at = rest[a] /\ log[f[a]].ok
    <2>1. \A a \in 1 .. Len(bucket) : log[g[a]].key = k /\ log[g[a]].at = bucket[a] /\ log[g[a]].ok
      BY DEF RlKept
    <2>2. \A a \in 1 .. Len(rest) : a + d \in 1 .. Len(bucket) /\ rest[a] = bucket[a + d]
      BY <1>4
    <2> QED
      BY <1>5, <2>1, <2>2
  <1>8. ASSUME NEW j \in 1 .. m, log[j].key = k, log[j].ok
        PROVE  (\E a \in 1 .. Len(rest) : f[a] = j) \/ RlLeft(log, j, Len(log))
    <2>1. CASE RlLeft(log, j, Len(log))
      BY <2>1
    <2>2. ASSUME NEW a \in 1 .. Len(bucket), g[a] = j, a > d
          PROVE  \E b \in 1 .. Len(rest) : f[b] = j
      <3>1. a - d \in 1 .. Len(rest) /\ (a - d) + d = a
        BY <1>3, <1>4, <2>2
      <3> QED
        BY <1>5, <2>2, <3>1
    <2>3. ASSUME NEW a \in 1 .. d, g[a] = j
          PROVE  RlLeft(log, j, Len(log))
      <3>1. PICK c \in a .. Len(bucket) : bucket[c] + RlWindow <= log[m + 1].at
        OBVIOUS
      <3>2. a \in 1 .. Len(bucket) /\ c \in 1 .. Len(bucket) /\ (a < c \/ a = c)
        BY <1>3
      <3>3. log[g[c]].at = bucket[c] /\ g[c] \in 1 .. m /\ g[a] <= g[c]
        <4>1. log[g[c]].at = bucket[c] /\ (a < c => g[a] < g[c])
          BY <3>2 DEF RlKept
        <4>2. g[c] \in 1 .. m /\ g[a] \in 1 .. m
          BY <1>3, <3>2
        <4> QED
          BY <3>2, <4>1, <4>2
      <3>4. g[c] \in 1 .. Len(log) /\ m + 1 \in 1 .. Len(log) /\ g[c] < m + 1
        BY <3>3
      <3> QED
        BY <2>3, <3>1, <3>3, <3>4 DEF RlLeft
    <2> QED
      BY <1>3, <1>8, <2>1, <2>2, <2>3 DEF RlKept
  <1>9. RlKept(log, m, rest, k, f)
    BY <1>4, <1>5, <1>6, <1>7, <1>8 DEF RlKept
  <1> QED
    BY <1>1, <1>9

(* The last call joins the log: another client's, or a refused one, leaves the *)
(* bucket as it is, an admitted one is appended to it.                         *)
LEMMA RlKeptOthers ==
    ASSUME NEW m \in Nat, NEW log \in Seq(RlEntry), Len(log) = m + 1,
           NEW k, NEW bucket, NEW g, RlKept(log, m, bucket, k, g),
           log[m + 1].key # k \/ ~log[m + 1].ok
    PROVE  RlKept(log, m + 1, bucket, k, g)
  <1>1. \A j \in 1 .. m + 1 : j \in 1 .. m \/ j = m + 1
    OBVIOUS
  <1>2. g \in [1 .. Len(bucket) -> 1 .. m + 1]
    BY DEF RlKept
  <1> QED
    BY <1>1, <1>2 DEF RlKept

LEMMA RlKeptAppend ==
    ASSUME NEW m \in Nat, NEW log \in Seq(RlEntry), Len(log) = m + 1,
           NEW k, NEW bucket, NEW g, RlKept(log, m, bucket, k, g),
           log[m + 1].key = k, log[m + 1].ok
    PROVE  \E f : RlKept(log, m + 1, Append(bucket, log[m + 1].at), k, f)
  <1>1. PICK now : now = log[m + 1].at
    OBVIOUS
  <1>2. PICK more : more = Append(bucket, now)
    OBVIOUS
  <1>3. PICK n : n = Len(bucket)
    OBVIOUS
  <1>4. now \in Nat /\ bucket \in Seq(Nat) /\ g \in [1 .. n -> 1 .. m] /\ n \in Nat
    <2>1. log[m + 1] \in RlEntry
      OBVIOUS
    <2>2. now \in Nat
      BY <1>1, <2>1 DEF RlEntry
    <2>3. bucket \in Seq(Nat) /\ g \in [1 .. n -> 1 .. m]
      BY <1>3 DEF RlKept
    <2> QED
      BY <1>3, <2>2, <2>3
  <1>5. PICK f : f = [a \in 1 .. n + 1 |-> IF a = n + 1 THEN m + 1 ELSE g[a]]
    OBVIOUS
  <1>6. /\ more \in Seq(Nat) /\ Len(more) = n + 1 /\ more[n + 1] = now
        /\ \A a \in 1 .. n : more[a] = bucket[a]
    BY <1>2, <1>3, <1>4
  <1>7. /\ \A a \in 1 .. n + 1 : a \in 1 .. n \/ a = n + 1
        /\ f[n + 1] = m + 1 /\ \A a \in 1 .. n : f[a] = g[a] /\ f[a] \in 1 .. m
        /\ f \in [1 .. n + 1 -> 1 .. m + 1]
    BY <1>4, <1>5
  <1>8. \A a, b \in 1 .. n + 1 : a < b => f[a] < f[b]
    <2>1. ASSUME NEW a \in 1 .. n, NEW b \in 1 .. n, a < b PROVE f[a] < f[b]
      BY <1>3, <1>7, <2>1 DEF RlKept
    <2>2. ASSUME NEW a \in 1 .. n PROVE f[a] < f[n + 1]
      BY <1>7
    <2>3. \A a \in 1 .. n + 1 : ~(n + 1 < a)
      BY <1>4
    <2> QED
      BY <1>7, <2>1, <2>2, <2>3
  <1>9. \A a \in 1 .. n + 1 : log[f[a]].key = k /\ log[f[a]].at = more[a] /\ log[f[a]].ok
    BY <1>1, <1>3, <1>6, <1>7 DEF RlKept
  <1>10. ASSUME NEW j \in 1 .. m + 1, log[j].key = k, log[j].ok
         PROVE  (\E a \in 1 .. n + 1 : f[a] = j) \/ RlLeft(log, j, Len(log))
    <2>1. CASE j = m + 1
      BY <1>4, <1>7, <2>1
    <2>2. CASE j \in 1 .. m
      <3>1. (\E a \in 1 .. n : g[a] = j) \/ RlLeft(log, j, Len(log))
        BY <1>3, <1>10, <2>2 DEF RlKept
      <3>2. \A a \in 1 .. n : a \in 1 .. n + 1
        BY <1>4
      <3> QED
        BY <1>7, <3>1, <3>2
    <2> QED
      BY <2>1, <2>2
  <1>11. RlKept(log, m + 1, more, k, f)
    BY <1>6, <1>7, <1>8, <1>9, <1>10 DEF RlKept
  <1> QED
    BY <1>1, <1>2, <1>11

(* The bucket as the call found it is what decided it.                         *)
LEMMA RlKeptCount ==
    ASSUME NEW m \in Nat, NEW log, NEW bucket, NEW k, NEW g, RlKept(log, m, bucket, k, g),
           NEW B, B = RlCounted(bucket, g)
    PROVE  B \in SUBSET (1 .. m) /\ IsFiniteSet(B) /\ Cardinality(B) = Len(bucket)
  <1>0. PICK n : n = Len(bucket)
    OBVIOUS
  <1>1. n \in Nat /\ g \in [1 .. n -> 1 .. m] /\ B = {g[a] : a \in 1 .. n}
    BY <1>0 DEF RlKept, RlCounted
  <1>2. \A a, b \in 1 .. n : a < b => g[a] < g[b]
    BY <1>0 DEF RlKept
  <1>3. g \in Surjection(1 .. n, B)
    BY <1>1 DEF Surjection
  <1>4. \A a, b \in 1 .. n : g[a] = g[b] => a = b
    <2> SUFFICES ASSUME NEW a \in 1 .. n, NEW b \in 1 .. n, a # b PROVE g[a] # g[b]
      OBVIOUS
    <2>1. a < b \/ b < a
      BY <1>1
    <2>2. g[a] \in 1 .. m /\ g[b] \in 1 .. m
      BY <1>1
    <2> QED
      BY <1>2, <2>1, <2>2
  <1>5. g \in Injection(1 .. n, B)
    BY <1>1, <1>4 DEF Injection, IsInjective
  <1>6. IsFiniteSet(1 .. n) /\ Cardinality(1 .. n) = n
    <2>1. 1 \in Int /\ n \in Int
      BY <1>1
    <2>2. IsFiniteSet(1 .. n) /\ Cardinality(1 .. n) = IF 1 > n THEN 0 ELSE n - 1 + 1
      BY <2>1, FS_Interval
    <2> QED
      BY <1>1, <2>2
  <1> QED
    BY <1>0, <1>1, <1>3, <1>5, <1>6, FS_Surjection

LEMMA RlVerdict ==
    ASSUME NEW m \in Nat, NEW log \in Seq(RlEntry), Len(log) = m + 1,
           NEW bucket, NEW g, RlKept(log, m, bucket, log[m + 1].key, g),
           log[m + 1].ok <=> Len(bucket) < RlLimit,
           bucket # <<>> => bucket[1] + RlWindow > log[m + 1].at
    PROVE  RlDecided(log, m + 1)
  <1>1. PICK n : n = Len(bucket)
    OBVIOUS
  <1>2. PICK B : B = RlCounted(bucket, g)
    OBVIOUS
  <1>3. bucket \in Seq(Nat) /\ n \in Nat /\ g \in [1 .. n -> 1 .. m]
    BY <1>1 DEF RlKept
  <1>4. B \in SUBSET (1 .. m) /\ IsFiniteSet(B) /\ Cardinality(B) = n
    BY <1>1, <1>2, RlKeptCount
  <1>5. (m + 1) - 1 = m
    OBVIOUS
  <1>6. CASE log[m + 1].ok
    <2>1. \A j \in 1 .. m : (log[j].key = log[m + 1].key /\ log[j].ok) => j \in B \/ RlLeft(log, j, m + 1)
      BY <1>2 DEF RlKept, RlCounted
    <2> QED
      BY <1>1, <1>4, <1>5, <1>6, <2>1 DEF RlDecided, RlAdmits
  <1>7. CASE ~log[m + 1].ok
    <2>1. n >= RlLimit /\ 1 \in 1 .. n
      BY <1>1, <1>3, <1>7, RlNumbers
    <2>2. bucket[1] + RlWindow > log[m + 1].at /\ log[g[1]].at = bucket[1] /\ g[1] \in 1 .. m
      BY <1>1, <1>3, <2>1 DEF RlKept
    <2>3. ASSUME NEW j \in B
          PROVE  log[j].key = log[m + 1].key /\ log[j].ok /\ g[1] <= j
      <3>1. PICK a \in 1 .. n : j = g[a]
        BY <1>1, <1>2 DEF RlCounted
      <3>2. a = 1 \/ 1 < a
        BY <1>3
      <3>3. g[1] <= g[a]
        BY <1>1, <1>3, <2>1, <3>2 DEF RlKept
      <3>4. log[g[a]].key = log[m + 1].key /\ log[g[a]].ok
        BY <1>1, <3>1 DEF RlKept
      <3> QED
        BY <3>1, <3>3, <3>4
    <2> QED
      BY <1>4, <1>5, <1>7, <2>1, <2>2, <2>3 DEF RlDecided, RlRefuses
  <1> QED
    BY <1>6, <1>7

(* One call of check(): its entry joins the log, the sweep and the trim drop   *)
(* only what left the window, and the entry is decided by what is left.        *)
LEMMA RlCheckKeeps ==
    ASSUME RlInv, NEW t \in RlThreads, RlCheck(t)
    PROVE  RlInv'
  <1>1. PICK key, now : key = rlCall[t][1] /\ now = rlCall[t][2]
    OBVIOUS
  <1>2. PICK sweep \in BOOLEAN : sweep <=> rlCalls + 1 >= RlCleanupEvery
    OBVIOUS
  <1>3. PICK swept : swept = IF sweep THEN RlEvictStale(rlBuckets, now) ELSE rlBuckets
    OBVIOUS
  <1>4. PICK bucket : bucket = RlTrim(swept[key], now)
    OBVIOUS
  <1>5. PICK e : e = [key |-> key, at |-> now, ok |-> Len(bucket) < RlLimit]
    OBVIOUS
  <1>6. PICK log : log = Append(rlLog, e)
    OBVIOUS
  <1>7. /\ rlCall[t] # <<>> /\ rlCall' = [rlCall EXCEPT ![t] = <<>>] /\ rlClock' = rlClock
        /\ rlCalls' = IF sweep THEN 0 ELSE rlCalls + 1
        /\ rlBuckets' = [swept EXCEPT ![key] = IF e.ok THEN Append(bucket, now) ELSE bucket]
        /\ rlLog' = log
    BY <1>1, <1>2, <1>3, <1>4, <1>5, <1>6 DEF RlCheck
  <1>8. /\ rlCall[t] \in RlKeys \X Nat /\ key \in RlKeys /\ now \in Nat /\ now <= rlClock
        /\ rlClock \in Nat
    BY <1>1, <1>7 DEF RlInv, RlTypeOK
  <1>9. PICK m : m = Len(rlLog)
    OBVIOUS
  <1>10. rlLog \in Seq(RlEntry) /\ m \in Nat /\ e \in RlEntry
    BY <1>5, <1>8, <1>9 DEF RlInv, RlTypeOK, RlEntry
  <1>11. /\ log \in Seq(RlEntry) /\ Len(log) = m + 1 /\ log[m + 1] = e
         /\ \A j \in 1 .. m : log[j] = rlLog[j]
    BY <1>6, <1>9, <1>10
  <1>12. \A k \in RlKeys : \E g : RlKept(log, m, rlBuckets[k], k, g)
    BY <1>6, <1>9, <1>10, RlKeptLonger DEF RlInv
  <1>13. DOMAIN swept = RlKeys /\ \A k \in RlKeys : \E g : RlKept(log, m, swept[k], k, g)
    <2>1. DOMAIN swept = RlKeys
      BY <1>3 DEF RlInv, RlTypeOK, RlEvictStale
    <2>2. ASSUME NEW k \in RlKeys PROVE \E g : RlKept(log, m, swept[k], k, g)
      <3>1. CASE swept[k] = rlBuckets[k]
        BY <1>12, <3>1
      <3>2. CASE swept[k] # rlBuckets[k]
        <4>1. PICK b : b = rlBuckets[k]
          OBVIOUS
        <4>2. b \in Seq(Nat) /\ b # <<>> /\ b[Len(b)] + RlWindow <= now /\ swept[k] = <<>>
          BY <1>3, <3>2, <4>1 DEF RlInv, RlTypeOK, RlEvictStale, Last
        <4>3. PICK g : RlKept(log, m, b, k, g)
          BY <1>12, <4>1
        <4>4. \A a \in 1 .. Len(b) : \E c \in a .. Len(b) : b[c] + RlWindow <= log[m + 1].at
          <5>1. Len(b) \in Nat /\ log[m + 1].at = now
            BY <1>5, <1>11, <4>2
          <5>2. \A a \in 1 .. Len(b) : Len(b) \in a .. Len(b)
            BY <5>1
          <5> QED
            BY <4>2, <5>1, <5>2
        <4>5. Len(b) \in 0 .. Len(b) /\ SubSeq(b, Len(b) + 1, Len(b)) = <<>>
          BY <4>2
        <4>6. \E f : RlKept(log, m, SubSeq(b, Len(b) + 1, Len(b)), k, f)
          BY <1>10, <1>11, <4>3, <4>4, <4>5, RlKeptTrimmed
        <4> QED
          BY <4>2, <4>5, <4>6
      <3> QED
        BY <3>1, <3>2
    <2> QED
      BY <2>1, <2>2
  <1>14. PICK g : RlKept(log, m, swept[key], key, g)
    BY <1>8, <1>13
  <1>15. swept[key] \in Seq(Nat)
    BY <1>14 DEF RlKept
  <1>16. PICK d \in 0 .. Len(swept[key]) :
            /\ bucket = SubSeq(swept[key], d + 1, Len(swept[key]))
            /\ \A a \in 1 .. d : swept[key][a] + RlWindow <= now
            /\ d < Len(swept[key]) => swept[key][d + 1] + RlWindow > now
    BY <1>4, <1>8, <1>15, RlTrimmed
  <1>17. log[m + 1].at = now /\ log[m + 1].key = key /\ (log[m + 1].ok <=> Len(bucket) < RlLimit)
    <2>1. e.at = now /\ e.key = key /\ (e.ok <=> Len(bucket) < RlLimit)
      BY <1>5
    <2> QED
      BY <1>11, <2>1
  <1>18. PICK f : RlKept(log, m, bucket, key, f)
    <2>1. PICK b : b = swept[key]
      OBVIOUS
    <2>2. \A a \in 1 .. d : \E c \in a .. Len(b) : b[c] + RlWindow <= log[m + 1].at
      <3>1. \A a \in 1 .. d : a \in a .. Len(b)
        BY <1>15, <1>16, <2>1
      <3> QED
        BY <1>16, <1>17, <2>1, <3>1
    <2> QED
      BY <1>10, <1>11, <1>14, <1>16, <2>1, <2>2, RlKeptTrimmed
  <1>19. bucket # <<>> => bucket[1] + RlWindow > now
    <2>1. PICK b : b = swept[key]
      OBVIOUS
    <2>2. CASE d < Len(b)
      <3>1. bucket[1] = b[d + 1]
        BY <1>15, <1>16, <2>1, <2>2
      <3> QED
        BY <1>16, <2>1, <2>2, <3>1
    <2>3. CASE ~(d < Len(b))
      BY <1>15, <1>16, <2>1, <2>3
    <2> QED
      BY <2>2, <2>3
  <1>20. RlDecided(log, m + 1)
    BY <1>10, <1>11, <1>17, <1>18, <1>19, RlVerdict
  <1>21. \A i \in 1 .. Len(log) : log[i].at <= rlClock /\ RlDecided(log, i)
    <2>1. ASSUME NEW i \in 1 .. m PROVE log[i].at <= rlClock /\ RlDecided(log, i)
      BY <1>6, <1>9, <1>10, <1>11, RlDecidedStays DEF RlInv
    <2>2. \A i \in 1 .. Len(log) : i \in 1 .. m \/ i = m + 1
      BY <1>10, <1>11
    <2> QED
      BY <1>8, <1>17, <1>20, <2>1, <2>2
  <1>22. \A k \in RlKeys : \E h : RlKept(log, m + 1, rlBuckets'[k], k, h)
    <2>1. ASSUME NEW k \in RlKeys, k # key PROVE \E h : RlKept(log, m + 1, rlBuckets'[k], k, h)
      <3>1. rlBuckets'[k] = swept[k]
        BY <1>7, <1>13, <2>1
      <3>2. PICK h : RlKept(log, m, swept[k], k, h)
        BY <1>13
      <3> QED
        BY <1>10, <1>11, <1>17, <2>1, <3>1, <3>2, RlKeptOthers
    <2>2. rlBuckets'[key] = IF log[m + 1].ok THEN Append(bucket, now) ELSE bucket
      BY <1>7, <1>8, <1>11, <1>13
    <2>3. ASSUME log[m + 1].ok PROVE \E h : RlKept(log, m + 1, rlBuckets'[key], key, h)
      <3>1. \E h : RlKept(log, m + 1, Append(bucket, log[m + 1].at), key, h)
        BY <1>10, <1>11, <1>17, <1>18, <2>3, RlKeptAppend
      <3>2. rlBuckets'[key] = Append(bucket, log[m + 1].at)
        BY <1>17, <2>2, <2>3
      <3> QED
        BY <3>1, <3>2
    <2>4. ASSUME ~log[m + 1].ok PROVE \E h : RlKept(log, m + 1, rlBuckets'[key], key, h)
      <3>1. \E h : RlKept(log, m + 1, bucket, key, h)
        BY <1>10, <1>11, <1>18, <2>4, RlKeptOthers
      <3>2. rlBuckets'[key] = bucket
        BY <2>2, <2>4
      <3> QED
        BY <3>1, <3>2
    <2> QED
      BY <2>1, <2>3, <2>4
  <1>23. RlTypeOK'
    <2>1. \A k \in RlKeys : rlBuckets'[k] \in Seq(Nat)
      BY <1>22 DEF RlKept
    <2>2. rlBuckets' \in [RlKeys -> Seq(Nat)]
      <3>1. swept = [k \in RlKeys |-> swept[k]]
        BY <1>3 DEF RlInv, RlTypeOK, RlEvictStale
      <3> QED
        BY <1>7, <2>1, <3>1
    <2>3. rlCall' \in [RlThreads -> {<<>>} \cup (RlKeys \X Nat)]
      BY <1>7 DEF RlInv, RlTypeOK
    <2>4. rlCalls' \in 0 .. RlCleanupEvery - 1
      BY <1>2, <1>7, RlNumbers DEF RlInv, RlTypeOK
    <2> QED
      BY <1>7, <1>8, <1>11, <2>2, <2>3, <2>4 DEF RlTypeOK, RlEntry
  <1>24. \A u \in RlThreads : rlCall'[u] # <<>> => rlCall'[u][2] <= rlClock'
    BY <1>7 DEF RlInv, RlTypeOK
  <1> QED
    BY <1>7, <1>11, <1>21, <1>22, <1>23, <1>24 DEF RlInv

LEMMA RlInitInv == RlInit => RlInv
  <1> SUFFICES ASSUME RlInit PROVE RlInv
    OBVIOUS
  <1>1. RlTypeOK
    BY RlNumbers DEF RlInit, RlTypeOK
  <1>2. ASSUME NEW k \in RlKeys PROVE RlKept(rlLog, Len(rlLog), rlBuckets[k], k, <<>>)
    BY DEF RlInit, RlKept
  <1> QED
    BY <1>1, <1>2 DEF RlInit, RlInv

LEMMA RlStepInv == RlInv /\ [RlNext]_rlVars => RlInv'
  <1> SUFFICES ASSUME RlInv, [RlNext]_rlVars PROVE RlInv'
    OBVIOUS
  <1>1. CASE RlTick
    <2>1. rlClock \in Nat /\ rlClock' = rlClock + 1 /\ UNCHANGED <<rlCall, rlBuckets, rlCalls, rlLog>>
      BY <1>1 DEF RlTick, RlInv, RlTypeOK
    <2>2. RlTypeOK'
      BY <2>1 DEF RlInv, RlTypeOK
    <2>3. \A t \in RlThreads : rlCall[t] # <<>> => rlCall[t] \in RlKeys \X Nat
      BY DEF RlInv, RlTypeOK
    <2>4. \A i \in 1 .. Len(rlLog) : rlLog[i].at \in Nat
      <3>1. rlLog \in Seq(RlEntry)
        BY DEF RlInv, RlTypeOK, RlEntry
      <3>2. \A i \in 1 .. Len(rlLog) : rlLog[i] \in RlEntry
        BY <3>1
      <3> QED
        BY <3>2 DEF RlEntry
    <2> QED
      BY <2>1, <2>2, <2>3, <2>4 DEF RlInv
  <1>2. ASSUME NEW t \in RlThreads, RlCheck(t) PROVE RlInv'
    BY <1>2, RlCheckKeeps
  <1>3. ASSUME NEW t \in RlThreads, NEW k \in RlKeys, RlEnter(t, k) PROVE RlInv'
    <2>1. /\ rlCall' = [rlCall EXCEPT ![t] = <<k, rlClock>>] /\ rlClock \in Nat
          /\ UNCHANGED <<rlClock, rlBuckets, rlCalls, rlLog>>
      BY <1>3 DEF RlEnter, RlInv, RlTypeOK
    <2>2. RlTypeOK' /\ \A u \in RlThreads : rlCall'[u] # <<>> => rlCall'[u][2] <= rlClock
      BY <2>1 DEF RlInv, RlTypeOK
    <2> QED
      BY <2>1, <2>2 DEF RlInv
  <1>4. CASE UNCHANGED rlVars
    BY <1>4 DEF rlVars, RlInv, RlTypeOK
  <1> QED
    BY <1>1, <1>2, <1>3, <1>4 DEF RlNext

LEMMA RlAlwaysInv == RlSpec => []RlInv
  BY RlInitInv, RlStepInv, PTL DEF RlSpec

(* No entry is stamped later than an earlier one by more than RlDelay.         *)
LEMMA RlDelayBounds ==
    ASSUME RlInv
    PROVE  /\ RlDelay \in Nat
           /\ \A i, j \in 1 .. Len(rlLog) : i <= j => rlLog[i].at <= rlLog[j].at + RlDelay
  <1>1. rlLog \in Seq(RlEntry) /\ rlClock \in Nat
    BY DEF RlInv, RlTypeOK, RlEntry
  <1>2. PICK calls : calls = 1 .. Len(rlLog)
    OBVIOUS
  <1>3. \A i \in calls : rlLog[i].at \in Nat /\ rlLog[i].at <= rlClock
    <2>1. \A i \in calls : rlLog[i] \in RlEntry
      BY <1>1, <1>2
    <2> QED
      BY <1>2, <2>1 DEF RlEntry, RlInv
  <1>4. PICK overtaken :
            overtaken = {p \in calls \X calls : p[1] < p[2] /\ rlLog[p[1]].at > rlLog[p[2]].at}
    OBVIOUS
  <1>5. PICK S : S = {0} \cup {rlLog[p[1]].at - rlLog[p[2]].at : p \in overtaken}
    OBVIOUS
  <1>6. DOMAIN rlLog = calls
    BY <1>1, <1>2
  <1>7. RlDelay = Max(S)
    BY <1>4, <1>5, <1>6 DEF RlDelay
  <1>8. S \in SUBSET Nat /\ \A x \in S : x <= rlClock
    <2>1. ASSUME NEW p \in overtaken
          PROVE  rlLog[p[1]].at - rlLog[p[2]].at \in 0 .. rlClock
      <3>1. p[1] \in calls /\ p[2] \in calls /\ rlLog[p[1]].at > rlLog[p[2]].at
        BY <1>4
      <3> QED
        BY <1>1, <1>3, <3>1
    <2> QED
      BY <1>1, <1>5, <2>1
  <1>9. Max(S) \in S /\ \A x \in S : x <= Max(S)
    <2>1. S # {} /\ S \in SUBSET Int /\ rlClock \in Int
      BY <1>1, <1>5, <1>8
    <2> QED
      BY <1>8, <2>1, IntGreatest
  <1>10. ASSUME NEW i \in calls, NEW j \in calls, i <= j
         PROVE  rlLog[i].at <= rlLog[j].at + RlDelay
    <2>1. RlDelay \in Nat /\ rlLog[i].at \in Nat /\ rlLog[j].at \in Nat
      BY <1>3, <1>7, <1>8, <1>9
    <2>2. CASE i < j /\ rlLog[i].at > rlLog[j].at
      <3>1. <<i, j>> \in overtaken
        BY <1>4, <2>2
      <3>2. rlLog[i].at - rlLog[j].at \in S
        BY <1>5, <3>1
      <3> QED
        BY <1>7, <1>9, <2>1, <3>2
    <2>3. CASE i = j \/ rlLog[i].at <= rlLog[j].at
      BY <2>1, <2>3
    <2> QED
      BY <1>2, <1>10, <2>1, <2>2, <2>3
  <1> QED
    BY <1>2, <1>7, <1>8, <1>9, <1>10

(* What left the window by the i-th call is at least a window, less twice the  *)
(* disorder, older than it.                                                    *)
LEMMA RlLeftIsOld ==
    ASSUME RlInv, NEW i \in 1 .. Len(rlLog), NEW j \in 1 .. i, RlLeft(rlLog, j, i)
    PROVE  rlLog[j].at + RlWindow <= rlLog[i].at + 2 * RlDelay
  <1>1. PICK h \in 1 .. i, l \in 1 .. i : j <= l /\ l < h /\ rlLog[l].at + RlWindow <= rlLog[h].at
    BY DEF RlLeft
  <1>2. /\ j \in 1 .. Len(rlLog) /\ l \in 1 .. Len(rlLog) /\ h \in 1 .. Len(rlLog)
        /\ j <= l /\ h <= i
    BY <1>1
  <1>3. rlLog[j].at <= rlLog[l].at + RlDelay /\ rlLog[h].at <= rlLog[i].at + RlDelay /\ RlDelay \in Nat
    BY <1>2, RlDelayBounds
  <1>4. rlLog[j].at \in Nat /\ rlLog[l].at \in Nat /\ rlLog[h].at \in Nat /\ rlLog[i].at \in Nat
    <2>1. rlLog \in Seq(RlEntry)
      BY DEF RlInv, RlTypeOK, RlEntry
    <2>2. \A k \in 1 .. Len(rlLog) : rlLog[k] \in RlEntry
      BY <2>1
    <2> QED
      BY <1>2, <2>2 DEF RlEntry
  <1>5. ASSUME NEW a \in Nat, NEW b \in Nat, NEW c \in Nat, NEW d \in Nat, NEW w \in Nat, NEW e \in Nat,
               a <= b + e, c <= d + e, b + w <= c
        PROVE  a + w <= d + 2 * e
    BY <1>5
  <1>6. RlWindow \in Nat
    BY RlNumbers
  <1> QED
    BY <1>1, <1>3, <1>4, <1>5, <1>6

(* check(): the limit survives the clock read before the lock, the trim and    *)
(* the sweep, up to the disorder of the calls.                                 *)
THEOREM LimitHolds == RlSpec => []RlLimitHolds
  <1>1. RlInv => RlLimitHolds
    <2> SUFFICES ASSUME RlInv, NEW i \in DOMAIN rlLog, rlLog[i].ok
                 PROVE  Cardinality(RlAdmittedBefore(i, RlWindow - 2 * RlDelay)) < RlLimit
      BY DEF RlLimitHolds
    <2>1. rlLog \in Seq(RlEntry) /\ RlDelay \in Nat
      BY RlDelayBounds DEF RlInv, RlTypeOK, RlEntry
    <2>2. i \in 1 .. Len(rlLog) /\ i \in Nat
      BY <2>1
    <2>3. PICK B \in SUBSET (1 .. i - 1) :
              /\ IsFiniteSet(B) /\ Cardinality(B) < RlLimit
              /\ \A j \in 1 .. i - 1 : (rlLog[j].key = rlLog[i].key /\ rlLog[j].ok) =>
                    j \in B \/ RlLeft(rlLog, j, i)
      BY <2>2 DEF RlInv, RlDecided, RlAdmits
    <2>4. ASSUME NEW j \in RlAdmittedBefore(i, RlWindow - 2 * RlDelay) PROVE j \in B
      <3>1. /\ j \in 1 .. i - 1 /\ rlLog[j].key = rlLog[i].key /\ rlLog[j].ok
            /\ rlLog[j].at + (RlWindow - 2 * RlDelay) > rlLog[i].at
        BY DEF RlAdmittedBefore
      <3>2. j \in 1 .. i /\ j \in 1 .. Len(rlLog)
        BY <2>2, <3>1
      <3>3. rlLog[j].at \in Nat /\ rlLog[i].at \in Nat
        <4>1. rlLog[j] \in RlEntry /\ rlLog[i] \in RlEntry
          BY <2>1, <2>2, <3>2
        <4> QED
          BY <4>1 DEF RlEntry
      <3>4. ~(rlLog[j].at + RlWindow <= rlLog[i].at + 2 * RlDelay)
        BY <2>1, <3>1, <3>3, RlNumbers
      <3> QED
        BY <2>2, <2>3, <3>1, <3>2, <3>4, RlLeftIsOld
    <2>5. /\ RlAdmittedBefore(i, RlWindow - 2 * RlDelay) \in SUBSET B
          /\ Cardinality(B) \in Nat
      BY <2>3, <2>4, FS_CardinalityType
    <2>6. PICK A : A = RlAdmittedBefore(i, RlWindow - 2 * RlDelay)
      OBVIOUS
    <2>7. Cardinality(A) <= Cardinality(B) /\ Cardinality(A) \in Nat
      BY <2>3, <2>5, <2>6, FS_Subset, FS_CardinalityType
    <2> QED
      BY <2>3, <2>5, <2>6, <2>7, RlNumbers
  <1> QED
    BY <1>1, RlAlwaysInv, PTL

(* check(): a refused client has used up its own budget, whatever the sweep    *)
(* dropped and whatever other clients did.                                     *)
THEOREM RefusesOnlyAtLimit == RlSpec => []RlRefusesOnlyAtLimit
  <1>1. RlInv => RlRefusesOnlyAtLimit
    <2> SUFFICES ASSUME RlInv, NEW i \in DOMAIN rlLog, ~rlLog[i].ok
                 PROVE  Cardinality(RlAdmittedBefore(i, RlWindow + RlDelay)) >= RlLimit
      BY DEF RlRefusesOnlyAtLimit
    <2>1. rlLog \in Seq(RlEntry) /\ RlDelay \in Nat
      BY RlDelayBounds DEF RlInv, RlTypeOK, RlEntry
    <2>2. i \in 1 .. Len(rlLog) /\ i \in Nat
      BY <2>1
    <2>3. PICK B \in SUBSET (1 .. i - 1), h \in 1 .. i - 1 :
              /\ IsFiniteSet(B) /\ Cardinality(B) >= RlLimit
              /\ \A j \in B : rlLog[j].key = rlLog[i].key /\ rlLog[j].ok /\ h <= j
              /\ rlLog[h].at + RlWindow > rlLog[i].at
      BY <2>2 DEF RlInv, RlDecided, RlRefuses
    <2>4. PICK A : A = RlAdmittedBefore(i, RlWindow + RlDelay)
      OBVIOUS
    <2>5. ASSUME NEW j \in B PROVE j \in A
      <3>1. h \in 1 .. Len(rlLog) /\ j \in 1 .. Len(rlLog) /\ h <= j /\ j \in 1 .. i - 1
        BY <2>2, <2>3
      <3>2. rlLog[h].at <= rlLog[j].at + RlDelay
        BY <3>1, RlDelayBounds
      <3>3. rlLog[h].at \in Nat /\ rlLog[j].at \in Nat /\ rlLog[i].at \in Nat
        <4>1. rlLog[h] \in RlEntry /\ rlLog[j] \in RlEntry /\ rlLog[i] \in RlEntry
          BY <2>1, <2>2, <3>1
        <4> QED
          BY <4>1 DEF RlEntry
      <3>4. rlLog[j].at + (RlWindow + RlDelay) > rlLog[i].at
        <4>1. RlWindow \in Nat
          BY RlNumbers
        <4>2. rlLog[h].at + RlWindow > rlLog[i].at
          BY <2>3
        <4>3. \A x, y, z, w, d \in Nat : x <= y + d /\ x + w > z => y + (w + d) > z
          OBVIOUS
        <4> QED
          BY <2>1, <3>2, <3>3, <4>1, <4>2, <4>3
      <3>5. rlLog[j].key = rlLog[i].key /\ rlLog[j].ok
        BY <2>3
      <3> QED
        BY <2>4, <3>1, <3>4, <3>5 DEF RlAdmittedBefore
    <2>6. A \in SUBSET (1 .. i - 1) /\ B \in SUBSET A
      BY <2>4, <2>5 DEF RlAdmittedBefore
    <2>7. IsFiniteSet(1 .. i - 1)
      BY <2>2, FS_Interval
    <2>8. IsFiniteSet(A) /\ Cardinality(B) <= Cardinality(A)
      BY <2>6, <2>7, FS_Subset
    <2>9. Cardinality(A) \in Nat /\ Cardinality(B) \in Nat
      BY <2>3, <2>8, FS_CardinalityType
    <2> QED
      BY <2>3, <2>4, <2>8, <2>9, RlNumbers
  <1> QED
    BY <1>1, RlAlwaysInv, PTL

(* The clock, the calls, the buckets and the log hold what check() puts there. *)
THEOREM LimiterTyped == RlSpec => []RlTypeOK
  <1>1. RlInv => RlTypeOK
    BY DEF RlInv
  <1> QED
    BY <1>1, RlAlwaysInv, PTL
=============================================================================
