---------------------------- MODULE AuthSession ----------------------------
(* Login through the identity provider and the server-side sessions it yields:*)
(* app/auth/router.py, oidc.py, jwt.py, sessions.py, dependencies.py.  One     *)
(* browser (one cookie jar) with several tabs; the provider, its signing key   *)
(* and the user's group membership are external.  A callback suspends at every *)
(* await, so ticks, key rotations, reconfigurations and the other tab's        *)
(* requests fall between its steps.                                            *)
EXTENDS Naturals, Sequences, FiniteSets

CONSTANTS
    AsTabs,          \* browser tabs
    AsHandshakeTtl,  \* lifetime of the handshake cookie (900 s)
    AsJwksTtl,       \* _JWKS_CACHE_TTL (300 s)
    AsTokenTtl,      \* lifetime the provider gives an ID token
    AsLeeway,        \* clock leeway of verify_id_token (30 s)
    AsSessionTtl,    \* session_ttl_seconds
    AsMaxClock, AsMaxLogins, AsMaxRotations, \* bounds
    AsMaxConfigs     \* bound: OIDC configurations, in the order they are saved

ASSUME AsAssumption ==
    /\ {AsHandshakeTtl, AsJwksTtl, AsTokenTtl, AsLeeway, AsSessionTtl} \subseteq Nat
    /\ {AsMaxLogins, AsMaxRotations} \subseteq Nat
    /\ {AsMaxClock, AsMaxConfigs} \subseteq Nat \ {0}

(* Each configuration names a provider of its own.                             *)
AsConfs == 1 .. AsMaxConfigs

VARIABLES
    asClock,
    asConf,      \* the configuration in force (the issuer is never cleared)
    asKey,       \* external: [number, since] of each provider's signing key
    asLeft,      \* external: when the user left the analysts' group; 0: not yet
    asJwks,      \* _client_cache: per configuration the cached [number, at]
    asHandshake, \* the browser's packetkage_oidc cookie
    asSession,   \* the browser's session cookie
    asTab,       \* per tab: where its login is
    asLogins,    \* logins answered so far (the last state value handed out)
    asRows,      \* table auth_sessions
    asDone       \* history: the callback verified last
asVars == <<asClock, asConf, asKey, asLeft, asJwks, asHandshake, asSession, asTab,
            asLogins, asRows, asDone>>

AsNone == [id |-> 0]
AsIdle == [pc |-> "idle"]
AsNoKeys == [number |-> 0, at |-> 0]

AsInit ==
    /\ asClock = 1
    /\ asConf = 1
    /\ asKey = [c \in AsConfs |-> [number |-> 1, since |-> 0]]
    /\ asLeft = 0
    /\ asJwks = [c \in AsConfs |-> AsNoKeys]
    /\ asHandshake = AsNone /\ asSession = 0
    /\ asTab = [b \in AsTabs |-> AsIdle]
    /\ asLogins = 0
    /\ asRows = {}
    /\ asDone = {}

-----------------------------------------------------------------------------
(* Fault: a handshake that is under way is kept.                               *)
AsKeepHandshake(old, id) ==
    IF old # AsNone THEN old ELSE [id |-> id, until |-> asClock + AsHandshakeTtl]

(* GET /login: the client of the configuration in force is asked for the URL   *)
(* of the provider, which awaits the provider's metadata.                      *)
AsLogin(b) ==
    /\ asTab[b] = AsIdle
    /\ asLogins < AsMaxLogins
    /\ asTab' = [asTab EXCEPT ![b] = [pc |-> "metadata", conf |-> asConf]]
    /\ UNCHANGED <<asClock, asConf, asKey, asLeft, asJwks, asHandshake, asSession, asLogins, asRows, asDone>>

(* The rest of login.  State, nonce and verifier are fresh: one number stands  *)
(* for the three, given in the order of the responses.  The new cookie         *)
(* replaces whatever handshake the browser had.                                *)
AsSetHandshake(old, id) == [id |-> id, until |-> asClock + AsHandshakeTtl]

AsRedirect(b) ==
    /\ asTab[b].pc = "metadata"
    /\ asLogins < AsMaxLogins
    /\ asLogins' = asLogins + 1
    /\ asHandshake' = AsSetHandshake(asHandshake, asLogins + 1)
    /\ asTab' = [asTab EXCEPT ![b] =
                    [pc |-> "provider", id |-> asLogins + 1, conf |-> asTab[b].conf]]
    /\ UNCHANGED <<asClock, asConf, asKey, asLeft, asJwks, asSession, asRows, asDone>>

(* _fail_redirect: nothing is stored and the handshake cookie stays.            *)
AsFail(b) == asTab' = [asTab EXCEPT ![b] = AsIdle]

(* The provider sends the tab back to /callback with its code and state.  The  *)
(* handler refuses it without a matching handshake cookie; the cookie stays.   *)
AsCallback(b) ==
    /\ asTab[b].pc = "provider"
    /\ IF asHandshake # AsNone /\ asClock <= asHandshake.until /\ asHandshake.id = asTab[b].id
       THEN asTab' = [asTab EXCEPT ![b] =
                    [pc |-> "exchange", id |-> asTab[b].id, conf |-> asTab[b].conf,
                     client |-> asConf, nonce |-> asHandshake.id, latest |-> asLogins]]
       ELSE AsFail(b)
    /\ UNCHANGED <<asClock, asConf, asKey, asLeft, asJwks, asHandshake, asSession, asLogins, asRows, asDone>>

(* The token endpoint (external): it knows only codes of its own logins, signs *)
(* with its current key and reports the groups of this moment.                 *)
AsToken(b) ==
    /\ asTab[b].pc = "exchange"
    /\ IF asTab[b].client = asTab[b].conf
       THEN asTab' = [asTab EXCEPT ![b] =
                    [pc |-> "verify", id |-> asTab[b].id, client |-> asTab[b].client,
                     nonce |-> asTab[b].nonce, latest |-> asTab[b].latest,
                     token |-> [key |-> asKey[asTab[b].client].number, issued |-> asClock,
                                exp |-> asClock + AsTokenTtl, nonce |-> asTab[b].id,
                                member |-> asLeft = 0]]]
       ELSE AsFail(b)
    /\ UNCHANGED <<asClock, asConf, asKey, asLeft, asJwks, asHandshake, asSession, asLogins, asRows, asDone>>

(* Fault: keys are cached for the life of the process.                         *)
AsFreshForEver(c) == asJwks[c].number # 0

(* jwks(): the cached document until it is older than the TTL; an unknown key  *)
(* does not make it fetch again.                                               *)
AsFresh(c) == asJwks[c].number # 0 /\ asClock - asJwks[c].at <= AsJwksTtl
AsJwksNow(c) == IF AsFresh(c) THEN asJwks[c] ELSE [number |-> asKey[c].number, at |-> asClock]

(* verify_id_token: the key must be known, the token unexpired, the nonce ours.*)
AsUnexpired(token) == token.exp + AsLeeway >= asClock
AsReason(token, jwks, nonce) ==
    IF jwks.number # token.key THEN "unknown_key"
    ELSE IF ~AsUnexpired(token) THEN "expired"
    ELSE IF token.nonce # nonce THEN "nonce" ELSE "ok"

(* The rest of callback: keys, verification, the session row, the cookies.     *)
AsVerify(b) ==
    /\ asTab[b].pc = "verify"
    /\ LET tab == asTab[b]
           jwks == AsJwksNow(tab.client)
           why == AsReason(tab.token, jwks, tab.nonce)
       IN  /\ asJwks' = [asJwks EXCEPT ![tab.client] = jwks]
           /\ asTab' = [asTab EXCEPT ![b] = AsIdle]
           /\ asDone' =
                  {[why |-> why, id |-> tab.id, at |-> asClock, latest |-> tab.latest,
                    stale |-> asKey[tab.client].since < tab.token.issued,
                    since |-> asKey[tab.client].since]}
           /\ IF why = "ok"
              THEN /\ asRows' = asRows \cup {[id |-> tab.id, member |-> tab.token.member,
                                              until |-> asClock + AsSessionTtl]}
                   /\ asSession' = tab.id
                   /\ asHandshake' = AsNone
              ELSE UNCHANGED <<asRows, asSession, asHandshake>>
    /\ UNCHANGED <<asClock, asConf, asKey, asLeft, asLogins>>

(* The provider or the network fails a login or callback at one of its awaits. *)
AsOutage(b) ==
    /\ asTab[b].pc \in {"metadata", "exchange", "verify"}
    /\ AsFail(b)
    /\ UNCHANGED <<asClock, asConf, asKey, asLeft, asJwks, asHandshake, asSession, asLogins, asRows, asDone>>

-----------------------------------------------------------------------------
(* Fault: the expiry of the row is not looked at.                              *)
AsValidForEver(row) == row.member

(* session_is_valid, with require_user's demand for a role.                    *)
AsValid(row) == asClock < row.until /\ row.member

(* get_current_user and require_user: is the browser's request served now?     *)
AsServed == \E row \in asRows : row.id = asSession /\ AsValid(row)

(* POST /logout deletes the row; the browser keeps the cookie.                 *)
AsLogout ==
    /\ \E row \in asRows : row.id = asSession
    /\ asRows' = {row \in asRows : row.id # asSession}
    /\ UNCHANGED <<asClock, asConf, asKey, asLeft, asJwks, asHandshake, asSession, asTab, asLogins, asDone>>

(* External: time passes, a provider rotates its key, the user leaves the group.*)
AsTick ==
    /\ asClock < AsMaxClock
    /\ asClock' = asClock + 1
    /\ UNCHANGED <<asConf, asKey, asLeft, asJwks, asHandshake, asSession, asTab, asLogins, asRows, asDone>>

AsRotate ==
    /\ asKey[asConf].number <= AsMaxRotations
    /\ asKey' = [asKey EXCEPT ![asConf] = [number |-> @.number + 1, since |-> asClock]]
    /\ UNCHANGED <<asClock, asConf, asLeft, asJwks, asHandshake, asSession, asTab, asLogins, asRows, asDone>>

AsLeave ==
    /\ asLeft = 0
    /\ asLeft' = asClock
    /\ UNCHANGED <<asClock, asConf, asKey, asJwks, asHandshake, asSession, asTab, asLogins, asRows, asDone>>

(* An administrator saves another configuration: the sessions stay.            *)
AsReconfigure ==
    /\ asConf < AsMaxConfigs
    /\ asConf' = asConf + 1
    /\ UNCHANGED <<asClock, asKey, asLeft, asJwks, asHandshake, asSession, asTab, asLogins, asRows, asDone>>

(* The server restarts: client cache and running requests are gone, rows stay. *)
AsRestart ==
    /\ \E c \in AsConfs : asJwks[c] # AsNoKeys
    /\ asJwks' = [c \in AsConfs |-> AsNoKeys]
    /\ asTab' = [b \in AsTabs |-> IF asTab[b].pc \in {"metadata", "exchange", "verify"} THEN AsIdle ELSE asTab[b]]
    /\ UNCHANGED <<asClock, asConf, asKey, asLeft, asHandshake, asSession, asLogins, asRows, asDone>>

AsNext ==
    \/ \E b \in AsTabs : \/ AsLogin(b) \/ AsRedirect(b) \/ AsCallback(b)
                        \/ AsToken(b) \/ AsVerify(b) \/ AsOutage(b)
    \/ AsLogout \/ AsTick \/ AsRotate \/ AsLeave \/ AsReconfigure \/ AsRestart

AsSpec == AsInit /\ [][AsNext]_asVars

-----------------------------------------------------------------------------
AsTypeOK ==
    /\ asClock \in 1 .. AsMaxClock /\ asConf \in AsConfs
    /\ asLeft \in 0 .. AsMaxClock 
    /\ asLogins \in 0 .. AsMaxLogins /\ asSession \in 0 .. AsMaxLogins
    /\ asHandshake.id \in 0 .. AsMaxLogins
    /\ \A b \in AsTabs : asTab[b].pc \in {"idle", "metadata", "provider", "exchange", "verify"}
    /\ asRows \subseteq [id : 1 .. AsMaxLogins, member : BOOLEAN, until : Nat]

(* Of several logins in one browser only the one answered last can become a    *)
(* session, whatever order the tabs come back in.                              *)
AsSessionOfLastLogin == \A d \in asDone : d.why = "ok" => d.id = d.latest

(* A key rotation costs logins for a bounded time: a token is refused for its  *)
(* key only within the cache's lifetime after the rotation, unless the         *)
(* rotation fell between the token and its verification.                       *)
AsRotationHeals ==
    \A d \in asDone : d.why = "unknown_key" => (d.at <= d.since + AsJwksTtl \/ ~d.stale)

(* Leaving the group takes effect: the user's requests are served after that   *)
(* only for what is left of a token's life, its leeway and one session.        *)
AsLeaverIsOut ==
    (asLeft # 0 /\ AsServed) => asClock < asLeft + AsTokenTtl + AsLeeway + AsSessionTtl
=============================================================================
