--------------------------- MODULE MCSetupConfig ----------------------------
(* Small instance of SetupConfig: the environments to start in (nothing, the   *)
(* secret, the public URL, a whole provider, an issuer without its secret) and *)
(* the bodies of the saves, one with URLs that are nothing but slashes.        *)
EXTENDS SetupConfig

MCSettings(issuer, secret, redirect, url) ==
    [oidc_issuer |-> issuer, oidc_client_secret |-> secret,
     oidc_redirect_uri |-> redirect, public_url |-> url]
MCEnvs == {
    ScUnset,
    MCSettings(<<>>, <<"s">>, <<>>, <<>>),
    MCSettings(<<>>, <<>>, <<>>, <<"B", "/">>),
    MCSettings(<<"i", "/">>, <<"s">>, <<>>, <<>>),
    MCSettings(<<"i">>, <<>>, <<>>, <<>>)}
MCBodies == {
    MCSettings(<<"i">>, <<"s">>, <<>>, <<"A">>),
    MCSettings(<<"j", "/">>, <<"t">>, <<"R">>, <<"B", "/">>),
    MCSettings(<<"i">>, <<>>, <<>>, <<>>),
    MCSettings(<<>>, <<"t">>, <<>>, <<>>),
    MCSettings(<<>>, <<>>, <<>>, <<"B">>),
    MCSettings(<<"/">>, <<"s">>, <<>>, <<"/">>)}
=============================================================================
