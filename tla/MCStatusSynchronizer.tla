------------------------ MODULE MCStatusSynchronizer ------------------------
(***************************************************************************)
(* Configurations for TLC: what an operator may write, right and wrong.    *)
(***************************************************************************)
EXTENDS StatusSynchronizer

\* The defaults, without statistics, and with two credentials; what is constructible
\* differs only in whether the collector is wanted.
Accepted == {Defaults, [Defaults EXCEPT !.stats_enabled = FALSE],
             [Defaults EXCEPT !.auth_type = AUTH_TYPE_BASIC,
                              !.credentials = {"username", "password"}]}

\* Credentials that are missing, incomplete or another auth_type's.
WithoutCredentials ==
  {[Defaults EXCEPT !.auth_type = a, !.credentials = c] :
     a \in {AUTH_TYPE_BASIC, AUTH_TYPE_TOKEN, AUTH_TYPE_TLS},
     c \in {{}, {"username"}, {"tls_client_key_file"}}}

WithoutEndpoints ==
  {[Defaults EXCEPT !.api_endpoints = e] : e \in {{}, {"malformed"}, {"url", "malformed"}}}

Written == Accepted \cup WithoutCredentials \cup WithoutEndpoints
=============================================================================
