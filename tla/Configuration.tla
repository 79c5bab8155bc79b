---------------------------- MODULE Configuration ----------------------------
(***************************************************************************)
(* The options of [loxilb], common/config.py, by which the constructor of  *)
(* LoxiLBClient and that of the driver decide what a starting process does. *)
(***************************************************************************)
AUTH_TYPE_NONE == "none"
AUTH_TYPE_BASIC == "password"
AUTH_TYPE_TOKEN == "token"
AUTH_TYPE_TLS == "tls"

\* Of the 20 options the eight that decide whether a process starts and what it does:
\* which kinds of strings api_endpoints holds and which credentials are not empty.
Options ==
  [api_endpoints : SUBSET {"url", "malformed"},
   auth_type : {AUTH_TYPE_NONE, AUTH_TYPE_BASIC, AUTH_TYPE_TOKEN, AUTH_TYPE_TLS},
   credentials : SUBSET {"username", "password", "api_token",
                         "tls_client_cert_file", "tls_client_key_file"},
   stats_enabled : BOOLEAN]

Defaults == [api_endpoints |-> {"url"}, auth_type |-> AUTH_TYPE_NONE, credentials |-> {},
             stats_enabled |-> TRUE]

\* The credentials each auth_type takes.
Credentials(auth_type) ==
  CASE auth_type = AUTH_TYPE_BASIC -> {"username", "password"}
    [] auth_type = AUTH_TYPE_TOKEN -> {"api_token"}
    [] auth_type = AUTH_TYPE_TLS   -> {"tls_client_cert_file", "tls_client_key_file"}
    [] OTHER                       -> {}

\* One malformed URL is enough for the constructor to raise; so is none at all.
parse_endpoints(c) == c.api_endpoints # {} /\ "malformed" \notin c.api_endpoints

\* The session is given both credentials of a pair, or the constructor raises.
setup_authentication(c) == Credentials(c.auth_type) \subseteq c.credentials

\* LoxiLBClient(config) returns a client.
Constructible(c) == parse_endpoints(c) /\ setup_authentication(c)
=============================================================================
