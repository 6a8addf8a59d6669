--------------------------- MODULE MCAuthSession ---------------------------
(***************************************************************************)
(* Small instances of AuthSession for TLC.                                 *)
(***************************************************************************)
EXTENDS AuthSession

CONSTANTS t1, t2

\* Ordinary use with everything Keycloak, the network and the auth database can
\* do; sessions that come and go; and first requests that race.
Everyday ==
    { {"revoke", "lapse", "fail", "lost", "savefail"},
      {"signin", "signout", "savefail"},
      {"logout", "restart", "cold"} }

\* Two threads, nothing loaded yet.
ColdStart == { {"cold"} }

\* Signing out under a running request.
SignOutOnly == { {"signout"} }
=============================================================================
