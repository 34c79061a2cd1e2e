---------------------------- MODULE MCLdapSession ----------------------------
(* TLC instance of LdapSession: one client, pipelining up to MaxInFlight.    *)
EXTENDS LdapSession
=============================================================================
