------------------------------- MODULE Grant -------------------------------
(***************************************************************************)
(* What iron-oidcd promises a relying party about the authorization code   *)
(* flow (RFC 6749 section 4.1), with no code store, no requests and no     *)
(* directory: one login is one grant to one client, and it pays out one    *)
(* pair of tokens, to that client, or none at all.                         *)
(*                                                                         *)
(* Module Oidc, the detailed model of the server, implements this one.     *)
(***************************************************************************)
EXTENDS Naturals, Sequences

CONSTANTS
    Codes,      \* every authorization code there can be
    Clients,    \* the registered relying parties
    Nobody      \* stands for "no client": not a member of Clients

VARIABLES
    status,     \* [Codes -> {"none", "live", "spent", "void"}]
    holder,     \* [Codes -> Clients \cup {Nobody}]: whom the login was for
    paid        \* [Codes -> Seq(Clients)]: who was given tokens for it

gvars == <<status, holder, paid>>

Init ==
    /\ status = [c \in Codes |-> "none"]
    /\ holder = [c \in Codes |-> Nobody]
    /\ paid   = [c \in Codes |-> << >>]

\* A login for client cl succeeds.
Give(c, cl) ==
    /\ status[c] = "none"
    /\ status' = [status EXCEPT ![c] = "live"]
    /\ holder' = [holder EXCEPT ![c] = cl]
    /\ UNCHANGED paid

\* The grant pays out, to its holder, and is spent by that.
Redeem(c) ==
    /\ status[c] = "live"
    /\ status' = [status EXCEPT ![c] = "spent"]
    /\ paid'   = [paid EXCEPT ![c] = Append(@, holder[c])]
    /\ UNCHANGED holder

\* Some live grants lapse: a late or misdirected redemption, or a restart.
Lapse(S) ==
    /\ S # {}
    /\ \A c \in S : status[c] = "live"
    /\ status' = [c \in Codes |-> IF c \in S THEN "void" ELSE status[c]]
    /\ UNCHANGED <<holder, paid>>

Next ==
    \/ \E c \in Codes, cl \in Clients : Give(c, cl)
    \/ \E c \in Codes : Redeem(c)
    \/ \E S \in SUBSET Codes : Lapse(S)

Spec == Init /\ [][Next]_gvars
=============================================================================
