------------------------- MODULE MCCredentialStore --------------------------
(***************************************************************************)
(* CredentialStore for TLC: provider p1 has an OAuth token, p2 a key.  One *)
(* call is a request for p1, another does anything for p1, the third does  *)
(* anything for either.                                                    *)
(***************************************************************************)
EXTENDS CredentialStore

CONSTANTS c1, c2, p1, p2

MCInit ==
    /\ Init
    /\ file[p1].type = "oauth" /\ file[p2] = Key
    /\ job[c1] = [op |-> "request", provider |-> p1] /\ job[c2].provider = p1

MCSpec == MCInit /\ [][Next]_vars /\ \A c \in Calls : WF_vars(Step(c))
=============================================================================
