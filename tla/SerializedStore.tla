-------------------------- MODULE SerializedStore --------------------------
(***************************************************************************)
(* What CredentialStore.modify promises, "serialized read-modify-write":   *)
(* every call takes effect at one moment, at most once, on what its        *)
(* provider's credential is at that moment, and touches no other one.      *)
(***************************************************************************)
EXTENDS Naturals

CONSTANTS Calls, Providers

VARIABLES cells,     \* provider -> credential
          job,       \* call -> what it does, and for which provider
          outcome    \* call -> how it ended

\* A refresh replaces a token that can be refreshed by that of a later
\* grant, which can be refreshed too.
Refreshed(old, new) ==
    /\ old.type = "oauth" /\ old.refresh # 0
    /\ new.type = "oauth" /\ new.refresh # 0 /\ new.access > old.access

\* What a call may make of a credential.
MayStore(op, old, new) ==
    \/ op = "login" /\ new.type = "oauth"
    \/ op = "delete" /\ new.type = "none"
    \/ op = "request" /\ (new = old \/ Refreshed(old, new))

Init == outcome = [c \in Calls |-> "open"]

EndAs(c, o) == outcome' = [outcome EXCEPT ![c] = o] /\ UNCHANGED job

\* The call takes effect, on its provider's cell alone.
Modify(c) ==
    LET p == job[c].provider IN
    /\ outcome[c] = "open"
    /\ MayStore(job[c].op, cells[p], cells'[p])
    /\ cells' = [cells EXCEPT ![p] = cells'[p]]
    /\ EndAs(c, "done")

\* The call raises, and has stored nothing.
Fail(c) == outcome[c] = "open" /\ EndAs(c, "failed") /\ UNCHANGED cells

\* The call's process dies, before the moment or after it.
Crash(c) == outcome[c] # "crashed" /\ EndAs(c, "crashed") /\ UNCHANGED cells

Next == \E c \in Calls : Modify(c) \/ Fail(c) \/ Crash(c)

Spec == Init /\ [][Next]_<<cells, job, outcome>>
=============================================================================
