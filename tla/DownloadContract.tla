-------------------------- MODULE DownloadContract --------------------------
(***************************************************************************)
(* What download::download promises its callers (subdirdata.cpp,            *)
(* transaction.cpp): each request is decided once, in any order; the call   *)
(* returns when all are, with the outcome of each; or it gives up, by an    *)
(* exception or an interruption, at any time before.  Of a request whose     *)
(* failure is ignored nothing can be told from what is returned for it.      *)
(***************************************************************************)
CONSTANTS Requests, Lenient

VARIABLES
    outcome,    \* what became of each request
    call,       \* the call to download()
    result      \* what it returned

vars == <<outcome, call, result>>

Pending == [r \in Requests |-> "pending"]

\* A request with no usable mirror fails before anything is started.
Init ==
    /\ outcome \in [Requests -> {"pending", "error"}]
    /\ call = "running"
    /\ result = Pending

Decide(r) ==
    /\ call = "running" /\ outcome[r] = "pending"
    /\ \E o \in {"success", "error"} : outcome' = [outcome EXCEPT ![r] = o]
    /\ UNCHANGED <<call, result>>

Return ==
    /\ call = "running" /\ \A r \in Requests : outcome[r] # "pending"
    /\ call' = "returned"
    /\ result' \in [Requests -> {"success", "error"}]
    /\ \A r \in Requests \ Lenient : result'[r] = outcome[r]
    /\ UNCHANGED outcome

\* The exception may come while one last request is being decided.
GiveUp ==
    /\ call = "running"
    /\ call' = "abandoned"
    /\ \/ UNCHANGED outcome
       \/ \E r \in Requests : outcome[r] = "pending" /\ outcome' = [outcome EXCEPT ![r] = "error"]
    /\ UNCHANGED result

Next == (\E r \in Requests : Decide(r)) \/ Return \/ GiveUp

Spec == Init /\ [][Next]_vars
=============================================================================
