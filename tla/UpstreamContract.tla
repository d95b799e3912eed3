-------------------------- MODULE UpstreamContract --------------------------
(***************************************************************************)
(* What call() of an upstream promises to the scatter that calls it, with  *)
(* nothing of how it is done: every call gets one answer, the answer is    *)
(* one the classification allows, and it stays as it is until the caller   *)
(* has taken it.  Upstream.tla implements this specification.              *)
(***************************************************************************)
EXTENDS UpstreamErrors

CONSTANTS
    Callers,       \* concurrent calls
    RequireBody,   \* policy.require_body
    LimitBody      \* policy.max_response_body_size > 0

VARIABLES
    phase,    \* "idle", "pending" or "done", for each caller
    answer    \* the answer of a call that is done

NoAnswer == [kind |-> NoError, status |-> 0, body |-> "empty", sent |-> FALSE]

\* The answers call() may give: a status only when an attempt was sent, the
\* status the error kind stands for, and a body that satisfies the policy in
\* every answer that can be forwarded to the client.
PromisedAnswers ==
    {a \in [kind : Kinds \union {NoError}, status : 0 .. 599,
            body : {"empty", "fits", "too_large"}, sent : BOOLEAN] :
        /\ Promised(a.kind, a.status)
        /\ a.status # 0 => a.sent
        /\ a.kind = NoError \/ isPropagatable(a.kind) =>
             /\ RequireBody => a.body # "empty"
             /\ LimitBody => a.body # "too_large"}

Init ==
    /\ phase = [c \in Callers |-> "idle"]
    /\ answer = [c \in Callers |-> NoAnswer]

Start(c) ==
    /\ phase[c] = "idle"
    /\ phase' = [phase EXCEPT ![c] = "pending"]
    /\ UNCHANGED answer

Answer(c) ==
    /\ phase[c] = "pending"
    /\ phase' = [phase EXCEPT ![c] = "done"]
    /\ answer'[c] \in PromisedAnswers
    /\ answer' = [answer EXCEPT ![c] = answer'[c]]

Take(c) ==
    /\ phase[c] = "done"
    /\ phase' = [phase EXCEPT ![c] = "idle"]
    /\ answer' = [answer EXCEPT ![c] = NoAnswer]

Next == \E c \in Callers : Start(c) \/ Answer(c) \/ Take(c)

Spec == Init /\ [][Next]_<<phase, answer>>
=============================================================================
