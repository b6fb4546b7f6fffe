------------------------------- MODULE Gateway -------------------------------
(***************************************************************************)
(* The model gateway (model/openai_compatible.py) and the usage records it *)
(* feeds (runtime/usage.py): one budgeted model call of an agent becomes   *)
(* several requests to the provider, because transient errors and timeouts *)
(* are retried and an answer that does not parse is corrected.             *)
(*                                                                         *)
(* The provider is external: it may answer a request the gateway has given *)
(* up on, and bills every request it answers.  The process may die in a    *)
(* call; the call is then made again under the same call key.              *)
(***************************************************************************)
EXTENDS Integers, Sequences, FiniteSets

CONSTANTS
    Plan,          \* the calls of the run: a sequence of [op, scope]
    MaxAttempts,   \* _max_attempts
    Answers,       \* what the provider may answer
    MaxLate,       \* how many requests late an answer may come (bound)
    MaxCrashes,    \* restarts (bound)
    MaxFaults,     \* usage events the store fails to take (bound)
    None

_MAX_STRUCTURED_CORRECTIONS == 2

Ops == {"complete", "next_action", "finalize"}
Scopes == {"repair", "post_run"}

ASSUME GatewayAssumption ==
    /\ Plan \in Seq([op : Ops, scope : Scopes])
    /\ MaxAttempts \in Nat \ {0} /\ MaxCrashes \in Nat /\ MaxFaults \in Nat
    /\ MaxLate \in Nat /\ None \notin Nat
    /\ Answers \subseteq [valid : BOOLEAN, meta : Nat, token_usage : Nat, hasId : BOOLEAN]

VARIABLES
    n,          \* the call of Plan being made
    pc,         \* "idle", "send", "wait" or "backoff"
    stage,      \* 0: the request of the call; 1, 2: its corrections
    attempt,    \* the attempt of _retry
    sent,       \* requests sent so far; the last one is number sent
    answered,   \* requests the provider has answered, of the last MaxLate + 1
    observer,   \* make_usage_observer of the call: its nonce and its sequence
    calls,      \* MODEL_CALL events
    usage,      \* MODEL_USAGE events
    outcomes,   \* what each call of Plan returned or raised
    received,   \* answers that reached the gateway, and the repair's without counts (history)
    tries,      \* requests of the call in this process (history)
    crashes, faults

vars == <<n, pc, stage, attempt, sent, answered, observer, calls, usage, outcomes,
          received, tries, crashes, faults>>

Call == Plan[n]
Structured == Call.op # "next_action"

Init ==
    /\ n = 1 /\ pc = "idle" /\ stage = 0 /\ attempt = 1 /\ sent = 0 /\ answered = {}
    /\ observer = [nonce |-> 0, seq |-> 0] /\ calls = {} /\ usage = {}
    /\ outcomes = [i \in DOMAIN Plan |-> None] /\ received = [all |-> 0, silent |-> 0] /\ tries = 0
    /\ crashes = 0 /\ faults = 0

(***************************************************************************)
(* The provider (external)                                                 *)
(***************************************************************************)
\* An answer parses as asked or not (valid), counts tokens in usage_metadata
\* (meta) or in the response's token_usage, and has an id or none (hasId).

\* The requests that may still be answered when k have been sent.
Recent(k) == {r \in 1 .. k : r >= k - MaxLate}

\* A request that was sent may be answered, now or after it was given up.
ProviderAnswers(r) ==
    /\ r \in Recent(sent) \ answered
    /\ answered' = answered \cup {r}
    /\ UNCHANGED <<n, pc, stage, attempt, sent, observer, calls, usage, outcomes,
                   received, tries, crashes, faults>>

(***************************************************************************)
(* Usage                                                                   *)
(***************************************************************************)
\* The counts of usage_metadata, those of token_usage where it has none.
_extract_usage(r, a) ==
    [tokens |-> IF a.meta = 0 THEN a.token_usage ELSE a.meta,
     id |-> IF a.hasId THEN r ELSE None]

\* mutant: without an id the key is only the sequence number of the observer
make_usage_observerUnnamed(u) ==
    [call |-> n, scope |-> Call.scope, tokens |-> u.tokens,
     key |-> IF u.id # None THEN <<"request", u.id>> ELSE <<"observer", 0, observer.seq + 1>>]

\* The event of an observation: its key is the provider's id, or the observer's
\* nonce and sequence number.
make_usage_observer(u) ==
    [call |-> n, scope |-> Call.scope, tokens |-> u.tokens,
     key |-> IF u.id # None THEN <<"request", u.id>>
             ELSE <<"observer", observer.nonce, observer.seq + 1>>]

\* The store keeps the first event with an id; what it raises is swallowed.
_observe_usage(r, a) ==
    LET e == make_usage_observer(_extract_usage(r, a))
    IN  /\ observer' = [observer EXCEPT !.seq = @ + 1]
        /\ \/ /\ usage' = IF \E f \in usage : f.call = e.call /\ f.key = e.key
                          THEN usage ELSE usage \cup {e}
              /\ UNCHANGED faults
           \/ /\ faults < MaxFaults /\ faults' = faults + 1 /\ UNCHANGED usage

\* mutant: one reported usage is enough
usage_complete_from_eventsAny ==
    LET Repair(S) == {e \in S : e.scope # "post_run"}
    IN  Repair(calls) # {} => \E e \in Repair(usage) : e.tokens # 0

\* Shown to the Supervisor and stored with the run's outcome.
usage_complete_from_events ==
    LET Repair(S) == {e \in S : e.scope # "post_run"}
    IN  /\ Repair(calls) # {} => Repair(usage) # {}
        /\ \A e \in Repair(usage) : e.tokens # 0

(***************************************************************************)
(* A call                                                                  *)
(***************************************************************************)
\* The tool loop, or post-run learning, which emits its MODEL_CALL first, calls
\* the gateway with a new observer.
Begins ==
    /\ pc = "idle" /\ n <= Len(Plan)
    /\ calls' = IF Call.scope = "post_run" THEN calls \cup {[call |-> n, scope |-> Call.scope]}
                ELSE calls
    /\ observer' = [nonce |-> observer.nonce + 1, seq |-> 0]
    /\ pc' = "send" /\ stage' = 0 /\ attempt' = 1 /\ tries' = 0
    /\ UNCHANGED <<n, sent, answered, usage, outcomes, received, crashes, faults>>

\* One attempt of _retry: the request goes out under wait_for.
Sends ==
    /\ pc = "send"
    /\ sent' = sent + 1 /\ tries' = tries + 1 /\ pc' = "wait"
    /\ answered' = answered \cap Recent(sent + 1)
    /\ UNCHANGED <<n, stage, attempt, observer, calls, usage, outcomes,
                   received, crashes, faults>>

\* The call returns or raises; the tool loop then emits MODEL_CALL, except for a
\* cancellation, which it does not catch.
EndsWith(result, r) ==
    /\ calls' = IF Call.scope = "repair" /\ result # "cancelled"
                THEN calls \cup {[call |-> n, scope |-> Call.scope]} ELSE calls
    /\ outcomes' = [outcomes EXCEPT ![n] = [result |-> result, request |-> r, last |-> sent]]
    /\ n' = n + 1 /\ pc' = "idle"
    /\ UNCHANGED <<stage, attempt>>

Ends(result) == EndsWith(result, sent)

\* mutant: the last attempt has no timeout
_retryUntimed ==
    /\ pc = "wait" /\ attempt < MaxAttempts
    /\ attempt' = attempt + 1 /\ pc' = "backoff"
    /\ UNCHANGED <<n, stage, outcomes, calls>>
    /\ UNCHANGED <<sent, answered, observer, usage, received, tries, crashes, faults>>

\* A timeout or a transient error: another attempt after the back-off, or the
\* typed error of a call whose attempts are used up.
_retry ==
    /\ pc = "wait"
    /\ \/ /\ attempt < MaxAttempts
          /\ attempt' = attempt + 1 /\ pc' = "backoff"
          /\ UNCHANGED <<n, stage, outcomes, calls>>
       \/ /\ attempt >= MaxAttempts
          /\ Ends("ModelGatewayError")
    /\ UNCHANGED <<sent, answered, observer, usage, received, tries, crashes, faults>>

BackoffEnds ==
    /\ pc = "backoff"
    /\ pc' = "send"
    /\ UNCHANGED <<n, stage, attempt, sent, answered, observer, calls, usage, outcomes,
                   received, tries, crashes, faults>>

\* Any other error of the provider leaves the call as it is.
OtherError ==
    /\ pc = "wait"
    /\ Ends("error")
    /\ UNCHANGED <<sent, answered, observer, usage, received, tries, crashes, faults>>

\* mutant: corrections are not counted
CorrectsAlways ==
    /\ stage' = stage /\ attempt' = 1 /\ pc' = "send"
    /\ UNCHANGED <<n, outcomes, calls>>

\* A content error of a structured call: _plain_json asks again, with attempts of
\* its own, at most _MAX_STRUCTURED_CORRECTIONS times.
Corrects ==
    \/ /\ stage < _MAX_STRUCTURED_CORRECTIONS
       /\ stage' = stage + 1 /\ attempt' = 1 /\ pc' = "send"
       /\ UNCHANGED <<n, outcomes, calls>>
    \/ /\ stage >= _MAX_STRUCTURED_CORRECTIONS
       /\ Ends("ModelGatewayError")

\* The answer a to request r arrives: its usage is observed before it is parsed.
Receives(r, a) ==
    /\ pc = "wait" /\ r \in answered
    /\ received' = [all |-> received.all + 1,
                    silent |-> received.silent +
                        IF Call.scope = "repair" /\ a.meta = 0 /\ a.token_usage = 0 THEN 1 ELSE 0]
    /\ _observe_usage(r, a)
    /\ UNCHANGED <<sent, answered, tries, crashes>>

\* A validated object, or a ToolModelResponse.
Returns ==
    \E a \in Answers : a.valid /\ Receives(sent, a) /\ Ends("object")

\* A structured answer that does not parse or validate is corrected.
_structured_or_correct ==
    /\ pc = "wait" /\ Structured
    /\ \E a \in Answers : ~ a.valid /\ Receives(sent, a) /\ Corrects

\* The client raises a content error without a message: nothing is observed.
ContentError ==
    /\ pc = "wait" /\ sent \in answered
    /\ IF Structured THEN Corrects ELSE Ends("error")
    /\ UNCHANGED <<sent, answered, observer, usage, received, tries, crashes, faults>>

\* A tool turn whose calls are malformed is an error at once.
next_action ==
    /\ pc = "wait" /\ ~ Structured
    /\ \E a \in Answers : ~ a.valid /\ Receives(sent, a) /\ Ends("ModelGatewayError")

\* The caller's timeout or the operator cancels the call, in a request or in the
\* back-off.
Cancelled ==
    /\ pc \in {"wait", "backoff"}
    /\ Ends("cancelled")
    /\ UNCHANGED <<sent, answered, observer, usage, received, tries, crashes, faults>>

\* The process dies and the call is made again.
Dies ==
    /\ pc # "idle" /\ crashes < MaxCrashes
    /\ crashes' = crashes + 1 /\ pc' = "idle"
    /\ UNCHANGED <<n, stage, attempt, sent, answered, observer, calls, usage, outcomes,
                   received, tries, faults>>

Done == pc = "idle" /\ n > Len(Plan) /\ UNCHANGED vars

Step ==
    \/ Begins \/ Sends \/ _retry \/ BackoffEnds \/ OtherError \/ Returns
    \/ _structured_or_correct \/ ContentError \/ next_action \/ Cancelled

Next == Step \/ Dies \/ Done \/ \E r \in 1 .. sent : ProviderAnswers(r)

Spec == Init /\ [][Next]_vars

\* The event loop runs what is ready, and wait_for and sleep end by the clock
\* whatever the provider does.
FairSpec == Spec /\ WF_vars(Begins) /\ WF_vars(Sends) /\ WF_vars(_retry) /\ WF_vars(BackoffEnds)

(***************************************************************************)
(* Properties                                                              *)
(***************************************************************************)
Outcomes == [result : {"object", "ModelGatewayError", "error", "cancelled"},
             request : Nat, last : Nat]

\* The state of the gateway and of its records has its shape.
GatewayTypeOK ==
    /\ n \in 1 .. Len(Plan) + 1 /\ pc \in {"idle", "send", "wait", "backoff"}
    /\ stage \in 0 .. _MAX_STRUCTURED_CORRECTIONS /\ attempt \in 1 .. MaxAttempts
    /\ sent \in Nat /\ answered \subseteq Recent(sent)
    /\ observer \in [nonce : Nat, seq : Nat]
    /\ calls \subseteq [call : DOMAIN Plan, scope : Scopes]
    /\ \A e \in usage : e.call \in DOMAIN Plan /\ e.scope \in Scopes /\ e.tokens \in Nat
    /\ outcomes \in [DOMAIN Plan -> Outcomes \cup {None}]
    /\ received \in [all : Nat, silent : Nat]
    /\ tries \in 0 .. sent /\ crashes \in 0 .. MaxCrashes /\ faults \in 0 .. MaxFaults

\* Every answer that reached the gateway is one usage event, over retries,
\* corrections and restarts under the same call key, whether or not the provider
\* names its answers; only an event the store refused is missing.
AccountedOnce ==
    Cardinality(usage) + faults = received.all

\* One budgeted call sends at most MaxAttempts requests for the call and for each
\* of its corrections; a tool turn is never corrected.
RequestsBounded ==
    pc # "idle" =>
        tries <= MaxAttempts * (IF Structured THEN 1 + _MAX_STRUCTURED_CORRECTIONS ELSE 1)

\* What a call returns was answered to its last request: the late answer to a
\* request that timed out is never taken for the answer to its retry.
UsesCurrentAnswer ==
    \A i \in DOMAIN Plan :
        outcomes[i] # None /\ outcomes[i].result = "object" => outcomes[i].request = outcomes[i].last

\* How far a call has come: each correction has used up at most the attempts of one
\* request, and the current attempt is sent in "wait" only.
Progress ==
    pc # "idle" =>
        /\ n \in DOMAIN Plan /\ (Structured \/ stage = 0)
        /\ tries <= stage * MaxAttempts + attempt - (IF pc = "wait" THEN 0 ELSE 1)

\* The keys in the store were all given out before: by the provider for an earlier
\* request, or by an observer under an earlier number.  So the next one is new.
KeysGivenOut ==
    \A e \in usage :
        \/ /\ e.key = <<"request", e.key[2]>> /\ e.key[2] \in 1 .. sent
           /\ pc = "wait" => e.key[2] < sent
        \/ /\ e.key = <<"observer", e.key[2], e.key[3]>>
           /\ e.key[2] \in 0 .. observer.nonce /\ e.key[3] \in Nat
           /\ e.key[2] = observer.nonce => e.key[3] <= observer.seq

\* The gateway's state is well formed, the requests of a call are bounded, and a
\* call returns the answer to its last one.
GatewayInv == GatewayTypeOK /\ RequestsBounded /\ UsesCurrentAnswer /\ Progress /\ KeysGivenOut

\* A run whose usage is called complete received no repair answer without token
\* counts, unless the store refused its event.
CompleteMeansReported ==
    usage_complete_from_events /\ faults = 0 =>
        received.silent = 0

\* usage_complete_from_events: "True only when every repair model call has
\* non-zero reported usage."
CompleteCoversCalls ==
    usage_complete_from_events =>
        \A c \in calls : \E e \in usage : e.call = c.call /\ e.tokens # 0

\* Every call of the run ends, however the provider behaves.
CallsEnd == <>[](n > Len(Plan))
=============================================================================
