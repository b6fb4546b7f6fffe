--------------------------- MODULE GatewayProofs ---------------------------
(***************************************************************************)
(* Proofs about Gateway, for any plan of calls, any number of attempts,    *)
(* late answers, restarts and refused events, and whatever the provider    *)
(* answers.  GatewayInv is inductive; the accounting properties follow     *)
(* from the fact that the key of a new usage event is not in the store.    *)
(***************************************************************************)
EXTENDS Gateway, FiniteSetTheorems, SequenceTheorems, TLAPS

\* The plan's calls have an operation and a scope.
LEMMA PlanFacts ==
  ASSUME NEW i \in DOMAIN Plan
  PROVE  /\ Len(Plan) \in Nat /\ DOMAIN Plan = 1 .. Len(Plan)
         /\ Plan[i].op \in Ops /\ Plan[i].scope \in Scopes
  <1>1. Plan \in Seq([op : Ops, scope : Scopes])
    BY GatewayAssumption
  <1>2. Len(Plan) \in Nat /\ DOMAIN Plan = 1 .. Len(Plan)
    BY <1>1
  <1>3. Plan[i] \in [op : Ops, scope : Scopes]
    BY <1>1, <1>2, ElementOfSeq
  <1> QED BY <1>2, <1>3

\* A call that ends leaves a well formed state and returns its last request.
LEMMA EndsFacts ==
  ASSUME GatewayInv, pc # "idle",
         NEW result \in {"object", "ModelGatewayError", "error", "cancelled"}, Ends(result)
  PROVE  /\ n' \in 1 .. Len(Plan) + 1 /\ pc' = "idle" /\ UNCHANGED <<stage, attempt>>
         /\ calls' \subseteq [call : DOMAIN Plan, scope : Scopes]
         /\ outcomes' \in [DOMAIN Plan -> Outcomes \cup {None}]
         /\ UsesCurrentAnswer'
  <1>1. n \in DOMAIN Plan
    BY DEF GatewayInv, Progress
  <1>2. n' \in 1 .. Len(Plan) + 1 /\ pc' = "idle" /\ UNCHANGED <<stage, attempt>>
    BY <1>1, PlanFacts DEF Ends, EndsWith
  <1>3. calls' \subseteq [call : DOMAIN Plan, scope : Scopes]
    <2>1. calls \subseteq [call : DOMAIN Plan, scope : Scopes] /\ Call.scope \in Scopes
      BY <1>1, PlanFacts DEF Call, GatewayInv, GatewayTypeOK
    <2>2. calls' = calls \/ calls' = calls \cup {[call |-> n, scope |-> Call.scope]}
      BY DEF Ends, EndsWith
    <2> QED BY <1>1, <2>1, <2>2
  <1> DEFINE o == [result |-> result, request |-> sent, last |-> sent]
  <1>4. o \in Outcomes
    BY DEF Outcomes, GatewayInv, GatewayTypeOK
  <1>5. outcomes' = [outcomes EXCEPT ![n] = o]
    BY DEF Ends, EndsWith
  <1>6. outcomes' \in [DOMAIN Plan -> Outcomes \cup {None}]
    BY <1>4, <1>5 DEF GatewayInv, GatewayTypeOK
  <1>7. UsesCurrentAnswer'
    BY <1>1, <1>5 DEF UsesCurrentAnswer, GatewayInv, GatewayTypeOK
  <1> QED BY <1>2, <1>3, <1>6, <1>7

\* The shape of an observation's event.
LEMMA EventFacts ==
  ASSUME GatewayInv, n \in DOMAIN Plan, NEW a \in Answers
  PROVE  LET e == make_usage_observer(_extract_usage(sent, a))
         IN  /\ e.call = n /\ e.scope = Call.scope /\ e.scope \in Scopes /\ e.tokens \in Nat
             /\ e.tokens = 0 <=> a.meta = 0 /\ a.token_usage = 0
             /\ \/ e.key = <<"request", sent>>
                \/ e.key = <<"observer", observer.nonce, observer.seq + 1>>
  BY GatewayAssumption, PlanFacts
     DEF make_usage_observer, _extract_usage, Call, GatewayInv, GatewayTypeOK

\* A key of an earlier request is not a key that can be given out next.
LEMMA RequestKey ==
  ASSUME NEW k, NEW s \in Nat, NEW a \in Nat, NEW b \in Nat,
         k = <<"request", k[2]>>, k[2] \in 1 .. s, k[2] < s
  PROVE  k # <<"request", s>> /\ k # <<"observer", a, b>>
  <1>1. k[1] = "request"
    OBVIOUS
  <1>2. k # <<"request", s>>
    OBVIOUS
  <1>3. k # <<"observer", a, b>>
    BY <1>1
  <1> QED BY <1>2, <1>3

\* Nor is a key of an earlier observation.
LEMMA ObserverKey ==
  ASSUME NEW k, NEW s \in Nat, NEW a \in Nat, NEW b \in Nat,
         k = <<"observer", k[2], k[3]>>, k[2] \in 0 .. a, k[3] \in Nat,
         k[2] = a => k[3] <= b
  PROVE  k # <<"request", s>> /\ k # <<"observer", a, b + 1>>
  <1>1. k[1] = "observer"
    OBVIOUS
  <1>2. k # <<"request", s>>
    BY <1>1
  <1>3. k # <<"observer", a, b + 1>>
    OBVIOUS
  <1> QED BY <1>2, <1>3

\* No event in the store has the key of the next one.
LEMMA KeyIsNew ==
  ASSUME GatewayInv, pc = "wait", NEW a \in Answers, NEW f \in usage
  PROVE  f.key # make_usage_observer(_extract_usage(sent, a)).key
  <1> DEFINE k == f.key
             key == make_usage_observer(_extract_usage(sent, a)).key
  <1>1. key = <<"request", sent>> \/ key = <<"observer", observer.nonce, observer.seq + 1>>
    <2>1. n \in DOMAIN Plan
      BY DEF GatewayInv, Progress
    <2> QED BY <2>1, EventFacts
  <1>2. sent \in Nat /\ observer.nonce \in Nat /\ observer.seq \in Nat
    BY DEF GatewayInv, GatewayTypeOK
  <1>3. \/ k = <<"request", k[2]>> /\ k[2] \in 1 .. sent /\ k[2] < sent
        \/ /\ k = <<"observer", k[2], k[3]>>
           /\ k[2] \in 0 .. observer.nonce /\ k[3] \in Nat
           /\ k[2] = observer.nonce => k[3] <= observer.seq
    BY DEF GatewayInv, KeysGivenOut
  <1> HIDE DEF k, key
  <1>4. k # <<"request", sent>> /\ k # <<"observer", observer.nonce, observer.seq + 1>>
    BY <1>2, <1>3, RequestKey, ObserverKey
  <1>5. k # key
    BY <1>1, <1>4
  <1> QED BY <1>5 DEF k, key

\* An answer that is received becomes a new event, or the store refuses it.
LEMMA ReceivesFacts ==
  ASSUME GatewayInv, NEW a \in Answers, Receives(sent, a), pc' # "wait"
  PROVE  /\ received' \in [all : Nat, silent : Nat] /\ received'.all = received.all + 1
         /\ observer' \in [nonce : Nat, seq : Nat]
         /\ faults' \in 0 .. MaxFaults
         /\ \A e \in usage' : e.call \in DOMAIN Plan /\ e.scope \in Scopes /\ e.tokens \in Nat
         /\ KeysGivenOut'
         /\ \/ UNCHANGED usage /\ faults' = faults + 1
            \/ /\ faults' = faults
               /\ \E e : /\ e \notin usage /\ usage' = usage \cup {e}
                         /\ e.scope = Call.scope
                         /\ e.tokens = 0 <=> a.meta = 0 /\ a.token_usage = 0
  <1> DEFINE e == make_usage_observer(_extract_usage(sent, a))
  <1>1. n \in DOMAIN Plan /\ pc = "wait" /\ sent \in Nat /\ sent' = sent
        /\ observer \in [nonce : Nat, seq : Nat]
    BY DEF GatewayInv, Progress, Receives, GatewayTypeOK
  <1>2. /\ e.call = n /\ e.scope = Call.scope /\ e.scope \in Scopes /\ e.tokens \in Nat
        /\ e.tokens = 0 <=> a.meta = 0 /\ a.token_usage = 0
        /\ \/ e.key = <<"request", sent>>
           \/ e.key = <<"observer", observer.nonce, observer.seq + 1>>
    BY <1>1, EventFacts
  <1>3. \A f \in usage : f.key # e.key
    BY <1>1, KeyIsNew
  <1>4. sent \in 1 .. sent
    BY <1>1 DEF Receives, Recent, GatewayInv, GatewayTypeOK
  <1>5. observer' = [observer EXCEPT !.seq = @ + 1]
    BY DEF Receives, _observe_usage
  <1>6. \/ UNCHANGED usage /\ faults < MaxFaults /\ faults' = faults + 1
        \/ usage' = usage \cup {e} /\ faults' = faults
    BY <1>3 DEF Receives, _observe_usage
  <1>7. received' \in [all : Nat, silent : Nat] /\ received'.all = received.all + 1
    BY DEF Receives, GatewayInv, GatewayTypeOK
  <1> HIDE DEF e
  <1>8. observer' \in [nonce : Nat, seq : Nat] /\ faults' \in 0 .. MaxFaults
    <2>1. MaxFaults \in Nat /\ faults \in 0 .. MaxFaults
      BY GatewayAssumption DEF GatewayInv, GatewayTypeOK
    <2>2. faults' \in 0 .. MaxFaults
      BY <1>6, <2>1
    <2> QED BY <1>1, <1>5, <2>2
  <1>9. \A f \in usage' : f.call \in DOMAIN Plan /\ f.scope \in Scopes /\ f.tokens \in Nat
    BY <1>1, <1>2, <1>6 DEF GatewayInv, GatewayTypeOK
  <1>10. KeysGivenOut'
    <2> SUFFICES ASSUME NEW f \in usage'
        PROVE  \/ f.key = <<"request", f.key[2]>> /\ f.key[2] \in 1 .. sent
               \/ /\ f.key = <<"observer", f.key[2], f.key[3]>>
                  /\ f.key[2] \in 0 .. observer'.nonce /\ f.key[3] \in Nat
                  /\ f.key[2] = observer'.nonce => f.key[3] <= observer'.seq
      BY <1>1 DEF KeysGivenOut
    <2>1. observer'.nonce = observer.nonce /\ observer'.seq = observer.seq + 1
      BY <1>1, <1>5
    <2>2. CASE f \in usage
      BY <1>1, <2>1, <2>2 DEF GatewayInv, KeysGivenOut
    <2>3. CASE f = e /\ e.key = <<"request", sent>>
      BY <1>4, <2>3
    <2>4. CASE f = e /\ e.key = <<"observer", observer.nonce, observer.seq + 1>>
      BY <1>1, <2>1, <2>4
    <2> QED BY <1>2, <1>6, <2>2, <2>3, <2>4
  <1>11. e \notin usage
    BY <1>3
  <1> QED BY <1>2, <1>6, <1>7, <1>8, <1>9, <1>10, <1>11

\* The arithmetic of the bound on requests: s corrections of a structured call (b)
\* with m attempts each, and a attempts of the current request, w of them not sent.
LEMMA Products ==
  ASSUME NEW m \in Nat, NEW s \in {0, 1, 2}, NEW b \in BOOLEAN, b \/ s = 0,
         NEW t \in Nat, NEW a \in 1 .. m, NEW w \in {0, 1}, t <= s * m + a - w
  PROVE  t <= m * (IF b THEN 1 + 2 ELSE 1)
  <1>1. CASE s = 0
    BY <1>1
  <1>2. CASE s = 1
    BY <1>2
  <1>3. CASE s = 2
    BY <1>3
  <1> QED BY <1>1, <1>2, <1>3

\* What every step but a call's end has to show; the outcomes stay.
LEMMA Goes ==
  ASSUME GatewayInv, GatewayTypeOK', Progress', KeysGivenOut', UNCHANGED outcomes
  PROVE  GatewayInv'
  <1>1. RequestsBounded'
    <2>1. ASSUME pc' # "idle"
          PROVE  tries' <= MaxAttempts * (IF Structured' THEN 1 + _MAX_STRUCTURED_CORRECTIONS ELSE 1)
      <3>1. stage' \in {0, 1, 2} /\ attempt' \in 1 .. MaxAttempts /\ tries' \in Nat
            /\ MaxAttempts \in Nat
        BY GatewayAssumption DEF GatewayTypeOK, _MAX_STRUCTURED_CORRECTIONS
      <3>2. Structured' \/ stage' = 0
        BY <2>1 DEF Progress
      <3>3. tries' <= stage' * MaxAttempts + attempt' - (IF pc' = "wait" THEN 0 ELSE 1)
        BY <2>1 DEF Progress
      <3>4. (IF pc' = "wait" THEN 0 ELSE 1) \in {0, 1} /\ Structured' \in BOOLEAN
        BY DEF Structured
      <3> QED BY <3>1, <3>2, <3>3, <3>4, Products DEF _MAX_STRUCTURED_CORRECTIONS
    <2> QED BY <2>1 DEF RequestsBounded
  <1>2. UsesCurrentAnswer'
    BY DEF GatewayInv, UsesCurrentAnswer
  <1> QED BY <1>1, <1>2 DEF GatewayInv

\* What the end of a call has to show.
LEMMA Finishes ==
  ASSUME GatewayInv, pc # "idle", UNCHANGED <<sent, answered, tries, crashes>>,
         NEW result \in {"object", "ModelGatewayError", "error", "cancelled"}, Ends(result),
         observer' \in [nonce : Nat, seq : Nat],
         \A e \in usage' : e.call \in DOMAIN Plan /\ e.scope \in Scopes /\ e.tokens \in Nat,
         received' \in [all : Nat, silent : Nat], faults' \in 0 .. MaxFaults,
         KeysGivenOut'
  PROVE  GatewayInv'
  <1>1. GatewayTypeOK'
    BY EndsFacts DEF GatewayInv, GatewayTypeOK
  <1>2. pc' = "idle" /\ UsesCurrentAnswer'
    BY EndsFacts
  <1> QED BY <1>1, <1>2 DEF GatewayInv, RequestsBounded, Progress

\* A step that leaves the records alone keeps the keys, provided that the last
\* request was not already recorded when it is sent.
LEMMA KeysKept ==
  ASSUME GatewayInv, UNCHANGED usage,
         \/ UNCHANGED <<sent, observer>> /\ (pc' = "wait" => pc = "wait")
         \/ sent' = sent + 1 /\ UNCHANGED observer
         \/ UNCHANGED sent /\ observer' = [nonce |-> observer.nonce + 1, seq |-> 0] /\ pc' # "wait"
  PROVE  KeysGivenOut'
  <1>1. sent \in Nat /\ observer \in [nonce : Nat, seq : Nat]
    BY DEF GatewayInv, GatewayTypeOK
  <1> SUFFICES ASSUME NEW e \in usage
      PROVE  \/ /\ e.key = <<"request", e.key[2]>> /\ e.key[2] \in 1 .. sent'
                /\ pc' = "wait" => e.key[2] < sent'
             \/ /\ e.key = <<"observer", e.key[2], e.key[3]>>
                /\ e.key[2] \in 0 .. observer'.nonce /\ e.key[3] \in Nat
                /\ e.key[2] = observer'.nonce => e.key[3] <= observer'.seq
    BY DEF KeysGivenOut
  <1> DEFINE k == e.key
  <1>2. \/ k = <<"request", k[2]>> /\ k[2] \in 1 .. sent /\ (pc = "wait" => k[2] < sent)
        \/ /\ k = <<"observer", k[2], k[3]>>
           /\ k[2] \in 0 .. observer.nonce /\ k[3] \in Nat
           /\ k[2] = observer.nonce => k[3] <= observer.seq
    BY DEF GatewayInv, KeysGivenOut
  <1> HIDE DEF k
  <1>3. \/ k = <<"request", k[2]>> /\ k[2] \in 1 .. sent' /\ (pc' = "wait" => k[2] < sent')
        \/ /\ k = <<"observer", k[2], k[3]>>
           /\ k[2] \in 0 .. observer'.nonce /\ k[3] \in Nat
           /\ k[2] = observer'.nonce => k[3] <= observer'.seq
    <2>1. CASE UNCHANGED <<sent, observer>> /\ (pc' = "wait" => pc = "wait")
      BY <1>2, <2>1
    <2>2. CASE sent' = sent + 1 /\ UNCHANGED observer
      BY <1>1, <1>2, <2>2
    <2>3. CASE UNCHANGED sent /\ observer' = [nonce |-> observer.nonce + 1, seq |-> 0] /\ pc' # "wait"
      <3>1. observer'.nonce = observer.nonce + 1
        BY <2>3
      <3> QED BY <1>1, <1>2, <2>3, <3>1
    <2> QED BY <2>1, <2>2, <2>3
  <1> QED BY <1>3 DEF k

\* A correction starts another round of attempts, or ends the call.
LEMMA CorrectsInv ==
  ASSUME GatewayInv, pc = "wait", Structured, Corrects,
         UNCHANGED <<sent, answered, tries, crashes>>,
         observer' \in [nonce : Nat, seq : Nat],
         \A e \in usage' : e.call \in DOMAIN Plan /\ e.scope \in Scopes /\ e.tokens \in Nat,
         received' \in [all : Nat, silent : Nat], faults' \in 0 .. MaxFaults,
         KeysGivenOut'
  PROVE  GatewayInv'
  <1>1. CASE Ends("ModelGatewayError")
    BY <1>1, Finishes
  <1>2. CASE /\ stage < _MAX_STRUCTURED_CORRECTIONS
             /\ stage' = stage + 1 /\ attempt' = 1 /\ pc' = "send"
             /\ UNCHANGED <<n, outcomes, calls>>
    <2>1. stage \in {0, 1} /\ attempt \in 1 .. MaxAttempts /\ tries \in Nat
          /\ MaxAttempts \in Nat /\ MaxAttempts >= 1
      BY <1>2, GatewayAssumption DEF GatewayInv, GatewayTypeOK, _MAX_STRUCTURED_CORRECTIONS
    <2>2. GatewayTypeOK'
      BY <1>2, <2>1 DEF GatewayInv, GatewayTypeOK, _MAX_STRUCTURED_CORRECTIONS
    <2>3. n \in DOMAIN Plan /\ tries <= stage * MaxAttempts + attempt
      BY <2>1 DEF GatewayInv, Progress
    <2>4. tries <= (stage + 1) * MaxAttempts
      <3>1. CASE stage = 0
        BY <2>1, <2>3, <3>1
      <3>2. CASE stage = 1
        BY <2>1, <2>3, <3>2
      <3> QED BY <2>1, <3>1, <3>2
    <2>5. Progress'
      <3>1. (stage + 1) * MaxAttempts \in Nat
        BY <2>1
      <3>2. tries <= (stage + 1) * MaxAttempts + 1 - 1
        BY <2>1, <2>4, <3>1
      <3> QED BY <1>2, <2>3, <3>2 DEF Progress, Structured, Call
    <2> QED BY <1>2, <2>2, <2>5, Goes
  <1> QED BY <1>1, <1>2 DEF Corrects

\* One step per action.
LEMMA NextInv ==
  ASSUME GatewayInv, [Next]_vars
  PROVE  GatewayInv'
  <1> USE DEF GatewayInv
  <1>1. /\ GatewayTypeOK /\ MaxAttempts \in Nat /\ MaxAttempts >= 1 /\ MaxCrashes \in Nat
        /\ MaxLate \in Nat /\ Len(Plan) \in Nat
        /\ DOMAIN Plan = 1 .. Len(Plan)
    BY GatewayAssumption
  <1>2. CASE Begins
    <2>1. n \in DOMAIN Plan /\ UNCHANGED <<n, usage, outcomes, sent>> /\ pc' = "send"
          /\ stage' = 0 /\ attempt' = 1 /\ tries' = 0
      BY <1>1, <1>2 DEF Begins, GatewayTypeOK
    <2>2. calls' \subseteq [call : DOMAIN Plan, scope : Scopes]
      BY <1>2, <2>1, PlanFacts DEF Begins, GatewayTypeOK, Call
    <2>3. GatewayTypeOK'
      <3>1. observer' \in [nonce : Nat, seq : Nat]
        BY <1>1, <1>2 DEF Begins, GatewayTypeOK
      <3>2. stage' \in 0 .. _MAX_STRUCTURED_CORRECTIONS /\ attempt' \in 1 .. MaxAttempts
        BY <1>1, <2>1 DEF _MAX_STRUCTURED_CORRECTIONS
      <3> QED BY <1>1, <1>2, <2>1, <2>2, <3>1, <3>2 DEF Begins, GatewayTypeOK
    <2>4. Progress'
      BY <1>1, <2>1 DEF Progress
    <2>5. KeysGivenOut'
      BY <1>2, <2>1, KeysKept DEF Begins
    <2> QED BY <2>1, <2>3, <2>4, <2>5, Goes
  <1>3. CASE Sends
    <2>1. GatewayTypeOK'
      BY <1>1, <1>3 DEF Sends, GatewayTypeOK, Recent
    <2>2. Progress'
      <3>1. stage * MaxAttempts \in Nat
        BY <1>1 DEF GatewayTypeOK, _MAX_STRUCTURED_CORRECTIONS
      <3>2. /\ pc = "send" /\ pc' = "wait" /\ tries' = tries + 1 /\ tries \in Nat /\ attempt \in Nat
            /\ UNCHANGED <<n, stage, attempt>>
        BY <1>1, <1>3 DEF Sends, GatewayTypeOK
      <3> QED BY <1>1, <3>1, <3>2 DEF Progress, Structured, Call
    <2>3. KeysGivenOut'
      BY <1>3, KeysKept DEF Sends
    <2> QED BY <1>3, <2>1, <2>2, <2>3, Goes DEF Sends
  \* A call that ends without an answer.
  <1> DEFINE Silent == UNCHANGED <<sent, answered, observer, usage, received, tries, crashes, faults>>
  <1>4. ASSUME NEW result \in {"object", "ModelGatewayError", "error", "cancelled"},
               pc # "idle", Ends(result), Silent
        PROVE  GatewayInv'
    <2>1. KeysGivenOut'
      BY <1>4, EndsFacts, KeysKept
    <2> QED BY <1>1, <1>4, <2>1, Finishes DEF GatewayTypeOK
  <1>5. CASE _retry
    <2>1. CASE /\ attempt < MaxAttempts /\ attempt' = attempt + 1 /\ pc' = "backoff"
               /\ UNCHANGED <<n, stage, outcomes, calls>>
      <3>1. pc = "wait" /\ Silent
        BY <1>5 DEF _retry
      <3>2. GatewayTypeOK'
        BY <1>1, <2>1, <3>1 DEF GatewayTypeOK
      <3>3. Progress'
        <4>1. stage * MaxAttempts \in Nat
          BY <1>1 DEF GatewayTypeOK, _MAX_STRUCTURED_CORRECTIONS
        <4> QED BY <1>1, <2>1, <3>1, <4>1 DEF Progress, GatewayTypeOK, Structured, Call
      <3>4. KeysGivenOut'
        BY <2>1, <3>1, KeysKept
      <3> QED BY <2>1, <3>2, <3>3, <3>4, Goes
    <2>2. CASE Ends("ModelGatewayError")
      BY <1>4, <1>5, <2>2 DEF _retry
    <2> QED BY <1>5, <2>1, <2>2 DEF _retry
  <1>6. CASE BackoffEnds
    <2>1. GatewayTypeOK'
      BY <1>1, <1>6 DEF BackoffEnds, GatewayTypeOK
    <2>2. Progress'
      BY <1>1, <1>6 DEF BackoffEnds, Progress, Structured, Call
    <2>3. KeysGivenOut'
      BY <1>6, KeysKept DEF BackoffEnds
    <2> QED BY <1>6, <2>1, <2>2, <2>3, Goes DEF BackoffEnds
  <1>7. CASE OtherError
    BY <1>4, <1>7 DEF OtherError
  <1>8. CASE Cancelled
    BY <1>4, <1>8 DEF Cancelled
  <1>9. CASE Returns
    <2>1. PICK a \in Answers : Receives(sent, a) /\ Ends("object")
      BY <1>9 DEF Returns
    <2>2. pc # "idle" /\ pc' # "wait" /\ UNCHANGED <<sent, answered, tries, crashes>>
      BY <2>1 DEF Receives, Ends, EndsWith
    <2> QED BY <2>1, <2>2, ReceivesFacts, Finishes
  <1>10. CASE next_action
    <2>1. PICK a \in Answers : Receives(sent, a) /\ Ends("ModelGatewayError")
      BY <1>10 DEF next_action
    <2>2. pc # "idle" /\ pc' # "wait" /\ UNCHANGED <<sent, answered, tries, crashes>>
      BY <2>1 DEF Receives, Ends, EndsWith
    <2> QED BY <2>1, <2>2, ReceivesFacts, Finishes
  <1>11. CASE _structured_or_correct
    <2>1. PICK a \in Answers : Receives(sent, a) /\ Corrects
      BY <1>11 DEF _structured_or_correct
    <2>2. pc = "wait" /\ Structured /\ pc' # "wait" /\ UNCHANGED <<sent, answered, tries, crashes>>
      BY <1>11, <2>1 DEF _structured_or_correct, Receives, Corrects, Ends, EndsWith
    <2> QED BY <2>1, <2>2, ReceivesFacts, CorrectsInv
  <1>12. CASE ContentError
    <2>1. CASE Structured
      <3>1. pc = "wait" /\ Corrects /\ Silent /\ pc' # "wait"
        BY <1>12, <2>1 DEF ContentError, Corrects, Ends, EndsWith
      <3>2. KeysGivenOut'
        BY <3>1, KeysKept
      <3> QED BY <1>1, <2>1, <3>1, <3>2, CorrectsInv DEF GatewayTypeOK
    <2>2. CASE ~Structured
      BY <1>4, <1>12, <2>2 DEF ContentError
    <2> QED BY <2>1, <2>2
  <1>13. CASE Dies
    <2>1. GatewayTypeOK'
      BY <1>1, <1>13 DEF Dies, GatewayTypeOK
    <2>2. KeysGivenOut'
      BY <1>13, KeysKept DEF Dies
    <2> QED BY <1>13, <2>1, <2>2, Goes DEF Dies, Progress
  <1>14. ASSUME NEW r \in 1 .. sent, ProviderAnswers(r) PROVE GatewayInv'
    <2>1. GatewayTypeOK'
      BY <1>1, <1>14 DEF ProviderAnswers, GatewayTypeOK
    <2>2. KeysGivenOut'
      BY <1>14, KeysKept DEF ProviderAnswers
    <2>3. Progress'
      BY <1>14 DEF ProviderAnswers, Progress, Structured, Call
    <2> QED BY <1>14, <2>1, <2>2, <2>3, Goes DEF ProviderAnswers
  <1>15. CASE UNCHANGED vars
    BY <1>15 DEF vars, GatewayTypeOK, RequestsBounded, UsesCurrentAnswer, Progress, KeysGivenOut,
       Structured, Call
  <1> QED BY <1>2, <1>3, <1>5, <1>6, <1>7, <1>8, <1>9, <1>10, <1>11, <1>12, <1>13, <1>14, <1>15
          DEF Next, Step, Done

\* The gateway's state is well formed, one budgeted call sends a bounded number of
\* requests through retries and corrections (model/openai_compatible.py), and what it
\* returns answers its last request.
THEOREM GatewayCorrect == Spec => []GatewayInv
  <1>1. Init => GatewayInv
    <2> SUFFICES ASSUME Init PROVE GatewayInv
      OBVIOUS
    <2>1. Len(Plan) \in Nat /\ MaxAttempts \in Nat /\ MaxAttempts >= 1 /\ MaxCrashes \in Nat
          /\ MaxFaults \in Nat
      BY GatewayAssumption
    <2>2. GatewayTypeOK
      BY <2>1 DEF Init, GatewayTypeOK, _MAX_STRUCTURED_CORRECTIONS, Recent
    <2> QED BY <2>2 DEF Init, GatewayInv, RequestsBounded, UsesCurrentAnswer, Progress, KeysGivenOut
  <1>2. GatewayInv /\ [Next]_vars => GatewayInv'
    BY NextInv
  <1> QED BY <1>1, <1>2, PTL DEF Spec

-----------------------------------------------------------------------------
\* The records: either an answer is received, or nothing that counts changes.
LEMMA RecordsStep ==
  ASSUME GatewayInv, [Next]_vars
  PROVE  \/ \E a \in Answers : Receives(sent, a) /\ pc' # "wait"
         \/ UNCHANGED <<usage, faults, received>>
  <1>1. CASE Returns
    BY <1>1 DEF Returns, Ends, EndsWith
  <1>2. CASE next_action
    BY <1>2 DEF next_action, Ends, EndsWith
  <1>3. CASE _structured_or_correct
    BY <1>3 DEF _structured_or_correct, Corrects, Ends, EndsWith
  <1> QED BY <1>1, <1>2, <1>3 DEF Next, Step, Done, vars, Begins, Sends, _retry, BackoffEnds,
          OtherError, ContentError, Cancelled, Dies, ProviderAnswers

\* The strengthening of AccountedOnce: cardinalities are those of finite sets.
Accounted == IsFiniteSet(usage) /\ AccountedOnce

\* A step keeps the account.
LEMMA AccountedNext ==
  ASSUME GatewayInv, Accounted, [Next]_vars
  PROVE  Accounted'
  <1>1. CASE UNCHANGED <<usage, faults, received>>
    BY <1>1 DEF Accounted, AccountedOnce
  <1>2. ASSUME NEW a \in Answers, Receives(sent, a), pc' # "wait"
        PROVE  Accounted'
    <2>1. received'.all = received.all + 1 /\ received.all \in Nat /\ faults \in Nat
      BY <1>2, ReceivesFacts DEF GatewayInv, GatewayTypeOK
    <2>2. CASE UNCHANGED usage /\ faults' = faults + 1
      <3>1. Cardinality(usage) \in Nat
        BY FS_CardinalityType DEF Accounted
      <3> QED BY <2>1, <2>2, <3>1 DEF Accounted, AccountedOnce
    <2>3. ASSUME faults' = faults, NEW e, e \notin usage, usage' = usage \cup {e}
          PROVE  Accounted'
      <3>1. IsFiniteSet(usage') /\ Cardinality(usage') = Cardinality(usage) + 1
            /\ Cardinality(usage) \in Nat
        BY <2>3, FS_AddElement, FS_CardinalityType DEF Accounted
      <3> QED BY <2>1, <2>3, <3>1 DEF Accounted, AccountedOnce
    <2> QED BY <1>2, <2>2, <2>3, ReceivesFacts
  <1> QED BY <1>1, <1>2, RecordsStep

\* Every answer that reached the gateway is one MODEL_USAGE event (runtime/usage.py),
\* over retries, corrections and restarts; only what the store refused is missing.
THEOREM UsageIsAccountedOnce == Spec => []AccountedOnce
  <1>1. Init => Accounted
    BY FS_EmptySet DEF Init, Accounted, AccountedOnce
  <1>2. GatewayInv /\ Accounted /\ [Next]_vars => Accounted'
    BY AccountedNext
  <1>3. Accounted => AccountedOnce
    BY DEF Accounted
  <1> QED BY <1>1, <1>2, <1>3, GatewayCorrect, PTL DEF Spec

\* A repair answer without counts has left its mark in the records.
SilentSeen ==
  faults = 0 /\ received.silent # 0 => \E e \in usage : e.scope # "post_run" /\ e.tokens = 0

\* A step keeps that mark.
LEMMA SilentNext ==
  ASSUME GatewayInv, SilentSeen, [Next]_vars
  PROVE  SilentSeen'
  <1>1. CASE UNCHANGED <<usage, faults, received>>
    BY <1>1 DEF SilentSeen
  <1>2. ASSUME NEW a \in Answers, Receives(sent, a), pc' # "wait", faults' = 0
        PROVE  SilentSeen'
    <2>1. faults = 0 /\ faults' = faults
      BY <1>2, ReceivesFacts DEF GatewayInv, GatewayTypeOK
    <2>2. PICK e : /\ usage' = usage \cup {e} /\ e.scope = Call.scope
                   /\ e.tokens = 0 <=> a.meta = 0 /\ a.token_usage = 0
      BY <1>2, <2>1, ReceivesFacts DEF GatewayInv, GatewayTypeOK
    <2>3. CASE Call.scope = "repair" /\ a.meta = 0 /\ a.token_usage = 0
      BY <2>2, <2>3 DEF SilentSeen
    <2>4. CASE ~(Call.scope = "repair" /\ a.meta = 0 /\ a.token_usage = 0)
      <3>1. received'.silent = received.silent
        BY <1>2, <2>4 DEF Receives, GatewayInv, GatewayTypeOK
      <3> QED BY <2>1, <2>2, <3>1 DEF SilentSeen
    <2> QED BY <2>3, <2>4
  <1> QED BY <1>1, <1>2, RecordsStep DEF SilentSeen

\* usage_complete_from_events is sound for what was received: a run that it calls
\* complete got no repair answer without token counts.
THEOREM CompleteUsageIsReported == Spec => []CompleteMeansReported
  <1>1. Init => SilentSeen
    BY DEF Init, SilentSeen
  <1>2. GatewayInv /\ SilentSeen /\ [Next]_vars => SilentSeen'
    BY SilentNext
  <1>3. SilentSeen => CompleteMeansReported
    BY DEF SilentSeen, CompleteMeansReported, usage_complete_from_events
  <1> QED BY <1>1, <1>2, <1>3, GatewayCorrect, PTL DEF Spec
=============================================================================
