------------------------- MODULE PendingExecutor_proofs -------------------------
(***************************************************************************)
(* For any number of calls, timestamps, attempts, requests and failures:   *)
(* one request at a time, nobody gets an outcome from before the call, an  *)
(* answer about the wrong timestamp takes a joined request, and the        *)
(* executor implements SharedQuery.                                        *)
(***************************************************************************)
EXTENDS PendingExecutor, FiniteSetTheorems, TLAPS

CallPCs == {"idle", "execute", "own", "await", "store", "threw"}
RequestPCs == {"none", "sent", "delayed", "answered", "rejected"}

CallRecords == [pc : CallPCs, asks : Timestamps \cup {Nothing}, awaits : Nat, floor : Nat,
                answer : Timestamps \cup {Nothing, Failed}]
RequestRecords == [pc : RequestPCs, about : Timestamps \cup {Nothing}, attempt : Nat]

Types ==
    /\ call \in [Calls -> CallRecords]
    /\ request \in [Numbers -> RequestRecords]
    /\ pending \in Nat /\ made \in Nat
    /\ cache \in [Timestamps -> Timestamps \cup {Nothing}]
    /\ joined \subseteq Timestamps
    /\ failures \in 0..MaxFailures

\* Requests are numbered: those that are over come first, the last one may be pending.
Numbering ==
    /\ made <= MaxRequests
    /\ pending \in {0, made}
    /\ over = 1..(IF pending = 0 THEN made ELSE made - 1)
    /\ \A n \in Numbers : (request[n].pc = "none") = (n > made)
    /\ \A n \in Numbers : n <= made =>
          request[n].attempt \in 1..MaxAttempts /\ request[n].about \in Timestamps
    /\ \A n \in Numbers : request[n].pc \in {"sent", "delayed"} => n = pending

\* A call that has a request to wait for was made after every request that was over then.
CallOk(c) ==
    /\ call[c].floor <= made /\ call[c].awaits <= made
    /\ call[c].pc # "idle" => call[c].asks \in Timestamps
    /\ call[c].pc \in {"own", "await", "store", "threw"} => call[c].floor < call[c].awaits
    /\ call[c].pc = "own" => pending # 0 /\ call[c].awaits = pending
    /\ call[c].pc \in {"own", "await"} =>
          \/ request[call[c].awaits].about = call[c].asks
          \/ call[c].asks \in joined
    /\ call[c].pc = "store" => /\ call[c].answer \in Timestamps
                               /\ call[c].answer = call[c].asks \/ call[c].asks \in joined

OneOwner ==
    \A c, d \in Calls : call[c].pc = "own" /\ call[d].pc = "own" => c = d

IInv ==
    /\ Types
    /\ Numbering
    /\ \A c \in Calls : CallOk(c)
    /\ OneOwner
    /\ WrongOnlyByJoining

--------------------------------------------------------------------------------
(* The initial state.                                                      *)

LEMMA InitInv == Init => IInv
  <1> SUFFICES ASSUME Init PROVE IInv
    OBVIOUS
  <1> USE PendingExecutorAssumption DEF Init
  <1>1. IdleCall \in CallRecords /\ NoRequest \in RequestRecords
    BY DEF IdleCall, NoRequest, CallRecords, RequestRecords, CallPCs, RequestPCs
  <1>2. Types
    BY <1>1 DEF Types
  <1>3. Numbering
    BY DEF Numbering, NoRequest, Numbers
  <1>4. \A c \in Calls : CallOk(c)
    BY DEF CallOk, IdleCall
  <1>5. OneOwner /\ WrongOnlyByJoining
    BY DEF OneOwner, WrongOnlyByJoining, IdleCall
  <1> QED
    BY <1>2, <1>3, <1>4, <1>5 DEF IInv

--------------------------------------------------------------------------------
(* Steps of a request: only what it is doing changes, and failures.        *)

\* A request is its three fields.
LEMMA RecordOfRequest ==
    ASSUME NEW r \in RequestRecords, NEW pc
    PROVE  /\ [r EXCEPT !.pc = pc] = [pc |-> pc, about |-> r.about, attempt |-> r.attempt]
           /\ [r EXCEPT !.pc = pc, !.attempt = r.attempt + 1]
                = [pc |-> pc, about |-> r.about, attempt |-> r.attempt + 1]
  <1>1. [r EXCEPT !.pc = pc] = [pc |-> pc, about |-> r.about, attempt |-> r.attempt]
    BY DEF RequestRecords
  <1> DEFINE q == [pc |-> pc, about |-> r.about, attempt |-> r.attempt]
  <1>2. \A a \in Nat : [q EXCEPT !.attempt = a] = [pc |-> pc, about |-> r.about, attempt |-> a]
    OBVIOUS
  <1>3. r.attempt + 1 \in Nat
    BY DEF RequestRecords
  <1>4. [r EXCEPT !.pc = pc, !.attempt = r.attempt + 1]
          = [[r EXCEPT !.pc = pc] EXCEPT !.attempt = r.attempt + 1]
    OBVIOUS
  <1> QED
    BY <1>1, <1>2, <1>3, <1>4

\* An attempt, its retries and its outcome concern one request that is in flight.
LEMMA RequestStepShape ==
    ASSUME IInv, NEW n \in Numbers, RequestStep(n)
    PROVE  /\ UNCHANGED <<call, pending, made, over, cache, joined>>
           /\ failures' \in 0..MaxFailures
           /\ request[n].pc \in {"sent", "delayed"}
           /\ \E pc \in RequestPCs \ {"none"}, a \in 1..MaxAttempts :
                 request' = [request EXCEPT ![n] = [pc |-> pc, about |-> request[n].about, attempt |-> a]]
  <1> USE PendingExecutorAssumption
  <1>1. /\ request \in [Numbers -> RequestRecords] /\ failures \in 0..MaxFailures
        /\ failures < MaxFailures => failures + 1 \in 0..MaxFailures
    BY DEF IInv, Types
  <1>2. request[n] \in RequestRecords
    BY <1>1
  <1>3. request[n].pc \in {"sent", "delayed"}
    BY DEF RequestStep, Answer, TimesOut, Retry, Fails
  <1>4. request[n].attempt \in 1..MaxAttempts
    <2>1. n <= made
      BY <1>3 DEF IInv, Types, Numbering, Numbers
    <2> QED
      BY <2>1 DEF IInv, Numbering
  <1>5. \A pc :
          /\ [request[n] EXCEPT !.pc = pc]
               = [pc |-> pc, about |-> request[n].about, attempt |-> request[n].attempt]
          /\ [request[n] EXCEPT !.pc = pc, !.attempt = request[n].attempt + 1]
               = [pc |-> pc, about |-> request[n].about, attempt |-> request[n].attempt + 1]
    BY <1>2, RecordOfRequest
  <1>6. CASE Answer(n)
    BY <1>1, <1>3, <1>4, <1>5, <1>6 DEF Answer, RequestPCs
  <1>7. CASE TimesOut(n)
    <2>1. CASE request[n].attempt < MaxAttempts
      <3>1. request[n].attempt + 1 \in 1..MaxAttempts
        BY <1>4, <2>1
      <3>2. request' = [request EXCEPT ![n] =
                          [request[n] EXCEPT !.pc = "delayed",
                                             !.attempt = request[n].attempt + 1]]
        BY <1>7, <2>1 DEF TimesOut
      <3>3. request' = [request EXCEPT ![n] = [pc |-> "delayed", about |-> request[n].about,
                                               attempt |-> request[n].attempt + 1]]
        BY <1>5, <3>2
      <3>4. /\ UNCHANGED <<call, pending, made, over, cache, joined>>
            /\ failures' \in 0..MaxFailures
        BY <1>1, <1>7 DEF TimesOut
      <3>5. "delayed" \in RequestPCs \ {"none"}
        BY DEF RequestPCs
      <3>6. \E pc \in RequestPCs \ {"none"}, a \in 1..MaxAttempts :
              request' = [request EXCEPT ![n] = [pc |-> pc, about |-> request[n].about,
                                                 attempt |-> a]]
        BY <3>1, <3>3, <3>5, Zenon
      <3> QED
        BY <1>3, <3>4, <3>6, Zenon
    <2>2. CASE ~(request[n].attempt < MaxAttempts)
      BY <1>1, <1>3, <1>4, <1>5, <1>7, <2>2 DEF TimesOut, RequestPCs
    <2> QED
      BY <2>1, <2>2
  <1>8. CASE Retry(n)
    BY <1>1, <1>3, <1>4, <1>5, <1>8 DEF Retry, RequestPCs
  <1>9. CASE Fails(n)
    BY <1>1, <1>3, <1>4, <1>5, <1>9 DEF Fails, RequestPCs
  <1> QED
    BY <1>6, <1>7, <1>8, <1>9 DEF RequestStep

LEMMA RequestStepInv ==
    ASSUME IInv, NEW n \in Numbers, RequestStep(n)
    PROVE  IInv'
  <1>1. PICK pc \in RequestPCs \ {"none"}, a \in 1..MaxAttempts :
          request' = [request EXCEPT ![n] = [pc |-> pc, about |-> request[n].about, attempt |-> a]]
    BY RequestStepShape
  <1>2. /\ UNCHANGED <<call, pending, made, over, cache, joined>>
        /\ failures' \in 0..MaxFailures
        /\ request[n].pc \in {"sent", "delayed"}
    BY RequestStepShape
  <1>3. request \in [Numbers -> RequestRecords]
    BY DEF IInv, Types
  <1>4. request[n] \in RequestRecords
    BY <1>3
  <1>5. [pc |-> pc, about |-> request[n].about, attempt |-> a] \in RequestRecords
    <2>1. a \in Nat
      BY PendingExecutorAssumption
    <2> QED
      BY <1>4, <2>1 DEF RequestRecords
  <1>6. /\ request' \in [Numbers -> RequestRecords]
        /\ \A m \in Numbers : request'[m].about = request[m].about
        /\ \A m \in Numbers \ {n} : request'[m] = request[m]
        /\ request'[n].pc = pc /\ request'[n].attempt = a
    BY <1>1, <1>3, <1>4, <1>5 DEF RequestRecords
  <1>7. Types'
    BY <1>2, <1>6 DEF IInv, Types
  <1>8. n = pending /\ n <= made
    BY <1>2 DEF IInv, Types, Numbering, Numbers
  <1>9. Numbering'
    <2>1. \A m \in Numbers : (request'[m].pc = "none") = (m > made)
      <3> SUFFICES ASSUME NEW m \in Numbers
                   PROVE  (request'[m].pc = "none") = (m > made)
        OBVIOUS
      <3>1. CASE m = n
        <4>1. ~(n > made)
          BY <1>8 DEF IInv, Types, Numbers
        <4> QED
          BY <3>1, <4>1, <1>6
      <3>2. CASE m # n
        BY <3>2, <1>6 DEF IInv, Numbering
      <3> QED
        BY <3>1, <3>2
    <2>2. \A m \in Numbers : m <= made =>
             request'[m].attempt \in 1..MaxAttempts /\ request'[m].about \in Timestamps
      BY <1>6 DEF IInv, Numbering
    <2>3. \A m \in Numbers : request'[m].pc \in {"sent", "delayed"} => m = pending
      BY <1>6, <1>8 DEF IInv, Numbering
    <2> QED
      BY <1>2, <2>1, <2>2, <2>3 DEF IInv, Numbering
  <1>10. \A c \in Calls : CallOk(c)'
    <2> SUFFICES ASSUME NEW c \in Calls PROVE CallOk(c)'
      OBVIOUS
    <2>1. CallOk(c) /\ call[c] \in CallRecords
      BY DEF IInv, Types
    <2>2. call[c].pc \in {"own", "await"} =>
            request'[call[c].awaits].about = request[call[c].awaits].about
      <3>1. call[c].pc \in {"own", "await"} => call[c].awaits \in Numbers
        <4>1. call[c].awaits \in Nat /\ call[c].floor \in Nat
          BY <2>1 DEF CallRecords
        <4>2. made \in Nat /\ made <= MaxRequests /\ MaxRequests \in Nat
          BY PendingExecutorAssumption DEF IInv, Types, Numbering
        <4> QED
          BY <2>1, <4>1, <4>2 DEF CallOk, Numbers
      <3> QED
        BY <1>6, <3>1
    <2> QED
      BY <1>2, <2>1, <2>2 DEF CallOk
  <1>11. OneOwner' /\ WrongOnlyByJoining'
    BY <1>2 DEF IInv, OneOwner, WrongOnlyByJoining
  <1> QED
    BY <1>7, <1>9, <1>10, <1>11 DEF IInv

--------------------------------------------------------------------------------
(* Steps of a call.                                                        *)

\* How many requests were over when a call found one pending, or none.
LEMMA OverSize ==
    ASSUME IInv
    PROVE  Cardinality(over) = (IF pending = 0 THEN made ELSE made - 1)
  <1>1. made \in Nat /\ pending \in {0, made}
    BY DEF IInv, Types, Numbering
  <1> DEFINE last == IF pending = 0 THEN made ELSE made - 1
  <1>2. last \in Nat
    BY <1>1
  <1>3. over = 1..last
    BY DEF IInv, Numbering
  <1> HIDE DEF last
  <1>4. Cardinality(1..last) = IF 1 > last THEN 0 ELSE last - 1 + 1
    BY <1>2, FS_Interval
  <1>5. Cardinality(over) = last
    BY <1>2, <1>3, <1>4
  <1> QED
    BY <1>5 DEF last

\* What is known of a call and of the request it waits for.
LEMMA CallFacts ==
    ASSUME IInv, NEW c \in Calls
    PROVE  /\ call[c] \in CallRecords /\ CallOk(c)
           /\ call[c].pc \in {"own", "await", "store", "threw"} => call[c].awaits \in Numbers
           /\ call[c].pc \in {"own", "await"} => request[call[c].awaits].about \in Timestamps
  <1>1. call[c] \in CallRecords /\ CallOk(c)
    BY DEF IInv, Types
  <1>2. call[c].awaits \in Nat /\ call[c].floor \in Nat
    BY <1>1 DEF CallRecords
  <1>3. made \in Nat /\ made <= MaxRequests /\ MaxRequests \in Nat
    BY PendingExecutorAssumption DEF IInv, Types, Numbering
  <1>4. call[c].pc \in {"own", "await", "store", "threw"} =>
          call[c].awaits \in Numbers /\ call[c].awaits <= made
    BY <1>1, <1>2, <1>3 DEF CallOk, Numbers
  <1> QED
    BY <1>1, <1>4 DEF IInv, Numbering

\* A step that changes one call leaves the others as they are.
LEMMA CallUpdate ==
    ASSUME IInv, NEW c \in Calls, NEW r \in CallRecords, call' = [call EXCEPT ![c] = r]
    PROVE  /\ call' \in [Calls -> CallRecords]
           /\ call'[c] = r
           /\ \A d \in Calls \ {c} : call'[d] = call[d]
  BY DEF IInv, Types

\* A call goes on with an answer about what it asked, unless it has joined a request about
\* something else; an error is thrown.
LEMMA ResultFacts ==
    ASSUME IInv, NEW c \in Calls, call[c].pc \in {"own", "await"}
    PROVE  /\ Result(c) \in CallRecords
           /\ Result(c).pc \in {"threw", "store"}
           /\ Result(c).asks = call[c].asks /\ Result(c).awaits = call[c].awaits
           /\ Result(c).floor = call[c].floor
           /\ Result(c).pc = "store" =>
                 /\ Result(c).answer \in Timestamps
                 /\ Result(c).answer = call[c].asks \/ call[c].asks \in joined
  <1>1. call[c] \in CallRecords /\ CallOk(c) /\ request[call[c].awaits].about \in Timestamps
    BY CallFacts
  <1>2. CASE request[call[c].awaits].pc = "rejected"
    BY <1>1, <1>2 DEF Result, CallRecords, CallPCs
  <1>3. CASE request[call[c].awaits].pc # "rejected"
    <2>1. Result(c) = [call[c] EXCEPT !.pc = "store", !.answer = request[call[c].awaits].about]
      BY <1>3 DEF Result
    <2>2. /\ request[call[c].awaits].about = call[c].asks \/ call[c].asks \in joined
      BY <1>1 DEF CallOk
    <2> QED
      BY <1>1, <2>1, <2>2 DEF CallRecords, CallPCs
  <1> QED
    BY <1>2, <1>3

\* A call is asked, thrown back or answered: no request is concerned.
LEMMA AskInv ==
    ASSUME IInv, NEW c \in Calls, NEW t \in Timestamps, Ask(c, t)
    PROVE  IInv'
  <1> DEFINE r == [IdleCall EXCEPT !.pc = "execute", !.asks = t]
  <1>1. r \in CallRecords /\ r.pc = "execute" /\ r.asks = t /\ r.awaits = 0 /\ r.floor = 0
    BY DEF IdleCall, CallRecords, CallPCs
  <1>2. /\ call' \in [Calls -> CallRecords] /\ call'[c] = r
        /\ \A d \in Calls \ {c} : call'[d] = call[d]
    BY <1>1, CallUpdate DEF Ask
  <1>3. UNCHANGED <<request, pending, made, over, cache, joined, failures>>
    BY DEF Ask
  <1> HIDE DEF r
  <1>4. Types' /\ Numbering' /\ WrongOnlyByJoining'
    BY <1>2, <1>3 DEF IInv, Types, Numbering, WrongOnlyByJoining
  <1>5. OneOwner'
    BY <1>1, <1>2 DEF IInv, OneOwner
  <1>6. \A d \in Calls : CallOk(d)'
    <2> SUFFICES ASSUME NEW d \in Calls PROVE CallOk(d)'
      OBVIOUS
    <2>1. CASE d = c
      BY <1>1, <1>2, <1>3, <2>1 DEF CallOk, IInv, Types
    <2>2. CASE d # c
      BY <1>2, <1>3, <2>2 DEF CallOk, IInv
    <2> QED
      BY <2>1, <2>2
  <1> QED
    BY <1>4, <1>5, <1>6 DEF IInv

\* The call joins a request that is not over, and remembers if it is about something else.
LEMMA JoinInv ==
    ASSUME IInv, NEW c \in Calls, Join(c)
    PROVE  IInv'
  <1> DEFINE size == Cardinality(over)
             r == [call[c] EXCEPT !.pc = "await", !.awaits = pending, !.floor = size]
  <1>1. call[c] \in CallRecords /\ CallOk(c)
    BY CallFacts
  <1>2. pending \in Nat /\ pending = made /\ pending # 0 /\ size = made - 1 /\ made \in Nat
    BY OverSize DEF Join, IInv, Types, Numbering
  <1>3. size \in Nat /\ size < pending
    BY <1>2
  <1> HIDE DEF size
  <1>4. /\ r \in CallRecords /\ r.pc = "await" /\ r.awaits = pending /\ r.floor = size
        /\ r.asks = call[c].asks
    BY <1>1, <1>2, <1>3 DEF CallRecords, CallPCs
  <1>5. call' = [call EXCEPT ![c] = r]
    BY DEF Join, size
  <1> HIDE DEF r
  <1>6. /\ call' \in [Calls -> CallRecords] /\ call'[c] = r
        /\ \A d \in Calls \ {c} : call'[d] = call[d]
    BY <1>4, <1>5, CallUpdate
  <1>7. call[c].asks \in Timestamps
    BY <1>1 DEF CallOk, Join
  <1>8. /\ UNCHANGED <<request, pending, made, over, cache, failures>>
        /\ joined \subseteq joined' /\ joined' \subseteq Timestamps
        /\ request[pending].about = call[c].asks \/ call[c].asks \in joined'
    BY <1>7 DEF Join, IInv, Types
  <1>9. Types' /\ Numbering' /\ WrongOnlyByJoining'
    BY <1>6, <1>8 DEF IInv, Types, Numbering, WrongOnlyByJoining
  <1>10. OneOwner'
    BY <1>4, <1>6 DEF IInv, OneOwner
  <1>11. \A d \in Calls : CallOk(d)'
    <2> SUFFICES ASSUME NEW d \in Calls PROVE CallOk(d)'
      OBVIOUS
    <2>1. CASE d = c
      BY <1>2, <1>3, <1>4, <1>6, <1>7, <1>8, <2>1 DEF CallOk
    <2>2. CASE d # c
      BY <1>6, <1>8, <2>2 DEF CallOk, IInv
    <2> QED
      BY <2>1, <2>2
  <1> QED
    BY <1>9, <1>10, <1>11 DEF IInv

\* The call makes the request, the only one: whatever was asked before is over.
LEMMA ExecuteInv ==
    ASSUME IInv, NEW c \in Calls, Execute(c)
    PROVE  IInv'
  <1> DEFINE size == Cardinality(over)
             n == made + 1
             r == [call[c] EXCEPT !.pc = "own", !.awaits = n, !.floor = size]
             q == Sent(c)
  <1>1. call[c] \in CallRecords /\ CallOk(c)
    BY CallFacts
  <1>2. /\ made \in Nat /\ pending = 0 /\ size = made /\ made < MaxRequests
        /\ MaxRequests \in Nat /\ MaxAttempts \in Nat \ {0}
    BY OverSize, PendingExecutorAssumption DEF Execute, IInv, Types, Numbering
  <1>3. n \in Numbers /\ n \in Nat /\ n # 0 /\ size \in Nat /\ size < n
    BY <1>2 DEF Numbers
  <1> HIDE DEF size
  <1>4. call[c].asks \in Timestamps
    BY <1>1 DEF CallOk, Execute
  <1>5. q \in RequestRecords /\ q.pc = "sent" /\ q.about = call[c].asks /\ q.attempt = 1
    BY <1>4 DEF Sent, RequestRecords, RequestPCs
  <1>6. /\ r \in CallRecords /\ r.pc = "own" /\ r.awaits = n /\ r.floor = size
        /\ r.asks = call[c].asks
    <2> HIDE DEF n
    <2> QED
      BY <1>1, <1>3 DEF CallRecords, CallPCs
  <1>7. /\ call' = [call EXCEPT ![c] = r] /\ request' = [request EXCEPT ![n] = q]
        /\ made' = n /\ pending' = n /\ UNCHANGED <<over, cache, joined, failures>>
    BY DEF Execute, size
  <1> HIDE DEF r, q
  <1>8. /\ call' \in [Calls -> CallRecords] /\ call'[c] = r
        /\ \A d \in Calls \ {c} : call'[d] = call[d]
    BY <1>6, <1>7, CallUpdate
  <1>9. /\ request' \in [Numbers -> RequestRecords] /\ request'[n] = q
        /\ \A m \in Numbers \ {n} : request'[m] = request[m]
    BY <1>3, <1>5, <1>7 DEF IInv, Types
  <1>10. Types' /\ WrongOnlyByJoining'
    BY <1>3, <1>7, <1>8, <1>9 DEF IInv, Types, WrongOnlyByJoining
  <1>11. Numbering'
    <2>1. made' <= MaxRequests /\ pending' \in {0, made'}
      BY <1>2, <1>7
    <2>2. over' = 1..(IF pending' = 0 THEN made' ELSE made' - 1)
      <3>1. over = 1..made
        BY <1>2 DEF IInv, Numbering
      <3> QED
        BY <1>2, <1>7, <3>1
    <2>3. \A m \in Numbers : (request'[m].pc = "none") = (m > made')
      <3> SUFFICES ASSUME NEW m \in Numbers PROVE (request'[m].pc = "none") = (m > made')
        OBVIOUS
      <3>1. CASE m = n
        BY <1>2, <1>5, <1>7, <1>9, <3>1
      <3>2. CASE m # n
        <4>1. (request[m].pc = "none") = (m > made)
          BY DEF IInv, Numbering
        <4>2. (m > made) = (m > made')
          BY <1>2, <1>7, <3>2 DEF Numbers
        <4> QED
          BY <1>9, <3>2, <4>1, <4>2
      <3> QED
        BY <3>1, <3>2
    <2>4. \A m \in Numbers : m <= made' =>
             request'[m].attempt \in 1..MaxAttempts /\ request'[m].about \in Timestamps
      <3> SUFFICES ASSUME NEW m \in Numbers, m <= made'
                   PROVE  request'[m].attempt \in 1..MaxAttempts /\ request'[m].about \in Timestamps
        OBVIOUS
      <3>1. CASE m = n
        BY <1>2, <1>4, <1>5, <1>9, <3>1
      <3>2. CASE m # n
        <4>1. m <= made
          BY <1>2, <1>7, <3>2 DEF Numbers
        <4> QED
          BY <1>9, <3>2, <4>1 DEF IInv, Numbering
      <3> QED
        BY <3>1, <3>2
    <2>5. \A m \in Numbers : request'[m].pc \in {"sent", "delayed"} => m = pending'
      <3> SUFFICES ASSUME NEW m \in Numbers, m # n PROVE request[m].pc \notin {"sent", "delayed"}
        BY <1>7, <1>9
      <3> QED
        BY <1>2 DEF IInv, Numbering, Numbers
    <2> QED
      BY <2>1, <2>2, <2>3, <2>4, <2>5 DEF Numbering
  <1>12. \A d \in Calls : CallOk(d) /\ call[d].pc # "own"
    BY <1>2 DEF IInv, CallOk
  <1>13. OneOwner'
    BY <1>8, <1>12 DEF OneOwner
  <1>14. \A d \in Calls : CallOk(d)'
    <2> SUFFICES ASSUME NEW d \in Calls PROVE CallOk(d)'
      OBVIOUS
    <2>1. CASE d = c
      BY <1>2, <1>3, <1>4, <1>5, <1>6, <1>7, <1>8, <1>9, <2>1 DEF CallOk
    <2>2. CASE d # c
      <3>1. /\ call[d] \in CallRecords /\ CallOk(d) /\ call[d].pc # "own"
            /\ call[d].pc = "await" => call[d].awaits \in Numbers
        BY <1>12, CallFacts
      <3>2. call[d].awaits \in Nat /\ call[d].floor \in Nat
        BY <3>1 DEF CallRecords
      <3>3. /\ call[d].floor <= made' /\ call[d].awaits <= made'
            /\ call[d].awaits # n
        BY <1>2, <1>7, <3>1, <3>2 DEF CallOk
      <3>4. call[d].pc = "await" =>
              request'[call[d].awaits].about = request[call[d].awaits].about
        BY <1>9, <3>1, <3>3
      <3> QED
        BY <1>7, <1>8, <2>2, <3>1, <3>3, <3>4 DEF CallOk
    <2> QED
      BY <2>1, <2>2
  <1> QED
    BY <1>10, <1>11, <1>13, <1>14 DEF IInv

\* The owner drops its promise: from now on the request is over, and the next one may be made.
LEMMA FinishInv ==
    ASSUME IInv, NEW c \in Calls, Finish(c)
    PROVE  IInv'
  <1> DEFINE r == Result(c)
  <1>1. /\ call[c].pc = "own" /\ Settled(call[c].awaits)
        /\ pending' = 0 /\ over' = over \cup {call[c].awaits}
        /\ call' = [call EXCEPT ![c] = r]
        /\ UNCHANGED <<request, made, cache, joined, failures>>
    BY DEF Finish
  <1>2. /\ call[c] \in CallRecords /\ CallOk(c)
        /\ r \in CallRecords /\ r.pc \in {"threw", "store"}
        /\ r.asks = call[c].asks /\ r.awaits = call[c].awaits /\ r.floor = call[c].floor
        /\ r.pc = "store" => /\ r.answer \in Timestamps
                             /\ r.answer = call[c].asks \/ call[c].asks \in joined
    BY <1>1, CallFacts, ResultFacts
  <1> HIDE DEF r
  <1>3. /\ call' \in [Calls -> CallRecords] /\ call'[c] = r
        /\ \A d \in Calls \ {c} : call'[d] = call[d]
    BY <1>1, <1>2, CallUpdate
  <1>4. Types' /\ WrongOnlyByJoining'
    BY <1>1, <1>3 DEF IInv, Types, WrongOnlyByJoining
  <1>5. pending # 0 /\ pending = made /\ made \in Nat /\ call[c].awaits = pending
    BY <1>1, <1>2 DEF CallOk, IInv, Types, Numbering
  <1>6. Numbering'
    <2>1. over' = 1..made
      <3>1. over = 1..(made - 1)
        BY <1>5 DEF IInv, Numbering
      <3> QED
        BY <1>1, <1>5, <3>1
    <2>2. \A m \in Numbers : request[m].pc \notin {"sent", "delayed"}
      BY <1>1, <1>5 DEF IInv, Numbering, Settled
    <2> QED
      BY <1>1, <2>1, <2>2 DEF IInv, Numbering
  <1>7. \A d \in Calls : call'[d].pc # "own"
    BY <1>1, <1>2, <1>3 DEF IInv, OneOwner
  <1>8. \A d \in Calls : CallOk(d)'
    <2> SUFFICES ASSUME NEW d \in Calls PROVE CallOk(d)'
      OBVIOUS
    <2>1. CASE d = c
      BY <1>1, <1>2, <1>3, <2>1 DEF CallOk
    <2>2. CASE d # c
      <3>1. CallOk(d) /\ call[d].pc # "own"
        BY <1>3, <1>7, <2>2 DEF IInv
      <3> QED
        BY <1>1, <1>3, <2>2, <3>1 DEF CallOk
    <2> QED
      BY <2>1, <2>2
  <1> QED
    BY <1>4, <1>6, <1>7, <1>8 DEF IInv, OneOwner

\* Steps that change only what one call has: it goes on, is over, or its answer is cached.
LEMMA CallOnlyInv ==
    ASSUME IInv, NEW c \in Calls, NEW r \in CallRecords,
           call' = [call EXCEPT ![c] = r],
           UNCHANGED <<request, pending, made, over, joined, failures>>,
           r.pc \in {"idle", "store", "threw"},
           r.floor <= made, r.awaits <= made,
           r.pc # "idle" => r.asks \in Timestamps /\ r.floor < r.awaits,
           r.pc = "store" => r.answer \in Timestamps
                             /\ (r.answer = r.asks \/ r.asks \in joined),
           cache' \in [Timestamps -> Timestamps \cup {Nothing}],
           \A t \in Timestamps : cache'[t] \notin {Nothing, t} => t \in joined
    PROVE  IInv'
  <1>1. /\ call' \in [Calls -> CallRecords] /\ call'[c] = r
        /\ \A d \in Calls \ {c} : call'[d] = call[d]
    BY CallUpdate
  <1>2. Types' /\ Numbering' /\ WrongOnlyByJoining'
    BY <1>1 DEF IInv, Types, Numbering, WrongOnlyByJoining
  <1>3. OneOwner'
    BY <1>1 DEF IInv, OneOwner
  <1>4. \A d \in Calls : CallOk(d)'
    <2> SUFFICES ASSUME NEW d \in Calls PROVE CallOk(d)'
      OBVIOUS
    <2>1. CASE d = c
      BY <1>1, <2>1 DEF CallOk
    <2>2. CASE d # c
      BY <1>1, <2>2 DEF CallOk, IInv
    <2> QED
      BY <2>1, <2>2
  <1> QED
    BY <1>2, <1>3, <1>4 DEF IInv

LEMMA ResumeInv ==
    ASSUME IInv, NEW c \in Calls, Resume(c)
    PROVE  IInv'
  <1>1. call[c].pc = "await" /\ call' = [call EXCEPT ![c] = Result(c)]
        /\ UNCHANGED <<request, pending, made, over, cache, joined, failures>>
    BY DEF Resume
  <1>2. /\ CallOk(c) /\ Result(c) \in CallRecords /\ Result(c).pc \in {"threw", "store"}
        /\ Result(c).asks = call[c].asks /\ Result(c).awaits = call[c].awaits
        /\ Result(c).floor = call[c].floor
        /\ Result(c).pc = "store" =>
              /\ Result(c).answer \in Timestamps
              /\ Result(c).answer = call[c].asks \/ call[c].asks \in joined
    BY <1>1, CallFacts, ResultFacts
  <1>3. /\ call[c].floor <= made /\ call[c].awaits <= made
        /\ call[c].asks \in Timestamps /\ call[c].floor < call[c].awaits
    BY <1>1, <1>2 DEF CallOk
  <1>4. /\ cache' \in [Timestamps -> Timestamps \cup {Nothing}]
        /\ \A t \in Timestamps : cache'[t] \notin {Nothing, t} => t \in joined
    BY <1>1 DEF IInv, Types, WrongOnlyByJoining
  <1> DEFINE r == Result(c)
  <1>5. /\ r \in CallRecords /\ r.pc \in {"threw", "store"} /\ r.asks = call[c].asks
        /\ r.awaits = call[c].awaits /\ r.floor = call[c].floor
        /\ r.pc = "store" => /\ r.answer \in Timestamps
                             /\ r.answer = call[c].asks \/ call[c].asks \in joined
        /\ call' = [call EXCEPT ![c] = r]
    BY <1>1, <1>2
  <1> HIDE DEF r
  <1> QED
    BY <1>1, <1>3, <1>4, <1>5, CallOnlyInv

\* A call that is over knows nothing any more.
LEMMA IdleFacts ==
    IdleCall \in CallRecords /\ IdleCall.pc = "idle" /\ IdleCall.floor = 0 /\ IdleCall.awaits = 0
  BY DEF IdleCall, CallRecords, CallPCs

LEMMA StoreAnswerInv ==
    ASSUME IInv, NEW c \in Calls, StoreAnswer(c)
    PROVE  IInv'
  <1>1. /\ call[c].pc = "store" /\ call' = [call EXCEPT ![c] = IdleCall]
        /\ cache' = [cache EXCEPT ![call[c].asks] = call[c].answer]
        /\ UNCHANGED <<request, pending, made, over, joined, failures>>
    BY DEF StoreAnswer
  <1>2. /\ call[c].asks \in Timestamps /\ call[c].answer \in Timestamps
        /\ call[c].answer = call[c].asks \/ call[c].asks \in joined
    BY <1>1, CallFacts DEF CallOk
  <1>3. /\ cache' \in [Timestamps -> Timestamps \cup {Nothing}]
        /\ \A t \in Timestamps : cache'[t] \notin {Nothing, t} => t \in joined
    BY <1>1, <1>2 DEF IInv, Types, WrongOnlyByJoining
  <1>4. 0 <= made
    BY DEF IInv, Types
  <1> QED
    BY <1>1, <1>3, <1>4, IdleFacts, CallOnlyInv

LEMMA ThrowInv ==
    ASSUME IInv, NEW c \in Calls, Throw(c)
    PROVE  IInv'
  <1>1. /\ call' = [call EXCEPT ![c] = IdleCall]
        /\ UNCHANGED <<request, pending, made, over, cache, joined, failures>>
    BY DEF Throw
  <1>2. /\ cache' \in [Timestamps -> Timestamps \cup {Nothing}]
        /\ \A t \in Timestamps : cache'[t] \notin {Nothing, t} => t \in joined
    BY <1>1 DEF IInv, Types, WrongOnlyByJoining
  <1>3. 0 <= made
    BY DEF IInv, Types
  <1> QED
    BY <1>1, <1>2, <1>3, IdleFacts, CallOnlyInv

LEMMA ExpireInv ==
    ASSUME IInv, NEW t \in Timestamps, Expire(t)
    PROVE  IInv'
  <1>1. /\ cache' = [cache EXCEPT ![t] = Nothing]
        /\ UNCHANGED <<call, request, pending, made, over, joined, failures>>
    BY DEF Expire
  <1>2. Types' /\ WrongOnlyByJoining'
    BY <1>1 DEF IInv, Types, WrongOnlyByJoining
  <1>3. Numbering' /\ OneOwner'
    BY <1>1 DEF IInv, Numbering, OneOwner
  <1>4. \A d \in Calls : CallOk(d)'
    BY <1>1 DEF IInv, CallOk
  <1> QED
    BY <1>2, <1>3, <1>4 DEF IInv

--------------------------------------------------------------------------------
(* The theorems.                                                           *)

LEMMA StepInv == IInv /\ [Next]_vars => IInv'
  <1> SUFFICES ASSUME IInv, [Next]_vars PROVE IInv'
    OBVIOUS
  <1>1. CASE UNCHANGED vars
    BY <1>1 DEF vars, IInv, Types, Numbering, CallOk, OneOwner, WrongOnlyByJoining
  <1>2. ASSUME NEW c \in Calls, CallStep(c) PROVE IInv'
    BY <1>2, JoinInv, ExecuteInv, FinishInv, ResumeInv, StoreAnswerInv, ThrowInv DEF CallStep
  <1>3. ASSUME NEW c \in Calls, NEW t \in Timestamps, Ask(c, t) PROVE IInv'
    BY <1>3, AskInv
  <1>4. ASSUME NEW n \in Numbers, RequestStep(n) PROVE IInv'
    BY <1>4, RequestStepInv
  <1>5. ASSUME NEW t \in Timestamps, Expire(t) PROVE IInv'
    BY <1>5, ExpireInv
  <1> QED
    BY <1>1, <1>2, <1>3, <1>4, <1>5 DEF Next

LEMMA SharedFromInv == IInv => CallsAreShared
  <1> SUFFICES ASSUME IInv PROVE CallsAreShared
    OBVIOUS
  <1>1. /\ made \in Nat /\ made <= MaxRequests /\ pending \in {0, made}
        /\ MaxRequests \in Nat /\ MaxFailures \in Nat
    BY PendingExecutorAssumption DEF IInv, Types, Numbering
  <1>2. TypeOK
    <2>1. \A c \in Calls :
            /\ call[c].pc \in {"idle", "execute", "own", "await", "store", "threw"}
            /\ call[c].awaits \in 0..made /\ call[c].floor \in 0..made
            /\ call[c].asks \in Timestamps \cup {Nothing}
            /\ call[c].answer \in Timestamps \cup {Nothing, Failed}
      <3> SUFFICES ASSUME NEW c \in Calls
                   PROVE  /\ call[c].pc \in CallPCs
                          /\ call[c].awaits \in 0..made /\ call[c].floor \in 0..made
                          /\ call[c].asks \in Timestamps \cup {Nothing}
                          /\ call[c].answer \in Timestamps \cup {Nothing, Failed}
        BY DEF CallPCs
      <3>1. call[c] \in CallRecords /\ call[c].awaits <= made /\ call[c].floor <= made
        BY CallFacts DEF CallOk
      <3>2. call[c].awaits \in Nat /\ call[c].floor \in Nat
        BY <3>1 DEF CallRecords
      <3> QED
        BY <1>1, <3>1, <3>2 DEF CallRecords
    <2>2. \A n \in 1..made : request[n].attempt \in 1..MaxAttempts /\ request[n].about \in Timestamps
      BY <1>1 DEF IInv, Numbering, Numbers
    <2>3. over \subseteq 1..made
      BY <1>1 DEF IInv, Numbering
    <2>4. pending \in 0..made /\ made \in 0..MaxRequests
      BY <1>1
    <2> QED
      BY <2>1, <2>2, <2>3, <2>4 DEF TypeOK, IInv, Types, Numbering
  <1>3. Cardinality(InFlight) <= 1
    <2>1. InFlight \in SUBSET {pending}
      BY DEF IInv, Numbering, InFlight
    <2>2. IsFiniteSet({pending}) /\ Cardinality({pending}) = 1
      BY FS_Singleton
    <2> QED
      BY <2>1, <2>2, FS_Subset
  <1>4. \A c \in Calls : call[c].pc \in {"store", "threw"} => call[c].awaits > call[c].floor
    <2> SUFFICES ASSUME NEW c \in Calls, call[c].pc \in {"store", "threw"}
                 PROVE  call[c].awaits > call[c].floor
      OBVIOUS
    <2>1. call[c] \in CallRecords /\ call[c].floor < call[c].awaits
      BY CallFacts DEF CallOk
    <2>2. call[c].awaits \in Nat /\ call[c].floor \in Nat
      BY <2>1 DEF CallRecords
    <2> QED
      BY <2>1, <2>2
  <1> QED
    BY <1>2, <1>3, <1>4 DEF CallsAreShared

LEMMA InvHolds == Spec => []IInv
  BY InitInv, StepInv, PTL DEF Spec

\* execute: identical calls share one request at a time, which is made anew once the last one
\* is over, however it ended.
THEOREM SharedCalls == Spec => []CallsAreShared
  BY InvHolds, SharedFromInv, PTL

\* The executor's key leaves out the timestamp: this is the only way to an answer about the
\* wrong one.
THEOREM WrongAnswersAreJoined == Spec => []WrongOnlyByJoining
  <1>1. IInv => WrongOnlyByJoining
    BY DEF IInv
  <1> QED
    BY <1>1, InvHolds, PTL

--------------------------------------------------------------------------------
(* The executor implements SharedQuery.                                    *)

\* A call has an outcome of its own only once it went on, and asks nothing when there is none.
AnswerOk(c) ==
    /\ call[c].pc = "idle" => call[c].asks = Nothing
    /\ call[c].pc \in {"idle", "execute", "own", "await"} => call[c].answer = Nothing
    /\ call[c].pc = "threw" => call[c].answer = Failed

AnswerInv == \A c \in Calls : AnswerOk(c)

\* What a request gives to whoever waits for it.
Given(n) == IF request[n].pc = "rejected" THEN Failed ELSE request[n].about

LEMMA ResultIsGiven ==
    ASSUME IInv, NEW c \in Calls, call[c].pc \in {"own", "await"}
    PROVE  /\ Result(c).answer = Given(call[c].awaits)
           /\ Result(c).pc = "threw" => Result(c).answer = Failed
  <1>1. call[c] \in CallRecords
    BY CallFacts
  <1> QED
    BY <1>1 DEF Result, Given, CallRecords

LEMMA AnswerInit == Init => AnswerInv
  BY DEF Init, AnswerInv, AnswerOk, IdleCall

\* The calls whose step it is not keep what they have.
LEMMA AnswerUpdate ==
    ASSUME IInv, AnswerInv, NEW c \in Calls, NEW r \in CallRecords,
           call' = [call EXCEPT ![c] = r],
           r.pc = "idle" => r.asks = Nothing,
           r.pc \in {"idle", "execute", "own", "await"} => r.answer = Nothing,
           r.pc = "threw" => r.answer = Failed
    PROVE  AnswerInv'
  <1>1. call'[c] = r /\ \A d \in Calls \ {c} : call'[d] = call[d]
    BY CallUpdate
  <1> QED
    BY <1>1 DEF AnswerInv, AnswerOk

\* What a call is after its step.
LEMMA CallSteps ==
    ASSUME IInv, NEW c \in Calls
    PROVE  /\ Join(c) => \E r \in CallRecords :
                /\ call' = [call EXCEPT ![c] = r] /\ r.pc = "await" /\ r.awaits = pending
                /\ r.asks = call[c].asks /\ r.answer = call[c].answer
           /\ Execute(c) => \E r \in CallRecords :
                /\ call' = [call EXCEPT ![c] = r] /\ r.pc = "own" /\ r.awaits = made + 1
                /\ r.asks = call[c].asks /\ r.answer = call[c].answer
  <1>1. /\ call[c] \in CallRecords /\ Cardinality(over) \in Nat
        /\ pending \in Nat /\ made + 1 \in Nat
    <2>1. made \in Nat /\ pending \in {0, made}
      BY DEF IInv, Types, Numbering
    <2> QED
      BY <2>1, OverSize, CallFacts
  <1> DEFINE size == Cardinality(over)
             j == [call[c] EXCEPT !.pc = "await", !.awaits = pending, !.floor = size]
             e == [call[c] EXCEPT !.pc = "own", !.awaits = made + 1, !.floor = size]
  <1>2. Join(c) => call' = [call EXCEPT ![c] = j]
    BY DEF Join
  <1>3. Execute(c) => call' = [call EXCEPT ![c] = e]
    BY DEF Execute
  <1> HIDE DEF size
  <1>4. size \in Nat
    BY <1>1 DEF size
  <1>5. j \in CallRecords /\ j.pc = "await" /\ j.awaits = pending
        /\ j.asks = call[c].asks /\ j.answer = call[c].answer
    BY <1>1, <1>4 DEF CallRecords, CallPCs
  <1>6. e \in CallRecords /\ e.pc = "own" /\ e.awaits = made + 1
        /\ e.asks = call[c].asks /\ e.answer = call[c].answer
    BY <1>1, <1>4 DEF CallRecords, CallPCs
  <1> HIDE DEF j, e
  <1> QED
    BY <1>2, <1>3, <1>5, <1>6

LEMMA AnswerNext ==
    ASSUME IInv, AnswerInv, [Next]_vars
    PROVE  AnswerInv'
  <1>1. CASE UNCHANGED call
    BY <1>1 DEF AnswerInv, AnswerOk
  <1>2. ASSUME NEW c \in Calls, Join(c) \/ Execute(c) PROVE AnswerInv'
    <2>1. call[c].answer = Nothing
      BY <1>2 DEF Join, Execute, AnswerInv, AnswerOk
    <2> QED
      BY <1>2, <2>1, CallSteps, AnswerUpdate
  <1>3. ASSUME NEW c \in Calls, Finish(c) \/ Resume(c) PROVE AnswerInv'
    <2>1. call[c].pc \in {"own", "await"} /\ call' = [call EXCEPT ![c] = Result(c)]
      BY <1>3 DEF Finish, Resume
    <2>2. /\ Result(c) \in CallRecords /\ Result(c).pc \in {"threw", "store"}
          /\ Result(c).pc = "threw" => Result(c).answer = Failed
      BY <2>1, ResultFacts, ResultIsGiven
    <2> QED
      BY <2>1, <2>2, AnswerUpdate
  <1>4. ASSUME NEW c \in Calls, StoreAnswer(c) \/ Throw(c) PROVE AnswerInv'
    <2>1. call' = [call EXCEPT ![c] = IdleCall] /\ IdleCall \in CallRecords
          /\ IdleCall.asks = Nothing /\ IdleCall.answer = Nothing /\ IdleCall.pc = "idle"
      BY <1>4, IdleFacts DEF StoreAnswer, Throw, IdleCall
    <2> QED
      BY <2>1, AnswerUpdate
  <1>5. ASSUME NEW c \in Calls, NEW t \in Timestamps, Ask(c, t) PROVE AnswerInv'
    <2> DEFINE r == [IdleCall EXCEPT !.pc = "execute", !.asks = t]
    <2>1. r \in CallRecords /\ r.pc = "execute" /\ r.answer = Nothing
      BY DEF IdleCall, CallRecords, CallPCs
    <2>2. call' = [call EXCEPT ![c] = r]
      BY <1>5 DEF Ask
    <2> HIDE DEF r
    <2> QED
      BY <2>1, <2>2, AnswerUpdate
  <1> QED
    BY <1>1, <1>2, <1>3, <1>4, <1>5
       DEF Next, CallStep, RequestStep, Answer, TimesOut, Retry, Fails, Expire, vars

--------------------------------------------------------------------------------
(* Steps of the executor are steps of SharedQuery, or change nothing there.  *)

\* A call keeps its place in SharedQuery while it and its request stay as they are.
LEMMA SamePlace ==
    ASSUME NEW d \in Calls, call'[d] = call[d],
           call[d].pc \in {"own", "await"} =>
              /\ request'[call[d].awaits] = request[call[d].awaits]
              /\ call[d].awaits \in over' <=> call[d].awaits \in over
    PROVE  /\ Waits(d)' <=> Waits(d)
           /\ Outcome(d)' = Outcome(d)
           /\ call'[d].asks = call[d].asks
  <1>1. CASE call[d].pc \in {"own", "await"}
    <2>1. Result(d)' = Result(d)
      BY <1>1 DEF Result
    <2> QED
      BY <1>1, <2>1 DEF Waits, Outcome
  <1>2. CASE call[d].pc \notin {"own", "await"}
    BY <1>2 DEF Waits, Outcome
  <1> QED
    BY <1>1, <1>2

\* The promise that is stored belongs to a request about some timestamp that is not over.
LEMMA PendingFacts ==
    ASSUME IInv
    PROVE  /\ made \in Nat /\ pending \in {0, made}
           /\ \A n \in over : n \in Numbers /\ n <= made
           /\ pending # 0 => /\ pending \in Numbers /\ pending \notin over
                            /\ request[pending].about \in Timestamps
           /\ pending = 0 => over = 1..made
           /\ \A d \in Calls : Waits(d) => pending # 0 /\ call[d].awaits = pending
  <1>1. made \in Nat /\ made <= MaxRequests /\ MaxRequests \in Nat /\ pending \in {0, made}
    BY PendingExecutorAssumption DEF IInv, Types, Numbering
  <1>2. over = 1..(IF pending = 0 THEN made ELSE made - 1)
    BY DEF IInv, Numbering
  <1>3. pending # 0 => pending \in Numbers /\ pending \notin over
    BY <1>1, <1>2 DEF Numbers
  <1>4. pending # 0 => request[pending].about \in Timestamps
    BY <1>1, <1>3 DEF IInv, Numbering
  <1>5. \A n \in over : n \in Numbers /\ n <= made
    BY <1>1, <1>2 DEF Numbers
  <1>6. ASSUME NEW d \in Calls, Waits(d) PROVE pending # 0 /\ call[d].awaits = pending
    <2>1. call[d].awaits \in Numbers /\ call[d].awaits <= made
      BY <1>6, CallFacts DEF Waits, CallOk
    <2> QED
      BY <1>1, <1>2, <1>6, <2>1 DEF Waits, Numbers
  <1> QED
    BY <1>1, <1>2, <1>3, <1>4, <1>5, <1>6

\* execute: a call that waits does so for the promise that is stored, whose request is not over:
\* the finally clause that removes a promise never leaves a caller behind who waits for it, and
\* nobody waits for a request other than the last one.
NobodyWaitsForNothing ==
    \A c \in Calls : Waits(c) => pending # 0 /\ call[c].awaits = pending /\ pending \notin over

THEOREM WaitersAwaitTheStored == Spec => []NobodyWaitsForNothing
  <1>1. IInv => NobodyWaitsForNothing
    BY PendingFacts DEF NobodyWaitsForNothing
  <1> QED
    BY <1>1, InvHolds, PTL

\* A call that asks was none of the calls of SharedQuery before.
LEMMA AskShared ==
    ASSUME IInv, AnswerInv, NEW c \in Calls, NEW t \in Timestamps, Ask(c, t)
    PROVE  Shared!Ask(c, t)
  <1> DEFINE r == [IdleCall EXCEPT !.pc = "execute", !.asks = t]
  <1>1. /\ r \in CallRecords /\ r.pc = "execute" /\ r.asks = t /\ r.answer = Nothing
    BY DEF IdleCall, CallRecords, CallPCs
  <1>2. /\ call[c].pc = "idle" /\ call' = [call EXCEPT ![c] = r]
        /\ UNCHANGED <<request, pending, over>>
    BY DEF Ask
  <1> HIDE DEF r
  <1>3. call'[c] = r /\ \A d \in Calls \ {c} : call'[d] = call[d]
    BY <1>1, <1>2, CallUpdate
  <1>4. call[c].asks = Nothing /\ call[c].answer = Nothing
    BY <1>2 DEF AnswerInv, AnswerOk
  <1>5. \A d \in Calls \ {c} : /\ Waits(d)' <=> Waits(d)
                              /\ Outcome(d)' = Outcome(d)
                              /\ call'[d].asks = call[d].asks
    BY <1>2, <1>3, SamePlace
  <1>6. ~Waits(c) /\ ~Waits(c)' /\ Outcome(c) = Nothing /\ Outcome(c)' = Nothing
    BY <1>1, <1>2, <1>3, <1>4 DEF Waits, Outcome
  <1>7. {d \in Calls : Waits(d)}' = {d \in Calls : Waits(d)}
    BY <1>5, <1>6
  <1>8. [d \in Calls |-> Outcome(d)]' = [d \in Calls |-> Outcome(d)]
    BY <1>5, <1>6
  <1>9. Flying' = Flying
    BY <1>2 DEF Flying
  <1>10. [d \in Calls |-> call[d].asks]' = [[d \in Calls |-> call[d].asks] EXCEPT ![c] = t]
    BY <1>1, <1>3
  <1> QED
    BY <1>4, <1>7, <1>8, <1>9, <1>10 DEF Shared!Ask

\* A call that takes its place with the request in flight, or starts one, waits.
LEMMA PlaceTaken ==
    ASSUME IInv, AnswerInv, NEW c \in Calls, NEW r \in CallRecords,
           call[c].pc = "execute", call' = [call EXCEPT ![c] = r],
           r.pc \in {"own", "await"}, r.asks = call[c].asks, r.answer = call[c].answer,
           over' = over, r.awaits \notin over,
           \A n \in over : request'[n] = request[n],
           \A d \in Calls \ {c} : call[d].pc \in {"own", "await"} =>
              request'[call[d].awaits] = request[call[d].awaits],
           Flying' = (IF Flying = Nothing THEN call[c].asks ELSE Flying)
    PROVE  Shared!Wait(c)
  <1>1. call'[c] = r /\ \A d \in Calls \ {c} : call'[d] = call[d]
    BY CallUpdate
  <1>2. \A d \in Calls \ {c} : /\ Waits(d)' <=> Waits(d)
                              /\ Outcome(d)' = Outcome(d)
                              /\ call'[d].asks = call[d].asks
    BY <1>1, SamePlace
  <1>3. call[c].asks \in Timestamps /\ call[c].answer = Nothing
    BY CallFacts DEF CallOk, AnswerInv, AnswerOk
  <1>4. call[c].asks # Nothing
    BY <1>3, TimestampsAssumption
  <1>5. ~Waits(c) /\ Waits(c)' /\ Outcome(c) = Nothing /\ Outcome(c)' = Nothing
    BY <1>1, <1>3 DEF Waits, Outcome
  <1>6. {d \in Calls : Waits(d)}' = {d \in Calls : Waits(d)} \cup {c}
    BY <1>2, <1>5
  <1>7. [d \in Calls |-> Outcome(d)]' = [d \in Calls |-> Outcome(d)]
    BY <1>2, <1>5
  <1>8. [d \in Calls |-> call[d].asks]' = [d \in Calls |-> call[d].asks]
    BY <1>1
  <1> QED
    BY <1>4, <1>5, <1>6, <1>7, <1>8 DEF Shared!Wait

LEMMA JoinShared ==
    ASSUME IInv, AnswerInv, NEW c \in Calls, Join(c)
    PROVE  Shared!Wait(c)
  <1>1. PICK r \in CallRecords :
          /\ call' = [call EXCEPT ![c] = r] /\ r.pc = "await" /\ r.awaits = pending
          /\ r.asks = call[c].asks /\ r.answer = call[c].answer
    BY CallSteps
  <1>2. call[c].pc = "execute" /\ pending # 0 /\ UNCHANGED <<request, pending, over>>
    BY DEF Join
  <1>3. pending \notin over /\ request[pending].about \in Timestamps
    BY <1>2, PendingFacts
  <1>4. Flying' = Flying /\ Flying # Nothing
    BY <1>2, <1>3, TimestampsAssumption DEF Flying
  <1> QED
    BY <1>1, <1>2, <1>3, <1>4, PlaceTaken

LEMMA ExecuteShared ==
    ASSUME IInv, AnswerInv, NEW c \in Calls, Execute(c)
    PROVE  Shared!Wait(c)
  <1>1. PICK r \in CallRecords :
          /\ call' = [call EXCEPT ![c] = r] /\ r.pc = "own" /\ r.awaits = made + 1
          /\ r.asks = call[c].asks /\ r.answer = call[c].answer
    BY CallSteps
  <1>2. /\ call[c].pc = "execute" /\ pending = 0 /\ pending' = made + 1 /\ over' = over
        /\ made < MaxRequests /\ request' = [request EXCEPT ![made + 1] = Sent(c)]
    BY DEF Execute
  <1>3. /\ made \in Nat /\ made + 1 \notin over /\ made + 1 # 0
        /\ \A n \in over : n \in Numbers /\ n # made + 1
    <2>1. made \in Nat /\ \A n \in over : n \in Numbers /\ n <= made
      BY PendingFacts
    <2> QED
      BY <2>1 DEF Numbers
  <1>4. request \in [Numbers -> RequestRecords] /\ made + 1 \in Numbers
    BY <1>2, <1>3, PendingExecutorAssumption DEF IInv, Types, Numbers
  <1>5. request'[made + 1] = Sent(c) /\ \A n \in Numbers : n # made + 1 => request'[n] = request[n]
    BY <1>2, <1>4
  <1>6. ASSUME NEW d \in Calls, call[d].pc \in {"own", "await"}
        PROVE  request'[call[d].awaits] = request[call[d].awaits]
    <2>1. call[d].awaits \in Numbers /\ call[d].awaits <= made
      BY <1>6, CallFacts DEF CallOk
    <2>2. call[d].awaits # made + 1
      BY <1>3, <2>1 DEF Numbers
    <2> QED
      BY <1>5, <2>1, <2>2
  <1>7. Flying = Nothing /\ Flying' = call[c].asks
    BY <1>2, <1>3, <1>5 DEF Flying, Sent
  <1> QED
    BY <1>1, <1>2, <1>3, <1>5, <1>6, <1>7, PlaceTaken

\* The request leaves the dictionary: every call that waits has its outcome from now on.
LEMMA FinishShared ==
    ASSUME IInv, AnswerInv, NEW c \in Calls, Finish(c)
    PROVE  \E o \in {Flying, Failed} : Shared!Land(o)
  <1> DEFINE n == call[c].awaits
             o == Given(n)
  <1>1. /\ call[c].pc = "own" /\ pending' = 0 /\ over' = over \cup {n}
        /\ call' = [call EXCEPT ![c] = Result(c)] /\ request' = request
    BY DEF Finish
  <1>2. /\ Result(c) \in CallRecords /\ Result(c).pc \in {"threw", "store"}
        /\ Result(c).asks = call[c].asks /\ Result(c).answer = o
    BY <1>1, ResultFacts, ResultIsGiven
  <1>3. call'[c] = Result(c) /\ \A d \in Calls \ {c} : call'[d] = call[d]
    BY <1>1, <1>2, CallUpdate
  <1>4. /\ pending # 0 /\ n = pending /\ pending \notin over
        /\ request[pending].about \in Timestamps
    BY <1>1, CallFacts, PendingFacts DEF CallOk
  <1>5. Flying = request[n].about /\ Flying # Nothing /\ Flying' = Nothing
    BY <1>1, <1>4, TimestampsAssumption DEF Flying
  <1>6. o \in {Flying, Failed}
    BY <1>5 DEF Given
  <1>7. \A d \in Calls : Waits(d) => call[d].awaits = n
    BY <1>4, PendingFacts
  <1> HIDE DEF n, o
  <1>8. ASSUME NEW d \in Calls \ {c}
        PROVE  /\ ~Waits(d)'
               /\ Outcome(d)' = IF Waits(d) THEN o ELSE Outcome(d)
    <2>1. call'[d] = call[d]
      BY <1>3, <1>8
    <2>2. CASE Waits(d)
      <3>1. call[d].pc \in {"own", "await"} /\ call[d].awaits = n
        BY <1>7, <2>2 DEF Waits
      <3>2. Result(d)' = Result(d)
        BY <1>1, <2>1 DEF Result
      <3>3. Result(d).answer = o
        BY <3>1, ResultIsGiven DEF o
      <3> QED
        BY <1>1, <2>1, <2>2, <3>1, <3>2, <3>3 DEF Waits, Outcome
    <2>3. CASE ~Waits(d)
      <3>1. call[d].pc \in {"own", "await"} => call[d].awaits \in over
        BY <2>3 DEF Waits
      <3>2. /\ Waits(d)' <=> Waits(d)
            /\ Outcome(d)' = Outcome(d)
        BY <1>1, <2>1, <3>1, SamePlace
      <3> QED
        BY <2>3, <3>2
    <2> QED
      BY <2>2, <2>3
  <1>9. Waits(c) /\ ~Waits(c)' /\ Outcome(c)' = o
    BY <1>1, <1>2, <1>3, <1>4 DEF Waits, Outcome, n
  <1>10. {d \in Calls : Waits(d)}' = {}
    BY <1>8, <1>9
  <1>11. [d \in Calls |-> Outcome(d)]'
           = [d \in Calls |-> IF d \in {e \in Calls : Waits(e)}
                              THEN o ELSE [e \in Calls |-> Outcome(e)][d]]
    BY <1>8, <1>9
  <1>12. [d \in Calls |-> call[d].asks]' = [d \in Calls |-> call[d].asks]
    BY <1>2, <1>3
  <1> QED
    BY <1>5, <1>6, <1>10, <1>11, <1>12 DEF Shared!Land

\* A call that goes on takes with it the outcome it had.
LEMMA ResumeShared ==
    ASSUME IInv, AnswerInv, NEW c \in Calls, Resume(c)
    PROVE  UNCHANGED Shared!sharedVars
  <1>1. /\ call[c].pc = "await" /\ call[c].awaits \in over
        /\ call' = [call EXCEPT ![c] = Result(c)] /\ UNCHANGED <<request, pending, over>>
    BY DEF Resume
  <1>2. /\ Result(c) \in CallRecords /\ Result(c).pc \in {"threw", "store"}
        /\ Result(c).asks = call[c].asks
    BY <1>1, ResultFacts
  <1>3. call'[c] = Result(c) /\ \A d \in Calls \ {c} : call'[d] = call[d]
    BY <1>1, <1>2, CallUpdate
  <1>4. \A d \in Calls \ {c} : /\ Waits(d)' <=> Waits(d)
                              /\ Outcome(d)' = Outcome(d)
                              /\ call'[d].asks = call[d].asks
    BY <1>1, <1>3, SamePlace
  <1>5. ~Waits(c) /\ ~Waits(c)' /\ Outcome(c)' = Outcome(c)
    BY <1>1, <1>2, <1>3 DEF Waits, Outcome
  <1>6. {d \in Calls : Waits(d)}' = {d \in Calls : Waits(d)}
    BY <1>4, <1>5
  <1>7. [d \in Calls |-> Outcome(d)]' = [d \in Calls |-> Outcome(d)]
    BY <1>4, <1>5
  <1>8. [d \in Calls |-> call[d].asks]' = [d \in Calls |-> call[d].asks]
    BY <1>2, <1>3
  <1>9. Flying' = Flying
    BY <1>1 DEF Flying
  <1> QED
    BY <1>6, <1>7, <1>8, <1>9 DEF Shared!sharedVars

\* A call that ends had an outcome.
LEMMA EndShared ==
    ASSUME IInv, AnswerInv, NEW c \in Calls, StoreAnswer(c) \/ Throw(c)
    PROVE  Shared!Deliver(c)
  <1>1. /\ call[c].pc \in {"store", "threw"} /\ call' = [call EXCEPT ![c] = IdleCall]
        /\ UNCHANGED <<request, pending, over>>
    BY DEF StoreAnswer, Throw
  <1>2. /\ IdleCall \in CallRecords /\ IdleCall.pc = "idle"
        /\ IdleCall.asks = Nothing /\ IdleCall.answer = Nothing
    BY IdleFacts DEF IdleCall
  <1>3. call'[c] = IdleCall /\ \A d \in Calls \ {c} : call'[d] = call[d]
    BY <1>1, <1>2, CallUpdate
  <1>4. \A d \in Calls \ {c} : /\ Waits(d)' <=> Waits(d)
                              /\ Outcome(d)' = Outcome(d)
                              /\ call'[d].asks = call[d].asks
    BY <1>1, <1>3, SamePlace
  <1>5. call[c].answer # Nothing
    <2>1. call[c].pc = "store" => call[c].answer \in Timestamps
      BY CallFacts DEF CallOk
    <2>2. call[c].pc = "threw" => call[c].answer = Failed
      BY DEF AnswerInv, AnswerOk
    <2>3. Failed # Nothing
      BY DEF Failed, Nothing
    <2> QED
      BY <1>1, <2>1, <2>2, <2>3, TimestampsAssumption
  <1>6. /\ ~Waits(c) /\ ~Waits(c)' /\ Outcome(c)' = Nothing
        /\ Outcome(c) # Nothing
    BY <1>1, <1>2, <1>3, <1>5 DEF Waits, Outcome
  <1>7. {d \in Calls : Waits(d)}' = {d \in Calls : Waits(d)}
    BY <1>4, <1>6
  <1>8. [d \in Calls |-> Outcome(d)]'
          = [[d \in Calls |-> Outcome(d)] EXCEPT ![c] = Nothing]
    <2> DEFINE now == [d \in Calls |-> Outcome(d)]
    <2>1. [d \in Calls |-> Outcome(d)]' = [d \in Calls |-> IF d = c THEN Nothing ELSE now[d]]
      BY <1>4, <1>6
    <2>2. now = [d \in Calls |-> now[d]]
      OBVIOUS
    <2> HIDE DEF now
    <2>3. [d \in Calls |-> IF d = c THEN Nothing ELSE now[d]] = [now EXCEPT ![c] = Nothing]
      BY <2>2
    <2> QED
      BY <2>1, <2>3 DEF now
  <1>9. [d \in Calls |-> call[d].asks]' = [[d \in Calls |-> call[d].asks] EXCEPT ![c] = Nothing]
    BY <1>2, <1>3
  <1>10. Flying' = Flying
    BY <1>1 DEF Flying
  <1> QED
    BY <1>6, <1>7, <1>8, <1>9, <1>10 DEF Shared!Deliver

\* Attempts, retries and what comes of them are nobody's business until the request is over.
LEMMA RequestShared ==
    ASSUME IInv, AnswerInv, NEW n \in Numbers, RequestStep(n)
    PROVE  UNCHANGED Shared!sharedVars
  <1>1. PICK pc \in RequestPCs \ {"none"}, a \in 1..MaxAttempts :
          request' = [request EXCEPT ![n] = [pc |-> pc, about |-> request[n].about, attempt |-> a]]
    BY RequestStepShape
  <1>2. /\ UNCHANGED <<call, pending, over>>
        /\ request[n].pc \in {"sent", "delayed"}
    BY RequestStepShape
  <1>3. n = pending /\ n # 0
    BY <1>2 DEF IInv, Numbering, Numbers
  <1>4. /\ request'[n].about = request[n].about
        /\ \A m \in Numbers \ {n} : request'[m] = request[m]
    BY <1>1 DEF IInv, Types
  <1>5. n \notin over /\ \A m \in over : m \in Numbers
    BY <1>3, PendingFacts
  <1>6. Flying' = Flying
    BY <1>2, <1>3, <1>4 DEF Flying
  <1>7. \A d \in Calls : Waits(d)' <=> Waits(d)
    BY <1>2 DEF Waits
  <1>8. ASSUME NEW d \in Calls PROVE Outcome(d)' = Outcome(d)
    <2>1. CASE call[d].pc \in {"own", "await"} /\ call[d].awaits \in over
      <3>1. request'[call[d].awaits] = request[call[d].awaits]
        BY <1>4, <1>5, <2>1
      <3>2. Result(d)' = Result(d)
        BY <1>2, <3>1 DEF Result
      <3> QED
        BY <1>2, <2>1, <3>2 DEF Outcome
    <2>2. CASE ~(call[d].pc \in {"own", "await"} /\ call[d].awaits \in over)
      BY <1>2, <2>2 DEF Outcome
    <2> QED
      BY <2>1, <2>2
  <1>9. {d \in Calls : Waits(d)}' = {d \in Calls : Waits(d)}
    BY <1>7
  <1>10. [d \in Calls |-> Outcome(d)]' = [d \in Calls |-> Outcome(d)]
    BY <1>8
  <1> QED
    BY <1>2, <1>6, <1>9, <1>10 DEF Shared!sharedVars

LEMMA SameShared ==
    ASSUME UNCHANGED <<call, request, pending, over>>
    PROVE  UNCHANGED Shared!sharedVars
  BY DEF Shared!sharedVars, Waits, Outcome, Flying, Result

LEMMA SharedInit == Init => Shared!Init
  <1> SUFFICES ASSUME Init PROVE Shared!Init
    OBVIOUS
  <1>1. \A c \in Calls : ~Waits(c) /\ Outcome(c) = Nothing /\ call[c].asks = Nothing
    BY DEF Init, IdleCall, Waits, Outcome
  <1>2. Flying = Nothing
    BY DEF Init, Flying
  <1> QED
    BY <1>1, <1>2 DEF Shared!Init

LEMMA SharedStep ==
    ASSUME IInv, AnswerInv, [Next]_vars
    PROVE  [Shared!Next]_(Shared!sharedVars)
  <1>1. ASSUME NEW c \in Calls, Join(c) \/ Execute(c) PROVE Shared!Next
    BY <1>1, JoinShared, ExecuteShared DEF Shared!Next
  <1>2. ASSUME NEW c \in Calls, Finish(c) PROVE Shared!Next
    BY <1>2, FinishShared DEF Shared!Next
  <1>3. ASSUME NEW c \in Calls, StoreAnswer(c) \/ Throw(c) PROVE Shared!Next
    BY <1>3, EndShared DEF Shared!Next
  <1>4. ASSUME NEW c \in Calls, NEW t \in Timestamps, Ask(c, t) PROVE Shared!Next
    BY <1>4, AskShared DEF Shared!Next
  <1>5. ASSUME NEW c \in Calls, Resume(c) PROVE UNCHANGED Shared!sharedVars
    BY <1>5, ResumeShared
  <1>6. ASSUME NEW n \in Numbers, RequestStep(n) PROVE UNCHANGED Shared!sharedVars
    BY <1>6, RequestShared
  <1>7. CASE UNCHANGED vars \/ \E t \in Timestamps : Expire(t)
    BY <1>7, SameShared DEF vars, Expire
  <1> QED
    BY <1>1, <1>2, <1>3, <1>4, <1>5, <1>6, <1>7 DEF Next, CallStep

\* execute and its callers, one by one and in any order, are what SharedQuery says at one
\* moment: all calls that wait for a request get its one outcome when it leaves the
\* dictionary, a call that comes later gets another, and none is left without.
THEOREM ExecutorImplementsSharedQuery == Spec => ImplementsSharedQuery
  <1>1. IInv /\ AnswerInv /\ [Next]_vars => AnswerInv'
    BY AnswerNext
  <1>2. Spec => []AnswerInv
    BY <1>1, AnswerInit, InvHolds, PTL DEF Spec
  <1>3. IInv /\ AnswerInv /\ [Next]_vars => [Shared!Next]_(Shared!sharedVars)
    BY SharedStep
  <1> QED
    BY <1>2, <1>3, SharedInit, InvHolds, PTL DEF Spec, ImplementsSharedQuery, Shared!Spec
================================================================================
