------------------------- MODULE IdempotencyGateProofs -------------------------
(***************************************************************************)
(* Safety of IdempotencyGate for any number of requests: one effect per    *)
(* key, and no replay of what did not run.                                 *)
(***************************************************************************)
EXTENDS IdempotencyGate, TLAPS

\* A request that was passed on, whatever became of it.
Holder(r) == InHand(r) \/ r \in ran

\* A request that read or claimed a row finds one: rows are never deleted.
RowStays ==
  \A r \in Requests :
    /\ InHand(r) \/ request[r].phase = "takeover" => row # NoRow
    /\ request[r].phase \in {"takeover", "completing"} => request[r].saw \in Rows

\* Before the first expiry the row is live from its creation on, nobody takes it
\* over, and who inserted it is the only one passed on.
OneHolder ==
  ~expired =>
    /\ row # NoRow => row.live
    /\ row = NoRow => \A r \in Requests : ~Holder(r)
    /\ \A r \in Requests : request[r].phase # "takeover"
    /\ \A r, q \in Requests : Holder(r) /\ Holder(q) => r = q

IInv == TypeOK /\ RowStays /\ OneHolder

Calls == [phase : Phases, saw : Rows \union {NoRow}, code : Codes]

LEMMA InitIInv == Init => IInv
<1> SUFFICES ASSUME Init PROVE IInv
  OBVIOUS
<1> DEFINE fresh == [phase |-> "new", saw |-> NoRow, code |-> "none"]
<1>1. fresh \in Calls /\ fresh.phase = "new"
  BY DEF Calls, Phases, Codes
<1>2. request = [r \in Requests |-> fresh]
  BY DEF Init
<1>3. \A r \in Requests : request[r].phase = "new"
  BY <1>1, <1>2
<1>4. request \in [Requests -> Calls]
  BY <1>1, <1>2
<1>5. NoAnswer \in [code : Codes, body : Requests \union {Nothing}]
  BY DEF NoAnswer, Codes
<1>6. answer \in [Requests -> [code : Codes, body : Requests \union {Nothing}]]
  BY <1>5 DEF Init
<1>7. TypeOK
  BY <1>4, <1>6 DEF Init, TypeOK, Calls
<1>8. RowStays
  BY <1>3 DEF RowStays, InHand
<1>9. OneHolder
  BY <1>3 DEF Init, OneHolder, Holder, InHand
<1> QED
  BY <1>7, <1>8, <1>9 DEF IInv

\* A request moves to another phase and forgets what it read, or reads the row.
LEMMA RequestEffect ==
  ASSUME TypeOK, NEW r \in Requests, NEW p \in Phases, GoOn(r, p) \/ See(r, p)
  PROVE  /\ request' \in [Requests -> Calls]
         /\ request'[r].phase = p /\ request'[r].code = request[r].code
         /\ See(r, p) => request'[r].saw = row
         /\ \A q \in Requests \ {r} : request'[q] = request[q]
<1>1. request \in [Requests -> Calls] /\ row \in Rows \union {NoRow}
  BY DEF TypeOK, Calls
<1>2. ASSUME NEW s \in Rows \union {NoRow},
             request' = [request EXCEPT ![r].phase = p, ![r].saw = s]
      PROVE  /\ request' \in [Requests -> Calls]
             /\ request'[r].phase = p /\ request'[r].code = request[r].code
             /\ request'[r].saw = s
             /\ \A q \in Requests \ {r} : request'[q] = request[q]
  <2> DEFINE me == [request[r] EXCEPT !.phase = p, !.saw = s]
  <2>1. me \in Calls
    BY <1>1 DEF Calls
  <2>2. request' = [request EXCEPT ![r] = me]
    BY <1>1, <1>2 DEF Calls
  <2>3. me.phase = p /\ me.saw = s /\ me.code = request[r].code
    BY <1>1 DEF Calls
  <2> HIDE DEF me
  <2> QED
    BY <1>1, <2>1, <2>2, <2>3
<1>3. CASE See(r, p)
  BY <1>1, <1>2, <1>3 DEF See
<1>4. CASE ~See(r, p)
  BY <1>1, <1>2, <1>4 DEF GoOn
<1> QED
  BY <1>3, <1>4

\* The call returns: its code is kept.
LEMMA ReturnEffect ==
  ASSUME TypeOK, NEW r \in Requests, NEW c \in Codes,
         request' = [request EXCEPT ![r].phase = "returned", ![r].code = c]
  PROVE  /\ request' \in [Requests -> Calls]
         /\ request'[r].phase = "returned" /\ request'[r].code = c
         /\ \A q \in Requests \ {r} : request'[q] = request[q]
<1> DEFINE me == [request[r] EXCEPT !.phase = "returned", !.code = c]
<1>1. request \in [Requests -> Calls]
  BY DEF TypeOK, Calls
<1>2. me \in Calls
  BY <1>1 DEF Calls, Phases
<1>3. request' = [request EXCEPT ![r] = me]
  BY <1>1 DEF Calls
<1>4. me.phase = "returned" /\ me.code = c
  BY <1>1 DEF Calls
<1> HIDE DEF me
<1> QED
  BY <1>1, <1>2, <1>3, <1>4

\* The steps of a request that leave the row and the claims alone.
LEMMA QuietStep ==
  ASSUME IInv, NEW r \in Requests, request' \in [Requests -> Calls],
         \A q \in Requests \ {r} : request'[q] = request[q],
         InHand(r)' => InHand(r),
         request'[r].phase \notin {"takeover", "completing"},
         \/ ran' = ran
         \/ InHand(r) /\ ran' = ran \union {r},
         answer' \in [Requests -> [code : Codes, body : Requests \union {Nothing}]],
         UNCHANGED <<row, expired, clean>>
  PROVE  IInv'
<1>1. TypeOK'
  BY DEF IInv, TypeOK, Calls
<1>2. RowStays'
  BY DEF IInv, RowStays, InHand
<1>3. \A q \in Requests : Holder(q)' => Holder(q)
  BY DEF Holder, InHand
<1>4. OneHolder'
  BY <1>3 DEF IInv, OneHolder
<1> QED
  BY <1>1, <1>2, <1>4 DEF IInv

LEMMA AnswerEffect ==
  ASSUME TypeOK, NEW r \in Requests, NEW c \in Codes,
         NEW b \in Requests \union {Nothing}, Answer(r, c, b)
  PROVE  /\ answer' \in [Requests -> [code : Codes, body : Requests \union {Nothing}]]
         /\ answer'[r].code = c
         /\ \A q \in Requests \ {r} : answer'[q] = answer[q]
         /\ GoOn(r, "answered")
<1> DEFINE a == [code |-> c, body |-> b]
<1>1. answer' = [answer EXCEPT ![r] = a] /\ GoOn(r, "answered")
  BY DEF Answer
<1>2. a \in [code : Codes, body : Requests \union {Nothing}]
  OBVIOUS
<1> QED
  BY <1>1, <1>2 DEF TypeOK

LEMMA NextIInv == IInv /\ [Next]_vars => IInv'
<1> SUFFICES ASSUME IInv, [Next]_vars PROVE IInv'
  OBVIOUS
<1> USE DEF Phases, Codes
<1>0. /\ TypeOK /\ RowStays /\ OneHolder
      /\ row \in Rows \union {NoRow}
      /\ answer \in [Requests -> [code : Codes, body : Requests \union {Nothing}]]
      /\ request \in [Requests -> Calls]
  BY DEF IInv, TypeOK, Calls
<1>1. CASE Expire
  BY <1>0, <1>1, NoRowAssumption
  DEF Expire, IInv, TypeOK, RowStays, OneHolder, InHand, Rows
<1>2. ASSUME NEW r \in Requests, LookUpFree(r)
      PROVE  IInv'
  <2>1. PICK p \in {"create", "takeover"} :
          /\ See(r, p)
          /\ p = "takeover" => row \in Rows /\ ~row.live
    BY <1>0, <1>2 DEF LookUpFree
  <2>2. /\ request' \in [Requests -> Calls]
        /\ request'[r].phase = p /\ request'[r].saw = row
        /\ \A q \in Requests \ {r} : request'[q] = request[q]
    BY <1>0, <2>1, RequestEffect
  <2>3. UNCHANGED <<row, answer, ran, expired, clean>>
    BY <1>2 DEF LookUpFree
  <2>4. TypeOK'
    BY <1>0, <2>2, <2>3 DEF TypeOK, Calls
  <2>5. RowStays'
    BY <1>0, <2>1, <2>2, <2>3, NoRowAssumption DEF RowStays, InHand
  <2>6. \A q \in Requests : Holder(q)' => Holder(q)
    BY <2>2, <2>3 DEF Holder, InHand
  <2>7. OneHolder'
    BY <1>0, <2>1, <2>2, <2>3, <2>6, NoRowAssumption DEF OneHolder
  <2> QED
    BY <2>4, <2>5, <2>7 DEF IInv
<1>3. ASSUME NEW r \in Requests, LookUpReplay(r)
      PROVE  IInv'
  <2>1. Answer(r, "200", row.response) /\ row \in Rows
    BY <1>0, <1>3 DEF LookUpReplay
  <2>2. row.response \in Requests \union {Nothing}
    BY <2>1 DEF Rows
  <2>3. /\ answer' \in [Requests -> [code : Codes, body : Requests \union {Nothing}]]
        /\ GoOn(r, "answered")
    BY <1>0, <2>1, <2>2, AnswerEffect
  <2>4. /\ request' \in [Requests -> Calls] /\ request'[r].phase = "answered"
        /\ \A q \in Requests \ {r} : request'[q] = request[q]
    BY <1>0, <2>3, RequestEffect
  <2> QED
    BY <1>3, <2>3, <2>4, QuietStep DEF LookUpReplay, InHand
<1>4. ASSUME NEW r \in Requests, LookUpConflict(r)
      PROVE  IInv'
  <2>1. /\ answer' \in [Requests -> [code : Codes, body : Requests \union {Nothing}]]
        /\ GoOn(r, "answered")
    BY <1>0, <1>4, AnswerEffect DEF LookUpConflict
  <2>2. /\ request' \in [Requests -> Calls] /\ request'[r].phase = "answered"
        /\ \A q \in Requests \ {r} : request'[q] = request[q]
    BY <1>0, <2>1, RequestEffect
  <2> QED
    BY <1>4, <2>1, <2>2, QuietStep DEF LookUpConflict, InHand
<1>5. ASSUME NEW r \in Requests, Create(r)
      PROVE  IInv'
  <2>1. CASE row # NoRow
    <3>1. /\ answer' \in [Requests -> [code : Codes, body : Requests \union {Nothing}]]
          /\ GoOn(r, "answered")
      BY <1>0, <1>5, <2>1, AnswerEffect DEF Create
    <3>2. /\ request' \in [Requests -> Calls] /\ request'[r].phase = "answered"
          /\ \A q \in Requests \ {r} : request'[q] = request[q]
      BY <1>0, <3>1, RequestEffect
    <3> QED
      BY <1>5, <2>1, <3>1, <3>2, QuietStep DEF Create, InHand
  <2>2. CASE row = NoRow
    <3>1. /\ row' = Claimed(r) /\ GoOn(r, "running")
          /\ UNCHANGED <<answer, ran, expired, clean>>
      BY <1>5, <2>2 DEF Create
    <3>2. /\ request' \in [Requests -> Calls] /\ request'[r].phase = "running"
          /\ \A q \in Requests \ {r} : request'[q] = request[q]
      BY <1>0, <3>1, RequestEffect
    <3>3. row' \in Rows /\ row'.live
      BY <3>1 DEF Claimed, Rows
    <3>4. TypeOK'
      BY <1>0, <3>1, <3>2, <3>3 DEF TypeOK, Calls
    <3>5. RowStays'
      BY <1>0, <3>2, <3>3, NoRowAssumption DEF RowStays, InHand
    <3>6. ~expired => \A q \in Requests : Holder(q)' => q = r
      <4>1. ~expired => \A q \in Requests : ~Holder(q)
        BY <1>0, <2>2 DEF OneHolder
      <4>2. \A q \in Requests \ {r} : Holder(q)' => Holder(q)
        BY <3>1, <3>2 DEF Holder, InHand
      <4> QED
        BY <4>1, <4>2
    <3>7. OneHolder'
      BY <1>0, <3>1, <3>2, <3>3, <3>6, NoRowAssumption DEF OneHolder
    <3> QED
      BY <3>4, <3>5, <3>7 DEF IInv
  <2> QED
    BY <2>1, <2>2
<1>6. ASSUME NEW r \in Requests, TakeOver(r)
      PROVE  IInv'
  <2>1. /\ request[r].phase = "takeover" /\ GoOn(r, "running")
        /\ UNCHANGED <<answer, ran, expired>> /\ clean' \in BOOLEAN
    BY <1>0, <1>6 DEF TakeOver, TypeOK
  <2>2. row \in Rows /\ request[r].saw \in Rows
    BY <1>0, <2>1 DEF RowStays
  <2>3. row' \in Rows
    BY <1>6, <2>2 DEF TakeOver, ColumnAfter, Claimed, Rows
  <2>4. /\ request' \in [Requests -> Calls] /\ request'[r].phase = "running"
        /\ \A q \in Requests \ {r} : request'[q] = request[q]
    BY <1>0, <2>1, RequestEffect
  <2>5. TypeOK'
    BY <1>0, <2>1, <2>3, <2>4 DEF TypeOK, Calls
  <2>6. RowStays'
    BY <1>0, <2>3, <2>4, NoRowAssumption DEF RowStays, InHand
  <2>7. OneHolder'
    BY <1>0, <2>1 DEF OneHolder
  <2> QED
    BY <2>5, <2>6, <2>7 DEF IInv
<1>7. ASSUME NEW r \in Requests, Handle(r) \/ Refuse(r)
      PROVE  IInv'
  <2>1. PICK c \in Codes :
          request' = [request EXCEPT ![r].phase = "returned", ![r].code = c]
    BY <1>7 DEF Handle, Refuse
  <2>2. /\ request' \in [Requests -> Calls] /\ request'[r].phase = "returned"
        /\ \A q \in Requests \ {r} : request'[q] = request[q]
    BY <1>0, <2>1, ReturnEffect
  <2>3. InHand(r)
    BY <1>7 DEF Handle, Refuse, InHand
  <2> QED
    BY <1>0, <1>7, <2>2, <2>3, QuietStep DEF Handle, Refuse
<1>8. ASSUME NEW r \in Requests, Fail(r)
      PROVE  IInv'
  <2>1. /\ answer' \in [Requests -> [code : Codes, body : Requests \union {Nothing}]]
        /\ GoOn(r, "answered")
    BY <1>0, <1>8, AnswerEffect DEF Fail
  <2>2. /\ request' \in [Requests -> Calls] /\ request'[r].phase = "answered"
        /\ \A q \in Requests \ {r} : request'[q] = request[q]
    BY <1>0, <2>1, RequestEffect
  <2> QED
    BY <1>8, <2>1, <2>2, QuietStep DEF Fail, InHand
<1>9. ASSUME NEW r \in Requests, ReadAgain(r)
      PROVE  IInv'
  <2>1. /\ request[r].phase = "returned" /\ See(r, "completing")
        /\ UNCHANGED <<row, answer, ran, expired, clean>>
    BY <1>9 DEF ReadAgain
  <2>2. /\ request' \in [Requests -> Calls]
        /\ request'[r].phase = "completing" /\ request'[r].saw = row
        /\ \A q \in Requests \ {r} : request'[q] = request[q]
    BY <1>0, <2>1, RequestEffect
  <2>3. TypeOK'
    BY <1>0, <2>1, <2>2 DEF TypeOK, Calls
  <2>4. InHand(r) /\ row \in Rows
    BY <1>0, <2>1 DEF InHand, RowStays
  <2>5. RowStays'
    BY <1>0, <2>1, <2>2, <2>4, NoRowAssumption DEF RowStays, InHand
  <2>6. \A q \in Requests : Holder(q)' => Holder(q)
    BY <2>1, <2>2, <2>4 DEF Holder, InHand
  <2>7. OneHolder'
    BY <1>0, <2>1, <2>2, <2>6 DEF OneHolder
  <2> QED
    BY <2>3, <2>5, <2>7 DEF IInv
<1>10. ASSUME NEW r \in Requests, Complete(r)
       PROVE  IInv'
  <2>1. /\ request[r].phase = "completing" /\ Answer(r, request[r].code, r)
        /\ UNCHANGED <<ran, expired, clean>>
    BY <1>10 DEF Complete
  <2>2. /\ answer' \in [Requests -> [code : Codes, body : Requests \union {Nothing}]]
        /\ GoOn(r, "answered")
    BY <1>0, <2>1, AnswerEffect DEF Calls
  <2>3. /\ request' \in [Requests -> Calls] /\ request'[r].phase = "answered"
        /\ \A q \in Requests \ {r} : request'[q] = request[q]
    BY <1>0, <2>2, RequestEffect
  <2>4. row \in Rows /\ request[r].saw \in Rows
    BY <1>0, <2>1 DEF RowStays, InHand
  <2>5. row' \in Rows /\ row'.live = row.live
    BY <1>10, <2>4 DEF Complete, ColumnAfter, Payload, Rows
  <2>6. TypeOK'
    BY <1>0, <2>1, <2>2, <2>3, <2>5 DEF TypeOK, Calls
  <2>7. RowStays'
    BY <1>0, <2>3, <2>5, NoRowAssumption DEF RowStays, InHand
  <2>8. \A q \in Requests : Holder(q)' => Holder(q)
    BY <2>1, <2>3 DEF Holder, InHand
  <2>9. OneHolder'
    BY <1>0, <2>1, <2>3, <2>4, <2>5, <2>8, NoRowAssumption DEF OneHolder
  <2> QED
    BY <2>6, <2>7, <2>9 DEF IInv
<1>11. ASSUME NEW r \in Requests, Die(r)
       PROVE  IInv'
  <2>1. /\ request' \in [Requests -> Calls] /\ request'[r].phase = "answered"
        /\ \A q \in Requests \ {r} : request'[q] = request[q]
    BY <1>0, <1>11, RequestEffect DEF Die
  <2> QED
    BY <1>0, <1>11, <2>1, QuietStep DEF Die, InHand
<1>12. CASE UNCHANGED vars
  BY <1>0, <1>12 DEF vars, IInv, TypeOK, RowStays, OneHolder, Holder, InHand
<1> QED
  BY <1>1, <1>2, <1>3, <1>4, <1>5, <1>6, <1>7, <1>8, <1>9, <1>10, <1>11, <1>12 DEF Next

\* The inductive invariant holds in every state.
THEOREM Invariance == Spec => []IInv
<1> QED
  BY InitIInv, NextIInv, PTL DEF Spec

\* Every variable keeps its type; in particular a request in hand always finds a row.
THEOREM TypeCorrect == Spec => []TypeOK
<1>1. IInv => TypeOK
  BY DEF IInv
<1> QED
  BY <1>1, Invariance, PTL

\* Until the key expires one request at most takes effect, for any number of
\* concurrent, failing and repeated requests: the primary key is the lock.
THEOREM OneEffect == Spec => []OneEffectPerKey
<1>1. IInv => OneEffectPerKey
  BY DEF IInv, TypeOK, OneHolder, Holder, OneEffectPerKey
<1> QED
  BY <1>1, Invariance, PTL

--------------------------------------------------------------------------------
(* What is replayed *)

\* A request has a code exactly from the end of its handler on.
CodeFits(r) ==
  /\ request[r].code \in {"none", "200", "400"}
  /\ request[r].phase \in {"new", "create", "takeover", "running"} =>
       request[r].code = "none"
  /\ request[r].phase \in {"returned", "completing"} => request[r].code # "none"

Finished(q, hash) == HashOf[q] = hash /\ request[q].code \in {"200", "400"}

\* As long as no claim outlived its TTL or overwrote another: a request in hand is
\* the only one, the row is its claim and is live, nobody writes the row between
\* its second read and its completion, and COMPLETED is said of a request that
\* finished.
ClaimsHold ==
  clean =>
    /\ \A r, q \in Requests : InHand(r) /\ InHand(q) => r = q
    /\ \A r \in Requests : InHand(r) =>
         row.live /\ row.hash = HashOf[r] /\ row.status = "IN_PROGRESS"
    /\ \A r \in Requests : request[r].phase = "completing" => request[r].saw = row
    /\ row # NoRow /\ row.status = "COMPLETED" =>
         \E q \in Requests : Finished(q, row.hash)

EInv ==
  /\ IInv
  /\ \A r \in Requests : CodeFits(r)
  /\ \A r \in Requests : request[r].phase = "takeover" => ~request[r].saw.live
  /\ ClaimsHold
  /\ ReplayIsEarned

LEMMA InitEInv == Init => EInv
<1> SUFFICES ASSUME Init PROVE EInv
  OBVIOUS
<1>1. IInv
  BY InitIInv
<1>2. \A r \in Requests : request[r].phase = "new" /\ request[r].code = "none"
                          /\ answer[r].code = "none"
  BY DEF Init, NoAnswer
<1>3. \A r \in Requests : CodeFits(r)
  BY <1>2 DEF CodeFits
<1>4. ClaimsHold
  BY <1>2 DEF Init, ClaimsHold, InHand
<1>5. ReplayIsEarned
  BY <1>2 DEF ReplayIsEarned
<1> QED
  BY <1>1, <1>2, <1>3, <1>4, <1>5 DEF EInv

\* A step of one request that leaves the row and the claims alone.
LEMMA BystanderStep ==
  ASSUME EInv, NEW r \in Requests, request' \in [Requests -> Calls], IInv',
         \A q \in Requests \ {r} : request'[q] = request[q] /\ answer'[q] = answer[q],
         InHand(r)' => InHand(r),
         request'[r].phase = "completing" => request'[r].saw = row,
         request'[r].phase = "takeover" => ~request'[r].saw.live,
         CodeFits(r)',
         request[r].code # "none" => request'[r].code = request[r].code,
         answer'[r].code = "200" /\ request'[r].code = "none" =>
           \/ answer[r].code = "200"
           \/ row # NoRow /\ row.status = "COMPLETED" /\ row.hash = HashOf[r],
         UNCHANGED <<row, clean>>
  PROVE  EInv'
<1>0. /\ \A q \in Requests : CodeFits(q)
      /\ \A q \in Requests : request[q].phase = "takeover" => ~request[q].saw.live
      /\ ClaimsHold /\ ReplayIsEarned
  BY DEF EInv
<1>1. \A q \in Requests : CodeFits(q)'
  BY <1>0 DEF CodeFits
<1>2. \A q \in Requests : request'[q].phase = "takeover" => ~request'[q].saw.live
  BY <1>0
<1>3. \A q \in Requests, h \in {HashOf[s] : s \in Requests} :
        Finished(q, h) => Finished(q, h)'
  BY <1>0 DEF Finished, CodeFits
<1>4. ClaimsHold'
  <2> SUFFICES ASSUME clean PROVE ClaimsHold'
    BY DEF ClaimsHold
  <2>1. \A q \in Requests : InHand(q)' => InHand(q)
    BY DEF InHand
  <2>2. \A q \in Requests : request'[q].phase = "completing" => request'[q].saw = row
    BY <1>0 DEF ClaimsHold
  <2>3. row # NoRow /\ row.status = "COMPLETED" =>
          \E q \in Requests : Finished(q, row.hash)'
    <3>1. row # NoRow => row.hash \in {HashOf[s] : s \in Requests}
      BY DEF EInv, IInv, TypeOK, Rows
    <3> QED
      BY <1>0, <1>3, <3>1 DEF ClaimsHold
  <2> QED
    BY <1>0, <2>1, <2>2, <2>3 DEF ClaimsHold, Finished
<1>5. ReplayIsEarned'
  <2> SUFFICES ASSUME clean, NEW q \in Requests,
                      request'[q].code = "none", answer'[q].code = "200"
               PROVE  \E s \in Requests \ {q} :
                        HashOf[s] = HashOf[q] /\ request'[s].code \in {"200", "400"}
    BY DEF ReplayIsEarned
  <2>1. \A s \in Requests : request[s].code \in {"200", "400"} =>
                              s # q /\ request'[s].code = request[s].code
    BY <1>0 DEF CodeFits
  <2>2. request[q].code = "none"
    BY <1>0 DEF CodeFits
  <2>3. CASE answer[q].code = "200"
    BY <1>0, <2>1, <2>2, <2>3 DEF ReplayIsEarned
  <2>4. CASE row # NoRow /\ row.status = "COMPLETED" /\ row.hash = HashOf[q]
    BY <1>0, <2>1, <2>4 DEF ClaimsHold, Finished
  <2> QED
    BY <2>3, <2>4
<1> QED
  BY <1>1, <1>2, <1>4, <1>5 DEF EInv

\* A request claims the row while nobody is in hand: the row is then all its own.
LEMMA ClaimStep ==
  ASSUME EInv, NEW r \in Requests, request' \in [Requests -> Calls], IInv',
         \A q \in Requests \ {r} : request'[q] = request[q],
         request[r].code = "none",
         request'[r].phase = "running" /\ request'[r].code = "none",
         clean' => /\ clean /\ row' = Claimed(r)
                   /\ \A q \in Requests : ~InHand(q),
         answer' = answer
  PROVE  EInv'
<1>0. /\ \A q \in Requests : CodeFits(q)
      /\ \A q \in Requests : request[q].phase = "takeover" => ~request[q].saw.live
      /\ ClaimsHold /\ ReplayIsEarned
  BY DEF EInv
<1>1. \A q \in Requests : CodeFits(q)'
  BY <1>0 DEF CodeFits
<1>2. \A q \in Requests : request'[q].phase = "takeover" => ~request'[q].saw.live
  BY <1>0
<1>3. ClaimsHold'
  <2> SUFFICES ASSUME clean' PROVE ClaimsHold'
    BY DEF ClaimsHold
  <2>1. \A q \in Requests : InHand(q)' => q = r
    BY DEF InHand
  <2>2. row'.live /\ row'.hash = HashOf[r] /\ row'.status = "IN_PROGRESS"
    BY DEF Claimed
  <2>3. \A q \in Requests : request'[q].phase # "completing"
    BY DEF InHand
  <2> QED
    BY <2>1, <2>2, <2>3 DEF ClaimsHold
<1>4. ReplayIsEarned'
  BY <1>0 DEF ReplayIsEarned
<1> QED
  BY <1>1, <1>2, <1>3, <1>4 DEF EInv

LEMMA CreateEarned ==
  ASSUME EInv, NEW r \in Requests, Create(r), row = NoRow, IInv'
  PROVE  EInv'
<1>0. IInv /\ TypeOK /\ RowStays /\ CodeFits(r)
  BY DEF EInv, IInv
<1>1. /\ row' = Claimed(r) /\ GoOn(r, "running") /\ request[r].phase = "create"
      /\ UNCHANGED <<answer, clean>>
  BY DEF Create
<1>2. /\ request' \in [Requests -> Calls]
      /\ request'[r].phase = "running" /\ request'[r].code = request[r].code
      /\ \A q \in Requests \ {r} : request'[q] = request[q]
  BY <1>0, <1>1, RequestEffect DEF Phases
<1>3. \A q \in Requests : ~InHand(q)
  BY <1>0 DEF RowStays
<1> QED
  BY <1>0, <1>1, <1>2, <1>3, ClaimStep DEF CodeFits

LEMMA TakeOverEarned ==
  ASSUME EInv, NEW r \in Requests, TakeOver(r), IInv'
  PROVE  EInv'
<1> DEFINE saw == request[r].saw
<1>0. /\ IInv /\ TypeOK /\ RowStays /\ CodeFits(r) /\ ClaimsHold
      /\ request[r].phase = "takeover" => ~saw.live
  BY DEF EInv, IInv
<1>1. /\ row' = [status |-> ColumnAfter(row.status, saw.status, "IN_PROGRESS"),
                 hash |-> ColumnAfter(row.hash, saw.hash, HashOf[r]),
                 response |-> ColumnAfter(row.response, saw.response, Nothing),
                 live |-> TRUE]
      /\ GoOn(r, "running") /\ request[r].phase = "takeover" /\ answer' = answer
  BY DEF TakeOver, Claimed
<1>2. clean' => clean /\ row = saw
  BY DEF TakeOver
<1>3. /\ request' \in [Requests -> Calls]
      /\ request'[r].phase = "running" /\ request'[r].code = request[r].code
      /\ \A q \in Requests \ {r} : request'[q] = request[q]
  BY <1>0, <1>1, RequestEffect DEF Phases
<1>4. clean' => \A q \in Requests : ~InHand(q)
  BY <1>0, <1>1, <1>2 DEF ClaimsHold
<1>5. clean' => row' = Claimed(r)
  BY <1>1, <1>2 DEF ColumnAfter, Claimed
<1> QED
  BY <1>0, <1>1, <1>2, <1>3, <1>4, <1>5, ClaimStep DEF CodeFits

LEMMA CompleteEarned ==
  ASSUME EInv, NEW r \in Requests, Complete(r), IInv'
  PROVE  EInv'
<1> DEFINE saw == request[r].saw
<1>0. /\ IInv /\ TypeOK /\ RowStays /\ ClaimsHold /\ ReplayIsEarned
      /\ \A q \in Requests : CodeFits(q)
      /\ \A q \in Requests : request[q].phase = "takeover" => ~request[q].saw.live
      /\ request[r] \in Calls /\ row \in Rows \union {NoRow}
  BY DEF EInv, IInv, TypeOK, Calls
<1>1. /\ request[r].phase = "completing" /\ Answer(r, request[r].code, r)
      /\ clean' = clean
      /\ row' = [row EXCEPT !.status = ColumnAfter(@, saw.status, "COMPLETED"),
                            !.response = ColumnAfter(@, saw.response, Payload(r))]
  BY DEF Complete
<1>2. /\ \A q \in Requests \ {r} : answer'[q] = answer[q]
      /\ GoOn(r, "answered")
  BY <1>0, <1>1, AnswerEffect DEF Calls
<1>3. /\ request' \in [Requests -> Calls]
      /\ request'[r].phase = "answered" /\ request'[r].code = request[r].code
      /\ \A q \in Requests \ {r} : request'[q] = request[q]
  BY <1>0, <1>2, RequestEffect DEF Phases
<1>4. row \in Rows /\ InHand(r)
  BY <1>0, <1>1 DEF RowStays, InHand
<1>5. row'.hash = row.hash /\ row'.live = row.live
  BY <1>1, <1>4 DEF Rows
<1>6. request[r].code \in {"200", "400"} /\ \A q \in Requests : request'[q].code = request[q].code
  BY <1>0, <1>1, <1>3 DEF CodeFits
<1>7. \A q \in Requests : CodeFits(q)'
  BY <1>0, <1>1, <1>3 DEF CodeFits
<1>8. ClaimsHold'
  <2> SUFFICES ASSUME clean PROVE ClaimsHold'
    BY <1>1 DEF ClaimsHold
  <2>1. row.hash = HashOf[r]
    BY <1>0, <1>4 DEF ClaimsHold
  <2>2. \A q \in Requests : ~InHand(q)'
    BY <1>0, <1>3, <1>4 DEF ClaimsHold, InHand
  <2>3. \A q \in Requests : request'[q].phase # "completing"
    BY <2>2 DEF InHand
  <2>4. Finished(r, row.hash)'
    BY <1>3, <1>5, <1>6, <2>1 DEF Finished
  <2> QED
    BY <2>2, <2>3, <2>4 DEF ClaimsHold
<1>9. ReplayIsEarned'
  BY <1>0, <1>1, <1>2, <1>6 DEF ReplayIsEarned
<1>10. \A q \in Requests : request'[q].phase = "takeover" => ~request'[q].saw.live
  BY <1>0, <1>3
<1> QED
  BY <1>7, <1>8, <1>9, <1>10 DEF EInv

LEMMA ExpireEarned ==
  ASSUME EInv, Expire, IInv'
  PROVE  EInv'
<1>1. /\ row # NoRow /\ row' = [row EXCEPT !.live = FALSE]
      /\ UNCHANGED <<request, answer>> /\ row \in Rows
  BY DEF Expire, EInv, IInv, TypeOK
<1>2. clean' => clean /\ \A r \in Requests : ~InHand(r)
  BY DEF Expire
<1>3. row'.status = row.status /\ row'.hash = row.hash
  BY <1>1 DEF Rows
<1>4. ClaimsHold'
  <2> SUFFICES ASSUME clean' PROVE ClaimsHold'
    BY DEF ClaimsHold
  <2>1. ClaimsHold /\ clean
    BY <1>2 DEF EInv
  <2>2. \A r \in Requests : ~InHand(r)' /\ request'[r].phase # "completing"
    BY <1>1, <1>2 DEF InHand
  <2>3. row'.status = "COMPLETED" => \E q \in Requests : Finished(q, row.hash)'
    BY <1>1, <1>3, <2>1 DEF ClaimsHold, Finished
  <2> QED
    BY <2>2, <2>3 DEF ClaimsHold
<1>5. \A r \in Requests : CodeFits(r)'
  BY <1>1 DEF EInv, CodeFits
<1>6. ReplayIsEarned'
  BY <1>1, <1>2 DEF EInv, ReplayIsEarned
<1> QED
  BY <1>1, <1>4, <1>5, <1>6 DEF EInv

LEMMA NextEInv == EInv /\ [Next]_vars => EInv'
<1> SUFFICES ASSUME EInv, [Next]_vars PROVE EInv'
  OBVIOUS
<1>0. /\ IInv /\ TypeOK /\ RowStays /\ request \in [Requests -> Calls]
      /\ row \in Rows \union {NoRow}
      /\ \A r \in Requests : CodeFits(r)
      /\ \A r \in Requests : request[r].phase = "takeover" => ~request[r].saw.live
  BY DEF EInv, IInv, TypeOK, Calls
<1>1. IInv'
  BY <1>0, NextIInv
<1>2. ASSUME NEW r \in Requests, LookUpFree(r) PROVE EInv'
  <2>1. PICK p \in {"create", "takeover"} :
          See(r, p) /\ (p = "takeover" => ~row.live)
    BY <1>2 DEF LookUpFree
  <2>2. /\ request' \in [Requests -> Calls]
        /\ request'[r].phase = p /\ request'[r].code = request[r].code
        /\ request'[r].saw = row
        /\ \A q \in Requests \ {r} : request'[q] = request[q]
    BY <1>0, <2>1, RequestEffect DEF Phases
  <2>3. UNCHANGED <<row, answer, clean>> /\ request[r].phase = "new"
    BY <1>2 DEF LookUpFree
  <2>4. CodeFits(r)'
    BY <1>0, <2>2, <2>3 DEF CodeFits
  <2> QED
    BY <1>1, <2>1, <2>2, <2>3, <2>4, BystanderStep DEF InHand
<1>3. ASSUME NEW r \in Requests, NEW c \in Codes, NEW b \in Requests \union {Nothing},
             Answer(r, c, b),
             c = "200" => row # NoRow /\ row.status = "COMPLETED" /\ row.hash = HashOf[r],
             UNCHANGED <<row, clean>>
      PROVE  EInv'
  <2>1. /\ answer'[r].code = c
        /\ \A q \in Requests \ {r} : answer'[q] = answer[q]
        /\ GoOn(r, "answered")
    BY <1>0, <1>3, AnswerEffect
  <2>2. /\ request' \in [Requests -> Calls]
        /\ request'[r].phase = "answered" /\ request'[r].code = request[r].code
        /\ \A q \in Requests \ {r} : request'[q] = request[q]
    BY <1>0, <2>1, RequestEffect DEF Phases
  <2>3. CodeFits(r)'
    BY <1>0, <2>2 DEF CodeFits
  <2> QED
    BY <1>1, <1>3, <2>1, <2>2, <2>3, BystanderStep DEF InHand
<1>4. ASSUME NEW r \in Requests, LookUpReplay(r) PROVE EInv'
  <2>1. row.response \in Requests \union {Nothing}
    BY <1>0, <1>4 DEF LookUpReplay, Rows
  <2> QED
    BY <1>3, <1>4, <2>1 DEF LookUpReplay, Codes
<1>5. ASSUME NEW r \in Requests, LookUpConflict(r) \/ Fail(r) PROVE EInv'
  BY <1>3, <1>5 DEF LookUpConflict, Fail, Codes
<1>6. ASSUME NEW r \in Requests, Create(r) PROVE EInv'
  <2>1. CASE row = NoRow
    BY <1>1, <1>6, <2>1, CreateEarned
  <2>2. CASE row # NoRow
    BY <1>3, <1>6, <2>2 DEF Create, Codes
  <2> QED
    BY <2>1, <2>2
<1>7. ASSUME NEW r \in Requests, Handle(r) \/ Refuse(r) PROVE EInv'
  <2>1. PICK c \in {"200", "400"} :
          request' = [request EXCEPT ![r].phase = "returned", ![r].code = c]
    BY <1>7 DEF Handle, Refuse
  <2>2. /\ request' \in [Requests -> Calls]
        /\ request'[r].phase = "returned" /\ request'[r].code = c
        /\ \A q \in Requests \ {r} : request'[q] = request[q]
    BY <1>0, <2>1, ReturnEffect DEF Codes
  <2>3. UNCHANGED <<row, answer, clean>> /\ request[r].phase = "running"
    BY <1>7 DEF Handle, Refuse
  <2>4. CodeFits(r)' /\ request[r].code = "none"
    BY <1>0, <2>2, <2>3 DEF CodeFits
  <2> QED
    BY <1>1, <2>2, <2>3, <2>4, BystanderStep DEF InHand
<1>8. ASSUME NEW r \in Requests, ReadAgain(r) PROVE EInv'
  <2>1. /\ See(r, "completing") /\ request[r].phase = "returned"
        /\ UNCHANGED <<row, answer, clean>>
    BY <1>8 DEF ReadAgain
  <2>2. /\ request' \in [Requests -> Calls]
        /\ request'[r].phase = "completing" /\ request'[r].code = request[r].code
        /\ request'[r].saw = row
        /\ \A q \in Requests \ {r} : request'[q] = request[q]
    BY <1>0, <2>1, RequestEffect DEF Phases
  <2>3. CodeFits(r)'
    BY <1>0, <2>1, <2>2 DEF CodeFits
  <2> QED
    BY <1>1, <2>1, <2>2, <2>3, BystanderStep DEF InHand
<1>9. ASSUME NEW r \in Requests, Die(r) PROVE EInv'
  <2>1. GoOn(r, "answered") /\ UNCHANGED <<row, answer, clean>>
    BY <1>9 DEF Die
  <2>2. /\ request' \in [Requests -> Calls]
        /\ request'[r].phase = "answered" /\ request'[r].code = request[r].code
        /\ \A q \in Requests \ {r} : request'[q] = request[q]
    BY <1>0, <2>1, RequestEffect DEF Phases
  <2>3. CodeFits(r)'
    BY <1>0, <2>2 DEF CodeFits
  <2> QED
    BY <1>1, <2>1, <2>2, <2>3, BystanderStep DEF InHand
<1>10. CASE UNCHANGED vars
  BY <1>1, <1>10
  DEF vars, EInv, CodeFits, ClaimsHold, Finished, InHand, ReplayIsEarned
<1> QED
  BY <1>1, <1>2, <1>4, <1>5, <1>6, <1>7, <1>8, <1>9, <1>10,
     TakeOverEarned, CompleteEarned, ExpireEarned
  DEF Next

\* A replay repeats a request of the same payload that ran to its end, as long as
\* no claim outlived its TTL or overwrote another.
THEOREM ReplayEarned == Spec => []ReplayIsEarned
<1>1. EInv => ReplayIsEarned
  BY DEF EInv
<1> QED
  BY <1>1, InitEInv, NextEInv, PTL DEF Spec

================================================================================
