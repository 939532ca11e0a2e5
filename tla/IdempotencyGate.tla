---------------------------- MODULE IdempotencyGate ----------------------------
(***************************************************************************)
(* IdempotencyMiddleware (api/middleware.py) for one Idempotency-Key: the  *)
(* idempotency_keys row and the protected POST requests that carry the     *)
(* key, on any number of API processes.                                    *)
(*                                                                         *)
(* The row is looked up, claimed (inserted, or taken over once expired)    *)
(* and committed before the request is passed on, and marked COMPLETED in  *)
(* a second transaction after it.  The clock is Expire: the TTL of the row *)
(* may run out at any moment, also while the claiming request runs.        *)
(***************************************************************************)
EXTENDS Naturals, StatusTimeline

CONSTANTS
  Requests,  \* requests that carry the key, each sent once
  HashOf,    \* the request_hash of each: method, path and body
  NoRow,     \* the key has no row
  Nothing    \* the JSON value {}

VARIABLES
  row,      \* the idempotency_keys row, or NoRow
  request,  \* how far each request has come, and the row it has read
  answer,   \* what its client got: the code, and whose response body
  ran,      \* requests whose handler took effect (ghost)
  expired,  \* the row has expired at least once (ghost)
  clean     \* no claim outlived its TTL or overwrote another (ghost)

vars == <<row, request, answer, ran, expired, clean>>

Rows == [status : {"IN_PROGRESS", "COMPLETED"}, hash : {HashOf[r] : r \in Requests},
         live : BOOLEAN, response : Requests \union {Nothing}]

ASSUME NoRowAssumption == NoRow \notin Rows

Phases == {"new", "create", "takeover", "running", "returned", "completing", "answered"}

\* 500 stands for every code from 500 up, 400 for every refusal below it: also
\* those of the rate limiter and of the auth check, which are inside this one.
Codes == {"none", "200", "409", "400", "500"}
NoAnswer == [code |-> "none", body |-> Nothing]

TypeOK ==
  /\ row \in Rows \union {NoRow}
  /\ request \in [Requests -> [phase : Phases, saw : Rows \union {NoRow}, code : Codes]]
  /\ answer \in [Requests -> [code : Codes, body : Requests \union {Nothing}]]
  /\ ran \in SUBSET Requests
  /\ expired \in BOOLEAN
  /\ clean \in BOOLEAN

Init ==
  /\ row = NoRow
  /\ request = [r \in Requests |-> [phase |-> "new", saw |-> NoRow, code |-> "none"]]
  /\ answer = [r \in Requests |-> NoAnswer]
  /\ ran = {}
  /\ expired = FALSE
  /\ clean = TRUE

--------------------------------------------------------------------------------

GoOn(r, phase) == request' = [request EXCEPT ![r].phase = phase, ![r].saw = NoRow]

Answer(r, code, body) ==
  /\ answer' = [answer EXCEPT ![r] = [code |-> code, body |-> body]]
  /\ GoOn(r, "answered")

See(r, phase) == request' = [request EXCEPT ![r].phase = phase, ![r].saw = row]

\* The first SELECT finds no row, or one whose expires_at has passed.
LookUpFree(r) ==
  /\ request[r].phase = "new"
  /\ \/ row = NoRow /\ See(r, "create")
     \/ row # NoRow /\ ~row.live /\ See(r, "takeover")
  /\ UNCHANGED <<row, answer, ran, expired, clean>>

\* Mutant: the payload is not compared.
LookUpReplayAny(r) ==
  /\ request[r].phase = "new"
  /\ row # NoRow /\ row.live
  /\ row.status = "COMPLETED"
  /\ Answer(r, "200", row.response)
  /\ UNCHANGED <<row, ran, expired, clean>>

\* A valid row of the same payload, COMPLETED: its response_json, with 200.
LookUpReplay(r) ==
  /\ request[r].phase = "new"
  /\ row # NoRow /\ row.live
  /\ row.hash = HashOf[r] /\ row.status = "COMPLETED"
  /\ Answer(r, "200", row.response)
  /\ UNCHANGED <<row, ran, expired, clean>>

\* A valid row of another payload, or IN_PROGRESS: 409.
LookUpConflict(r) ==
  /\ request[r].phase = "new"
  /\ row # NoRow /\ row.live
  /\ row.hash # HashOf[r] \/ row.status = "IN_PROGRESS"
  /\ Answer(r, "409", Nothing)
  /\ UNCHANGED <<row, ran, expired, clean>>

\* Mutant: a status the lookup does not know.
ClaimedPending(r) == [status |-> "PENDING", hash |-> HashOf[r], live |-> TRUE,
                      response |-> Nothing]

Claimed(r) == [status |-> "IN_PROGRESS", hash |-> HashOf[r], live |-> TRUE,
               response |-> Nothing]

\* Mutant: an upsert.
CreateUpsert(r) ==
  /\ request[r].phase = "create"
  /\ row' = Claimed(r)
  /\ GoOn(r, "running")
  /\ UNCHANGED <<answer, ran, expired, clean>>

\* The INSERT; a row that appeared since the SELECT makes it violate the primary
\* key, and the request ends in 500.
Create(r) ==
  /\ request[r].phase = "create"
  /\ IF row = NoRow
     THEN /\ row' = Claimed(r)
          /\ GoOn(r, "running")
          /\ UNCHANGED answer
     ELSE Answer(r, "500", Nothing) /\ UNCHANGED row
  /\ UNCHANGED <<ran, expired, clean>>

\* The UPDATE of an expired row, of the columns that differ from what was read.
TakeOver(r) ==
  LET saw == request[r].saw
      new == Claimed(r)
  IN  /\ request[r].phase = "takeover"
      /\ row' = [status |-> ColumnAfter(row.status, saw.status, new.status),
                 hash |-> ColumnAfter(row.hash, saw.hash, new.hash),
                 response |-> ColumnAfter(row.response, saw.response, new.response),
                 live |-> TRUE]
      /\ GoOn(r, "running")
      /\ clean' = (clean /\ row = saw)
      /\ UNCHANGED <<answer, ran, expired>>

\* call_next: the handler succeeds; or it, the rate limiter or the auth check
\* refuses before any effect.
Handle(r) ==
  /\ request[r].phase = "running"
  /\ ran' = ran \union {r}
  /\ request' = [request EXCEPT ![r].phase = "returned", ![r].code = "200"]
  /\ UNCHANGED <<row, answer, expired, clean>>

Refuse(r) ==
  /\ request[r].phase = "running"
  /\ request' = [request EXCEPT ![r].phase = "returned", ![r].code = "400"]
  /\ UNCHANGED <<row, answer, ran, expired, clean>>

\* 500 and above, or an exception, before or after the effect: the row is left
\* IN_PROGRESS.
Fail(r) ==
  /\ request[r].phase = "running"
  /\ Answer(r, "500", r)
  /\ ran' \in {ran, ran \union {r}}
  /\ UNCHANGED <<row, expired, clean>>

\* The second session: the row is read again, then marked COMPLETED.
ReadAgain(r) ==
  /\ request[r].phase = "returned"
  /\ See(r, "completing")
  /\ UNCHANGED <<row, answer, ran, expired, clean>>

\* What is kept of the response: call_next returns a streaming wrapper, never a
\* JSONResponse, so the isinstance test leaves {}.
Payload(r) == Nothing

Complete(r) ==
  LET saw == request[r].saw
  IN  /\ request[r].phase = "completing"
      /\ row' = [row EXCEPT !.status = ColumnAfter(@, saw.status, "COMPLETED"),
                            !.response = ColumnAfter(@, saw.response, Payload(r))]
      /\ Answer(r, request[r].code, r)
      /\ UNCHANGED <<ran, expired, clean>>

\* The process dies; its client gets no answer.
Die(r) ==
  /\ request[r].phase \notin {"new", "answered"}
  /\ GoOn(r, "answered")
  /\ UNCHANGED <<row, answer, ran, expired, clean>>

InHand(r) == request[r].phase \in {"running", "returned", "completing"}

\* expires_at passes.
Expire ==
  /\ row # NoRow /\ row.live
  /\ row' = [row EXCEPT !.live = FALSE]
  /\ expired' = TRUE
  /\ clean' = (clean /\ \A r \in Requests : ~InHand(r))
  /\ UNCHANGED <<request, answer, ran>>

Next ==
  \/ Expire
  \/ \E r \in Requests :
       \/ LookUpFree(r) \/ LookUpReplay(r) \/ LookUpConflict(r)
       \/ Create(r) \/ TakeOver(r)
       \/ Handle(r) \/ Refuse(r) \/ Fail(r)
       \/ ReadAgain(r) \/ Complete(r) \/ Die(r)

Spec == Init /\ [][Next]_vars

(* Properties *)

\* Until the key expires, one request at most takes effect, however many arrive
\* at once, fail or are repeated: the primary key settles a tie.
OneEffectPerKey ==
  ~expired => \A r, q \in ran : r = q

\* A replay repeats a request of the same payload that ran to its end, as long
\* as no claim outlived its TTL or overwrote another.  Two requests that both
\* read the expired row, or a handler slower than the TTL, do break it: the
\* completion of one marks the claim of the other COMPLETED.
ReplayIsEarned ==
  clean => \A r \in Requests :
    request[r].code = "none" /\ answer[r].code = "200" =>
      \E q \in Requests \ {r} :
        /\ HashOf[q] = HashOf[r]
        /\ request[q].code \in {"200", "400"}

\* test_idempotency_replay_returns_stored_response (tests/test_api_middleware.py):
\* the answer of a replay is the answer its request got the first time.
ReplayReturnsStoredResponse ==
  \A r \in Requests :
    request[r].code = "none" /\ answer[r].code = "200" =>
      \E q \in Requests \ {r} :
        answer[r] = [code |-> request[q].code, body |-> q]

================================================================================
