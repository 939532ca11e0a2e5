------------------------------- MODULE RequestGate -------------------------------
(***************************************************************************)
(* What stands between a request and its handler, in each API process: the *)
(* sliding window of RateLimitMiddleware and the check of the bearer token *)
(* against the identity provider's signing keys (auth/rbac.py,             *)
(* plugins/keycloak.py).                                                   *)
(*                                                                         *)
(* Windows and cached keys live in the memory of one process.  A window is *)
(* kept for a tenant and a principal, but the middleware is outside the    *)
(* token check and finds no principal: it counts the requests of a tenant  *)
(* as those of "anonymous", whoever sends them.  The keys are fetched with *)
(* a blocking client: meanwhile the process does nothing else, but time    *)
(* passes and keys are changed.                                            *)
(***************************************************************************)
EXTENDS Integers, FiniteSets, Sequences

CONSTANTS
  Senders,      \* bound: how many requests are sent
  Processes,    \* API processes
  Tenants,
  Callers,      \* who sends them
  Keys,         \* signing keys of the identity provider
  FirstKey,     \* the one it starts with
  Window, MaxRequests,  \* rate_limit.window_seconds and max_requests
  CacheSeconds,         \* identity.jwks_cache_seconds
  Latency,              \* how long a fetch of the keys may take
  MaxTime,              \* bound: the clock stops here
  Never

\* A cache of no duration is refused when the plugin starts.
ASSUME GateAssumption ==
  /\ {Senders, Window, MaxRequests, Latency, MaxTime} \subseteq Nat
  /\ CacheSeconds \in Nat \ {0}
  /\ FirstKey \in Keys /\ Never \notin Nat

VARIABLES
  now,       \* the clock
  bucket,    \* the requests whose admission stamps each process keeps for a tenant
  cache,     \* the keys each process has cached, and since when
  issued,    \* since when each key is published
  withdrawn, \* since when it no longer is
  req,       \* the requests, in the order in which they arrived
  restarted  \* processes that lost their memory (ghost)

gateVars == <<now, bucket, cache, issued, withdrawn, req, restarted>>

NoCache == [keys |-> {}, at |-> Never]

Times == 0 .. MaxTime
Published == {k \in Keys : issued[k] # Never /\ withdrawn[k] = Never}

Request ==
  [pc : {"auth", "fetch", "accepted", "limited", "unknown", "failed"},
   process : Processes, tenant : Tenants, caller : Callers, key : Keys, keys : SUBSET Keys,
   sent : Times, at : Times]

GateTypeOK ==
  /\ now \in Times
  /\ req \in Seq(Request) /\ Len(req) <= Senders
  /\ bucket \in [Processes -> [Tenants -> SUBSET DOMAIN req]]
  /\ \A p \in Processes, t \in Tenants : Cardinality(bucket[p][t]) <= MaxRequests
  /\ cache \in [Processes -> [keys : SUBSET Keys, at : Times \union {Never}]]
  /\ {issued, withdrawn} \subseteq [Keys -> Times \union {Never}]
  /\ restarted \subseteq Processes

GateInit ==
  /\ now = 0
  /\ bucket = [p \in Processes |-> [t \in Tenants |-> {}]]
  /\ cache = [p \in Processes |-> NoCache]
  /\ issued = [k \in Keys |-> IF k = FirstKey THEN 0 ELSE Never]
  /\ withdrawn = [k \in Keys |-> Never]
  /\ req = <<>>
  /\ restarted = {}

--------------------------------------------------------------------------------
(* RateLimitMiddleware *)

\* Those whose stamps are not older than the window.
Recent(p, t) == {r \in bucket[p][t] : req[r].sent >= now - Window}

\* A process serves one request at a time up to the handler's first await.
Free(p) == \A r \in DOMAIN req : req[r].process = p => req[r].pc # "fetch"

Received(p, t, c, full) ==
  [pc |-> IF full THEN "limited" ELSE "auth", process |-> p, tenant |-> t, caller |-> c,
   key |-> FirstKey, keys |-> {}, sent |-> now, at |-> now]

\* Mutant: the stamp of a request that is refused is kept too.
ArriveCountsAll ==
  /\ Len(req) < Senders
  /\ \E p \in Processes, t \in Tenants, c \in Callers :
       LET recent == Recent(p, t)
           full == Cardinality(recent) >= MaxRequests
           newer == {r \in recent : \E o \in recent : o < r}
       IN  /\ Free(p)
           /\ bucket' = [bucket EXCEPT ![p][t] =
                (IF full THEN newer ELSE recent) \union {Len(req) + 1}]
           /\ req' = Append(req, Received(p, t, c, full))
  /\ UNCHANGED <<now, cache, issued, withdrawn, restarted>>

\* A request arrives at some process: 429, and no trace of it, when the window of
\* its tenant is full.
Arrive ==
  /\ Len(req) < Senders
  /\ \E p \in Processes, t \in Tenants, c \in Callers :
       LET recent == Recent(p, t)
           full == Cardinality(recent) >= MaxRequests
       IN  /\ Free(p)
           /\ bucket' = IF full THEN bucket
                        ELSE [bucket EXCEPT ![p][t] = recent \union {Len(req) + 1}]
           /\ req' = Append(req, Received(p, t, c, full))
  /\ UNCHANGED <<now, cache, issued, withdrawn, restarted>>

--------------------------------------------------------------------------------
(* AuthMiddleware and verify_token *)

\* The token is of some key the provider has used.  With these keys it is accepted,
\* or its key is not among them: a RuntimeError, which AuthMiddleware does not catch.
Judge(r, keys) ==
  \E k \in {x \in Keys : issued[x] # Never} :
    req' = [req EXCEPT ![r].pc = IF k \in keys THEN "accepted" ELSE "unknown",
                       ![r].key = k, ![r].keys = {}, ![r].at = now]

\* Mutant: a cache that was filled once is good for ever.
FreshOnceFilled(p) == cache[p].at # Never

Fresh(p) == cache[p].at # Never /\ now - cache[p].at < CacheSeconds

VerifyCached(r) ==
  LET p == req[r].process
  IN  /\ req[r].pc = "auth"
      /\ Free(p) /\ Fresh(p)
      /\ Judge(r, cache[p].keys)
      /\ UNCHANGED <<now, bucket, cache, issued, withdrawn, restarted>>

\* The provider answers with the keys it publishes now.
FetchKeys(r) ==
  LET p == req[r].process
  IN  /\ req[r].pc = "auth"
      /\ Free(p) /\ ~Fresh(p)
      /\ req' = [req EXCEPT ![r].pc = "fetch", ![r].keys = Published, ![r].at = now]
      /\ UNCHANGED <<now, bucket, cache, issued, withdrawn, restarted>>

\* The answer arrives: cached with the time of its arrival, and used.
StoreKeys(r) ==
  LET p == req[r].process
  IN  /\ req[r].pc = "fetch"
      /\ cache' = [cache EXCEPT ![p] = [keys |-> req[r].keys, at |-> now]]
      /\ Judge(r, req[r].keys)
      /\ UNCHANGED <<now, bucket, issued, withdrawn, restarted>>

\* The provider cannot be reached: 500, and the cache stays as it is.
FailFetch(r) ==
  /\ req[r].pc = "fetch"
  /\ req' = [req EXCEPT ![r].pc = "failed"]
  /\ UNCHANGED <<now, bucket, cache, issued, withdrawn, restarted>>

--------------------------------------------------------------------------------
(* The world *)

Tick ==
  /\ now < MaxTime
  /\ \A r \in DOMAIN req : req[r].pc = "fetch" => now < req[r].at + Latency
  /\ \A r \in DOMAIN req : req[r].pc # "auth"
  /\ now' = now + 1
  /\ UNCHANGED <<bucket, cache, issued, withdrawn, req, restarted>>

PublishKey(k) ==
  /\ issued[k] = Never
  /\ issued' = [issued EXCEPT ![k] = now]
  /\ UNCHANGED <<now, bucket, cache, withdrawn, req, restarted>>

WithdrawKey(k) ==
  /\ k \in Published
  /\ withdrawn' = [withdrawn EXCEPT ![k] = now]
  /\ UNCHANGED <<now, bucket, cache, issued, req, restarted>>

\* A process starts again with empty memory; its requests are lost.
Restart(p) ==
  /\ bucket' = [bucket EXCEPT ![p] = [t \in Tenants |-> {}]]
  /\ cache' = [cache EXCEPT ![p] = NoCache]
  /\ req' = [r \in DOMAIN req |->
       IF req[r].process = p /\ req[r].pc \in {"auth", "fetch"}
       THEN [req[r] EXCEPT !.pc = "failed"] ELSE req[r]]
  /\ restarted' = restarted \union {p}
  /\ UNCHANGED <<now, issued, withdrawn>>

GateNext ==
  \/ Arrive \/ Tick
  \/ \E r \in DOMAIN req : VerifyCached(r) \/ FetchKeys(r) \/ StoreKeys(r) \/ FailFetch(r)
  \/ \E k \in Keys : PublishKey(k) \/ WithdrawKey(k)
  \/ \E p \in Processes : Restart(p)

GateSpec == GateInit /\ [][GateNext]_gateVars

(* Properties *)

\* The requests of a tenant that a process let through in a period.
Admitted(p, t, from, to) ==
  {r \in DOMAIN req : /\ req[r].pc # "limited"
                      /\ req[r].process = p /\ req[r].tenant = t
                      /\ req[r].sent \in from .. to}

\* A process that kept its memory lets at most MaxRequests of a tenant, of all its
\* callers together, through in any window, wherever the window starts; and a
\* request is refused only if so many were let through in the window it ends: being
\* refused shuts no client out.
WindowIsHonest ==
  /\ \A p \in Processes \ restarted, t \in Tenants, from \in Times :
       Cardinality(Admitted(p, t, from, from + Window)) <= MaxRequests
  /\ \A r \in DOMAIN req : req[r].pc = "limited" =>
       Cardinality(Admitted(req[r].process, req[r].tenant, req[r].sent - Window, req[r].sent))
         >= MaxRequests

\* A request is refused only if so many of its own caller were let through in the
\* window it ends, as a limit "per-tenant/principal" would have it.
LimitIsPerCaller ==
  \A r \in DOMAIN req : req[r].pc = "limited" =>
    Cardinality({o \in Admitted(req[r].process, req[r].tenant,
                                req[r].sent - Window, req[r].sent) :
                   req[o].caller = req[r].caller}) >= MaxRequests

\* A process sees the keys as they were less than CacheSeconds + Latency ago: no
\* token is accepted later than that after its key was withdrawn, and none is
\* refused as unknown later than that after its key was published.
KeyViewIsRecent ==
  LET stale == CacheSeconds + Latency
  IN  \A r \in DOMAIN req :
        LET k == req[r].key
        IN  /\ req[r].pc = "accepted" /\ withdrawn[k] # Never => req[r].at < withdrawn[k] + stale
            /\ req[r].pc = "unknown" /\ withdrawn[k] = Never => req[r].at < issued[k] + stale

================================================================================
