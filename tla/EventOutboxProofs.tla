--------------------------- MODULE EventOutboxProofs ---------------------------
(***************************************************************************)
(* Safety of EventOutbox for any number of events, subscriptions and runs, *)
(* and any batch limit.                                                    *)
(***************************************************************************)
EXTENDS EventOutbox, FiniteSetTheorems, WellFoundedInduction, TLAPS

RunStates == [pc : {"idle", "next", "send", "commit"}, batch : SUBSET Events,
              current : Events \union {NoEvent}, todo : SUBSET Subs,
              ok : BOOLEAN, flushed : SUBSET Events, failed : SUBSET Events]

\* Its request committed.
Known(e) == event[e] \in {"PENDING"} \union Outcomes

Reached(e) == \A s \in owed[e] : <<e, s>> \in accepted

WasRefused(e) == \E s \in Subs : <<e, s>> \in refused

\* Who is owed an event either accepted it or is still among those that a run
\* would send it to; before the commit nobody is owed anything.
OwedOrDone ==
  \A e \in Events :
    /\ ~Known(e) => owed[e] = {}
    /\ \A s \in owed[e] : (s \in Active /\ Matches(e, s)) \/ <<e, s>> \in accepted

\* A run goes through its batch in order: what it flushed is older than what is
\* left, and the event in hand is the oldest of these.
RunOrder(d) ==
  /\ run[d].pc = "idle" => run[d].batch = {} /\ run[d].flushed = {}
  /\ run[d].pc = "next" => run[d].batch # {}
  /\ run[d].pc = "send" => /\ run[d].current \in run[d].batch
                           /\ \A b \in run[d].batch : run[d].current =< b
  /\ run[d].failed \subseteq run[d].flushed
  /\ \A f \in run[d].flushed, b \in run[d].batch : f < b

\* What a run flushed, or is about to, agrees with the answers there were.
RunHonest(d) ==
  /\ \A e \in run[d].batch \union run[d].flushed : Known(e)
  /\ \A e \in run[d].flushed \ run[d].failed : Reached(e)
  /\ \A e \in run[d].failed : WasRefused(e)
  /\ run[d].pc = "send" /\ run[d].ok =>
       \A s \in owed[run[d].current] :
         s \in run[d].todo \/ <<run[d].current, s>> \in accepted
  /\ run[d].pc = "send" /\ ~run[d].ok => WasRefused(run[d].current)

IInv ==
  /\ TypeOK
  /\ OwedOrDone
  /\ DispatchedReachedAll
  /\ FailureIsItsOwn
  /\ NoPhantomEvent
  /\ \A d \in Runs : RunOrder(d) /\ RunHonest(d)

--------------------------------------------------------------------------------
(* The batch *)

LEMMA MinOfNaturals ==
  ASSUME NEW S \in SUBSET Nat, S # {}
  PROVE  Min(S) \in S /\ \A x \in S : Min(S) =< x
<1> DEFINE before == {ss \in Nat \X Nat : ss[1] < ss[2]}
<1>1. IsWellFoundedOn(before, Nat)
  BY NatLessThanWellFounded, Zenon DEF OpToRel
<1>2. PICK x \in S : \A y \in S : <<y, x>> \notin before
  <2> HIDE DEF before
  <2> QED
    BY <1>1, WFMin, Zenon
<1>3. ASSUME NEW y \in S PROVE x =< y
  <2>1. x \in Nat /\ y \in Nat
    OBVIOUS
  <2>2. y < x => <<y, x>> \in before
    BY <2>1, SMT
  <2> QED
    BY <1>2, <2>1, <2>2, SMT
<1> QED
  BY <1>2, <1>3 DEF Min

\* The oldest pending event is always within the limit.
LEMMA BatchIsNotEmpty ==
  ASSUME NEW S \in SUBSET Events, S # {}
  PROVE  {e \in S : Cardinality({f \in S : f < e}) < Limit} # {}
<1>1. S \in SUBSET Nat /\ Limit \in Nat \ {0}
  BY OutboxAssumption
<1>2. Min(S) \in S /\ \A x \in S : Min(S) =< x
  BY <1>1, MinOfNaturals
<1>3. {f \in S : f < Min(S)} = {}
  <2>1. ASSUME NEW f \in S, f < Min(S) PROVE FALSE
    <3> DEFINE m == Min(S)
    <3>1. f \in Nat /\ m \in Nat /\ m =< f /\ f < m
      BY <1>1, <1>2, <2>1
    <3> HIDE DEF m
    <3> QED
      BY <3>1, SMT
  <2> QED
    BY <2>1, Zenon
<1>4. Cardinality({f \in S : f < Min(S)}) < Limit
  BY <1>1, <1>3, FS_EmptySet
<1> QED
  BY <1>2, <1>4, Zenon

--------------------------------------------------------------------------------
(* The invariant *)

LEMMA InitIInv == Init => IInv
<1> SUFFICES ASSUME Init PROVE IInv
  OBVIOUS
<1>1. Idle \in RunStates
  BY DEF Idle, RunStates
<1>2. /\ run \in [Runs -> RunStates]
      /\ \A d \in Runs : run[d] = Idle
  BY <1>1 DEF Init
<1>3. TypeOK
  BY <1>2 DEF Init, TypeOK, EventStates, RunStates
<1>4. \A d \in Runs : RunOrder(d) /\ RunHonest(d)
  BY <1>2 DEF Idle, RunOrder, RunHonest
<1>5. OwedOrDone /\ DispatchedReachedAll /\ FailureIsItsOwn /\ NoPhantomEvent
  BY DEF Init, OwedOrDone, DispatchedReachedAll, FailureIsItsOwn, NoPhantomEvent
<1> QED
  BY <1>3, <1>4, <1>5 DEF IInv

\* One run moves on and the others do not.
LEMMA RunEffect ==
  ASSUME TypeOK, NEW d \in Runs, NEW me \in RunStates,
         run' = [run EXCEPT ![d] = me]
  PROVE  /\ run' \in [Runs -> RunStates]
         /\ run'[d] = me
         /\ \A o \in Runs \ {d} : run'[o] = run[o]
BY DEF TypeOK, RunStates

\* A run that does not move stays honest: commits are not undone, nobody is
\* owed more than at the commit and answers are not taken back.
LEMMA HonestKept ==
  ASSUME TypeOK, NEW d \in Runs, run'[d] = run[d], RunHonest(d), RunOrder(d),
         \A e \in Events : Known(e) => Known(e)' /\ owed'[e] \subseteq owed[e],
         accepted \subseteq accepted', refused \subseteq refused'
  PROVE  RunHonest(d)' /\ RunOrder(d)'
<1>1. run[d] \in RunStates
  BY DEF TypeOK, RunStates
<1>2. /\ run[d].batch \subseteq Events /\ run[d].flushed \subseteq Events
      /\ run[d].failed \subseteq run[d].flushed
      /\ run[d].pc = "send" => run[d].current \in run[d].batch
  BY <1>1 DEF RunStates, RunOrder
<1>3. \A e \in run[d].batch \union run[d].flushed : Known(e) /\ Known(e)' /\ e \in Events
  BY <1>2 DEF RunHonest
<1>4. \A e \in run[d].flushed \ run[d].failed : Reached(e)'
  BY <1>3 DEF RunHonest, Reached
<1>5. \A e \in run[d].failed : WasRefused(e)'
  BY DEF RunHonest, WasRefused
<1>6. run[d].pc = "send" /\ run[d].ok =>
        \A s \in owed'[run[d].current] :
          s \in run[d].todo \/ <<run[d].current, s>> \in accepted'
  BY <1>2, <1>3 DEF RunHonest
<1>7. run[d].pc = "send" /\ ~run[d].ok => WasRefused(run[d].current)'
  BY DEF RunHonest, WasRefused
<1>8. RunHonest(d)'
  BY <1>3, <1>4, <1>5, <1>6, <1>7 DEF RunHonest, WasRefused
<1>9. RunOrder(d)'
  BY DEF RunOrder
<1> QED
  BY <1>8, <1>9

\* The request of an event that nobody knows of yet starts, commits or rolls back.
LEMMA EventStep ==
  ASSUME IInv, NEW e \in Events, NEW st \in EventStates \ Outcomes,
         ~Known(e), event' = [event EXCEPT ![e] = st],
         \/ st # "PENDING" /\ owed' = owed
         \/ owed' = [owed EXCEPT ![e] = {s \in Active : Matches(e, s)}] /\ st = "PENDING",
         UNCHANGED <<sub, run, accepted, refused>>
  PROVE  IInv'
<1>0. /\ TypeOK /\ OwedOrDone /\ DispatchedReachedAll /\ FailureIsItsOwn /\ NoPhantomEvent
      /\ \A d \in Runs : RunOrder(d) /\ RunHonest(d)
  BY DEF IInv
<1>1. /\ event'[e] = st
      /\ \A f \in Events \ {e} : event'[f] = event[f] /\ owed'[f] = owed[f]
      /\ owed'[e] \subseteq {s \in Active : Matches(e, s)}
      /\ st # "PENDING" => owed'[e] = {}
      /\ event' \in [Events -> EventStates] /\ owed' \in [Events -> SUBSET Subs]
  BY <1>0 DEF TypeOK, OwedOrDone, Active
<1>2. \A f \in Events : Known(f) => f # e /\ Known(f)' /\ owed'[f] \subseteq owed[f]
  BY <1>1 DEF Known
<1>3. TypeOK'
  BY <1>0, <1>1 DEF TypeOK
<1>4. OwedOrDone'
  BY <1>0, <1>1, ZenonT(40) DEF OwedOrDone, Known, Active
<1>5. DispatchedReachedAll' /\ FailureIsItsOwn'
  BY <1>0, <1>1 DEF DispatchedReachedAll, FailureIsItsOwn, Outcomes
<1>6. NoPhantomEvent'
  <2>1. \A p \in accepted \union refused : p[1] \in Events
    BY <1>0 DEF TypeOK
  <2> QED
    BY <1>0, <1>2, <2>1 DEF NoPhantomEvent, Known
<1>7. \A d \in Runs : RunHonest(d)' /\ RunOrder(d)'
  BY <1>0, <1>2, HonestKept
<1> QED
  BY <1>3, <1>4, <1>5, <1>6, <1>7 DEF IInv

\* A subscription appears, or goes: what is still owed to it is forgiven, except
\* for the events it has already accepted.
LEMMA SubscriptionStep ==
  ASSUME IInv, NEW s \in Subs, CreateSubscription(s) \/ DeleteSubscription(s)
  PROVE  IInv'
<1>0. /\ TypeOK /\ OwedOrDone /\ DispatchedReachedAll /\ FailureIsItsOwn /\ NoPhantomEvent
      /\ \A d \in Runs : RunOrder(d) /\ RunHonest(d)
  BY DEF IInv
<1>1. UNCHANGED <<event, run, accepted, refused>>
  BY DEF CreateSubscription, DeleteSubscription
<1>2. \A e \in Events :
        /\ owed'[e] \subseteq owed[e]
        /\ event[e] = "DISPATCHED" => owed'[e] = owed[e]
  BY <1>0 DEF CreateSubscription, DeleteSubscription, TypeOK
<1>3. owed' \in [Events -> SUBSET Subs]
  BY <1>0 DEF CreateSubscription, DeleteSubscription, TypeOK
<1>4. TypeOK'
  BY <1>0, <1>1, <1>3 DEF CreateSubscription, DeleteSubscription, TypeOK
<1>5. DispatchedReachedAll' /\ FailureIsItsOwn' /\ NoPhantomEvent'
  BY <1>0, <1>1, <1>2 DEF DispatchedReachedAll, FailureIsItsOwn, NoPhantomEvent
<1>6. ASSUME NEW e \in Events, NEW q \in owed'[e], <<e, q>> \notin accepted
      PROVE  q \in Active' /\ Matches(e, q)
  <2>1. q \in Active /\ Matches(e, q)
    BY <1>0, <1>2, <1>6 DEF OwedOrDone
  <2>2. sub' = [sub EXCEPT ![s] = "ACTIVE"] \/ q # s
    BY <1>0, <1>2, <1>6 DEF CreateSubscription, DeleteSubscription, DispatchedReachedAll
  <2>3. sub'[q] = "ACTIVE"
    BY <1>0, <2>1, <2>2 DEF CreateSubscription, DeleteSubscription, Active, TypeOK
  <2> QED
    BY <2>1, <2>3 DEF Active
<1>7. OwedOrDone'
  BY <1>0, <1>1, <1>2, <1>6, Zenon DEF OwedOrDone, Known, Matches
<1>8. \A d \in Runs : RunHonest(d)' /\ RunOrder(d)'
  BY <1>0, <1>1, <1>2, HonestKept DEF Known
<1> QED
  BY <1>4, <1>5, <1>7, <1>8 DEF IInv

\* A run moves on without committing: other than answers to events that are
\* known, nothing of it is seen outside.
LEMMA QuietRunStep ==
  ASSUME IInv, NEW d \in Runs, NEW me \in RunStates,
         run' = [run EXCEPT ![d] = me],
         UNCHANGED <<event, sub, owed>>,
         accepted \subseteq accepted', refused \subseteq refused',
         accepted' \union refused' \subseteq Events \X Subs,
         \A p \in accepted' \union refused' :
           p \in accepted \union refused \/ Known(p[1]),
         RunOrder(d)', RunHonest(d)'
  PROVE  IInv'
<1>0. /\ TypeOK /\ OwedOrDone /\ DispatchedReachedAll /\ FailureIsItsOwn /\ NoPhantomEvent
      /\ \A o \in Runs : RunOrder(o) /\ RunHonest(o)
  BY DEF IInv
<1>1. /\ run' \in [Runs -> RunStates]
      /\ \A o \in Runs \ {d} : run'[o] = run[o]
  BY <1>0, RunEffect
<1>2. TypeOK'
  BY <1>0, <1>1 DEF TypeOK, RunStates
<1>3. OwedOrDone' /\ DispatchedReachedAll' /\ FailureIsItsOwn'
  BY <1>0 DEF OwedOrDone, DispatchedReachedAll, FailureIsItsOwn, Known, Active, Matches
<1>4. NoPhantomEvent'
  BY <1>0, Zenon DEF NoPhantomEvent, Known
<1>5. \A o \in Runs \ {d} : RunHonest(o)' /\ RunOrder(o)'
  BY <1>0, <1>1, HonestKept DEF Known
<1> QED
  BY <1>2, <1>3, <1>4, <1>5 DEF IInv

LEMMA StartRunStep ==
  ASSUME IInv, NEW d \in Runs, StartRun(d)
  PROVE  IInv'
<1> DEFINE pending == {e \in Events : event[e] = "PENDING"}
           batch == {e \in pending : Cardinality({f \in pending : f < e}) < Limit}
           me == [Idle EXCEPT !.pc = "next", !.batch = batch]
<1>1. batch # {} /\ batch \subseteq Events
  BY BatchIsNotEmpty DEF StartRun
<1>2. run' = [run EXCEPT ![d] = me] /\ UNCHANGED <<event, sub, accepted, refused, owed>>
  BY DEF StartRun
<1>3. \A e \in batch : Known(e)
  BY DEF Known
<1> HIDE DEF batch
<1>4. /\ me \in RunStates
      /\ me.pc = "next" /\ me.batch = batch /\ me.flushed = {} /\ me.failed = {}
  BY <1>1 DEF RunStates, Idle
<1> HIDE DEF me
<1>5. TypeOK /\ NoPhantomEvent
  BY DEF IInv
<1>6. run'[d] = me
  BY <1>2, <1>4, <1>5, RunEffect
<1>7. RunOrder(d)'
  BY <1>1, <1>4, <1>6 DEF RunOrder
<1>8. RunHonest(d)'
  BY <1>2, <1>3, <1>4, <1>6 DEF RunHonest, Known
<1>9. accepted \union refused \subseteq Events \X Subs
  BY <1>5 DEF TypeOK
<1> QED
  BY <1>2, <1>4, <1>7, <1>8, <1>9, QuietRunStep

LEMMA ResolveStep ==
  ASSUME IInv, NEW d \in Runs, ResolveSubscriptions(d)
  PROVE  IInv'
<1> DEFINE e == Min(run[d].batch)
           todo == {s \in Active : Matches(e, s)}
           me == [run[d] EXCEPT !.pc = "send", !.current = e, !.ok = TRUE, !.todo = todo]
<1>0. /\ TypeOK /\ OwedOrDone /\ RunOrder(d) /\ RunHonest(d)
      /\ run[d] \in RunStates /\ run \in [Runs -> RunStates]
  BY DEF IInv, TypeOK, RunStates
<1>1. run[d].batch \in SUBSET Nat /\ run[d].batch # {} /\ run[d].batch \subseteq Events
  BY <1>0, OutboxAssumption DEF ResolveSubscriptions, RunOrder, RunStates
<1>2. e \in run[d].batch /\ e \in Events /\ \A b \in run[d].batch : e =< b
  BY <1>1, MinOfNaturals
<1>3. \A s \in owed[e] : s \in todo \/ <<e, s>> \in accepted
  BY <1>0, <1>2 DEF OwedOrDone
<1>4. todo \subseteq Subs
  BY DEF Active
<1>5. run' = [run EXCEPT ![d].pc = "send", ![d].current = e, ![d].ok = TRUE,
                         ![d].todo = todo]
      /\ UNCHANGED <<event, sub, accepted, refused, owed>>
  BY DEF ResolveSubscriptions
<1> HIDE DEF e, todo
<1>6. /\ me \in RunStates
      /\ me.pc = "send" /\ me.current = e /\ me.ok = TRUE /\ me.todo = todo
      /\ me.batch = run[d].batch /\ me.flushed = run[d].flushed
      /\ me.failed = run[d].failed
  BY <1>0, <1>2, <1>4 DEF RunStates
<1>7. run' = [run EXCEPT ![d] = me]
  BY <1>0, <1>5 DEF RunStates
<1> HIDE DEF me
<1>8. run'[d] = me
  BY <1>0, <1>6, <1>7, RunEffect
<1>9. RunOrder(d)'
  BY <1>0, <1>2, <1>6, <1>8 DEF RunOrder
<1>10. RunHonest(d)'
  BY <1>0, <1>3, <1>5, <1>6, <1>8 DEF RunHonest, Known, Reached, WasRefused
<1>11. accepted \union refused \subseteq Events \X Subs
  BY <1>0 DEF TypeOK
<1> QED
  BY <1>5, <1>6, <1>7, <1>9, <1>10, <1>11, QuietRunStep

LEMMA SendStep ==
  ASSUME IInv, NEW d \in Runs, NEW s \in Subs, SendAccepted(d, s) \/ SendRefused(d, s)
  PROVE  IInv'
<1> DEFINE e == run[d].current
<1>0. /\ TypeOK /\ OwedOrDone /\ RunOrder(d) /\ RunHonest(d)
      /\ run[d] \in RunStates /\ run \in [Runs -> RunStates]
      /\ accepted \union refused \subseteq Events \X Subs
  BY DEF IInv, TypeOK, RunStates
<1>1. /\ run[d].pc = "send" /\ e \in run[d].batch /\ e \in Events /\ Known(e)
      /\ UNCHANGED <<event, sub, owed>>
  BY <1>0 DEF SendAccepted, SendRefused, RunOrder, RunHonest, RunStates
<1>2. PICK ok \in BOOLEAN :
        /\ run' = [run EXCEPT ![d].todo = run[d].todo \ {s}, ![d].ok = ok]
        /\ ok => run[d].ok /\ accepted' = accepted \union {<<e, s>>}
        /\ ~ok => ~run[d].ok \/ refused' = refused \union {<<e, s>>}
  <2>1. CASE SendAccepted(d, s)
    <3>1. run' = [run EXCEPT ![d].todo = run[d].todo \ {s}, ![d].ok = run[d].ok]
      BY <1>0, <2>1 DEF SendAccepted, RunStates
    <3> QED
      BY <1>0, <2>1, <3>1 DEF SendAccepted, RunStates
  <2>2. CASE SendRefused(d, s)
    BY <1>0, <2>2 DEF SendRefused, RunStates
  <2> QED
    BY <2>1, <2>2
<1>3. /\ accepted \subseteq accepted' /\ refused \subseteq refused'
      /\ accepted' \union refused' \subseteq accepted \union refused \union {<<e, s>>}
  BY DEF SendAccepted, SendRefused
<1> DEFINE me == [run[d] EXCEPT !.todo = run[d].todo \ {s}, !.ok = ok]
<1>4. /\ me \in RunStates
      /\ me.pc = "send" /\ me.current = e /\ me.ok = ok /\ me.todo = run[d].todo \ {s}
      /\ me.batch = run[d].batch /\ me.flushed = run[d].flushed
      /\ me.failed = run[d].failed
  BY <1>0, <1>1 DEF RunStates
<1>5. run' = [run EXCEPT ![d] = me]
  BY <1>0, <1>2 DEF RunStates
<1> HIDE DEF me, e
<1>6. run'[d] = me
  BY <1>0, <1>4, <1>5, RunEffect
<1>7. RunOrder(d)'
  BY <1>0, <1>1, <1>4, <1>6 DEF RunOrder, e
<1>8. \A f \in run[d].batch \union run[d].flushed : Known(f)'
  BY <1>0, <1>1 DEF RunHonest, Known
<1>9. /\ \A f \in run[d].flushed \ run[d].failed : Reached(f)'
      /\ \A f \in run[d].failed : WasRefused(f)'
  BY <1>0, <1>1, <1>3, Zenon DEF RunHonest, Reached, WasRefused
<1>10. ok => \A q \in owed'[e] : q \in run[d].todo \ {s} \/ <<e, q>> \in accepted'
  BY <1>0, <1>1, <1>2, <1>3 DEF RunHonest, e
<1>11. ~ok => \E q \in Subs : <<e, q>> \in refused'
  BY <1>0, <1>1, <1>2, <1>3 DEF RunHonest, WasRefused, e
<1>12. RunHonest(d)'
  <2>1. \A f \in run'[d].batch \union run'[d].flushed : Known(f)'
    BY <1>4, <1>6, <1>8
  <2>2. /\ \A f \in run'[d].flushed \ run'[d].failed : Reached(f)'
        /\ \A f \in run'[d].failed : WasRefused(f)'
    BY <1>4, <1>6, <1>9
  <2>3. /\ run'[d].ok => \A q \in owed'[run'[d].current] :
             q \in run'[d].todo \/ <<run'[d].current, q>> \in accepted'
        /\ ~run'[d].ok => WasRefused(run[d].current)'
    BY <1>4, <1>6, <1>10, <1>11 DEF WasRefused
  <2> QED
    BY <2>1, <2>2, <2>3 DEF RunHonest
<1>13. /\ accepted' \union refused' \subseteq Events \X Subs
       /\ \A p \in accepted' \union refused' :
            p \in accepted \union refused \/ Known(p[1])
  <2>1. <<e, s>> \in Events \X Subs /\ Known(<<e, s>>[1])
    BY <1>1
  <2> QED
    BY <1>0, <1>3, <2>1, Zenon
<1> QED
  BY <1>1, <1>3, <1>4, <1>5, <1>7, <1>12, <1>13, QuietRunStep

LEMMA FlushStep ==
  ASSUME IInv, NEW d \in Runs, FlushStatus(d)
  PROVE  IInv'
<1> DEFINE e == run[d].current
           rest == run[d].batch \ {e}
           flushed == run[d].flushed \union {e}
           failed == IF run[d].ok THEN run[d].failed ELSE run[d].failed \union {e}
           pc == IF rest = {} THEN "commit" ELSE "next"
           me == [run[d] EXCEPT !.pc = pc, !.batch = rest, !.flushed = flushed,
                                !.failed = failed]
<1>0. /\ TypeOK /\ RunOrder(d) /\ RunHonest(d)
      /\ run[d] \in RunStates /\ run \in [Runs -> RunStates]
      /\ accepted \union refused \subseteq Events \X Subs
  BY DEF IInv, TypeOK, RunStates
<1>1. /\ run[d].pc = "send" /\ run[d].todo = {} /\ e \in run[d].batch /\ e \in Events
      /\ \A b \in run[d].batch : e =< b
      /\ UNCHANGED <<event, sub, accepted, refused, owed>>
  BY <1>0 DEF FlushStatus, RunOrder, RunStates
<1>2. run' = [run EXCEPT ![d] = me]
  BY <1>0 DEF FlushStatus, RunStates
<1>3. /\ me \in RunStates
      /\ me.pc = pc /\ me.batch = rest /\ me.flushed = flushed /\ me.failed = failed
  BY <1>0, <1>1 DEF RunStates
<1>4. run[d].batch \subseteq Nat
  BY <1>0, OutboxAssumption DEF RunStates
<1>5. failed \subseteq flushed /\ \A f \in flushed, b \in rest : f < b
  <2>1. \A b \in rest : e < b
    BY <1>1, <1>4
  <2> QED
    BY <1>0, <2>1 DEF RunOrder
<1>6. /\ \A f \in rest \union flushed : Known(f)
      /\ \A f \in flushed \ failed : Reached(f)
      /\ \A f \in failed : WasRefused(f)
  <2>1. IF run[d].ok THEN Reached(e) ELSE WasRefused(e)
    BY <1>0, <1>1 DEF RunHonest, Reached, RunStates
  <2> QED
    BY <1>0, <1>1, <2>1 DEF RunHonest
<1> HIDE DEF me
<1>7. run'[d] = me
  BY <1>0, <1>2, <1>3, RunEffect
<1>8. RunOrder(d)'
  BY <1>3, <1>5, <1>7 DEF RunOrder
<1>9. RunHonest(d)'
  BY <1>1, <1>3, <1>6, <1>7 DEF RunHonest, Known, Reached, WasRefused
<1> QED
  BY <1>0, <1>1, <1>2, <1>3, <1>8, <1>9, QuietRunStep

LEMMA AbortStep ==
  ASSUME IInv, NEW d \in Runs, AbortRun(d)
  PROVE  IInv'
<1>1. /\ Idle \in RunStates /\ Idle.pc = "idle" /\ Idle.batch = {}
      /\ Idle.flushed = {} /\ Idle.failed = {}
  BY DEF Idle, RunStates
<1>2. TypeOK
  BY DEF IInv
<1>3. run' = [run EXCEPT ![d] = Idle] /\ UNCHANGED <<event, sub, accepted, refused, owed>>
  BY DEF AbortRun
<1>4. run'[d] = Idle
  BY <1>1, <1>2, <1>3, RunEffect
<1>5. RunOrder(d)' /\ RunHonest(d)'
  BY <1>1, <1>4 DEF RunOrder, RunHonest
<1> QED
  BY <1>1, <1>2, <1>3, <1>5, QuietRunStep DEF TypeOK

\* The commit makes public what the run did: RunHonest says it is earned.
LEMMA CommitStep ==
  ASSUME IInv, NEW d \in Runs, CommitRun(d)
  PROVE  IInv'
<1>0. /\ TypeOK /\ OwedOrDone /\ DispatchedReachedAll /\ FailureIsItsOwn /\ NoPhantomEvent
      /\ \A o \in Runs : RunOrder(o) /\ RunHonest(o)
      /\ run[d] \in RunStates
  BY DEF IInv, TypeOK, RunStates
<1>1. Idle \in RunStates /\ Idle.pc = "idle" /\ Idle.batch = {}
      /\ Idle.flushed = {} /\ Idle.failed = {}
  BY DEF Idle, RunStates
<1>2. /\ run' = [run EXCEPT ![d] = Idle]
      /\ UNCHANGED <<sub, accepted, refused, owed>>
  BY DEF CommitRun
<1>3. /\ run' \in [Runs -> RunStates] /\ run'[d] = Idle
      /\ \A o \in Runs \ {d} : run'[o] = run[o]
  BY <1>0, <1>1, <1>2, RunEffect
<1>4. \A e \in Events :
        \/ e \in run[d].failed /\ event'[e] = "FAILED_RETRYABLE"
        \/ e \in run[d].flushed \ run[d].failed /\ event'[e] = "DISPATCHED"
        \/ e \notin run[d].flushed /\ event'[e] = event[e]
  BY <1>0 DEF CommitRun, Committed, RunOrder
<1>5. event' \in [Events -> EventStates]
  <2>1. event' = [e \in Events |-> event'[e]]
    BY DEF CommitRun
  <2>2. \A e \in Events : event'[e] \in EventStates
    BY <1>0, <1>4 DEF TypeOK, EventStates, Outcomes
  <2> QED
    BY <2>1, <2>2, Zenon
<1>6. \A e \in Events : Known(e) <=> Known(e)'
  <2>1. \A e \in run[d].flushed : Known(e)
    BY <1>0 DEF RunHonest
  <2> QED
    BY <1>0, <1>4, <2>1 DEF Known, Outcomes, RunOrder
<1>7. TypeOK'
  BY <1>0, <1>2, <1>3, <1>5 DEF TypeOK, RunStates
<1>8. OwedOrDone'
  BY <1>0, <1>2, <1>6, Zenon DEF OwedOrDone, Active, Matches
<1>9. DispatchedReachedAll'
  BY <1>0, <1>2, <1>4 DEF DispatchedReachedAll, RunHonest, Reached
<1>10. FailureIsItsOwn'
  BY <1>0, <1>2, <1>4 DEF FailureIsItsOwn, RunHonest, WasRefused
<1>11. NoPhantomEvent'
  <2>1. \A p \in accepted \union refused : p[1] \in Events
    BY <1>0 DEF TypeOK
  <2> QED
    BY <1>0, <1>2, <1>6, <2>1, Zenon DEF NoPhantomEvent, Known
<1>12. \A o \in Runs \ {d} : RunHonest(o)' /\ RunOrder(o)'
  BY <1>0, <1>2, <1>3, <1>6, HonestKept
<1>13. RunHonest(d)' /\ RunOrder(d)'
  BY <1>1, <1>3 DEF RunOrder, RunHonest
<1> QED
  BY <1>7, <1>8, <1>9, <1>10, <1>11, <1>12, <1>13 DEF IInv

LEMMA NextIInv == IInv /\ [Next]_vars => IInv'
<1> SUFFICES ASSUME IInv, [Next]_vars PROVE IInv'
  OBVIOUS
<1>1. ASSUME NEW e \in Events, AppendEvent(e) PROVE IInv'
  BY <1>1, EventStep DEF AppendEvent, Known, EventStates, Outcomes
<1>2. ASSUME NEW e \in Events, CommitEvent(e) PROVE IInv'
  BY <1>2, EventStep DEF CommitEvent, Known, EventStates, Outcomes
<1>3. ASSUME NEW e \in Events, RollbackEvent(e) PROVE IInv'
  BY <1>3, EventStep DEF RollbackEvent, Known, EventStates, Outcomes
<1>4. CASE UNCHANGED vars
  BY <1>4, Zenon
  DEF vars, IInv, TypeOK, OwedOrDone, DispatchedReachedAll, FailureIsItsOwn,
      NoPhantomEvent, RunOrder, RunHonest, Known, Reached, WasRefused, Active
<1> QED
  BY <1>1, <1>2, <1>3, <1>4, SubscriptionStep, StartRunStep, ResolveStep, SendStep,
     FlushStep, CommitStep, AbortStep
  DEF Next, ApiStep, RunStep

THEOREM Invariance == Spec => []IInv
BY InitIInv, NextIInv, PTL DEF Spec

--------------------------------------------------------------------------------
(* What the runs check *)

\* The variables keep their types.
THEOREM Typing == Spec => []TypeOK
<1>1. IInv => TypeOK
  BY DEF IInv
<1> QED
  BY <1>1, Invariance, PTL

\* An event is DISPATCHED only when everybody still owed it has accepted it.
THEOREM Delivered == Spec => []DispatchedReachedAll
<1>1. IInv => DispatchedReachedAll
  BY DEF IInv
<1> QED
  BY <1>1, Invariance, PTL

\* An event is FAILED_RETRYABLE only when a destination refused that very event.
THEOREM FailureOwned == Spec => []FailureIsItsOwn
<1>1. IInv => FailureIsItsOwn
  BY DEF IInv
<1> QED
  BY <1>1, Invariance, PTL

\* Webhooks carry events of committed requests only.
THEOREM NothingPhantom == Spec => []NoPhantomEvent
<1>1. IInv => NoPhantomEvent
  BY DEF IInv
<1> QED
  BY <1>1, Invariance, PTL

\* A run that waits for a row waits for a run that is at a younger event.
WaitsGoUp ==
  \A d, o \in Runs :
    run[d].pc = "send" /\ run[o].pc = "send" /\ run[d].current \in run[o].flushed
    => run[d].current < run[o].current

\* However many runs overlap, following who waits for whom only leads to younger
\* events, so no chain of waiting runs closes on itself.
THEOREM WaitsAreOrdered == Spec => []WaitsGoUp
<1>1. IInv => WaitsGoUp
  BY DEF IInv, WaitsGoUp, RunOrder
<1> QED
  BY <1>1, Invariance, PTL

\* Two runs never wait for each other's row.
THEOREM LocksAreOrdered == Spec => []NoLockCycle
<1>1. IInv /\ WaitsGoUp => NoLockCycle
  <2> SUFFICES ASSUME IInv, WaitsGoUp, NEW d \in Runs, NEW o \in Runs,
                      run[d].pc = "send", run[d].current \in run[o].flushed,
                      run[o].pc = "send", run[o].current \in run[d].flushed
               PROVE  FALSE
    BY DEF NoLockCycle
  <2>1. /\ run[d].current < run[o].current
        /\ run[o].current < run[d].current
    BY DEF WaitsGoUp
  <2>2. run[d].current \in Nat /\ run[o].current \in Nat
    BY OutboxAssumption DEF IInv, TypeOK, NoEvent
  <2> QED
    BY <2>1, <2>2
<1> QED
  BY <1>1, Invariance, WaitsAreOrdered, PTL

\* A settled event that no run has in hand is neither settled anew nor taken up
\* again: StartRun reads PENDING rows only, a commit writes flushed rows only.
THEOREM SettledForGood == Spec => SettledOnce
<1>1. IInv /\ [Next]_vars =>
        [\A e \in Events :
           /\ event[e] \in Outcomes
           /\ \A d \in Runs : e \notin run[d].batch \union run[d].flushed
           => event'[e] = event[e] /\ \A d \in Runs : e \notin run'[d].batch]_vars
  <2> SUFFICES ASSUME IInv, Next, NEW e \in Events, event[e] \in Outcomes,
                      \A d \in Runs : e \notin run[d].batch \union run[d].flushed
               PROVE  event'[e] = event[e] /\ \A d \in Runs : e \notin run'[d].batch
    OBVIOUS
  <2> DEFINE Kept == event'[e] = event[e] /\ \A d \in Runs : e \notin run'[d].batch
  <2>0. TypeOK /\ run \in [Runs -> RunStates] /\ \A d \in Runs : RunOrder(d)
    BY DEF IInv, TypeOK, RunStates
  <2>1. ASSUME NEW f \in Events, AppendEvent(f) \/ CommitEvent(f) \/ RollbackEvent(f)
        PROVE  Kept
    <3>1. event[f] \notin Outcomes /\ run' = run
      BY <2>1 DEF AppendEvent, CommitEvent, RollbackEvent, Outcomes
    <3>2. event'[e] = event[e]
      BY <2>0, <2>1, <3>1 DEF AppendEvent, CommitEvent, RollbackEvent, TypeOK
    <3> QED
      BY <3>1, <3>2
  <2>2. ASSUME NEW s \in Subs, CreateSubscription(s) \/ DeleteSubscription(s)
        PROVE  Kept
    BY <2>2 DEF CreateSubscription, DeleteSubscription
  <2>3. ASSUME NEW d \in Runs, NEW me \in RunStates, run' = [run EXCEPT ![d] = me],
               e \notin me.batch, event' = event
        PROVE  Kept
    BY <2>0, <2>3, RunEffect
  <2>4. ASSUME NEW d \in Runs, StartRun(d) PROVE Kept
    <3> DEFINE pending == {f \in Events : event[f] = "PENDING"}
               batch == {f \in pending : Cardinality({g \in pending : g < f}) < Limit}
               me == [Idle EXCEPT !.pc = "next", !.batch = batch]
    <3>1. e \notin batch /\ batch \subseteq Events
      BY DEF Outcomes
    <3>2. run' = [run EXCEPT ![d] = me] /\ event' = event
      BY <2>4 DEF StartRun
    <3> HIDE DEF batch
    <3>3. me \in RunStates /\ me.batch = batch
      BY <3>1 DEF RunStates, Idle
    <3> HIDE DEF me
    <3> QED
      BY <2>3, <3>1, <3>2, <3>3
  <2>5. ASSUME NEW d \in Runs, ResolveSubscriptions(d) PROVE Kept
    BY <2>0, <2>5 DEF ResolveSubscriptions, RunStates
  <2>6. ASSUME NEW d \in Runs, NEW s \in Subs, SendAccepted(d, s) \/ SendRefused(d, s)
        PROVE  Kept
    BY <2>0, <2>6 DEF SendAccepted, SendRefused, RunStates
  <2>7. ASSUME NEW d \in Runs, FlushStatus(d) PROVE Kept
    BY <2>0, <2>7 DEF FlushStatus, RunStates
  <2>8. ASSUME NEW d \in Runs, run' = [run EXCEPT ![d] = Idle] PROVE
          \A o \in Runs : e \notin run'[o].batch
    BY <2>0, <2>8 DEF Idle
  <2>9. ASSUME NEW d \in Runs, AbortRun(d) PROVE Kept
    BY <2>8, <2>9 DEF AbortRun
  <2>10. ASSUME NEW d \in Runs, CommitRun(d) PROVE Kept
    <3>1. event'[e] = event[e]
      BY <2>0, <2>10 DEF CommitRun, Committed, RunOrder
    <3> QED
      BY <2>8, <2>10, <3>1 DEF CommitRun
  <2> QED
    BY <2>1, <2>2, <2>4, <2>5, <2>6, <2>7, <2>9, <2>10 DEF Next, ApiStep, RunStep
<1> QED
  BY <1>1, Invariance, PTL DEF Spec, SettledOnce

================================================================================
