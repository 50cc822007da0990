------------------------- MODULE GovernedSafe_proofs -------------------------
(***************************************************************************)
(* Proofs about GovernedSafe, for any number of principals, calls, actions *)
(* and blocks: the recovery and the parent route each implement Timelock   *)
(* while the members, the signer module and the other route act on the     *)
(* same Safe, the signer module's high-water marks hold, and every         *)
(* rotation of the owners lands, whatever list it starts from.             *)
(*                                                                         *)
(* The two routes have the same proof: it is made once for a route r, as   *)
(* an instance of Timelock with that parameter.                            *)
(***************************************************************************)
EXTENDS GovernedSafe, SumTheorems

Route(r) == INSTANCE Timelock WITH
    Window <- EXECUTION_WINDOW, delay <- queue[r].delay,
    authority <- AuthorityIn(queue[r]), standing <- Standing(queue[r]),
    done <- executed[r]

RouteStep(r) == Route(r)!Next \/ UNCHANGED Route(r)!vars

-----------------------------------------------------------------------------
(* The invariant of the routes.                                            *)

Announced == QueueCalls["recovery"] \cup QueueCalls["parent"]

Ticket == [nonce : Nat, call : Announced, by : Principals,
           generation : Nat, at : Nat]

RouteRecord == [authority : Principals, generation : Nat, nextNonce : Nat,
                renounced : BOOLEAN, delay : Nat, pending : SUBSET Ticket]

\* No stored action is of a generation to come, and numbers are not reused.
Numbered(q, done) ==
    /\ \A e \in q.pending : e.nonce < q.nextNonce /\ e.generation <= q.generation
    /\ \A e \in done : e.nonce < q.nextNonce

RouteInv ==
    /\ now \in Nat
    /\ queue \in [Queues -> RouteRecord]
    /\ executed \in [Queues -> SUBSET Ticket]
    /\ \A r \in Queues : Numbered(queue[r], executed[r])

-----------------------------------------------------------------------------
(* What a call of the Safe does to a route.                                *)

Vetoed(a, b) ==
    /\ b \in RouteRecord
    /\ b.authority = a.authority /\ b.generation = a.generation
    /\ b.nextNonce = a.nextNonce /\ b.renounced = a.renounced
    /\ b.delay = a.delay /\ b.pending \subseteq a.pending

Reappointed(a, b) ==
    /\ b \in RouteRecord
    /\ ~a.renounced /\ ~b.renounced
    /\ b.generation = a.generation + 1 /\ b.nextNonce = a.nextNonce
    /\ b.delay = a.delay /\ b.pending = a.pending

\* A successful call withdraws actions of a route or appoints its authority
\* (cancel, setProposer and setParentAuthority are all a Safe can call).
LEMMA CallOnRoute ==
    ASSUME NEW qs \in [Queues -> RouteRecord], NEW call, NEW s, NEW m, NEW sg,
           Succeeds(call, s, m, qs, sg), NEW r \in Queues
    PROVE  LET b == QueuesAfter(qs, call)[r]
           IN  Vetoed(qs[r], b) \/ Reappointed(qs[r], b)
<1> DEFINE a == qs[r]
           b == QueuesAfter(qs, call)[r]
<1>0. a \in RouteRecord
  OBVIOUS
<1>1. CASE call.op = "appoint" /\ call.queue = r
  <2>1. call.to \in Principals /\ ~a.renounced
    BY <1>1 DEF Succeeds, Accepted
  <2>2. b = SetAuthority(a, call.to)
    BY <1>1 DEF QueuesAfter
  <2>3. b = [a EXCEPT !.authority = call.to, !.generation = a.generation + 1]
    BY <2>2 DEF SetAuthority
  <2>4. a.generation + 1 \in Nat
    BY <1>0 DEF RouteRecord
  <2>5. b \in RouteRecord
    BY <1>0, <2>1, <2>3, <2>4 DEF RouteRecord
  <2>6. /\ b.generation = a.generation + 1 /\ b.nextNonce = a.nextNonce
        /\ b.delay = a.delay /\ b.pending = a.pending /\ b.renounced = a.renounced
    BY <1>0, <2>3 DEF RouteRecord
  <2> HIDE DEF b
  <2>7. Reappointed(a, b)
    BY <2>1, <2>5, <2>6 DEF Reappointed
  <2> QED BY <2>7 DEF b
<1>2. CASE call.op = "cancel" /\ call.queue = r
  <2>1. b = [a EXCEPT !.pending = {e \in @ : e.nonce # call.nonce}]
    BY <1>2 DEF QueuesAfter
  <2>2. Vetoed(a, b)
    BY <1>0, <2>1 DEF Vetoed, RouteRecord
  <2> QED BY <2>2
<1>3. CASE /\ ~(call.op = "appoint" /\ call.queue = r)
           /\ ~(call.op = "cancel" /\ call.queue = r)
  <2>1. b = a
    BY <1>3 DEF QueuesAfter
  <2> QED BY <1>0, <2>1 DEF Vetoed
<1> QED BY <1>1, <1>2, <1>3

\* ... and leaves the other parts of the queues as they are.
LEMMA CallKeepsRoutes ==
    ASSUME NEW qs \in [Queues -> RouteRecord], NEW call, NEW s, NEW m, NEW sg,
           Succeeds(call, s, m, qs, sg)
    PROVE  QueuesAfter(qs, call) \in [Queues -> RouteRecord]
<1>1. \A r \in Queues : QueuesAfter(qs, call)[r] \in RouteRecord
  BY CallOnRoute DEF Vetoed, Reappointed
<1>2. /\ DOMAIN QueuesAfter(qs, call) = Queues
      /\ QueuesAfter(qs, call) = [r \in Queues |-> QueuesAfter(qs, call)[r]]
  BY DEF QueuesAfter
<1> QED BY <1>1, <1>2

\* Storage outlives a rotation, but nothing stored can be found after it.
LEMMA CallWithdraws ==
    ASSUME SafeAssumption, NEW a \in RouteRecord, NEW b,
           Vetoed(a, b) \/ Reappointed(a, b),
           \A e \in a.pending : e.generation <= a.generation
    PROVE  \/ AuthorityIn(b) = AuthorityIn(a) /\ Standing(b) \subseteq Standing(a)
           \/ AuthorityIn(a) # Nobody /\ Standing(b) = {}
<1>1. CASE Vetoed(a, b)
  BY <1>1 DEF Vetoed, AuthorityIn, Standing, Found
<1>2. CASE Reappointed(a, b)
  <2>1. AuthorityIn(a) # Nobody
    BY <1>2 DEF Reappointed, AuthorityIn, RouteRecord, SafeAssumption
  <2>2. \A e \in b.pending : e.generation # b.generation
    <3> SUFFICES ASSUME NEW e \in a.pending PROVE e.generation # a.generation + 1
      BY <1>2 DEF Reappointed
    <3>1. e.generation \in Nat /\ a.generation \in Nat /\ e.generation <= a.generation
      BY DEF RouteRecord, Ticket
    <3> QED BY <3>1
  <2>3. Standing(b) = {}
    BY <2>2 DEF Standing, Found
  <2> QED BY <2>1, <2>3
<1> QED BY <1>1, <1>2

\* Numbers and generations survive a call.
LEMMA CallNumbered ==
    ASSUME NEW a \in RouteRecord, NEW b, NEW done,
           Vetoed(a, b) \/ Reappointed(a, b), Numbered(a, done)
    PROVE  Numbered(b, done)
<1>1. CASE Vetoed(a, b)
  BY <1>1 DEF Vetoed, Numbered
<1>2. CASE Reappointed(a, b)
  <2>1. \A e \in b.pending : e.nonce < b.nextNonce
    BY <1>2 DEF Reappointed, Numbered
  <2>2. ASSUME NEW e \in b.pending PROVE e.generation <= b.generation
    <3>1. e \in a.pending /\ e \in Ticket /\ e.generation <= a.generation
      BY <1>2 DEF Reappointed, Numbered, RouteRecord
    <3>2. e.generation \in Nat /\ a.generation \in Nat
      BY <3>1 DEF RouteRecord, Ticket
    <3> QED BY <1>2, <3>1, <3>2 DEF Reappointed
  <2> QED BY <1>2, <2>1, <2>2 DEF Reappointed, Numbered
<1> QED BY <1>1, <1>2

-----------------------------------------------------------------------------
(* A step that ends with a call of the Safe, and what came before it.      *)

\* The calling module leaves the queues as `qs'; the call does the rest.
CallStep(qs) ==
    \E call, s, m, sg :
       Succeeds(call, s, m, qs, sg) /\ queue' = QueuesAfter(qs, call)

LEMMA RoutesAfterCall ==
    ASSUME SafeAssumption, NEW qs \in [Queues -> RouteRecord], CallStep(qs),
           NEW done, \A r \in Queues : Numbered(qs[r], done[r])
    PROVE  /\ queue' \in [Queues -> RouteRecord]
           /\ \A r \in Queues :
                /\ Numbered(queue'[r], done[r])
                /\ queue'[r].delay = qs[r].delay
                /\ \/ /\ AuthorityIn(queue'[r]) = AuthorityIn(qs[r])
                      /\ Standing(queue'[r]) \subseteq Standing(qs[r])
                   \/ /\ AuthorityIn(qs[r]) # Nobody
                      /\ Standing(queue'[r]) = {}
<1> PICK call, s, m, sg : Succeeds(call, s, m, qs, sg) /\ queue' = QueuesAfter(qs, call)
  BY DEF CallStep
<1>1. queue' \in [Queues -> RouteRecord]
  BY CallKeepsRoutes
<1>2. ASSUME NEW r \in Queues
      PROVE  /\ Numbered(queue'[r], done[r])
             /\ queue'[r].delay = qs[r].delay
             /\ \/ /\ AuthorityIn(queue'[r]) = AuthorityIn(qs[r])
                   /\ Standing(queue'[r]) \subseteq Standing(qs[r])
                \/ /\ AuthorityIn(qs[r]) # Nobody
                   /\ Standing(queue'[r]) = {}
  <2>1. Vetoed(qs[r], queue'[r]) \/ Reappointed(qs[r], queue'[r])
    BY CallOnRoute
  <2>2. qs[r] \in RouteRecord /\ Numbered(qs[r], done[r])
    OBVIOUS
  <2>3. Numbered(queue'[r], done[r])
    BY <2>1, <2>2, CallNumbered
  <2>4. queue'[r].delay = qs[r].delay
    BY <2>1 DEF Vetoed, Reappointed
  <2>5. \A e \in qs[r].pending : e.generation <= qs[r].generation
    BY <2>2 DEF Numbered
  <2>6. \/ /\ AuthorityIn(queue'[r]) = AuthorityIn(qs[r])
           /\ Standing(queue'[r]) \subseteq Standing(qs[r])
        \/ /\ AuthorityIn(qs[r]) # Nobody
           /\ Standing(queue'[r]) = {}
    BY <2>1, <2>2, <2>5, CallWithdraws
  <2> QED BY <2>3, <2>4, <2>6
<1> QED BY <1>1, <1>2

\* A route that a call reaches with nothing done on it can only lose tickets.
LEMMA WithdrawsOnly ==
    ASSUME NEW r \in Queues, UNCHANGED <<now, executed[r]>>,
           queue'[r].delay = queue[r].delay,
           \/ /\ AuthorityIn(queue'[r]) = AuthorityIn(queue[r])
              /\ Standing(queue'[r]) \subseteq Standing(queue[r])
           \/ /\ AuthorityIn(queue[r]) # Nobody
              /\ Standing(queue'[r]) = {}
    PROVE  RouteStep(r)
BY DEF RouteStep, Route!Next, Route!Withdraw, Route!Withdrawn

\* Nothing happens on a route that a step does not touch.
LEMMA RouteUntouched ==
    ASSUME NEW r \in Queues, UNCHANGED <<now, queue[r], executed[r]>>
    PROVE  RouteStep(r)
BY DEF RouteStep, Route!vars

-----------------------------------------------------------------------------
(* The actions, one by one.                                                *)

\* Time passes.
LEMMA TickRoutes ==
    ASSUME RouteInv, Tick
    PROVE  RouteInv' /\ \A r \in Queues : RouteStep(r)
<1>1. RouteInv'
  BY DEF RouteInv, Tick
<1>2. ASSUME NEW r \in Queues PROVE RouteStep(r)
  BY DEF Tick, RouteStep, Route!Next, Route!Tick
<1> QED BY <1>1, <1>2

\* An authority announces an action.
LEMMA ScheduleRoutes ==
    ASSUME SafeAssumption, RouteInv,
           NEW q \in Queues, NEW p \in Principals, NEW call \in QueueCalls[q],
           Schedule(q, p, call)
    PROVE  RouteInv' /\ \A r \in Queues : RouteStep(r)
<1> DEFINE a == queue[q]
           e == Entry(a.nextNonce, call, p, a.generation, now)
           b == [a EXCEPT !.pending = @ \cup {e}, !.nextNonce = @ + 1]
<1>0. a \in RouteRecord /\ now \in Nat /\ Numbered(a, executed[q])
  BY DEF RouteInv
<1>1. e \in Ticket
  BY <1>0 DEF Entry, Ticket, RouteRecord, Announced, Queues
<1>2. queue' = [queue EXCEPT ![q] = b]
  BY <1>0 DEF Schedule, RouteRecord
<1>3. b \in RouteRecord
  <2> HIDE DEF e
  <2>1. a.pending \cup {e} \in SUBSET Ticket /\ a.nextNonce + 1 \in Nat
    BY <1>0, <1>1 DEF RouteRecord
  <2> QED BY <1>0, <2>1 DEF RouteRecord
<1>4. /\ b.pending = a.pending \cup {e} /\ b.nextNonce = a.nextNonce + 1
      /\ b.authority = a.authority /\ b.generation = a.generation
      /\ b.renounced = a.renounced /\ b.delay = a.delay
  BY <1>0 DEF RouteRecord
<1>5. /\ e.nonce = a.nextNonce /\ e.generation = a.generation
      /\ e.by = p /\ e.at = now
  BY DEF Entry
<1>6. p = a.authority /\ ~a.renounced
  BY DEF Schedule
<1> HIDE DEF b, e
<1>7. Numbered(b, executed[q])
  <2>1. a.nextNonce \in Nat /\ a.generation \in Nat
    BY <1>0 DEF RouteRecord
  <2>2. \A f \in a.pending : f.nonce < a.nextNonce + 1 /\ f.generation <= a.generation
    <3> SUFFICES ASSUME NEW f \in a.pending
                 PROVE  f.nonce < a.nextNonce + 1 /\ f.generation <= a.generation
      OBVIOUS
    <3>1. f.nonce \in Nat /\ f.nonce < a.nextNonce /\ f.generation <= a.generation
      BY <1>0 DEF RouteRecord, Ticket, Numbered
    <3> QED BY <2>1, <3>1
  <2>3. \A f \in executed[q] : f.nonce < a.nextNonce + 1
    <3> SUFFICES ASSUME NEW f \in executed[q] PROVE f.nonce < a.nextNonce + 1
      OBVIOUS
    <3>1. f.nonce \in Nat /\ f.nonce < a.nextNonce
      BY <1>0 DEF RouteInv, Ticket, Numbered
    <3> QED BY <2>1, <3>1
  <2>4. e.nonce < a.nextNonce + 1 /\ e.generation <= a.generation
    BY <1>5, <2>1
  <2> QED BY <1>4, <2>2, <2>3, <2>4 DEF Numbered
<1>8. RouteInv'
  <2>1. queue' \in [Queues -> RouteRecord]
    BY <1>2, <1>3 DEF RouteInv
  <2>2. executed' = executed /\ now' = now
    BY DEF Schedule
  <2>3. \A r \in Queues : Numbered(queue'[r], executed'[r])
    BY <1>2, <1>7, <2>2 DEF RouteInv
  <2> QED BY <2>1, <2>2, <2>3 DEF RouteInv
<1>9. ASSUME NEW r \in Queues PROVE RouteStep(r)
  <2>1. executed' = executed /\ now' = now
    BY DEF Schedule
  <2>2. CASE r # q
    <3>1. queue'[r] = queue[r]
      BY <1>2, <2>2 DEF RouteInv
    <3> QED BY <2>1, <3>1, RouteUntouched
  <2>3. CASE r = q
    <3>1. queue'[r] = b
      BY <1>2, <2>3 DEF RouteInv
    <3>2. Standing(b) = Standing(a) \cup {e}
      BY <1>4, <1>5, <1>6 DEF Standing, Found
    <3>3. AuthorityIn(b) = AuthorityIn(a) /\ AuthorityIn(a) = p
      BY <1>4, <1>6 DEF AuthorityIn
    <3>4. p # Nobody
      BY DEF SafeAssumption
    <3>5. \A f \in Standing(a) \cup executed[q] : f.nonce # e.nonce
      <4> SUFFICES ASSUME NEW f \in Standing(a) \cup executed[q] PROVE f.nonce # a.nextNonce
        BY <1>5
      <4>1. f \in a.pending \cup executed[q]
        BY DEF Standing
      <4>2. f.nonce \in Nat /\ f.nonce < a.nextNonce
        BY <1>0, <4>1 DEF RouteInv, RouteRecord, Ticket, Numbered
      <4>3. a.nextNonce \in Nat
        BY <1>0 DEF RouteRecord
      <4> QED BY <4>2, <4>3
    <3> HIDE DEF a
    <3>6. Route(r)!Announce
      BY <1>4, <1>5, <2>1, <2>3, <3>1, <3>2, <3>3, <3>4, <3>5 DEF Route!Announce, Route!New, a
    <3> QED BY <3>6 DEF RouteStep, Route!Next
  <2> QED BY <2>2, <2>3
<1> QED BY <1>8, <1>9

\* An announced action takes effect.
LEMMA ExecuteScheduledRoutes ==
    ASSUME SafeAssumption, RouteInv,
           NEW q \in Queues, NEW e \in queue[q].pending, ExecuteScheduled(q, e)
    PROVE  RouteInv' /\ \A r \in Queues : RouteStep(r)
<1> DEFINE a == queue[q]
           b == Unqueue(a, e)
           qs == [queue EXCEPT ![q] = Unqueue(@, e)]
<1>0. /\ a \in RouteRecord /\ Numbered(a, executed[q]) /\ e \in Ticket
      /\ queue \in [Queues -> RouteRecord] /\ executed \in [Queues -> SUBSET Ticket]
  BY DEF RouteInv, RouteRecord
<1>1. /\ b.pending = a.pending \ {e} /\ b.nextNonce = a.nextNonce
      /\ b.authority = a.authority /\ b.generation = a.generation
      /\ b.renounced = a.renounced /\ b.delay = a.delay /\ b \in RouteRecord
  BY <1>0 DEF Unqueue, RouteRecord
<1>2. qs = [queue EXCEPT ![q] = b]
  BY <1>0
<1> HIDE DEF b
<1>3. qs \in [Queues -> RouteRecord] /\ qs[q] = b
  BY <1>0, <1>1, <1>2
<1>4. /\ executed' = [executed EXCEPT ![q] = @ \cup {e}] /\ now' = now
      /\ executed' \in [Queues -> SUBSET Ticket]
  BY <1>0 DEF ExecuteScheduled
<1>5. CallStep(qs)
  BY DEF ExecuteScheduled, ExecFromModule, CallStep
<1>6. \A r \in Queues : Numbered(qs[r], executed'[r])
  <2>1. Numbered(b, executed[q] \cup {e})
    BY <1>0, <1>1 DEF Numbered
  <2>2. executed'[q] = executed[q] \cup {e}
    BY <1>0, <1>4
  <2>3. ASSUME NEW r \in Queues, r # q PROVE Numbered(qs[r], executed'[r])
    BY <1>2, <1>4, <2>3 DEF RouteInv
  <2> QED BY <1>3, <2>1, <2>2, <2>3
<1> HIDE DEF qs
<1>7. /\ queue' \in [Queues -> RouteRecord]
      /\ \A r \in Queues :
           /\ Numbered(queue'[r], executed'[r])
           /\ queue'[r].delay = qs[r].delay
           /\ \/ /\ AuthorityIn(queue'[r]) = AuthorityIn(qs[r])
                 /\ Standing(queue'[r]) \subseteq Standing(qs[r])
              \/ /\ AuthorityIn(qs[r]) # Nobody
                 /\ Standing(queue'[r]) = {}
  BY <1>3, <1>5, <1>6, RoutesAfterCall
<1>8. RouteInv'
  BY <1>4, <1>7 DEF RouteInv
<1>9. ASSUME NEW r \in Queues PROVE RouteStep(r)
  <2>1. CASE r # q
    <3>1. qs[r] = queue[r] /\ executed'[r] = executed[r]
      BY <1>2, <1>4, <2>1, <1>0
    <3> QED BY <1>4, <1>7, <3>1, WithdrawsOnly
  <2>2. CASE r = q
    <3>1. e \in Standing(a)
      BY DEF ExecuteScheduled, Standing
    <3>2. Standing(b) \subseteq Standing(a) \ {e} /\ AuthorityIn(b) = AuthorityIn(a)
      BY <1>1 DEF Standing, Found, AuthorityIn
    <3>3. executed'[q] = executed[q] \cup {e}
      BY <1>0, <1>4
    <3>4. now >= e.at + a.delay /\ now <= e.at + a.delay + EXECUTION_WINDOW
      BY DEF ExecuteScheduled, ReadyAt
    <3>5. queue'[q].delay = a.delay
      BY <1>1, <1>3, <1>7
    <3>6. \/ /\ AuthorityIn(queue'[q]) = AuthorityIn(a)
             /\ Standing(queue'[q]) \subseteq Standing(a) \ {e}
          \/ /\ AuthorityIn(a) # Nobody
             /\ Standing(queue'[q]) = {}
      BY <1>3, <1>7, <3>2
    <3>7. Route(r)!Withdrawn(Standing(a) \ {e})
      BY <2>2, <3>6 DEF Route!Withdrawn
    <3>8. Route(r)!TakeEffect
      BY <1>4, <2>2, <3>1, <3>3, <3>4, <3>5, <3>7 DEF Route!TakeEffect
    <3> QED BY <3>8 DEF RouteStep, Route!Next
  <2> QED BY <2>1, <2>2
<1> QED BY <1>8, <1>9

\* A parent without delay acts at once.
LEMMA ExecuteNowRoutes ==
    ASSUME SafeAssumption, RouteInv,
           NEW p \in Principals, NEW call \in QueueCalls["parent"],
           ExecuteNow(p, call)
    PROVE  RouteInv' /\ \A r \in Queues : RouteStep(r)
<1> DEFINE q == "parent"
           a == queue[q]
           e == Entry(a.nextNonce, call, p, a.generation, now)
           b == [a EXCEPT !.nextNonce = @ + 1]
           qs == [queue EXCEPT !["parent"].nextNonce = @ + 1]
<1>0. /\ q \in Queues /\ a \in RouteRecord /\ Numbered(a, executed[q]) /\ now \in Nat
      /\ queue \in [Queues -> RouteRecord] /\ executed \in [Queues -> SUBSET Ticket]
  BY DEF RouteInv, Queues
<1>1. /\ b.pending = a.pending /\ b.nextNonce = a.nextNonce + 1
      /\ b.authority = a.authority /\ b.generation = a.generation
      /\ b.renounced = a.renounced /\ b.delay = a.delay
  BY <1>0 DEF RouteRecord
<1>2. a.nextNonce \in Nat /\ a.nextNonce + 1 \in Nat
  BY <1>0 DEF RouteRecord
<1>3. b \in RouteRecord
  BY <1>0, <1>2 DEF RouteRecord
<1>4. qs = [queue EXCEPT ![q] = b]
  BY <1>0
<1> HIDE DEF b
<1>5. e \in Ticket
  BY <1>0 DEF Entry, Ticket, RouteRecord, Announced
<1>6. e.nonce = a.nextNonce /\ e.by = p /\ e.at = now
  BY DEF Entry
<1>7. /\ p = a.authority /\ ~a.renounced /\ a.delay = 0 /\ now' = now
      /\ executed' = [executed EXCEPT ![q] = @ \cup {e}]
  BY DEF ExecuteNow
<1> HIDE DEF e
<1>8. qs \in [Queues -> RouteRecord] /\ qs[q] = b
  BY <1>0, <1>3, <1>4
<1>9. CallStep(qs)
  BY DEF ExecuteNow, ExecFromModule, CallStep
<1>10. executed' \in [Queues -> SUBSET Ticket] /\ executed'[q] = executed[q] \cup {e}
  BY <1>0, <1>5, <1>7
<1>11. \A r \in Queues : Numbered(qs[r], executed'[r])
  <2>1. ASSUME NEW f \in a.pending PROVE f.nonce < b.nextNonce /\ f.generation <= b.generation
    <3>1. f.nonce \in Nat /\ f.nonce < a.nextNonce /\ f.generation <= a.generation
      BY <1>0 DEF RouteRecord, Ticket, Numbered
    <3> QED BY <1>1, <1>2, <3>1
  <2>2. ASSUME NEW f \in executed[q] \cup {e} PROVE f.nonce < b.nextNonce
    <3>1. CASE f = e
      BY <1>1, <1>2, <1>6, <3>1
    <3>2. CASE f \in executed[q]
      <4>1. f.nonce \in Nat /\ f.nonce < a.nextNonce
        BY <1>0, <3>2 DEF Ticket, Numbered
      <4> QED BY <1>1, <1>2, <4>1
    <3> QED BY <3>1, <3>2
  <2>3. Numbered(b, executed'[q])
    BY <1>1, <1>10, <2>1, <2>2 DEF Numbered
  <2>4. ASSUME NEW r \in Queues, r # q PROVE Numbered(qs[r], executed'[r])
    BY <1>0, <1>4, <1>7, <2>4 DEF RouteInv
  <2> QED BY <1>8, <2>3, <2>4
<1> HIDE DEF qs
<1>12. /\ queue' \in [Queues -> RouteRecord]
       /\ \A r \in Queues :
            /\ Numbered(queue'[r], executed'[r])
            /\ queue'[r].delay = qs[r].delay
            /\ \/ /\ AuthorityIn(queue'[r]) = AuthorityIn(qs[r])
                  /\ Standing(queue'[r]) \subseteq Standing(qs[r])
               \/ /\ AuthorityIn(qs[r]) # Nobody
                  /\ Standing(queue'[r]) = {}
  BY <1>8, <1>9, <1>11, RoutesAfterCall
<1>13. RouteInv'
  BY <1>0, <1>7, <1>10, <1>12 DEF RouteInv
<1>14. ASSUME NEW r \in Queues PROVE RouteStep(r)
  <2>1. CASE r # q
    <3>1. qs[r] = queue[r] /\ executed'[r] = executed[r]
      BY <1>0, <1>4, <1>7, <2>1
    <3> QED BY <1>7, <1>12, <3>1, WithdrawsOnly
  <2>2. CASE r = q
    <3>1. Standing(b) = Standing(a) /\ AuthorityIn(b) = AuthorityIn(a)
      BY <1>1 DEF Standing, Found, AuthorityIn
    <3>2. AuthorityIn(a) = p /\ p # Nobody
      BY <1>7 DEF AuthorityIn, SafeAssumption
    <3>3. queue'[q].delay = a.delay
      BY <1>0, <1>1, <1>8, <1>12
    <3>4. Route(r)!Withdrawn(Standing(a))
      BY <1>0, <1>8, <1>12, <2>2, <3>1 DEF Route!Withdrawn
    <3>5. \A f \in Standing(a) \cup executed[q] : f.nonce # e.nonce
      <4> SUFFICES ASSUME NEW f \in Standing(a) \cup executed[q] PROVE f.nonce # a.nextNonce
        BY <1>6
      <4>1. f \in a.pending \cup executed[q]
        BY DEF Standing
      <4>2. f.nonce \in Nat /\ f.nonce < a.nextNonce
        BY <1>0, <4>1 DEF RouteRecord, Ticket, Numbered
      <4> QED BY <1>2, <4>2
    <3>6. Route(r)!New(e)
      BY <1>6, <2>2, <3>2, <3>5 DEF Route!New
    <3>7. Route(r)!ActAtOnce
      BY <1>7, <1>10, <2>2, <3>3, <3>4, <3>6 DEF Route!ActAtOnce
    <3> QED BY <3>7 DEF RouteStep, Route!Next
  <2> QED BY <2>1, <2>2
<1> QED BY <1>13, <1>14

\* An authority withdraws one of its actions, or one of a predecessor.
LEMMA CancelRoutes ==
    ASSUME SafeAssumption, RouteInv,
           NEW q \in Queues, NEW p, NEW e \in queue[q].pending, Cancel(q, p, e)
    PROVE  RouteInv' /\ \A r \in Queues : RouteStep(r)
<1> DEFINE a == queue[q]
           b == Unqueue(a, e)
<1>0. /\ a \in RouteRecord /\ Numbered(a, executed[q])
      /\ queue \in [Queues -> RouteRecord]
  BY DEF RouteInv
<1>1. /\ b.pending = a.pending \ {e} /\ b.nextNonce = a.nextNonce
      /\ b.authority = a.authority /\ b.generation = a.generation
      /\ b.renounced = a.renounced /\ b.delay = a.delay /\ b \in RouteRecord
  BY <1>0 DEF Unqueue, RouteRecord
<1>2. queue' = [queue EXCEPT ![q] = b] /\ now' = now /\ executed' = executed
  BY <1>0 DEF Cancel
<1> HIDE DEF b
<1>3. queue' \in [Queues -> RouteRecord] /\ queue'[q] = b
  BY <1>0, <1>1, <1>2
<1>4. Numbered(b, executed[q])
  BY <1>0, <1>1 DEF Numbered
<1>5. RouteInv'
  <2>1. \A r \in Queues : Numbered(queue'[r], executed'[r])
    BY <1>2, <1>3, <1>4 DEF RouteInv
  <2> QED BY <1>2, <1>3, <2>1 DEF RouteInv
<1>6. ASSUME NEW r \in Queues PROVE RouteStep(r)
  <2>1. CASE r # q
    BY <1>0, <1>2, <2>1, RouteUntouched
  <2>2. CASE r = q
    <3>1. Standing(b) \subseteq Standing(a) /\ AuthorityIn(b) = AuthorityIn(a)
      BY <1>1 DEF Standing, Found, AuthorityIn
    <3> QED BY <1>1, <1>2, <1>3, <2>2, <3>1, WithdrawsOnly
  <2> QED BY <2>1, <2>2
<1> QED BY <1>5, <1>6

\* The parent surrenders its power.
LEMMA RenounceRoutes ==
    ASSUME SafeAssumption, RouteInv, NEW p, Renounce(p)
    PROVE  RouteInv' /\ \A r \in Queues : RouteStep(r)
<1> DEFINE q == "parent"
           a == queue[q]
           b == [a EXCEPT !.renounced = TRUE]
<1>0. /\ q \in Queues /\ a \in RouteRecord /\ Numbered(a, executed[q])
      /\ queue \in [Queues -> RouteRecord]
  BY DEF RouteInv, Queues
<1>1. /\ b.pending = a.pending /\ b.nextNonce = a.nextNonce
      /\ b.authority = a.authority /\ b.generation = a.generation
      /\ b.renounced = TRUE /\ b.delay = a.delay /\ b \in RouteRecord
  BY <1>0 DEF RouteRecord
<1>2. queue' = [queue EXCEPT ![q] = b] /\ now' = now /\ executed' = executed
  BY <1>0 DEF Renounce
<1> HIDE DEF b
<1>3. queue' \in [Queues -> RouteRecord] /\ queue'[q] = b
  BY <1>0, <1>1, <1>2
<1>4. Numbered(b, executed[q])
  BY <1>0, <1>1 DEF Numbered
<1>5. RouteInv'
  <2>1. \A r \in Queues : Numbered(queue'[r], executed'[r])
    BY <1>2, <1>3, <1>4 DEF RouteInv
  <2> QED BY <1>2, <1>3, <2>1 DEF RouteInv
<1>6. ASSUME NEW r \in Queues PROVE RouteStep(r)
  <2>1. CASE r # q
    BY <1>0, <1>2, <2>1, RouteUntouched
  <2>2. CASE r = q
    <3>1. Standing(b) = {}
      BY <1>1 DEF Standing
    <3>2. AuthorityIn(a) # Nobody
      BY <1>0 DEF Renounce, AuthorityIn, RouteRecord, SafeAssumption
    <3> QED BY <1>1, <1>2, <1>3, <2>2, <3>1, <3>2, WithdrawsOnly
  <2> QED BY <2>1, <2>2
<1> QED BY <1>5, <1>6

\* A passed proposal can veto and appoint on both routes.
LEMMA MembersDecideRoutes ==
    ASSUME SafeAssumption, RouteInv, NEW call, MembersDecide(call)
    PROVE  RouteInv' /\ \A r \in Queues : RouteStep(r)
<1>1. queue \in [Queues -> RouteRecord] /\ \A r \in Queues : Numbered(queue[r], executed[r])
  BY DEF RouteInv
<1>2. CallStep(queue) /\ now' = now /\ executed' = executed
  BY DEF MembersDecide, ExecFromModule, CallStep
<1>3. /\ queue' \in [Queues -> RouteRecord]
      /\ \A r \in Queues :
           /\ Numbered(queue'[r], executed[r])
           /\ queue'[r].delay = queue[r].delay
           /\ \/ /\ AuthorityIn(queue'[r]) = AuthorityIn(queue[r])
                 /\ Standing(queue'[r]) \subseteq Standing(queue[r])
              \/ /\ AuthorityIn(queue[r]) # Nobody
                 /\ Standing(queue'[r]) = {}
  BY <1>1, <1>2, RoutesAfterCall
<1>4. RouteInv'
  BY <1>2, <1>3 DEF RouteInv
<1>5. ASSUME NEW r \in Queues PROVE RouteStep(r)
  BY <1>2, <1>3, WithdrawsOnly
<1> QED BY <1>4, <1>5

\* The signer module leaves the routes alone.
LEMMA OtherStepsRoutes ==
    ASSUME RouteInv, UNCHANGED <<now, queue, executed>>
    PROVE  RouteInv' /\ \A r \in Queues : RouteStep(r)
BY RouteUntouched DEF RouteInv

LEMMA StepRoutes ==
    ASSUME SafeAssumption, RouteInv, [Next]_vars
    PROVE  RouteInv' /\ \A r \in Queues : RouteStep(r)
<1>1. CASE Tick
  BY <1>1, TickRoutes
<1>2. CASE \E q \in Queues, p \in Principals :
              \E call \in QueueCalls[q] : Schedule(q, p, call)
  BY <1>2, ScheduleRoutes
<1>3. CASE \E q \in Queues, p \in Principals : \E e \in queue[q].pending : Cancel(q, p, e)
  BY <1>3, CancelRoutes
<1>4. CASE \E q \in Queues : \E e \in queue[q].pending : ExecuteScheduled(q, e)
  BY <1>4, ExecuteScheduledRoutes
<1>5. CASE \E p \in Principals, call \in QueueCalls["parent"] : ExecuteNow(p, call)
  BY <1>5, ExecuteNowRoutes
<1>6. CASE \E p \in Principals : Renounce(p)
  BY <1>6, RenounceRoutes
<1>7. CASE \E call \in MemberCalls : MembersDecide(call)
  BY <1>7, MembersDecideRoutes
<1>8. CASE \E c, a, desired, target : SubmitSignerProof(c, a, desired, target)
  <2>1. UNCHANGED <<now, queue, executed>>
    BY <1>8 DEF SubmitSignerProof
  <2> QED BY <2>1, OtherStepsRoutes
<1>9. CASE UNCHANGED vars
  <2>1. UNCHANGED <<now, queue, executed>>
    BY <1>9 DEF vars
  <2> QED BY <2>1, OtherStepsRoutes
<1> QED BY <1>1, <1>2, <1>3, <1>4, <1>5, <1>6, <1>7, <1>8, <1>9 DEF Next

LEMMA InitRoutes ==
    ASSUME SafeAssumption, Init
    PROVE  RouteInv /\ \A r \in Queues : Route(r)!Init
<1> PICK p \in Principals, rd \in RecoveryDelays, d \in ParentDelays :
      queue = [q \in Queues |-> NewQueue(p, IF q = "parent" THEN d ELSE rd)]
  BY DEF Init
<1>1. \A r \in Queues : queue[r] \in RouteRecord /\ queue[r].pending = {}
  BY DEF NewQueue, RouteRecord, SafeAssumption
<1>2. \A r \in Queues : executed[r] = {} /\ executed \in [Queues -> SUBSET Ticket] /\ now = 0
  BY DEF Init
<1>3. RouteInv
  BY <1>1, <1>2 DEF Init, RouteInv, Numbered
<1>4. \A r \in Queues : Route(r)!Init
  BY <1>1, <1>2 DEF Route!Init, Standing
<1> QED BY <1>3, <1>4

\* What makes the generations work: no stored action is of a generation
\* to come, and no number is used twice.
THEOREM RoutesInvariant == Spec => []RouteInv
<1> USE SafeAssumption
<1>1. Init => RouteInv
  BY InitRoutes
<1>2. RouteInv /\ [Next]_vars => RouteInv'
  BY StepRoutes
<1> QED BY <1>1, <1>2, PTL DEF Spec

\* DelayedRecoveryModule and ParentAuthorityModule each keep the promise of
\* Timelock beside the other, member governance and the signer module.
THEOREM SafeImplementsTimelock == Spec => ImplementsTimelock
<1> USE SafeAssumption
<1>1. Init => Recovery!Init /\ Parent!Init
  BY InitRoutes DEF Queues, Route!Init, Recovery!Init, Parent!Init
<1>2. RouteInv /\ [Next]_vars => [Recovery!Next]_Recovery!vars
  <2> SUFFICES ASSUME RouteInv, [Next]_vars PROVE [Recovery!Next]_Recovery!vars
    OBVIOUS
  <2>1. RouteStep("recovery")
    BY StepRoutes DEF Queues
  <2> QED BY <2>1
        DEF RouteStep, Route!vars, Recovery!vars, Route!Next, Recovery!Next,
            Route!Tick, Recovery!Tick, Route!Announce, Recovery!Announce,
            Route!TakeEffect, Recovery!TakeEffect, Route!ActAtOnce, Recovery!ActAtOnce,
            Route!Withdraw, Recovery!Withdraw, Route!New, Recovery!New,
            Route!Withdrawn, Recovery!Withdrawn
<1>3. RouteInv /\ [Next]_vars => [Parent!Next]_Parent!vars
  <2> SUFFICES ASSUME RouteInv, [Next]_vars PROVE [Parent!Next]_Parent!vars
    OBVIOUS
  <2>1. RouteStep("parent")
    BY StepRoutes DEF Queues
  <2> QED BY <2>1
        DEF RouteStep, Route!vars, Parent!vars, Route!Next, Parent!Next,
            Route!Tick, Parent!Tick, Route!Announce, Parent!Announce,
            Route!TakeEffect, Parent!TakeEffect, Route!ActAtOnce, Parent!ActAtOnce,
            Route!Withdraw, Parent!Withdraw, Route!New, Parent!New,
            Route!Withdrawn, Parent!Withdrawn
<1> QED BY <1>1, <1>2, <1>3, RoutesInvariant, PTL
      DEF Spec, ImplementsTimelock, Recovery!Spec, Parent!Spec

-----------------------------------------------------------------------------
(* The signer module's high-water marks.                                   *)

SignerRecord ==
    [accumulator : DOMAIN Checkpoints, source : DOMAIN ActivityTimes,
     maxInactive : Nat, paused : BOOLEAN, initialised : BOOLEAN,
     lastCheckpoint : Nat, lastActivity : Nat]

\* A module that has applied a rotation has an accumulator with checkpoints.
MarkInv ==
    /\ now \in Nat
    /\ signers \in SignerRecord
    /\ signers.initialised => Taken(Checkpoints[signers.accumulator]) # {}

MarkStep ==
    signers.initialised =>
        /\ signers'.initialised
        /\ signers'.lastCheckpoint >= signers.lastCheckpoint
        /\ signers'.source = signers.source =>
             signers'.lastActivity >= signers.lastActivity

LEMMA TakenCounted ==
    ASSUME SafeAssumption, NEW acc \in DOMAIN Checkpoints, CheckpointCount(acc) = 0
    PROVE  Taken(Checkpoints[acc]) = {}
<1>1. Checkpoints[acc] \in Seq(Nat)
  BY DEF SafeAssumption
<1>2. DOMAIN Checkpoints[acc] = 1..Len(Checkpoints[acc]) /\ Len(Checkpoints[acc]) \in Nat
  BY <1>1
<1>3. IsFiniteSet(DOMAIN Checkpoints[acc])
  <2>1. 1 \in Int /\ Len(Checkpoints[acc]) \in Int
    BY <1>2
  <2>2. IsFiniteSet(1..Len(Checkpoints[acc]))
    BY <2>1, FS_Interval
  <2> QED BY <1>2, <2>2
<1>4. IsFiniteSet(Taken(Checkpoints[acc]))
  BY <1>3, FS_Subset DEF Taken
<1> QED BY <1>4, FS_EmptySet DEF CheckpointCount

\* A call of the Safe can only forget a mark that stands for nothing.
LEMMA CallKeepsMarks ==
    ASSUME SafeAssumption, MarkInv, UNCHANGED now,
           NEW call, NEW s, NEW m, NEW qs, Succeeds(call, s, m, qs, signers),
           signers' = SignersAfter(signers, call)
    PROVE  MarkInv' /\ MarkStep
<1>0. signers \in SignerRecord /\ now' = now /\ now \in Nat
  BY DEF MarkInv
<1>1. CASE call.op = "setPaused"
  <2>1. call.to \in BOOLEAN /\ signers' = [signers EXCEPT !.paused = call.to]
    BY <1>1 DEF SignersAfter, Succeeds, Accepted
  <2>2. /\ signers' \in SignerRecord
        /\ signers'.initialised = signers.initialised
        /\ signers'.accumulator = signers.accumulator
        /\ signers'.lastCheckpoint = signers.lastCheckpoint
        /\ signers'.lastActivity = signers.lastActivity
    BY <1>0, <2>1 DEF SignerRecord
  <2> QED BY <1>0, <2>2 DEF MarkInv, MarkStep, Taken, SignerRecord
<1>2. CASE call.op = "setPolicy"
  <2>1. call.to \in Nat /\ signers' = [signers EXCEPT !.maxInactive = call.to]
    BY <1>2 DEF SignersAfter, Succeeds, Accepted
  <2>2. /\ signers' \in SignerRecord
        /\ signers'.initialised = signers.initialised
        /\ signers'.accumulator = signers.accumulator
        /\ signers'.lastCheckpoint = signers.lastCheckpoint
        /\ signers'.lastActivity = signers.lastActivity
    BY <1>0, <2>1 DEF SignerRecord
  <2> QED BY <1>0, <2>2 DEF MarkInv, MarkStep, Taken, SignerRecord
<1>3. CASE call.op = "setSource"
  <2>1. call.to \in DOMAIN ActivityTimes /\ signers' = SetActivitySource(signers, call.to)
    BY <1>3 DEF SignersAfter, Succeeds, Accepted
  <2> DEFINE seen == IF call.to = signers.source THEN signers.lastActivity ELSE 0
  <2>3. seen \in Nat
    BY <1>0 DEF SignerRecord
  <2>4. signers' = [signers EXCEPT !.source = call.to, !.lastActivity = seen]
    BY <1>0, <2>1 DEF SetActivitySource, SignerRecord
  <2> HIDE DEF seen
  <2>2. /\ signers' \in SignerRecord
        /\ signers'.source = call.to
        /\ signers'.initialised = signers.initialised
        /\ signers'.accumulator = signers.accumulator
        /\ signers'.lastCheckpoint = signers.lastCheckpoint
        /\ signers'.lastActivity = seen
    BY <1>0, <2>1, <2>3, <2>4 DEF SignerRecord
  <2>5. call.to = signers.source => signers'.lastActivity = signers.lastActivity
    BY <2>2 DEF seen
  <2> QED BY <1>0, <2>2, <2>5 DEF MarkInv, MarkStep, Taken, SignerRecord
<1>4. CASE call.op = "setAccumulator"
  <2>1. /\ call.to \in DOMAIN Checkpoints /\ RotationUnlocked(signers, call.to)
        /\ signers' = SetAccumulator(signers, call.to)
    BY <1>4 DEF SignersAfter, Succeeds, Accepted
  <2>2. CASE call.to = signers.accumulator
    <3>1. signers' = signers
      BY <2>1, <2>2 DEF SetAccumulator
    <3> QED BY <1>0, <3>1 DEF MarkInv, MarkStep, Taken, SignerRecord
  <2>3. CASE call.to # signers.accumulator
    <3>1. CheckpointCount(signers.accumulator) = 0
      BY <2>1, <2>3 DEF RotationUnlocked
    <3>2. ~signers.initialised
      BY <1>0, <3>1, TakenCounted DEF MarkInv, SignerRecord
    <3>4. signers' = [signers EXCEPT !.accumulator = call.to, !.initialised = FALSE,
                                     !.lastCheckpoint = 0, !.lastActivity = 0]
      BY <2>1, <2>3 DEF SetAccumulator
    <3>5. signers \in SignerRecord /\ call.to \in DOMAIN Checkpoints /\ 0 \in Nat
      BY <1>0, <2>1
    <3>3. signers' \in SignerRecord /\ signers'.initialised = FALSE
      <4> DEFINE acc == call.to
      <4>1. acc \in DOMAIN Checkpoints
        BY <3>5
      <4>2. signers' = [signers EXCEPT !.accumulator = acc, !.initialised = FALSE,
                                       !.lastCheckpoint = 0, !.lastActivity = 0]
        BY <3>4
      <4> HIDE DEF acc
      <4> QED BY ONLY <3>5, <4>1, <4>2 DEF SignerRecord
    <3> QED BY <1>0, <3>2, <3>3 DEF MarkInv, MarkStep
  <2> QED BY <2>2, <2>3
<1>5. CASE call.op \notin {"setPaused", "setPolicy", "setSource", "setAccumulator"}
  <2>1. signers' = signers
    BY <1>5 DEF SignersAfter
  <2> QED BY <1>0, <2>1 DEF MarkInv, MarkStep, Taken, SignerRecord
<1> QED BY <1>1, <1>2, <1>3, <1>4, <1>5

LEMMA SubmitKeepsMarks ==
    ASSUME SafeAssumption, MarkInv, NEW c \in Pinned, NEW a \in 0..MaxTime,
           NEW desired, NEW target, SubmitSignerProof(c, a, desired, target)
    PROVE  MarkInv' /\ MarkStep
<1>1. /\ signers' = [signers EXCEPT !.lastCheckpoint = c, !.lastActivity = a,
                                    !.initialised = TRUE]
      /\ now' = now /\ now \in Nat /\ signers \in SignerRecord
      /\ c \in Nat /\ a \in Nat
  BY DEF SubmitSignerProof, MarkInv, SafeAssumption
<1>2. /\ signers' \in SignerRecord /\ signers'.initialised
      /\ signers'.accumulator = signers.accumulator
      /\ signers'.lastCheckpoint = c /\ signers'.lastActivity = a
  BY <1>1 DEF SignerRecord
<1>3. Taken(Checkpoints[signers.accumulator]) # {}
  BY DEF SubmitSignerProof
<1>4. MarkInv'
  BY <1>1, <1>2, <1>3 DEF MarkInv, Taken
<1>5. MarkStep
  BY <1>1, <1>2 DEF SubmitSignerProof, MarkStep, SignerRecord
<1> QED BY <1>4, <1>5

\* Checkpoints stay taken as time goes on.
LEMMA TickKeepsMarks ==
    ASSUME SafeAssumption, MarkInv, Tick
    PROVE  MarkInv' /\ MarkStep
<1>1. signers' = signers /\ now' = now + 1 /\ now \in Nat /\ signers \in SignerRecord
  BY DEF Tick, MarkInv
<1>2. ASSUME signers.initialised
      PROVE  \E i \in DOMAIN Checkpoints[signers.accumulator] :
                Checkpoints[signers.accumulator][i] <= now + 1
  <2>1. PICK i \in Taken(Checkpoints[signers.accumulator]) : TRUE
    BY <1>2 DEF MarkInv
  <2>2. /\ i \in DOMAIN Checkpoints[signers.accumulator]
        /\ Checkpoints[signers.accumulator][i] <= now
    BY <2>1 DEF Taken
  <2>3. Checkpoints[signers.accumulator] \in Seq(Nat)
    BY <1>1 DEF SafeAssumption, SignerRecord
  <2>4. Checkpoints[signers.accumulator][i] \in Nat
    BY <2>2, <2>3
  <2>5. Checkpoints[signers.accumulator][i] <= now + 1
    BY <1>1, <2>2, <2>4
  <2> QED BY <2>2, <2>5
<1>3. MarkInv'
  BY <1>1, <1>2 DEF MarkInv, Taken
<1> QED BY <1>1, <1>3 DEF MarkStep, SignerRecord

LEMMA StepKeepsMarks ==
    ASSUME SafeAssumption, MarkInv, [Next]_vars
    PROVE  MarkInv' /\ MarkStep
<1> DEFINE Called == \E call, s, m, qs : /\ Succeeds(call, s, m, qs, signers)
                                         /\ signers' = SignersAfter(signers, call)
<1>0. signers' = signers /\ now' = now => MarkInv' /\ MarkStep
  BY DEF MarkInv, MarkStep, Taken, SignerRecord
<1>1. Called /\ now' = now => MarkInv' /\ MarkStep
  BY CallKeepsMarks
<1>2. CASE Tick
  BY <1>2, TickKeepsMarks
<1>3. CASE \E q \in Queues, p \in Principals :
              \/ \E call \in QueueCalls[q] : Schedule(q, p, call)
              \/ \E e \in queue[q].pending : Cancel(q, p, e)
  BY <1>0, <1>3 DEF Schedule, Cancel
<1>4. CASE \E q \in Queues : \E e \in queue[q].pending : ExecuteScheduled(q, e)
  BY <1>1, <1>4 DEF ExecuteScheduled, ExecFromModule
<1>5. CASE \E p \in Principals, call \in QueueCalls["parent"] : ExecuteNow(p, call)
  BY <1>1, <1>5 DEF ExecuteNow, ExecFromModule
<1>6. CASE \E p \in Principals : Renounce(p)
  BY <1>0, <1>6 DEF Renounce
<1>7. CASE \E call \in MemberCalls : MembersDecide(call)
  BY <1>1, <1>7 DEF MembersDecide, ExecFromModule
<1>8. CASE \E c \in Pinned, a \in 0..MaxTime : \E desired, target :
              SubmitSignerProof(c, a, desired, target)
  BY <1>8, SubmitKeepsMarks
<1>9. CASE UNCHANGED vars
  BY <1>0, <1>9 DEF vars
<1> QED BY <1>2, <1>3, <1>4, <1>5, <1>6, <1>7, <1>8, <1>9 DEF Next

LEMMA InitMarks ==
    ASSUME SafeAssumption, Init
    PROVE  MarkInv
<1> PICK mi \in Policies :
      signers = [accumulator |-> FirstAccumulator, source |-> FirstSource,
                 maxInactive |-> mi, paused |-> FALSE, initialised |-> FALSE,
                 lastCheckpoint |-> 0, lastActivity |-> 0]
  BY DEF Init
<1> QED BY DEF Init, MarkInv, SignerRecord, SafeAssumption

\* An older signer proof never undoes a newer rotation, whatever the members
\* and the other modules re-point in between: setAccumulator, which clears
\* the marks, is locked once there is a checkpoint.
THEOREM HighWaterMarksHold == Spec => HighWaterHolds
<1> USE SafeAssumption
<1>1. Init => MarkInv
  BY InitMarks
<1>2. MarkInv /\ [Next]_vars => MarkInv' /\ MarkStep
  BY StepKeepsMarks
<1>3. MarkStep =>
        (signers.initialised =>
           /\ signers'.initialised
           /\ signers'.lastCheckpoint >= signers.lastCheckpoint
           /\ signers'.source = signers.source =>
                signers'.lastActivity >= signers.lastActivity)
  BY DEF MarkStep
<1> QED BY <1>1, <1>2, <1>3, PTL DEF Spec, HighWaterHolds

-----------------------------------------------------------------------------
(***************************************************************************)
(* Lists of owners.                                                        *)
(***************************************************************************)
\* Lists without repetition.
Listing(V) == {l \in Seq(V) : \A i, j \in DOMAIN l : l[i] = l[j] => i = j}

\* A list without repetition is as long as its set of members is large.
LEMMA ListLength ==
    ASSUME NEW V, NEW l \in Listing(V)
    PROVE  IsFiniteSet(ToSet(l)) /\ Cardinality(ToSet(l)) = Len(l)
<1>1. Len(l) \in Nat /\ DOMAIN l = 1..Len(l) /\ l \in [1..Len(l) -> ToSet(l)]
  BY DEF Listing, ToSet
<1>2. l \in Bijection(1..Len(l), ToSet(l))
  BY <1>1 DEF Bijection, Injection, Surjection, IsInjective, Listing, ToSet
<1>3. ExistsBijection(1..Len(l), ToSet(l))
  BY <1>2 DEF ExistsBijection
<1>4. IsFiniteSet(1..Len(l)) /\ Cardinality(1..Len(l)) = Len(l)
  BY <1>1, FS_Interval
<1> QED
  BY <1>3, <1>4, FS_Bijection

Follows(h, n, b, step) ==
    \A i \in 0..n : h[i] = IF i = 0 THEN b ELSE step[i, h[i - 1]]

\* A value and a step function of type X define a recursion.
LEMMA RecursionExists ==
    ASSUME NEW n \in Nat, NEW X, NEW b \in X, NEW step \in [(1..n) \X X -> X]
    PROVE  \E h \in [0..n -> X] : Follows(h, n, b, step)
<1> DEFINE Upto(m, h) == \A i \in 0..m : h[i] = IF i = 0 THEN b ELSE step[i, h[i - 1]]
           P == {m \in Nat : m <= n => \E h \in [0..m -> X] : Upto(m, h)}
<1>1. 0 \in P
  <2>1. [i \in 0..0 |-> b] \in [0..0 -> X] /\ Upto(0, [i \in 0..0 |-> b])
    OBVIOUS
  <2> HIDE DEF Upto
  <2> QED
    BY <2>1
<1>2. ASSUME NEW m \in P PROVE m + 1 \in P
  <2>0. m \in Nat
    BY <1>2
  <2>1. m <= n => \E h \in [0..m -> X] : Upto(m, h)
    <3> HIDE DEF Upto
    <3> QED
      BY <1>2
  <2> HIDE DEF P
  <2>2. ASSUME m + 1 <= n PROVE \E h \in [0..(m + 1) -> X] : Upto(m + 1, h)
    <3>1. m <= n /\ m + 1 \in 1..n /\ 0 \in 0..m /\ m \in 0..m
      BY <2>0, <2>2
    <3>2. PICK g \in [0..m -> X] : Upto(m, g)
      <4> HIDE DEF Upto
      <4> QED
        BY <2>1, <3>1
    <3> DEFINE h == [i \in 0..(m + 1) |-> IF i = m + 1 THEN step[m + 1, g[m]] ELSE g[i]]
    <3>3. step[m + 1, g[m]] \in X
      BY <3>1
    <3>4. h \in [0..(m + 1) -> X]
      <4>1. ASSUME NEW i \in 0..(m + 1), i # m + 1 PROVE i \in 0..m
        BY <2>0, <4>1
      <4> QED
        BY <3>3, <4>1
    <3>5. ASSUME NEW i \in 0..(m + 1)
          PROVE  h[i] = IF i = 0 THEN b ELSE step[i, h[i - 1]]
      <4>1. CASE i = m + 1
        <5>1. i # 0 /\ i - 1 = m /\ m \in 0..(m + 1) /\ m # m + 1
          BY <2>0, <4>1
        <5>2. h[i] = step[m + 1, g[m]] /\ h[m] = g[m]
          BY <4>1, <5>1
        <5> HIDE DEF h
        <5> QED
          BY <4>1, <5>1, <5>2
      <4>2. CASE i # m + 1
        <5>1. i \in 0..m /\ (i # 0 => i - 1 \in 0..m /\ i - 1 # m + 1 /\ i - 1 \in 0..(m + 1))
          BY <2>0, <4>2
        <5>2. h[i] = g[i] /\ (i # 0 => h[i - 1] = g[i - 1])
          BY <4>2, <5>1
        <5> HIDE DEF h
        <5> QED
          BY <3>2, <5>1, <5>2
      <4> QED
        BY <4>1, <4>2
    <3>6. Upto(m + 1, h)
      <4> HIDE DEF h
      <4> QED
        BY <3>5
    <3> HIDE DEF Upto, h
    <3> QED
      BY <3>4, <3>6
  <2>3. m + 1 \in Nat
    BY <2>0
  <2> HIDE DEF Upto
  <2> QED
    BY <2>2, <2>3 DEF P
<1>3. P = Nat
  <2> HIDE DEF P
  <2>1. P \in SUBSET Nat
    BY DEF P
  <2> QED
    BY <1>1, <1>2, <2>1, NumbersByInduction
<1>4. PICK h \in [0..n -> X] : Upto(n, h)
  <2>1. n \in P
    BY <1>3
  <2> HIDE DEF Upto
  <2> QED
    BY <2>1
<1> QED
  BY <1>4 DEF Follows

Keeps(h, l, S) ==
    /\ Without(l, S) = h[Len(l)]
    /\ h[0] = <<>>
    /\ \A i \in 1..Len(l) :
          h[i] = IF l[i] \in S THEN h[i - 1] ELSE Append(h[i - 1], l[i])

\* The recursion Without is: it starts empty and decides member by member.
LEMMA WithoutRecursion ==
    ASSUME NEW V, NEW l \in Seq(V), NEW S
    PROVE  \E h \in [0..Len(l) -> Seq(V)] : Keeps(h, l, S)
<1> DEFINE Rec(h) == h = [i \in 0..Len(l) |->
                            IF i = 0 THEN <<>>
                            ELSE IF l[i] \in S THEN h[i - 1]
                            ELSE Append(h[i - 1], l[i])]
           step == [p \in (1..Len(l)) \X Seq(V) |->
                      IF l[p[1]] \in S THEN p[2] ELSE Append(p[2], l[p[1]])]
<1>1. Len(l) \in Nat /\ <<>> \in Seq(V) /\ \A i \in 1..Len(l) : l[i] \in V
  OBVIOUS
<1>2. step \in [(1..Len(l)) \X Seq(V) -> Seq(V)]
  BY <1>1
<1>3. \A i \in 1..Len(l), x \in Seq(V) :
        step[i, x] = IF l[i] \in S THEN x ELSE Append(x, l[i])
  OBVIOUS
<1> HIDE DEF step
<1>4. PICK h \in [0..Len(l) -> Seq(V)] :
        \A i \in 0..Len(l) : h[i] = IF i = 0 THEN <<>> ELSE step[i, h[i - 1]]
  <2>1. \E h \in [0..Len(l) -> Seq(V)] : Follows(h, Len(l), <<>>, step)
    BY <1>1, <1>2, RecursionExists
  <2> QED
    BY <2>1 DEF Follows
<1>5. Rec(h)
  <2>1. ASSUME NEW i \in 0..Len(l)
        PROVE  h[i] = IF i = 0 THEN <<>>
                      ELSE IF l[i] \in S THEN h[i - 1] ELSE Append(h[i - 1], l[i])
    <3>1. h[i] = IF i = 0 THEN <<>> ELSE step[i, h[i - 1]]
      BY <1>4
    <3>2. i # 0 => i \in 1..Len(l) /\ h[i - 1] \in Seq(V)
      BY <1>1
    <3> QED
      BY <1>3, <3>1, <3>2
  <2> QED
    BY <2>1
<1>6. Without(l, S) = (CHOOSE g : Rec(g))[Len(l)]
  BY Zenon DEF Without
<1>7. PICK g : g = CHOOSE f : Rec(f)
  OBVIOUS
<1>8. Rec(g)
  <2> HIDE DEF Rec
  <2> QED
    BY <1>5, <1>7, Zenon
<1>9. ASSUME NEW i \in 0..Len(l)
      PROVE  g[i] = IF i = 0 THEN <<>>
                    ELSE IF l[i] \in S THEN g[i - 1] ELSE Append(g[i - 1], l[i])
  BY <1>8
<1>10. g \in [0..Len(l) -> Seq(V)]
  <2> DEFINE P == {n \in Nat : n <= Len(l) => g[n] \in Seq(V)}
  <2>1. 0 \in P
    <3>1. 0 \in 0..Len(l)
      BY <1>1
    <3>2. g[0] = <<>>
      BY <1>9, <3>1
    <3> QED
      BY <1>1, <3>2
  <2>2. ASSUME NEW n \in P PROVE n + 1 \in P
    <3>1. n \in Nat /\ (n <= Len(l) => g[n] \in Seq(V))
      OBVIOUS
    <3> HIDE DEF P
    <3>2. ASSUME n + 1 <= Len(l) PROVE g[n + 1] \in Seq(V)
      <4>1. n + 1 \in 0..Len(l) /\ n + 1 # 0 /\ n + 1 - 1 = n /\ n + 1 \in 1..Len(l)
        BY <1>1, <3>1, <3>2
      <4>2. g[n] \in Seq(V)
        BY <1>1, <3>1, <3>2
      <4>3. l[n + 1] \in V
        BY <1>1, <4>1
      <4>4. g[n + 1] = IF l[n + 1] \in S THEN g[n] ELSE Append(g[n], l[n + 1])
        <5>1. PICK j \in 0..Len(l) : j = n + 1 /\ j # 0 /\ j - 1 = n
          BY <4>1
        <5> QED
          BY <1>9, <5>1
      <4> QED
        BY <4>2, <4>3, <4>4
    <3> QED
      BY <3>1, <3>2 DEF P
  <2>3. P = Nat
    <3> HIDE DEF P
    <3>1. P \in SUBSET Nat
      BY DEF P
    <3> QED
      BY <2>1, <2>2, <3>1, NumbersByInduction
  <2>4. \A n \in 0..Len(l) : g[n] \in Seq(V)
    BY <1>1, <2>3
  <2>5. DOMAIN g = 0..Len(l) /\ g = [i \in 0..Len(l) |-> g[i]]
    BY <1>8
  <2> QED
    BY <2>4, <2>5
<1>11. Without(l, S) = g[Len(l)]
  <2> HIDE DEF Rec
  <2> QED
    BY <1>6, <1>7
<1>12. g[0] = <<>>
  BY <1>1, <1>9
<1>13. \A i \in 1..Len(l) : g[i] = IF l[i] \in S THEN g[i - 1] ELSE Append(g[i - 1], l[i])
  BY <1>1, <1>9
<1> HIDE DEF Rec
<1> QED
  BY <1>10, <1>11, <1>12, <1>13 DEF Keeps

\* Without keeps exactly the members outside the set, and repeats none.
LEMMA WithoutSelects ==
    ASSUME NEW V, NEW l \in Listing(V), NEW S
    PROVE  Without(l, S) \in Listing(V) /\ ToSet(Without(l, S)) = ToSet(l) \ S
<1>1. l \in Seq(V) /\ Len(l) \in Nat /\ DOMAIN l = 1..Len(l)
  BY DEF Listing
<1>2. PICK h \in [0..Len(l) -> Seq(V)] :
        /\ Without(l, S) = h[Len(l)]
        /\ h[0] = <<>>
        /\ \A i \in 1..Len(l) :
              h[i] = IF l[i] \in S THEN h[i - 1] ELSE Append(h[i - 1], l[i])
  <2>1. \E h \in [0..Len(l) -> Seq(V)] : Keeps(h, l, S)
    BY <1>1, WithoutRecursion
  <2> QED
    BY <2>1 DEF Keeps
<1> DEFINE Kept(n) == /\ \A i, j \in DOMAIN h[n] : h[n][i] = h[n][j] => i = j
                      /\ ToSet(h[n]) = {l[i] : i \in 1..n} \ S
           P == {n \in Nat : n <= Len(l) => Kept(n)}
<1>3. 0 \in P
  BY <1>2 DEF ToSet
<1>4. ASSUME NEW n \in P PROVE n + 1 \in P
  <2>0. n \in Nat
    OBVIOUS
  <2>1. n <= Len(l) => Kept(n)
    <3> HIDE DEF Kept
    <3> QED
      OBVIOUS
  <2> HIDE DEF P
  <2>2. ASSUME n + 1 <= Len(l) PROVE Kept(n + 1)
    <3>1. PICK m : m = n + 1
      OBVIOUS
    <3>2. m \in 1..Len(l) /\ n \in 0..Len(l) /\ n <= Len(l) /\ m - 1 = n /\ m \in DOMAIN l
      BY <1>1, <2>0, <2>2, <3>1
    <3>3. PICK g : g = h[n] /\ g \in Seq(V)
      BY <1>2, <3>2
    <3>4. /\ \A i, j \in DOMAIN g : g[i] = g[j] => i = j
          /\ ToSet(g) = {l[i] : i \in 1..n} \ S
      BY <2>1, <3>2, <3>3
    <3>5. h[m] = IF l[m] \in S THEN g ELSE Append(g, l[m])
      BY <1>2, <3>2, <3>3
    <3>6. {l[i] : i \in 1..m} = {l[i] : i \in 1..n} \cup {l[m]}
      BY <2>0, <3>1
    <3>7. l[m] \notin {l[i] : i \in 1..n}
      <4>1. ASSUME NEW i \in 1..n PROVE l[i] # l[m]
        <5>1. i \in DOMAIN l /\ i # m
          BY <1>1, <2>0, <3>1, <3>2
        <5> QED
          BY <3>2, <5>1 DEF Listing
      <4> QED
        BY <4>1
    <3>8. CASE l[m] \in S
      <4>1. h[m] = g
        BY <3>5, <3>8
      <4> QED
        BY <3>1, <3>4, <3>6, <3>8, <4>1
    <3>9. CASE l[m] \notin S
      <4>1. h[m] = Append(g, l[m])
        BY <3>5, <3>9
      <4>2. PICK k \in Nat : k = Len(g) /\ DOMAIN g = 1..k
        BY <3>3
      <4>3. PICK a : a = Append(g, l[m])
        OBVIOUS
      <4>4. /\ DOMAIN a = 1..(k + 1) /\ a[k + 1] = l[m]
            /\ \A i \in 1..k : a[i] = g[i]
        BY <3>3, <4>2, <4>3
      <4>5. ToSet(a) = ToSet(g) \cup {l[m]}
        <5>1. ASSUME NEW i \in 1..(k + 1) PROVE i \in 1..k \/ i = k + 1
          BY <4>2
        <5>2. 1..k \subseteq 1..(k + 1) /\ k + 1 \in 1..(k + 1)
          BY <4>2
        <5> QED
          BY <4>2, <4>4, <5>1, <5>2 DEF ToSet
      <4>6. l[m] \notin ToSet(g)
        BY <3>4, <3>7
      <4>7. \A i, j \in DOMAIN a : a[i] = a[j] => i = j
        <5>1. ASSUME NEW i \in 1..(k + 1) PROVE i \in 1..k \/ i = k + 1
          BY <4>2
        <5>2. \A i \in 1..k : a[i] \in ToSet(g)
          BY <4>2, <4>4 DEF ToSet
        <5> QED
          BY <3>4, <4>2, <4>4, <4>6, <5>1, <5>2
      <4>8. ToSet(a) = {l[i] : i \in 1..m} \ S
        BY <3>4, <3>6, <3>9, <4>5
      <4>9. h[n + 1] = a
        BY <3>1, <4>1, <4>3
      <4> QED
        BY <3>1, <4>7, <4>8, <4>9
    <3> QED
      BY <3>8, <3>9
  <2>3. n + 1 \in Nat
    BY <2>0
  <2> HIDE DEF Kept
  <2> QED
    BY <2>2, <2>3 DEF P
<1>5. P = Nat
  <2> HIDE DEF P
  <2>1. P \in SUBSET Nat
    BY DEF P
  <2> QED
    BY <1>3, <1>4, <2>1, NumbersByInduction
<1>6. Kept(Len(l))
  <2>1. Len(l) \in P
    BY <1>1, <1>5
  <2> HIDE DEF Kept
  <2> QED
    BY <1>1, <2>1
<1>7. h[Len(l)] \in Seq(V)
  BY <1>1, <1>2
<1>8. ToSet(l) = {l[i] : i \in 1..Len(l)}
  BY <1>1 DEF ToSet
<1> QED
  BY <1>2, <1>6, <1>7, <1>8 DEF Listing

\* Without one of its members a list is shorter by one.
LEMMA WithoutOneLength ==
    ASSUME NEW V, NEW l \in Listing(V), NEW o \in ToSet(l)
    PROVE  Len(Without(l, {o})) = Len(l) - 1
<1>1. IsFiniteSet(ToSet(l)) /\ Cardinality(ToSet(l)) = Len(l)
  BY ListLength
<1>2. Cardinality(ToSet(l) \ {o}) = Len(Without(l, {o}))
  <2>1. Without(l, {o}) \in Listing(V) /\ ToSet(Without(l, {o})) = ToSet(l) \ {o}
    BY WithoutSelects
  <2>2. Cardinality(ToSet(Without(l, {o}))) = Len(Without(l, {o}))
    BY <2>1, ListLength
  <2> QED
    BY <2>1, <2>2
<1>3. Cardinality(ToSet(l) \ {o}) = Cardinality(ToSet(l)) - 1
  BY <1>1, FS_RemoveElement
<1> QED
  BY <1>1, <1>2, <1>3

\* A swap in place.
LEMMA ReplacedSelects ==
    ASSUME NEW V, NEW l \in Listing(V), NEW old \in ToSet(l), NEW new \in V \ ToSet(l)
    PROVE  /\ ReplaceAll(l, old, new) \in Listing(V)
           /\ ToSet(ReplaceAll(l, old, new)) = (ToSet(l) \ {old}) \cup {new}
           /\ Len(ReplaceAll(l, old, new)) = Len(l)
<1>1. PICK n \in Nat : n = Len(l) /\ DOMAIN l = 1..n /\ l \in Seq(V) /\ \A i \in 1..n : l[i] \in V
  BY DEF Listing
<1>2. PICK k \in 1..n : l[k] = old
  BY <1>1 DEF ToSet
<1>3. PICK r : r = [i \in 1..n |-> IF l[i] = old THEN new ELSE l[i]]
  OBVIOUS
<1>4. ReplaceAll(l, old, new) = r
  BY <1>1, <1>3 DEF ReplaceAll
<1>5. \A i \in 1..n : l[i] = old <=> i = k
  BY <1>1, <1>2 DEF Listing
<1>6. r \in Seq(V) /\ Len(r) = n /\ DOMAIN r = 1..n
  BY <1>1, <1>3
<1>7. r[k] = new /\ \A i \in 1..n : i # k => r[i] = l[i]
  BY <1>2, <1>3, <1>5
<1>8. \A i \in 1..n : l[i] # new
  BY <1>1 DEF ToSet
<1>9. \A i, j \in 1..n : r[i] = r[j] => i = j
  BY <1>1, <1>7, <1>8 DEF Listing
<1>10. ToSet(r) = (ToSet(l) \ {old}) \cup {new}
  BY <1>1, <1>2, <1>5, <1>6, <1>7, <1>8 DEF ToSet
<1> QED
  BY <1>1, <1>4, <1>6, <1>9, <1>10 DEF Listing

\* An owner put in front.
LEMMA PrependSelects ==
    ASSUME NEW V, NEW l \in Listing(V), NEW new \in V \ ToSet(l)
    PROVE  /\ <<new>> \o l \in Listing(V)
           /\ ToSet(<<new>> \o l) = ToSet(l) \cup {new}
           /\ Len(<<new>> \o l) = Len(l) + 1
<1>1. PICK n \in Nat : n = Len(l) /\ DOMAIN l = 1..n /\ l \in Seq(V)
  BY DEF Listing
<1>2. PICK r : r = <<new>> \o l
  OBVIOUS
<1>3. r \in Seq(V) /\ Len(r) = n + 1 /\ DOMAIN r = 1..(n + 1)
  BY <1>1, <1>2
<1>4. r[1] = new /\ \A i \in 1..(n + 1) : i # 1 => i - 1 \in 1..n /\ r[i] = l[i - 1]
  BY <1>1, <1>2
<1>5. \A i \in 1..n : i + 1 \in 1..(n + 1) /\ i + 1 # 1 /\ r[i + 1] = l[i]
  BY <1>1, <1>2
<1>6. \A i \in 1..n : l[i] # new
  BY <1>1 DEF ToSet
<1>7. \A i, j \in 1..(n + 1) : r[i] = r[j] => i = j
  BY <1>1, <1>4, <1>6 DEF Listing
<1>8. 1 \in 1..(n + 1)
  BY <1>1
<1>9. ToSet(r) = ToSet(l) \cup {new}
  <2>1. ASSUME NEW x \in ToSet(l) PROVE x \in ToSet(r)
    <3>1. PICK i \in 1..n : l[i] = x
      BY <1>1 DEF ToSet
    <3>2. r[i + 1] = x /\ i + 1 \in DOMAIN r
      BY <1>3, <1>5, <3>1
    <3> QED
      BY <3>2 DEF ToSet
  <2>2. new \in ToSet(r)
    BY <1>3, <1>4, <1>8 DEF ToSet
  <2>3. ToSet(r) \subseteq ToSet(l) \cup {new}
    BY <1>1, <1>3, <1>4 DEF ToSet
  <2> QED
    BY <2>1, <2>2, <2>3
<1> QED
  BY <1>1, <1>2, <1>3, <1>7, <1>9 DEF Listing

\* The predecessor the module finds in its copy is the one the Safe has.
LEMMA PrevOwnerPrecedes ==
    ASSUME NEW l, NEW o \in ToSet(l)
    PROVE  Precedes(l, PrevOwner(l, o), o)
BY DEF PrevOwner, Precedes, ToSet

(***************************************************************************)
(* The loops of _syncOwners.                                               *)
(***************************************************************************)
\* Between two calls the module's copy agrees with the Safe, whose owners
\* are the members of `set', and the Safe's threshold is one it accepts.
AgreesOn(st, set, V) ==
    /\ st = [safe |-> [owners |-> st.list, threshold |-> st.threshold],
             list |-> st.list, threshold |-> st.threshold]
    /\ st.list \in Listing(V)
    /\ ToSet(st.list) = set
    /\ st.threshold \in 1..Len(st.list)

LEMMA SwapAgrees ==
    ASSUME NEW V, NEW set, NEW st, AgreesOn(st, set, V),
           NEW old \in set, NEW new \in V \ set, SafeAddress \notin V
    PROVE  AgreesOn(SwapStep(st, old, new), (set \ {old}) \cup {new}, V)
<1> DEFINE l == ReplaceAll(st.list, old, new)
<1>1. l \in Listing(V) /\ ToSet(l) = (set \ {old}) \cup {new} /\ Len(l) = Len(st.list)
  BY ReplacedSelects DEF AgreesOn
<1>2. Precedes(st.list, PrevOwner(st.list, old), old)
  BY PrevOwnerPrecedes DEF AgreesOn
<1>3. st = [safe |-> [owners |-> st.list, threshold |-> st.threshold],
            list |-> st.list, threshold |-> st.threshold]
  BY DEF AgreesOn
<1>4. st.safe = [owners |-> st.list, threshold |-> st.threshold]
  BY <1>3
<1>5. SwapOwner(st.safe, PrevOwner(st.list, old), old, new) =
        [owners |-> l, threshold |-> st.threshold]
  BY <1>2, <1>4 DEF SwapOwner, AgreesOn
<1>6. SwapStep(st, old, new) =
        [safe |-> [owners |-> l, threshold |-> st.threshold],
         list |-> l, threshold |-> st.threshold]
  BY <1>5, Zenon DEF SwapStep, ReplaceInPlace
<1> HIDE DEF l
<1> QED
  BY <1>1, <1>6 DEF AgreesOn

LEMMA AddAgrees ==
    ASSUME NEW V, NEW set, NEW st, AgreesOn(st, set, V), NEW new \in V \ set,
           SafeAddress \notin V
    PROVE  AgreesOn(AddStep(st, new), set \cup {new}, V)
<1> DEFINE l == <<new>> \o st.list
<1>1. l \in Listing(V) /\ ToSet(l) = set \cup {new} /\ Len(l) = Len(st.list) + 1
  BY PrependSelects DEF AgreesOn
<1>2. st = [safe |-> [owners |-> st.list, threshold |-> st.threshold],
            list |-> st.list, threshold |-> st.threshold]
  BY DEF AgreesOn
<1>3. st.safe = [owners |-> st.list, threshold |-> st.threshold]
  BY <1>2
<1>4. st.threshold \in 1..Len(st.list) /\ Len(st.list) \in Nat
  BY DEF AgreesOn, Listing
<1>5. st.safe # Reverted
  BY <1>3, <1>4 DEF Reverted
<1>6. AddOwnerWithThreshold(st.safe, new, st.threshold) =
        [owners |-> l, threshold |-> st.threshold]
  BY <1>3, <1>4, <1>5 DEF AddOwnerWithThreshold, AgreesOn
<1>7. AddStep(st, new) =
        [safe |-> [owners |-> l, threshold |-> st.threshold],
         list |-> l, threshold |-> st.threshold]
  BY <1>6, Zenon DEF AddStep
<1> HIDE DEF l
<1> QED
  BY <1>1, <1>4, <1>7 DEF AgreesOn

\* An owner can be removed while another one remains.
LEMMA RemoveAgrees ==
    ASSUME NEW V, NEW set, NEW st, AgreesOn(st, set, V),
           NEW old \in set, NEW other \in set, other # old
    PROVE  AgreesOn(RemoveStep(st, old), set \ {old}, V)
<1> DEFINE l == Without(st.list, {old})
           th == Clamped(st.threshold, Len(st.list) - 1)
<1>1. l \in Listing(V) /\ ToSet(l) = set \ {old}
  BY WithoutSelects DEF AgreesOn
<1>2. Len(l) = Len(st.list) - 1 /\ Len(l) \in Nat \ {0}
  <2>1. Len(l) = Len(st.list) - 1
    BY WithoutOneLength DEF AgreesOn
  <2>2. IsFiniteSet(set \ {old}) /\ Cardinality(set \ {old}) = Len(l)
    BY <1>1, ListLength
  <2>3. Cardinality(set \ {old}) \in Nat /\ Cardinality(set \ {old}) # 0
    BY <2>2, FS_CardinalityType, FS_EmptySet
  <2> HIDE DEF l
  <2> QED
    BY <2>1, <2>2, <2>3
<1>3. st = [safe |-> [owners |-> st.list, threshold |-> st.threshold],
            list |-> st.list, threshold |-> st.threshold]
  BY DEF AgreesOn
<1>4. st.safe = [owners |-> st.list, threshold |-> st.threshold]
  BY <1>3
<1>5. th \in 1..Len(l)
  <2>1. st.threshold \in 1..Len(st.list) /\ Len(st.list) \in Nat
    BY DEF AgreesOn, Listing
  <2> HIDE DEF l
  <2>2. PICK t, c : t = st.threshold /\ c = Len(st.list) - 1
    OBVIOUS
  <2>3. t \in 1..(c + 1) /\ c \in Nat \ {0} /\ c = Len(l)
    BY <1>2, <2>1, <2>2
  <2>4. Clamped(t, c) \in 1..c
    BY <2>3 DEF Clamped
  <2> QED
    BY <2>2, <2>3, <2>4
<1>6. Precedes(st.list, PrevOwner(st.list, old), old)
  BY PrevOwnerPrecedes DEF AgreesOn
<1>7. RemoveOwner(st.safe, PrevOwner(st.list, old), old, th) =
        [owners |-> l, threshold |-> th]
  <2> HIDE DEF th
  <2> QED
    BY <1>2, <1>4, <1>5, <1>6 DEF RemoveOwner
<1>8. RemoveStep(st, old) =
        [safe |-> [owners |-> l, threshold |-> th], list |-> l, threshold |-> th]
  BY <1>7, Zenon DEF RemoveStep
<1> HIDE DEF l, th
<1> QED
  BY <1>1, <1>5, <1>8 DEF AgreesOn

\* What the module and the Safe hold during a rotation, a reverted call included.
Work(V) == [safe : [owners : Seq(V), threshold : Int], list : Seq(V), threshold : Int]

LEMMA CallTyped ==
    ASSUME NEW V, NEW R \in Seq(V), NEW A \in Seq(V), NEW st \in Work(V),
           NEW k \in Nat \ {0}, k <= Len(R) \/ k <= Len(A)
    PROVE  RotationCall(st, R, A, k) \in Work(V)
<1>1. PICK o, t, l, u : /\ st = [safe |-> [owners |-> o, threshold |-> t], list |-> l, threshold |-> u]
                        /\ o \in Seq(V) /\ t \in Int /\ l \in Seq(V) /\ u \in Int
  BY DEF Work
<1>2. Reverted \in [owners : Seq(V), threshold : Int]
  BY DEF Reverted
<1>a. st.safe = [owners |-> o, threshold |-> t] /\ st.list = l /\ st.threshold = u
  BY <1>1
<1>3. ASSUME NEW m \in Seq(V), NEW S PROVE Without(m, S) \in Seq(V)
  <2>1. PICK h \in [0..Len(m) -> Seq(V)] : Keeps(h, m, S)
    BY WithoutRecursion
  <2>2. Len(m) \in 0..Len(m) /\ Without(m, S) = h[Len(m)]
    BY <2>1 DEF Keeps
  <2> QED
    BY <2>1, <2>2
<1>4. ASSUME NEW m \in Seq(V), NEW old, NEW new \in V PROVE ReplaceAll(m, old, new) \in Seq(V)
  BY DEF ReplaceAll
<1>5. ASSUME NEW new \in V PROVE AddStep(st, new) \in Work(V)
  <2>1. PICK x : x = AddOwnerWithThreshold([owners |-> o, threshold |-> t], new, u)
    OBVIOUS
  <2>2. <<new>> \o o \in Seq(V) /\ <<new>> \o l \in Seq(V)
    BY <1>1
  <2>3. x \in [owners : Seq(V), threshold : Int]
    BY <1>1, <1>2, <2>1, <2>2 DEF AddOwnerWithThreshold
  <2>4. AddStep(st, new) = [safe |-> x, list |-> <<new>> \o l, threshold |-> u]
    BY <1>a, <2>1, Zenon DEF AddStep
  <2>5. PICK m \in Seq(V) : m = <<new>> \o l
    BY <2>2
  <2>6. AddStep(st, new) = [safe |-> x, list |-> m, threshold |-> u]
    BY <2>4, <2>5
  <2> QED
    BY <1>1, <2>3, <2>6 DEF Work
<1>6. ASSUME NEW old \in V PROVE RemoveStep(st, old) \in Work(V)
  <2>1. PICK th : th = Clamped(u, Len(l) - 1)
    OBVIOUS
  <2>2. th \in Int
    BY <1>1, <2>1 DEF Clamped
  <2>3. PICK x : x = RemoveOwner([owners |-> o, threshold |-> t], PrevOwner(l, old), old, th)
    OBVIOUS
  <2>4. Without(o, {old}) \in Seq(V) /\ Without(l, {old}) \in Seq(V)
    BY <1>1, <1>3
  <2>5. x \in [owners : Seq(V), threshold : Int]
    BY <1>1, <1>2, <2>2, <2>3, <2>4 DEF RemoveOwner
  <2>6. RemoveStep(st, old) = [safe |-> x, list |-> Without(l, {old}), threshold |-> th]
    BY <1>1, <2>1, <2>3 DEF RemoveStep
  <2> QED
    BY <2>2, <2>4, <2>5, <2>6 DEF Work
<1>7. ASSUME NEW old \in V, NEW new \in V PROVE SwapStep(st, old, new) \in Work(V)
  <2>1. PICK x : x = SwapOwner([owners |-> o, threshold |-> t], PrevOwner(l, old), old, new)
    OBVIOUS
  <2>2. ReplaceAll(o, old, new) \in Seq(V) /\ ReplaceAll(l, old, new) \in Seq(V)
    BY <1>1, <1>4
  <2>3. x \in [owners : Seq(V), threshold : Int]
    BY <1>1, <1>2, <2>1, <2>2 DEF SwapOwner
  <2>4. SwapStep(st, old, new) = [safe |-> x, list |-> ReplaceAll(l, old, new), threshold |-> u]
    BY <1>a, <2>1, Zenon DEF SwapStep, ReplaceInPlace
  <2> QED
    BY <1>1, <2>2, <2>3, <2>4 DEF Work
<1>8. (k <= Len(R) => R[k] \in V) /\ (k <= Len(A) => A[k] \in V)
  OBVIOUS
<1>9. Len(R) \in Nat /\ Len(A) \in Nat
  OBVIOUS
<1> QED
  BY <1>5, <1>6, <1>7, <1>8, <1>9 DEF RotationCall

Calls(R, A) == IF Len(R) < Len(A) THEN Len(A) ELSE Len(R)

Started(s) == [safe |-> s, list |-> s.owners, threshold |-> s.threshold]

Rotates(h, s, R, A) ==
    /\ Rotation(s, R, A) = h[Calls(R, A)]
    /\ h[0] = Started(s)
    /\ \A k \in 1..Calls(R, A) : h[k] = RotationCall(h[k - 1], R, A, k)

\* The recursion Rotation is: the calls one after the other.
LEMMA RotationRecursion ==
    ASSUME NEW V, NEW R \in Seq(V), NEW A \in Seq(V),
           NEW s \in [owners : Seq(V), threshold : Int]
    PROVE  \E h : Rotates(h, s, R, A)
<1> DEFINE Rec(h) == h = [k \in 0..Calls(R, A) |->
                            IF k = 0
                            THEN [safe |-> s, list |-> s.owners, threshold |-> s.threshold]
                            ELSE RotationCall(h[k - 1], R, A, k)]
           step == [p \in (1..Calls(R, A)) \X Work(V) |-> RotationCall(p[2], R, A, p[1])]
<1>1. Calls(R, A) \in Nat /\ \A k \in 1..Calls(R, A) : k \in Nat \ {0} /\ (k <= Len(R) \/ k <= Len(A))
  BY DEF Calls
<1>2. step \in [(1..Calls(R, A)) \X Work(V) -> Work(V)]
  BY <1>1, CallTyped
<1>3. \A k \in 1..Calls(R, A), x \in Work(V) : step[k, x] = RotationCall(x, R, A, k)
  OBVIOUS
<1>4. Started(s) \in Work(V)
  BY DEF Started, Work
<1> HIDE DEF step
<1>5. \E h \in [0..Calls(R, A) -> Work(V)] : Follows(h, Calls(R, A), Started(s), step)
  BY <1>1, <1>2, <1>4, RecursionExists
<1>6. PICK h \in [0..Calls(R, A) -> Work(V)] :
        \A k \in 0..Calls(R, A) : h[k] = IF k = 0 THEN Started(s) ELSE step[k, h[k - 1]]
  BY <1>5 DEF Follows
<1>7. Rec(h)
  <2>1. ASSUME NEW k \in 0..Calls(R, A)
        PROVE  h[k] = IF k = 0
                      THEN [safe |-> s, list |-> s.owners, threshold |-> s.threshold]
                      ELSE RotationCall(h[k - 1], R, A, k)
    <3>1. h[k] = IF k = 0 THEN Started(s) ELSE step[k, h[k - 1]]
      BY <1>6
    <3>2. k # 0 => k \in 1..Calls(R, A) /\ h[k - 1] \in Work(V)
      BY <1>1
    <3> QED
      BY <1>3, <3>1, <3>2 DEF Started
  <2> QED
    BY <2>1
<1>8. Rotation(s, R, A) = (CHOOSE g : Rec(g))[Calls(R, A)]
  BY Zenon DEF Rotation, Calls
<1>9. PICK g : g = CHOOSE f : Rec(f)
  OBVIOUS
<1>10. Rec(g)
  <2> HIDE DEF Rec
  <2> QED
    BY <1>7, <1>9, Zenon
<1>11. g[0] = Started(s)
  BY <1>1, <1>10 DEF Started
<1>12. \A k \in 1..Calls(R, A) : g[k] = RotationCall(g[k - 1], R, A, k)
  BY <1>1, <1>10
<1>13. Rotation(s, R, A) = g[Calls(R, A)]
  <2> HIDE DEF Rec
  <2> QED
    BY <1>8, <1>9
<1> HIDE DEF Rec
<1> QED
  BY <1>11, <1>12, <1>13 DEF Rotates

\* The members among the first k of a list.
Upto(l, k) == {l[i] : i \in {j \in DOMAIN l : j <= k}}

LEMMA UptoStep ==
    ASSUME NEW V, NEW l \in Listing(V), NEW k \in Nat \ {0}
    PROVE  /\ k <= Len(l) => /\ Upto(l, k) = Upto(l, k - 1) \cup {l[k]}
                             /\ l[k] \notin Upto(l, k - 1)
                             /\ l[k] \in ToSet(l)
           /\ k > Len(l) => Upto(l, k) = ToSet(l) /\ Upto(l, k - 1) = ToSet(l)
<1>1. PICK n \in Nat : n = Len(l) /\ DOMAIN l = 1..n
  BY DEF Listing
<1>2. CASE k <= n
  <2>1. k \in DOMAIN l
    BY <1>1, <1>2
  <2>2. {j \in DOMAIN l : j <= k} = {j \in DOMAIN l : j <= k - 1} \cup {k}
    BY <1>1, <1>2
  <2>3. Upto(l, k) = Upto(l, k - 1) \cup {l[k]}
    BY <2>2 DEF Upto
  <2>4. ASSUME NEW j \in DOMAIN l, j <= k - 1 PROVE l[j] # l[k]
    <3>1. j # k
      BY <1>1, <2>4
    <3> QED
      BY <2>1, <3>1 DEF Listing
  <2>5. l[k] \notin Upto(l, k - 1)
    BY <2>4 DEF Upto
  <2> QED
    BY <1>1, <1>2, <2>1, <2>3, <2>5 DEF ToSet
<1>3. CASE k > n
  <2>1. \A j \in DOMAIN l : j <= k /\ j <= k - 1
    BY <1>1, <1>3
  <2> QED
    BY <1>1, <1>3, <2>1 DEF Upto, ToSet
<1> QED
  BY <1>1, <1>2, <1>3

\* The rotation's calls all succeed, and turn the owners S into D.
LEMMA RotationAgrees ==
    ASSUME NEW V, SafeAddress \notin V,
           NEW S \in SUBSET V, NEW D \in SUBSET V, D # {},
           NEW R \in Listing(V), ToSet(R) = S \ D,
           NEW A \in Listing(V), ToSet(A) = D \ S,
           NEW s \in [owners : Listing(V), threshold : Int], ToSet(s.owners) = S,
           s.threshold \in 1..Len(s.owners)
    PROVE  AgreesOn(Rotation(s, R, A), D, V)
<1> DEFINE Owned(k) == (S \ Upto(R, k)) \cup Upto(A, k)
<1>1. R \in Seq(V) /\ A \in Seq(V) /\ s \in [owners : Seq(V), threshold : Int]
  BY DEF Listing
<1>2. PICK h : Rotates(h, s, R, A)
  BY <1>1, RotationRecursion
<1> DEFINE Q == {k \in Nat : k <= Calls(R, A) => AgreesOn(h[k], Owned(k), V)}
<1>3. Len(R) \in Nat /\ Len(A) \in Nat /\ Calls(R, A) \in Nat
  BY <1>1 DEF Calls
<1>4. 0 \in Q
  <2>1. Upto(R, 0) = {} /\ Upto(A, 0) = {}
    BY <1>1 DEF Upto
  <2>2. h[0] = Started(s)
    BY <1>2 DEF Rotates
  <2>3. Started(s) = [safe |-> [owners |-> s.owners, threshold |-> s.threshold],
                      list |-> s.owners, threshold |-> s.threshold]
    BY DEF Started
  <2>4. AgreesOn(Started(s), S, V)
    BY <2>3 DEF AgreesOn
  <2>5. Owned(0) = S
    BY <2>1
  <2> QED
    BY <2>2, <2>4, <2>5
<1>5. ASSUME NEW m \in Q PROVE m + 1 \in Q
  <2>1. m \in Nat
    OBVIOUS
  <2>2. m <= Calls(R, A) => AgreesOn(h[m], Owned(m), V)
    OBVIOUS
  <2> HIDE DEF Q
  <2>3. ASSUME m + 1 <= Calls(R, A) PROVE AgreesOn(h[m + 1], Owned(m + 1), V)
    <3>1. PICK k \in Nat \ {0} : k = m + 1 /\ k - 1 = m
      BY <2>1
    <3>2. k \in 1..Calls(R, A) /\ m <= Calls(R, A)
      BY <1>3, <2>1, <2>3, <3>1
    <3>3. PICK st : st = h[m] /\ AgreesOn(st, Owned(m), V)
      BY <2>2, <3>2
    <3>4. h[k] = RotationCall(st, R, A, k)
      BY <1>2, <3>1, <3>2, <3>3 DEF Rotates
    <3>5. /\ k <= Len(R) => /\ Upto(R, k) = Upto(R, m) \cup {R[k]}
                            /\ R[k] \notin Upto(R, m) /\ R[k] \in S \ D
          /\ k > Len(R) => Upto(R, k) = S \ D /\ Upto(R, m) = S \ D
      BY <3>1, UptoStep
    <3>6. /\ k <= Len(A) => /\ Upto(A, k) = Upto(A, m) \cup {A[k]}
                            /\ A[k] \notin Upto(A, m) /\ A[k] \in D \ S
          /\ k > Len(A) => Upto(A, k) = D \ S /\ Upto(A, m) = D \ S
      BY <3>1, UptoStep
    <3>7. Upto(R, m) \subseteq S \ D /\ Upto(A, m) \subseteq D \ S
      BY DEF Upto, ToSet
    <3>8. CASE k > Len(R)
      <4>1. k <= Len(A)
        BY <1>3, <3>2, <3>8 DEF Calls
      <4>2. A[k] \in V \ Owned(m) /\ Owned(k) = Owned(m) \cup {A[k]}
        BY <3>5, <3>6, <3>8, <4>1
      <4>3. AgreesOn(AddStep(st, A[k]), Owned(m) \cup {A[k]}, V)
        <5> HIDE DEF Owned
        <5> QED
          BY <3>3, <4>2, AddAgrees
      <4>4. RotationCall(st, R, A, k) = AddStep(st, A[k])
        BY <3>8 DEF RotationCall
      <4> HIDE DEF Owned
      <4> QED
        BY <3>1, <3>4, <4>2, <4>3, <4>4
    <3>9. CASE k <= Len(R) /\ k > Len(A)
      <4>1. R[k] \in Owned(m) /\ D \subseteq Owned(m) /\ R[k] \notin D
        BY <3>5, <3>6, <3>7, <3>9
      <4>2. Owned(k) = Owned(m) \ {R[k]}
        BY <3>5, <3>6, <3>7, <3>9
      <4>3. PICK other \in Owned(m) : other # R[k]
        BY <4>1
      <4>4. AgreesOn(RemoveStep(st, R[k]), Owned(m) \ {R[k]}, V)
        <5> HIDE DEF Owned
        <5> QED
          BY <3>3, <4>1, <4>3, RemoveAgrees
      <4>5. RotationCall(st, R, A, k) = RemoveStep(st, R[k])
        BY <1>3, <3>9 DEF RotationCall
      <4> HIDE DEF Owned
      <4> QED
        BY <3>1, <3>4, <4>2, <4>4, <4>5
    <3>10. CASE k <= Len(R) /\ k <= Len(A)
      <4>1. R[k] \in Owned(m) /\ A[k] \in V \ Owned(m)
        BY <3>5, <3>6, <3>7, <3>10
      <4>2. Owned(k) = (Owned(m) \ {R[k]}) \cup {A[k]}
        BY <3>5, <3>6, <3>7, <3>10
      <4>3. AgreesOn(SwapStep(st, R[k], A[k]), (Owned(m) \ {R[k]}) \cup {A[k]}, V)
        <5> HIDE DEF Owned
        <5> QED
          BY <3>3, <4>1, SwapAgrees
      <4>4. RotationCall(st, R, A, k) = SwapStep(st, R[k], A[k])
        BY <1>3, <3>10 DEF RotationCall
      <4> HIDE DEF Owned
      <4> QED
        BY <3>1, <3>4, <4>2, <4>3, <4>4
    <3> QED
      BY <1>3, <3>8, <3>9, <3>10
  <2>4. m + 1 \in Nat
    BY <2>1
  <2> HIDE DEF Owned
  <2> QED
    BY <2>3, <2>4 DEF Q
<1>6. Q = Nat
  <2> HIDE DEF Q
  <2>1. Q \in SUBSET Nat
    BY DEF Q
  <2> QED
    BY <1>4, <1>5, <2>1, NumbersByInduction
<1>7. AgreesOn(h[Calls(R, A)], Owned(Calls(R, A)), V)
  <2>1. Calls(R, A) \in Q
    BY <1>3, <1>6
  <2> HIDE DEF Owned
  <2> QED
    BY <1>3, <2>1
<1>8. Owned(Calls(R, A)) = D
  <2>1. \A j \in DOMAIN R : j <= Calls(R, A)
    BY <1>1, <1>3 DEF Calls
  <2>2. \A j \in DOMAIN A : j <= Calls(R, A)
    BY <1>1, <1>3 DEF Calls
  <2>3. Upto(R, Calls(R, A)) = S \ D /\ Upto(A, Calls(R, A)) = D \ S
    BY <2>1, <2>2 DEF Upto, ToSet
  <2> QED
    BY <2>3
<1>9. Rotation(s, R, A) = h[Calls(R, A)]
  BY <1>2 DEF Rotates
<1> HIDE DEF Owned
<1> QED
  BY <1>7, <1>8, <1>9

\* A Safe as its own calls leave it: no owner twice, and a threshold its
\* owners can reach.
WellFormed(s, V) ==
    /\ s \in [owners : Listing(V), threshold : Int]
    /\ s.threshold \in 1..Len(s.owners)

\* A reverted Safe stays reverted, and a call that would make the Safe its
\* own owner reverts it.
LEMMA CallReverts ==
    ASSUME NEW st, NEW R, NEW A, NEW k \in Nat,
           Len(R) \in Nat, Len(A) \in Nat,
           \/ st.safe = Reverted
           \/ k <= Len(A) /\ A[k] = SafeAddress
    PROVE  RotationCall(st, R, A, k).safe = Reverted
<1>1. Reverted.owners = <<>>
  BY DEF Reverted
<1>2. ASSUME NEW prev, NEW o PROVE ~Precedes(<<>>, prev, o)
  BY DEF Precedes
<1>3. CASE k > Len(R)
  <2>1. RotationCall(st, R, A, k).safe =
          AddOwnerWithThreshold(st.safe, A[k], st.threshold)
    BY <1>3 DEF RotationCall, AddStep
  <2>2. st.safe = Reverted \/ A[k] = SafeAddress
    OBVIOUS
  <2> QED
    BY <2>1, <2>2 DEF AddOwnerWithThreshold
<1>4. CASE k <= Len(R) /\ k > Len(A)
  <2> DEFINE th == Clamped(st.threshold, Len(st.list) - 1)
  <2>1. RotationCall(st, R, A, k).safe =
          RemoveOwner(st.safe, PrevOwner(st.list, R[k]), R[k], th)
    BY <1>4 DEF RotationCall, RemoveStep
  <2>2. st.safe = Reverted
    BY <1>4
  <2> QED
    BY <1>1, <1>2, <2>1, <2>2 DEF RemoveOwner
<1>5. CASE k <= Len(R) /\ k <= Len(A)
  <2>1. RotationCall(st, R, A, k).safe =
          SwapOwner(st.safe, PrevOwner(st.list, R[k]), R[k], A[k])
    BY <1>5 DEF RotationCall, SwapStep
  <2>2. st.safe = Reverted \/ A[k] = SafeAddress
    OBVIOUS
  <2> QED
    BY <1>1, <1>2, <2>1, <2>2 DEF SwapOwner
<1> QED
  BY <1>3, <1>4, <1>5

\* A selection that names the Safe itself reverts as a whole.
LEMMA SelfReverts ==
    ASSUME NEW V, SafeAddress \notin V, NEW s, WellFormed(s, V),
           NEW desired \in Listing(V \cup {SafeAddress}),
           SafeAddress \in ToSet(desired),
           NEW target \in 1..Len(desired)
    PROVE  SyncOwners(s, desired, target) = Reverted
<1> DEFINE W == V \cup {SafeAddress}
           S == ToSet(s.owners)
           R == Without(s.owners, ToSet(desired))
           A == Without(desired, S)
<1>1. s.owners \in Listing(W) /\ SafeAddress \notin S
  BY DEF WellFormed, Listing, ToSet
<1>2. R \in Listing(W) /\ A \in Listing(W) /\ SafeAddress \in ToSet(A)
  BY <1>1, WithoutSelects
<1>3. /\ R \in Seq(W) /\ A \in Seq(W) /\ s \in [owners : Seq(W), threshold : Int]
      /\ Len(R) \in Nat /\ Len(A) \in Nat
  BY <1>1, <1>2 DEF WellFormed, Listing
<1>4. PICK h : Rotates(h, s, R, A)
  <2> HIDE DEF R, A, W
  <2> QED
    BY <1>3, RotationRecursion
<1>5. PICK first \in 1..Len(A) : A[first] = SafeAddress
  <2> HIDE DEF A
  <2> QED
    BY <1>2, <1>3 DEF ToSet
<1> HIDE DEF R, A, W
<1>6. Calls(R, A) \in Nat /\ first <= Calls(R, A)
  BY <1>3, <1>5 DEF Calls
<1> DEFINE Q == {k \in Nat : first <= k /\ k <= Calls(R, A) => h[k].safe = Reverted}
<1>7. 0 \in Q
  BY <1>5
<1>8. ASSUME NEW m \in Q PROVE m + 1 \in Q
  <2>1. m \in Nat /\ (first <= m /\ m <= Calls(R, A) => h[m].safe = Reverted)
    OBVIOUS
  <2> HIDE DEF Q
  <2>2. ASSUME first <= m + 1, m + 1 <= Calls(R, A) PROVE h[m + 1].safe = Reverted
    <3>1. PICK k \in 1..Calls(R, A) : k = m + 1 /\ k - 1 = m
      BY <1>6, <2>1, <2>2
    <3>2. h[k] = RotationCall(h[m], R, A, k)
      BY <1>4, <3>1 DEF Rotates
    <3>3. h[m].safe = Reverted \/ (k <= Len(A) /\ A[k] = SafeAddress)
      BY <1>3, <1>5, <1>6, <2>1, <2>2, <3>1
    <3>4. RotationCall(h[m], R, A, k).safe = Reverted
      BY <1>3, <1>6, <3>3, CallReverts
    <3> QED
      BY <3>1, <3>2, <3>4
  <2> QED
    BY <2>1, <2>2 DEF Q
<1>9. Q = Nat
  <2> HIDE DEF Q
  <2>1. Q \in SUBSET Nat
    BY DEF Q
  <2> QED
    BY <1>7, <1>8, <2>1, NumbersByInduction
<1>10. h[Calls(R, A)].safe = Reverted
  BY <1>6, <1>9
<1>11. Rotation(s, R, A).safe = Reverted
  BY <1>4, <1>10 DEF Rotates
<1>12. SyncOwners(s, desired, target) =
         LET rotated == Rotation(s, R, A).safe
         IN  IF rotated.threshold \in {0, target} THEN rotated
             ELSE ChangeThreshold(rotated, target)
  BY Zenon DEF SyncOwners, R, A, S
<1> QED
  BY <1>11, <1>12 DEF Reverted

\* A rotation of a well-formed Safe to others than itself lands, whatever the
\* lists are.
LEMMA SyncLands ==
    ASSUME NEW V, SafeAddress \notin V, NEW s, WellFormed(s, V),
           NEW desired \in Listing(V), NEW target \in 1..Len(desired)
    PROVE  /\ WellFormed(SyncOwners(s, desired, target), V)
           /\ ToSet(SyncOwners(s, desired, target).owners) = ToSet(desired)
           /\ Len(SyncOwners(s, desired, target).owners) = Len(desired)
           /\ SyncOwners(s, desired, target).threshold = target
<1> DEFINE S == ToSet(s.owners)
           D == ToSet(desired)
           R == Without(s.owners, D)
           A == Without(desired, S)
           st == Rotation(s, R, A)
<1>1. s.owners \in Listing(V) /\ Len(desired) \in Nat
  BY DEF WellFormed, Listing
<1>2. ASSUME NEW l \in Listing(V) PROVE ToSet(l) \in SUBSET V
  BY DEF Listing, ToSet
<1>3. S \in SUBSET V /\ D \in SUBSET V
  BY <1>1, <1>2
<1>4. D # {}
  <2>1. 1 \in DOMAIN desired
    BY <1>1 DEF Listing
  <2> QED
    BY <2>1 DEF ToSet
<1>5. R \in Listing(V) /\ ToSet(R) = S \ D /\ A \in Listing(V) /\ ToSet(A) = D \ S
  BY <1>1, WithoutSelects
<1>6. AgreesOn(st, D, V)
  <2> HIDE DEF R, A, D
  <2> QED
    BY <1>3, <1>4, <1>5, RotationAgrees DEF WellFormed
<1>7. PICK l, t : /\ st.safe = [owners |-> l, threshold |-> t]
                  /\ l \in Listing(V) /\ ToSet(l) = D /\ t \in 1..Len(l)
  <2> HIDE DEF st
  <2> QED
    BY <1>6 DEF AgreesOn
<1>8. Len(l) = Len(desired)
  <2>1. Cardinality(ToSet(l)) = Len(l) /\ Cardinality(ToSet(desired)) = Len(desired)
    BY <1>7, ListLength
  <2> QED
    BY <1>7, <2>1
<1>9. SyncOwners(s, desired, target) =
        IF t \in {0, target} THEN [owners |-> l, threshold |-> t]
        ELSE ChangeThreshold([owners |-> l, threshold |-> t], target)
  <2>1. SyncOwners(s, desired, target) =
          IF st.safe.threshold \in {0, target} THEN st.safe
          ELSE ChangeThreshold(st.safe, target)
    BY Zenon DEF SyncOwners
  <2>2. st.safe.threshold = t
    <3> HIDE DEF st
    <3> QED
      BY <1>7
  <2> HIDE DEF st
  <2> QED
    BY <1>7, <2>1, <2>2
<1>10. SyncOwners(s, desired, target) = [owners |-> l, threshold |-> target]
  <2>1. CASE t = target
    BY <1>9, <2>1
  <2>2. CASE t # target
    <3>1. ChangeThreshold([owners |-> l, threshold |-> t], target) =
            [owners |-> l, threshold |-> target]
      BY <1>8 DEF ChangeThreshold
    <3>2. t # 0
      BY <1>7, <1>8, <1>1
    <3> QED
      BY <1>9, <2>2, <3>1, <3>2
  <2> QED
    BY <2>1, <2>2
<1> HIDE DEF D, S, R, A, st
<1>11. target \in Int
  BY <1>1
<1> QED
  BY <1>7, <1>8, <1>10, <1>11 DEF WellFormed, D

\* A call of the Safe that goes through leaves it well-formed.
LEMMA CallKeepsSafe ==
    ASSUME NEW s, WellFormed(s, Owners), NEW call, Accepted(call),
           SafeAfter(s, call) # Reverted
    PROVE  WellFormed(SafeAfter(s, call), Owners)
<1>1. PICK l, t : /\ s = [owners |-> l, threshold |-> t]
                  /\ l \in Listing(Owners) /\ t \in Int /\ t \in 1..Len(l)
  BY DEF WellFormed
<1>2. s.owners = l /\ s.threshold = t /\ Len(l) \in Nat
  BY <1>1 DEF Listing
<1>3. CASE call.op = "addOwner"
  <2>1. call.owner \in Owners
    BY <1>3 DEF Accepted
  <2>2. /\ SafeAfter(s, call) = [owners |-> <<call.owner>> \o l, threshold |-> call.threshold]
        /\ call.owner \notin ToSet(l) /\ call.threshold \in 1..(Len(l) + 1)
    BY <1>2, <1>3 DEF SafeAfter, AddOwnerWithThreshold
  <2>3. /\ <<call.owner>> \o l \in Listing(Owners)
        /\ Len(<<call.owner>> \o l) = Len(l) + 1
    BY <1>1, <2>1, <2>2, PrependSelects
  <2>4. PICK m : m = <<call.owner>> \o l
    OBVIOUS
  <2> QED
    BY <1>2, <2>2, <2>3, <2>4 DEF WellFormed
<1>4. CASE call.op = "removeOwner"
  <2>1. /\ SafeAfter(s, call) = [owners |-> Without(l, {call.owner}), threshold |-> call.threshold]
        /\ Precedes(l, PrevOwner(l, call.owner), call.owner)
        /\ call.threshold \in 1..(Len(l) - 1)
    BY <1>2, <1>4 DEF SafeAfter, RemoveOwner
  <2>2. call.owner \in ToSet(l)
    BY <2>1 DEF Precedes, ToSet
  <2>3. /\ Without(l, {call.owner}) \in Listing(Owners)
        /\ Len(Without(l, {call.owner})) = Len(l) - 1
    BY <1>1, <2>2, WithoutSelects, WithoutOneLength
  <2> QED
    BY <1>2, <2>1, <2>3 DEF WellFormed
<1>5. CASE call.op = "changeThreshold"
  <2>1. SafeAfter(s, call) = [s EXCEPT !.threshold = call.threshold] /\ call.threshold \in 1..Len(l)
    BY <1>2, <1>5 DEF SafeAfter, ChangeThreshold
  <2>2. SafeAfter(s, call) = [owners |-> l, threshold |-> call.threshold]
    BY <1>1, <2>1
  <2> QED
    BY <1>1, <1>2, <2>1, <2>2 DEF WellFormed
<1>6. CASE call.op \notin {"addOwner", "removeOwner", "changeThreshold"}
  <2>1. SafeAfter(s, call) = s
    BY <1>6 DEF SafeAfter
  <2> QED
    BY <2>1
<1> QED
  BY <1>3, <1>4, <1>5, <1>6

\* A list _validateAndRoot accepts repeats no address.
LEMMA CanonicalIsListing ==
    ASSUME NEW desired \in Canonical, NEW target \in 2..Len(desired)
    PROVE  /\ desired \in Listing(Addresses) /\ target \in 1..Len(desired)
           /\ SafeAddress \notin ToSet(desired) => desired \in Listing(Owners)
<1>1. PICK n \in 2..MaxSigners : desired \in [1..n -> Addresses]
  BY DEF Canonical
<1>2. n \in Nat /\ desired \in Seq(Addresses) /\ Len(desired) = n /\ DOMAIN desired = 1..n
  BY <1>1
<1>3. \A i, j \in 1..n : i < j => desired[i] < desired[j]
  BY <1>2 DEF Canonical
<1>4. ASSUME NEW i \in 1..n, NEW j \in 1..n, desired[i] = desired[j] PROVE i = j
  <2>1. desired[i] \in Nat /\ desired[j] \in Nat
    BY <1>1, SafeAssumption DEF Addresses
  <2>2. ~(desired[i] < desired[j]) /\ ~(desired[j] < desired[i])
    BY <1>4, <2>1
  <2> QED
    BY <1>2, <1>3, <2>2
<1>5. ASSUME SafeAddress \notin ToSet(desired) PROVE desired \in Seq(Owners)
  <2>1. \A i \in 1..n : desired[i] \in Owners
    BY <1>1, <1>2, <1>5 DEF Addresses, ToSet
  <2> QED
    BY <1>2, <2>1
<1> QED
  BY <1>2, <1>4, <1>5 DEF Listing

LEMMA SafeStaysWellFormed == Spec => []WellFormed(safe, Owners)
<1>1. Init => WellFormed(safe, Owners)
  <2> SUFFICES ASSUME Init PROVE WellFormed(safe, Owners)
    OBVIOUS
  <2>1. PICK o \in Creators : safe = [owners |-> <<o>>, threshold |-> 1]
    BY DEF Init
  <2>2. o \in Owners
    BY SafeAssumption
  <2>3. <<o>> \in Listing(Owners) /\ Len(<<o>>) = 1
    BY <2>2 DEF Listing
  <2> QED
    BY <2>1, <2>3 DEF WellFormed
<1>2. WellFormed(safe, Owners) /\ [Next]_vars => WellFormed(safe, Owners)'
  <2> SUFFICES ASSUME WellFormed(safe, Owners), [Next]_vars
               PROVE  WellFormed(safe', Owners)
    BY DEF WellFormed
  <2>1. CASE safe' = safe
    BY <2>1
  <2>2. ASSUME NEW module, NEW call, NEW qs, ExecFromModule(module, call, qs)
        PROVE  WellFormed(safe', Owners)
    BY <2>2, CallKeepsSafe DEF ExecFromModule, Succeeds
  <2>3. ASSUME NEW c, NEW a, NEW desired \in Canonical, NEW target \in 2..Len(desired),
               SubmitSignerProof(c, a, desired, target)
        PROVE  WellFormed(safe', Owners)
    <3>1. safe' = SyncOwners(safe, desired, target) /\ safe' # Reverted
      BY <2>3 DEF SubmitSignerProof
    <3>2. SafeAddress \notin ToSet(desired)
      BY <3>1, CanonicalIsListing, SelfReverts, SafeAssumption DEF Addresses
    <3> QED
      BY <3>1, <3>2, CanonicalIsListing, SyncLands, SafeAssumption
  <2>4. \/ safe' = safe
        \/ \E module, call, qs : ExecFromModule(module, call, qs)
        \/ \E c, a : \E desired \in Canonical : \E target \in 2..Len(desired) :
              SubmitSignerProof(c, a, desired, target)
    <3>1. CASE Next
      BY <3>1, Zenon DEF Next, Tick, Schedule, Cancel, Renounce, ExecuteScheduled,
                         ExecuteNow, MembersDecide
    <3>2. CASE UNCHANGED vars
      BY <3>2 DEF vars
    <3> QED
      BY <3>1, <3>2
  <2> QED
    BY <2>1, <2>2, <2>3, <2>4
<1> QED
  BY <1>1, <1>2, PTL DEF Spec

\* Whatever governance and earlier rotations have left, the next rotation of
\* _syncOwners goes through and lands on the proven selection, or reverts as a
\* whole when the selection names the Safe itself.
THEOREM RotationsAlwaysLand == Spec => []RotationsLand
<1>1. ASSUME WellFormed(safe, Owners) PROVE RotationsLand
  <2> SUFFICES ASSUME NEW desired \in Canonical, NEW target \in 2..Len(desired)
               PROVE  LET after == SyncOwners(safe, desired, target)
                      IN  IF SafeAddress \in ToSet(desired)
                          THEN after = Reverted
                          ELSE /\ ToSet(after.owners) = ToSet(desired)
                               /\ Len(after.owners) = Len(desired)
                               /\ after.threshold = target
    BY DEF RotationsLand
  <2>1. CASE SafeAddress \in ToSet(desired)
    BY <1>1, <2>1, CanonicalIsListing, SelfReverts, SafeAssumption DEF Addresses
  <2>2. CASE SafeAddress \notin ToSet(desired)
    BY <1>1, <2>2, CanonicalIsListing, SyncLands, SafeAssumption
  <2> QED
    BY <2>1, <2>2
<1> QED
  BY <1>1, SafeStaysWellFormed, PTL

=============================================================================
