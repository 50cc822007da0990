--------------------------- MODULE MCGovernedSafe ---------------------------
(***************************************************************************)
(* A small network's Safe: a parent and a rival for its powers, and calls  *)
(* with which each route can act on the others.                            *)
(***************************************************************************)
EXTENDS GovernedSafe

\* Two accumulators, one with checkpoints already, and two activity sources.
MCCheckpoints == [lane |-> <<1, 2>>, spare |-> <<2>>]
MCActivityTimes == [log |-> <<0>>, newLog |-> <<1>>]

Appoint(q, p) == [op |-> "appoint", queue |-> q, to |-> p]
Veto(q, n) == [op |-> "cancel", queue |-> q, nonce |-> n]
Module(op, m) == [op |-> op, module |-> m]
Knob(op, to) == [op |-> op, to |-> to]
OwnerCall(op, o, th) == [op |-> op, owner |-> o, threshold |-> th]

MCMemberCalls ==
    {Appoint(q, p) : q \in Queues, p \in Principals}
        \cup {Veto("recovery", 0), Module("disable", "recovery"),
              Knob("setPaused", TRUE), Knob("setPolicy", 1),
              Knob("setSource", "newLog"), Knob("setAccumulator", "spare"),
              OwnerCall("addOwner", 3, 1), OwnerCall("removeOwner", 2, 1),
              [op |-> "changeThreshold", threshold |-> 3]}

MCQueueCalls ==
    [recovery |-> {Veto("parent", 0)},
     parent |-> {Appoint("recovery", p) : p \in Principals}]

MCMaxNonce == [recovery |-> 2, parent |-> 1]
Symmetry == Permutations(Principals)

=============================================================================
