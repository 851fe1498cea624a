--------------------------- MODULE MCChainAccess ----------------------------
(***************************************************************************)
(* Instances of ChainAccess for TLC: what three greenlets call, and what   *)
(* the partners and the services may do meanwhile.                         *)
(***************************************************************************)
EXTENDS ChainAccess

CONSTANTS p1, p2, s1, s2

MCCall(op, partner, amount) ==
  [op |-> op, partner |-> partner, amount |-> amount, secrets |-> {}]

MCRegister(secrets) == [op |-> "register", partner |-> p1, amount |-> 0, secrets |-> secrets]

MCScenario(state, closer, threads, ops) ==
  [channel |-> Channel(state, closer), calls |-> threads, others |-> ops]

MCScenarios ==
  { \* deposits in two channels
    MCScenario(OPENED, "none",
               <<MCCall("deposit", p1, 2), MCCall("deposit", p2, 1)>>, {"close", "deprecate"}),
    \* the end of a channel, and what is under way then
    MCScenario(OPENED, "none",
               <<MCCall("close", p1, 0), MCCall("withdraw", p1, 1)>>, {"close", "coop_settle"}),
    MCScenario(OPENED, "none",
               <<MCCall("close", p1, 0), MCCall("coop_settle", p1, 0), MCCall("deposit", p1, 1)>>,
               {}),
    \* what follows a close by the partner
    MCScenario(CLOSED, "partner",
               <<MCCall("update", p1, 1), MCCall("settle", p1, 0), MCCall("unlock", p1, 0)>>,
               {"update", "settle", "unlock"}),
    \* a new channel
    MCScenario(NONEXISTENT, "none",
               <<MCCall("open", p1, 0), MCCall("open", p1, 0), MCCall("deposit", p1, 1)>>,
               {"open", "deprecate"}),
    \* registrations
    MCScenario(NONEXISTENT, "none",
               <<MCRegister({s1}), MCRegister({s1, s2}), MCRegister({s2})>>, {}),
    MCScenario(NONEXISTENT, "none",
               <<MCRegister({s1}), MCRegister({s1, s2})>>, {"register"}) }
=============================================================================
