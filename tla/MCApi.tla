------------------------------- MODULE MCApi -------------------------------
(***************************************************************************)
(* Api for TLC.                                                            *)
(***************************************************************************)
EXTENDS Api

CONSTANT s

Created == Event("TokenNetworkCreated", 0, "partner", 0)
Opened(id) == Event("ChannelOpened", id, "partner", 0)

Scenario(history, types, blocks, ops, number) ==
    [history |-> history, types |-> types, blocks |-> blocks, ops |-> ops, calls |-> number,
     reorgs |-> 0, restarts |-> 0, timeouts |-> 0, crashes |-> 0, quiet |-> 8, pairs |-> FALSE]

\* The life of channels seen by a node that fails.
FollowTypes == {"TokenNetworkCreated", "ChannelOpened", "ChannelNewDeposit", "ChannelClosed",
                "ChannelSettled", "ChannelUnlocked", "SecretRevealed"}

\* A node that fails follows three blocks of two logs, or four of one.
Failing(scenario) ==
    [scenario EXCEPT !.restarts = 1, !.timeouts = 1, !.crashes = 1, !.reorgs = 1, !.quiet = 2]

MCScenarios ==
    {[Failing(Scenario(<<>>, FollowTypes, 3, {}, 0)) EXCEPT !.pairs = TRUE],
     [Failing(Scenario(<<Created>>, FollowTypes, 4, {}, 0)) EXCEPT !.reorgs = 0, !.timeouts = 2],
     Scenario(<<>>, {"TokenNetworkCreated", "ChannelOpened"}, 3, {"register", "open"}, 2),
     Scenario(<<Created>>, {"ChannelOpened", "ChannelClosed", "ChannelSettled"}, 2, {"open", "deposit"}, 2),
     Scenario(<<Created, Opened(1)>>, {"ChannelClosed", "ChannelSettled", "ChannelOpened"}, 3,
              {"deposit", "close"}, 2),
     Scenario(<<Created, Opened(1), Event("ChannelNewDeposit", 1, "partner", 2)>>,
              {"ChannelWithdraw", "ChannelClosed"}, 2, {"withdraw", "leave"}, 2)}

=============================================================================
