---------------------------- MODULE MCSockClient ----------------------------
(***************************************************************************)
(* SockClient for TLC: the clients and surroundings that the runs look at. *)
(***************************************************************************)
EXTENDS SockClient, TLC

S(heartbeat, linkFails, threadsFail, nStarts, nCommands, nResponses) ==
  [heartbeat |-> heartbeat, linkFails |-> linkFails, threadsFail |-> threadsFail,
   starts |-> nStarts, commands |-> nCommands, responses |-> nResponses]

Busy == S(TRUE, FALSE, FALSE, 2, 2, 0)   \* restarts around two commands
Told == S(TRUE, FALSE, FALSE, 2, 0, 2)   \* restarts around two answers
Lossy == S(TRUE, TRUE, FALSE, 1, 0, 2)   \* the network fails around two answers
Lost == S(TRUE, TRUE, FALSE, 1, 1, 0)    \* the network fails, maybe for good
Poor == S(TRUE, FALSE, TRUE, 2, 1, 0)    \* threads cannot be created, nor waited for
Once == S(TRUE, FALSE, FALSE, 1, 1, 1)   \* started once, and nothing fails
Plain == S(FALSE, FALSE, FALSE, 1, 1, 0) \* the same without a heartbeat

SafetySetups == {Busy, Told, Lossy, Lost, Poor, Once}
LiveSetups == {Once, Plain}
PlainSetups == {Plain}
LostSetups == {Lost}

Symmetric == Permutations(Commands)
=============================================================================
