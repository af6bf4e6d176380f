------------------------------- MODULE BoardLink -------------------------------
(***************************************************************************)
(* The SSH connection an evaluation campaign keeps open to its board (the   *)
(* `async with connect_board(...)` around a runner).  A wedged board does   *)
(* not answer: a command ends in BoardError at the client's deadline        *)
(* (runner.py:108-113).  A rebooted one takes the connection with it: a     *)
(* command raises asyncssh.Error, which the runner does not turn into a     *)
(* BoardError, and no campaign reconnects.                                  *)
(***************************************************************************)

VARIABLE link   \* the connection: "up", "silent" or "lost"

LinkStates == {"up", "silent", "lost"}

\* A wedged board may come back, a lost connection does not.
LinkStep ==
  /\ link # "lost"
  /\ link' \in LinkStates \ {link}
=============================================================================
