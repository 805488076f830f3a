------------------------------- MODULE MCPoll -------------------------------
(* Poll alone, for what poll.h says of a timeout. *)
EXTENDS Poll, TLC

WatchedFds == 0 :> "stdin" @@ 3 :> "pipe"
Waits      == {Forever, 0, 2}
=============================================================================
