----------------------------- MODULE RequestReply -----------------------------
(***************************************************************************)
(* What send_cmd_cci promises its caller, whatever the transport: one      *)
(* command at a time, and each call returns once, with a failure or with   *)
(* the answer to that very command.                                        *)
(***************************************************************************)
EXTENDS Integers

CONSTANTS
  Commands,   \* the commands that may be sent
  Attempts,   \* those a caller may ask for
  Nothing     \* no command

VARIABLES
  busy,    \* a call is under way
  cur,     \* its command
  result   \* [rc, req, from]: what the last call returned, and on whose answer

vars == <<busy, cur, result>>

\* The call for c failed.
Failed(r, c) == r.rc < 0 /\ r.req = c

Init == ~busy /\ cur = Nothing /\ Failed(result, Nothing)

\* The result of the call before is gone once the next one is made.
Call ==
  /\ ~busy /\ busy' = TRUE
  /\ cur' \in Commands
  /\ Failed(result', Nothing)

\* Nothing is sent.
Refuse ==
  /\ ~busy /\ UNCHANGED <<busy, cur>>
  /\ result'.req \in Attempts /\ Failed(result', result'.req)

\* The code of the answer to the command itself.
Answer ==
  /\ busy /\ busy' = FALSE /\ cur' = Nothing
  /\ result'.rc >= 0 /\ result'.req = cur /\ result'.from = cur

\* The answer is missing or not accepted; whose was read does not matter.
Fail == busy /\ busy' = FALSE /\ cur' = Nothing /\ Failed(result', cur)

Next == Call \/ Refuse \/ Answer \/ Fail

Spec == Init /\ [][Next]_vars
=============================================================================
