------------------------------ MODULE UserStop ------------------------------
(***************************************************************************)
(* AppLifecycle with one more observation: whether the last thing anyone   *)
(* asked of the app is a stop command that the agent has finished.         *)
(***************************************************************************)
EXTENDS AppLifecycle

VARIABLE stopped

\* A goroutine of a stop command ran stopApp to its end.
StopReturns ==
  \E w \in Goroutines :
    /\ g[w].role = "stop" /\ g[w].cmd # None
    /\ g[w].pc \in {"take", "clearPid"} /\ g'[w].pc = "idle" /\ agent' = "up"

InitStop == Init /\ stopped = FALSE

NextStop ==
  /\ Next
  /\ stopped' = IF StopReturns THEN TRUE
                ELSE IF inputs' # inputs THEN FALSE ELSE stopped

StopSpec == InitStop /\ [][NextStop]_<<vars, stopped>>

(* stopApp: "a user stop always wins".  After it has returned, and until   *)
(* somebody asks for something else, the app is not running.               *)
UserStopWins == stopped => ~Alive(current)
=============================================================================
