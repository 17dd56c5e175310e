----------------------------- MODULE ShellCalls -----------------------------
(***************************************************************************)
(* What the bash tool promises its caller, whatever queue, worker or crash *)
(* is between the call and the command: a command starts only after it has *)
(* been vetted, a call is answered at most once, the answer "result" means *)
(* that a runner is done with the command (its run ended, or the runner    *)
(* gave it up: it could not start it, or could not kill it at its time     *)
(* limit), and the only answer after which the command may still start is  *)
(* "crashed".  A command given up at its limit may still be running.       *)
(***************************************************************************)
CONSTANTS Calls,    \* calls of the tool
          Runners   \* processes that may run a command

VARIABLES answer,   \* what the caller has been told, or how far the call is
          started,  \* the runners that have started the command
          ended,    \* the runners whose command has ended
          givenUp   \* the runners that gave up a command that has not ended

abstractVars == <<answer, started, ended, givenUp>>

Init ==
  /\ answer = [c \in Calls |-> "unvetted"]
  /\ started = [c \in Calls |-> {}]
  /\ ended = [c \in Calls |-> {}]
  /\ givenUp = [c \in Calls |-> {}]

Vet(c) ==
  /\ answer[c] = "unvetted"
  /\ \E a \in {"vetted", "rejected"} : answer' = [answer EXCEPT ![c] = a]
  /\ UNCHANGED <<started, ended, givenUp>>

Start(r, c) ==
  /\ answer[c] \in {"vetted", "crashed"}
  /\ r \notin started[c] \cup givenUp[c]
  /\ started' = [started EXCEPT ![c] = @ \cup {r}]
  /\ UNCHANGED <<answer, ended, givenUp>>

\* A runner cannot start the command, or cannot kill the one it started.
GiveUp(r, c) ==
  /\ answer[c] \in {"vetted", "crashed"}
  /\ r \notin ended[c] \cup givenUp[c]
  /\ givenUp' = [givenUp EXCEPT ![c] = @ \cup {r}]
  /\ UNCHANGED <<answer, started, ended>>

End(r, c) ==
  /\ r \in started[c] \ ended[c]
  /\ ended' = [ended EXCEPT ![c] = @ \cup {r}]
  /\ givenUp' = [givenUp EXCEPT ![c] = @ \ {r}]
  /\ UNCHANGED <<answer, started>>

Report(c) ==
  /\ answer[c] = "vetted"
  /\ \E a \in {"result", "crashed", "failed"} :
       /\ a = "result" => ended[c] \cup givenUp[c] # {}
       /\ answer' = [answer EXCEPT ![c] = a]
  /\ UNCHANGED <<started, ended, givenUp>>

Next ==
  \/ \E c \in Calls : Vet(c) \/ Report(c)
  \/ \E r \in Runners, c \in Calls : Start(r, c) \/ GiveUp(r, c) \/ End(r, c)

Spec == Init /\ [][Next]_abstractVars
=============================================================================
