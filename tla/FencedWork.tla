----------------------------- MODULE FencedWork -----------------------------
(* What the queue of technical tasks promises about its workers, whatever the  *)
(* clock, the network and the reaper do: work is granted under a token that     *)
(* only grows, and of the results sent under one token at most one is accepted, *)
(* from the holder and never after a later token's.                             *)
EXTENDS Naturals, Sequences

CONSTANTS
  Tasks,
  Workers,
  Nobody      \* the holder of a task that is not out on a lease

VARIABLES
  holder,     \* task -> the worker it is out to
  token,      \* task -> the fencing token of the last grant
  results     \* task -> the tokens whose result was accepted, in order

vars == <<holder, token, results>>

Init ==
  /\ holder = [t \in Tasks |-> Nobody]
  /\ token = [t \in Tasks |-> 0]
  /\ results = [t \in Tasks |-> <<>>]

\* A worker gets the task, possibly from one whose lease ran out.
Grant(t, w) ==
  /\ holder' = [holder EXCEPT ![t] = w]
  /\ token' = [token EXCEPT ![t] = @ + 1]
  /\ UNCHANGED results

\* The task is taken back; the token may be spent in doing so.
Revoke(t) ==
  /\ holder' = [holder EXCEPT ![t] = Nobody]
  /\ token' \in {token, [token EXCEPT ![t] = @ + 1]}
  /\ UNCHANGED results

\* The holder's result is accepted, and the task is no longer out.
Accept(t) ==
  /\ holder[t] # Nobody
  /\ holder' = [holder EXCEPT ![t] = Nobody]
  /\ results' = [results EXCEPT ![t] = Append(@, token[t])]
  /\ UNCHANGED token

Next ==
  \E t \in Tasks :
    \/ \E w \in Workers : Grant(t, w)
    \/ Revoke(t)
    \/ Accept(t)

Spec == Init /\ [][Next]_vars
=============================================================================
