------------------------------ MODULE JobQueue ------------------------------
(* What the queue of ops jobs promises whoever asks for a job by its stable  *)
(* id: the id waits until a worker takes it, goes back to waiting when the   *)
(* worker dies, is attempted a bounded number of times, and is let go of     *)
(* only after an attempt was made.                                           *)
EXTENDS Naturals

CONSTANTS Jobs, MaxTries

VARIABLES state,     \* id |-> "none", "asked" or "taken"
          attempts   \* id |-> the attempts begun since it was asked for

queueVars == <<state, attempts>>

QueueInit ==
    /\ state = [j \in Jobs |-> "none"]
    /\ attempts = [j \in Jobs |-> 0]

Moves(j, from, to) == state[j] = from /\ state' = [state EXCEPT ![j] = to]

\* An id that waits or is at work is not asked for a second time.
Ask(j) == Moves(j, "none", "asked") /\ UNCHANGED attempts

Take(j) == Moves(j, "asked", "taken") /\ UNCHANGED attempts

Attempt(j) ==
    /\ state[j] = "taken" /\ attempts[j] < MaxTries
    /\ attempts' = [attempts EXCEPT ![j] = @ + 1]
    /\ UNCHANGED state

\* The worker dies: what it had taken waits again.
Interrupt ==
    /\ state' = [j \in Jobs |-> IF state[j] = "taken" THEN "asked" ELSE state[j]]
    /\ UNCHANGED attempts

LetGo(j) ==
    /\ attempts[j] > 0 /\ Moves(j, "taken", "none")
    /\ attempts' = [attempts EXCEPT ![j] = 0]

QueueNext ==
    \/ \E j \in Jobs : Ask(j) \/ Take(j) \/ Attempt(j) \/ LetGo(j)
    \/ Interrupt

QueueSpec == QueueInit /\ [][QueueNext]_queueVars
=============================================================================
