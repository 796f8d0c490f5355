--------------------------- MODULE TaskLifecycle ---------------------------
(***************************************************************************)
(* What the start kit promises about one errand task, seen from outside:   *)
(* a task is revealed, may be handed from agent to agent as long as nobody *)
(* has reached its first errand, belongs to one agent for good from then   *)
(* on, and is finished once, by that agent.  An agent holds one task at a  *)
(* time.  TaskManager implements this specification.                       *)
(***************************************************************************)
CONSTANTS Task,   \* the task ids
          Agent,  \* the agents of the team
          Nobody  \* stands for "no agent"; it is not in Agent

VARIABLE status   \* status[t]: the phase of task t and the agent it is with

Phase == {"unrevealed", "waiting", "assigned", "opened", "finished"}
Status == [phase : Phase, agent : Agent \cup {Nobody}]

Held == {"assigned", "opened"}

\* Only a task nobody works on has no agent.
WellFormed(s) == s.agent = Nobody <=> s.phase \in {"unrevealed", "waiting"}

\* An agent is busy with at most one task.
OneTaskPerAgent(st) ==
  \A t, u \in Task : /\ st[t].phase \in Held
                     /\ st[u].phase \in Held
                     /\ st[t].agent = st[u].agent
                     => t = u

\* The ways the status of one task may change in one timestep.
Evolves(s, r) ==
  \/ s.phase = "unrevealed" /\ r.phase \in {"unrevealed", "waiting"}
  \/ s.phase \in {"waiting", "assigned"} /\ r.phase # "unrevealed"
  \/ s.phase = "opened" /\ r.phase \in {"opened", "finished"} /\ r.agent = s.agent
  \/ s.phase = "finished" /\ r = s

Init ==
  /\ status \in [Task -> Status]
  /\ \A t \in Task : /\ status[t].phase \in {"unrevealed", "waiting"}
                     /\ WellFormed(status[t])

Next ==
  /\ status' \in [Task -> Status]
  /\ \A t \in Task : WellFormed(status'[t]) /\ Evolves(status[t], status'[t])
  /\ OneTaskPerAgent(status')

Spec == Init /\ [][Next]_status

=============================================================================
