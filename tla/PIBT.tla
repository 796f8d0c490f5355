-------------------------------- MODULE PIBT --------------------------------
(***************************************************************************)
(* Priority inheritance with backtracking, by which the default planner    *)
(* turns guide paths into one action per agent (causalPIBT and getAction   *)
(* in default_planner/pibt.cpp, called by plan and plan_pibt in            *)
(* default_planner/planner.cpp).                                           *)
(*                                                                         *)
(* Agents choose their next cells in the order of their priorities.  An    *)
(* agent that wants the cell of one that has not chosen yet makes that one *)
(* choose first; if it finds no cell it stays, and the agent that pushed   *)
(* it tries its next best cell.  The recursion is a stack of frames here.  *)
(*                                                                         *)
(* A step is one iteration of the loop over the successors of a cell.      *)
(***************************************************************************)
EXTENDS GuidePath

CONSTANTS
  Guides,     \* the values get_gp_h may have: agent -> cell -> distance still to go
  Orders,     \* the orders of the agents by priority, highest first
  Placements  \* the locations of the agents at the start

ASSUME GuidesAssumption == Guides \subseteq [Agent -> [Free -> Nat]]
ASSUME OrdersAssumption ==
  \A order \in Orders : /\ order \in [1 .. NumAgents -> Agent]
                        /\ \A a \in Agent : \E k \in 1 .. NumAgents : order[k] = a
ASSUME PlacementsAssumption ==
  \A s \in Placements : /\ s \in [Agent -> Free]
                        /\ \A a, b \in Agent : s[a] = s[b] => a = b

VARIABLES
  phase,        \* "idle", "planning" or "planned"
  ids,          \* the agents by priority
  guide,
  turn,         \* the index in ids of the agent that chooses
  stack,        \* the calls of causalPIBT that have not returned
  prev_states,  \* where the agents are
  next_states,  \* where they will be, or None
  decision,     \* cell -> the agent that will be there, or None
  actions

vars == << phase, ids, guide, turn, stack, prev_states, next_states, decision, actions >>

-----------------------------------------------------------------------------
\* prev_decision: the agent that is in a cell.
Occupant(c) ==
  IF \E a \in Agent : prev_states[a] = c THEN CHOOSE a \in Agent : prev_states[a] = c ELSE None

Frame(agent, higher) ==
  [agent |-> agent, higher |-> higher, left |-> Successors(prev_states[agent])]

Top == stack[Len(stack)]
Below == SubSeq(stack, 1, Len(stack) - 1)

\* The stack when the top call is done with a candidate.
Tried(c) == [stack EXCEPT ![Len(stack)].left = @ \ {c}]

\* The sort forgets the heuristic.
BestUnsorted(a, cells) == cells

\* The candidates that may come first: ties are broken at random.
Best(a, cells) == {c \in cells : \A d \in cells : guide[a][c] <= guide[a][d]}

\* Agents may exchange their cells.
BlockedByTaken(c) == decision[c] # None

Blocked(c) ==
  \/ decision[c] # None
  \/ Top.higher # None /\ Occupant(c) = Top.higher

-----------------------------------------------------------------------------
Init ==
  /\ phase = "idle"
  /\ ids \in Orders
  /\ guide \in Guides
  /\ turn = 1
  /\ stack = << >>
  /\ prev_states \in Placements
  /\ next_states = [a \in Agent |-> None]
  /\ decision = [c \in Free |-> None]
  /\ actions = [a \in Agent |-> "WA"]

\* The preparation of a call of plan.
Start ==
  /\ phase = "idle"
  /\ phase' = "planning"
  /\ ids' \in Orders
  /\ guide' \in Guides
  /\ turn' = 1
  /\ next_states' = [a \in Agent |-> None]
  /\ UNCHANGED << stack, prev_states, decision, actions >>

\* The next agent by priority: it has been pushed and has chosen ...
Pass ==
  /\ phase = "planning" /\ stack = << >> /\ turn <= NumAgents
  /\ next_states[ids[turn]] # None
  /\ turn' = turn + 1
  /\ UNCHANGED << phase, ids, guide, stack, prev_states, next_states, decision, actions >>

\* ... or it chooses now.
Call ==
  /\ phase = "planning" /\ stack = << >> /\ turn <= NumAgents
  /\ next_states[ids[turn]] = None
  /\ stack' = << Frame(ids[turn], None) >>
  /\ UNCHANGED << phase, ids, guide, turn, prev_states, next_states, decision, actions >>

\* A candidate that is not dropped from the list is met again.
SkipKept ==
  /\ phase = "planning" /\ stack # << >>
  /\ \E c \in Best(Top.agent, Top.left) : Blocked(c)
  /\ UNCHANGED vars

\* The next candidate is decided, or is the cell of the agent that pushes.
Skip ==
  /\ phase = "planning" /\ stack # << >>
  /\ \E c \in Best(Top.agent, Top.left) :
       /\ Blocked(c)
       /\ stack' = Tried(c)
  /\ UNCHANGED << phase, ids, guide, turn, prev_states, next_states, decision, actions >>

\* The next candidate is taken.  If an agent is there that has not chosen, it is pushed;
\* otherwise this call succeeds, and with it all that wait for it.
Take ==
  /\ phase = "planning" /\ stack # << >>
  /\ \E c \in Best(Top.agent, Top.left) :
       /\ ~ Blocked(c)
       /\ next_states' = [next_states EXCEPT ![Top.agent] = c]
       /\ decision' = [decision EXCEPT ![c] = Top.agent]
       /\ IF Occupant(c) # None /\ next_states'[Occupant(c)] = None
            THEN stack' = Append(Tried(c), Frame(Occupant(c), Top.agent))
            ELSE stack' = << >>
  /\ UNCHANGED << phase, ids, guide, turn, prev_states, actions >>

\* No candidate is left: the agent stays, and the call fails.
Fail ==
  /\ phase = "planning" /\ stack # << >>
  /\ Top.left = {}
  /\ next_states' = [next_states EXCEPT ![Top.agent] = prev_states[Top.agent]]
  /\ decision' = [decision EXCEPT ![prev_states[Top.agent]] = Top.agent]
  /\ stack' = Below
  /\ UNCHANGED << phase, ids, guide, turn, prev_states, actions >>

getAction(from, to) ==
  LET diff == to - from
  IN  IF diff = 1 THEN "E" ELSE IF diff = -1 THEN "WE" ELSE IF diff > 0 THEN "S"
      ELSE IF diff = 0 THEN "WA" ELSE "N"

\* The cells that agents leave are cleared, not those they go to.
FinishUncleared ==
  /\ phase = "planning" /\ stack = << >> /\ turn > NumAgents
  /\ phase' = "planned"
  /\ decision' = [c \in Free |-> IF \E a \in Agent : prev_states[a] = c THEN None ELSE decision[c]]
  /\ actions' = [a \in Agent |-> getAction(prev_states[a], next_states[a])]
  /\ UNCHANGED << ids, guide, turn, stack, prev_states, next_states >>

\* All have chosen: the table is cleared and the cells become actions.
Finish ==
  /\ phase = "planning" /\ stack = << >> /\ turn > NumAgents
  /\ phase' = "planned"
  /\ decision' = [c \in Free |-> IF \E a \in Agent : next_states[a] = c THEN None ELSE decision[c]]
  /\ actions' = [a \in Agent |-> getAction(prev_states[a], next_states[a])]
  /\ UNCHANGED << ids, guide, turn, stack, prev_states, next_states >>

\* The simulator takes the actions or refuses them.
Execute ==
  /\ phase = "planned"
  /\ phase' = "idle"
  /\ prev_states' = IF is_valid(prev_states, actions) THEN result_states(prev_states, actions)
                                                       ELSE prev_states
  /\ UNCHANGED << ids, guide, turn, stack, next_states, decision, actions >>

Plan == Pass \/ Call \/ Skip \/ Take \/ Fail \/ Finish

Next == Start \/ Plan \/ Execute

\* The planner is one thread that runs to its end.
Spec == Init /\ [][Next]_vars /\ WF_vars(Plan)
-----------------------------------------------------------------------------
\* Types.
TypeOK ==
  /\ phase \in {"idle", "planning", "planned"}
  /\ ids \in Orders
  /\ guide \in Guides
  /\ turn \in 1 .. NumAgents + 1
  /\ stack \in Seq([agent : Agent, higher : Agent \cup {None}, left : SUBSET Free])
  /\ prev_states \in [Agent -> Free]
  /\ next_states \in [Agent -> Free \cup {None}]
  /\ decision \in [Free -> Agent \cup {None}]
  /\ actions \in [Agent -> Action]

\* Whatever the guide paths and the priorities are, and however often the search turns
\* back, the plan is one that the simulator executes: no two agents meet in a cell or
\* exchange their cells.
PlanLegal == phase = "planned" => is_valid(prev_states, actions)

\* The actions do what the search decided.
PlanAsDecided ==
  phase = "planned" => result_states(prev_states, actions) = next_states

\* The table of decided cells outlives the call: an entry that stays would keep a cell
\* closed in all later timesteps.
DecisionCleared == phase # "planning" => \A c \in Free : decision[c] = None

\* Every two neighbouring cells are on a cycle: from either one can get to the other without
\* stepping there directly.
OnCycles ==
  \A v \in Free : \A c \in Neighbors(v) : \A reached \in SUBSET Free :
    /\ c \in reached
    /\ \A u \in reached : \A w \in Neighbors(u) : << u, w >> # << c, v >> => w \in reached
    => v \in reached

\* The agent with the highest priority comes closer to its goal in every timestep, whoever
\* is in its way.  This is what PIBT promises on maps where every pair of neighbours is on
\* a cycle, and what keeps a crowd from standing still for ever.
TopAgentAdvances ==
  phase = "planned" =>
    LET top == ids[1] IN
    \/ \A c \in Successors(prev_states[top]) : guide[top][prev_states[top]] <= guide[top][c]
    \/ guide[top][next_states[top]] < guide[top][prev_states[top]]

\* The search ends: no agent is pushed twice in one timestep.
PlanReturned == (phase = "planning") ~> (phase = "planned")

=============================================================================
