---------------------------- MODULE PIBTProofs -----------------------------
(***************************************************************************)
(* Proofs about PIBT, for every map, team, guide and order of the agents.  *)
(*                                                                         *)
(* In the middle of a search the tables disagree: an agent that was pushed *)
(* back keeps a next cell that another has taken. The inductive invariant  *)
(* says how far they may disagree (at the agent on top of the stack only), *)
(* and that nobody but the agent that pushes it wants the cell of an agent *)
(* on the stack. The absence of exchanges rests on that.                   *)
(*                                                                         *)
(* That the first agent comes closer rests on a second invariant: around   *)
(* an agent that failed all cells are decided. If the agent that the first *)
(* one pushed failed too, the decided cells would be a dead end, and there *)
(* is none where every two neighbouring cells are on a cycle.              *)
(***************************************************************************)
EXTENDS PIBT, Lemmas, SequenceTheorems

FrameSet == [agent : Agent, higher : Agent \cup {None}, left : SUBSET Free]

-----------------------------------------------------------------------------
(* The inductive invariant.                                                *)

\* No two agents are in one cell.
Apart == \A a, b \in Agent : prev_states[a] = prev_states[b] => a = b

\* The table of decided cells agrees with the next cells ...
DecidedTaken == \A c \in Free, a \in Agent : decision[c] = a => next_states[a] = c

\* ... and the next cells agree with the table, but for the agent that is still choosing.
TakenDecided ==
  \A a \in Agent : next_states[a] # None =>
    \/ decision[next_states[a]] = a
    \/ stack # << >> /\ a = Top.agent

TopUndecided == stack # << >> => \A c \in Free : decision[c] # Top.agent

\* Every call on the stack was made by the one below it, for the cell that one has taken.
StackChained ==
  \A k \in 1 .. Len(stack) :
    /\ k = 1 => stack[k].higher = None
    /\ k > 1 => /\ stack[k].higher = stack[k - 1].agent
                /\ next_states[stack[k - 1].agent] = prev_states[stack[k].agent]
    /\ k < Len(stack) => /\ next_states[stack[k].agent] # None
                         /\ decision[next_states[stack[k].agent]] = stack[k].agent
    /\ stack[k].left \subseteq Successors(prev_states[stack[k].agent])

\* No agent is called twice.
StackDistinct ==
  \A k, l \in 1 .. Len(stack) : stack[k].agent = stack[l].agent => k = l

\* The cell of an agent on the stack is wanted by the agent that pushes it only ...
WantedByHigher ==
  \A k \in 1 .. Len(stack), b \in Agent :
    next_states[b] = prev_states[stack[k].agent] /\ b # stack[k].agent => b = stack[k].higher

\* ... and an agent whose cell is wanted has chosen or is on the stack.
WantedIsPushed ==
  \A a, b \in Agent :
    next_states[b] = prev_states[a] /\ a # b /\ next_states[a] = None =>
      \E k \in 1 .. Len(stack) : stack[k].agent = a

NoExchange ==
  \A a, b \in Agent : next_states[a] = prev_states[b] /\ next_states[b] = prev_states[a] => a = b

NextReachable ==
  \A a \in Agent : next_states[a] # None => next_states[a] \in Successors(prev_states[a])

EarlierChose == \A k \in 1 .. turn - 1 : next_states[ids[k]] # None

SearchInv ==
  /\ DecidedTaken /\ TakenDecided /\ TopUndecided
  /\ StackChained /\ StackDistinct
  /\ WantedByHigher /\ WantedIsPushed
  /\ NoExchange /\ NextReachable /\ EarlierChose

\* A finished plan: every agent has a cell of its own and actions that lead there.
PlanInv ==
  /\ next_states \in [Agent -> Free]
  /\ \A a, b \in Agent : next_states[a] = next_states[b] => a = b
  /\ PlanLegal /\ PlanAsDecided

RestInv == stack = << >> /\ DecisionCleared

Inv ==
  /\ TypeOK /\ Apart
  /\ phase = "planning" => SearchInv
  /\ phase # "planning" => RestInv
  /\ phase = "planned" => PlanInv

-----------------------------------------------------------------------------
(* Helpers.                                                                *)

\* None is no agent and no cell.
LEMMA NoneIsNothing == None \notin Agent /\ None \notin Free
  BY TeamAssumption, GridAssumption DEF None, Agent, Free, Cell

\* The occupant of a cell is the agent in it, if there is one.
LEMMA OccupantOf ==
  ASSUME TypeOK, Apart, NEW c \in Free
  PROVE  /\ Occupant(c) \in Agent \cup {None}
         /\ \A a \in Agent : prev_states[a] = c <=> Occupant(c) = a
<1>1. CASE \E a \in Agent : prev_states[a] = c
  <2>1. Occupant(c) \in Agent /\ prev_states[Occupant(c)] = c
    BY <1>1, Zenon DEF Occupant
  <2> QED
    BY <2>1, Zenon DEF Apart
<1>2. CASE ~ \E a \in Agent : prev_states[a] = c
  BY <1>2, NoneIsNothing, Zenon DEF Occupant
<1> QED
  BY <1>1, <1>2

\* A cell and those next to it are free.
LEMMA SuccessorsFree ==
  ASSUME NEW c \in Free
  PROVE  Successors(c) \subseteq Free
  BY DEF Successors, Neighbors

\* The new frame of a pushed agent.
LEMMA FrameType ==
  ASSUME TypeOK, NEW a \in Agent, NEW h \in Agent \cup {None}
  PROVE  /\ Frame(a, h) \in FrameSet
         /\ Frame(a, h).agent = a /\ Frame(a, h).higher = h
         /\ Frame(a, h).left = Successors(prev_states[a])
<1>1. Successors(prev_states[a]) \in SUBSET Free
  BY SuccessorsFree DEF TypeOK
<1> QED
  BY <1>1 DEF Frame, FrameSet

\* A new call on top.
LEMMA PushFacts ==
  ASSUME NEW s \in Seq(FrameSet), NEW f \in FrameSet
  PROVE  LET t == Append(s, f)
         IN  /\ t \in Seq(FrameSet) /\ Len(t) = Len(s) + 1 /\ t # << >>
             /\ \A k \in 1 .. Len(s) : t[k] = s[k]
             /\ t[Len(s) + 1] = f
  BY AppendProperties, LenProperties, EmptySeq

\* The calls below the top.
LEMMA PopFacts ==
  ASSUME NEW s \in Seq(FrameSet), s # << >>
  PROVE  LET t == SubSeq(s, 1, Len(s) - 1)
         IN  /\ t \in Seq(FrameSet) /\ Len(t) = Len(s) - 1
             /\ \A k \in 1 .. Len(s) - 1 : t[k] = s[k]
             /\ (t = << >> <=> Len(s) = 1)
<1> DEFINE n == Len(s) - 1
           t == SubSeq(s, 1, n)
<1>1. n \in Nat /\ Len(s) = n + 1
  BY EmptySeq, LenProperties
<1>2. \A i \in 1 .. n : s[i] \in FrameSet
  BY <1>1, ElementOfSeq
<1> HIDE DEF n
<1>3. /\ t \in Seq(FrameSet)
      /\ Len(t) = IF 1 <= n THEN n - 1 + 1 ELSE 0
      /\ \A i \in 1 .. n - 1 + 1 : t[i] = s[1 + i - 1]
  BY <1>1, <1>2, SubSeqProperties
<1>4. /\ t \in Seq(FrameSet) /\ Len(t) = n
      /\ \A k \in 1 .. n : t[k] = s[k]
  <2> HIDE DEF t
  <2> QED
    BY <1>1, <1>3
<1>5. t = << >> <=> Len(s) = 1
  <2> HIDE DEF t
  <2> QED
    BY <1>1, <1>4, EmptySeq
<1> QED
  BY <1>4, <1>5 DEF n

\* The top call is one of the stack's.
LEMMA TopFacts ==
  ASSUME TypeOK, stack # << >>
  PROVE  /\ stack \in Seq(FrameSet) /\ Len(stack) \in Nat \ {0}
         /\ Top = stack[Len(stack)] /\ Top \in FrameSet
         /\ Top.agent \in Agent /\ Top.higher \in Agent \cup {None} /\ Top.left \subseteq Free
         /\ \A k \in 1 .. Len(stack) : stack[k] \in FrameSet /\ stack[k].agent \in Agent
<1>1. stack \in Seq(FrameSet)
  BY DEF TypeOK, FrameSet
<1>2. Len(stack) \in Nat \ {0} /\ \A k \in 1 .. Len(stack) : stack[k] \in FrameSet
  BY <1>1, EmptySeq, ElementOfSeq, LenProperties
<1> QED
  BY <1>1, <1>2 DEF Top, FrameSet

\* Dropping a candidate of the top call changes nothing else.
LEMMA TriedFacts ==
  ASSUME TypeOK, stack # << >>, NEW c
  PROVE  /\ Tried(c) \in Seq(FrameSet) /\ Len(Tried(c)) = Len(stack) /\ Tried(c) # << >>
         /\ \A k \in 1 .. Len(stack) : /\ Tried(c)[k].agent = stack[k].agent
                                       /\ Tried(c)[k].higher = stack[k].higher
                                       /\ Tried(c)[k].left \subseteq stack[k].left
<1> DEFINE n == Len(stack)
           f == [stack[n] EXCEPT !.left = @ \ {c}]
<1>1. /\ stack \in Seq(FrameSet) /\ n \in Nat \ {0}
      /\ \A k \in 1 .. n : stack[k] \in FrameSet
  BY TopFacts
<1>2. stack[n] \in FrameSet
  BY <1>1
<1>3. /\ f \in FrameSet /\ f.agent = stack[n].agent /\ f.higher = stack[n].higher
      /\ f.left \subseteq stack[n].left
  BY <1>2 DEF FrameSet
<1>4. Tried(c) = [stack EXCEPT ![n] = f]
  BY DEF Tried
<1>5. n \in 1 .. Len(stack)
  BY <1>1
<1> HIDE DEF f
<1>6. /\ Tried(c) \in Seq(FrameSet) /\ Len(Tried(c)) = Len(stack)
      /\ \A k \in 1 .. Len(stack) : Tried(c)[k] = IF k = n THEN f ELSE stack[k]
  BY <1>1, <1>3, <1>4, <1>5, ExceptSeq
<1>7. Tried(c) # << >>
  BY <1>1, <1>6, EmptySeq
<1> QED
  BY <1>1, <1>3, <1>6, <1>7

-----------------------------------------------------------------------------
(* Invariance, one lemma for each action.                                  *)

LEMMA InitInv ==
  ASSUME Init
  PROVE  Inv
<1>1. TypeOK
  BY OrdersAssumption, PlacementsAssumption, TeamAssumption, EmptySeq
     DEF Init, TypeOK, Action
<1>2. Apart /\ RestInv /\ phase = "idle"
  BY PlacementsAssumption DEF Init, Apart, RestInv, DecisionCleared
<1> QED
  BY <1>1, <1>2 DEF Inv

LEMMA StartInv ==
  ASSUME Inv, Start
  PROVE  Inv'
<1>1. TypeOK'
  BY TeamAssumption DEF Inv, TypeOK, Start
<1>2. Apart' /\ phase' = "planning"
  BY DEF Inv, Start, Apart
<1>3. stack = << >> /\ stack' = << >> /\ \A c \in Free : decision[c] = None
  BY DEF Inv, Start, RestInv, DecisionCleared
<1>4. next_states' = [a \in Agent |-> None] /\ decision' = decision
      /\ prev_states' = prev_states /\ turn' = 1
  BY DEF Start
<1>5. SearchInv'
  <2>1. DecidedTaken' /\ TakenDecided' /\ TopUndecided'
    BY <1>3, <1>4, NoneIsNothing DEF DecidedTaken, TakenDecided, TopUndecided
  <2>2. StackChained' /\ StackDistinct' /\ WantedByHigher'
    BY <1>3, EmptySeq DEF StackChained, StackDistinct, WantedByHigher
  <2>3. WantedIsPushed' /\ NoExchange'
    <3>1. \A a \in Agent : prev_states'[a] # None /\ next_states'[a] = None
      BY <1>4, NoneIsNothing DEF Inv, TypeOK
    <3> QED
      BY <3>1 DEF WantedIsPushed, NoExchange
  <2>4. NextReachable' /\ EarlierChose'
    BY <1>4 DEF NextReachable, EarlierChose
  <2> QED
    BY <2>1, <2>2, <2>3, <2>4 DEF SearchInv
<1> QED
  BY <1>1, <1>2, <1>5 DEF Inv

LEMMA PassInv ==
  ASSUME Inv, Pass
  PROVE  Inv'
<1>1. TypeOK'
  BY TeamAssumption DEF Inv, TypeOK, Pass
<1>2. Apart' /\ phase' = "planning" /\ SearchInv
  BY DEF Inv, Pass, Apart
<1>3. EarlierChose'
  <2>1. turn \in Nat /\ turn' = turn + 1
    BY DEF Inv, TypeOK, Pass
  <2> QED
    BY <1>2, <2>1 DEF SearchInv, EarlierChose, Pass
<1>4. SearchInv'
  BY <1>2, <1>3 DEF SearchInv, Pass, DecidedTaken, TakenDecided, TopUndecided, StackChained,
     StackDistinct, WantedByHigher, WantedIsPushed, NoExchange, NextReachable, Top,
     Successors, Neighbors
<1> QED
  BY <1>1, <1>2, <1>4 DEF Inv

LEMMA CallInv ==
  ASSUME Inv, Call
  PROVE  Inv'
<1> DEFINE a == ids[turn]
           f == Frame(a, None)
<1>1. TypeOK /\ Apart /\ SearchInv /\ stack = << >> /\ turn \in 1 .. NumAgents
  BY DEF Inv, Call, TypeOK
<1>2. a \in Agent /\ next_states[a] = None
  BY <1>1, OrdersAssumption DEF TypeOK, Call
<1>3. f \in FrameSet /\ f.agent = a /\ f.higher = None /\ f.left = Successors(prev_states[a])
  BY <1>1, <1>2, FrameType
<1>4. stack' = << f >> /\ UNCHANGED << phase, ids, guide, turn, prev_states, next_states, decision, actions >>
  BY DEF Call
<1> HIDE DEF f, a
<1>5. /\ stack' \in Seq(FrameSet) /\ Len(stack') = 1 /\ stack'[1] = f /\ stack' # << >>
      /\ Top' = f
  BY <1>3, <1>4 DEF Top
<1>6. TypeOK' /\ Apart' /\ phase' = "planning"
  BY <1>1, <1>4, <1>5 DEF TypeOK, Apart, FrameSet, Call
<1>7. \A b \in Agent : next_states[b] = prev_states[a] => b = a
  BY <1>1, <1>2, EmptySeq DEF SearchInv, WantedIsPushed
<1>8. SearchInv'
  <2>1. DecidedTaken' /\ TakenDecided'
    BY <1>1, <1>4 DEF SearchInv, DecidedTaken, TakenDecided
  <2>2. TopUndecided'
    <3>1. \A c \in Free : decision[c] = a => next_states[a] = c
      BY <1>1, <1>2 DEF SearchInv, DecidedTaken
    <3> QED
      BY <1>2, <1>3, <1>4, <1>5, <3>1, NoneIsNothing DEF TopUndecided
  <2>3. StackChained' /\ StackDistinct'
    BY <1>3, <1>4, <1>5 DEF StackChained, StackDistinct, Successors, Neighbors
  <2>4. WantedByHigher'
    BY <1>3, <1>4, <1>5, <1>7 DEF WantedByHigher
  <2>5. WantedIsPushed' /\ NoExchange'
    BY <1>1, <1>4, EmptySeq DEF SearchInv, WantedIsPushed, NoExchange
  <2>6. NextReachable' /\ EarlierChose'
    BY <1>1, <1>4 DEF SearchInv, NextReachable, EarlierChose, Successors, Neighbors
  <2> QED
    BY <2>1, <2>2, <2>3, <2>4, <2>5, <2>6 DEF SearchInv
<1> QED
  BY <1>6, <1>8 DEF Inv

LEMMA SkipInv ==
  ASSUME Inv, Skip
  PROVE  Inv'
<1>1. TypeOK /\ Apart /\ SearchInv /\ stack # << >>
  BY DEF Inv, Skip
<1>2. PICK c : stack' = Tried(c)
  BY DEF Skip
<1>3. UNCHANGED << phase, ids, guide, turn, prev_states, next_states, decision, actions >>
  BY DEF Skip
<1>4. stack \in Seq(FrameSet)
  BY <1>1, TopFacts
<1>5. /\ stack' \in Seq(FrameSet) /\ Len(stack') = Len(stack) /\ stack' # << >>
      /\ \A k \in 1 .. Len(stack) : /\ stack'[k].agent = stack[k].agent
                                    /\ stack'[k].higher = stack[k].higher
                                    /\ stack'[k].left \subseteq stack[k].left
  BY <1>1, <1>2, TriedFacts
<1>6. TypeOK' /\ Apart' /\ phase' = "planning"
  BY <1>1, <1>3, <1>5 DEF TypeOK, Apart, FrameSet, Skip
<1>7. Top'.agent = Top.agent
  BY <1>1, <1>5, TopFacts DEF Top
<1>8. SearchInv'
  <2>1. DecidedTaken' /\ TakenDecided' /\ TopUndecided'
    BY <1>1, <1>3, <1>5, <1>7 DEF SearchInv, DecidedTaken, TakenDecided, TopUndecided
  <2>2. StackChained'
    <3>1. \A k \in 1 .. Len(stack) : k > 1 => k - 1 \in 1 .. Len(stack)
      BY <1>1, TopFacts
    <3>2. StackChained
      BY <1>1 DEF SearchInv
    <3> QED
      BY <1>3, <1>5, <3>1, <3>2 DEF StackChained, Successors, Neighbors
  <2>3. StackDistinct' /\ WantedByHigher' /\ WantedIsPushed'
    BY <1>1, <1>3, <1>5 DEF SearchInv, StackDistinct, WantedByHigher, WantedIsPushed
  <2>4. NoExchange' /\ NextReachable' /\ EarlierChose'
    BY <1>1, <1>3 DEF SearchInv, NoExchange, NextReachable, EarlierChose, Successors, Neighbors
  <2> QED
    BY <2>1, <2>2, <2>3, <2>4 DEF SearchInv
<1> QED
  BY <1>6, <1>8 DEF Inv

\* What a candidate that is taken is like.
LEMMA TakenCandidate ==
  ASSUME Inv, stack # << >>, phase = "planning",
         NEW c \in Best(Top.agent, Top.left), ~ Blocked(c)
  PROVE  /\ c \in Free /\ c \in Successors(prev_states[Top.agent])
         /\ decision[c] = None
         /\ \A b \in Agent : prev_states[b] = c => b # Top.higher
<1>1. TypeOK /\ Apart /\ SearchInv
  BY DEF Inv
<1>2. Len(stack) \in 1 .. Len(stack) /\ Top = stack[Len(stack)] /\ Top.left \subseteq Free
  BY <1>1, TopFacts
<1>3. c \in Top.left
  BY DEF Best
<1>4. c \in Successors(prev_states[Top.agent])
  BY <1>1, <1>2, <1>3 DEF SearchInv, StackChained
<1>5. decision[c] = None
  BY DEF Blocked
<1>6. ASSUME NEW b \in Agent, prev_states[b] = c, b = Top.higher
      PROVE  FALSE
  BY <1>1, <1>2, <1>3, <1>6, OccupantOf, NoneIsNothing DEF Blocked
<1> QED
  BY <1>2, <1>3, <1>4, <1>5, <1>6

LEMMA TakeInv ==
  ASSUME Inv, Take
  PROVE  Inv'
<1> DEFINE a == Top.agent
           n == Len(stack)
<1>1. TypeOK /\ Apart /\ SearchInv /\ stack # << >> /\ phase = "planning"
  BY DEF Inv, Take
<1>2. PICK c \in Best(Top.agent, Top.left) :
        /\ ~ Blocked(c)
        /\ next_states' = [next_states EXCEPT ![Top.agent] = c]
        /\ decision' = [decision EXCEPT ![c] = Top.agent]
        /\ IF Occupant(c) # None /\ next_states'[Occupant(c)] = None
             THEN stack' = Append(Tried(c), Frame(Occupant(c), Top.agent))
             ELSE stack' = << >>
  BY Zenon DEF Take
<1>3. UNCHANGED << phase, ids, guide, turn, prev_states, actions >>
  BY DEF Take
<1>4. /\ c \in Free /\ c \in Successors(prev_states[a]) /\ decision[c] = None
      /\ \A b \in Agent : prev_states[b] = c => b # Top.higher
  BY <1>1, <1>2, TakenCandidate
<1>5. /\ n \in Nat \ {0} /\ n \in 1 .. n /\ a \in Agent /\ a = stack[n].agent
      /\ \A k \in 1 .. n : stack[k].agent \in Agent
  BY <1>1, TopFacts
<1>6. /\ next_states' \in [Agent -> Free \cup {None}] /\ decision' \in [Free -> Agent \cup {None}]
      /\ \A b \in Agent : next_states'[b] = IF b = a THEN c ELSE next_states[b]
      /\ \A d \in Free : decision'[d] = IF d = c THEN a ELSE decision[d]
  <2>1. next_states \in [Agent -> Free \cup {None}] /\ decision \in [Free -> Agent \cup {None}]
    BY <1>1 DEF TypeOK
  <2> HIDE DEF a
  <2>2. next_states' = [next_states EXCEPT ![a] = c] /\ decision' = [decision EXCEPT ![c] = a]
    BY <1>2 DEF a
  <2> QED
    BY <1>4, <1>5, <2>1, <2>2
<1>7. /\ \A d \in Free : decision[d] # a
      /\ \A b \in Agent : next_states[b] = prev_states[a] /\ b # a => b = Top.higher
      /\ \A b \in Agent : next_states[b] # c \/ b = a
      /\ \A k \in 1 .. n - 1 : /\ next_states[stack[k].agent] # None
                              /\ stack[k].agent # a
  <2>1. \A d \in Free : decision[d] # a
    BY <1>1, <1>5 DEF SearchInv, TopUndecided
  <2>2. \A b \in Agent : next_states[b] = prev_states[a] /\ b # a => b = Top.higher
    BY <1>1, <1>5, TopFacts DEF SearchInv, WantedByHigher
  <2>3. \A b \in Agent : next_states[b] # c \/ b = a
    BY <1>1, <1>4, NoneIsNothing DEF SearchInv, TakenDecided
  <2>4. \A k \in 1 .. n - 1 : next_states[stack[k].agent] # None /\ stack[k].agent # a
    BY <1>1, <1>5 DEF SearchInv, StackChained, StackDistinct
  <2> QED
    BY <2>1, <2>2, <2>3, <2>4
<1> HIDE DEF a, n
<1>8. DecidedTaken' /\ NoExchange' /\ NextReachable' /\ EarlierChose' /\ Apart'
  <2>1. DecidedTaken'
    BY <1>1, <1>6, <1>7 DEF SearchInv, DecidedTaken
  <2>2. NoExchange'
    BY <1>1, <1>3, <1>4, <1>5, <1>6, <1>7 DEF SearchInv, NoExchange
  <2>3. NextReachable'
    BY <1>1, <1>3, <1>4, <1>6 DEF SearchInv, NextReachable, Successors, Neighbors
  <2>4. EarlierChose'
    <3>1. ids \in [1 .. NumAgents -> Agent] /\ turn \in 1 .. NumAgents + 1
      BY <1>1, OrdersAssumption DEF TypeOK
    <3>2. \A k \in 1 .. turn - 1 : ids[k] \in Agent
      BY <3>1, TeamAssumption
    <3> QED
      BY <1>1, <1>3, <1>4, <1>6, <3>2, NoneIsNothing DEF SearchInv, EarlierChose
  <2>5. Apart'
    BY <1>1, <1>3 DEF Apart
  <2> QED
    BY <2>1, <2>2, <2>3, <2>4, <2>5
<1>9. CASE ~ (Occupant(c) # None /\ next_states'[Occupant(c)] = None)
  <2>1. stack' = << >>
    BY <1>2, <1>9
  <2>2. TypeOK' /\ phase' = "planning"
    BY <1>1, <1>3, <1>6, <2>1, EmptySeq DEF TypeOK
  <2>3. TakenDecided' /\ TopUndecided'
    BY <1>1, <1>4, <1>6, <1>7, <2>1 DEF SearchInv, TakenDecided, TopUndecided, a, TypeOK
  <2>4. StackChained' /\ StackDistinct' /\ WantedByHigher'
    BY <2>1, EmptySeq DEF StackChained, StackDistinct, WantedByHigher
  <2>5. WantedIsPushed'
    <3> SUFFICES ASSUME NEW x \in Agent, NEW b \in Agent, next_states'[b] = prev_states[x],
                        x # b, next_states'[x] = None
                 PROVE  FALSE
      BY <1>3 DEF WantedIsPushed
    <3>1. x # a
      BY <1>4, <1>6, NoneIsNothing
    <3>2. CASE b = a
      BY <1>1, <1>4, <1>6, <1>9, <3>2, OccupantOf, NoneIsNothing
    <3>3. CASE b # a
      <4>1. PICK k \in 1 .. n : stack[k].agent = x
        BY <1>1, <1>6, <3>1, <3>3 DEF SearchInv, WantedIsPushed, n
      <4> QED
        BY <1>5, <1>6, <1>7, <3>1, <4>1
    <3> QED
      BY <3>2, <3>3
  <2> QED
    BY <1>8, <2>2, <2>3, <2>4, <2>5 DEF Inv, SearchInv
<1>10. CASE Occupant(c) # None /\ next_states'[Occupant(c)] = None
  <2> DEFINE o == Occupant(c)
             f == Frame(o, a)
  <2>1. stack' = Append(Tried(c), f)
    BY <1>2, <1>10 DEF a
  <2>2. /\ o \in Agent /\ prev_states[o] = c /\ next_states'[o] = None
        /\ \A b \in Agent : prev_states[b] = c => b = o
    BY <1>1, <1>4, <1>10, OccupantOf
  <2>3. o # a /\ next_states[o] = None
    BY <1>4, <1>6, <2>2, NoneIsNothing
  <2>4. f \in FrameSet /\ f.agent = o /\ f.higher = a /\ f.left = Successors(prev_states[o])
    BY <1>1, <1>5, <2>2, FrameType
  <2> HIDE DEF o, f
  <2>5. /\ stack' \in Seq(FrameSet) /\ Len(stack') = n + 1 /\ stack' # << >>
        /\ stack'[n + 1] = f
        /\ \A k \in 1 .. n : /\ stack'[k].agent = stack[k].agent
                            /\ stack'[k].higher = stack[k].higher
                            /\ stack'[k].left \subseteq stack[k].left
    <3> DEFINE t == Tried(c)
    <3>1. /\ t \in Seq(FrameSet) /\ Len(t) = n
          /\ \A k \in 1 .. n : /\ t[k].agent = stack[k].agent
                              /\ t[k].higher = stack[k].higher
                              /\ t[k].left \subseteq stack[k].left
      BY <1>1, TriedFacts DEF n
    <3>2. stack' = Append(t, f)
      BY <2>1
    <3> HIDE DEF t
    <3>3. /\ stack' \in Seq(FrameSet) /\ Len(stack') = Len(t) + 1 /\ stack' # << >>
          /\ \A k \in 1 .. Len(t) : stack'[k] = t[k]
          /\ stack'[Len(t) + 1] = f
      BY <2>4, <3>1, <3>2, PushFacts
    <3> QED
      BY <3>1, <3>3
  <2>6. Top' = f
    BY <2>5 DEF Top
  <2>7. TypeOK' /\ phase' = "planning"
    BY <1>1, <1>3, <1>6, <2>5 DEF TypeOK, FrameSet
  <2>8. TakenDecided'
    BY <1>1, <1>4, <1>6, <1>7, <2>5 DEF SearchInv, TakenDecided, a, TypeOK
  <2>9. TopUndecided'
    <3>1. \A d \in Free : decision[d] # o
      BY <1>1, <2>2, <2>3, NoneIsNothing DEF SearchInv, DecidedTaken
    <3> QED
      BY <1>6, <2>3, <2>4, <2>6, <3>1 DEF TopUndecided
  <2>10. StackChained'
    <3>1. ASSUME NEW k \in 1 .. n + 1
          PROVE  /\ k = 1 => stack'[k].higher = None
                 /\ k > 1 => /\ stack'[k].higher = stack'[k - 1].agent
                             /\ next_states'[stack'[k - 1].agent] = prev_states[stack'[k].agent]
                 /\ k < n + 1 => /\ next_states'[stack'[k].agent] # None
                                 /\ decision'[next_states'[stack'[k].agent]] = stack'[k].agent
                 /\ stack'[k].left \subseteq Successors(prev_states[stack'[k].agent])
      <4>1. CASE k = n + 1
        BY <1>5, <1>6, <2>2, <2>4, <2>5, <4>1
      <4>2. CASE k \in 1 .. n
        <5>1. /\ k = 1 => stack[k].higher = None
              /\ k > 1 => /\ stack[k].higher = stack[k - 1].agent
                          /\ next_states[stack[k - 1].agent] = prev_states[stack[k].agent]
              /\ k < n => /\ next_states[stack[k].agent] # None
                          /\ decision[next_states[stack[k].agent]] = stack[k].agent
              /\ stack[k].left \subseteq Successors(prev_states[stack[k].agent])
          BY <1>1, <4>2 DEF SearchInv, StackChained, n
        <5>2. /\ stack'[k].agent = stack[k].agent
              /\ stack'[k].higher = stack[k].higher
              /\ stack'[k].left \subseteq stack[k].left
          BY <2>5, <4>2
        <5>3. ASSUME k > 1
              PROVE  /\ stack'[k].higher = stack'[k - 1].agent
                     /\ next_states'[stack'[k - 1].agent] = prev_states[stack'[k].agent]
          <6>1. k - 1 \in 1 .. n /\ k - 1 \in 1 .. n - 1
            BY <1>5, <4>2, <5>3
          <6>2. stack'[k - 1].agent = stack[k - 1].agent /\ stack[k - 1].agent # a
                /\ stack[k - 1].agent \in Agent
            BY <1>5, <1>7, <2>5, <6>1
          <6> QED
            BY <1>6, <5>1, <5>2, <5>3, <6>2
        <5>4. next_states'[stack'[k].agent] # None
              /\ decision'[next_states'[stack'[k].agent]] = stack'[k].agent
          <6>1. CASE k = n
            BY <1>4, <1>5, <1>6, <5>2, <6>1, NoneIsNothing
          <6>2. CASE k # n
            <7>1. k \in 1 .. n - 1 /\ k < n
              BY <1>5, <4>2, <6>2
            <7>2. stack[k].agent \in Agent /\ stack[k].agent # a
              BY <1>5, <1>7, <4>2, <7>1
            <7>3. next_states[stack[k].agent] \in Free /\ next_states[stack[k].agent] # c
              BY <1>1, <1>7, <5>1, <7>1, <7>2 DEF TypeOK
            <7> QED
              BY <1>6, <5>1, <5>2, <7>1, <7>2, <7>3
          <6> QED
            BY <6>1, <6>2
        <5> QED
          BY <5>1, <5>2, <5>3, <5>4
      <4> QED
        BY <1>5, <4>1, <4>2
    <3> QED
      BY <1>3, <2>5, <3>1 DEF StackChained, Successors, Neighbors
  <2>11. StackDistinct'
    <3>1. \A k \in 1 .. n : stack[k].agent # o
      BY <1>5, <1>7, <2>3
    <3>2. \A k, l \in 1 .. n : stack[k].agent = stack[l].agent => k = l
      BY <1>1 DEF SearchInv, StackDistinct, n
    <3> QED
      BY <1>5, <2>4, <2>5, <3>1, <3>2 DEF StackDistinct
  <2>12. WantedByHigher'
    <3> SUFFICES ASSUME NEW k \in 1 .. n + 1, NEW b \in Agent,
                        next_states'[b] = prev_states[stack'[k].agent], b # stack'[k].agent
                 PROVE  b = stack'[k].higher
      BY <1>3, <2>5 DEF WantedByHigher
    <3>1. CASE k = n + 1
      BY <1>4, <1>6, <1>7, <2>2, <2>4, <2>5, <3>1
    <3>2. CASE k \in 1 .. n
      <4>1. stack[k].agent # o
        BY <1>5, <1>7, <2>3, <3>2
      <4>2. b # a
        BY <1>5, <1>6, <2>2, <2>5, <3>2, <4>1
      <4> QED
        BY <1>1, <1>6, <2>5, <3>2, <4>2 DEF SearchInv, WantedByHigher, n
    <3> QED
      BY <1>5, <3>1, <3>2
  <2>13. WantedIsPushed'
    <3> SUFFICES ASSUME NEW x \in Agent, NEW b \in Agent, next_states'[b] = prev_states[x],
                        x # b, next_states'[x] = None
                 PROVE  \E k \in 1 .. n + 1 : stack'[k].agent = x
      BY <1>3, <2>5 DEF WantedIsPushed
    <3>1. x # a
      BY <1>4, <1>6, NoneIsNothing
    <3>2. CASE b = a
      <4>1. x = o /\ n + 1 \in 1 .. n + 1
        BY <1>5, <1>6, <2>2, <3>2
      <4> QED
        BY <2>4, <2>5, <4>1
    <3>3. CASE b # a
      <4>1. PICK k \in 1 .. n : stack[k].agent = x
        BY <1>1, <1>6, <3>1, <3>3 DEF SearchInv, WantedIsPushed, n
      <4>2. k \in 1 .. n + 1
        BY <1>5
      <4> QED
        BY <2>5, <4>1, <4>2
    <3> QED
      BY <3>2, <3>3
  <2> QED
    BY <1>8, <2>7, <2>8, <2>9, <2>10, <2>11, <2>12, <2>13 DEF Inv, SearchInv
<1> QED
  BY <1>9, <1>10

LEMMA FailInv ==
  ASSUME Inv, Fail
  PROVE  Inv'
<1> DEFINE a == Top.agent
           n == Len(stack)
<1>0. UNCHANGED << phase, ids, guide, turn, prev_states, actions >>
  BY DEF Fail
<1>1. TypeOK /\ Apart /\ SearchInv /\ stack # << >> /\ phase = "planning"
  BY DEF Inv, Fail
<1>2. /\ next_states' = [next_states EXCEPT ![a] = prev_states[a]]
      /\ decision' = [decision EXCEPT ![prev_states[a]] = a]
      /\ stack' = SubSeq(stack, 1, Len(stack) - 1)
  BY DEF Fail, Below
<1>3. /\ n \in Nat \ {0} /\ n \in 1 .. n /\ a \in Agent /\ a = stack[n].agent
      /\ Top = stack[n] /\ prev_states[a] \in Free
      /\ \A k \in 1 .. n : stack[k].agent \in Agent
  BY <1>1, TopFacts DEF TypeOK
<1>4. /\ stack' \in Seq(FrameSet) /\ Len(stack') = n - 1
      /\ \A k \in 1 .. n - 1 : stack'[k] = stack[k]
      /\ stack' = << >> <=> n = 1
  BY <1>1, <1>2, TopFacts, PopFacts
<1> HIDE DEF a, n
<1>5. /\ next_states' \in [Agent -> Free \cup {None}] /\ decision' \in [Free -> Agent \cup {None}]
      /\ \A b \in Agent : next_states'[b] = IF b = a THEN prev_states[a] ELSE next_states[b]
      /\ \A d \in Free : decision'[d] = IF d = prev_states[a] THEN a ELSE decision[d]
  BY <1>1, <1>2, <1>3 DEF TypeOK
<1>6. /\ \A d \in Free : decision[d] # a
      /\ \A b \in Agent : next_states[b] = prev_states[a] /\ b # a => b = Top.higher
      /\ \A k \in 1 .. n - 1 : stack[k].agent # a
      /\ \A k, l \in 1 .. n : stack[k].agent = stack[l].agent => k = l
  <2>1. \A d \in Free : decision[d] # a
    BY <1>1 DEF SearchInv, TopUndecided, a
  <2>2. \A b \in Agent : next_states[b] = prev_states[a] /\ b # a => b = Top.higher
    BY <1>1, <1>3 DEF SearchInv, WantedByHigher, n
  <2>3. \A k, l \in 1 .. n : stack[k].agent = stack[l].agent => k = l
    BY <1>1 DEF SearchInv, StackDistinct, n
  <2>4. \A k \in 1 .. n - 1 : stack[k].agent # a
    BY <1>3, <2>3
  <2> QED
    BY <2>1, <2>2, <2>3, <2>4
<1>7. /\ n = 1 => Top.higher = None
      /\ n > 1 => /\ n - 1 \in 1 .. n /\ n - 1 \in 1 .. n - 1
                  /\ Top.higher = stack[n - 1].agent /\ stack' # << >>
                  /\ Top' = stack[n - 1] /\ next_states[stack[n - 1].agent] = prev_states[a]
  <2>1. n = 1 => Top.higher = None
    BY <1>1, <1>3 DEF SearchInv, StackChained, n
  <2>2. ASSUME n > 1
        PROVE  /\ n - 1 \in 1 .. n /\ n - 1 \in 1 .. n - 1
               /\ Top.higher = stack[n - 1].agent /\ stack' # << >>
               /\ next_states[stack[n - 1].agent] = prev_states[a]
    BY <1>1, <1>3, <1>4, <2>2 DEF SearchInv, StackChained, n
  <2>3. n > 1 => Top' = stack[n - 1]
    BY <1>3, <1>4, <2>2 DEF Top
  <2> QED
    BY <2>1, <2>2, <2>3
<1>8. TypeOK' /\ Apart' /\ phase' = "planning"
  BY <1>0, <1>1, <1>4, <1>5 DEF TypeOK, Apart, FrameSet
<1>9. DecidedTaken'
  BY <1>1, <1>5, <1>6 DEF SearchInv, DecidedTaken
<1>10. TakenDecided'
  <2> SUFFICES ASSUME NEW b \in Agent, next_states'[b] # None
               PROVE  \/ decision'[next_states'[b]] = b
                      \/ stack' # << >> /\ b = Top'.agent
    BY DEF TakenDecided
  <2>1. CASE b = a
    BY <1>3, <1>5, <2>1
  <2>2. CASE b # a
    <3>1. next_states'[b] = next_states[b] /\ next_states[b] \in Free
      BY <1>1, <1>5, <2>2 DEF TypeOK
    <3>2. decision[next_states[b]] = b
      BY <1>1, <2>2, <3>1, NoneIsNothing DEF SearchInv, TakenDecided, a
    <3>3. CASE next_states[b] # prev_states[a]
      BY <1>5, <3>1, <3>2, <3>3
    <3>4. CASE next_states[b] = prev_states[a]
      <4>1. b = Top.higher
        BY <1>6, <2>2, <3>4
      <4>2. n > 1
        BY <1>3, <1>7, <4>1, NoneIsNothing
      <4> QED
        BY <1>7, <4>1, <4>2
    <3> QED
      BY <3>3, <3>4
  <2> QED
    BY <2>1, <2>2
<1>11. TopUndecided'
  <2> SUFFICES ASSUME stack' # << >>, NEW d \in Free, decision'[d] = Top'.agent
               PROVE  FALSE
    BY DEF TopUndecided
  <2>1. n > 1 /\ Top'.agent = stack[n - 1].agent /\ stack[n - 1].agent \in Agent
        /\ stack[n - 1].agent # a
    BY <1>3, <1>4, <1>6, <1>7
  <2>2. d # prev_states[a] /\ decision[d] = stack[n - 1].agent
    BY <1>5, <2>1
  <2>3. next_states[stack[n - 1].agent] = d
    BY <1>1, <2>1, <2>2 DEF SearchInv, DecidedTaken
  <2> QED
    BY <1>7, <2>1, <2>2, <2>3
<1>12. StackChained'
  <2>1. ASSUME NEW k \in 1 .. n - 1
        PROVE  /\ k = 1 => stack'[k].higher = None
               /\ k > 1 => /\ stack'[k].higher = stack'[k - 1].agent
                           /\ next_states'[stack'[k - 1].agent] = prev_states[stack'[k].agent]
               /\ k < n - 1 => /\ next_states'[stack'[k].agent] # None
                               /\ decision'[next_states'[stack'[k].agent]] = stack'[k].agent
               /\ stack'[k].left \subseteq Successors(prev_states[stack'[k].agent])
    <3>1. k \in 1 .. n /\ k < n /\ stack'[k] = stack[k]
          /\ stack[k].agent \in Agent /\ stack[k].agent # a
      BY <1>3, <1>4, <1>6
    <3>2. /\ k = 1 => stack[k].higher = None
          /\ k > 1 => /\ stack[k].higher = stack[k - 1].agent
                      /\ next_states[stack[k - 1].agent] = prev_states[stack[k].agent]
          /\ next_states[stack[k].agent] # None
          /\ decision[next_states[stack[k].agent]] = stack[k].agent
          /\ stack[k].left \subseteq Successors(prev_states[stack[k].agent])
      BY <1>1, <3>1 DEF SearchInv, StackChained, n
    <3>3. ASSUME k > 1
          PROVE  /\ stack'[k].higher = stack'[k - 1].agent
                 /\ next_states'[stack'[k - 1].agent] = prev_states[stack'[k].agent]
      <4>1. k - 1 \in 1 .. n - 1 /\ k - 1 \in 1 .. n
        BY <1>3, <3>1, <3>3
      <4>2. stack'[k - 1] = stack[k - 1] /\ stack[k - 1].agent # a /\ stack[k - 1].agent \in Agent
        BY <1>3, <1>4, <1>6, <4>1
      <4> QED
        BY <1>5, <3>1, <3>2, <3>3, <4>2
    <3>4. ASSUME k < n - 1
          PROVE  /\ next_states'[stack'[k].agent] # None
                 /\ decision'[next_states'[stack'[k].agent]] = stack'[k].agent
      <4>1. n > 1 /\ k # n - 1
        BY <1>3, <3>1, <3>4
      <4>2. stack[k].agent # Top.higher
        BY <1>6, <1>7, <3>1, <4>1
      <4>3. next_states[stack[k].agent] # prev_states[a]
        BY <1>6, <3>1, <4>2
      <4>4. next_states[stack[k].agent] \in Free
        BY <1>1, <3>1, <3>2 DEF TypeOK
      <4> QED
        BY <1>5, <3>1, <3>2, <4>3, <4>4
    <3> QED
      BY <3>1, <3>2, <3>3, <3>4
  <2> QED
    BY <1>0, <1>4, <2>1 DEF StackChained, Successors, Neighbors
<1>13. StackDistinct'
  BY <1>3, <1>4, <1>6 DEF StackDistinct
<1>14. WantedByHigher'
  <2> SUFFICES ASSUME NEW k \in 1 .. n - 1, NEW b \in Agent,
                      next_states'[b] = prev_states[stack[k].agent], b # stack[k].agent
               PROVE  b = stack[k].higher
    BY <1>0, <1>4 DEF WantedByHigher
  <2>1. k \in 1 .. n /\ stack[k].agent \in Agent /\ stack[k].agent # a
    BY <1>3, <1>6
  <2>2. b # a
    BY <1>1, <1>3, <1>5, <2>1 DEF Apart
  <2> QED
    BY <1>1, <1>5, <2>1, <2>2 DEF SearchInv, WantedByHigher, n
<1>15. WantedIsPushed'
  <2> SUFFICES ASSUME NEW x \in Agent, NEW b \in Agent, next_states'[b] = prev_states[x],
                      x # b, next_states'[x] = None
               PROVE  \E k \in 1 .. Len(stack') : stack'[k].agent = x
    BY <1>0 DEF WantedIsPushed
  <2>1. x # a
    BY <1>3, <1>5, NoneIsNothing
  <2>2. b # a
    BY <1>1, <1>3, <1>5, <2>1 DEF Apart
  <2>3. PICK k \in 1 .. n : stack[k].agent = x
    BY <1>1, <1>5, <2>1, <2>2 DEF SearchInv, WantedIsPushed, n
  <2>4. k \in 1 .. n - 1
    BY <1>3, <2>1, <2>3
  <2> QED
    BY <1>4, <2>3, <2>4
<1>16. NoExchange'
  BY <1>0, <1>1, <1>3, <1>5 DEF SearchInv, NoExchange, Apart
<1>17. NextReachable'
  BY <1>0, <1>1, <1>3, <1>5 DEF SearchInv, NextReachable, Successors, Neighbors
<1>18. EarlierChose'
  <2>1. ids \in [1 .. NumAgents -> Agent] /\ turn \in 1 .. NumAgents + 1
    BY <1>1, OrdersAssumption DEF TypeOK
  <2>2. \A k \in 1 .. turn - 1 : ids[k] \in Agent
    BY <2>1, TeamAssumption
  <2> QED
    BY <1>0, <1>1, <1>3, <1>5, <2>2, NoneIsNothing DEF SearchInv, EarlierChose
<1> QED
  BY <1>8, <1>9, <1>10, <1>11, <1>12, <1>13, <1>14, <1>15, <1>16, <1>17, <1>18 DEF Inv, SearchInv

\* Cells are natural numbers.
LEMMA CellIsNat ==
  ASSUME NEW c \in Cell
  PROVE  c \in Nat
  BY GridAssumption DEF Cell

\* The distance of two cells is that of their rows and columns on a map of this width.
LEMMA DistanceOfCells ==
  ASSUME NEW c \in Cell, NEW d \in Cell
  PROVE  /\ c \in Nat /\ d \in Nat /\ Cols \in Nat \ {0}
         /\ Distance(c, d) = CellDistance(c, d, Cols) /\ Distance(d, c) = CellDistance(d, c, Cols)
  BY CellIsNat, GridAssumption DEF Distance, CellDistance, Abs, Magnitude

\* The action for a cell that can be reached leads there, and the simulator allows it.
LEMMA ActionReaches ==
  ASSUME NEW from \in Free, NEW to \in Successors(from)
  PROVE  /\ getAction(from, to) \in Action
         /\ from + Moves(getAction(from, to)) = to
         /\ Allowed(from, to)
<1>1. from \in Cell /\ to \in Cell /\ to \in Free /\ to \notin Obstacles /\ Cols \in Nat \ {0}
  BY SuccessorsFree, GridAssumption DEF Free
<1>2. from \in Nat /\ to \in Nat
  BY <1>1, CellIsNat
<1>3. \/ to = from \/ to = from - Cols \/ to = from + Cols
      \/ to = from - 1 /\ from % Cols > 0
      \/ to = from + 1 /\ from % Cols < Cols - 1
  BY DEF Successors, Neighbors
<1>4. getAction(from, to) \in Action /\ from + Moves(getAction(from, to)) = to
  BY <1>1, <1>2, <1>3 DEF getAction, Action, Moves
<1>5. Distance(from, to) <= 1
  <2>1. CASE to = from
    BY <1>1, <2>1, DistanceOfCells, DistanceZero
  <2>2. CASE to = from - Cols
    <3>1. from = to + Cols
      BY <1>1, <1>2, <2>2
    <3> QED
      BY <1>1, <3>1, DistanceOfCells, StepSouth
  <2>3. CASE to = from + Cols
    BY <1>1, <2>3, DistanceOfCells, StepSouth
  <2>4. CASE to = from - 1 /\ from % Cols > 0
    <3>1. from = to + 1
      BY <1>2, <2>4
    <3> QED
      BY <1>1, <2>4, <3>1, DistanceOfCells, StepBack, StepInRow
  <2>5. CASE to = from + 1 /\ from % Cols < Cols - 1
    BY <1>1, <2>5, DistanceOfCells, StepInRow
  <2> QED
    BY <1>3, <2>1, <2>2, <2>3, <2>4, <2>5
<1> QED
  BY <1>1, <1>4, <1>5 DEF Allowed

LEMMA FinishInv ==
  ASSUME Inv, Finish
  PROVE  Inv'
<1>1. TypeOK /\ Apart /\ SearchInv /\ stack = << >> /\ turn > NumAgents
  BY DEF Inv, Finish
<1>2. /\ phase' = "planned" /\ stack' = << >>
      /\ decision' = [c \in Free |-> IF \E a \in Agent : next_states[a] = c THEN None ELSE decision[c]]
      /\ actions' = [a \in Agent |-> getAction(prev_states[a], next_states[a])]
  BY <1>1 DEF Finish
<1>3. UNCHANGED << ids, guide, turn, stack, prev_states, next_states >>
  BY DEF Finish
<1>4. \A a \in Agent : next_states[a] # None
  <2> SUFFICES ASSUME NEW a \in Agent
               PROVE  next_states[a] # None
    OBVIOUS
  <2>1. PICK k \in 1 .. NumAgents : ids[k] = a
    BY <1>1, OrdersAssumption DEF TypeOK
  <2>2. k \in 1 .. turn - 1
    BY <1>1, TeamAssumption DEF TypeOK
  <2> QED
    BY <1>1, <2>1, <2>2 DEF SearchInv, EarlierChose
<1>5. /\ next_states \in [Agent -> Free]
      /\ \A a \in Agent : next_states[a] \in Free /\ prev_states[a] \in Free
                         /\ next_states[a] \in Successors(prev_states[a])
  BY <1>1, <1>4 DEF TypeOK, SearchInv, NextReachable
<1>6. \A a, b \in Agent : next_states[a] = next_states[b] => a = b
  BY <1>1, <1>4 DEF SearchInv, TakenDecided
<1>7. \A c \in Free : decision'[c] = None
  <2>1. \A c \in Free : decision[c] \in Agent => next_states[decision[c]] = c
    BY <1>1 DEF SearchInv, DecidedTaken
  <2>2. \A c \in Free : decision[c] \in Agent \cup {None}
    BY <1>1 DEF TypeOK
  <2> QED
    BY <1>2, <2>1, <2>2, Zenon
<1>8. \A a \in Agent : /\ actions'[a] \in Action
                       /\ prev_states[a] + Moves(actions'[a]) = next_states[a]
                       /\ Allowed(prev_states[a], next_states[a])
  BY <1>2, <1>5, ActionReaches
<1>9. TypeOK'
  <2>1. actions' \in [Agent -> Action]
    BY <1>2, <1>8
  <2>2. decision' \in [Free -> Agent \cup {None}]
    BY <1>2, <1>7
  <2> QED
    BY <1>1, <1>2, <1>3, <2>1, <2>2 DEF TypeOK
<1>10. result_states(prev_states, actions') = next_states
  BY <1>5, <1>8 DEF result_states
<1>11. is_valid(prev_states, actions')
  <2>1. SizeMatches(actions')
    BY <1>2 DEF SizeMatches
  <2>2. ASSUME NEW a \in Agent
        PROVE  ~ Faulty(prev_states, next_states, a)
    <3>1. \A b \in 0 .. a - 1 : b \in Agent /\ b # a
      BY TeamAssumption DEF Agent
    <3>2. VertexConflicts(next_states, a) = {}
      BY <1>6, <3>1 DEF VertexConflicts
    <3>3. EdgeConflicts(prev_states, next_states, a) = {}
      BY <1>1, <3>1 DEF EdgeConflicts, SearchInv, NoExchange
    <3> QED
      BY <1>8, <3>2, <3>3 DEF Faulty
  <2> QED
    BY <1>10, <2>1, <2>2 DEF is_valid
<1>12. PlanInv'
  BY <1>2, <1>3, <1>5, <1>6, <1>10, <1>11
     DEF PlanInv, PlanLegal, PlanAsDecided, is_valid, SizeMatches, Faulty, Allowed,
         VertexConflicts, EdgeConflicts, result_states, Distance, Abs, Moves
<1>13. Apart' /\ RestInv'
  BY <1>1, <1>2, <1>3, <1>7 DEF Apart, RestInv, DecisionCleared
<1> QED
  BY <1>2, <1>9, <1>12, <1>13 DEF Inv

LEMMA ExecuteInv ==
  ASSUME Inv, Execute
  PROVE  Inv'
<1>1. TypeOK /\ PlanInv /\ RestInv
  BY DEF Inv, Execute
<1>2. phase' = "idle" /\ UNCHANGED << ids, guide, turn, stack, next_states, decision, actions >>
  BY DEF Execute
<1>3. prev_states' = next_states
  BY <1>1 DEF Execute, PlanInv, PlanLegal, PlanAsDecided
<1>4. TypeOK' /\ Apart'
  BY <1>1, <1>2, <1>3 DEF PlanInv, TypeOK, Apart
<1>5. RestInv'
  BY <1>1, <1>2 DEF RestInv, DecisionCleared, Execute
<1> QED
  BY <1>2, <1>4, <1>5 DEF Inv

\* The inductive invariant holds throughout.
THEOREM Invariance == Spec => []Inv
<1>1. Init => Inv
  BY InitInv
<1>2. Inv /\ [Next]_vars => Inv'
  <2> SUFFICES ASSUME Inv, [Next]_vars
               PROVE  Inv'
    OBVIOUS
  <2>1. CASE Start
    BY <2>1, StartInv
  <2>2. CASE Pass
    BY <2>2, PassInv
  <2>3. CASE Call
    BY <2>3, CallInv
  <2>4. CASE Skip
    BY <2>4, SkipInv
  <2>5. CASE Take
    BY <2>5, TakeInv
  <2>6. CASE Fail
    BY <2>6, FailInv
  <2>7. CASE Finish
    BY <2>7, FinishInv
  <2>8. CASE Execute
    BY <2>8, ExecuteInv
  <2>9. CASE UNCHANGED vars
    BY <2>9 DEF vars, Inv, TypeOK, Apart, SearchInv, DecidedTaken, TakenDecided, TopUndecided,
       StackChained, StackDistinct, WantedByHigher, WantedIsPushed, NoExchange, NextReachable,
       EarlierChose, RestInv, DecisionCleared, PlanInv, PlanLegal, PlanAsDecided, Top
  <2> QED
    BY <2>1, <2>2, <2>3, <2>4, <2>5, <2>6, <2>7, <2>8, <2>9 DEF Next, Plan
<1> QED
  BY <1>1, <1>2, PTL DEF Spec

\* Types: the tables of the search hold agents and free cells, and nobody leaves the map.
THEOREM TypeCorrect == Spec => []TypeOK
<1>1. Inv => TypeOK
  BY DEF Inv
<1> QED
  BY <1>1, Invariance, PTL

\* Every plan that PIBT makes is one that the simulator executes (causalPIBT, plan_pibt).
THEOREM PlansLegal == Spec => []PlanLegal
<1>1. Inv => PlanLegal
  BY DEF Inv, PlanInv, PlanLegal
<1> QED
  BY <1>1, Invariance, PTL

\* The actions lead to the cells that the search decided on (getAction).
THEOREM PlansAsDecided == Spec => []PlanAsDecided
<1>1. Inv => PlanAsDecided
  BY DEF Inv, PlanInv, PlanAsDecided
<1> QED
  BY <1>1, Invariance, PTL

\* No entry of the table of decided cells outlives the call that made it (plan).
THEOREM TableCleared == Spec => []DecisionCleared
<1>1. Inv => DecisionCleared
  BY DEF Inv, RestInv, DecisionCleared
<1> QED
  BY <1>1, Invariance, PTL

-----------------------------------------------------------------------------
(* The first agent comes closer.  It takes its best cell, and who is there *)
(* is pushed.  When one that is pushed fails, all cells around it are      *)
(* decided, so that if all of them failed there would be no way out of the *)
(* decided cells but back to the first agent.                              *)

OnStack(a) == \E k \in 1 .. Len(stack) : stack[k].agent = a

\* Nobody has chosen before the first agent.
Fresh ==
  next_states[ids[1]] = None =>
    /\ turn = 1
    /\ \A a \in Agent : next_states[a] = None
    /\ \A c \in Free : decision[c] = None
    /\ stack # << >> => /\ Len(stack) = 1 /\ stack[1].agent = ids[1] /\ stack[1].higher = None
                        /\ stack[1].left = Successors(prev_states[ids[1]])

BestTaken ==
  next_states[ids[1]] # None =>
    \A c \in Successors(prev_states[ids[1]]) :
      guide[ids[1]][next_states[ids[1]]] <= guide[ids[1]][c]

\* What a call has tried is decided, or is where the agent that pushes is.
TriedClosed ==
  \A k \in 2 .. Len(stack) : \A c \in Successors(prev_states[stack[k].agent]) :
    c \in stack[k].left \/ decision[c] # None \/ c = prev_states[stack[k - 1].agent]

\* Who is pushed and fails stays among decided cells.
FailedClosed ==
  \A a \in Agent :
    next_states[a] # None /\ ~ OnStack(a) =>
      next_states[a] = prev_states[a] /\ \A c \in Neighbors(prev_states[a]) : decision[c] # None

\* The first agent waits for the one that it has pushed.
Pushing ==
  turn = 1 /\ next_states[ids[1]] # None /\ stack # << >> =>
    /\ Len(stack) > 1 /\ stack[1].agent = ids[1]
    /\ decision[prev_states[ids[1]]] = None
    /\ TriedClosed /\ FailedClosed

Later == turn > 1 => ~ OnStack(ids[1])

TopInv ==
  /\ phase = "planning" => Fresh /\ BestTaken /\ Pushing /\ Later
  /\ phase = "planned" => BestTaken

-----------------------------------------------------------------------------
LEMMA FirstAgent ==
  ASSUME TypeOK
  PROVE  /\ ids[1] \in Agent /\ prev_states[ids[1]] \in Free
         /\ prev_states[ids[1]] \in Successors(prev_states[ids[1]])
         /\ \A k \in 1 .. NumAgents : ids[k] \in Agent
  BY OrdersAssumption, TeamAssumption DEF TypeOK, Successors

\* What is left to the top call when it has tried a candidate.
LEMMA TriedLeft ==
  ASSUME TypeOK, stack # << >>, NEW c
  PROVE  /\ Tried(c)[Len(stack)].left = Top.left \ {c}
         /\ \A k \in 1 .. Len(stack) : k # Len(stack) => Tried(c)[k] = stack[k]
<1> DEFINE n == Len(stack)
           f == [stack[n] EXCEPT !.left = @ \ {c}]
<1>1. stack \in Seq(FrameSet) /\ n \in 1 .. n /\ stack[n] \in FrameSet
  BY TopFacts
<1>2. f \in FrameSet /\ f.left = stack[n].left \ {c}
  BY <1>1 DEF FrameSet
<1>3. Tried(c) = [stack EXCEPT ![n] = f]
  BY DEF Tried
<1> HIDE DEF f
<1>4. \A k \in 1 .. n : Tried(c)[k] = IF k = n THEN f ELSE stack[k]
  BY <1>1, <1>2, <1>3, ExceptSeq
<1> QED
  BY <1>1, <1>2, <1>4 DEF Top

LEMMA StartTop ==
  ASSUME Inv, Start
  PROVE  TopInv'
<1>1. /\ phase' = "planning" /\ turn' = 1 /\ stack' = << >> /\ decision' = decision
      /\ next_states' = [a \in Agent |-> None] /\ \A c \in Free : decision[c] = None
  BY DEF Start, Inv, RestInv, DecisionCleared
<1>2. ids'[1] \in Agent
  <2>1. TypeOK'
    BY StartInv DEF Inv
  <2> QED
    BY <2>1, OrdersAssumption, TeamAssumption DEF TypeOK
<1> QED
  BY <1>1, <1>2 DEF TopInv, Fresh, BestTaken, Pushing, Later

LEMMA PassTop ==
  ASSUME Inv, TopInv, Pass
  PROVE  TopInv'
<1>1. /\ phase = "planning" /\ stack = << >> /\ next_states[ids[turn]] # None /\ turn' = turn + 1
      /\ UNCHANGED << phase, ids, guide, stack, prev_states, next_states, decision >>
      /\ turn \in Nat \ {0} /\ Len(stack) = 0
  BY EmptySeq DEF Pass, Inv, TypeOK
<1>2. next_states[ids[1]] # None
  BY <1>1 DEF TopInv, Fresh
<1> QED
  BY <1>1, <1>2 DEF TopInv, Fresh, BestTaken, Pushing, Later, OnStack, Successors, Neighbors

LEMMA CallTop ==
  ASSUME Inv, TopInv, Call
  PROVE  TopInv'
<1> DEFINE f == Frame(ids[turn], None)
<1>1. /\ phase = "planning" /\ stack = << >> /\ next_states[ids[turn]] = None
      /\ stack' = << f >> /\ turn \in 1 .. NumAgents
      /\ UNCHANGED << phase, ids, guide, turn, prev_states, next_states, decision >>
  BY DEF Call, Inv, TypeOK
<1>2. TypeOK /\ ids[turn] \in Agent
  BY <1>1, FirstAgent DEF Inv
<1>3. f \in FrameSet /\ f.agent = ids[turn] /\ f.higher = None /\ f.left = Successors(prev_states[ids[turn]])
  BY <1>2, FrameType
<1> HIDE DEF f
<1>4. Len(stack') = 1 /\ stack'[1] = f
  BY <1>1
<1>5. CASE next_states[ids[1]] = None
  <2>1. turn = 1
    BY <1>1, <1>5 DEF TopInv, Fresh
  <2>2. Fresh'
    BY <1>1, <1>3, <1>4, <1>5, <2>1 DEF TopInv, Fresh, Successors, Neighbors
  <2> QED
    BY <1>1, <1>5, <2>1, <2>2 DEF TopInv, BestTaken, Pushing, Later
<1>6. CASE next_states[ids[1]] # None
  <2>1. turn # 1 /\ ids[turn] # ids[1]
    BY <1>1, <1>6
  <2>2. Later'
    BY <1>1, <1>3, <1>4, <2>1 DEF Later, OnStack
  <2> QED
    BY <1>1, <1>6, <2>1, <2>2 DEF TopInv, Fresh, BestTaken, Pushing, Successors, Neighbors
<1> QED
  BY <1>5, <1>6

LEMMA SkipTop ==
  ASSUME Inv, TopInv, Skip
  PROVE  TopInv'
<1> DEFINE n == Len(stack)
<1>1. PICK c \in Best(Top.agent, Top.left) : Blocked(c) /\ stack' = Tried(c)
  BY DEF Skip
<1>2. /\ phase = "planning" /\ stack # << >> /\ TypeOK /\ Apart /\ SearchInv
      /\ UNCHANGED << phase, ids, guide, turn, prev_states, next_states, decision >>
  BY DEF Skip, Inv
<1>3. /\ n \in Nat \ {0} /\ Top = stack[n] /\ Top.left \subseteq Free /\ c \in Free /\ c \in Top.left
      /\ Top.higher \in Agent \cup {None}
  BY <1>1, <1>2, TopFacts DEF Best
<1>4. /\ Len(stack') = n /\ stack' # << >> /\ stack'[n].left = Top.left \ {c}
      /\ \A k \in 1 .. n : stack'[k].agent = stack[k].agent
      /\ \A k \in 1 .. n : k # n => stack'[k] = stack[k]
  BY <1>1, <1>2, TriedFacts, TriedLeft
<1>5. decision[c] # None \/ (Top.higher # None /\ c = prev_states[Top.higher])
  <2>1. Occupant(c) \in Agent => prev_states[Occupant(c)] = c
    BY <1>2, <1>3, OccupantOf
  <2> QED
    BY <1>1, <1>3, <2>1 DEF Blocked
<1>6. next_states[ids[1]] # None
  BY <1>2, <1>3, <1>5 DEF TopInv, Fresh
<1>7. Pushing'
  <2> SUFFICES ASSUME turn = 1
               PROVE  /\ n > 1 /\ stack[1].agent = ids[1] /\ decision[prev_states[ids[1]]] = None
                      /\ TriedClosed' /\ FailedClosed'
    BY <1>2, <1>3, <1>4 DEF Pushing
  <2>1. n > 1 /\ stack[1].agent = ids[1] /\ decision[prev_states[ids[1]]] = None /\ TriedClosed /\ FailedClosed
    BY <1>2, <1>6 DEF TopInv, Pushing
  <2>2. FailedClosed'
    <3>1. \A a : OnStack(a)' <=> OnStack(a)
      BY <1>4 DEF OnStack
    <3> QED
      BY <1>2, <2>1, <3>1 DEF FailedClosed, Neighbors
  <2>3. TriedClosed'
    <3>1. ASSUME NEW k \in 2 .. n, NEW d \in Successors(prev_states[stack[k].agent])
          PROVE  d \in stack'[k].left \/ decision[d] # None \/ d = prev_states[stack[k - 1].agent]
      <4>1. CASE k # n
        <5>1. stack'[k] = stack[k]
          BY <1>3, <1>4, <4>1
        <5> QED
          BY <2>1, <5>1 DEF TriedClosed
      <4>2. CASE k = n
        <5>1. Top.higher = stack[n - 1].agent
          BY <1>2, <1>3, <2>1 DEF SearchInv, StackChained
        <5>2. d \in Top.left \/ decision[d] # None \/ d = prev_states[stack[k - 1].agent]
          BY <1>3, <2>1, <4>2 DEF TriedClosed
        <5> QED
          BY <1>4, <1>5, <4>2, <5>1, <5>2
      <4> QED
        BY <4>1, <4>2
    <3>2. \A k \in 2 .. n : k \in 1 .. n /\ k - 1 \in 1 .. n
      BY <1>3
    <3> QED
      BY <1>2, <1>4, <3>1, <3>2 DEF TriedClosed, Successors, Neighbors
  <2> QED
    BY <2>1, <2>2, <2>3
<1>8. Later'
  BY <1>2, <1>4 DEF TopInv, Later, OnStack
<1> QED
  BY <1>2, <1>6, <1>7, <1>8 DEF TopInv, Fresh, BestTaken, Successors, Neighbors

\* The first agent, and every one of those it has pushed, takes a cell.
LEMMA TakeTop ==
  ASSUME Inv, TopInv, Take
  PROVE  TopInv'
<1> DEFINE n == Len(stack)
           a == Top.agent
           top == ids[1]
<1>1. PICK c \in Best(a, Top.left) :
        /\ ~ Blocked(c)
        /\ next_states' = [next_states EXCEPT ![a] = c]
        /\ decision' = [decision EXCEPT ![c] = a]
        /\ IF Occupant(c) # None /\ next_states'[Occupant(c)] = None
             THEN stack' = Append(Tried(c), Frame(Occupant(c), a))
             ELSE stack' = << >>
  BY DEF Take
<1>2. /\ phase = "planning" /\ stack # << >> /\ TypeOK /\ Apart /\ SearchInv
      /\ UNCHANGED << phase, ids, guide, turn, prev_states >>
  BY DEF Take, Inv
<1>3. /\ n \in Nat \ {0} /\ Top = stack[n] /\ a \in Agent /\ c \in Top.left
      /\ \A k \in 1 .. n : stack[k].agent \in Agent
      /\ Tried(c) \in Seq(FrameSet) /\ Len(Tried(c)) = n
      /\ Tried(c)[n].left = Top.left \ {c}
      /\ \A k \in 1 .. n : Tried(c)[k].agent = stack[k].agent
      /\ \A k \in 1 .. n : k # n => Tried(c)[k] = stack[k]
  BY <1>1, <1>2, TopFacts, TriedFacts, TriedLeft DEF Best
<1>4. c \in Free /\ decision[c] = None /\ \A d \in Top.left : guide[a][c] <= guide[a][d]
  BY <1>1, <1>2, TakenCandidate DEF Best
<1>5. /\ top \in Agent /\ prev_states[top] \in Free
      /\ \A x \in Agent : next_states'[x] = IF x = a THEN c ELSE next_states[x]
      /\ \A d \in Free : decision'[d] = IF d = c THEN a ELSE decision[d]
      /\ c # None /\ a # None
  BY <1>1, <1>2, <1>3, <1>4, FirstAgent, NoneIsNothing DEF TypeOK
<1>6. ASSUME stack' # << >>
      PROVE  \E o \in Agent :
               /\ o # a /\ next_states[o] = None /\ prev_states[o] = c
               /\ Len(stack') = n + 1
               /\ \A k \in 1 .. n : stack'[k] = Tried(c)[k]
               /\ stack'[n + 1].agent = o /\ stack'[n + 1].left = Successors(prev_states[o])
  <2> DEFINE o == Occupant(c)
             f == Frame(o, a)
  <2>1. o \in Agent /\ prev_states[o] = c
    BY <1>1, <1>2, <1>4, <1>6, OccupantOf
  <2>2. next_states'[o] = None /\ stack' = Append(Tried(c), f)
    BY <1>1, <1>6
  <2>3. f \in FrameSet /\ f.agent = o /\ f.left = Successors(prev_states[o])
    BY <1>2, <1>3, <2>1, FrameType
  <2>4. o # a /\ next_states[o] = None
    BY <1>5, <2>1, <2>2
  <2> HIDE DEF o, f
  <2>5. Len(stack') = n + 1 /\ (\A k \in 1 .. n : stack'[k] = Tried(c)[k]) /\ stack'[n + 1] = f
    BY <1>3, <2>2, <2>3, PushFacts
  <2> QED
    BY <2>1, <2>3, <2>4, <2>5
<1> HIDE DEF a, n, top
<1>7. CASE next_states[top] = None
  <2>1. /\ turn = 1 /\ n = 1 /\ a = top /\ Top.left = Successors(prev_states[top])
        /\ \A x \in Agent : next_states[x] = None
        /\ \A d \in Free : decision[d] = None
    BY <1>2, <1>3, <1>7 DEF TopInv, Fresh, a, n, top
  <2>2. next_states'[top] = c /\ Fresh' /\ BestTaken'
    BY <1>2, <1>4, <1>5, <2>1 DEF Fresh, BestTaken, top, Successors, Neighbors
  <2>3. Later'
    BY <1>2, <2>1 DEF Later
  <2>4. Pushing'
    <3> SUFFICES ASSUME stack' # << >>
                 PROVE  /\ Len(stack') > 1 /\ stack'[1].agent = top
                        /\ decision'[prev_states[top]] = None
                        /\ TriedClosed' /\ FailedClosed'
      BY <1>2 DEF Pushing, top
    <3>1. PICK o \in Agent :
            /\ o # a /\ next_states[o] = None /\ prev_states[o] = c
            /\ Len(stack') = 2
            /\ stack'[1] = Tried(c)[1]
            /\ stack'[2].agent = o /\ stack'[2].left = Successors(prev_states[o])
      BY <1>6, <2>1
    <3>2. stack'[1].agent = top
      BY <1>3, <2>1, <3>1 DEF a
    <3>3. decision'[prev_states[top]] = None
      <4>1. prev_states[top] # c
        BY <1>2, <1>5, <2>1, <3>1 DEF Apart
      <4> QED
        BY <1>5, <2>1, <4>1
    <3>4. TriedClosed'
      BY <1>2, <3>1 DEF TriedClosed, Successors, Neighbors
    <3>5. FailedClosed'
      <4> SUFFICES ASSUME NEW x \in Agent, next_states'[x] # None
                   PROVE  OnStack(x)'
        BY DEF FailedClosed
      <4>1. x = top
        BY <1>5, <2>1
      <4>2. 1 \in 1 .. Len(stack') /\ stack'[1].agent = x
        BY <3>1, <3>2, <4>1
      <4> QED
        BY <4>2 DEF OnStack
    <3> QED
      BY <3>1, <3>2, <3>3, <3>4, <3>5
  <2> QED
    BY <1>2, <2>2, <2>3, <2>4 DEF TopInv
<1>8. CASE next_states[top] # None
  <2>1. a # top
    <3>1. CASE turn = 1
      <4>1. n > 1 /\ stack[1].agent = top
        BY <1>2, <1>8, <3>1 DEF TopInv, Pushing, n, top
      <4>2. stack[n].agent # stack[1].agent
        BY <1>2, <1>3, <4>1 DEF SearchInv, StackDistinct, n
      <4> QED
        BY <1>3, <4>1, <4>2 DEF a
    <3>2. CASE turn # 1
      <4>1. turn > 1 /\ n \in 1 .. n
        BY <1>2, <1>3, <3>2 DEF TypeOK
      <4> QED
        BY <1>2, <1>3, <4>1 DEF TopInv, Later, OnStack, n, a, top
    <3> QED
      BY <3>1, <3>2
  <2>2. next_states'[top] = next_states[top]
    BY <1>5, <2>1
  <2>3. Fresh' /\ BestTaken'
    BY <1>2, <1>8, <2>2 DEF TopInv, Fresh, BestTaken, top, Successors, Neighbors
  <2>4. Later'
    <3> SUFFICES ASSUME turn > 1, NEW k \in 1 .. Len(stack'), stack'[k].agent = top
                 PROVE  FALSE
      BY <1>2 DEF Later, OnStack, top
    <3>1. k \in 1 .. Len(stack') /\ stack'[k].agent = top
      OBVIOUS
    <3>2. stack' # << >>
      BY <3>1, EmptySeq
    <3>3. PICK o \in Agent :
            /\ o # a /\ next_states[o] = None /\ prev_states[o] = c
            /\ Len(stack') = n + 1
            /\ \A l \in 1 .. n : stack'[l] = Tried(c)[l]
            /\ stack'[n + 1].agent = o /\ stack'[n + 1].left = Successors(prev_states[o])
      BY <1>6, <3>2
    <3>4. k # n + 1
      BY <1>8, <3>1, <3>3
    <3>5. k \in 1 .. n
      BY <1>3, <3>1, <3>3, <3>4
    <3>6. stack[k].agent = top
      BY <1>3, <3>1, <3>3, <3>5
    <3> QED
      BY <1>2, <3>5, <3>6 DEF TopInv, Later, OnStack, n, top
  <2>5. Pushing'
    <3> SUFFICES ASSUME turn = 1, stack' # << >>
                 PROVE  /\ Len(stack') > 1 /\ stack'[1].agent = top
                        /\ decision'[prev_states[top]] = None
                        /\ TriedClosed' /\ FailedClosed'
      BY <1>2 DEF Pushing, top
    <3>1. PICK o \in Agent :
            /\ o # a /\ next_states[o] = None /\ prev_states[o] = c
            /\ Len(stack') = n + 1
            /\ \A k \in 1 .. n : stack'[k] = Tried(c)[k]
            /\ stack'[n + 1].agent = o /\ stack'[n + 1].left = Successors(prev_states[o])
      BY <1>6
    <3>2. /\ n > 1 /\ stack[1].agent = top /\ decision[prev_states[top]] = None
          /\ TriedClosed /\ FailedClosed
      BY <1>2, <1>8 DEF TopInv, Pushing, n, top
    <3>3. stack'[1].agent = top /\ Len(stack') > 1
      BY <1>3, <3>1, <3>2
    <3>4. decision'[prev_states[top]] = None
      <4>1. prev_states[top] # c
        BY <1>2, <1>5, <1>8, <3>1 DEF Apart
      <4> QED
        BY <1>5, <3>2, <4>1
    <3>5. \A d \in Free : decision[d] # None => decision'[d] # None
      BY <1>5
    <3>6. TriedClosed'
      <4>1. ASSUME NEW k \in 2 .. n + 1, NEW d \in Successors(prev_states[stack'[k].agent])
            PROVE  d \in stack'[k].left \/ decision'[d] # None \/ d = prev_states[stack'[k - 1].agent]
        <5>1. CASE k = n + 1
          BY <3>1, <5>1
        <5>2. CASE k # n + 1
          <6>1. /\ k \in 2 .. n /\ k \in 1 .. n /\ k - 1 \in 1 .. n /\ k - 1 # n
                /\ stack'[k].agent = stack[k].agent /\ stack'[k - 1].agent = stack[k - 1].agent
            BY <1>3, <3>1, <5>2
          <6>2. d \in stack[k].left \/ decision[d] # None \/ d = prev_states[stack[k - 1].agent]
            BY <3>2, <6>1 DEF TriedClosed, n
          <6>3. d \in Free
            BY <1>2, <1>3, <6>1, SuccessorsFree DEF TypeOK
          <6>4. d \in stack[k].left => d \in stack'[k].left \/ d = c
            BY <1>3, <3>1, <6>1
          <6> QED
            BY <1>5, <3>5, <6>1, <6>2, <6>3, <6>4
        <5> QED
          BY <5>1, <5>2
      <4> QED
        BY <1>2, <3>1, <4>1 DEF TriedClosed, Successors, Neighbors
    <3>7. FailedClosed'
      <4> SUFFICES ASSUME NEW x \in Agent, next_states'[x] # None, ~ OnStack(x)'
                   PROVE  /\ next_states'[x] = prev_states[x]
                          /\ \A d \in Neighbors(prev_states[x]) : decision'[d] # None
        BY <1>2 DEF FailedClosed, Neighbors
      <4>1. ~ OnStack(x)
        <5> SUFFICES ASSUME NEW k \in 1 .. n, stack[k].agent = x PROVE FALSE
          BY DEF OnStack, n
        <5>1. k \in 1 .. Len(stack') /\ stack'[k].agent = x
          BY <1>3, <3>1
        <5> QED
          BY <5>1 DEF OnStack
      <4>2. x # a
        BY <1>3, <4>1 DEF OnStack, a, n
      <4>3. next_states[x] # None /\ next_states'[x] = next_states[x]
        BY <1>5, <4>2
      <4>4. next_states[x] = prev_states[x] /\ \A d \in Neighbors(prev_states[x]) : decision[d] # None
        BY <3>2, <4>1, <4>3 DEF FailedClosed
      <4>5. \A d \in Neighbors(prev_states[x]) : d \in Free
        BY DEF Neighbors
      <4> QED
        BY <3>5, <4>3, <4>4, <4>5
    <3> QED
      BY <3>3, <3>4, <3>6, <3>7
  <2> QED
    BY <1>2, <2>3, <2>4, <2>5 DEF TopInv
<1> QED
  BY <1>7, <1>8

\* The agent that the first one has pushed cannot fail: the decided cells would be a dead end.
LEMMA PushedFinds ==
  ASSUME OnCycles, Inv, phase = "planning", Len(stack) = 2, Top.left = {},
         next_states[ids[1]] # None, stack[1].agent = ids[1],
         decision[prev_states[ids[1]]] = None, TriedClosed, FailedClosed
  PROVE  FALSE
<1> DEFINE top == ids[1]
           b == stack[2].agent
           v == prev_states[top]
           c == prev_states[b]
           D == {d \in Free : decision[d] # None}
<1>1. stack # << >> /\ TypeOK /\ Apart /\ SearchInv
  BY EmptySeq DEF Inv
<1>2. /\ top \in Agent /\ b \in Agent /\ v \in Free /\ c \in Free /\ Top = stack[2]
      /\ Top.agent = b /\ stack[2].left = {}
  BY <1>1, TopFacts, FirstAgent DEF TypeOK, Top
<1>3. b # top
  BY <1>1 DEF SearchInv, StackDistinct
<1>4. next_states[top] = c /\ decision[c] = top
  BY <1>1 DEF SearchInv, StackChained
<1>5. c \in Neighbors(v) /\ c \in D
  <2>1. c \in Successors(v) /\ c # v
    BY <1>1, <1>2, <1>3, <1>4 DEF SearchInv, NextReachable, Apart
  <2> QED
    BY <1>2, <1>4, <2>1, NoneIsNothing DEF Successors
<1>6. v \notin D /\ D \in SUBSET Free
  OBVIOUS
<1>7. ASSUME NEW u \in D, NEW w \in Neighbors(u), << u, w >> # << c, v >>
      PROVE  w \in D
  <2> DEFINE x == decision[u]
  <2>1. x \in Agent /\ next_states[x] = u /\ w \in Free /\ u \in Free
    <3>1. x \in Agent
      BY <1>1 DEF TypeOK
    <3>2. next_states[x] = u
      BY <1>1, <3>1 DEF SearchInv, DecidedTaken
    <3> QED
      BY <3>1, <3>2 DEF Neighbors
  <2>2. CASE x = top
    <3>1. u = c /\ w # v
      BY <1>4, <1>7, <2>1, <2>2
    <3>2. w \in Successors(c)
      BY <1>7, <3>1 DEF Successors
    <3>3. w \in stack[2].left \/ decision[w] # None \/ w = prev_states[stack[1].agent]
      BY <3>2 DEF TriedClosed
    <3> QED
      BY <1>2, <2>1, <3>1, <3>3
  <2>3. CASE x = b
    BY <1>1, <1>2, <2>1, <2>3 DEF SearchInv, TopUndecided
  <2>4. CASE x # top /\ x # b
    <3>1. ~ OnStack(x)
      <4>1. \A k \in 1 .. 2 : k = 1 \/ k = 2
        OBVIOUS
      <4> QED
        BY <2>4, <4>1 DEF OnStack
    <3>2. next_states[x] # None
      BY <2>1, NoneIsNothing
    <3>3. u = prev_states[x] /\ \A d \in Neighbors(u) : decision[d] # None
      BY <2>1, <3>1, <3>2 DEF FailedClosed
    <3> QED
      BY <2>1, <3>3
  <2> QED
    BY <2>2, <2>3, <2>4
<1> HIDE DEF D, c, v
<1>8. \A u \in D : \A w \in Neighbors(u) : << u, w >> # << c, v >> => w \in D
  BY <1>7
<1> QED
  BY <1>2, <1>5, <1>6, <1>8 DEF OnCycles

LEMMA FailTop ==
  ASSUME OnCycles, Inv, TopInv, Fail
  PROVE  TopInv'
<1> DEFINE n == Len(stack)
           a == Top.agent
           top == ids[1]
<1>1. /\ phase = "planning" /\ stack # << >> /\ TypeOK /\ Apart /\ SearchInv /\ Top.left = {}
      /\ UNCHANGED << phase, ids, guide, turn, prev_states >>
      /\ next_states' = [next_states EXCEPT ![a] = prev_states[a]]
      /\ decision' = [decision EXCEPT ![prev_states[a]] = a]
      /\ stack' = SubSeq(stack, 1, Len(stack) - 1)
  BY DEF Fail, Inv, Below
<1>2. /\ n \in Nat \ {0} /\ n \in 1 .. n /\ Top = stack[n] /\ a \in Agent
      /\ stack \in Seq(FrameSet)
      /\ \A k \in 1 .. n : stack[k].agent \in Agent
  BY <1>1, TopFacts
<1>3. /\ Len(stack') = n - 1
      /\ \A k \in 1 .. n - 1 : stack'[k] = stack[k]
  BY <1>1, <1>2, PopFacts
<1>4. /\ top \in Agent /\ prev_states[top] \in Free /\ prev_states[top] \in Successors(prev_states[top])
      /\ prev_states[a] \in Free /\ a # None
      /\ \A x \in Agent : next_states'[x] = IF x = a THEN prev_states[a] ELSE next_states[x]
      /\ \A d \in Free : decision'[d] = IF d = prev_states[a] THEN a ELSE decision[d]
  BY <1>1, <1>2, FirstAgent, NoneIsNothing DEF TypeOK
<1>5. next_states[top] # None
  BY <1>1, <1>2, <1>4 DEF TopInv, Fresh
<1> HIDE DEF n, a, top
<1>6. CASE turn # 1
  <2>1. turn > 1
    BY <1>1, <1>6 DEF TypeOK
  <2>2. ~ OnStack(top)
    BY <1>1, <2>1 DEF TopInv, Later, top
  <2>3. a # top
    BY <1>2, <2>2 DEF OnStack, a, n
  <2>4. \A k \in 1 .. n - 1 : stack[k].agent # top
    BY <1>2, <2>2 DEF OnStack, n
  <2>5. Later'
    BY <1>1, <1>3, <2>4 DEF Later, OnStack, top
  <2>6. next_states'[top] = next_states[top]
    BY <1>4, <2>3
  <2> QED
    BY <1>1, <1>5, <1>6, <2>5, <2>6 DEF TopInv, Fresh, BestTaken, Pushing, top, Successors, Neighbors
<1>7. CASE turn = 1
  <2>1. /\ n > 1 /\ stack[1].agent = top /\ decision[prev_states[top]] = None
        /\ TriedClosed /\ FailedClosed
    BY <1>1, <1>5, <1>7 DEF TopInv, Pushing, n, top
  <2>2. n # 2
    BY <1>1, <1>5, <2>1, PushedFinds DEF Inv, n, top
  <2>3. n > 2
    BY <1>2, <2>1, <2>2
  <2>4. \A k \in 1 .. n - 1 : stack[k].agent # a
    <3>1. \A k \in 1 .. n - 1 : k \in 1 .. n /\ k # n
      BY <1>2
    <3> QED
      BY <1>1, <1>2, <3>1 DEF SearchInv, StackDistinct, n, a
  <2>5. a # top
    BY <1>2, <2>1, <2>4
  <2>6. next_states'[top] = next_states[top]
    BY <1>4, <2>5
  <2>7. Fresh' /\ BestTaken' /\ Later'
    BY <1>1, <1>5, <1>7, <2>6 DEF TopInv, Fresh, BestTaken, Later, top, Successors, Neighbors
  <2>8. \A d \in Free : decision[d] # None => decision'[d] # None
    BY <1>4
  <2>9. decision'[prev_states[top]] = None
    <3>1. prev_states[top] # prev_states[a]
      BY <1>1, <1>2, <1>4, <2>5 DEF Apart
    <3> QED
      BY <1>4, <2>1, <3>1
  <2>10. TriedClosed'
    <3>1. ASSUME NEW k \in 2 .. n - 1, NEW d \in Successors(prev_states[stack'[k].agent])
          PROVE  d \in stack'[k].left \/ decision'[d] # None \/ d = prev_states[stack'[k - 1].agent]
      <4>1. k \in 2 .. n /\ k \in 1 .. n /\ stack'[k] = stack[k] /\ stack'[k - 1] = stack[k - 1]
        BY <1>2, <1>3
      <4>2. d \in stack[k].left \/ decision[d] # None \/ d = prev_states[stack[k - 1].agent]
        BY <2>1, <4>1 DEF TriedClosed, n
      <4>3. d \in Free
        BY <1>1, <1>2, <4>1, SuccessorsFree DEF TypeOK
      <4> QED
        BY <2>8, <4>1, <4>2, <4>3
    <3> QED
      BY <1>1, <1>3, <3>1 DEF TriedClosed, Successors, Neighbors
  <2>11. FailedClosed'
    <3> SUFFICES ASSUME NEW x \in Agent, next_states'[x] # None,
                        \A k \in 1 .. n - 1 : stack[k].agent # x
                 PROVE  /\ next_states'[x] = prev_states[x]
                        /\ \A d \in Neighbors(prev_states[x]) : decision'[d] # None
      BY <1>1, <1>3 DEF FailedClosed, OnStack, Neighbors
    <3>1. CASE x = a
      <4>1. ASSUME NEW d \in Neighbors(prev_states[a])
            PROVE  decision'[d] # None
        <5>1. d \in Free /\ d \in Successors(prev_states[a])
          BY DEF Successors, Neighbors
        <5>2. decision[d] # None \/ d = prev_states[stack[n - 1].agent]
          <6>1. n \in 2 .. n
            BY <1>2, <2>1
          <6>2. d \in stack[n].left \/ decision[d] # None \/ d = prev_states[stack[n - 1].agent]
            BY <1>2, <2>1, <5>1, <6>1 DEF TriedClosed, n, a
          <6> QED
            BY <1>1, <1>2, <6>2
        <5>3. decision[prev_states[stack[n - 1].agent]] # None
          <6> DEFINE k == n - 1
                     y == stack[k - 1].agent
          <6>1. k \in 1 .. n /\ k > 1 /\ k - 1 \in 1 .. n /\ k - 1 < n
            BY <1>2, <2>3
          <6>2. next_states[y] = prev_states[stack[k].agent]
            BY <1>1, <6>1 DEF SearchInv, StackChained, n
          <6>3. decision[next_states[y]] = y
            BY <1>1, <6>1 DEF SearchInv, StackChained, n
          <6>4. y \in Agent
            BY <1>2, <6>1
          <6> QED
            BY <6>2, <6>3, <6>4, NoneIsNothing
        <5> QED
          BY <2>8, <5>1, <5>2, <5>3
      <4> QED
        BY <1>4, <3>1, <4>1
    <3>2. CASE x # a
      <4>1. ~ OnStack(x)
        BY <1>2, <3>2 DEF OnStack, a, n
      <4>2. next_states[x] # None /\ next_states'[x] = next_states[x]
        BY <1>4, <3>2
      <4>3. next_states[x] = prev_states[x] /\ \A d \in Neighbors(prev_states[x]) : decision[d] # None
        BY <2>1, <4>1, <4>2 DEF FailedClosed
      <4>4. \A d \in Neighbors(prev_states[x]) : d \in Free
        BY DEF Neighbors
      <4> QED
        BY <2>8, <4>2, <4>3, <4>4
    <3> QED
      BY <3>1, <3>2
  <2>12. Pushing'
    <3>1. Len(stack') > 1 /\ stack'[1].agent = top
      BY <1>2, <1>3, <2>1, <2>3
    <3> QED
      BY <1>1, <2>9, <2>10, <2>11, <3>1 DEF Pushing, top
  <2> QED
    BY <1>1, <2>7, <2>12 DEF TopInv
<1> QED
  BY <1>6, <1>7

LEMMA FinishTop ==
  ASSUME Inv, TopInv, Finish
  PROVE  TopInv'
  BY DEF TopInv, Finish, BestTaken, Successors, Neighbors

\* Where every two neighbouring cells are on a cycle, the agent of highest priority comes
\* closer to its goal in every timestep, whatever the guides and wherever the others are.
THEOREM TopAdvances == OnCycles => (Spec => []TopAgentAdvances)
<1> SUFFICES ASSUME OnCycles PROVE Spec => []TopAgentAdvances
  OBVIOUS
<1>1. Init => TopInv
  BY DEF Init, TopInv
<1>2. Inv /\ TopInv /\ [Next]_vars => TopInv'
  <2> SUFFICES ASSUME Inv, TopInv, [Next]_vars
               PROVE  TopInv'
    OBVIOUS
  <2>1. CASE Start
    BY <2>1, StartTop
  <2>2. CASE Pass
    BY <2>2, PassTop
  <2>3. CASE Call
    BY <2>3, CallTop
  <2>4. CASE Skip
    BY <2>4, SkipTop
  <2>5. CASE Take
    BY <2>5, TakeTop
  <2>6. CASE Fail
    BY <2>6, FailTop
  <2>7. CASE Finish
    BY <2>7, FinishTop
  <2>8. CASE Execute
    BY <2>8 DEF Execute, TopInv
  <2>9. CASE UNCHANGED vars
    BY <2>9 DEF vars, TopInv, Fresh, BestTaken, Pushing, Later, TriedClosed, FailedClosed, OnStack,
       Successors, Neighbors
  <2> QED
    BY <2>1, <2>2, <2>3, <2>4, <2>5, <2>6, <2>7, <2>8, <2>9 DEF Next, Plan
<1>3. Inv /\ TopInv => TopAgentAdvances
  <2> SUFFICES ASSUME Inv, TopInv, phase = "planned",
                      NEW c \in Successors(prev_states[ids[1]]),
                      ~ guide[ids[1]][prev_states[ids[1]]] <= guide[ids[1]][c]
               PROVE  guide[ids[1]][next_states[ids[1]]] < guide[ids[1]][prev_states[ids[1]]]
    BY DEF TopAgentAdvances
  <2>1. TypeOK /\ next_states \in [Agent -> Free] /\ BestTaken
    BY DEF Inv, PlanInv, TopInv
  <2>2. ids[1] \in Agent /\ prev_states[ids[1]] \in Free /\ c \in Free /\ next_states[ids[1]] \in Free
    BY <2>1, FirstAgent, SuccessorsFree
  <2>3. guide \in [Agent -> [Free -> Nat]]
    BY <2>1, GuidesAssumption DEF TypeOK
  <2>4. guide[ids[1]][next_states[ids[1]]] <= guide[ids[1]][c]
    BY <2>1, <2>2, NoneIsNothing DEF BestTaken
  <2> QED
    BY <2>2, <2>3, <2>4
<1> QED
  BY <1>1, <1>2, <1>3, Invariance, PTL DEF Spec

=============================================================================
