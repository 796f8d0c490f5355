------------------------- MODULE TaskMatcherProofs -------------------------
(***************************************************************************)
(* Proofs about the task matcher, for every team, pool, option and scores. *)
(*                                                                         *)
(* The invariant says what the call knows of its candidates (none of them  *)
(* has an opened task, and those without a task are no more than the       *)
(* ratio admits) and of its matches (candidates get tasks that nobody else *)
(* has, no task twice); both survive a deadline between any two steps.     *)
(***************************************************************************)
EXTENDS TaskMatcher, Lemmas

-----------------------------------------------------------------------------
(* The invariant.                                                          *)

Typed ==
  /\ config \in Configs
  /\ curr_task_schedule \in [Agent -> Task \cup {None}]
  /\ opened \subseteq Scheduled(curr_task_schedule)
  /\ pc # "idle" => now \in Scenes
  /\ pc \in {"idle", "ready", "priced", "solved", "refined", "search", "matched", "done"}
  /\ late \in BOOLEAN
  /\ candidates \subseteq Agent
  /\ visited \subseteq candidates
  /\ proposed_schedule \in [Agent -> Task \cup {None}]

\* No task is given twice.
Single(schedule) == \A a, b \in Agent : schedule[a] = schedule[b] /\ a # b => schedule[a] = None

CandidatesKnown ==
  pc # "idle" => /\ \A a \in candidates : curr_task_schedule[a] \notin opened
                 /\ candidates \ Busy(curr_task_schedule) \subseteq Admitted

\* Candidates, and the tasks that only candidates have or nobody.
MatchesKnown ==
  /\ DOMAIN matches \subseteq candidates
  /\ \A a \in DOMAIN matches : matches[a] \in tasks
  /\ \A a, b \in DOMAIN matches : matches[a] = matches[b] => a = b
  /\ pc \in {"idle", "ready", "priced"} => DOMAIN matches = {}
  /\ pc \in {"idle", "ready", "priced", "solved", "refined"} => visited = {}
  /\ pc = "search" => DOMAIN matches \subseteq visited

\* The matrix that is solved is one that is filled for these candidates and tasks.
CostsKnown == pc = "priced" => cost \in CostMatrices

\* What is proposed comes from the matches, the old tasks and the others' tasks.
Proposal ==
  pc = "done" => /\ Valid(proposed_schedule)
                 /\ Busy(proposed_schedule) \subseteq Busy(curr_task_schedule) \cup candidates

IInv ==
  /\ Typed /\ Single(curr_task_schedule) /\ CandidatesKnown /\ MatchesKnown /\ CostsKnown
  /\ Proposal

-----------------------------------------------------------------------------
LEMMA NoneIsNoTask == None \notin Task
  BY TaskAssumption DEF None

LEMMA AgentsFinite == IsFiniteSet(Agent)
<1>1. 0 \in Int /\ NumAgents - 1 \in Int
  BY NumAgentsAssumption
<1> QED
  BY <1>1, FS_Interval DEF Agent

LEMMA NoMatchesEmpty == DOMAIN NoMatches = {}
  BY DEF NoMatches

\* The tasks that are left have no agent but candidates.
LEMMA LeftTasks ==
  ASSUME Typed, NEW t \in tasks
  PROVE  t \in Task /\ \A a \in Agent \ candidates : curr_task_schedule[a] # t
  BY NoneIsNoTask DEF Typed, tasks, local, Scheduled, Agent

LEMMA InitIInv == Init => IInv
<1> SUFFICES ASSUME Init PROVE IInv
  OBVIOUS
<1>1. Scheduled(curr_task_schedule) = {}
  BY DEF Init, Scheduled
<1>2. Typed
  BY <1>1 DEF Init, Typed
<1>3. Single(curr_task_schedule)
  BY DEF Init, Single
<1>4. CandidatesKnown /\ Proposal /\ CostsKnown
  BY DEF Init, CandidatesKnown, Proposal, CostsKnown
<1>5. MatchesKnown
  BY NoMatchesEmpty DEF Init, MatchesKnown
<1> QED
  BY <1>2, <1>3, <1>4, <1>5 DEF IInv

\* The matrices depend on what does not change once the candidates are known.
LEMMA SameMatrices ==
  ASSUME UNCHANGED << config, curr_task_schedule, now, candidates >>
  PROVE  tasks' = tasks /\ CostMatrices' = CostMatrices
<1>1. tasks' = tasks
  BY DEF tasks, local, Scheduled
<1>2. Ranks' = Ranks
  BY <1>1 DEF Ranks
<1>3. \A extra, rank : traffic_cost_matrix(rank, extra)' = traffic_cost_matrix(rank, extra)
  BY <1>1 DEF traffic_cost_matrix, Reaches, Delivers, Nearer, task_score
<1>4. \A matrix : add_keep_bias(matrix)' = add_keep_bias(matrix)
  BY <1>1 DEF add_keep_bias, HasOld
<1> DEFINE scores == [a \in candidates |-> [t \in tasks |-> task_score(a, t)]]
<1>5. scores' = scores
  BY <1>1 DEF task_score, Reaches, Delivers
<1>6. CASE config.traffic
  <2>1. \A rank, extra : add_keep_bias(traffic_cost_matrix(rank, extra))'
                           = add_keep_bias(traffic_cost_matrix(rank, extra))
    BY <1>3, <1>4
  <2> QED
    BY <1>1, <1>2, <1>6, <2>1 DEF CostMatrices
<1>7. CASE ~ config.traffic
  <2>1. add_keep_bias(scores)' = add_keep_bias(scores)
    BY <1>4, <1>5
  <2> QED
    BY <1>1, <1>7, <2>1 DEF CostMatrices
<1> QED
  BY <1>1, <1>6, <1>7

LEMMA ExpireIInv == IInv /\ Expire => IInv'
<1> SUFFICES ASSUME IInv, Expire PROVE IInv'
  OBVIOUS
<1> USE DEF Expire
<1>1. Typed' /\ Single(curr_task_schedule)'
  BY DEF IInv, Typed, Single
<1>2. CandidatesKnown'
  BY DEF IInv, CandidatesKnown, Busy, Admitted, MaxNew
<1>3. MatchesKnown'
  BY DEF IInv, MatchesKnown, tasks, local
<1>4. Proposal'
  BY DEF Proposal
<1>5. CostsKnown'
  BY SameMatrices DEF IInv, CostsKnown
<1> QED
  BY <1>1, <1>2, <1>3, <1>4, <1>5 DEF IInv

LEMMA CollectIInv == IInv /\ Collect => IInv'
<1> SUFFICES ASSUME IInv, Collect PROVE IInv'
  OBVIOUS
<1>1. PICK near \in SUBSET Agent : candidates' = Admitted \cup Movable(near)
  BY DEF Collect
<1>2. Typed
  BY DEF IInv
<1>3. Admitted \subseteq Agent \ Busy(curr_task_schedule) /\ Movable(near) \subseteq Busy(curr_task_schedule)
  BY DEF Admitted, Movable
<1>4. \A a \in candidates' : curr_task_schedule[a] \notin opened
  <2>1. \A a \in Movable(near) : curr_task_schedule[a] \notin opened
    BY DEF Movable
  <2>2. \A a \in Admitted : curr_task_schedule[a] = None
    BY <1>3 DEF Busy
  <2>3. None \notin opened
    BY <1>2 DEF Typed, Scheduled
  <2> QED
    BY <1>1, <2>1, <2>2, <2>3
<1>5. DOMAIN matches = {} /\ visited = {}
  BY DEF IInv, MatchesKnown, Collect
<1>6. Typed' /\ Single(curr_task_schedule)'
  BY <1>1, <1>3, <1>5 DEF IInv, Typed, Single, Collect, Busy
<1>7. CandidatesKnown'
  <2>1. candidates' \ Busy(curr_task_schedule) \subseteq Admitted
    BY <1>1, <1>3
  <2>2. Busy(curr_task_schedule)' = Busy(curr_task_schedule) /\ Admitted' = Admitted
    BY DEF Collect, Busy, Admitted, MaxNew
  <2> QED
    BY <1>4, <2>1, <2>2 DEF CandidatesKnown, Collect
<1>8. MatchesKnown'
  BY <1>5 DEF MatchesKnown, Collect
<1>9. Proposal' /\ CostsKnown'
  BY DEF Proposal, CostsKnown, Collect
<1> QED
  BY <1>6, <1>7, <1>8, <1>9 DEF IInv

LEMMA PriceIInv == IInv /\ Price => IInv'
<1> SUFFICES ASSUME IInv, Price PROVE IInv'
  OBVIOUS
<1> USE DEF Price
<1>1. Typed' /\ Single(curr_task_schedule)'
  BY DEF IInv, Typed, Single
<1>2. CandidatesKnown'
  BY DEF IInv, CandidatesKnown, Busy, Admitted, MaxNew
<1>3. MatchesKnown'
  BY DEF IInv, MatchesKnown, tasks, local
<1>4. Proposal'
  BY DEF Proposal
<1>5. CostsKnown'
  BY SameMatrices DEF CostsKnown
<1> QED
  BY <1>1, <1>2, <1>3, <1>4, <1>5 DEF IInv

LEMMA SearchEndIInv == IInv /\ SearchEnd => IInv'
<1> SUFFICES ASSUME IInv, SearchEnd PROVE IInv'
  OBVIOUS
<1> USE DEF SearchEnd
<1>1. Typed' /\ Single(curr_task_schedule)'
  BY DEF IInv, Typed, Single
<1>2. CandidatesKnown'
  BY DEF IInv, CandidatesKnown, Busy, Admitted, MaxNew
<1>3. MatchesKnown'
  BY DEF IInv, MatchesKnown, tasks, local
<1>4. Proposal'
  BY DEF Proposal
<1>5. CostsKnown'
  BY DEF CostsKnown
<1> QED
  BY <1>1, <1>2, <1>3, <1>4, <1>5 DEF IInv

LEMMA SettleIInv == IInv /\ Settle => IInv'
<1> SUFFICES ASSUME IInv, Settle PROVE IInv'
  OBVIOUS
<1> USE DEF Settle
<1>1. Typed' /\ Single(curr_task_schedule)'
  BY DEF IInv, Typed, Single
<1>2. CandidatesKnown'
  BY DEF IInv, CandidatesKnown, Busy, Admitted, MaxNew
<1>3. MatchesKnown'
  <2>1. matches = NoMatches => DOMAIN matches = {}
    BY NoMatchesEmpty
  <2>2. tasks' = tasks
    BY DEF tasks, local
  <2> QED
    BY <2>1, <2>2 DEF IInv, MatchesKnown
<1>4. Proposal'
  BY DEF Proposal
<1>5. CostsKnown'
  BY DEF CostsKnown
<1> QED
  BY <1>1, <1>2, <1>3, <1>4, <1>5 DEF IInv

\* Whatever part of the matches is kept: what is proposed is valid if the others get None or
\* their old task, and that only if nobody was matched to it.
LEMMA ProposalHolds ==
  ASSUME IInv, pc # "idle", NEW agents \in SUBSET DOMAIN matches,
         NEW back \in SUBSET {a \in Agent : HasOld(a)},
         \A a \in back, b \in agents : curr_task_schedule[a] # matches[b],
         NEW s, s = [a \in Agent |-> IF a \in agents THEN matches[a]
                                    ELSE IF a \in back THEN curr_task_schedule[a] ELSE local[a]]
  PROVE  /\ s \in [Agent -> Task \cup {None}]
         /\ Valid(s)
         /\ Busy(s) \subseteq Busy(curr_task_schedule) \cup candidates
<1>1. Typed /\ Single(curr_task_schedule) /\ CandidatesKnown /\ MatchesKnown
  BY DEF IInv
<1>2. /\ candidates \subseteq Agent /\ DOMAIN matches \subseteq candidates
      /\ curr_task_schedule \in [Agent -> Task \cup {None}]
  BY <1>1 DEF Typed, MatchesKnown
<1>3. \A a \in agents : s[a] = matches[a] /\ matches[a] \in tasks
  BY <1>1, <1>2 DEF MatchesKnown
<1>4. \A a \in Agent \ agents : /\ s[a] \in {curr_task_schedule[a], None}
                                /\ a \notin candidates => s[a] = curr_task_schedule[a]
                                /\ s[a] # None /\ a \in candidates => a \in back
  BY <1>2 DEF local, HasOld
<1>5. \A a \in Agent : s[a] \in Task \cup {None}
  BY <1>1, <1>2, <1>3, <1>4, LeftTasks
<1>6. s \in [Agent -> Task \cup {None}]
  BY <1>5
<1>7. \A a, b \in Agent : s[a] = s[b] /\ a # b => s[a] = None
  <2> SUFFICES ASSUME NEW a \in Agent, NEW b \in Agent, s[a] = s[b], a # b, s[a] # None
               PROVE  FALSE
    OBVIOUS
  <2>1. ASSUME NEW x \in agents, NEW y \in Agent \ agents, s[x] = s[y], s[x] # None
        PROVE  FALSE
    <3>1. s[y] = curr_task_schedule[y] /\ s[x] = matches[x] /\ matches[x] \in tasks
      BY <1>3, <1>4, <2>1
    <3>2. CASE y \in candidates
      BY <1>4, <2>1, <3>1, <3>2
    <3>3. CASE y \notin candidates
      BY <1>1, <2>1, <3>1, <3>3, LeftTasks
    <3> QED
      BY <3>2, <3>3
  <2>2. CASE a \in agents /\ b \in agents
    BY <1>1, <1>3, <2>2 DEF MatchesKnown
  <2>3. CASE a \notin agents /\ b \notin agents
    BY <1>1, <1>4, <2>3 DEF Single
  <2>4. CASE a \in agents /\ b \notin agents
    BY <2>1, <2>4
  <2>5. CASE a \notin agents /\ b \in agents
    BY <2>1, <2>5
  <2> QED
    BY <2>2, <2>3, <2>4, <2>5
<1>8. ASSUME NEW a \in Agent, curr_task_schedule[a] \in opened
      PROVE  s[a] = curr_task_schedule[a]
  <2>1. a \notin candidates
    BY <1>1, <1>8 DEF CandidatesKnown
  <2> QED
    BY <1>2, <1>4, <2>1
<1>9. Scheduled(s) \subseteq Task
  BY <1>5 DEF Scheduled
<1>10. Valid(s)
  BY <1>7, <1>8, <1>9 DEF Valid
<1>11. Busy(s) \subseteq Busy(curr_task_schedule) \cup candidates
  BY <1>2, <1>4 DEF Busy
<1> QED
  BY <1>6, <1>10, <1>11

LEMMA ReturnEarlyIInv == IInv /\ ReturnEarly => IInv'
<1> SUFFICES ASSUME IInv, ReturnEarly PROVE IInv'
  OBVIOUS
<1>1. local = [a \in Agent |-> IF a \in {} THEN matches[a]
                              ELSE IF a \in {} THEN curr_task_schedule[a] ELSE local[a]]
  BY DEF local
<1>2. /\ proposed_schedule' = local /\ pc = "ready" /\ pc' = "done"
      /\ UNCHANGED << config, curr_task_schedule, opened, now, cost, late, candidates, visited, matches >>
  BY DEF ReturnEarly
<1>3. /\ proposed_schedule' \in [Agent -> Task \cup {None}]
      /\ Valid(proposed_schedule')
      /\ Busy(proposed_schedule') \subseteq Busy(curr_task_schedule) \cup candidates
  <2> DEFINE E == {}
  <2>1. /\ E \in SUBSET DOMAIN matches /\ E \in SUBSET {a \in Agent : HasOld(a)}
        /\ \A a \in E, b \in E : curr_task_schedule[a] # matches[b]
    OBVIOUS
  <2>2. local = [a \in Agent |-> IF a \in E THEN matches[a]
                                ELSE IF a \in E THEN curr_task_schedule[a] ELSE local[a]]
    BY <1>1
  <2>3. pc # "idle"
    BY <1>2
  <2> HIDE DEF E
  <2> QED
    BY <1>2, <2>1, <2>2, <2>3, ProposalHolds
<1>4. Typed' /\ Single(curr_task_schedule)'
  BY <1>2, <1>3 DEF IInv, Typed, Single
<1>5. CandidatesKnown'
  BY <1>2 DEF IInv, CandidatesKnown, Busy, Admitted, MaxNew
<1>6. MatchesKnown'
  BY <1>2 DEF IInv, MatchesKnown, tasks, local
<1>7. Proposal' /\ CostsKnown'
  BY <1>2, <1>3 DEF Proposal, CostsKnown, Valid, Busy
<1> QED
  BY <1>4, <1>5, <1>6, <1>7 DEF IInv

LEMMA ProposeIInv == IInv /\ Propose => IInv'
<1> SUFFICES ASSUME IInv, Propose PROVE IInv'
  OBVIOUS
<1>1. /\ pc = "matched" /\ pc' = "done"
      /\ UNCHANGED << config, curr_task_schedule, opened, now, cost, late, candidates, visited, matches >>
  BY DEF Propose
<1>2. PICK agents \in SUBSET DOMAIN matches, back \in SUBSET {a \in Agent : HasOld(a)} :
        /\ \A a \in back, b \in agents : curr_task_schedule[a] # matches[b]
        /\ proposed_schedule' = [a \in Agent |-> IF a \in agents THEN matches[a]
                                   ELSE IF a \in back THEN curr_task_schedule[a] ELSE local[a]]
  <2>1. CASE matches = NoMatches
    <3> DEFINE E == {}
               back == {a \in Agent : HasOld(a)}
    <3>1. proposed_schedule' = [a \in Agent |-> IF a \in E THEN matches[a]
                                 ELSE IF a \in back THEN curr_task_schedule[a] ELSE local[a]]
      BY <2>1 DEF Propose
    <3>2. /\ E \in SUBSET DOMAIN matches
          /\ \A a \in back, b \in E : curr_task_schedule[a] # matches[b]
      OBVIOUS
    <3> HIDE DEF E
    <3> QED
      BY <3>1, <3>2
  <2>2. CASE matches # NoMatches
    <3>1. PICK agents \in SUBSET DOMAIN matches :
            proposed_schedule' =
              [a \in Agent |-> IF a \in agents THEN matches[a]
                               ELSE IF HasOld(a) /\ GivenBack(agents, a) THEN curr_task_schedule[a]
                               ELSE local[a]]
      BY <2>2 DEF Propose
    <3> DEFINE back == {a \in Agent : HasOld(a) /\ GivenBack(agents, a)}
    <3>2. proposed_schedule' = [a \in Agent |-> IF a \in agents THEN matches[a]
                                 ELSE IF a \in back THEN curr_task_schedule[a] ELSE local[a]]
      BY <3>1
    <3>3. \A a \in back, b \in agents : curr_task_schedule[a] # matches[b]
      BY DEF GivenBack
    <3>4. back \in SUBSET {a \in Agent : HasOld(a)}
      OBVIOUS
    <3> HIDE DEF back
    <3> QED
      BY <3>2, <3>3, <3>4
  <2> QED
    BY <2>1, <2>2
<1>3. /\ proposed_schedule' \in [Agent -> Task \cup {None}]
      /\ Valid(proposed_schedule')
      /\ Busy(proposed_schedule') \subseteq Busy(curr_task_schedule) \cup candidates
  <2>1. pc # "idle"
    BY <1>1
  <2> QED
    BY <1>2, <2>1, ProposalHolds
<1>4. Typed' /\ Single(curr_task_schedule)'
  BY <1>1, <1>3 DEF IInv, Typed, Single
<1>5. CandidatesKnown'
  BY <1>1 DEF IInv, CandidatesKnown, Busy, Admitted, MaxNew
<1>6. MatchesKnown'
  BY <1>1 DEF IInv, MatchesKnown, tasks, local
<1>7. Proposal' /\ CostsKnown'
  BY <1>1, <1>3 DEF Proposal, CostsKnown, Valid, Busy
<1> QED
  BY <1>4, <1>5, <1>6, <1>7 DEF IInv

LEMMA SearchNextIInv == IInv /\ SearchNext => IInv'
<1> SUFFICES ASSUME IInv, SearchNext PROVE IInv'
  OBVIOUS
<1>1. /\ pc = "search"
      /\ UNCHANGED << config, curr_task_schedule, opened, now, cost, pc, candidates, proposed_schedule >>
  BY DEF SearchNext
<1>2. PICK a \in candidates \ visited :
        /\ visited' = visited \cup {a} /\ late' \in BOOLEAN
        /\ \/ matches' = matches
           \/ \E t \in tasks \ Matched(matches) :
                matches' = [b \in DOMAIN matches \cup {a} |-> IF b = a THEN t ELSE matches[b]]
  <2> DEFINE free == Cardinality(tasks \ Matched(matches))
             keep == IF CandidateTopK < free THEN CandidateTopK ELSE free
             valid(a, kept) == {t \in kept : task_score(a, t) < InvalidLimit}
             best(a, kept) == {t \in valid(a, kept) :
                                 \A other \in valid(a, kept) : task_score(a, t) <= task_score(a, other)}
  <2>1. PICK a \in candidates \ visited, kept \in SUBSET (tasks \ Matched(matches)) :
          /\ late' = (Cardinality(kept) < keep)
          /\ visited' = visited \cup {a}
          /\ IF best(a, kept) = {} THEN matches' = matches
             ELSE \E t \in best(a, kept) :
                    matches' = [b \in DOMAIN matches \cup {a} |-> IF b = a THEN t ELSE matches[b]]
    BY Zenon DEF SearchNext
  <2>2. best(a, kept) \subseteq tasks \ Matched(matches)
    OBVIOUS
  <2>3. late' \in BOOLEAN
    <3> HIDE DEF keep
    <3> QED
      BY <2>1
  <2> HIDE DEF best
  <2> QED
    BY <2>1, <2>2, <2>3
<1>3. Typed /\ MatchesKnown
  BY DEF IInv
<1>4. Typed' /\ Single(curr_task_schedule)'
  BY <1>1, <1>2 DEF IInv, Typed, Single
<1>5. CandidatesKnown'
  BY <1>1 DEF IInv, CandidatesKnown, Busy, Admitted, MaxNew
<1>6. MatchesKnown'
  <2>1. tasks' = tasks
    BY <1>1 DEF tasks, local
  <2>2. CASE matches' = matches
    BY <1>1, <1>2, <1>3, <2>1, <2>2 DEF MatchesKnown
  <2>3. CASE matches' # matches
    <3>1. PICK t \in tasks \ Matched(matches) :
            matches' = [b \in DOMAIN matches \cup {a} |-> IF b = a THEN t ELSE matches[b]]
      BY <1>2, <2>3
    <3>2. DOMAIN matches' = DOMAIN matches \cup {a} /\ a \notin DOMAIN matches
      BY <1>1, <1>3, <3>1 DEF MatchesKnown
    <3>3. \A b \in DOMAIN matches : matches'[b] = matches[b] /\ matches[b] # t
      BY <3>1, <3>2 DEF Matched
    <3>4. matches'[a] = t
      BY <3>1
    <3>5. \A b \in DOMAIN matches' : matches'[b] \in tasks
      BY <1>3, <3>2, <3>3, <3>4 DEF MatchesKnown
    <3>6. \A b, c \in DOMAIN matches' : matches'[b] = matches'[c] => b = c
      BY <1>3, <3>2, <3>3, <3>4 DEF MatchesKnown
    <3>7. DOMAIN matches' \subseteq candidates /\ DOMAIN matches' \subseteq visited'
      BY <1>1, <1>2, <1>3, <3>2 DEF MatchesKnown
    <3> QED
      BY <1>1, <2>1, <3>5, <3>6, <3>7 DEF MatchesKnown
  <2> QED
    BY <2>2, <2>3
<1>7. Proposal' /\ CostsKnown'
  BY <1>1 DEF Proposal, CostsKnown
<1> QED
  BY <1>4, <1>5, <1>6, <1>7 DEF IInv

LEMMA UpdateIInv == IInv /\ Update => IInv'
<1> SUFFICES ASSUME IInv, Update PROVE IInv'
  OBVIOUS
<1> DEFINE assigned == IF Valid(proposed_schedule) THEN proposed_schedule ELSE curr_task_schedule
<1>1. PICK finished \in SUBSET Busy(assigned) :
        curr_task_schedule' = [a \in Agent |-> IF a \in finished THEN None ELSE assigned[a]]
  BY DEF Update
<1>2. assigned \in [Agent -> Task \cup {None}] /\ Single(assigned)
  BY DEF IInv, Typed, Valid, Single
<1> HIDE DEF assigned
<1>3. curr_task_schedule' \in [Agent -> Task \cup {None}] /\ Single(curr_task_schedule')
  BY <1>1, <1>2 DEF Single
<1>4. /\ config' = config /\ pc' = "idle" /\ late' = FALSE /\ candidates' = {}
      /\ visited' = {} /\ matches' = NoMatches /\ proposed_schedule' = [a \in Agent |-> None]
      /\ opened' \subseteq Scheduled(curr_task_schedule')
  BY DEF Update
<1>5. Typed'
  <2>1. proposed_schedule' \in [Agent -> Task \cup {None}]
    BY <1>4
  <2>2. opened' \subseteq Scheduled(curr_task_schedule)'
    BY <1>4 DEF Scheduled
  <2> QED
    BY <1>3, <1>4, <2>1, <2>2 DEF IInv, Typed
<1>6. CandidatesKnown' /\ Proposal' /\ MatchesKnown' /\ CostsKnown'
  BY <1>4, NoMatchesEmpty DEF CandidatesKnown, Proposal, MatchesKnown, CostsKnown
<1>7. Single(curr_task_schedule)'
  BY <1>3 DEF Single
<1> QED
  BY <1>5, <1>6, <1>7 DEF IInv

-----------------------------------------------------------------------------
(* Assignments of least total cost.                                        *)

LEMMA TotalIsSum ==
  ASSUME NEW c, NEW a, NEW S, IsFiniteSet(S), S = {i \in Rows(c) : a[i] # Unassigned},
         NEW h, \A i \in S : h[i] = c[i][a[i]]
  PROVE  Total(c, a) = SumOn(h, S)
<1> DEFINE price == [i \in S |-> c[i][a[i]]]
<1>1. Total(c, a) = SumOn(price, S)
  BY DEF Total, SumOn
<1>2. \A i \in S : price[i] = h[i]
  OBVIOUS
<1> HIDE DEF price
<1> QED
  BY <1>1, <1>2, SumCongruent

Pay(c, a) == [i \in Rows(c) |-> IF a[i] = Unassigned THEN 0 ELSE c[i][a[i]]]

\* The total is the sum of what each row pays.
LEMMA TotalIsPaid ==
  ASSUME NEW c, Len(c) \in Nat, NEW a,
         \A i \in Rows(c) : a[i] # Unassigned => c[i][a[i]] \in Int
  PROVE  /\ IsFiniteSet(Rows(c)) /\ (\A i \in Rows(c) : Pay(c, a)[i] \in Int)
         /\ Total(c, a) = SumOn(Pay(c, a), Rows(c))
<1> DEFINE T == {i \in Rows(c) : a[i] # Unassigned}
<1>1. IsFiniteSet(Rows(c))
  BY FS_Interval DEF Rows
<1>2. IsFiniteSet(T) /\ T \in SUBSET Rows(c)
  BY <1>1, FS_Subset
<1>3. \A i \in Rows(c) : Pay(c, a)[i] \in Int
  BY DEF Pay
<1>4. \A i \in T : Pay(c, a)[i] = c[i][a[i]]
  BY DEF Pay
<1>5. \A i \in Rows(c) \ T : Pay(c, a)[i] <= 0 /\ Pay(c, a)[i] = 0
  BY DEF Pay
<1>6. T = {i \in Rows(c) : a[i] # Unassigned}
  OBVIOUS
<1> HIDE DEF T
<1>7. SumOn(Pay(c, a), Rows(c)) = SumOn(Pay(c, a), T)
  BY <1>1, <1>2, <1>3, <1>5, SumSubset
<1>8. Total(c, a) = SumOn(Pay(c, a), T)
  BY <1>2, <1>4, <1>6, TotalIsSum
<1> QED
  BY <1>1, <1>3, <1>7, <1>8

\* Costs are below the limit or they are High.
Split(c, Limit, High) ==
  /\ Len(c) \in Nat /\ Limit \in Int /\ High \in Int /\ Limit <= High
  /\ Unassigned \notin Columns(c)
  /\ \A i \in Rows(c), j \in Columns(c) :
       c[i][j] \in Int /\ (c[i][j] < Limit \/ c[i][j] = High)

\* A row that pays High, or has no column, and a column that costs its row High, or is not
\* given, cost High together: otherwise the row could have the column, and the other row its
\* column, for less.
LEMMA OptimalSaturates ==
  ASSUME NEW c, NEW Limit, NEW High, Split(c, Limit, High), NEW a \in Optimal(c),
         NEW i \in Rows(c), NEW j \in Columns(c),
         a[i] # Unassigned => c[i][a[i]] = High,
         \A l \in Rows(c) : a[l] = j => c[l][j] = High
  PROVE  c[i][j] = High
<1> SUFFICES ASSUME c[i][j] # High PROVE FALSE
  OBVIOUS
<1>1. c[i][j] < Limit /\ c[i][j] \in Int /\ Limit <= High /\ Limit \in Int /\ High \in Int
  BY DEF Split
<1>2. /\ a \in [Rows(c) -> Columns(c) \cup {Unassigned}]
      /\ Exclusive(a) /\ Saturating(c, a)
      /\ \A b \in Assignments(c) : Total(c, a) <= Total(c, b)
  BY DEF Optimal, Assignments
<1>3. a[i] # j /\ j # Unassigned
  BY <1>1 DEF Split
<1>4. PICK l \in Rows(c) : (a[l] = j \/ l = i) /\ \A k \in Rows(c) : a[k] = j => k = l
  <2>1. CASE \E k \in Rows(c) : a[k] = j
    BY <1>2, <1>3, <2>1 DEF Exclusive
  <2>2. CASE ~ \E k \in Rows(c) : a[k] = j
    BY <2>2
  <2> QED
    BY <2>1, <2>2
<1> DEFINE b == [k \in Rows(c) |-> IF k = i THEN j ELSE IF k = l THEN a[i] ELSE a[k]]
<1>5. b \in [Rows(c) -> Columns(c) \cup {Unassigned}]
  BY <1>2
<1>6. Exclusive(b)
  <2> SUFFICES ASSUME NEW x \in Rows(c), NEW y \in Rows(c), b[x] = b[y], x # y, b[x] # Unassigned
               PROVE  FALSE
    BY DEF Exclusive
  <2>1. \A s, t \in Rows(c) : a[s] = a[t] /\ s # t => a[s] = Unassigned
    BY <1>2 DEF Exclusive
  <2> QED
    BY <1>3, <1>4, <2>1
<1>7. Saturating(c, b)
  <2>1. CASE \A k \in Rows(c) : a[k] # Unassigned
    BY <1>3, <2>1 DEF Saturating
  <2>2. CASE ~ \A k \in Rows(c) : a[k] # Unassigned
    <3>1. \A q \in Columns(c) : \E k \in Rows(c) : a[k] = q
      BY <1>2, <2>2 DEF Saturating
    <3>2. a[l] = j /\ l # i
      BY <1>3, <1>4, <3>1
    <3>3. ASSUME NEW q \in Columns(c)
          PROVE  \E k \in Rows(c) : b[k] = q
      <4>1. PICK k \in Rows(c) : a[k] = q
        BY <3>1
      <4>2. CASE k = i
        BY <3>2, <4>1, <4>2
      <4>3. CASE k = l
        BY <3>2, <4>1, <4>3
      <4>4. CASE k # i /\ k # l
        BY <4>1, <4>4
      <4> QED
        BY <4>2, <4>3, <4>4
    <3> HIDE DEF b
    <3> QED
      BY <3>3 DEF Saturating
  <2> QED
    BY <2>1, <2>2
<1>8. Total(c, a) <= Total(c, b)
  <2> HIDE DEF b
  <2> QED
    BY <1>2, <1>5, <1>6, <1>7 DEF Assignments
<1> DEFINE h == Pay(c, a)
           g == Pay(c, b)
<1>9. /\ IsFiniteSet(Rows(c)) /\ \A k \in Rows(c) : h[k] \in Int /\ g[k] \in Int
      /\ Total(c, a) = SumOn(h, Rows(c)) /\ Total(c, b) = SumOn(g, Rows(c))
  <2>1. /\ \A k \in Rows(c) : a[k] # Unassigned => c[k][a[k]] \in Int
        /\ Len(c) \in Nat
    BY <1>2 DEF Split
  <2>2. \A k \in Rows(c) : b[k] # Unassigned => c[k][b[k]] \in Int
    <3> HIDE DEF b
    <3> QED
      BY <1>5 DEF Split
  <2> HIDE DEF b
  <2> QED
    BY <2>1, <2>2, TotalIsPaid
<1>10. \A k \in Rows(c) \ {i, l} : h[k] = g[k]
  BY DEF Pay
<1>11. /\ g[i] = c[i][j]
       /\ h[i] = IF a[i] = Unassigned THEN 0 ELSE High
       /\ l # i => h[l] = High /\ g[l] = IF a[i] = Unassigned THEN 0 ELSE c[l][a[i]]
  <2>1. g[i] = c[i][j] /\ h[i] = IF a[i] = Unassigned THEN 0 ELSE High
    BY <1>3 DEF Pay
  <2>2. ASSUME l # i
        PROVE  h[l] = High /\ g[l] = IF a[i] = Unassigned THEN 0 ELSE c[l][a[i]]
    BY <1>3, <1>4, <2>2 DEF Pay
  <2> QED
    BY <2>1, <2>2
<1>12. a[i] # Unassigned => c[l][a[i]] \in Int /\ c[l][a[i]] <= High
  <2>1. a[i] # Unassigned => c[l][a[i]] \in Int /\ (c[l][a[i]] < Limit \/ c[l][a[i]] = High)
    BY <1>2 DEF Split
  <2> QED
    BY <1>1, <2>1
<1> HIDE DEF b, h, g
<1>13. /\ SumOn(h, Rows(c)) \in Int /\ SumOn(g, Rows(c)) \in Int
       /\ i = l => SumOn(h, Rows(c)) - h[i] = SumOn(g, Rows(c)) - g[i]
       /\ i # l => SumOn(h, Rows(c)) - h[i] - h[l] = SumOn(g, Rows(c)) - g[i] - g[l]
  BY <1>9, <1>10, SumChanged
<1>14. SumOn(g, Rows(c)) < SumOn(h, Rows(c))
  <2>1. CASE i = l
    <3>1. a[i] # Unassigned
      <4>1. \A k \in Rows(c) : a[k] # j
        BY <1>3, <1>4, <2>1
      <4> QED
        BY <1>2, <4>1 DEF Saturating
    <3> QED
      BY <1>1, <1>11, <1>13, <2>1, <3>1
  <2>2. CASE i # l
    <3>1. CASE a[i] = Unassigned
      BY <1>1, <1>11, <1>13, <2>2, <3>1
    <3>2. CASE a[i] # Unassigned
      BY <1>1, <1>11, <1>12, <1>13, <2>2, <3>2
    <3> QED
      BY <3>1, <3>2
  <2> QED
    BY <2>1, <2>2
<1> QED
  BY <1>8, <1>9, <1>13, <1>14

-----------------------------------------------------------------------------
(* The best matches.                                                       *)

\* SetToSeq lists the elements of a finite set.
LEMMA Listing ==
  ASSUME NEW S, IsFiniteSet(S)
  PROVE  /\ Cardinality(S) \in Nat
         /\ SetToSeq(S) \in [1 .. Cardinality(S) -> S]
         /\ \A i, k \in 1 .. Cardinality(S) : SetToSeq(S)[i] = SetToSeq(S)[k] => i = k
         /\ \A x \in S : \E i \in 1 .. Cardinality(S) : SetToSeq(S)[i] = x
<1> DEFINE I == 1 .. Cardinality(S)
           P(f) == f \in [I -> S] /\ IsInjective(f)
<1>1. Cardinality(S) \in Nat /\ ExistsBijection(I, S)
  BY FS_CardinalityType
<1>2. IsFiniteSet(I) /\ Cardinality(I) = Cardinality(S)
  BY <1>1, FS_Interval
<1>3. \E f : P(f)
  <2>1. PICK f : f \in Bijection(I, S)
    BY <1>1 DEF ExistsBijection
  <2> HIDE DEF I
  <2>2. f \in [I -> S] /\ IsInjective(f)
    BY <2>1 DEF Bijection, Injection
  <2> QED
    BY <2>2
<1>4. SetToSeq(S) = CHOOSE f : P(f)
  BY DEF SetToSeq
<1>5. P(SetToSeq(S))
  <2> HIDE DEF P
  <2> QED
    BY <1>3, <1>4
<1> DEFINE f == SetToSeq(S)
<1> HIDE DEF I, f
<1>6. f \in [I -> S] /\ IsInjective(f) /\ f \in Injection(I, S)
  BY <1>5 DEF Injection, f
<1>7. f \in Surjection(I, S)
  BY <1>1, <1>2, <1>6, FS_Injection
<1>8. (\A i, k \in I : f[i] = f[k] => i = k) /\ (\A x \in S : \E i \in I : f[i] = x)
  BY <1>6, <1>7 DEF IsInjective, Surjection
<1> QED
  BY <1>1, <1>6, <1>8 DEF I, f

AgentSeq == SetToSeq(candidates)
TaskSeq  == SetToSeq(tasks)
Matrix(c) == Listed(c, AgentSeq, TaskSeq)

\* The rows and columns of the matrix stand for the candidates and the tasks, one each.
Stand(c, I, J) ==
  /\ DOMAIN AgentSeq = I /\ DOMAIN TaskSeq = J
  /\ Rows(Matrix(c)) = I /\ (I # {} => Columns(Matrix(c)) = J) /\ Columns(Matrix(c)) \subseteq J
  /\ Len(Matrix(c)) \in Nat /\ Unassigned \notin J
  /\ \A i \in I : AgentSeq[i] \in candidates
  /\ \A j \in J : TaskSeq[j] \in tasks
  /\ \A i, k \in I : AgentSeq[i] = AgentSeq[k] => i = k
  /\ \A j, k \in J : TaskSeq[j] = TaskSeq[k] => j = k
  /\ \A a \in candidates : \E i \in I : AgentSeq[i] = a
  /\ \A t \in tasks : \E j \in J : TaskSeq[j] = t
  /\ \A i \in I, j \in J : Matrix(c)[i][j] = c[AgentSeq[i]][TaskSeq[j]]

LEMMA MatrixStands ==
  ASSUME Typed, NEW c
  PROVE  Stand(c, DOMAIN AgentSeq, DOMAIN TaskSeq)
<1>1. IsFiniteSet(candidates) /\ IsFiniteSet(tasks)
  <2>1. IsFiniteSet(Agent)
    BY AgentsFinite
  <2>2. candidates \subseteq Agent /\ tasks \subseteq Task
    BY DEF Typed, tasks
  <2> QED
    BY <2>1, <2>2, FS_Subset, TaskAssumption
<1> DEFINE n == Cardinality(candidates)
           m == Cardinality(tasks)
           I == 1 .. n
           J == 1 .. m
<1>2. n \in Nat /\ m \in Nat
  BY <1>1, Listing
<1>3. /\ AgentSeq \in [I -> candidates]
      /\ \A i, k \in I : AgentSeq[i] = AgentSeq[k] => i = k
      /\ \A a \in candidates : \E i \in I : AgentSeq[i] = a
  BY <1>1, Listing DEF AgentSeq
<1>4. /\ TaskSeq \in [J -> tasks]
      /\ \A j, k \in J : TaskSeq[j] = TaskSeq[k] => j = k
      /\ \A t \in tasks : \E j \in J : TaskSeq[j] = t
  BY <1>1, Listing DEF TaskSeq
<1>5. DOMAIN AgentSeq = I /\ DOMAIN TaskSeq = J
  BY <1>3, <1>4
<1>6. Matrix(c) = [i \in I |-> [j \in J |-> c[AgentSeq[i]][TaskSeq[j]]]]
  BY <1>5 DEF Matrix, Listed
<1>7. Len(Matrix(c)) = n /\ \A i \in I : Len(Matrix(c)[i]) = m
  <2>1. DOMAIN Matrix(c) = 1 .. n /\ \A i \in I : DOMAIN Matrix(c)[i] = 1 .. m
    BY <1>6
  <2>2. Matrix(c) \in Seq(Range(Matrix(c))) /\ \A i \in I : Matrix(c)[i] \in Seq(Range(Matrix(c)[i]))
    <3>1. /\ Matrix(c) \in [1 .. n -> Range(Matrix(c))]
          /\ \A i \in I : Matrix(c)[i] \in [1 .. m -> Range(Matrix(c)[i])]
      BY <1>6 DEF Range
    <3> QED
      BY <1>2, <3>1
  <2> HIDE DEF n, m
  <2> QED
    BY <1>2, <2>1, <2>2
<1>8. Rows(Matrix(c)) = I /\ (I # {} => Columns(Matrix(c)) = J) /\ Columns(Matrix(c)) \subseteq J
  <2>1. CASE n = 0
    BY <1>7, <2>1 DEF Rows, Columns
  <2>2. CASE n # 0
    <3>1. 1 \in I
      BY <1>2, <2>2
    <3> QED
      BY <1>7, <2>2, <3>1 DEF Rows, Columns
  <2> QED
    BY <2>1, <2>2
<1>9. Unassigned \notin J
  BY DEF Unassigned
<1> HIDE DEF I, J, n, m
<1> QED
  BY <1>2, <1>3, <1>4, <1>5, <1>6, <1>7, <1>8, <1>9 DEF Stand

Taken(c, a) ==
  {i \in DOMAIN AgentSeq : a[i] # Unassigned /\ c[AgentSeq[i]][TaskSeq[a[i]]] < InvalidLimit}

\* The matches are those of the rows whose pair is possible.
ReadOff(m, c, a) ==
  /\ DOMAIN m = {AgentSeq[i] : i \in Taken(c, a)}
  /\ \A i \in Taken(c, a) : m[AgentSeq[i]] = TaskSeq[a[i]]

LEMMA MatchesRead ==
  ASSUME Typed, NEW c, NEW a
  PROVE  ReadOff(MatchesOf(c, AgentSeq, TaskSeq, a), c, a)
<1> DEFINE m == MatchesOf(c, AgentSeq, TaskSeq, a)
           D == {AgentSeq[i] : i \in Taken(c, a)}
           row(x) == CHOOSE i \in Taken(c, a) : AgentSeq[i] = x
<1>1. m = [x \in D |-> TaskSeq[a[row(x)]]]
  BY DEF MatchesOf, Taken
<1>2. ASSUME NEW i \in Taken(c, a)
      PROVE  row(AgentSeq[i]) = i
  <2>1. \A k \in Taken(c, a) : AgentSeq[k] = AgentSeq[i] => k = i
    BY MatrixStands DEF Stand, Taken
  <2> HIDE DEF Taken
  <2> QED
    BY <2>1
<1>3. \A i \in Taken(c, a) : AgentSeq[i] \in D
  OBVIOUS
<1> HIDE DEF row, m
<1>4. \A i \in Taken(c, a) : m[AgentSeq[i]] = TaskSeq[a[i]]
  BY <1>1, <1>2, <1>3
<1>5. ReadOff(m, c, a)
  BY <1>1, <1>4 DEF ReadOff
<1> QED
  BY <1>5 DEF m

LEMMA BestMatchesRead ==
  ASSUME Typed, NEW c, NEW m \in BestMatches(c)
  PROVE  \E A \in Optimal(Matrix(c)) : ReadOff(m, c, A)
<1>1. PICK A \in Optimal(Matrix(c)) : m = MatchesOf(c, AgentSeq, TaskSeq, A)
  BY DEF BestMatches, AgentSeq, TaskSeq, Matrix
<1> QED
  BY <1>1, MatchesRead

\* The best matches give candidates tasks of their own.
LEMMA BestMatchesKnown ==
  ASSUME Typed, NEW c, NEW m \in BestMatches(c)
  PROVE  /\ DOMAIN m \subseteq candidates
         /\ \A a \in DOMAIN m : m[a] \in tasks
         /\ \A a, b \in DOMAIN m : m[a] = m[b] => a = b
<1> DEFINE I == DOMAIN AgentSeq
           J == DOMAIN TaskSeq
<1>1. PICK A \in Optimal(Matrix(c)) : ReadOff(m, c, A)
  BY BestMatchesRead
<1>2. Stand(c, I, J)
  BY MatrixStands
<1>3. A \in [I -> J \cup {Unassigned}] /\ \A i, k \in I : A[i] = A[k] /\ i # k => A[i] = Unassigned
  BY <1>1, <1>2 DEF Optimal, Assignments, Exclusive, Stand
<1>4. /\ DOMAIN m = {AgentSeq[i] : i \in Taken(c, A)}
      /\ \A i \in Taken(c, A) : m[AgentSeq[i]] = TaskSeq[A[i]]
  BY <1>1 DEF ReadOff
<1>5. \A i \in Taken(c, A) : i \in I /\ A[i] \in J /\ A[i] # Unassigned
  BY <1>3 DEF Taken
<1> HIDE DEF I, J
<1>6. DOMAIN m \subseteq candidates /\ \A a \in DOMAIN m : m[a] \in tasks
  BY <1>2, <1>4, <1>5 DEF Stand
<1>7. ASSUME NEW a \in DOMAIN m, NEW b \in DOMAIN m, m[a] = m[b]
      PROVE  a = b
  <2>1. PICK i \in Taken(c, A), k \in Taken(c, A) : a = AgentSeq[i] /\ b = AgentSeq[k]
    BY <1>4
  <2>2. TaskSeq[A[i]] = TaskSeq[A[k]]
    BY <1>4, <1>7, <2>1
  <2>3. A[i] = A[k]
    BY <1>2, <1>5, <2>2 DEF Stand
  <2> QED
    BY <1>3, <1>5, <2>1, <2>3
<1> QED
  BY <1>6, <1>7

\* A matrix is solved: the matches are new, and nothing else that the invariant is about.
LEMMA RoundSolved ==
  ASSUME IInv, pc \in {"priced", "solved"}, pc' \in {"solved", "refined"},
         NEW c, matches' \in BestMatches(c),
         UNCHANGED << config, curr_task_schedule, opened, now, late, candidates, visited,
                      proposed_schedule >>
  PROVE  IInv'
<1>1. Typed /\ MatchesKnown
  BY DEF IInv
<1>2. Typed' /\ Single(curr_task_schedule)'
  BY DEF IInv, Typed, Single
<1>3. CandidatesKnown'
  BY DEF IInv, CandidatesKnown, Busy, Admitted, MaxNew
<1>4. MatchesKnown'
  <2>1. tasks' = tasks
    BY DEF tasks, local
  <2>2. /\ DOMAIN matches' \subseteq candidates
        /\ \A a \in DOMAIN matches' : matches'[a] \in tasks
        /\ \A a, b \in DOMAIN matches' : matches'[a] = matches'[b] => a = b
    BY <1>1, BestMatchesKnown
  <2> QED
    BY <1>1, <2>1, <2>2 DEF MatchesKnown
<1>5. Proposal' /\ CostsKnown'
  BY DEF Proposal, CostsKnown
<1> QED
  BY <1>2, <1>3, <1>4, <1>5 DEF IInv

LEMMA SolveIInv == IInv /\ Solve => IInv'
<1> SUFFICES ASSUME IInv, Solve PROVE IInv'
  OBVIOUS
<1>1. /\ pc = "priced" /\ pc' = "solved" /\ matches' \in BestMatches(cost)
      /\ UNCHANGED << config, curr_task_schedule, opened, now, late, candidates, visited,
                      proposed_schedule >>
  BY DEF Solve
<1> QED
  BY <1>1, RoundSolved

LEMMA RefineIInv == IInv /\ Refine => IInv'
<1> SUFFICES ASSUME IInv, Refine PROVE IInv'
  OBVIOUS
<1>1. /\ pc = "solved" /\ pc' = "refined" /\ matches' \in BestMatches(cost')
      /\ UNCHANGED << config, curr_task_schedule, opened, now, late, candidates, visited,
                      proposed_schedule >>
  BY DEF Refine
<1> QED
  BY <1>1, RoundSolved

-----------------------------------------------------------------------------
(* What the task matcher promises.                                         *)

\* The invariant holds whatever the clock, the task manager and the agents do.
THEOREM Invariance == Spec => []IInv
<1>1. IInv /\ UNCHANGED vars => IInv'
  BY SameMatrices DEF IInv, Typed, Single, CandidatesKnown, MatchesKnown, CostsKnown, Proposal, vars, Valid,
         Busy, Scheduled, Admitted, MaxNew, tasks, local
<1>2. IInv /\ [Next]_vars => IInv'
  BY <1>1, ExpireIInv, CollectIInv, ReturnEarlyIInv, PriceIInv, SolveIInv, RefineIInv,
     SettleIInv, SearchNextIInv, SearchEndIInv, ProposeIInv, UpdateIInv DEF Next, Call
<1> QED
  BY <1>2, InitIInv, PTL DEF Spec

\* Wherever the deadline cuts a call off, the task manager accepts what it returns
\* (schedule_plan_portable_task_matcher, validate_task_assignment).
THEOREM ProposalsValid == Spec => []ProposalValid
<1>1. IInv => ProposalValid
  BY DEF IInv, Proposal, ProposalValid
<1> QED
  BY <1>1, Invariance, PTL

\* The admitted agents are no more than max_new.
LEMMA AdmittedFew ==
  ASSUME Typed
  PROVE  /\ IsFiniteSet(Busy(curr_task_schedule)) /\ Cardinality(Busy(curr_task_schedule)) \in Nat
         /\ MaxNew \in Nat
         /\ IsFiniteSet(Admitted) /\ Cardinality(Admitted) \in Nat /\ Cardinality(Admitted) <= MaxNew
<1>1. IsFiniteSet(Agent)
  BY AgentsFinite
<1>2. IsFiniteSet(Busy(curr_task_schedule)) /\ Cardinality(Busy(curr_task_schedule)) \in Nat
  <2>1. Busy(curr_task_schedule) \subseteq Agent
    BY DEF Busy
  <2> QED
    BY <1>1, <2>1, FS_Subset, FS_CardinalityType
<1>3. config.ratio \in 0 .. 100 /\ NumAgents \in Nat
  BY ConfigsAssumption, NumAgentsAssumption DEF Typed
<1>4. MaxNew \in Nat
  <2>1. config.ratio * NumAgents \in Nat
    BY <1>3
  <2>2. AtLeastOne((config.ratio * NumAgents) \div 100) \in Nat
    BY <2>1 DEF AtLeastOne
  <2> QED
    BY <1>2, <2>2 DEF MaxNew
<1> DEFINE free == Agent \ Busy(curr_task_schedule)
           n == NumAgents - 1
<1>5. n \in Nat /\ free \in SUBSET (0 .. n)
  BY NumAgentsAssumption DEF Agent
<1>6. Admitted = {a \in free : Cardinality({b \in free : b < a}) < MaxNew}
  BY DEF Admitted
<1> HIDE DEF free, n
<1>7. IsFiniteSet(Admitted) /\ Cardinality(Admitted) \in Nat /\ Cardinality(Admitted) <= MaxNew
  BY <1>4, <1>5, <1>6, FirstFew
<1> QED
  BY <1>2, <1>4, <1>7

\* max_assign_ratio caps the agents with tasks: a call leaves at most that many, or no more
\* than it found.
THEOREM LoadsCapped == Spec => []LoadCapped
<1>1. IInv => LoadCapped
  <2> SUFFICES ASSUME IInv, pc = "done" PROVE LoadCapped
    BY DEF LoadCapped
  <2> DEFINE before == Busy(curr_task_schedule)
             after == Busy(proposed_schedule)
             limit == AtLeastOne((config.ratio * NumAgents) \div 100)
  <2>1. /\ IsFiniteSet(before) /\ Cardinality(before) \in Nat
        /\ IsFiniteSet(Admitted) /\ Cardinality(Admitted) \in Nat /\ Cardinality(Admitted) <= MaxNew
    BY AdmittedFew DEF IInv
  <2>2. after \subseteq before \cup Admitted
    BY DEF IInv, Proposal, CandidatesKnown
  <2>3. MaxNew = (IF limit - Cardinality(before) < 0 THEN 0 ELSE limit - Cardinality(before))
    BY DEF MaxNew
  <2>4. limit \in Int
    <3>1. config.ratio \in Nat /\ NumAgents \in Nat
      BY ConfigsAssumption, NumAgentsAssumption DEF IInv, Typed
    <3>2. config.ratio * NumAgents \in Nat
      BY <3>1
    <3> QED
      BY <3>2 DEF AtLeastOne
  <2> HIDE DEF before, after, limit
  <2>5. /\ IsFiniteSet(before \cup Admitted) /\ Cardinality(before \cup Admitted) \in Nat
        /\ Cardinality(before \cup Admitted) <= Cardinality(before) + Cardinality(Admitted)
    <3>1. IsFiniteSet(before \cup Admitted) /\ IsFiniteSet(before \cap Admitted)
      BY <2>1, FS_Union, FS_Intersection
    <3>2. Cardinality(before \cup Admitted)
            = Cardinality(before) + Cardinality(Admitted) - Cardinality(before \cap Admitted)
      BY <2>1, FS_Union
    <3>3. Cardinality(before \cup Admitted) \in Nat /\ Cardinality(before \cap Admitted) \in Nat
      BY <3>1, FS_CardinalityType
    <3> QED
      BY <2>1, <3>1, <3>2, <3>3
  <2>6. Cardinality(after) \in Nat /\ Cardinality(after) <= Cardinality(before \cup Admitted)
    BY <2>2, <2>5, FS_Subset, FS_CardinalityType
  <2>7. Cardinality(after) <= limit \/ Cardinality(after) <= Cardinality(before)
    BY <2>1, <2>3, <2>4, <2>5, <2>6
  <2> QED
    BY <2>7 DEF LoadCapped, before, after, limit
<1> QED
  BY <1>1, Invariance, PTL

-----------------------------------------------------------------------------
(* Nobody idles next to a task in reach.                                   *)

\* No pair of an unmatched agent and a task that is left was priced.
Saturated ==
  \A a \in candidates \ DOMAIN matches, t \in tasks \ Matched(matches) : NotPriced(a, t)

Hopeless == \A a \in candidates, t \in tasks : NotPriced(a, t)

\* The matrix is solved before the search, which then has nothing to find among what was priced.
WInv ==
  /\ pc = "search" /\ MatrixFits => Hopeless
  /\ pc \in {"solved", "refined"} => Saturated
  /\ pc = "matched" /\ ~ late /\ MatrixFits => Saturated
  /\ WorkConserving

LEMMA LimitIsLow == InvalidLimit \in Nat /\ InvalidLimit <= Invalid /\ Invalid \in Nat
  BY InvalidAssumption DEF InvalidLimit

\* What a pair may cost before the bonus.
Plausible(price, a, t) ==
  /\ price \in Int
  /\ price < InvalidLimit \/ price = Invalid
  /\ price >= InvalidLimit => NotPriced(a, t)

LEMMA ScorePlausible ==
  ASSUME Typed, pc # "idle", NEW a \in candidates, NEW t \in tasks
  PROVE  /\ Plausible(task_score(a, t), a, t)
         /\ Reaches(a, t) /\ Delivers(t) => \A extra \in Surcharges :
              task_score(a, t) + extra[a][t] \in Int /\ task_score(a, t) + extra[a][t] < InvalidLimit
<1>1. a \in Agent /\ t \in Task /\ now \in Scenes
  BY LeftTasks DEF Typed
<1>2. now.distance[a][t] \in Nat /\ now.length[t] \in Nat
  BY <1>1, ScenesAssumption
<1>3. CASE Reaches(a, t) /\ Delivers(t)
  <2>1. task_score(a, t) = now.distance[a][t] + now.length[t]
    BY <1>3 DEF task_score
  <2>2. /\ now.distance[a][t] + now.length[t] < InvalidLimit
        /\ \A extra \in Surcharges : now.distance[a][t] + now.length[t] + extra[a][t] < InvalidLimit
    BY <1>1, <1>3, ScenesAssumption DEF Reaches, Delivers
  <2>3. \A extra \in Surcharges : extra[a][t] \in Nat
    BY <1>1, SurchargesAssumption
  <2> QED
    BY <1>2, <2>1, <2>2, <2>3, LimitIsLow DEF Plausible
<1>4. CASE ~ (Reaches(a, t) /\ Delivers(t))
  BY <1>4, LimitIsLow DEF task_score, Plausible, NotPriced
<1> QED
  BY <1>3, <1>4

\* A task that the traffic was not asked for has enough tasks before it.
LEMMA CutOff ==
  ASSUME Typed, pc # "idle", config.traffic, NEW a \in candidates, NEW t \in tasks, NEW rank \in Ranks,
         ~ (Cardinality(Nearer(a, t, rank)) < TrafficTopK)
  PROVE  NotPriced(a, t)
<1> DEFINE N == Nearer(a, t, rank)
           F == {u \in tasks \ {t} : Reaches(a, u) /\ now.distance[a][u] <= now.distance[a][t]}
<1>1. a \in Agent /\ now \in Scenes /\ tasks \subseteq Task
  BY LeftTasks DEF Typed
<1>2. \A u \in tasks : now.distance[a][u] \in Nat
  BY <1>1, ScenesAssumption
<1>3. rank[t] \in Nat
  BY DEF Ranks
<1>4. N \subseteq F
  BY <1>2, <1>3 DEF Nearer
<1>5. IsFiniteSet(F)
  BY <1>1, TaskAssumption, FS_Subset
<1>6. IsFiniteSet(N) /\ Cardinality(N) <= Cardinality(F) /\ Cardinality(N) \in Nat /\ Cardinality(F) \in Nat
  <2> HIDE DEF N, F
  <2> QED
    BY <1>4, <1>5, FS_Subset, FS_CardinalityType
<1>7. TrafficTopK <= Cardinality(F)
  BY <1>6, TopKAssumption
<1> QED
  BY <1>7 DEF NotPriced

\* The bonus for the old pair does not make a pair possible.
LEMMA BiasPlausible ==
  ASSUME Typed, NEW matrix, NEW a \in candidates, NEW t \in tasks, Plausible(matrix[a][t], a, t)
  PROVE  Plausible(add_keep_bias(matrix)[a][t], a, t)
<1>1. \/ add_keep_bias(matrix)[a][t] = matrix[a][t]
      \/ matrix[a][t] < InvalidLimit /\ add_keep_bias(matrix)[a][t] = matrix[a][t] - KeepBias
  BY DEF add_keep_bias
<1> QED
  BY <1>1, LimitIsLow, TopKAssumption DEF Plausible

\* In every matrix a pair is possible, or it was not priced.
LEMMA CostsSplit ==
  ASSUME Typed, pc # "idle", NEW c \in CostMatrices, NEW a \in candidates, NEW t \in tasks
  PROVE  Plausible(c[a][t], a, t)
<1>1. CASE config.traffic
  <2>1. PICK rank \in Ranks, extra \in Surcharges : c = add_keep_bias(traffic_cost_matrix(rank, extra))
    BY <1>1 DEF CostMatrices
  <2> DEFINE price == traffic_cost_matrix(rank, extra)[a][t]
  <2>2. price = IF Reaches(a, t) /\ Delivers(t) /\ Cardinality(Nearer(a, t, rank)) < TrafficTopK
                  THEN task_score(a, t) + extra[a][t] ELSE Invalid
    BY DEF traffic_cost_matrix
  <2>3. CASE Reaches(a, t) /\ Delivers(t) /\ Cardinality(Nearer(a, t, rank)) < TrafficTopK
    <3>1. price \in Int /\ price < InvalidLimit
      BY <2>2, <2>3, ScorePlausible
    <3> HIDE DEF price
    <3> QED
      BY <2>1, <3>1, LimitIsLow, BiasPlausible DEF Plausible, price
  <2>4. CASE ~ (Reaches(a, t) /\ Delivers(t) /\ Cardinality(Nearer(a, t, rank)) < TrafficTopK)
    <3>1. price = Invalid
      BY <2>2, <2>4
    <3>2. NotPriced(a, t)
      BY <1>1, <2>4, CutOff DEF NotPriced
    <3>3. Plausible(price, a, t)
      <4> HIDE DEF price
      <4> QED
        BY <3>1, <3>2, LimitIsLow DEF Plausible
    <3> QED
      BY <2>1, <3>3, BiasPlausible
  <2> QED
    BY <2>3, <2>4
<1>2. CASE ~ config.traffic
  <2> DEFINE scores == [b \in candidates |-> [u \in tasks |-> task_score(b, u)]]
  <2>1. c = add_keep_bias(scores)
    BY <1>2 DEF CostMatrices
  <2>2. scores[a][t] = task_score(a, t)
    OBVIOUS
  <2> HIDE DEF scores
  <2> QED
    BY <2>1, <2>2, ScorePlausible, BiasPlausible
<1> QED
  BY <1>1, <1>2

LEMMA BestSaturates ==
  ASSUME Typed, pc # "idle", NEW c \in CostMatrices, NEW m \in BestMatches(c),
         NEW a \in candidates \ DOMAIN m, NEW t \in tasks \ Matched(m)
  PROVE  NotPriced(a, t)
<1> DEFINE I == DOMAIN AgentSeq
           J == DOMAIN TaskSeq
<1>1. PICK A \in Optimal(Matrix(c)) : ReadOff(m, c, A)
  BY BestMatchesRead
<1>2. Stand(c, I, J)
  BY MatrixStands
<1>3. A \in [I -> J \cup {Unassigned}]
  <2>1. A \in [Rows(Matrix(c)) -> Columns(Matrix(c)) \cup {Unassigned}]
    BY <1>1 DEF Optimal, Assignments
  <2> HIDE DEF I, J
  <2>2. Rows(Matrix(c)) = I /\ Columns(Matrix(c)) \subseteq J
    BY <1>2 DEF Stand
  <2> QED
    BY <2>1, <2>2
<1>4. /\ DOMAIN m = {AgentSeq[i] : i \in Taken(c, A)}
      /\ \A i \in Taken(c, A) : m[AgentSeq[i]] = TaskSeq[A[i]]
  BY <1>1 DEF ReadOff
<1>5. Taken(c, A) = {i \in I : A[i] # Unassigned /\ c[AgentSeq[i]][TaskSeq[A[i]]] < InvalidLimit}
  BY DEF Taken
<1> HIDE DEF I, J
<1>6. \A i \in I, j \in J : /\ Matrix(c)[i][j] \in Int
                            /\ Matrix(c)[i][j] < InvalidLimit \/ Matrix(c)[i][j] = Invalid
  BY <1>2, CostsSplit DEF Stand, Plausible
<1>7. Split(Matrix(c), InvalidLimit, Invalid)
  BY <1>2, <1>6, LimitIsLow DEF Split, Stand
<1>8. PICK i \in I : AgentSeq[i] = a
  BY <1>2 DEF Stand
<1>9. PICK j \in J : TaskSeq[j] = t
  BY <1>2 DEF Stand
<1>10. A[i] # Unassigned => Matrix(c)[i][A[i]] = Invalid
  <2> SUFFICES ASSUME A[i] # Unassigned PROVE Matrix(c)[i][A[i]] = Invalid
    OBVIOUS
  <2>1. A[i] \in J /\ i \notin Taken(c, A)
    BY <1>3, <1>4, <1>8
  <2>2. Matrix(c)[i][A[i]] = c[AgentSeq[i]][TaskSeq[A[i]]]
    BY <1>2, <2>1 DEF Stand
  <2> QED
    BY <1>5, <1>6, <2>1, <2>2
<1>11. ASSUME NEW l \in I, A[l] = j
       PROVE  Matrix(c)[l][j] = Invalid
  <2>1. l \notin Taken(c, A)
    <3>1. \A k \in Taken(c, A) : TaskSeq[A[k]] # t
      BY <1>4 DEF Matched
    <3> QED
      BY <1>9, <1>11, <3>1
  <2>2. Matrix(c)[l][j] = c[AgentSeq[l]][TaskSeq[A[l]]] /\ A[l] # Unassigned
    BY <1>2, <1>11 DEF Stand
  <2> QED
    BY <1>5, <1>6, <2>1, <2>2
<1>12. Matrix(c)[i][j] = Invalid
  <2>1. i \in Rows(Matrix(c)) /\ j \in Columns(Matrix(c)) /\ \A l \in Rows(Matrix(c)) : l \in I
    BY <1>2 DEF Stand
  <2> QED
    BY <1>1, <1>7, <1>10, <1>11, <2>1, OptimalSaturates
<1>13. c[a][t] = Invalid
  BY <1>2, <1>8, <1>9, <1>12 DEF Stand
<1> QED
  BY <1>13, CostsSplit, LimitIsLow DEF Plausible

\* What is not priced depends on the candidates, their distances and the offered tasks.
LEMMA SamePriced ==
  ASSUME UNCHANGED << config, curr_task_schedule, now, candidates >>
  PROVE  /\ tasks' = tasks /\ (MatrixFits' <=> MatrixFits)
         /\ \A a, t : NotPriced(a, t)' <=> NotPriced(a, t)
<1>1. tasks' = tasks
  BY DEF tasks, local, Scheduled
<1> QED
  BY <1>1 DEF MatrixFits, NotPriced, Reaches, Delivers

LEMMA SolveSaturates ==
  ASSUME IInv, WInv, Solve
  PROVE  WInv'
<1>1. /\ pc = "priced" /\ pc' = "solved" /\ matches' \in BestMatches(cost)
      /\ UNCHANGED << config, curr_task_schedule, now, candidates >>
  BY DEF Solve
<1>2. cost \in CostMatrices
  BY <1>1 DEF IInv, CostsKnown
<1>3. Saturated'
  BY <1>1, <1>2, SamePriced, BestSaturates DEF IInv, Saturated, Matched
<1> QED
  BY <1>1, <1>3 DEF WInv, WorkConserving

LEMMA RefineSaturates ==
  ASSUME IInv, WInv, Refine
  PROVE  WInv'
<1>1. /\ pc = "solved" /\ pc' = "refined" /\ cost' \in CostMatrices /\ matches' \in BestMatches(cost')
      /\ UNCHANGED << config, curr_task_schedule, now, candidates >>
  BY DEF Refine
<1>2. Saturated'
  BY <1>1, SamePriced, BestSaturates DEF IInv, Saturated, Matched
<1> QED
  BY <1>1, <1>2 DEF WInv, WorkConserving

LEMMA SettleSaturates ==
  ASSUME IInv, WInv, Settle
  PROVE  WInv'
<1>1. /\ pc \in {"priced", "solved", "refined"} /\ (pc = "priced" => late) /\ late' = late
      /\ pc' = (IF matches = NoMatches /\ ~ late THEN "search" ELSE "matched") /\ matches' = matches
      /\ UNCHANGED << config, curr_task_schedule, now, candidates >>
  BY DEF Settle
<1>2. CASE late
  BY <1>1, <1>2 DEF WInv, WorkConserving
<1>3. CASE ~ late
  <2>1. Saturated
    BY <1>1, <1>3 DEF WInv
  <2>2. Saturated'
    BY <1>1, <2>1, SamePriced DEF Saturated, Matched
  <2>3. pc' = "search" => Hopeless'
    BY <1>1, <2>2, NoMatchesEmpty DEF Saturated, Hopeless, Matched
  <2> QED
    BY <1>1, <2>2, <2>3 DEF WInv, WorkConserving
<1> QED
  BY <1>2, <1>3

LEMMA SearchSaturates ==
  ASSUME IInv, WInv, SearchNext
  PROVE  WInv'
<1>1. /\ pc = "search" /\ pc' = "search"
      /\ UNCHANGED << config, curr_task_schedule, now, candidates >>
  BY DEF SearchNext
<1>2. (MatrixFits' <=> MatrixFits) /\ (Hopeless => Hopeless')
  BY <1>1, SamePriced DEF Hopeless
<1> QED
  BY <1>1, <1>2 DEF WInv, WorkConserving

LEMMA SearchEndSaturates ==
  ASSUME IInv, WInv, SearchEnd
  PROVE  WInv'
<1>1. /\ pc = "search" /\ pc' = "matched"
      /\ UNCHANGED << config, curr_task_schedule, now, candidates >>
  BY DEF SearchEnd
<1>2. (MatrixFits' <=> MatrixFits) /\ (Hopeless => Saturated')
  BY <1>1, SamePriced DEF Hopeless, Saturated
<1> QED
  BY <1>1, <1>2 DEF WInv, WorkConserving

\* With ratio 100 no match is dropped.
LEMMA NoneDropped ==
  ASSUME IInv, config.ratio = 100, NEW agents \in SUBSET DOMAIN matches, Retained(agents)
  PROVE  agents = DOMAIN matches
<1>1. IsFiniteSet(Agent)
  BY AgentsFinite
<1>2. IsFiniteSet(candidates) /\ Cardinality(candidates) \in Nat
  BY <1>1, FS_Subset, FS_CardinalityType DEF IInv, Typed
<1>3. Cardinality(DOMAIN matches) \in Nat /\ Cardinality(DOMAIN matches) <= Cardinality(candidates)
  BY <1>2, FS_Subset, FS_CardinalityType DEF IInv, MatchesKnown
<1>4. (100 * Cardinality(candidates) + 99) \div 100 = Cardinality(candidates)
  <2> DEFINE n == Cardinality(candidates)
  <2>1. n \in Nat
    BY <1>2
  <2> HIDE DEF n
  <2>2. (100 * n + 99) \div 100 = n
    BY <2>1
  <2> QED
    BY <2>2 DEF n
<1>5. Cardinality(candidates) <= MaxAssignments
  BY <1>2, <1>4 DEF MaxAssignments, AtLeastOne
<1>6. Cardinality(DOMAIN matches) <= MaxAssignments
  <2>1. MaxAssignments \in Int
    BY <1>2, <1>4 DEF MaxAssignments, AtLeastOne
  <2> QED
    BY <1>2, <1>3, <1>5, <2>1
<1> QED
  BY <1>6 DEF Retained

LEMMA ProposeConserves ==
  ASSUME IInv, WInv, Propose
  PROVE  WInv'
<1>1. /\ pc = "matched" /\ pc' = "done" /\ (late' <=> late)
      /\ UNCHANGED << config, curr_task_schedule, now, candidates >>
  BY DEF Propose
<1>2. ASSUME ~ late, config.ratio = 100, MatrixFits,
             NEW a \in candidates \ Busy(proposed_schedule'), NEW t \in Task \ Scheduled(proposed_schedule')
      PROVE  NotPriced(a, t)
  <2>1. /\ candidates \subseteq Agent /\ DOMAIN matches \subseteq candidates /\ a \in Agent
        /\ \A b \in DOMAIN matches : matches[b] \in tasks
    BY DEF IInv, Typed, MatchesKnown
  <2>2. Saturated
    BY <1>1, <1>2 DEF WInv
  <2>3. CASE matches = NoMatches
    <3>1. proposed_schedule' = [b \in Agent |-> IF HasOld(b) THEN curr_task_schedule[b] ELSE local[b]]
      BY <2>3 DEF Propose
    <3>2. t \in tasks
      <4>1. \A b \in Agent : local[b] # None => proposed_schedule'[b] = local[b]
        BY <3>1 DEF local
      <4> QED
        BY <4>1 DEF tasks, Scheduled
    <3> QED
      BY <2>2, <2>3, <3>2, NoMatchesEmpty DEF Saturated, Matched
  <2>4. CASE matches # NoMatches
    <3>1. PICK agents \in SUBSET DOMAIN matches :
            /\ Retained(agents)
            /\ proposed_schedule' =
                 [b \in Agent |-> IF b \in agents THEN matches[b]
                                  ELSE IF HasOld(b) /\ GivenBack(agents, b) THEN curr_task_schedule[b]
                                  ELSE local[b]]
      BY <2>4 DEF Propose
    <3>2. agents = DOMAIN matches
      BY <1>2, <3>1, NoneDropped
    <3>3. \A b \in Agent : ~ GivenBack(agents, b)
      <4>1. ~ (Cardinality(DOMAIN matches) < Cardinality(DOMAIN matches))
        <5>1. IsFiniteSet(Agent)
          BY AgentsFinite
        <5>2. Cardinality(DOMAIN matches) \in Nat
          BY <2>1, <5>1, FS_Subset, FS_CardinalityType
        <5> QED
          BY <5>2
      <4> QED
        BY <3>2, <4>1 DEF GivenBack
    <3>4. \A b \in Agent : proposed_schedule'[b] = IF b \in DOMAIN matches THEN matches[b] ELSE local[b]
      BY <3>1, <3>2, <3>3
    <3>5. a \notin DOMAIN matches
      <4>1. \A b \in DOMAIN matches : matches[b] # None
        BY <2>1, NoneIsNoTask DEF tasks
      <4> QED
        BY <2>1, <3>4, <4>1 DEF Busy
    <3>6. t \notin Matched(matches)
      <4>1. \A b \in DOMAIN matches : proposed_schedule'[b] = matches[b] /\ b \in Agent
        BY <2>1, <3>4
      <4>2. \A b \in Agent : proposed_schedule'[b] # t
        BY NoneIsNoTask DEF Scheduled
      <4> QED
        BY <4>1, <4>2 DEF Matched
    <3>7. t \in tasks
      <4>1. \A b \in Agent : local[b] # None => b \notin candidates
        BY DEF local
      <4>2. \A b \in Agent : local[b] # None => proposed_schedule'[b] = local[b]
        BY <2>1, <3>4, <4>1
      <4> QED
        BY <4>2 DEF tasks, Scheduled
    <3> QED
      BY <2>2, <3>5, <3>6, <3>7 DEF Saturated
  <2> QED
    BY <2>3, <2>4
<1>3. WorkConserving'
  <2>1. Busy(proposed_schedule)' = Busy(proposed_schedule')
          /\ Scheduled(proposed_schedule)' = Scheduled(proposed_schedule')
    BY DEF Busy, Scheduled
  <2> QED
    BY <1>1, <1>2, <2>1, SamePriced DEF WorkConserving
<1> QED
  BY <1>1, <1>3 DEF WInv

LEMMA EarlyConserves ==
  ASSUME IInv, WInv, ReturnEarly
  PROVE  WInv'
<1>1. /\ pc' = "done" /\ proposed_schedule' = local /\ candidates' = candidates
      /\ late' = late /\ (candidates = {} \/ tasks = {} \/ late)
  BY DEF ReturnEarly
<1>2. tasks = Task \ Scheduled(proposed_schedule')
  BY <1>1 DEF tasks
<1>3. WorkConserving'
  BY <1>1, <1>2 DEF WorkConserving
<1> QED
  BY <1>1, <1>3 DEF WInv

\* With time, no cap and a matrix that fits, no candidate stays idle next to a task that it
\* could serve, with traffic in the costs next to none of its nearest: the cheapest assignment
\* could otherwise be improved by giving it that task.
THEOREM AlwaysWorkConserving == Spec => []WorkConserving
<1>1. Init => WInv
  BY DEF Init, WInv, WorkConserving
<1>2. IInv /\ WInv /\ [Next]_vars => WInv'
  <2> SUFFICES ASSUME IInv, WInv, [Next]_vars PROVE WInv'
    OBVIOUS
  <2>1. CASE Expire
    <3>1. late' /\ pc' = pc /\ matches' = matches
          /\ UNCHANGED << config, curr_task_schedule, now, candidates >>
      BY <2>1 DEF Expire
    <3>2. (MatrixFits' <=> MatrixFits) /\ (Hopeless => Hopeless') /\ (Saturated => Saturated')
      BY <3>1, SamePriced DEF Hopeless, Saturated, Matched
    <3> QED
      BY <3>1, <3>2 DEF WInv, WorkConserving
  <2>2. CASE Collect
    BY <2>2 DEF Collect, WInv, WorkConserving
  <2>3. CASE ReturnEarly
    BY <2>3, EarlyConserves
  <2>4. CASE Price
    <3>1. (pc' = "search" => ~ MatrixFits) /\ pc' \in {"search", "priced"} /\ (MatrixFits' <=> MatrixFits)
      BY <2>4 DEF Price, MatrixFits, tasks, local
    <3> QED
      BY <3>1 DEF WInv, WorkConserving
  <2>5. CASE Solve
    BY <2>5, SolveSaturates
  <2>11. CASE Refine
    BY <2>11, RefineSaturates
  <2>12. CASE Settle
    BY <2>12, SettleSaturates
  <2>6. CASE SearchNext
    BY <2>6, SearchSaturates
  <2>7. CASE SearchEnd
    BY <2>7, SearchEndSaturates
  <2>8. CASE Propose
    BY <2>8, ProposeConserves
  <2>9. CASE Update
    BY <2>9 DEF Update, WInv, WorkConserving
  <2>10. CASE UNCHANGED vars
    BY <2>10, SamePriced DEF vars, WInv, WorkConserving, Hopeless, Saturated, Matched, Busy, Scheduled
  <2> QED
    BY <2>1, <2>2, <2>3, <2>4, <2>5, <2>6, <2>7, <2>8, <2>9, <2>10, <2>11, <2>12 DEF Next, Call
<1>3. WInv => WorkConserving
  BY DEF WInv
<1> QED
  BY <1>1, <1>2, <1>3, Invariance, PTL DEF Spec

=============================================================================
