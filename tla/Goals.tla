------------------------------- MODULE Goals --------------------------------
(***************************************************************************)
(* The goal system of one user: the ladder and the creature's stage        *)
(* (goals/ladder.ts, store/goals.ts), the target goals and the guardrail   *)
(* periods (goals/evaluation.ts, goals/guardrails.ts,                      *)
(* store/target-goals.ts), and the requests that change them               *)
(* (api/goals.ts, api/pets.ts). A job is one pass of refreshGoalSystem,    *)
(* from the scheduler or from GET /api/net-worth, or one request. Each     *)
(* reads, computes and writes in statements of its own, without a lock, so *)
(* that what it writes may rest on a copy another job has overtaken.       *)
(*                                                                         *)
(* What a rung, a goal or a period is worth is an input: the arithmetic of *)
(* the conditions is not here, what is done with their answers is.         *)
(***************************************************************************)
EXTENDS Integers, FiniteSets, FiniteSetsExt

CONSTANTS
  Rungs,       \* the rungs of the ladder, ids out of 0..7
  GoalIds,     \* target goals that may be created
  MaxActive,   \* MAX_ACTIVE_GOALS
  Weeks,       \* periods of one guardrail that close
  Backfill,    \* WEEKLY_BACKFILL
  Tokens,      \* REPAIR_TOKENS_START, REPAIR_TOKENS_CAP
  EarnEvery,   \* PERIODS_PER_EARNED_TOKEN
  Jobs,        \* passes and requests in flight at a time
  None

GoalsAssumption ==
  /\ Rungs \subseteq 0..7 /\ None \notin Nat
  /\ IsFiniteSet(GoalIds) /\ Weeks \in Nat /\ {MaxActive, Backfill, Tokens, EarnEvery} \subseteq Nat \ {0}

VARIABLES
  ladder,     \* ladder_state.rungs, None before the first pass
  stage,      \* pet_progression.stage, None before the first pass
  made, achieved, archived,   \* goals: rows, achieved_at, archived_at
  week,       \* periods closed so far
  periods,    \* goal_periods of one guardrail, by week
  job         \* what each job is about to do, and the copy it works from

ladderVars == <<ladder, stage>>
goalVars == <<made, achieved, archived>>
periodVars == <<week, periods>>
vars == <<ladder, stage, made, achieved, archived, week, periods, job>>

\* "open" stands for indeterminate and not_applicable, which are judged again. "repaired" is
\* a missed period with repairUsed.
Settled == {"passed", "missed", "repaired"}
Outcomes == {"none", "open"} \cup Settled
OptedOut == {"skipped", "not_applicable"}
Statuses == {"pending", "active", "completed"} \cup OptedOut
Ladders == [Rungs -> Statuses]
Active == made \ (achieved \cup archived)

Idle == [at |-> "idle"]
JobStates ==
  {Idle} \cup [at : {"ladder"}, prior : Ladders \cup {None}]
    \cup [at : {"stage"}, reached : Rungs \cup {0}]
    \cup [at : {"raise"}, reached : Rungs \cup {0}, seen : Rungs \cup {0, None}]
    \cup [at : {"goals"}]
    \cup [at : {"pace"}, todo : SUBSET GoalIds, was : SUBSET GoalIds]
    \cup [at : {"roll"}, goal : GoalIds, todo : SUBSET GoalIds, was : SUBSET GoalIds]
    \cup [at : {"create"}, count : 0..Cardinality(GoalIds)]
    \cup [at : {"periods"}, seen : [1..Weeks -> Outcomes], next : 1..Weeks + 1,
          upto : 0..Weeks]

\* The rows hold what their columns allow, and every job is at a step of its handler.
TypeOK ==
  /\ ladder \in Ladders \cup {None} /\ stage \in Rungs \cup {0, None}
  /\ made \subseteq GoalIds /\ achieved \subseteq made /\ archived \subseteq made
  /\ week \in 0..Weeks /\ periods \in [1..Weeks -> Outcomes]
  /\ job \in [Jobs -> JobStates]

Init ==
  /\ ladder = None /\ stage = None
  /\ made = {} /\ achieved = {} /\ archived = {}
  /\ week = 0 /\ periods = [w \in 1..Weeks |-> "none"]
  /\ job = [j \in Jobs |-> Idle]

Goto(j, s) == job' = [job EXCEPT ![j] = s]
-----------------------------------------------------------------------------
(* The ladder *)

\* The first rung that is not settled is the active one.
ResolveActive(rungs) ==
  LET open == {r \in Rungs : rungs[r] \notin {"completed"} \cup OptedOut}
  IN  [r \in Rungs |-> IF r \notin open THEN rungs[r]
                       ELSE IF r = Min(open) THEN "active" ELSE "pending"]

\* Rung 2 and rung 5 have no input to judge them by, rung 7 never completes.
Judgeable == Rungs \ {2, 5, 7}

\* Mutant: a completion is forgotten as soon as the condition no longer holds.
EvaluateAfresh(prior, satisfied) ==
  ResolveActive([r \in Rungs |->
    IF prior # None /\ prior[r] = "skipped" THEN prior[r]
    ELSE IF r \in satisfied THEN "completed" ELSE "pending"])

\* A rung skipped or completed stays; every other one is what its condition says now.
EvaluateLadder(prior, satisfied) ==
  ResolveActive([r \in Rungs |->
    IF prior # None /\ prior[r] \in {"skipped", "completed"} THEN prior[r]
    ELSE IF r \in satisfied THEN "completed" ELSE "pending"])

StageForLadder(rungs) == Max({0} \cup {r \in Rungs : rungs[r] = "completed"})

\* A pass or a request reads the ladder first.
ReadLadder(j) ==
  /\ job[j] = Idle
  /\ Goto(j, [at |-> "ladder", prior |-> ladder])
  /\ UNCHANGED <<ladderVars, goalVars, periodVars>>

\* A pass judges the copy it read and writes every rung.
RefreshLadder(j) ==
  /\ job[j].at = "ladder"
  /\ \E satisfied \in SUBSET Judgeable :
       LET next == EvaluateLadder(job[j].prior, satisfied)
       IN  /\ ladder' = next
           /\ Goto(j, [at |-> "stage", reached |-> StageForLadder(next)])
  /\ UNCHANGED <<stage, goalVars, periodVars>>

ReadStage(j) ==
  /\ job[j].at = "stage"
  /\ Goto(j, [at |-> "raise", reached |-> job[j].reached, seen |-> stage])
  /\ UNCHANGED <<ladderVars, goalVars, periodVars>>

\* The stage is inserted, which the key refuses when another pass was first, or raised. What
\* follows is the rest of the pass, or nothing after a moved slider.
RaiseStage(j) ==
  LET s == job[j] IN
  /\ s.at = "raise"
  /\ IF s.seen = None /\ stage # None THEN stage' = stage /\ Goto(j, Idle)
     ELSE /\ stage' = IF s.seen = None \/ s.reached > s.seen THEN s.reached ELSE stage
          /\ \E rest \in {Idle, [at |-> "goals"]} : Goto(j, rest)
  /\ UNCHANGED <<ladder, goalVars, periodVars>>

\* The user opts out of a rung that is not completed, for a reason or as not applicable.
SkipRung(j, r) ==
  /\ job[j].at = "ladder" /\ job[j].prior # None
  /\ IF job[j].prior[r] = "completed" THEN UNCHANGED ladder
     ELSE \E status \in OptedOut :
            ladder' = ResolveActive([job[j].prior EXCEPT ![r] = status])
  /\ Goto(j, Idle)
  /\ UNCHANGED <<stage, goalVars, periodVars>>

\* The user takes an opt-out back.
UnskipRung(j, r) ==
  /\ job[j].at = "ladder" /\ job[j].prior # None
  /\ IF job[j].prior[r] \notin OptedOut THEN UNCHANGED ladder
     ELSE ladder' = ResolveActive([job[j].prior EXCEPT ![r] = "pending"])
  /\ Goto(j, Idle)
  /\ UNCHANGED <<stage, goalVars, periodVars>>
-----------------------------------------------------------------------------
(* Target goals *)

\* A goal is created in a transaction that counts the active ones and then inserts.
CountGoals(j) ==
  /\ job[j] = Idle /\ GoalIds # {}
  /\ Goto(j, [at |-> "create", count |-> Cardinality(Active)])
  /\ UNCHANGED <<ladderVars, goalVars, periodVars>>

CreateGoal(j) ==
  /\ job[j].at = "create"
  /\ IF job[j].count >= MaxActive THEN made' = made
     ELSE \E g \in GoalIds \ made : made' = made \cup {g}
  /\ Goto(j, Idle)
  /\ UNCHANGED <<ladderVars, achieved, archived, periodVars>>

ArchiveGoal(g) ==
  /\ g \in made \ archived
  /\ archived' = archived \cup {g}
  /\ UNCHANGED <<ladderVars, made, achieved, periodVars, job>>

ListGoals(j) ==
  /\ job[j].at = "goals"
  /\ Goto(j, [at |-> "pace", todo |-> made \ archived, was |-> achieved])
  /\ UNCHANGED <<ladderVars, goalVars, periodVars>>

\* The pace of one goal: it may be reached, and one that comes back every year may be due.
RefreshPace(j) ==
  LET s == job[j] IN
  /\ s.at = "pace"
  /\ \E g \in s.todo, reached, due \in BOOLEAN :
       LET rest == [s EXCEPT !.todo = @ \ {g}]
       IN  /\ achieved' = IF reached /\ g \notin s.was THEN achieved \cup {g} ELSE achieved
           /\ Goto(j, IF due /\ (reached \/ g \in s.was)
                      THEN [at |-> "roll", goal |-> g, todo |-> rest.todo, was |-> s.was]
                      ELSE rest)
  /\ UNCHANGED <<ladderVars, made, archived, periodVars>>

\* A goal that comes back every year is no longer achieved, whatever the cap says.
ResetRecurring(j) ==
  LET s == job[j] IN
  /\ s.at = "roll"
  /\ achieved' = achieved \ {s.goal}
  /\ Goto(j, [at |-> "pace", todo |-> s.todo, was |-> s.was])
  /\ UNCHANGED <<ladderVars, made, archived, periodVars>>
-----------------------------------------------------------------------------
(* Guardrail periods *)

CloseWeek ==
  /\ week < Weeks /\ week' = week + 1
  /\ UNCHANGED <<ladderVars, goalVars, periods, job>>

\* What one period makes of the streak and of the bank of repair tokens.
OnePeriod(before, outcome) ==
  CASE outcome = "passed" ->
         [streak |-> before.streak + 1, passed |-> before.passed + 1,
          tokens |-> IF (before.passed + 1) % EarnEvery = 0 THEN Min({Tokens, before.tokens + 1})
                     ELSE before.tokens]
    [] outcome = "missed" -> [before EXCEPT !.streak = 0]
    [] outcome = "repaired" -> [before EXCEPT !.tokens = Max({0, @ - 1})]
    [] OTHER -> before

\* By week, the streak and the bank after it.
ReplayStreak(history) ==
  LET after[n \in 0..Weeks] ==
        IF n = 0 THEN [streak |-> 0, tokens |-> Tokens, passed |-> 0] ELSE OnePeriod(after[n - 1], history[n])
  IN  after

\* Mutant: a streak is repaired on credit.
RepairsAnyStreak(history, w) == ReplayStreak(history)[w - 1].streak > 0

\* A miss that would break a live streak is repaired while the bank has a token.
Repairs(history, w) ==
  LET before == ReplayStreak(history)[w - 1] IN before.tokens > 0 /\ before.streak > 0

\* What a guardrail may say of a week: each can pass, be missed, or lack its data.
Answers(history, w) ==
  {"open", "passed", IF Repairs(history, w) THEN "repaired" ELSE "missed"}

\* All rows are read at once; the last closed weeks are then gone through one by one.
ReadPeriods(j) ==
  /\ job[j].at = "pace" /\ job[j].todo = {}
  /\ Goto(j, [at |-> "periods", seen |-> periods, upto |-> week,
              next |-> Max({1, week - Backfill + 1})])
  /\ UNCHANGED <<ladderVars, goalVars, periodVars>>

\* A week that the copy has settled is passed over, the others are judged and written.
EvaluatePeriod(j) ==
  LET s == job[j]
      w == s.next
  IN
  /\ s.at = "periods" /\ w <= s.upto
  /\ IF s.seen[w] \in Settled
     THEN /\ Goto(j, [s EXCEPT !.next = w + 1])
          /\ UNCHANGED periods
     ELSE \E outcome \in Answers(s.seen, w) :
            /\ periods' = [periods EXCEPT ![w] = outcome]
            /\ Goto(j, [s EXCEPT !.next = w + 1, !.seen[w] = outcome])
  /\ UNCHANGED <<ladderVars, goalVars, week>>

EndPass(j) ==
  /\ job[j].at = "periods" /\ job[j].next > job[j].upto
  /\ Goto(j, Idle)
  /\ UNCHANGED <<ladderVars, goalVars, periodVars>>

\* The process restarts: whatever was in flight is gone, every row stays.
Crash ==
  /\ \E j \in Jobs : job[j] # Idle
  /\ job' = [j \in Jobs |-> Idle]
  /\ UNCHANGED <<ladderVars, goalVars, periodVars>>
-----------------------------------------------------------------------------
Next ==
  \/ CloseWeek \/ Crash
  \/ \E g \in GoalIds : ArchiveGoal(g)
  \/ \E j \in Jobs :
       \/ ReadLadder(j) \/ RefreshLadder(j) \/ ReadStage(j) \/ RaiseStage(j)
       \/ \E r \in Rungs : SkipRung(j, r) \/ UnskipRung(j, r)
       \/ CountGoals(j) \/ CreateGoal(j) \/ ListGoals(j) \/ RefreshPace(j) \/ ResetRecurring(j)
       \/ ReadPeriods(j) \/ EvaluatePeriod(j) \/ EndPass(j)
-----------------------------------------------------------------------------
\* A job moves on from a copy that is no longer what is stored.
Overtaken(j) ==
  LET s == job[j] IN
  /\ job'[j] # s
  /\ CASE s.at = "ladder" -> s.prior # ladder
       [] s.at = "raise" -> s.seen # stage
       [] s.at = "create" -> s.count # Cardinality(Active)
       [] s.at = "periods" -> s.seen # periods
       [] OTHER -> FALSE

\* Progress is permanent: a completed rung stays completed, the stage is never lowered and a
\* settled period never changes, whatever becomes of the conditions and in whatever order
\* passes, requests and crashes come. A job that another one has overtaken is the only
\* exception: store/goals.ts:141 reads the ladder that :143 writes as a whole, and
\* goals/evaluation.ts:209 skips what was settled when it read. (What is no job, archiving
\* and the calendar, touches none of the three.)
ProgressIsPermanent ==
  [][ job' # job =>
      \/ \E j \in Jobs : Overtaken(j)
      \/ /\ \A r \in Rungs : ladder # None /\ ladder[r] = "completed" => ladder'[r] = "completed"
         /\ stage # None => stage' # None /\ stage' >= stage
         /\ \A w \in 1..Weeks : periods[w] \in Settled => periods'[w] = periods[w] ]_vars

\* The repairs of the first n weeks have tokens to pay for them: those there were at the start
\* and those that passed weeks earned.
Weekly(history, outcome, n) == Cardinality({w \in 1..n : history[w] = outcome})
Covered(history, n) ==
  Weekly(history, "repaired", n) <= Tokens + Weekly(history, "passed", n) \div EarnEvery

\* What is limited stays limited: a goal is made active beyond the cap by the yearly reset
\* only (store/target-goals.ts:109, 198), and a week is repaired with a token that the weeks
\* before it leave over, however late it settles (goals/evaluation.ts:229). A week that
\* settles after a later one may leave that one uncovered. Overtaken jobs are excepted.
LimitsKept ==
  [][ job' # job =>
      \/ \E j \in Jobs : Overtaken(j)
      \/ /\ Cardinality(Active') > Cardinality(Active) /\ Cardinality(Active') > MaxActive
              => \E j \in Jobs : ResetRecurring(j)
         /\ \A w \in 1..Weeks :
              /\ periods'[w] = "repaired" /\ periods[w] # "repaired"
              /\ \A n \in 1..w - 1 : Covered(periods, n)
              => Covered(periods', w) ]_vars

\* An opt-out is the user's to reverse (goals/ladder.ts:269), from a rung that is not
\* applicable as from one that is skipped (goals/ladder.ts:325).
OptOutStands ==
  [][ \/ \E j \in Jobs : Overtaken(j)
      \/ \A r \in Rungs :
           ladder # None /\ ladder[r] \in OptedOut /\ ladder'[r] \notin OptedOut
             => \E j \in Jobs : UnskipRung(j, r) ]_vars
=============================================================================
