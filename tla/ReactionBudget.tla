---------------------------- MODULE ReactionBudget ----------------------------
(***************************************************************************)
(* From a batch of events to the creature, for ONE user: performReactions  *)
(* (reactions/perform.ts) performs at most one candidate of a batch, the   *)
(* first in the contract's order that no limit suppresses, and records it  *)
(* in reaction_history (store/pet.ts). What the recorded reaction may send *)
(* to the lock screen is PushBudget.                                       *)
(*                                                                         *)
(* The limits are counts that are read, acted upon, and written later, and *)
(* nothing serialises the callers: Performers are the calls that may be    *)
(* alive together (webhooks of several banks, the scheduler, a request).   *)
(*                                                                         *)
(* Time is counted in ticks of some hours; a call takes seconds and is     *)
(* over within a tick. Rows older than a week matter to nobody and leave   *)
(* the model. Three names stand for the rows of the contract: celebrations *)
(* (exempt from the daily budget), routine events and the overspend.       *)
(***************************************************************************)
EXTENDS Naturals, FiniteSets

CONSTANTS
  Performers,   \* performReactions calls that may overlap
  ReactionIds,  \* bound: reactions performed within a week
  DayTicks,     \* 24 hours
  WeekTicks,    \* OVERSPEND_COOLDOWN_DAYS
  DailyBudget,  \* DAILY_REACTION_BUDGET
  MaxHistory    \* MAX_HISTORY

ReactionAssumption ==
  /\ IsFiniteSet(Performers) /\ Performers # {}
  /\ IsFiniteSet(ReactionIds)
  /\ DayTicks \in Nat \ {0} /\ WeekTicks \in Nat /\ DayTicks <= WeekTicks
  /\ DailyBudget \in Nat \ {0} /\ MaxHistory \in Nat /\ DailyBudget <= MaxHistory

VARIABLES
  hour,       \* ticks since the UTC day began
  performed,  \* history: reactions performed within the last week
  table,      \* reaction_history: those of them that were not trimmed
  kind,       \* per reaction: its event
  age,        \* per reaction: ticks since it was recorded
  pc,         \* per performer: "idle", "cap", "count", "record"
  cands,      \* per performer: the candidates it has not suppressed
  racing      \* history: two performers were alive together

rows == <<performed, table, kind, age>>
vars == <<hour, rows, pc, cands, racing>>

-----------------------------------------------------------------------------
(* reactions/contract.ts *)

Direct == {"celebration", "routine", "overspend"}
Exempt == {"celebration"}

\* orderCandidates: the lowest priority first.
Precedence == [celebration |-> 1, routine |-> 2, overspend |-> 3]
First(cs) == CHOOSE c \in cs : \A d \in cs : Precedence[c] <= Precedence[d]

TypeOK ==
  /\ hour \in 0..DayTicks - 1
  /\ performed \subseteq ReactionIds /\ table \subseteq performed
  /\ kind \in [ReactionIds -> Direct] /\ age \in [ReactionIds -> 0..WeekTicks]
  /\ pc \in [Performers -> {"idle", "cap", "count", "record"}]
  /\ cands \in [Performers -> SUBSET Direct]
  /\ racing \in BOOLEAN

Init ==
  /\ hour = 0
  /\ performed = {} /\ table = {}
  /\ kind = [r \in ReactionIds |-> "routine"] /\ age = [r \in ReactionIds |-> 0]
  /\ pc = [j \in Performers |-> "idle"] /\ cands = [j \in Performers |-> {}]
  /\ racing = FALSE

-----------------------------------------------------------------------------
(* performReactions *)

\* The loop is at the candidate that is now first: which read comes next.
Consider(j, cs) ==
  /\ cands' = [cands EXCEPT ![j] = cs]
  /\ pc' = [pc EXCEPT ![j] = IF cs = {} THEN "idle"
                             ELSE IF First(cs) = "overspend" THEN "cap"
                             ELSE IF First(cs) \in Exempt THEN "record" ELSE "count"]

\* A batch of direct candidates (anything else is suppressed unread).
Perform(j, batch) ==
  /\ pc[j] = "idle"
  /\ Consider(j, batch)
  /\ racing' = (racing \/ \E k \in Performers : pc[k] # "idle")
  /\ UNCHANGED <<hour, rows>>

\* Mutant: the cap looks at the newest reaction only.
WeeklyCapNewest(j) ==
  /\ pc[j] = "cap"
  /\ IF \E r \in table : kind[r] = "overspend" /\ age[r] < WeekTicks /\ \A q \in table : age[r] <= age[q]
     THEN Consider(j, cands[j] \ {"overspend"})
     ELSE pc' = [pc EXCEPT ![j] = "count"] /\ UNCHANGED cands
  /\ UNCHANGED <<hour, rows, racing>>

\* lastReactionAtForEvent: one overspend per rolling week.
WeeklyCap(j) ==
  /\ pc[j] = "cap"
  /\ IF \E r \in table : kind[r] = "overspend" /\ age[r] < WeekTicks
     THEN Consider(j, cands[j] \ {"overspend"})
     ELSE pc' = [pc EXCEPT ![j] = "count"] /\ UNCHANGED cands
  /\ UNCHANGED <<hour, rows, racing>>

\* countReactionsSince(dayStart): the rows of this UTC day.
Today(rs) == {r \in rs : age[r] <= hour}

\* Mutant: one reaction more than the budget.
DailyBudgetOffByOne(j) ==
  /\ pc[j] = "count"
  /\ IF Cardinality(Today(table)) > DailyBudget
     THEN Consider(j, cands[j] \ {First(cands[j])})
     ELSE pc' = [pc EXCEPT ![j] = "record"] /\ UNCHANGED cands
  /\ UNCHANGED <<hour, rows, racing>>

\* A routine event spends the daily budget, the celebrations in it included.
DailyBudgetCheck(j) ==
  /\ pc[j] = "count"
  /\ IF Cardinality(Today(table)) >= DailyBudget
     THEN Consider(j, cands[j] \ {First(cands[j])})
     ELSE pc' = [pc EXCEPT ![j] = "record"] /\ UNCHANGED cands
  /\ UNCHANGED <<hour, rows, racing>>

\* recordReaction keeps the MAX_HISTORY newest rows.
Trim(rs) ==
  {kept \in SUBSET rs :
     /\ Cardinality(kept) = IF Cardinality(rs) < MaxHistory THEN Cardinality(rs) ELSE MaxHistory
     /\ \A r \in kept, q \in rs \ kept : age'[r] <= age'[q]}

\* applyHealthDelta (one clamped UPDATE that no limit reads), recordReaction
\* (one transaction), and the dispatch of the push.
Record(j) ==
  /\ pc[j] = "record" /\ performed # ReactionIds
  /\ LET r == CHOOSE r \in ReactionIds : r \notin performed
     IN /\ performed' = performed \cup {r}
        /\ kind' = [kind EXCEPT ![r] = First(cands[j])]
        /\ age' = [age EXCEPT ![r] = 0]
        /\ table' \in Trim(table \cup {r})
  /\ Consider(j, {})
  /\ UNCHANGED <<hour, racing>>

\* A statement throws or the process dies: the call ends without a row.
Abandon(j) ==
  /\ pc[j] # "idle"
  /\ Consider(j, {})
  /\ UNCHANGED <<hour, rows, racing>>

-----------------------------------------------------------------------------
\* Mutant: the UTC day never ends.
TickWithoutMidnight ==
  /\ \A j \in Performers : pc[j] = "idle"
  /\ hour' = hour + 1
  /\ performed' = {r \in performed : age[r] < WeekTicks}
  /\ table' = table \cap performed'
  /\ kind' = [r \in ReactionIds |-> IF r \in performed' THEN kind[r] ELSE "routine"]
  /\ age' = [r \in ReactionIds |-> IF r \in performed' THEN age[r] + 1 ELSE 0]
  /\ UNCHANGED <<pc, cands, racing>>

\* Hours pass; what is older than a week leaves every window.
Tick ==
  /\ \A j \in Performers : pc[j] = "idle"
  /\ hour' = (hour + 1) % DayTicks
  /\ performed' = {r \in performed : age[r] < WeekTicks}
  /\ table' = table \cap performed'
  /\ kind' = [r \in ReactionIds |-> IF r \in performed' THEN kind[r] ELSE "routine"]
  /\ age' = [r \in ReactionIds |-> IF r \in performed' THEN age[r] + 1 ELSE 0]
  /\ UNCHANGED <<pc, cands, racing>>

Next ==
  \/ \E j \in Performers :
       \/ \E batch \in SUBSET Direct \ {{}} : Perform(j, batch)
       \/ WeeklyCap(j) \/ DailyBudgetCheck(j) \/ Record(j) \/ Abandon(j)
  \/ Tick

Spec == Init /\ [][Next]_vars

-----------------------------------------------------------------------------
(* What the limits promise *)

\* "At most this many budgeted (non-exempt) reactions perform per user per UTC
\* day" (contract.ts:186), exceeded by overlapping calls at most, although the
\* table the count reads is trimmed.
DailyBudgetHolds ==
  Cardinality({r \in Today(performed) : kind[r] \notin Exempt}) <= DailyBudget + Cardinality(Performers) - 1

\* "at most once per rolling week" (perform.ts:61): two overspends within a
\* week take two overlapping calls, or a first one that MAX_HISTORY others had
\* pushed out of the table before the second was recorded.
OverspendOncePerWeek ==
  ~racing =>
    \A r, q \in performed :
      /\ kind[r] = "overspend" /\ kind[q] = "overspend" /\ r # q
      /\ age[r] < WeekTicks /\ age[q] < WeekTicks
      => Cardinality({s \in performed : age[s] <= age[r] \/ age[s] <= age[q]}) > MaxHistory + 1

=============================================================================
