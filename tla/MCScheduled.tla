----------------------------- MODULE MCScheduled -----------------------------
(***************************************************************************)
(* What the scheduler sets off, for TLC in one run: RetryBudget is one     *)
(* vendor's budget under the calls in flight, Sweeps is who calls a vendor *)
(* when, Goals is the pass over the goal system that follows. They share   *)
(* no variable; "machine" says which of them moves in a behaviour, so that *)
(* their state spaces add up instead of multiplying. Goals moves as one of *)
(* three, each with the inputs of one part of it: no part reads what the   *)
(* others write.                                                           *)
(***************************************************************************)
EXTENDS RetryBudget, TLC

CONSTANTS
  Machines,   \* the machines this run looks at
  People,
  Sample, Slots, Routes, Never, Threshold, ClassLimit, Broken, Abort, Step, MaxAge, MaxLinks,
  Rungs, GoalIds, MaxActive, Weeks, Backfill, Tokens, EarnEvery, Jobs

VARIABLES
  machine,
  vendor, linked, health, sync, pass, due, streak, called, cut, swept, waited, links,
  ladder, stage, made, achieved, archived, week, periods, job

S == INSTANCE Sweeps
G == INSTANCE Goals WITH None <- Never

ASSUME MachinesAssumption == S!SweepAssumption /\ G!GoalsAssumption

sVars == <<vendor, linked, health, sync, pass, due, streak, called, cut, swept, waited, links>>
gVars == <<ladder, stage, made, achieved, archived, week, periods, job>>

GoalMachines == {"ladder", "targets", "guardrails"}

\* A machine that does not move holds nothing.
SweepsParked ==
  /\ vendor = Never /\ linked = Never /\ health = Never /\ sync = Never /\ pass = Never
  /\ due = Never /\ streak = Never /\ called = Never /\ cut = Never /\ swept = Never
  /\ waited = Never /\ links = Never

\* Two of the three parts of the goal system have nothing to do.
OnePart ==
  /\ machine # "ladder" /\ ladder' # Never =>
       \A r \in Rungs : ladder'[r] \in {"pending", "active"}
  /\ machine # "targets" => made' = {} /\ \A j \in Jobs : job'[j].at # "create"
  /\ machine # "guardrails" => week' = 0

MCInit ==
  /\ machine \in Machines /\ Init /\ G!Init
  /\ IF machine = "sweeps" THEN S!Init ELSE SweepsParked
MCNext ==
  /\ UNCHANGED machine
  /\ \/ machine = "retries" /\ Next /\ UNCHANGED <<sVars, gVars>>
     \/ machine = "sweeps" /\ S!Next /\ UNCHANGED <<vars, gVars>>
     \/ machine \in GoalMachines /\ G!Next /\ OnePart /\ UNCHANGED <<vars, sVars>>
MCSpec == MCInit /\ [][MCNext]_<<machine, vars, sVars, gVars>>

\* The machines keep to their types.
TypesOK == TypeOK /\ (machine = "sweeps" => S!TypeOK) /\ (machine \in GoalMachines => G!TypeOK)
\* Properties of Sweeps and Goals, stated there.
NobodyStarves == machine = "sweeps" => S!NobodyStarves
CallsArePaced == S!CallsArePaced
ProgressIsPermanent == G!ProgressIsPermanent
LimitsKept == G!LimitsKept
OptOutStands == G!OptOutStands

\* A user may have two rows, such as wallets; where there is one, it is the first.
MCSlots == People \X {1, 2}

\* Jobs are interchangeable, and so are users.
Symmetry == Permutations(Jobs) \cup Permutations(People)
=============================================================================
