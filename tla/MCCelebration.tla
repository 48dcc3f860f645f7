---------------------------- MODULE MCCelebration ----------------------------
(***************************************************************************)
(* What the creature shows and says, for TLC in one run: NetWorth keeps    *)
(* the total and the baseline on its row, ReactionBudget lets it react,    *)
(* PushBudget lets a push be sent. Each takes its input from all that the  *)
(* others may hand on, so they share no variable; "machine" says which of  *)
(* them moves in a behaviour and their state spaces add up.                *)
(***************************************************************************)
EXTENDS PushBudget, TLC

CONSTANTS
  Machines,   \* the machines this run looks at
  Performers, ReactionIds, ReactionDayTicks, WeekTicks, DailyBudget, MaxHistory,
  b1, b2, d,
  Opening, Known, CardOwed, Earner, Unlinkable,
  Passes, Callers, Errors, None, Step, MaxAge, MaxEarned

VARIABLES
  machine,
  hour, performed, table, rKind, rAge, rPc, cands, racing,
  worth, cell, off, baseline, job, call, earned, flawed

R == INSTANCE ReactionBudget WITH
  DayTicks <- ReactionDayTicks, kind <- rKind, age <- rAge, pc <- rPc

N == INSTANCE NetWorth WITH Actors <- Passes, Spam <- 1

ASSUME MachinesAssumption == R!ReactionAssumption /\ N!NetWorthAssumption

\* Two bank accounts, one with a card that the bureau sees too. The debts connection may be
\* revoked and made again.
MCSources == {<<"bank", b1>>, <<"bank", b2>>, <<"debts", d>>}
MCOpening == [s \in MCSources |-> IF s = <<"debts", d>> THEN 2 ELSE 5]
MCCardOwed == [s \in MCSources |-> IF s = <<"bank", b1>> THEN 1 ELSE 0]
MCEarner == {<<"bank", b2>>}
MCUnlinkable == {<<"debts", d>>}

rVars == <<hour, performed, table, rKind, rAge, rPc, cands, racing>>
nVars == <<worth, cell, off, baseline, job, call, earned, flawed>>

\* A machine that does not move holds nothing.
ReactionsParked ==
  /\ hour = None /\ performed = None /\ table = None /\ rKind = None /\ rAge = None
  /\ rPc = None /\ cands = None /\ racing = None
WorthParked ==
  /\ worth = None /\ cell = None /\ off = None /\ baseline = None
  /\ job = None /\ call = None /\ earned = None /\ flawed = None

MCInit ==
  /\ machine \in Machines
  /\ Init
  /\ IF machine = "reactions" THEN R!Init ELSE ReactionsParked
  /\ IF machine = "worth" THEN N!Init ELSE WorthParked
\* A total that was wrong without being degraded ends the behaviour: BaselineHonest excepts what
\* comes after it.
MCNext ==
  /\ UNCHANGED machine
  /\ \/ machine = "push" /\ Next /\ UNCHANGED <<rVars, nVars>>
     \/ machine = "reactions" /\ R!Next /\ UNCHANGED <<vars, nVars>>
     \/ machine = "worth" /\ ~flawed /\ N!Next /\ UNCHANGED <<vars, rVars>>
MCSpec == MCInit /\ [][MCNext]_<<machine, vars, rVars, nVars>>

\* The machines keep to their types.
TypesOK ==
  TypeOK /\ (machine = "reactions" => R!TypeOK) /\ (machine = "worth" => N!TypeOK)
\* The properties of the machines that are not PushBudget, stated in their own modules.
DailyBudgetHolds == machine = "reactions" => R!DailyBudgetHolds
OverspendOncePerWeek == machine = "reactions" => R!OverspendOncePerWeek
BaselineHonest == machine = "worth" => N!BaselineHonest

\* Fan-outs are interchangeable, and so are performers. (The ids are not: the lowest free one
\* is taken.)
Symmetry == Permutations(Fanouts) \cup Permutations(Performers)
=============================================================================
