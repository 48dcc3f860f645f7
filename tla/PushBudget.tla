------------------------------ MODULE PushBudget ------------------------------
(***************************************************************************)
(* From a reaction to the lock screen, for ONE user: dispatchReaction      *)
(* starts fanOutPush in the background (reactions/dispatch.ts), which asks *)
(* canSendPush (store/notifications.ts), sends through APNs, and records   *)
(* the push once one device has it.                                        *)
(*                                                                         *)
(* The budget is three counts that are read before the send and a row that *)
(* is written after it, and nothing serialises the fan-outs: Fanouts are   *)
(* those that may be alive together.                                       *)
(*                                                                         *)
(* Time is counted in ticks of some hours; a fan-out takes seconds and is  *)
(* over within a tick. Rows older than the window matter to nobody and     *)
(* leave the model.                                                        *)
(***************************************************************************)
EXTENDS Naturals, FiniteSets

CONSTANTS
  Fanouts,      \* fanOutPush calls that may overlap
  Kinds,        \* events whose contract row pushes "always" or "once"
  AnyKind,      \* one of them, the kind of what is not in use
  PushIds,      \* bound: pushes delivered within a window
  NoPush,       \* the push of a fan-out that delivered none yet
  MaxFaults,    \* bound: process crashes and failing inserts
  DayTicks,     \* PUSH_DAY_WINDOW_HOURS, PUSH_SAME_TYPE_COOLDOWN_HOURS
  WindowTicks,  \* PUSH_WINDOW_DAYS
  MaxPerWindow, \* PUSH_MAX_PER_WINDOW
  MaxPerDay     \* PUSH_MAX_PER_DAY

ASSUME PushAssumption ==
  /\ IsFiniteSet(Fanouts) /\ Fanouts # {} /\ AnyKind \in Kinds
  /\ IsFiniteSet(PushIds) /\ NoPush \notin PushIds
  /\ MaxFaults \in Nat
  /\ DayTicks \in Nat /\ WindowTicks \in Nat /\ DayTicks <= WindowTicks
  /\ MaxPerWindow \in Nat \ {0} /\ MaxPerDay \in Nat \ {0}

VARIABLES
  sent,    \* history: pushes delivered within the window
  logged,  \* notification_log: those of them that were recorded
  lost,    \* history: those whose fan-out died or failed before its row
  kind,    \* per push: its event
  age,     \* per push: ticks since it was sent
  pc,      \* per fan-out: "idle", "window", "day", "type", "send", "record"
  event,   \* per fan-out: its event
  push,    \* per fan-out at "record": the push it delivered
  faults

rows == <<sent, logged, lost, kind, age>>
fanVars == <<pc, event, push>>
vars == <<rows, fanVars, faults>>

TypeOK ==
  /\ sent \subseteq PushIds /\ logged \subseteq sent /\ lost \subseteq sent
  /\ kind \in [PushIds -> Kinds] /\ age \in [PushIds -> 0..WindowTicks]
  /\ pc \in [Fanouts -> {"idle", "window", "day", "type", "send", "record"}]
  /\ event \in [Fanouts -> Kinds]
  /\ push \in [Fanouts -> PushIds \cup {NoPush}]
  /\ faults \in 0..MaxFaults

Init ==
  /\ sent = {} /\ logged = {} /\ lost = {}
  /\ kind = [p \in PushIds |-> AnyKind] /\ age = [p \in PushIds |-> 0]
  /\ pc = [f \in Fanouts |-> "idle"]
  /\ event = [f \in Fanouts |-> AnyKind] /\ push = [f \in Fanouts |-> NoPush]
  /\ faults = 0

\* dispatchReaction of an event whose policy pushes, outside quiet hours, for a
\* user with a known timezone; every other dispatch returns before it reads.
Dispatch(f, k) ==
  /\ pc[f] = "idle"
  /\ pc' = [pc EXCEPT ![f] = "window"]
  /\ event' = [event EXCEPT ![f] = k]
  /\ UNCHANGED <<rows, push, faults>>

Goto(f, p) ==
  /\ pc' = [pc EXCEPT ![f] = p]
  /\ event' = IF p = "idle" THEN [event EXCEPT ![f] = AnyKind] ELSE event
  /\ UNCHANGED <<rows, push, faults>>

\* Mutant: the window counts the pushes of this type only.
WindowCheckPerType(f) ==
  /\ pc[f] = "window"
  /\ Goto(f, IF Cardinality({p \in logged : kind[p] = event[f]}) >= MaxPerWindow THEN "idle" ELSE "day")

\* canSendPush, first read: the pushes of the last seven days.
WindowCheck(f) ==
  /\ pc[f] = "window"
  /\ Goto(f, IF Cardinality(logged) >= MaxPerWindow THEN "idle" ELSE "day")

ThisDay(ps) == {p \in ps : age[p] <= DayTicks}

\* Mutant: the day cap is left to the cooldown of the type.
DayCheckSkipped(f) ==
  /\ pc[f] = "day"
  /\ Goto(f, "type")

\* Second read: the pushes of the last 24 hours, of any type.
DayCheck(f) ==
  /\ pc[f] = "day"
  /\ Goto(f, IF Cardinality(ThisDay(logged)) >= MaxPerDay THEN "idle" ELSE "type")

\* Third read: the pushes of this type in the last 24 hours.
TypeCheck(f) ==
  /\ pc[f] = "type"
  /\ Goto(f, IF \E p \in ThisDay(logged) : kind[p] = event[f] THEN "idle" ELSE "send")

\* sendApnsPush to every iOS token, delivered to one of them at least ...
Deliver(f) ==
  /\ pc[f] = "send" /\ sent # PushIds
  /\ LET p == CHOOSE p \in PushIds : p \notin sent
     IN /\ sent' = sent \cup {p}
        /\ kind' = [kind EXCEPT ![p] = event[f]]
        /\ age' = [age EXCEPT ![p] = 0]
        /\ push' = [push EXCEPT ![f] = p]
  /\ pc' = [pc EXCEPT ![f] = "record"]
  /\ UNCHANGED <<logged, lost, event, faults>>

\* ... or to none (no iOS device, or every send rejected): nothing is recorded.
Undelivered(f) ==
  /\ pc[f] = "send"
  /\ Goto(f, "idle")

\* recordNotification
RecordNotification(f) ==
  /\ pc[f] = "record"
  /\ logged' = logged \cup {push[f]}
  /\ pc' = [pc EXCEPT ![f] = "idle"]
  /\ event' = [event EXCEPT ![f] = AnyKind]
  /\ push' = [push EXCEPT ![f] = NoPush]
  /\ UNCHANGED <<sent, lost, kind, age, faults>>

\* The insert throws: fanOutPush logs the error, and no row tells of the push.
RecordFails(f) ==
  /\ pc[f] = "record" /\ faults < MaxFaults /\ faults' = faults + 1
  /\ lost' = lost \cup {push[f]}
  /\ pc' = [pc EXCEPT ![f] = "idle"]
  /\ event' = [event EXCEPT ![f] = AnyKind]
  /\ push' = [push EXCEPT ![f] = NoPush]
  /\ UNCHANGED <<sent, logged, kind, age>>

\* The process dies, with pushes delivered that no row tells of.
Crash ==
  /\ faults < MaxFaults /\ faults' = faults + 1
  /\ lost' = lost \cup {push[f] : f \in {g \in Fanouts : pc[g] = "record"}}
  /\ pc' = [f \in Fanouts |-> "idle"]
  /\ event' = [f \in Fanouts |-> AnyKind]
  /\ push' = [f \in Fanouts |-> NoPush]
  /\ UNCHANGED <<sent, logged, kind, age>>

\* Mutant: a row leaves the window a tick late.
TickLate ==
  /\ \A f \in Fanouts : pc[f] = "idle"
  /\ sent' = {p \in sent : age[p] <= WindowTicks}
  /\ logged' = logged \cap sent' /\ lost' = lost \cap sent'
  /\ kind' = [p \in PushIds |-> IF p \in sent' THEN kind[p] ELSE AnyKind]
  /\ age' = [p \in PushIds |-> IF p \in sent' THEN age[p] + 1 ELSE 0]
  /\ UNCHANGED <<fanVars, faults>>

\* Hours pass; what leaves the window leaves the model.
Tick ==
  /\ \A f \in Fanouts : pc[f] = "idle"
  /\ sent' = {p \in sent : age[p] < WindowTicks}
  /\ logged' = logged \cap sent' /\ lost' = lost \cap sent'
  /\ kind' = [p \in PushIds |-> IF p \in sent' THEN kind[p] ELSE AnyKind]
  /\ age' = [p \in PushIds |-> IF p \in sent' THEN age[p] + 1 ELSE 0]
  /\ UNCHANGED <<fanVars, faults>>

Next ==
  \/ \E f \in Fanouts :
       \/ \E k \in Kinds : Dispatch(f, k)
       \/ WindowCheck(f) \/ DayCheck(f) \/ TypeCheck(f)
       \/ Deliver(f) \/ Undelivered(f) \/ RecordNotification(f) \/ RecordFails(f)
  \/ Crash
  \/ Tick

Spec == Init /\ [][Next]_vars

-----------------------------------------------------------------------------
(* What the budget promises *)

\* "Two a week is a promise" (notifications.ts:7): the pushes of a week exceed
\* the cap by the fan-outs that overlap at most, and by those that died or
\* failed between the send and the row. One fan-out at a time that records what
\* it sends keeps it.
TwoAWeek == Cardinality(sent \ lost) <= MaxPerWindow + Cardinality(Fanouts) - 1

\* "the hard daily ceiling" (notifications.ts:17), within the same limits.
OneADay == Cardinality(ThisDay(sent \ lost)) <= MaxPerDay + Cardinality(Fanouts) - 1

=============================================================================
