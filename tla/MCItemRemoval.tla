---------------------------- MODULE MCItemRemoval ----------------------------
(* ItemRemoval for TLC, in two scopes: several Items, no accident and few    *)
(* faults; and one Item that is linked again, all accidents and more faults. *)
EXTENDS ItemRemoval

CONSTANTS
  Lone,      \* the Item that is linked where accidents happen
  FewFaults  \* bound: outages and crashes where none happens

Scope ==
  IF allowed = {} THEN outages' + crashes' <= FewFaults
                  ELSE \A i \in Items \ {Lone} : token'[i] = 0

MCInit == Init /\ allowed \in {{}, Accidents}
MCNext == Next /\ Scope
MCSpec == MCInit /\ [][MCNext]_vars /\ Fairness
=============================================================================
