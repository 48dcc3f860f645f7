--------------------------- MODULE MCAccountsProofs ---------------------------
(***************************************************************************)
(* Proofs about Sessions, KeyRotation and Entitlements as MCAccounts       *)
(* instantiates them, and from them about the sum of the machines: for any *)
(* number of tokens, requests, columns, subscriptions, workers and         *)
(* clients, and for any of the limits.                                     *)
(***************************************************************************)
EXTENDS MCAccounts, AccountsProofs, Sequences, FiniteSetTheorems

-----------------------------------------------------------------------------
(* Sessions: types *)

\* The instance counts as FiniteSets does.
LEMMA SameCount ==
  \A x : S!IsFiniteSet(x) = IsFiniteSet(x) /\ S!Cardinality(x) = Cardinality(x)
BY DEF S!IsFiniteSet, IsFiniteSet, S!Cardinality, Cardinality

Proper(q) == q \in S!Request /\ (q.pc \in {"slide", "act"} => q.token \in Tokens)

\* A request that moves to a proper state keeps req's type.
LEMMA RequestMoved ==
  ASSUME S!TypeOK, NEW r \in Requests, NEW q, Proper(q), S!Becomes(r, q)
  PROVE  /\ req' \in [Requests -> S!Request]
         /\ \A o \in Requests : req'[o].pc \in {"slide", "act"} => req'[o].token \in Tokens
         /\ req'[r] = q /\ \A o \in Requests \ {r} : req'[o] = req[o]
BY DEF S!TypeOK, S!Becomes, Proper

\* The states a handler gives a request.
LEMMA RequestShapes ==
  ASSUME S!TypeOK
  PROVE  /\ Proper(S!Idle) /\ S!Idle.victims = {} /\ S!Idle.pc = "idle"
         /\ Proper([S!Idle EXCEPT !.pc = "insert"]) /\ Proper([S!Idle EXCEPT !.pc = "prune"])
         /\ \A V \in SUBSET Tokens : Proper([S!Idle EXCEPT !.pc = "evict", !.victims = V])
         /\ \A t \in Tokens, p \in S!Purposes :
              Proper([S!Idle EXCEPT !.pc = "slide", !.token = t, !.purpose = p, !.since = clock])
         /\ \A r \in Requests : req[r].pc = "slide" => Proper([req[r] EXCEPT !.pc = "act"])
<1>1. \A r \in Requests :
        req[r] \in S!Request /\ (req[r].pc = "slide" => req[r].token \in Tokens)
  BY DEF S!TypeOK
<1>2. clock \in Nat
  BY DEF S!TypeOK
<1> QED BY <1>1, <1>2 DEF S!Idle, S!Request, S!Purposes, Proper

\* What the statements write.
LEMMA RowsWritten ==
  ASSUME S!SessionsAssumption, S!TypeOK
  PROVE  /\ \A A \in SUBSET Tokens : S!Without(A) \in [Tokens -> S!Row \cup {NoRow}]
         /\ \A t \in Tokens, at \in Nat : S!Slid(t, at) \in [Tokens -> S!Row \cup {NoRow}]
         /\ \A t \in Tokens :
              [sessions EXCEPT ![t] = [created |-> clock, used |-> clock, expires |-> clock + Ttl]]
                    \in [Tokens -> S!Row \cup {NoRow}]
<1>1. ASSUME NEW A \in SUBSET Tokens
      PROVE  S!Without(A) \in [Tokens -> S!Row \cup {NoRow}]
  BY DEF S!Without, S!TypeOK
<1>2. ASSUME NEW t \in Tokens, NEW at \in Nat
      PROVE  S!Slid(t, at) \in [Tokens -> S!Row \cup {NoRow}]
  <2>1. sessions[t] # NoRow =>
              [created |-> sessions[t].created, used |-> at, expires |-> at + Ttl] \in S!Row
    BY DEF S!TypeOK, S!Row, S!SessionsAssumption
  <2> QED BY <2>1 DEF S!Slid, S!TypeOK
<1>3. [created |-> clock, used |-> clock, expires |-> clock + Ttl] \in S!Row
  BY DEF S!TypeOK, S!Row, S!SessionsAssumption
<1> QED BY <1>1, <1>2, <1>3 DEF S!TypeOK

LEMMA SessionTypeStep ==
  ASSUME S!SessionsAssumption, S!TypeOK, [S!Next]_S!vars
  PROVE  S!TypeOK'
<1>1. ASSUME NEW r \in Requests, S!SignIn(r)
      PROVE  S!TypeOK'
  BY <1>1, RequestMoved, RequestShapes DEF S!SignIn, S!TypeOK
<1>2. ASSUME NEW r \in Requests, S!Create(r)
      PROVE  S!TypeOK'
  <2>1. sessions' \in [Tokens -> S!Row \cup {NoRow}] /\ minted' \subseteq Tokens
    BY <1>2, RowsWritten DEF S!Create, S!TypeOK
  <2>2. CASE S!Becomes(r, S!Idle)
    BY <1>2, <2>1, <2>2, RequestMoved, RequestShapes DEF S!Create, S!TypeOK
  <2>3. CASE S!Becomes(r, [S!Idle EXCEPT !.pc = "prune"])
    BY <1>2, <2>1, <2>3, RequestMoved, RequestShapes DEF S!Create, S!TypeOK
  <2> QED BY <1>2, <2>2, <2>3 DEF S!Create
<1>3. ASSUME NEW r \in Requests, S!Prune(r)
      PROVE  S!TypeOK'
  <2>1. PICK V \in SUBSET S!Live :
          S!Becomes(r, IF V = {} THEN S!Idle ELSE [S!Idle EXCEPT !.pc = "evict", !.victims = V])
    BY <1>3 DEF S!Prune
  <2>2. V \in SUBSET Tokens
    BY DEF S!Live
  <2>3. Proper(IF V = {} THEN S!Idle ELSE [S!Idle EXCEPT !.pc = "evict", !.victims = V])
    BY <2>2, RequestShapes
  <2> QED BY <1>3, <2>1, <2>3, RequestMoved DEF S!Prune, S!TypeOK
<1>4. ASSUME NEW r \in Requests, S!Evict(r)
      PROVE  S!TypeOK'
  <2>1. req[r].victims \in SUBSET Tokens
    BY DEF S!TypeOK, S!Request
  <2> QED BY <1>4, <2>1, RequestMoved, RequestShapes, RowsWritten DEF S!Evict, S!TypeOK
<1>5. ASSUME NEW r \in Requests, S!Validate(r)
      PROVE  S!TypeOK'
  <2>1. PICK t \in S!Live, p \in S!Purposes :
          \/ sessions' = S!Without({t}) /\ UNCHANGED req
          \/ /\ UNCHANGED sessions
             /\ S!Becomes(r, [S!Idle EXCEPT !.pc = "slide", !.token = t, !.purpose = p,
                                            !.since = clock])
    BY <1>5 DEF S!Validate
  <2>2. t \in Tokens /\ {t} \in SUBSET Tokens
    BY DEF S!Live
  <2>3. CASE sessions' = S!Without({t}) /\ UNCHANGED req
    BY <1>5, <2>2, <2>3, RowsWritten DEF S!Validate, S!TypeOK
  <2>4. CASE /\ UNCHANGED sessions
             /\ S!Becomes(r, [S!Idle EXCEPT !.pc = "slide", !.token = t, !.purpose = p,
                                            !.since = clock])
    BY <1>5, <2>2, <2>4, RequestMoved, RequestShapes DEF S!Validate, S!TypeOK
  <2> QED BY <2>1, <2>3, <2>4
<1>6. ASSUME NEW r \in Requests, S!Slide(r)
      PROVE  S!TypeOK'
  <2>1. req[r].since \in Nat /\ req[r].token \in Tokens
    BY <1>6 DEF S!Slide, S!TypeOK, S!Request
  <2>2. Proper(IF req[r].purpose = "read" THEN S!Idle ELSE [req[r] EXCEPT !.pc = "act"])
    BY <1>6, RequestShapes DEF S!Slide
  <2> QED BY <1>6, <2>1, <2>2, RequestMoved, RowsWritten DEF S!Slide, S!TypeOK
<1>7. ASSUME NEW r \in Requests, S!RevokeOthers(r) \/ S!DeleteUser(r)
      PROVE  S!TypeOK'
  <2>1. Tokens \ {req[r].token} \in SUBSET Tokens /\ Tokens \in SUBSET Tokens
    OBVIOUS
  <2>2. sessions' \in [Tokens -> S!Row \cup {NoRow}]
    BY <1>7, <2>1, RowsWritten DEF S!RevokeOthers, S!DeleteUser
  <2> QED BY <1>7, <2>2, RequestMoved, RequestShapes DEF S!RevokeOthers, S!DeleteUser, S!TypeOK
<1>8. ASSUME NEW A \in SUBSET Tokens, sessions' = S!Without(A), UNCHANGED <<clock, alive, minted, req>>
      PROVE  S!TypeOK'
  BY <1>8, RowsWritten DEF S!TypeOK
<1>10. CASE S!Logout \/ S!Purge
  <2>1. \A t \in S!Live : {t} \in SUBSET Tokens
    BY DEF S!Live
  <2>2. S!Expired \in SUBSET Tokens
    BY DEF S!Expired, S!Live
  <2> QED BY <1>8, <1>10, <2>1, <2>2 DEF S!Logout, S!Purge
<1>11. CASE S!Tick
  BY <1>11 DEF S!Tick, S!TypeOK
<1>9. CASE UNCHANGED S!vars
  BY <1>9 DEF S!vars, S!TypeOK
<1> QED BY <1>1, <1>2, <1>3, <1>4, <1>5, <1>6, <1>7, <1>9, <1>10, <1>11
       DEF S!Next, S!RequestStep

-----------------------------------------------------------------------------
(* Sessions: the cap *)

\* Rows that are left when the requests of E, which have chosen theirs, have deleted them.
LeftBy(F) == {t \in S!Live : \A r \in F : t \notin req[r].victims}
Chosen(F) == \A r \in F : req[r].pc = "evict"

\* Whichever of the waiting deletions are carried out first, the rest of the rows are within
\* the cap but for one row per sign-in that would still be unfinished. CapHolds is the case
\* of none; a request that deletes leaves the case it was part of behind.
CapInv ==
  \A F \in SUBSET Requests :
    Chosen(F) => Cardinality(LeftBy(F)) <= MaxSessions + Cardinality(S!Pruning \ F)

LEMMA CapFinite ==
  ASSUME S!SessionsAssumption, NEW F \in SUBSET Requests
  PROVE  /\ IsFiniteSet(LeftBy(F)) /\ IsFiniteSet(S!Pruning \ F)
         /\ Cardinality(LeftBy(F)) \in Nat /\ Cardinality(S!Pruning \ F) \in Nat
         /\ MaxSessions \in Nat
<1>1. LeftBy(F) \in SUBSET Tokens /\ S!Pruning \ F \in SUBSET Requests
  BY DEF LeftBy, S!Live, S!Pruning
<1> QED BY <1>1, SameCount, FS_Subset, FS_CardinalityType DEF S!SessionsAssumption

\* Fewer rows and no sign-in further on.
LEMMA FewerRows ==
  ASSUME S!SessionsAssumption, S!TypeOK, CapInv, S!Live' \subseteq S!Live,
         \A r \in Requests : \/ req'[r].pc = req[r].pc /\ req'[r].victims = req[r].victims
                            \/ {req[r].pc, req'[r].pc} \cap {"prune", "evict"} = {}
  PROVE  CapInv'
<1> SUFFICES ASSUME NEW F \in SUBSET Requests, Chosen(F)'
             PROVE  Cardinality(LeftBy(F)') <= MaxSessions + Cardinality((S!Pruning \ F)')
  BY DEF CapInv
<1>1. S!Pruning' = S!Pruning
  BY DEF S!Pruning
<1>2. Chosen(F) /\ \A r \in F : req'[r].victims = req[r].victims
  BY DEF Chosen
<1>3. LeftBy(F)' \in SUBSET LeftBy(F)
  BY <1>2 DEF LeftBy
<1>4. Cardinality(LeftBy(F)') <= Cardinality(LeftBy(F)) /\ Cardinality(LeftBy(F)') \in Nat
  BY <1>3, CapFinite, FS_Subset, FS_CardinalityType
<1>5. (S!Pruning \ F)' = S!Pruning \ F
  BY <1>1
<1>6. Cardinality(LeftBy(F)) <= MaxSessions + Cardinality(S!Pruning \ F)
  BY <1>2 DEF CapInv
<1>7. /\ Cardinality(LeftBy(F)) \in Nat /\ Cardinality(S!Pruning \ F) \in Nat
      /\ MaxSessions \in Nat
  BY CapFinite
<1> DEFINE n == Cardinality(LeftBy(F)')   m == Cardinality(S!Pruning \ F)
<1>8. n <= MaxSessions + m
  BY <1>4, <1>6, <1>7
<1>9. m = Cardinality((S!Pruning \ F)')
  BY <1>5
<1> QED BY <1>8, <1>9

\* A sign-in adds a row and is unfinished itself.
LEMMA CreateStep ==
  ASSUME S!SessionsAssumption, S!TypeOK, CapInv, NEW r \in Requests, S!Create(r)
  PROVE  CapInv'
<1>1. CASE S!Becomes(r, S!Idle) /\ UNCHANGED sessions
  BY <1>1, FewerRows, RequestMoved, RequestShapes DEF S!Create, S!Live
<1>2. ASSUME NEW t \in Tokens, NEW fresh, sessions' = [sessions EXCEPT ![t] = fresh],
             S!Becomes(r, [S!Idle EXCEPT !.pc = "prune"])
      PROVE  CapInv'
  <2>1. S!Live' \subseteq S!Live \cup {t}
    BY <1>2 DEF S!Live, S!TypeOK
  <2>0. Proper([S!Idle EXCEPT !.pc = "prune"]) /\ [S!Idle EXCEPT !.pc = "prune"].pc = "prune"
    BY RequestShapes DEF S!Idle
  <2>2. /\ req'[r].pc = "prune" /\ req[r].pc = "insert"
        /\ \A o \in Requests \ {r} : req'[o] = req[o]
    BY <1>2, <2>0, RequestMoved DEF S!Create
  <2> SUFFICES ASSUME NEW F \in SUBSET Requests, Chosen(F)'
               PROVE  Cardinality(LeftBy(F)') <= MaxSessions + Cardinality((S!Pruning \ F)')
    BY DEF CapInv
  <2>3. r \notin F /\ Chosen(F) /\ \A o \in F : req'[o].victims = req[o].victims
    BY <2>2 DEF Chosen
  <2>4. LeftBy(F)' \in SUBSET (LeftBy(F) \cup {t})
    BY <2>1, <2>3 DEF LeftBy
  <2>5. (S!Pruning \ F)' = (S!Pruning \ F) \cup {r} /\ r \notin S!Pruning \ F
    BY <2>2, <2>3 DEF S!Pruning
  <2> DEFINE n == Cardinality(LeftBy(F))   m == Cardinality(S!Pruning \ F)
  <2>6. n \in Nat /\ m \in Nat /\ MaxSessions \in Nat /\ n <= MaxSessions + m
    BY <2>3, CapFinite DEF CapInv
  <2>7. /\ IsFiniteSet(LeftBy(F) \cup {t}) /\ Cardinality(LeftBy(F) \cup {t}) \in Nat
        /\ Cardinality(LeftBy(F) \cup {t}) <= n + 1
    <3>1. IsFiniteSet(LeftBy(F) \cup {t}) /\ Cardinality(LeftBy(F) \cup {t}) \in {n, n + 1}
      BY CapFinite, FS_AddElement
    <3> QED BY <3>1, <2>6
  <2>8. Cardinality(LeftBy(F)') <= n + 1 /\ Cardinality(LeftBy(F)') \in Nat
    BY <2>4, <2>6, <2>7, FS_Subset, FS_CardinalityType
  <2>9. Cardinality((S!Pruning \ F)') = m + 1
    BY <2>5, CapFinite, FS_AddElement
  <2> HIDE DEF n, m
  <2> QED BY <2>6, <2>8, <2>9
<1> QED BY <1>1, <1>2 DEF S!Create

\* A choice of rows counts them, so what it leaves is within the cap whatever else waits.
LEMMA PruneStep ==
  ASSUME S!SessionsAssumption, S!TypeOK, CapInv, NEW r \in Requests, S!Prune(r)
  PROVE  CapInv'
<1>1. PICK V \in SUBSET S!Live :
        /\ S!Excess(V)
        /\ S!Becomes(r, IF V = {} THEN S!Idle ELSE [S!Idle EXCEPT !.pc = "evict", !.victims = V])
  BY DEF S!Prune
<1>2. V \in SUBSET Tokens /\ S!Live' = S!Live /\ req[r].pc = "prune"
  BY DEF S!Live, S!Prune
<1>3. /\ V = {} => req'[r].pc = "idle"
      /\ V # {} => req'[r].pc = "evict" /\ req'[r].victims = V
      /\ \A o \in Requests \ {r} : req'[o] = req[o]
  <2>1. CASE V = {}
    BY <1>1, <2>1, RequestMoved, RequestShapes
  <2>2. CASE V # {}
    <3>1. S!Becomes(r, [S!Idle EXCEPT !.pc = "evict", !.victims = V])
      BY <1>1, <2>2
    <3>2. Proper([S!Idle EXCEPT !.pc = "evict", !.victims = V])
      BY <1>2, RequestShapes
    <3>3. req'[r] = [S!Idle EXCEPT !.pc = "evict", !.victims = V]
      BY <3>1, <3>2, RequestMoved
    <3> QED BY <2>2, <3>1, <3>2, <3>3, RequestMoved DEF S!Idle
  <2> QED BY <2>1, <2>2
<1>4. IsFiniteSet(S!Live) /\ Cardinality(S!Live) \in Nat /\ MaxSessions \in Nat
  BY SameCount, FS_Subset, FS_CardinalityType DEF S!Live, S!SessionsAssumption
<1>5. /\ V = {} => Cardinality(S!Live) <= MaxSessions
      /\ V # {} => Cardinality(S!Live \ V) = MaxSessions
  BY <1>1, <1>4, SameCount DEF S!Excess
<1> SUFFICES ASSUME NEW F \in SUBSET Requests, Chosen(F)'
             PROVE  Cardinality(LeftBy(F)') <= MaxSessions + Cardinality((S!Pruning \ F)')
  BY DEF CapInv
<1>6. Cardinality((S!Pruning \ F)') \in Nat
  <2>1. (S!Pruning \ F)' \in SUBSET Requests
    BY DEF S!Pruning
  <2> QED BY <2>1, SameCount, FS_Subset, FS_CardinalityType DEF S!SessionsAssumption
<1>7. CASE V = {}
  <2>1. LeftBy(F)' \in SUBSET S!Live
    BY <1>2 DEF LeftBy
  <2>2. Cardinality(LeftBy(F)') <= Cardinality(S!Live) /\ Cardinality(LeftBy(F)') \in Nat
    BY <2>1, <1>4, FS_Subset, FS_CardinalityType
  <2> QED BY <2>2, <1>4, <1>5, <1>6, <1>7
<1>8. CASE V # {} /\ r \in F
  <2>1. LeftBy(F)' \in SUBSET (S!Live \ V)
    BY <1>2, <1>3, <1>8 DEF LeftBy
  <2>2. IsFiniteSet(S!Live \ V)
    BY <1>4, FS_Difference
  <2>3. Cardinality(LeftBy(F)') <= MaxSessions /\ Cardinality(LeftBy(F)') \in Nat
    BY <2>1, <2>2, <1>5, <1>8, FS_Subset, FS_CardinalityType
  <2> QED BY <2>3, <1>4, <1>6
<1>9. CASE V # {} /\ r \notin F
  <2>1. Chosen(F) /\ \A o \in F : req'[o].victims = req[o].victims
    BY <1>3, <1>9 DEF Chosen
  <2>2. LeftBy(F)' = LeftBy(F)
    BY <1>2, <2>1 DEF LeftBy
  <2>3. (S!Pruning \ F)' = S!Pruning \ F
    BY <1>2, <1>3, <1>9 DEF S!Pruning
  <2> QED BY <2>1, <2>2, <2>3 DEF CapInv
<1> QED BY <1>7, <1>8, <1>9

\* A deletion carried out was one of those considered.
LEMMA EvictStep ==
  ASSUME S!SessionsAssumption, S!TypeOK, CapInv, NEW r \in Requests, S!Evict(r)
  PROVE  CapInv'
<1>1. /\ req'[r].pc = "idle" /\ req[r].pc = "evict"
      /\ \A o \in Requests \ {r} : req'[o] = req[o]
  BY RequestMoved, RequestShapes DEF S!Evict
<1>2. S!Live' = {t \in S!Live : t \notin req[r].victims}
  BY DEF S!Evict, S!Without, S!Live
<1> SUFFICES ASSUME NEW F \in SUBSET Requests, Chosen(F)'
             PROVE  Cardinality(LeftBy(F)') <= MaxSessions + Cardinality((S!Pruning \ F)')
  BY DEF CapInv
<1>3. r \notin F /\ \A o \in F : req'[o] = req[o]
  BY <1>1 DEF Chosen
<1>4. Chosen(F \cup {r}) /\ F \cup {r} \in SUBSET Requests
  BY <1>1, <1>3 DEF Chosen
<1>5. LeftBy(F)' = LeftBy(F \cup {r})
  BY <1>2, <1>3 DEF LeftBy
<1>6. (S!Pruning \ F)' = S!Pruning \ (F \cup {r})
  BY <1>1 DEF S!Pruning
<1> QED BY <1>4, <1>5, <1>6 DEF CapInv

LEMMA CapStep ==
  ASSUME S!SessionsAssumption, S!TypeOK, CapInv, [S!Next]_S!vars
  PROVE  CapInv'
<1>1. ASSUME NEW r \in Requests, S!SignIn(r)
      PROVE  CapInv'
  <2>1. Proper([S!Idle EXCEPT !.pc = "insert"]) /\ [S!Idle EXCEPT !.pc = "insert"].pc = "insert"
    BY RequestShapes DEF S!Idle
  <2> QED BY <1>1, <2>1, FewerRows, RequestMoved DEF S!SignIn, S!Live
<1>2. ASSUME NEW r \in Requests, S!Create(r) \/ S!Prune(r) \/ S!Evict(r)
      PROVE  CapInv'
  BY <1>2, CreateStep, PruneStep, EvictStep
<1>3. ASSUME NEW r \in Requests, S!Validate(r)
      PROVE  CapInv'
  <2>1. S!Live' \subseteq S!Live
    BY <1>3 DEF S!Validate, S!Without, S!Live
  <2>2. PICK t \in S!Live, p \in S!Purposes :
          \/ UNCHANGED req
          \/ S!Becomes(r, [S!Idle EXCEPT !.pc = "slide", !.token = t, !.purpose = p, !.since = clock])
    BY <1>3 DEF S!Validate
  <2> DEFINE q == [S!Idle EXCEPT !.pc = "slide", !.token = t, !.purpose = p, !.since = clock]
  <2>3. Proper(q) /\ q.pc = "slide"
    BY RequestShapes DEF S!Idle, S!Live
  <2>4. CASE UNCHANGED req
    BY <2>1, <2>4, FewerRows
  <2>5. CASE S!Becomes(r, q)
    <3> HIDE DEF q
    <3>1. req'[r].pc = "slide" /\ \A o \in Requests \ {r} : req'[o] = req[o]
      BY <2>3, <2>5, RequestMoved
    <3>2. req[r].pc = "idle"
      BY <1>3 DEF S!Validate
    <3> QED BY <2>1, <3>1, <3>2, FewerRows
  <2> QED BY <2>2, <2>4, <2>5
<1>4. ASSUME NEW r \in Requests, S!Slide(r)
      PROVE  CapInv'
  <2> DEFINE q == IF req[r].purpose = "read" THEN S!Idle ELSE [req[r] EXCEPT !.pc = "act"]
  <2>1. S!Live' \subseteq S!Live
    BY <1>4 DEF S!Slide, S!Slid, S!Live, S!TypeOK
  <2>2. Proper(q) /\ q.pc \in {"idle", "act"}
    BY <1>4, RequestShapes DEF S!Slide, S!TypeOK, S!Request
  <2>3. S!Becomes(r, q) /\ req[r].pc = "slide"
    BY <1>4 DEF S!Slide
  <2> HIDE DEF q
  <2>4. req'[r].pc \in {"idle", "act"} /\ \A o \in Requests \ {r} : req'[o] = req[o]
    BY <2>2, <2>3, RequestMoved
  <2> QED BY <2>1, <2>3, <2>4, FewerRows
<1>5. ASSUME NEW r \in Requests, S!RevokeOthers(r) \/ S!DeleteUser(r)
      PROVE  CapInv'
  <2>1. S!Live' \subseteq S!Live
    BY <1>5 DEF S!RevokeOthers, S!DeleteUser, S!Without, S!Live
  <2>2. /\ req[r].pc = "act" /\ req'[r].pc = "idle"
        /\ \A o \in Requests \ {r} : req'[o] = req[o]
    BY <1>5, RequestMoved, RequestShapes DEF S!RevokeOthers, S!DeleteUser
  <2> QED BY <2>1, <2>2, FewerRows
<1>6. CASE S!Logout \/ S!Purge \/ S!Tick \/ UNCHANGED S!vars
  <2>1. S!Live' \subseteq S!Live /\ UNCHANGED req
    BY <1>6 DEF S!Logout, S!Purge, S!Expired, S!Tick, S!vars, S!Without, S!Live
  <2> QED BY <2>1, FewerRows
<1> QED BY <1>1, <1>2, <1>3, <1>4, <1>5, <1>6 DEF S!Next, S!RequestStep

LEMMA CapInit ==
  ASSUME S!SessionsAssumption, S!Init
  PROVE  CapInv
<1>1. S!Init => S!TypeOK
  BY DEF S!SessionsAssumption, S!Init, S!TypeOK, S!Request, S!Idle, S!Purposes
<1> SUFFICES ASSUME NEW F \in SUBSET Requests
             PROVE  Cardinality(LeftBy(F)) <= MaxSessions + Cardinality(S!Pruning \ F)
  BY DEF CapInv
<1>2. LeftBy(F) = {}
  BY DEF LeftBy, S!Live, S!Init
<1>3. Cardinality(LeftBy(F)) = 0
  BY <1>2, FS_EmptySet
<1>4. Cardinality(S!Pruning \ F) \in Nat /\ MaxSessions \in Nat
  BY CapFinite
<1> QED BY <1>3, <1>4

LEMMA CapFollows ==
  ASSUME S!SessionsAssumption, CapInv
  PROVE  S!CapHolds
<1>1. LeftBy({}) = S!Live /\ S!Pruning \ {} = S!Pruning /\ Chosen({})
  BY DEF LeftBy, Chosen
<1> QED BY <1>1, SameCount DEF CapInv, S!CapHolds

-----------------------------------------------------------------------------
(* Sessions: the age *)

\* A use in flight was accepted while the session was within its absolute life; the row it
\* read may be gone, but no other row has its token.
UseInv ==
  \A r \in Requests : req[r].pc = "slide" =>
    /\ req[r].token \in minted
    /\ sessions[req[r].token] # NoRow => req[r].since <= sessions[req[r].token].created + AbsoluteMax

\* Only a minted token has a row.
MintedInv == S!Live \subseteq minted

LEMMA AgeStep ==
  ASSUME S!SessionsAssumption, S!NoRowAssumption, S!TypeOK, UseInv, MintedInv,
         S!BoundedLife, [S!Next]_S!vars
  PROVE  UseInv' /\ MintedInv' /\ S!BoundedLife'
<1>0. S!TypeOK' /\ AbsoluteMax \in Nat /\ Ttl \in Nat
  BY SessionTypeStep DEF S!SessionsAssumption
<1>1. ASSUME minted' = minted, \A t \in S!Live' : t \in S!Live /\ sessions'[t] = sessions[t],
             \A o \in Requests : req'[o] = req[o] \/ req'[o].pc # "slide"
      PROVE  UseInv' /\ MintedInv' /\ S!BoundedLife'
  <2>1. MintedInv' /\ S!BoundedLife'
    BY <1>1 DEF MintedInv, S!BoundedLife
  <2>2. UseInv'
    BY <1>0, <1>1 DEF UseInv, S!TypeOK, S!Live
  <2> QED BY <2>1, <2>2
<1>2. ASSUME NEW r \in Requests,
             S!SignIn(r) \/ S!Prune(r) \/ S!Evict(r) \/ S!RevokeOthers(r) \/ S!DeleteUser(r)
      PROVE  UseInv' /\ MintedInv' /\ S!BoundedLife'
  <2>1. req'[r].pc # "slide" /\ \A o \in Requests \ {r} : req'[o] = req[o]
    <3>1. CASE S!SignIn(r)
      BY <3>1 DEF S!SignIn, S!Becomes, S!Idle, S!TypeOK
    <3>2. CASE S!Prune(r)
      BY <3>2 DEF S!Prune, S!Becomes, S!Idle, S!TypeOK
    <3>3. CASE S!Evict(r) \/ S!RevokeOthers(r) \/ S!DeleteUser(r)
      BY <3>3 DEF S!Evict, S!RevokeOthers, S!DeleteUser, S!Becomes, S!Idle, S!TypeOK
    <3> QED BY <1>2, <3>1, <3>2, <3>3
  <2>2. minted' = minted /\ \A t \in S!Live' : t \in S!Live /\ sessions'[t] = sessions[t]
    <3>1. CASE S!SignIn(r) \/ S!Prune(r)
      BY <3>1 DEF S!SignIn, S!Prune, S!Live
    <3>2. CASE S!Evict(r) \/ S!RevokeOthers(r) \/ S!DeleteUser(r)
      BY <3>2 DEF S!Evict, S!RevokeOthers, S!DeleteUser, S!Without, S!Live
    <3> QED BY <1>2, <3>1, <3>2
  <2> QED BY <1>1, <2>1, <2>2
<1>3. ASSUME NEW r \in Requests, S!Create(r)
      PROVE  UseInv' /\ MintedInv' /\ S!BoundedLife'
  <2>1. req'[r].pc # "slide" /\ \A o \in Requests \ {r} : req'[o] = req[o]
    BY <1>3 DEF S!Create, S!Becomes, S!Idle, S!TypeOK
  <2>2. CASE UNCHANGED <<sessions, minted>>
    BY <1>1, <2>1, <2>2 DEF S!Live
  <2>3. ASSUME NEW t \in Tokens \ minted, minted' = minted \cup {t},
               sessions' = [sessions EXCEPT ![t] =
                              [created |-> clock, used |-> clock, expires |-> clock + Ttl]]
        PROVE  UseInv' /\ MintedInv' /\ S!BoundedLife'
    <3>1. /\ sessions'[t] = [created |-> clock, used |-> clock, expires |-> clock + Ttl]
          /\ \A k \in Tokens \ {t} : sessions'[k] = sessions[k]
      BY <2>3 DEF S!TypeOK
    <3>2. MintedInv' /\ S!BoundedLife'
      BY <1>0, <2>3, <3>1 DEF MintedInv, S!BoundedLife, S!Live, S!TypeOK
    <3>3. UseInv'
      BY <2>1, <2>3, <3>1 DEF UseInv, S!TypeOK
    <3> QED BY <3>2, <3>3
  <2> QED BY <1>3, <2>2, <2>3 DEF S!Create
<1>4. ASSUME NEW r \in Requests, S!Validate(r)
      PROVE  UseInv' /\ MintedInv' /\ S!BoundedLife'
  <2>1. PICK t \in S!Live, p \in S!Purposes :
          \/ sessions' = S!Without({t}) /\ UNCHANGED req
          \/ /\ UNCHANGED sessions /\ ~(clock - sessions[t].created > AbsoluteMax)
             /\ S!Becomes(r, [S!Idle EXCEPT !.pc = "slide", !.token = t, !.purpose = p,
                                            !.since = clock])
    BY <1>4 DEF S!Validate
  <2>2. CASE sessions' = S!Without({t}) /\ UNCHANGED req
    BY <1>1, <1>4, <2>2 DEF S!Validate, S!Without, S!Live
  <2>3. CASE /\ UNCHANGED sessions /\ ~(clock - sessions[t].created > AbsoluteMax)
             /\ S!Becomes(r, [S!Idle EXCEPT !.pc = "slide", !.token = t, !.purpose = p,
                                            !.since = clock])
    <3>1. req'[r].token = t /\ req'[r].since = clock /\ \A o \in Requests \ {r} : req'[o] = req[o]
      BY <2>3 DEF S!Becomes, S!Idle, S!TypeOK
    <3>2. clock \in Nat /\ t \in minted /\ sessions[t].created \in Nat
      BY DEF S!TypeOK, MintedInv, S!Live, S!Row
    <3>3. clock <= sessions[t].created + AbsoluteMax
      BY <1>0, <2>3, <3>2
    <3>4. UNCHANGED <<sessions, minted>>
      BY <1>4, <2>3 DEF S!Validate
    <3> QED BY <3>1, <3>2, <3>3, <3>4 DEF UseInv, MintedInv, S!BoundedLife, S!Live
  <2> QED BY <2>1, <2>2, <2>3
<1>5. ASSUME NEW r \in Requests, S!Slide(r)
      PROVE  UseInv' /\ MintedInv' /\ S!BoundedLife'
  <2> DEFINE t == req[r].token   at == req[r].since
  <2>1. t \in Tokens /\ at \in Nat /\ minted' = minted
    BY <1>5 DEF S!Slide, S!TypeOK, S!Request
  <2>2. req'[r].pc # "slide" /\ \A o \in Requests \ {r} : req'[o] = req[o]
    BY <1>5 DEF S!Slide, S!Becomes, S!Idle, S!TypeOK, S!Request
  <2>3. CASE sessions[t] = NoRow
    BY <1>1, <1>5, <2>1, <2>2, <2>3 DEF S!Slide, S!Slid, S!Live
  <2>4. CASE sessions[t] # NoRow
    <3>1. /\ sessions'[t] = [created |-> sessions[t].created, used |-> at, expires |-> at + Ttl]
          /\ \A k \in Tokens \ {t} : sessions'[k] = sessions[k]
      BY <1>5, <2>1, <2>4 DEF S!Slide, S!Slid, S!TypeOK
    <3>2. at <= sessions[t].created + AbsoluteMax /\ sessions[t].created \in Nat
      BY <1>5, <2>4 DEF S!Slide, UseInv, S!TypeOK, S!Row
    <3>3. S!BoundedLife'
      BY <1>0, <2>1, <3>1, <3>2 DEF S!BoundedLife, S!Live
    <3>4. MintedInv'
      BY <2>1, <2>4, <3>1 DEF MintedInv, S!Live
    <3>5. UseInv'
      BY <2>1, <2>2, <2>4, <3>1 DEF UseInv, S!TypeOK
    <3> QED BY <3>3, <3>4, <3>5
  <2> QED BY <2>3, <2>4
<1>6. CASE S!Logout \/ S!Purge \/ S!Tick \/ UNCHANGED S!vars
  BY <1>1, <1>6 DEF S!Logout, S!Purge, S!Expired, S!Tick, S!vars, S!Without, S!Live
<1> QED BY <1>2, <1>3, <1>4, <1>5, <1>6 DEF S!Next, S!RequestStep

-----------------------------------------------------------------------------
(* Sessions: what ended *)

LEMMA NothingReturns ==
  ASSUME S!TypeOK, [S!Next]_S!vars
  PROVE  [\A t \in minted : sessions[t] = NoRow => sessions'[t] = NoRow]_S!vars
<1> DEFINE Ended == \A t \in minted : sessions[t] = NoRow => sessions'[t] = NoRow
<1> SUFFICES ASSUME S!Next PROVE Ended
  OBVIOUS
<1>1. ASSUME NEW A \in SUBSET Tokens, sessions' = S!Without(A)
      PROVE  Ended
  BY <1>1 DEF S!Without, S!TypeOK
<1>2. ASSUME NEW r \in Requests, S!Create(r) PROVE Ended
  BY <1>2 DEF S!Create, S!TypeOK
<1>3. ASSUME NEW r \in Requests, S!Slide(r) PROVE Ended
  BY <1>3 DEF S!Slide, S!Slid, S!TypeOK
<1>4. ASSUME NEW r \in Requests, S!SignIn(r) \/ S!Prune(r) PROVE Ended
  BY <1>4 DEF S!SignIn, S!Prune
<1>5. ASSUME NEW r \in Requests, S!Evict(r) \/ S!RevokeOthers(r) \/ S!DeleteUser(r) PROVE Ended
  BY <1>5 DEF S!Evict, S!RevokeOthers, S!DeleteUser, S!Without, S!TypeOK
<1>6. ASSUME NEW r \in Requests, S!Validate(r) PROVE Ended
  BY <1>6 DEF S!Validate, S!Without, S!TypeOK
<1>7. CASE S!Logout \/ S!Purge \/ S!Tick
  BY <1>7 DEF S!Logout, S!Purge, S!Tick, S!Without, S!TypeOK
<1> QED BY <1>2, <1>3, <1>4, <1>5, <1>6, <1>7 DEF S!Next, S!RequestStep

-----------------------------------------------------------------------------
(* KeyRotation *)

\* The active key decrypts, and so does whatever the sweep lists. An override keeps a plain
\* merchant only under its bare key.
KeysInv ==
  /\ active \in ring
  /\ \A c \in Targets : K!Decrypts(cells[c])
  /\ \A f \in K!Stored : IF f = K!Bare THEN overrides[f].name = Null ELSE overrides[f].name \in ring

\* No older key is needed for a column, or for an override.
Settled(c) == cells[c] \in {active, K!Plain, Null}
OverridesSettled == \A f \in K!Stored : f = K!Bare \/ (f = K!Current /\ overrides[f].name = active)

\* A sweep that has rewritten nothing has found settled whatever it has read, but for the row
\* it is about to rewrite.
SweepInv ==
  job.kind = "sweep" /\ ~job.moved =>
    /\ \A c \in Targets \ job.todo : c = job.column \/ Settled(c)
    /\ K!OverrideTable \notin job.todo /\ job.rows = {} => OverridesSettled

\* After such a sweep, requests and later scripts leave it so until the next rotation.
LeftClean == clean => OverridesSettled /\ \A c \in Targets : Settled(c)

KInv == K!TypeOK /\ KeysInv /\ SweepInv /\ LeftClean

LEMMA Keys ==
  ASSUME K!KeyRotationAssumption, K!TypeOK
  PROVE  /\ K!Bare \in K!Forms /\ K!Current \in K!Forms /\ K!Current # K!Bare
         /\ active \in Nat /\ active # Null /\ Null # K!Plain /\ K!Plain \in Nat
         /\ K!NoJob \in K!Job /\ K!OverrideTable \notin Targets /\ Targets \subseteq Columns
         /\ Null \notin Categories /\ K!Versions \subseteq Nat
         /\ active \in K!Versions
<1>1. active \in K!Versions /\ K!Versions \subseteq Nat
  BY DEF K!TypeOK, K!Versions, K!KeyRotationAssumption
<1>2. K!Bare \in K!Forms /\ K!Current \in K!Forms /\ K!Current # K!Bare
  BY <1>1 DEF K!Bare, K!Forms, K!Current
<1>3. K!NoJob \in K!Job
  BY DEF K!NoJob, K!Job
<1> QED BY <1>1, <1>2, <1>3 DEF K!KeyRotationAssumption, K!Plain

\* Steps of requests and scripts that leave the keys and the job's progress alone: they write
\* cells under the active key, and overrides under it or none.
LEMMA KeyWriteStep ==
  ASSUME K!KeyRotationAssumption, KInv, K!TypeOK', UNCHANGED <<active, ring, clean>>,
         \A c \in Targets : cells'[c] = cells[c] \/ cells'[c] = active,
         \A f \in K!Forms :
           \/ overrides'[f] = overrides[f] \/ overrides'[f] = Null
           \/ /\ f = K!Current
              /\ \/ overrides'[f].name = active
                 \/ overrides[f] # Null /\ overrides'[f].name = overrides[f].name
  PROVE  /\ KeysInv' /\ LeftClean'
         /\ \A c \in Targets : Settled(c) => Settled(c)'
         /\ OverridesSettled => OverridesSettled'
<1>1. /\ K!Bare \in K!Forms /\ K!Current \in K!Forms /\ K!Current # K!Bare /\ K!Current' = K!Current
  BY Keys DEF KInv, K!Current
<1>2. \A c \in Targets : Settled(c) => Settled(c)'
  BY DEF Settled
<1>3. OverridesSettled => OverridesSettled'
  BY <1>1 DEF OverridesSettled, K!Stored
<1>4. KeysInv'
  BY <1>1 DEF KInv, KeysInv, K!Decrypts, K!Stored
<1> QED BY <1>2, <1>3, <1>4 DEF KInv, LeftClean

LEMMA KeyTypeStep ==
  ASSUME K!KeyRotationAssumption, K!TypeOK, [K!Next]_K!vars
  PROVE  K!TypeOK'
<1>0. /\ K!Bare \in K!Forms /\ K!Current \in K!Forms /\ active \in K!Versions /\ K!NoJob \in K!Job
      /\ Targets \subseteq Columns /\ Backfilled \subseteq Columns
  BY Keys DEF K!KeyRotationAssumption
<1>1. ASSUME NEW c \in Columns, K!Write(c)
      PROVE  K!TypeOK'
  BY <1>0, <1>1 DEF K!Write, K!TypeOK, K!Written
<1>2. ASSUME NEW c \in Columns, K!ReadTable(c)
      PROVE  K!TypeOK'
  <2>1. job' \in K!Job
    BY <1>2 DEF K!ReadTable, K!TypeOK, K!Job
  <2> QED BY <1>2, <2>1 DEF K!ReadTable, K!TypeOK
<1>3. ASSUME NEW c \in Categories, K!SetOverrideDelete(c)
      PROVE  K!TypeOK'
  BY <1>3 DEF K!SetOverrideDelete, K!TypeOK
<1>4. CASE K!SetOverrideInsert
  <2>1. [name |-> active, category |-> setting] \in K!OverrideRow
    BY <1>0, <1>4 DEF K!SetOverrideInsert, K!TypeOK, K!OverrideRow
  <2>2. overrides' \in [K!Forms -> K!OverrideRow \cup {Null}]
    BY <1>0, <1>4, <2>1 DEF K!SetOverrideInsert, K!Upsert, K!TypeOK, K!OverrideRow
  <2> QED BY <1>4, <2>2 DEF K!SetOverrideInsert, K!TypeOK
<1>5. CASE K!DeleteOverride
  BY <1>5 DEF K!DeleteOverride, K!TypeOK
<1>6. CASE K!Rotate
  <2>1. active + 1 \in K!Versions
    BY <1>6 DEF K!Rotate, K!TypeOK, K!Versions, K!KeyRotationAssumption
  <2> QED BY <1>6, <2>1 DEF K!Rotate, K!TypeOK
<1>7. CASE K!DropOldKeys
  BY <1>7 DEF K!DropOldKeys, K!TypeOK
<1>8. CASE K!Start("sweep") \/ K!Start("backfill")
  <2>1. job' \in K!Job
    BY <1>0, <1>8 DEF K!Start, K!NoJob, K!Job
  <2> QED BY <1>8, <2>1 DEF K!Start, K!TypeOK
<1>9. CASE K!Interrupt \/ K!Finish
  BY <1>0, <1>9 DEF K!Interrupt, K!Finish, K!TypeOK, K!Job
<1>10. CASE K!RewriteRow
  <2>1. job' \in K!Job
    BY <1>10 DEF K!RewriteRow, K!TypeOK, K!Job
  <2> QED BY <1>0, <1>10, <2>1 DEF K!RewriteRow, K!TypeOK, K!Written
<1>11. CASE K!ReadOverrides
  <2> DEFINE found == {<<f, overrides[f]>> : f \in {g \in K!Forms :
                          overrides[g] # Null /\ K!Moves(g, overrides[g])}}
  <2>1. found \in SUBSET (K!Forms \X K!OverrideRow)
    BY DEF K!TypeOK
  <2> HIDE DEF found
  <2>2. job' = [job EXCEPT !.todo = @ \ {K!OverrideTable}, !.rows = found]
    BY <1>11 DEF K!ReadOverrides, found
  <2>3. job' \in K!Job
    BY <2>1, <2>2 DEF K!TypeOK, K!Job
  <2> QED BY <1>11, <2>3 DEF K!ReadOverrides, K!TypeOK
<1>12. CASE K!TakeOverride
  <2>1. PICK r \in job.rows :
          /\ overrides' = [overrides EXCEPT ![r[1]] = Null]
          /\ job' = [job EXCEPT !.rows = @ \ {r}, !.carried = r[2], !.moved = TRUE]
    BY <1>12 DEF K!TakeOverride
  <2>2. r[1] \in K!Forms /\ r[2] \in K!OverrideRow
    BY DEF K!TypeOK, K!Job
  <2>3. job' \in K!Job
    BY <2>1, <2>2 DEF K!TypeOK, K!Job
  <2> QED BY <1>12, <2>1, <2>2, <2>3 DEF K!TakeOverride, K!TypeOK
<1>13. CASE K!PutOverride
  <2>1. job' \in K!Job /\ job.carried \in K!OverrideRow
    BY <1>13 DEF K!PutOverride, K!TypeOK, K!Job
  <2>2. [name |-> active, category |-> job.carried.category] \in K!OverrideRow
    BY <1>0, <2>1 DEF K!OverrideRow
  <2> QED BY <1>0, <1>13, <2>1, <2>2 DEF K!PutOverride, K!TypeOK
<1>14. CASE UNCHANGED K!vars
  BY <1>14 DEF K!vars, K!TypeOK
<1> QED BY <1>1, <1>2, <1>3, <1>4, <1>5, <1>6, <1>7, <1>8, <1>9, <1>10, <1>11, <1>12, <1>13, <1>14
       DEF K!Next

LEMMA KeysStep ==
  ASSUME K!KeyRotationAssumption, KInv, [K!Next]_K!vars
  PROVE  KInv'
<1>0. K!TypeOK /\ K!TypeOK'
  BY KeyTypeStep DEF KInv
<1>k. /\ K!Bare \in K!Forms /\ K!Current \in K!Forms /\ K!Current # K!Bare
      /\ active \in Nat /\ active # Null /\ Null # K!Plain
      /\ K!OverrideTable \notin Targets /\ Targets \subseteq Columns
  BY <1>0, Keys
<1>j. K!NoJob.kind = "none" /\ K!NoJob.moved = FALSE /\ K!NoJob.rows = {} /\ K!NoJob.column = Null
  BY DEF K!NoJob
\* Requests.
<1>1. ASSUME UNCHANGED <<active, ring, clean, job>>,
             \A c \in Targets : cells'[c] = cells[c] \/ cells'[c] = active,
             \A f \in K!Forms :
               \/ overrides'[f] = overrides[f] \/ overrides'[f] = Null
               \/ /\ f = K!Current
                  /\ \/ overrides'[f].name = active
                     \/ overrides[f] # Null /\ overrides'[f].name = overrides[f].name
      PROVE  KInv'
  <2>1. /\ KeysInv' /\ LeftClean'
        /\ \A c \in Targets : Settled(c) => Settled(c)'
        /\ OverridesSettled => OverridesSettled'
    BY <1>0, <1>1, KeyWriteStep
  <2>2. SweepInv'
    BY <1>1, <2>1 DEF KInv, SweepInv
  <2> QED BY <1>0, <2>1, <2>2 DEF KInv
<1>2. ASSUME NEW c \in Columns, K!Write(c)
      PROVE  KInv'
  BY <1>0, <1>1, <1>2, <1>k DEF K!Write, K!TypeOK
<1>3. ASSUME NEW c \in Categories, K!SetOverrideDelete(c)
      PROVE  KInv'
  BY <1>0, <1>1, <1>3, <1>k DEF K!SetOverrideDelete, K!TypeOK
<1>4. CASE K!SetOverrideInsert
  <2>1. \A f \in K!Forms \ {K!Current} : overrides'[f] = overrides[f]
    BY <1>0, <1>4, <1>k DEF K!SetOverrideInsert, K!Upsert, K!TypeOK
  <2>2. \/ overrides'[K!Current].name = active
        \/ overrides[K!Current] # Null /\ overrides'[K!Current].name = overrides[K!Current].name
    <3>1. CASE overrides[K!Current] = Null
      BY <1>0, <1>4, <1>k, <3>1 DEF K!SetOverrideInsert, K!Upsert, K!TypeOK
    <3>2. CASE overrides[K!Current] # Null
      <4>1. overrides[K!Current] \in K!OverrideRow
        BY <1>0, <1>k, <3>2 DEF K!TypeOK
      <4>2. overrides'[K!Current] = [overrides[K!Current] EXCEPT !.category = setting]
        BY <1>0, <1>4, <1>k, <3>2 DEF K!SetOverrideInsert, K!Upsert, K!TypeOK
      <4> QED BY <3>2, <4>1, <4>2 DEF K!OverrideRow
    <3> QED BY <3>1, <3>2
  <2> QED BY <1>1, <1>4, <2>1, <2>2 DEF K!SetOverrideInsert
<1>5. CASE K!DeleteOverride
  BY <1>0, <1>1, <1>5, <1>k DEF K!DeleteOverride, K!TypeOK
\* The operator.
<1>6. CASE K!Rotate
  BY <1>0, <1>6, <1>j DEF K!Rotate, KInv, KeysInv, SweepInv, LeftClean, K!Decrypts, K!Stored
<1>7. CASE K!DropOldKeys
  <2>1. /\ ring' = {active} /\ clean /\ job = K!NoJob
        /\ UNCHANGED <<active, cells, overrides, setting, job, clean>>
    BY <1>7 DEF K!DropOldKeys
  <2>2. OverridesSettled /\ \A c \in Targets : Settled(c)
    BY <2>1 DEF KInv, LeftClean
  <2>3. KeysInv'
    BY <2>1, <2>2, <1>k DEF KInv, KeysInv, K!Decrypts, Settled, OverridesSettled, K!Stored
  <2>4. SweepInv' /\ LeftClean'
    BY <2>1, <2>2, <1>j DEF SweepInv, LeftClean, Settled, OverridesSettled, K!Stored, K!Current
  <2> QED BY <1>0, <2>3, <2>4 DEF KInv
<1>8. CASE K!Start("sweep") \/ K!Start("backfill")
  <2>1. UNCHANGED <<active, ring, cells, overrides, setting, clean>>
    BY <1>8 DEF K!Start
  <2>2. job'.kind = "sweep" => Targets \subseteq job'.todo /\ K!OverrideTable \in job'.todo
    <3>1. ASSUME K!Start("sweep") PROVE Targets \subseteq job'.todo /\ K!OverrideTable \in job'.todo
      BY <3>1 DEF K!Start, K!NoJob
    <3>2. ASSUME K!Start("backfill") PROVE job'.kind = "backfill"
      BY <3>2 DEF K!Start, K!NoJob
    <3> QED BY <1>8, <3>1, <3>2
  <2>3. KeysInv' /\ LeftClean'
    BY <2>1 DEF KInv, KeysInv, LeftClean, K!Decrypts, K!Stored, Settled, OverridesSettled, K!Current
  <2>4. SweepInv'
    BY <2>1, <2>2 DEF SweepInv
  <2> QED BY <1>0, <2>3, <2>4 DEF KInv
<1>9. CASE K!Interrupt
  BY <1>0, <1>9, <1>j DEF K!Interrupt, KInv, KeysInv, SweepInv, LeftClean, K!Decrypts, K!Stored,
                          Settled, OverridesSettled, K!Current
<1>10. CASE K!Finish
  <2>1. /\ UNCHANGED <<active, ring, cells, overrides, setting>> /\ job' = K!NoJob
        /\ job.todo = {} /\ job.column = Null /\ job.rows = {}
        /\ clean' = IF job.kind = "sweep" THEN ~job.moved ELSE clean
    BY <1>10 DEF K!Finish
  <2>2. \A c \in Targets : c # Null
    BY <1>k DEF K!KeyRotationAssumption
  <2>3. KeysInv' /\ SweepInv'
    BY <2>1, <1>j DEF KInv, KeysInv, SweepInv, K!Decrypts, K!Stored
  <2>4. CASE job.kind = "sweep" /\ ~job.moved
    <3>1. OverridesSettled /\ \A c \in Targets : Settled(c)
      BY <2>1, <2>2, <2>4 DEF KInv, SweepInv
    <3>2. LeftClean'
      BY <2>1, <3>1 DEF LeftClean, OverridesSettled, Settled, K!Stored, K!Current
    <3> QED BY <1>0, <2>3, <3>2 DEF KInv
  <2>5. CASE job.kind = "sweep" /\ job.moved
    <3>1. LeftClean'
      BY <2>1, <2>5 DEF LeftClean
    <3> QED BY <1>0, <2>3, <3>1 DEF KInv
  <2>6. CASE job.kind # "sweep"
    <3>1. LeftClean'
      BY <2>1, <2>6 DEF KInv, LeftClean, OverridesSettled, Settled, K!Stored, K!Current
    <3> QED BY <1>0, <2>3, <3>1 DEF KInv
  <2>7. job.moved \in BOOLEAN
    BY <1>0 DEF K!TypeOK, K!Job
  <2> QED BY <2>4, <2>5, <2>6, <2>7
\* The scripts.
<1>11. ASSUME NEW c \in Columns, K!ReadTable(c)
       PROVE  KInv'
  <2>1. /\ UNCHANGED <<active, ring, cells, overrides, setting, clean>>
        /\ job' = [job EXCEPT !.todo = @ \ {c}, !.column = IF K!Owns(cells[c]) THEN c ELSE Null,
                              !.from = IF K!Owns(cells[c]) THEN cells[c] ELSE Null]
        /\ job.column = Null
    BY <1>11 DEF K!ReadTable, K!Between
  <2>2. /\ job'.todo = job.todo \ {c} /\ job'.column = (IF K!Owns(cells[c]) THEN c ELSE Null)
        /\ job'.kind = job.kind /\ job'.moved = job.moved /\ job'.rows = job.rows
    BY <1>0, <2>1 DEF K!TypeOK, K!Job
  <2>3. KeysInv' /\ LeftClean'
    BY <2>1 DEF KInv, KeysInv, LeftClean, K!Decrypts, K!Stored, Settled, OverridesSettled, K!Current
  <2>4. ASSUME job.kind = "sweep", ~job.moved
        PROVE  /\ \A d \in Targets \ job'.todo : d = job'.column \/ Settled(d)
               /\ K!OverrideTable \notin job'.todo /\ job'.rows = {} => OverridesSettled
    <3>1. /\ \A d \in Targets \ job.todo : Settled(d)
          /\ K!OverrideTable \notin job.todo /\ job.rows = {} => OverridesSettled
      BY <2>1, <2>4, <1>k DEF KInv, SweepInv, K!KeyRotationAssumption
    <3>2. ~K!Owns(cells[c]) => Settled(c)
      BY <2>4 DEF K!Owns, Settled
    <3>3. c # K!OverrideTable
      BY DEF K!KeyRotationAssumption
    <3> QED BY <2>2, <3>1, <3>2, <3>3
  <2>5. SweepInv'
    BY <2>1, <2>2, <2>4 DEF SweepInv, Settled, OverridesSettled, K!Stored, K!Current
  <2> QED BY <1>0, <2>3, <2>5 DEF KInv
<1>12. CASE K!RewriteRow
  <2>1. /\ UNCHANGED <<active, ring, overrides, setting, clean>> /\ job'.moved
        /\ \A c \in Targets : cells'[c] = cells[c] \/ cells'[c] = active
    BY <1>0, <1>12, <1>k DEF K!RewriteRow, K!TypeOK, K!Job
  <2>2. KeysInv' /\ LeftClean'
    BY <1>0, <2>1, KeyWriteStep
  <2>3. SweepInv'
    BY <2>1 DEF SweepInv
  <2> QED BY <1>0, <2>2, <2>3 DEF KInv
<1>13. CASE K!ReadOverrides
  <2> DEFINE found == {<<f, overrides[f]>> : f \in {g \in K!Forms :
                          overrides[g] # Null /\ K!Moves(g, overrides[g])}}
  <2>1. /\ UNCHANGED <<active, ring, cells, overrides, setting, clean>>
        /\ job' = [job EXCEPT !.todo = @ \ {K!OverrideTable}, !.rows = found]
    BY <1>13 DEF K!ReadOverrides
  <2>2. found = {} => \A g \in K!Stored : ~K!Moves(g, overrides[g])
    BY DEF K!Stored
  <2> HIDE DEF found
  <2>3. /\ job'.todo = job.todo \ {K!OverrideTable} /\ job'.column = job.column
        /\ job'.kind = job.kind /\ job'.moved = job.moved /\ job'.rows = found
    BY <1>0, <2>1 DEF K!TypeOK, K!Job
  <2>4. KeysInv' /\ LeftClean'
    BY <2>1 DEF KInv, KeysInv, LeftClean, K!Decrypts, K!Stored, Settled, OverridesSettled, K!Current
  <2>5. ASSUME job.kind = "sweep", ~job.moved
        PROVE  /\ \A d \in Targets \ job'.todo : d = job'.column \/ Settled(d)
               /\ job'.rows = {} => OverridesSettled
    <3>1. \A d \in Targets \ job.todo : d = job.column \/ Settled(d)
      BY <2>5 DEF KInv, SweepInv
    <3>2. \A d \in Targets \ job'.todo : d = job'.column \/ Settled(d)
      BY <2>3, <3>1, <1>k
    <3>3. ASSUME found = {} PROVE OverridesSettled
      <4>1. \A g \in K!Stored :
              ~(overrides[g].name # Null /\ (overrides[g].name # active \/ g # K!Current))
        BY <2>2, <2>5, <3>3 DEF K!Moves
      <4>2. \A g \in K!Stored : overrides[g].name = Null => g = K!Bare
        <5>1. Null \notin ring
          BY <1>0, Keys DEF K!TypeOK, K!KeyRotationAssumption
        <5> QED BY <5>1 DEF KInv, KeysInv
      <4> QED BY <4>1, <4>2 DEF OverridesSettled
    <3> QED BY <2>3, <3>2, <3>3
  <2>6. SweepInv'
    BY <2>1, <2>3, <2>5 DEF SweepInv, Settled, OverridesSettled, K!Stored, K!Current
  <2> QED BY <1>0, <2>4, <2>6 DEF KInv
<1>14. CASE K!TakeOverride
  <2>1. PICK r \in job.rows :
          /\ overrides' = [overrides EXCEPT ![r[1]] = Null]
          /\ job' = [job EXCEPT !.rows = @ \ {r}, !.carried = r[2], !.moved = TRUE]
    BY <1>14 DEF K!TakeOverride
  <2>2. /\ UNCHANGED <<active, ring, cells, setting, clean>> /\ job'.moved
        /\ \A f \in K!Forms : overrides'[f] = overrides[f] \/ overrides'[f] = Null
    BY <1>0, <1>14, <2>1 DEF K!TakeOverride, K!TypeOK, K!Job
  <2>3. KeysInv' /\ LeftClean'
    BY <1>0, <2>2, KeyWriteStep
  <2>4. SweepInv'
    BY <2>2 DEF SweepInv
  <2> QED BY <1>0, <2>3, <2>4 DEF KInv
<1>15. CASE K!PutOverride
  <2>1. /\ UNCHANGED <<active, ring, cells, setting, clean>>
        /\ job'.kind = job.kind /\ job'.moved = job.moved /\ job'.todo = job.todo
        /\ job'.rows = job.rows /\ job'.column = job.column
    BY <1>0, <1>15 DEF K!PutOverride, K!TypeOK, K!Job
  <2>2. /\ \A f \in K!Forms \ {K!Current} : overrides'[f] = overrides[f]
        /\ \/ overrides'[K!Current] = overrides[K!Current] \/ overrides'[K!Current].name = active
    BY <1>0, <1>15, <1>k DEF K!PutOverride, K!TypeOK
  <2>3. /\ KeysInv' /\ LeftClean' /\ \A c \in Targets : Settled(c) => Settled(c)'
        /\ OverridesSettled => OverridesSettled'
    BY <1>0, <2>1, <2>2, KeyWriteStep
  <2>4. SweepInv'
    BY <2>1, <2>3 DEF KInv, SweepInv
  <2> QED BY <1>0, <2>3, <2>4 DEF KInv
<1>16. CASE UNCHANGED K!vars
  BY <1>0, <1>16 DEF K!vars, KInv, KeysInv, SweepInv, LeftClean, K!Decrypts, K!Stored, Settled,
                     OverridesSettled, K!Current
<1> QED BY <1>2, <1>3, <1>4, <1>5, <1>6, <1>7, <1>8, <1>9, <1>10, <1>11, <1>12, <1>13, <1>14,
           <1>15, <1>16 DEF K!Next

LEMMA KeysStart ==
  ASSUME K!KeyRotationAssumption, K!Init
  PROVE  KInv
<1>1. 1 \in K!Versions /\ K!Versions \subseteq Nat /\ K!NoJob \in K!Job
  BY DEF K!Versions, K!KeyRotationAssumption, K!NoJob, K!Job
<1>2. cells \in [Columns -> K!Written \cup {Null}] /\ \A c \in Columns : K!Decrypts(cells[c])
  BY <1>1 DEF K!Init, K!Written, K!Decrypts
<1>3. PICK f \in {K!Bare, <<"aes", 1>>, <<"derived", 1>>}, c \in Categories :
        overrides = [g \in K!Forms |->
          IF g # f THEN Null ELSE [name |-> IF f = K!Bare THEN Null ELSE 1, category |-> c]]
  BY DEF K!Init
<1>4. [name |-> IF f = K!Bare THEN Null ELSE 1, category |-> c] \in K!OverrideRow
  BY <1>1 DEF K!OverrideRow
<1>5. overrides \in [K!Forms -> K!OverrideRow \cup {Null}]
  BY <1>3, <1>4
<1>6. K!TypeOK
  BY <1>1, <1>2, <1>5 DEF K!Init, K!TypeOK
<1>7. \A g \in K!Stored : IF g = K!Bare THEN overrides[g].name = Null ELSE overrides[g].name = 1
  BY <1>3 DEF K!Stored
<1>8. KeysInv
  BY <1>2, <1>7 DEF K!Init, KeysInv, K!KeyRotationAssumption
<1>9. SweepInv /\ LeftClean
  BY DEF K!Init, SweepInv, LeftClean, K!NoJob
<1> QED BY <1>6, <1>8, <1>9 DEF KInv

LEMMA KeysFollow ==
  ASSUME K!KeyRotationAssumption, KInv
  PROVE  K!DroppedKeyUnused
BY DEF KInv, KeysInv, LeftClean, OverridesSettled, K!DroppedKeyUnused, K!Decrypts, K!Lookups,
       K!Current

-----------------------------------------------------------------------------
(* Entitlements *)

\* The position is the last thing Apple said of its subscription.
Latest(i) == \A j \in DOMAIN sent : j > i => sent[j].sub # sent[i].sub

\* What a notification's type says of the transaction it carries.
Means(n) ==
  /\ n.type \in {"SUBSCRIBED", "DID_RENEW", "REFUND_REVERSED"} => n.tx.state = "paid"
  /\ n.type \in {"DID_FAIL_TO_RENEW", "GRACE_PERIOD_EXPIRED"} => n.tx.state = "retry"
  /\ n.type = "GRACE_PERIOD" => n.tx.state = "grace"
  /\ n.type = "EXPIRED" => n.tx.state = "over"
  /\ n.type = "REFUND" => n.tx.state = "refunded"
  /\ n.tx.state = "over" => n.tx.expires <= hour
  /\ n.tx.state = "grace" => n.tx.grace # None /\ n.tx.grace = n.tx.expires + Grace

\* What was sent tells a subscription's story: it begins with the purchase, never changes owner
\* or tier, and ends with what Apple holds.
StoryInv ==
  /\ \A i \in DOMAIN sent :
       /\ truth[sent[i].sub] # None
       /\ sent[i].tx.token = truth[sent[i].sub].token /\ sent[i].tx.tier = truth[sent[i].sub].tier
       /\ Latest(i) => sent[i].tx = truth[sent[i].sub]
       /\ E!Earlier(i) = {} => sent[i].type = "SUBSCRIBED"
       /\ Means(sent[i])
  /\ \A s \in Purchases : truth[s] # None => \E i \in DOMAIN sent : sent[i].sub = s /\ Latest(i)

\* Notifications being applied are claimed, each by one worker, and none was applied before.
HookInv ==
  /\ \A w \in Workers : hook[w] # None => hook[w].at \in claimed \ applied
  /\ \A v, w \in Workers : v # w /\ hook[v] # None /\ hook[w] # None => hook[v].at # hook[w].at
  /\ \A c \in Clients : report[c] # None => report[c].at \in DOMAIN sent

\* A subscription is bound to one row at most, and not before the purchase.
BoundInv ==
  /\ \A u, v \in Ids : row[u].bound # None /\ row[u].bound = row[v].bound => u = v
  /\ \A u \in Ids : row[u].bound # None => truth[row[u].bound] # None

OrderInv == straight => \A i \in applied : E!Earlier(i) \subseteq applied

\* The row of a subscription that nothing else wrote has its tier as soon as anything wrote it.
GrantTierInv ==
       straight => \A s \in Purchases, u \in Ids :
         /\ truth[s] # None /\ u \in E!Target(s) /\ wrote[u] \subseteq {s}
         /\ row[u].bound = s \/ \E i \in applied : sent[i].sub = s
         => row[u].tier = truth[s].tier

\* The row grants what the transaction is good for.
Holds(r, tx) ==
  CASE tx.state \in {"paid", "retry", "over"} ->
         \/ r.status \in {"active", "billing_retry"} /\ r.expires = tx.expires
         \/ r.status = "expired" /\ tx.expires <= hour
    [] tx.state = "grace" -> r.status = "grace" /\ r.grace = tx.grace /\ r.expires = tx.expires
    [] tx.state = "refunded" -> r.status = "revoked"

\* Once the last thing Apple said is applied, the row agrees with it, whatever else is applied.
RowInv ==
  straight => \A i \in applied, u \in Ids :
    Latest(i) /\ u \in E!Target(sent[i].sub) /\ wrote[u] \subseteq {sent[i].sub}
    => Holds(row[u], sent[i].tx)

LEMMA Told ==
  ASSUME E!TypeOK
  PROVE  /\ Len(sent) \in Nat /\ DOMAIN sent = 1..Len(sent)
         /\ \A i \in DOMAIN sent : sent[i] \in E!Notification /\ E!Earlier(i) \subseteq DOMAIN sent
<1>1. sent \in Seq(E!Notification)
  BY DEF E!TypeOK
<1>2. /\ Len(sent) \in Nat /\ DOMAIN sent = 1..Len(sent)
      /\ \A i \in DOMAIN sent : sent[i] \in E!Notification
  BY <1>1
<1> QED BY <1>2 DEF E!Earlier

\* What Apple may say next of a subscription.
Sound(type, s, t) ==
  /\ [type |-> type, sub |-> s, tx |-> t] \in E!Notification
  /\ Means([type |-> type, sub |-> s, tx |-> t])
  /\ truth[s] = None => type = "SUBSCRIBED"
  /\ truth[s] # None => t.token = truth[s].token /\ t.tier = truth[s].tier

\* What Apple holds next differs in its state and its dates.
Succeeds(t, old, state, expires, grace) ==
  /\ t \in E!Transaction /\ t.token = old.token /\ t.tier = old.tier
  /\ t.state = state /\ t.expires = expires /\ t.grace = grace

LEMMA Rewritten ==
  ASSUME NEW old \in E!Transaction, NEW e \in 0..(MaxNow + Period), NEW g \in E!Moments \cup {None},
         NEW st \in {"paid", "retry", "grace", "over", "refunded"}
  PROVE  /\ old.expires \in 0..(MaxNow + Period)
         /\ Succeeds([old EXCEPT !.state = st], old, st, old.expires, old.grace)
         /\ Succeeds([old EXCEPT !.state = st, !.grace = g], old, st, old.expires, g)
         /\ Succeeds([old EXCEPT !.state = st, !.expires = e, !.grace = g], old, st, e, g)
BY DEF E!Transaction, Succeeds

LEMMA AppleSpeaks ==
  ASSUME E!EntitlementAssumption, E!TypeOK, NEW s \in Purchases,
         E!Apple(s) \/ \E u \in Ids, tier \in Tiers : E!Purchase(s, u, tier)
  PROVE  \E type, t : E!Say(type, s, t) /\ Sound(type, s, t)
<1>0. hour \in Nat /\ hour <= MaxNow /\ MaxNow \in Nat /\ Period \in Nat /\ Grace \in Nat
  BY DEF E!TypeOK, E!EntitlementAssumption
<1>1. ASSUME NEW u \in Ids, NEW tier \in Tiers, E!Purchase(s, u, tier)
      PROVE  \E type, t : E!Say(type, s, t) /\ Sound(type, s, t)
  <2> DEFINE t == [token |-> u, tier |-> tier, state |-> "paid", expires |-> hour + Period,
                   grace |-> None]
  <2>1. t \in E!Transaction
    BY <1>0 DEF E!Transaction
  <2>2. Sound("SUBSCRIBED", s, t)
    BY <1>1, <2>1 DEF E!Purchase, Sound, Means, E!Notification
  <2>3. E!Say("SUBSCRIBED", s, t)
    BY <1>1 DEF E!Purchase
  <2> QED BY <2>2, <2>3
<1>2. CASE E!Apple(s)
  <2> DEFINE old == truth[s]
  <2>1. old \in E!Transaction /\ old # None
    BY <1>2 DEF E!Apple, E!TypeOK
  <2> HIDE DEF old
  <2>2. /\ old.expires \in 0..(MaxNow + Period) /\ old.expires + Grace \in E!Moments
        /\ hour + Period \in 0..(MaxNow + Period) /\ None \in E!Moments \cup {None}
    <3>1. old.expires \in 0..(MaxNow + Period)
      BY <2>1 DEF E!Transaction
    <3> QED BY <3>1, <1>0 DEF E!Moments
  <2>3. ASSUME NEW type, NEW st, NEW e, NEW g, NEW t, E!Say(type, s, t), Succeeds(t, old, st, e, g),
               [type |-> type, sub |-> s, tx |-> t] \in E!Notification,
               Means([type |-> type, sub |-> s, tx |-> t])
        PROVE  \E ty, tt : E!Say(ty, s, tt) /\ Sound(ty, s, tt)
    BY <2>1, <2>3 DEF Sound, Succeeds, old
  <2>4. ASSUME NEW e, NEW g, NEW t, Succeeds(t, old, "paid", e, g),
               E!Say("DID_RENEW", s, t) \/ E!Say("REFUND_REVERSED", s, t)
        PROVE  \E ty, tt : E!Say(ty, s, tt) /\ Sound(ty, s, tt)
    BY <2>3, <2>4 DEF Means, E!Notification, Succeeds
  <2>5. ASSUME NEW e, NEW g, NEW t, Succeeds(t, old, "retry", e, g),
               E!Say("DID_FAIL_TO_RENEW", s, t) \/ E!Say("GRACE_PERIOD_EXPIRED", s, t)
        PROVE  \E ty, tt : E!Say(ty, s, tt) /\ Sound(ty, s, tt)
    BY <2>3, <2>5 DEF Means, E!Notification, Succeeds
  <2>6. CASE E!Say("DID_RENEW", s,
                   [old EXCEPT !.state = "paid", !.expires = hour + Period, !.grace = None])
    BY <2>1, <2>2, <2>4, <2>6, Rewritten
  <2>7. CASE E!Say("DID_FAIL_TO_RENEW", s, [old EXCEPT !.state = "retry"])
    BY <2>1, <2>2, <2>5, <2>7, Rewritten
  <2>8. CASE E!Say("GRACE_PERIOD", s, [old EXCEPT !.state = "grace", !.grace = old.expires + Grace])
    <3> DEFINE t == [old EXCEPT !.state = "grace", !.grace = old.expires + Grace]
    <3>1. Succeeds(t, old, "grace", old.expires, old.expires + Grace)
      BY <2>1, <2>2, Rewritten
    <3>2. old.expires + Grace # None
      BY <2>2, <1>0 DEF E!EntitlementAssumption
    <3> HIDE DEF t
    <3>3. /\ [type |-> "GRACE_PERIOD", sub |-> s, tx |-> t] \in E!Notification
          /\ Means([type |-> "GRACE_PERIOD", sub |-> s, tx |-> t])
      BY <3>1, <3>2 DEF E!Notification, Means, Succeeds
    <3> QED BY <2>3, <2>8, <3>1, <3>3 DEF t
  <2>9. CASE hour >= old.expires /\ E!Say("EXPIRED", s, [old EXCEPT !.state = "over"])
    <3> DEFINE t == [old EXCEPT !.state = "over"]
    <3>1. Succeeds(t, old, "over", old.expires, old.grace) /\ old.expires <= hour
      BY <2>1, <2>2, <2>9, <1>0, Rewritten
    <3> HIDE DEF t
    <3>2. /\ [type |-> "EXPIRED", sub |-> s, tx |-> t] \in E!Notification
          /\ Means([type |-> "EXPIRED", sub |-> s, tx |-> t])
      BY <3>1 DEF E!Notification, Means, Succeeds
    <3> QED BY <2>3, <2>9, <3>1, <3>2 DEF t
  <2>10. CASE E!Say("GRACE_PERIOD_EXPIRED", s, [old EXCEPT !.state = "retry", !.grace = None])
    BY <2>1, <2>2, <2>5, <2>10, Rewritten
  <2>11. CASE E!Say("REFUND", s, [old EXCEPT !.state = "refunded"])
    <3> DEFINE t == [old EXCEPT !.state = "refunded"]
    <3>1. Succeeds(t, old, "refunded", old.expires, old.grace)
      BY <2>1, <2>2, Rewritten
    <3> HIDE DEF t
    <3>2. /\ [type |-> "REFUND", sub |-> s, tx |-> t] \in E!Notification
          /\ Means([type |-> "REFUND", sub |-> s, tx |-> t])
      BY <3>1 DEF E!Notification, Means, Succeeds
    <3> QED BY <2>3, <2>11, <3>1, <3>2 DEF t
  <2>12. CASE E!Say("REFUND_REVERSED", s, [old EXCEPT !.state = "paid"])
    BY <2>1, <2>2, <2>4, <2>12, Rewritten
  <2> QED BY <1>2, <2>6, <2>7, <2>8, <2>9, <2>10, <2>11, <2>12 DEF E!Apple, old
<1> QED BY <1>1, <1>2

RowType ==
  [bound : Purchases \cup {None}, tier : Tiers \cup {"free"}, status : E!Statuses,
   expires : E!Moments, grace : E!Moments \cup {None}]

\* A patch keeps the binding, ends with a tier the subscription or the row had, and makes the row
\* agree with the transaction.
LEMMA Patched ==
  ASSUME E!EntitlementAssumption, E!TypeOK, NEW r \in RowType, NEW n \in E!Notification, Means(n)
  PROVE  /\ E!Patch(r, n) \in RowType /\ E!Patch(r, n).bound = r.bound
         /\ E!Patch(r, n).tier \in {r.tier, n.tx.tier}
         /\ n.type = "SUBSCRIBED" => E!Patch(r, n).tier = n.tx.tier
         /\ Holds(E!Patch(r, n), n.tx)
<1>1. /\ n.tx.tier \in Tiers /\ n.tx.grace \in E!Moments \cup {None} /\ n.tx.expires \in E!Moments
      /\ n.tx.expires \in Int /\ hour \in Int
  BY DEF E!TypeOK, E!Notification, E!Transaction, E!Moments, E!EntitlementAssumption
<1>2. /\ r.bound \in Purchases \cup {None} /\ r.tier \in Tiers \cup {"free"} /\ r.status \in E!Statuses
      /\ r.expires \in E!Moments /\ r.grace \in E!Moments \cup {None}
      /\ r = [bound |-> r.bound, tier |-> r.tier, status |-> r.status, expires |-> r.expires,
              grace |-> r.grace]
  BY DEF RowType
<1>3. CASE n.type \in {"SUBSCRIBED", "DID_RENEW"}
  <2>1. E!Patch(r, n) = [r EXCEPT !.expires = n.tx.expires, !.grace = None, !.tier = n.tx.tier,
                                  !.status = IF n.tx.expires <= hour THEN "expired" ELSE "active"]
    BY <1>3 DEF E!Patch
  <2> QED BY <1>1, <1>3, <2>1 DEF RowType, E!Statuses, Means, Holds
<1>4. CASE n.type = "GRACE_PERIOD"
  <2>1. E!Patch(r, n) = [[r EXCEPT !.expires = n.tx.expires, !.grace = None]
                           EXCEPT !.status = "grace", !.grace = n.tx.grace]
    BY <1>4 DEF E!Patch
  <2> QED BY <1>1, <1>4, <2>1 DEF RowType, E!Statuses, Means, Holds
<1>5. CASE n.type \in {"DID_FAIL_TO_RENEW", "GRACE_PERIOD_EXPIRED"}
  <2>1. E!Patch(r, n) = [r EXCEPT !.expires = n.tx.expires, !.grace = None, !.status = "billing_retry"]
    BY <1>5 DEF E!Patch
  <2> QED BY <1>1, <1>5, <2>1 DEF RowType, E!Statuses, Means, Holds
<1>6. CASE n.type = "EXPIRED"
  <2>1. E!Patch(r, n) = [r EXCEPT !.expires = n.tx.expires, !.grace = None, !.status = "expired"]
    BY <1>6 DEF E!Patch
  <2> QED BY <1>1, <1>6, <2>1 DEF RowType, E!Statuses, Means, Holds
<1>7. CASE n.type = "REFUND"
  <2>1. E!Patch(r, n) = [r EXCEPT !.status = "revoked", !.grace = None]
    BY <1>7 DEF E!Patch
  <2> QED BY <1>1, <1>7, <2>1 DEF RowType, E!Statuses, Means, Holds
<1>8. CASE n.type = "REFUND_REVERSED"
  <2>1. E!Patch(r, n) = [r EXCEPT !.status = IF n.tx.expires > hour THEN "active" ELSE "expired",
                                  !.expires = n.tx.expires]
    BY <1>8 DEF E!Patch
  <2>2. /\ E!Patch(r, n).bound = r.bound /\ E!Patch(r, n).tier = r.tier
        /\ E!Patch(r, n).expires = n.tx.expires
        /\ E!Patch(r, n).status = IF n.tx.expires > hour THEN "active" ELSE "expired"
        /\ E!Patch(r, n) \in RowType
    BY <1>1, <2>1 DEF RowType, E!Statuses
  <2>3. n.tx.state = "paid"
    BY <1>8 DEF Means
  <2>4. Holds(E!Patch(r, n), n.tx)
    BY <1>1, <2>2, <2>3 DEF Holds
  <2> QED BY <1>8, <2>2, <2>4
<1> QED BY <1>3, <1>4, <1>5, <1>6, <1>7, <1>8 DEF E!Notification

\* What the app reports binds the row and makes it agree with the transaction, but for grace.
Reported(r, s, tx) ==
  [bound |-> s, tier |-> tx.tier, expires |-> tx.expires, grace |-> None,
   status |-> IF tx.state = "refunded" THEN "revoked"
              ELSE IF tx.expires <= hour THEN "expired" ELSE "active"]

LEMMA ReportedAgrees ==
  ASSUME E!EntitlementAssumption, E!TypeOK, NEW s \in Purchases, NEW r,
         NEW n \in E!Notification, Means(n)
  PROVE  /\ Reported(r, s, n.tx) \in RowType
         /\ Reported(r, s, n.tx).bound = s /\ Reported(r, s, n.tx).tier = n.tx.tier
         /\ n.tx.grace = None => Holds(Reported(r, s, n.tx), n.tx)
<1>1. /\ n.tx.tier \in Tiers /\ n.tx.grace \in E!Moments \cup {None} /\ n.tx.expires \in E!Moments
      /\ n.tx.expires \in Int /\ hour \in Int
      /\ n.tx.state \in {"paid", "retry", "grace", "over", "refunded"}
  BY DEF E!TypeOK, E!Notification, E!Transaction, E!Moments, E!EntitlementAssumption
<1> QED BY <1>1 DEF Reported, RowType, E!Statuses, Means, Holds

GrantInv == E!TypeOK /\ StoryInv /\ HookInv /\ BoundInv /\ OrderInv /\ GrantTierInv /\ RowInv

-----------------------------------------------------------------------------
(* Entitlements: Apple speaks *)

\* One more notification, at position n: the earlier ones stand as they were.
Adds(n, type, s, t) ==
  /\ n \in Nat /\ DOMAIN sent' = DOMAIN sent \cup {n} /\ n \notin DOMAIN sent
  /\ sent' \in Seq(E!Notification) /\ Len(sent') = n
  /\ \A i \in DOMAIN sent : i < n /\ sent'[i] = sent[i] /\ E!Earlier(i)' = E!Earlier(i)
  /\ sent'[n] = [type |-> type, sub |-> s, tx |-> t]
  /\ t \in E!Transaction /\ truth'[s] = t /\ \A o \in Purchases \ {s} : truth'[o] = truth[o]
  /\ truth' \in [Purchases -> E!Transaction \cup {None}]

LEMMA Heard ==
  ASSUME E!TypeOK, NEW s \in Purchases, NEW type, NEW t, E!Say(type, s, t), Sound(type, s, t)
  PROVE  Adds(Len(sent) + 1, type, s, t)
<1> DEFINE n == Len(sent) + 1
           new == [type |-> type, sub |-> s, tx |-> t]
<1>1. Len(sent) \in Nat /\ DOMAIN sent = 1..Len(sent) /\ sent \in Seq(E!Notification)
  BY Told DEF E!TypeOK
<1>2. new \in E!Notification /\ t \in E!Transaction
  BY DEF Sound, E!Notification
<1>3. sent' = Append(sent, new) /\ truth' = [truth EXCEPT ![s] = t]
  BY DEF E!Say
<1>4. /\ truth'[s] = t /\ \A o \in Purchases \ {s} : truth'[o] = truth[o]
      /\ truth' \in [Purchases -> E!Transaction \cup {None}]
  BY <1>2, <1>3 DEF E!TypeOK
<1> HIDE DEF new
<1>5. /\ sent' \in Seq(E!Notification) /\ Len(sent') = n /\ DOMAIN sent' = 1..n
      /\ \A i \in 1..Len(sent) : sent'[i] = sent[i]
      /\ sent'[n] = new
  BY <1>1, <1>2, <1>3
<1>6. \A i \in DOMAIN sent : i < n /\ \A j \in 1..(i - 1) : j \in DOMAIN sent
  BY <1>1
<1>7. \A i \in DOMAIN sent : E!Earlier(i)' = E!Earlier(i)
  BY <1>1, <1>5, <1>6 DEF E!Earlier
<1> QED BY <1>1, <1>2, <1>4, <1>5, <1>6, <1>7 DEF new, Adds

LEMMA StorySays ==
  ASSUME E!EntitlementAssumption, E!TypeOK, StoryInv, NEW s \in Purchases, NEW type, NEW t,
         E!Say(type, s, t), Sound(type, s, t)
  PROVE  StoryInv'
<1>0. PICK n : n = Len(sent) + 1
  OBVIOUS
<1>a. Adds(n, type, s, t)
  BY <1>0, Heard
<1>1. /\ n \in Nat /\ DOMAIN sent' = DOMAIN sent \cup {n} /\ n \notin DOMAIN sent
      /\ \A i \in DOMAIN sent : i < n /\ sent'[i] = sent[i] /\ E!Earlier(i)' = E!Earlier(i)
      /\ sent'[n] = [type |-> type, sub |-> s, tx |-> t]
      /\ t \in E!Transaction /\ truth'[s] = t /\ \A o \in Purchases \ {s} : truth'[o] = truth[o]
  BY <1>a DEF Adds
<1>2. /\ Len(sent) \in Nat /\ DOMAIN sent = 1..Len(sent)
      /\ \A i \in DOMAIN sent : sent[i].sub \in Purchases
  BY Told DEF E!Notification
<1>3. hour' = hour /\ t # None
  BY <1>1 DEF E!Say, E!EntitlementAssumption
<1>4. \A i \in DOMAIN sent : Latest(i)' => Latest(i) /\ sent[i].sub # s
  BY <1>1, <1>2 DEF Latest
<1>5. \A i \in DOMAIN sent : sent[i].sub # s /\ Latest(i) => Latest(i)'
  BY <1>1, <1>2 DEF Latest
<1>6. Latest(n)'
  BY <1>1, <1>2 DEF Latest
<1>7. \A m : Means(m) => Means(m)'
  BY <1>3 DEF Means
<1>8. ASSUME NEW i \in DOMAIN sent
      PROVE  /\ truth'[sent'[i].sub] # None
             /\ sent'[i].tx.token = truth'[sent'[i].sub].token
             /\ sent'[i].tx.tier = truth'[sent'[i].sub].tier
             /\ Latest(i)' => sent'[i].tx = truth'[sent'[i].sub]
             /\ E!Earlier(i)' = {} => sent'[i].type = "SUBSCRIBED"
             /\ Means(sent[i])'
  <2>1. sent'[i] = sent[i] /\ sent[i].sub \in Purchases /\ E!Earlier(i)' = E!Earlier(i)
    BY <1>1, <1>2
  <2>2. /\ truth[sent[i].sub] # None
        /\ sent[i].tx.token = truth[sent[i].sub].token /\ sent[i].tx.tier = truth[sent[i].sub].tier
        /\ Latest(i) => sent[i].tx = truth[sent[i].sub]
        /\ E!Earlier(i) = {} => sent[i].type = "SUBSCRIBED"
        /\ Means(sent[i])
    BY DEF StoryInv
  <2>3. CASE sent[i].sub # s
    BY <1>1, <1>4, <1>7, <2>1, <2>2, <2>3
  <2>4. CASE sent[i].sub = s
    BY <1>1, <1>3, <1>4, <1>7, <2>1, <2>2, <2>4 DEF Sound
  <2> QED BY <2>3, <2>4
<1>9. /\ truth'[sent'[n].sub] # None
      /\ sent'[n].tx.token = truth'[sent'[n].sub].token /\ sent'[n].tx.tier = truth'[sent'[n].sub].tier
      /\ Latest(n)' => sent'[n].tx = truth'[sent'[n].sub]
      /\ E!Earlier(n)' = {} => sent'[n].type = "SUBSCRIBED"
      /\ Means(sent[n])'
  <2>1. /\ sent'[n].sub = s /\ sent'[n].tx = t /\ sent'[n].type = type
        /\ sent'[n] = [type |-> type, sub |-> s, tx |-> t]
    BY <1>1
  <2>2. Means(sent[n])'
    BY <1>7, <2>1 DEF Sound
  <2>3. E!Earlier(n)' = {} => type = "SUBSCRIBED"
    <3>1. CASE truth[s] = None
      BY <3>1 DEF Sound
    <3>2. CASE truth[s] # None
      <4>1. PICK i \in DOMAIN sent : sent[i].sub = s
        BY <3>2 DEF StoryInv
      <4>2. i \in 1..(n - 1) /\ sent'[i].sub = s
        BY <1>0, <1>1, <1>2, <4>1
      <4>3. i \in E!Earlier(n)'
        BY <2>1, <4>2 DEF E!Earlier
      <4> QED BY <4>3
    <3> QED BY <3>1, <3>2
  <2> QED BY <1>1, <1>3, <2>1, <2>2, <2>3
<1>10. ASSUME NEW o \in Purchases, truth'[o] # None
       PROVE  \E i \in DOMAIN sent' : sent'[i].sub = o /\ Latest(i)'
  <2>1. CASE o = s
    BY <1>1, <1>6, <2>1
  <2>2. CASE o # s
    <3>1. PICK i \in DOMAIN sent : sent[i].sub = o /\ Latest(i)
      BY <1>1, <1>10, <2>2 DEF StoryInv
    <3> QED BY <1>1, <1>5, <2>2, <3>1
  <2> QED BY <2>1, <2>2
<1>11. \A i \in DOMAIN sent' : i \in DOMAIN sent \/ i = n
  BY <1>1
<1> QED BY <1>8, <1>9, <1>10, <1>11 DEF StoryInv

-----------------------------------------------------------------------------
(* Entitlements: the steps *)

\* Apple and the clock write no row: what the row is compared with moves.
LEMMA AppleStep ==
  ASSUME E!EntitlementAssumption, GrantInv, NEW s \in Purchases,
         E!Apple(s) \/ \E u \in Ids, tier \in Tiers : E!Purchase(s, u, tier)
  PROVE  GrantInv'
<1>1. PICK type, t : E!Say(type, s, t) /\ Sound(type, s, t)
  BY AppleSpeaks DEF GrantInv
<1>0. PICK n : n = Len(sent) + 1
  OBVIOUS
<1>a. Adds(n, type, s, t)
  BY <1>0, <1>1, Heard DEF GrantInv
<1>2. /\ n \notin DOMAIN sent /\ DOMAIN sent' = DOMAIN sent \cup {n} /\ Len(sent') = n /\ n \in Nat
      /\ sent' \in Seq(E!Notification) /\ truth' \in [Purchases -> E!Transaction \cup {None}]
      /\ \A i \in DOMAIN sent : i < n /\ sent'[i] = sent[i] /\ E!Earlier(i)' = E!Earlier(i)
      /\ sent'[n] = [type |-> type, sub |-> s, tx |-> t] /\ t \in E!Transaction
      /\ truth'[s] = t /\ \A o \in Purchases \ {s} : truth'[o] = truth[o]
  BY <1>a DEF Adds
<1>3. UNCHANGED <<hour, row, claimed, applied, hook, report, wrote, straight>>
      /\ Len(sent) < MaxEvents
  BY <1>1 DEF E!Say
<1>4. E!TypeOK'
  BY <1>0, <1>2, <1>3, Told DEF GrantInv, E!TypeOK, E!EntitlementAssumption, E!Moments, E!Statuses
<1>5. StoryInv'
  BY <1>1, StorySays DEF GrantInv
<1>6. HookInv'
  BY <1>2, <1>3 DEF GrantInv, HookInv
<1>7. t # None
  BY <1>2 DEF E!EntitlementAssumption
<1>8. BoundInv'
  BY <1>2, <1>3, <1>7 DEF GrantInv, BoundInv, E!TypeOK
<1>9. applied \subseteq DOMAIN sent
  BY DEF GrantInv, E!TypeOK
<1>10. OrderInv'
  BY <1>2, <1>3, <1>9 DEF GrantInv, OrderInv
<1>11. ASSUME NEW o \in Purchases, truth[o] # None
       PROVE  /\ E!Target(o)' = E!Target(o) /\ truth'[o] # None
              /\ truth'[o].tier = truth[o].tier
  <2>1. truth'[o] # None /\ truth'[o].token = truth[o].token /\ truth'[o].tier = truth[o].tier
    BY <1>1, <1>2, <1>7, <1>11 DEF Sound
  <2> QED BY <2>1, <1>3 DEF E!Target, E!Bound
<1>12. \A i \in applied : sent'[i] = sent[i] /\ sent[i].sub \in Purchases /\ truth[sent[i].sub] # None
  BY <1>2, <1>9, Told DEF GrantInv, StoryInv, E!Notification
<1>13. \A u \in Ids : row[u].bound \in Purchases => truth[row[u].bound] # None
  BY DEF GrantInv, BoundInv, E!EntitlementAssumption
<1>14. GrantTierInv'
  <2> SUFFICES ASSUME straight, NEW o \in Purchases, NEW u \in Ids, truth'[o] # None,
                      (u \in E!Target(o))', wrote[u] \subseteq {o},
                      row[u].bound = o \/ \E i \in applied : sent'[i].sub = o
               PROVE  row[u].tier = truth'[o].tier
    BY <1>3 DEF GrantTierInv
  <2>1. truth[o] # None
    BY <1>12, <1>13
  <2>2. u \in E!Target(o) /\ truth'[o].tier = truth[o].tier
    BY <1>11, <2>1
  <2>3. row[u].bound = o \/ \E i \in applied : sent[i].sub = o
    BY <1>12
  <2> QED BY <2>1, <2>2, <2>3 DEF GrantInv, GrantTierInv
<1>15. RowInv'
  <2> SUFFICES ASSUME straight, NEW i \in applied, NEW u \in Ids, Latest(i)',
                      (u \in E!Target(sent[i].sub))', wrote[u] \subseteq {sent'[i].sub}
               PROVE  (Holds(row[u], sent[i].tx))'
    BY <1>3 DEF RowInv
  <2>1. i \in DOMAIN sent /\ sent'[i] = sent[i] /\ Latest(i)
    BY <1>2, <1>9 DEF Latest
  <2>2. u \in E!Target(sent[i].sub)
    <3>1. PICK c \in Purchases : c = sent[i].sub /\ c = sent'[i].sub
      BY <1>12, <2>1
    <3>2. E!Target(c)' = E!Target(c)
      BY <1>11, <1>12, <3>1
    <3> QED BY <3>1, <3>2 DEF E!Target, E!Bound
  <2>4. Holds(row[u], sent[i].tx)
    BY <2>1, <2>2 DEF GrantInv, RowInv
  <2> QED BY <1>3, <2>1, <2>4 DEF Holds
<1> QED BY <1>4, <1>5, <1>6, <1>8, <1>10, <1>14, <1>15 DEF GrantInv

\* The clock, a claim, a release, a report and a crash leave the rows and what was said alone.
LEMMA QuietStep ==
  ASSUME E!EntitlementAssumption, GrantInv, E!TypeOK', HookInv', hour' >= hour,
         UNCHANGED <<truth, sent, row, applied, wrote, straight>>
  PROVE  GrantInv'
<1>1. E!TypeOK /\ hour \in Int /\ hour' \in Int
  BY DEF GrantInv, E!TypeOK
<1>2. \A i \in DOMAIN sent : sent[i] \in E!Notification /\ sent[i].tx.expires \in Int
  BY <1>1, Told DEF E!Notification, E!Transaction, E!Moments, E!EntitlementAssumption
<1>3. \A i \in DOMAIN sent : Means(sent[i]) => Means(sent[i])'
  BY <1>1, <1>2 DEF Means
<1>4. StoryInv'
  BY <1>3 DEF GrantInv, StoryInv, Latest, E!Earlier
<1>5. BoundInv' /\ OrderInv'
  BY DEF GrantInv, BoundInv, OrderInv, E!Earlier
<1>6. GrantTierInv'
  BY DEF GrantInv, GrantTierInv, E!Target, E!Bound
<1>7. applied \subseteq DOMAIN sent
  BY DEF GrantInv, E!TypeOK
<1>8. \A r, tx : tx \in E!Transaction /\ Holds(r, tx) => Holds(r, tx)'
  <2> SUFFICES ASSUME NEW r, NEW tx \in E!Transaction, Holds(r, tx)
               PROVE  Holds(r, tx)'
    OBVIOUS
  <2>1. tx.state \in {"paid", "retry", "grace", "over", "refunded"} /\ tx.expires \in Int
    BY DEF E!Transaction, E!EntitlementAssumption
  <2>2. tx.expires <= hour => tx.expires <= hour'
    BY <1>1, <2>1
  <2>3. CASE tx.state \in {"paid", "retry", "over"}
    BY <2>2, <2>3 DEF Holds
  <2>4. CASE tx.state = "grace"
    BY <2>4 DEF Holds
  <2>5. CASE tx.state = "refunded"
    BY <2>5 DEF Holds
  <2> QED BY <2>1, <2>3, <2>4, <2>5
<1>9. RowInv'
  <2> SUFFICES ASSUME straight, NEW i \in applied, NEW u \in Ids, Latest(i),
                      u \in E!Target(sent[i].sub), wrote[u] \subseteq {sent[i].sub}
               PROVE  (Holds(row[u], sent[i].tx))'
    <3>1. \A i : Latest(i)' = Latest(i) /\ E!Target(sent[i].sub)' = E!Target(sent[i].sub)
      BY DEF Latest, E!Target, E!Bound
    <3> QED BY <3>1 DEF RowInv
  <2>1. Holds(row[u], sent[i].tx) /\ sent[i].tx \in E!Transaction
    BY <1>2, <1>7 DEF GrantInv, RowInv, E!Notification
  <2> QED BY <1>8, <2>1 DEF Holds
<1> QED BY <1>4, <1>5, <1>6, <1>9 DEF GrantInv

\* The row a subscription's notification is written to.
LEMMA Targeted ==
  ASSUME E!EntitlementAssumption, E!TypeOK, BoundInv, NEW s \in Purchases
  PROVE  /\ E!Bound(s) \subseteq Ids
         /\ truth[s] # None => E!Target(s) \in SUBSET Ids /\ \E u \in Ids : E!Target(s) = {u}
<1>1. E!Bound(s) \subseteq Ids /\ \A u, v \in E!Bound(s) : u = v
  BY DEF E!Bound, BoundInv, E!EntitlementAssumption
<1>2. truth[s] # None => truth[s].token \in Ids \ {None}
  BY DEF E!TypeOK, E!Transaction, E!EntitlementAssumption
<1> QED BY <1>1, <1>2 DEF E!Target

LEMMA TickStep ==
  ASSUME E!EntitlementAssumption, GrantInv, E!Tick
  PROVE  GrantInv'
<1>1. E!TypeOK' /\ hour' >= hour
  BY DEF GrantInv, E!TypeOK, E!Tick, E!EntitlementAssumption
<1>2. HookInv'
  BY DEF GrantInv, HookInv, E!Tick
<1> QED BY <1>1, <1>2, QuietStep DEF E!Tick

LEMMA ClaimStep ==
  ASSUME E!EntitlementAssumption, GrantInv, NEW w \in Workers, NEW i \in DOMAIN sent, E!Claim(w, i)
  PROVE  GrantInv'
<1>1. i \in Nat /\ sent[i].sub \in Purchases /\ truth[sent[i].sub] # None
  BY Told DEF GrantInv, StoryInv, E!Notification
<1>2. E!Target(sent[i].sub) \in SUBSET Ids
  BY <1>1, Targeted DEF GrantInv
<1> DEFINE h == [at |-> i, to |-> E!Target(sent[i].sub)]
<1>3. h \in [at : Nat, to : SUBSET Ids] /\ h.at = i
  BY <1>1, <1>2
<1> HIDE DEF h
<1>4. i \notin claimed /\ claimed' = claimed \cup {i} /\ hook' = [hook EXCEPT ![w] = h]
  BY DEF E!Claim, h
<1>5. UNCHANGED <<hour, truth, sent, row, applied, report, wrote, straight>>
  BY DEF E!Claim
<1>6. E!TypeOK' /\ hour' >= hour
  BY <1>3, <1>4, <1>5 DEF GrantInv, E!TypeOK
<1>7. hook \in [Workers -> [at : Nat, to : SUBSET Ids] \cup {None}] /\ applied \subseteq claimed
  BY DEF GrantInv, E!TypeOK
<1>8. HookInv'
  BY <1>3, <1>4, <1>5, <1>7 DEF GrantInv, HookInv
<1> QED BY <1>5, <1>6, <1>8, QuietStep

LEMMA ReleaseStep ==
  ASSUME E!EntitlementAssumption, GrantInv, NEW w \in Workers, E!Release(w)
  PROVE  GrantInv'
<1>1. claimed' = claimed \ {hook[w].at} /\ hook' = [hook EXCEPT ![w] = None] /\ hook[w] # None
  BY DEF E!Release
<1>2. UNCHANGED <<hour, truth, sent, row, applied, report, wrote, straight>>
  BY DEF E!Release
<1>3. hook[w].at \notin applied
  BY <1>1 DEF GrantInv, HookInv
<1>4. E!TypeOK' /\ hour' >= hour
  BY <1>1, <1>2, <1>3 DEF GrantInv, E!TypeOK
<1>5. hook \in [Workers -> [at : Nat, to : SUBSET Ids] \cup {None}]
  BY DEF GrantInv, E!TypeOK
<1>6. HookInv'
  BY <1>1, <1>2, <1>5 DEF GrantInv, HookInv
<1> QED BY <1>2, <1>4, <1>6, QuietStep

LEMMA ReportStep ==
  ASSUME E!EntitlementAssumption, GrantInv, NEW c \in Clients, NEW u \in Ids, NEW i \in DOMAIN sent,
         E!Report(c, u, i)
  PROVE  GrantInv'
<1>1. i \in Nat
  BY Told DEF GrantInv
<1>2. report' = [report EXCEPT ![c] = [user |-> u, at |-> i]]
  BY DEF E!Report
<1>3. UNCHANGED <<hour, truth, sent, row, claimed, applied, hook, wrote, straight>>
  BY DEF E!Report
<1>4. E!TypeOK' /\ hour' >= hour
  BY <1>1, <1>2, <1>3 DEF GrantInv, E!TypeOK
<1>5. HookInv'
  BY <1>2, <1>3 DEF GrantInv, HookInv, E!TypeOK
<1> QED BY <1>3, <1>4, <1>5, QuietStep

LEMMA CrashStep ==
  ASSUME E!EntitlementAssumption, GrantInv, E!Crash
  PROVE  GrantInv'
<1>1. E!TypeOK' /\ hour' >= hour
  BY DEF GrantInv, E!TypeOK, E!Crash
<1>2. HookInv'
  BY DEF GrantInv, HookInv, E!Crash
<1> QED BY <1>1, <1>2, QuietStep DEF E!Crash

\* A notification is written to the row of its subscription after the earlier ones: when it is the
\* last, the row agrees with Apple, and when it is not, nothing is claimed of the row yet.
LEMMA ApplyNotificationStep ==
  ASSUME E!EntitlementAssumption, GrantInv, NEW w \in Workers, E!ApplyNotification(w)
  PROVE  GrantInv'
<1>1. PICK i : i = hook[w].at
  OBVIOUS
<1>2. PICK to : to = hook[w].to
  OBVIOUS
<1>3. /\ hook[w] # None /\ hook' = [hook EXCEPT ![w] = None] /\ applied' = applied \cup {i}
      /\ row' = [u \in Ids |-> IF u \in to THEN E!Patch(row[u], sent[i]) ELSE row[u]]
      /\ wrote' = [u \in Ids |-> IF u \in to THEN wrote[u] \cup {sent[i].sub} ELSE wrote[u]]
      /\ straight' = (straight /\ E!Earlier(i) \subseteq applied /\ to = E!Target(sent[i].sub))
      /\ UNCHANGED <<hour, truth, sent, claimed, report>>
  BY <1>1, <1>2 DEF E!ApplyNotification
<1>4. i \in claimed \ applied /\ i \in DOMAIN sent /\ applied \subseteq DOMAIN sent
  BY <1>1, <1>3 DEF GrantInv, HookInv, E!TypeOK
<1>5. /\ sent[i] \in E!Notification /\ Means(sent[i]) /\ sent[i].sub \in Purchases
      /\ \A j \in DOMAIN sent : sent[j] \in E!Notification /\ sent[j].sub \in Purchases
  BY <1>4, Told DEF GrantInv, StoryInv, E!Notification
<1>6. row \in [Ids -> RowType] /\ wrote \in [Ids -> SUBSET Purchases] /\ straight \in BOOLEAN
  BY DEF GrantInv, E!TypeOK, RowType
<1>7. \A u \in Ids : /\ row'[u] \in RowType /\ row'[u].bound = row[u].bound
                     /\ u \in to => /\ row'[u] = E!Patch(row[u], sent[i])
                                    /\ row'[u].tier \in {row[u].tier, sent[i].tx.tier}
                                    /\ sent[i].type = "SUBSCRIBED" => row'[u].tier = sent[i].tx.tier
                                    /\ Holds(row'[u], sent[i].tx)
                                    /\ wrote'[u] = wrote[u] \cup {sent[i].sub}
                     /\ u \notin to => row'[u] = row[u] /\ wrote'[u] = wrote[u]
  <2> SUFFICES ASSUME NEW u \in Ids
               PROVE  /\ row'[u] \in RowType /\ row'[u].bound = row[u].bound
                      /\ u \in to => /\ row'[u] = E!Patch(row[u], sent[i])
                                     /\ row'[u].tier \in {row[u].tier, sent[i].tx.tier}
                                     /\ sent[i].type = "SUBSCRIBED" => row'[u].tier = sent[i].tx.tier
                                     /\ Holds(row'[u], sent[i].tx)
                                     /\ wrote'[u] = wrote[u] \cup {sent[i].sub}
                      /\ u \notin to => row'[u] = row[u] /\ wrote'[u] = wrote[u]
    OBVIOUS
  <2>1. row[u] \in RowType
    BY <1>6
  <2>2. CASE u \in to
    <3>1. row'[u] = E!Patch(row[u], sent[i]) /\ wrote'[u] = wrote[u] \cup {sent[i].sub}
      BY <1>3, <2>2
    <3> QED BY <1>5, <2>1, <2>2, <3>1, Patched DEF GrantInv
  <2>3. CASE u \notin to
    BY <1>3, <2>1, <2>3
  <2> QED BY <2>2, <2>3
<1>8. E!TypeOK'
  <2>1. row' \in [Ids -> RowType] /\ wrote' \in [Ids -> SUBSET Purchases]
    BY <1>3, <1>5, <1>6, <1>7
  <2> QED BY <1>3, <1>4, <2>1 DEF GrantInv, E!TypeOK, RowType
<1>9. StoryInv'
  BY <1>3 DEF GrantInv, StoryInv, Latest, E!Earlier, Means
<1>10. HookInv'
  BY <1>1, <1>3 DEF GrantInv, HookInv, E!TypeOK
<1>a. (\A u \in Ids : row'[u].bound = row[u].bound) /\ truth' = truth
  BY <1>3, <1>7
<1>11. BoundInv'
  BY <1>a DEF GrantInv, BoundInv
<1>12. OrderInv'
  BY <1>3 DEF GrantInv, OrderInv, E!Earlier
<1>13. \A s : E!Target(s)' = E!Target(s)
  BY <1>a DEF E!Target, E!Bound
<1>14. straight' => straight /\ to = E!Target(sent[i].sub) /\ E!Earlier(i) \subseteq applied
  BY <1>3
<1>15. GrantTierInv'
  <2> SUFFICES ASSUME straight', NEW s \in Purchases, NEW u \in Ids, truth[s] # None,
                      u \in E!Target(s), wrote'[u] \subseteq {s},
                      row[u].bound = s \/ \E j \in applied' : sent[j].sub = s
               PROVE  row'[u].tier = truth[s].tier
    <3>1. UNCHANGED <<truth, sent>>
      BY <1>3
    <3> QED BY <3>1, <1>a, <1>13 DEF GrantTierInv
  <2>1. CASE u \in to
    <3>1. sent[i].sub = s /\ wrote[u] \subseteq {s} /\ sent[i].tx.tier = truth[s].tier
      BY <1>4, <1>7, <2>1 DEF GrantInv, StoryInv
    <3>2. CASE E!Earlier(i) = {}
      BY <1>4, <1>7, <2>1, <3>1, <3>2 DEF GrantInv, StoryInv
    <3>3. CASE E!Earlier(i) # {}
      <4>1. \E j \in applied : sent[j].sub = s
        BY <1>14, <3>1, <3>3 DEF E!Earlier
      <4>2. row[u].tier = truth[s].tier
        BY <1>14, <3>1, <4>1 DEF GrantInv, GrantTierInv
      <4> QED BY <1>7, <2>1, <3>1, <4>2
    <3> QED BY <3>2, <3>3
  <2>2. CASE u \notin to
    <3>1. sent[i].sub # s
      BY <1>14, <2>2
    <3>2. wrote[u] \subseteq {s} /\ (row[u].bound = s \/ \E j \in applied : sent[j].sub = s)
      BY <1>3, <1>7, <2>2, <3>1
    <3>3. row[u].tier = truth[s].tier
      BY <1>14, <3>2 DEF GrantInv, GrantTierInv
    <3> QED BY <1>7, <2>2, <3>3
  <2> QED BY <2>1, <2>2
<1>16. RowInv'
  <2> SUFFICES ASSUME straight', NEW k \in applied', NEW u \in Ids, Latest(k),
                      u \in E!Target(sent[k].sub), wrote'[u] \subseteq {sent[k].sub}
               PROVE  (Holds(row[u], sent[k].tx))'
    BY <1>3, <1>13 DEF RowInv, Latest
  <2>1. k \in DOMAIN sent /\ sent[k] \in E!Notification
    BY <1>3, <1>4, <1>5
  <2>2. CASE u \in to
    <3>1. sent[k].sub = sent[i].sub
      BY <1>7, <2>2
    <3>2. k = i
      <4>1. ~(k < i)
        BY <1>4, <3>1 DEF Latest
      <4>2. CASE k > i
        <5>1. i \in E!Earlier(k) /\ k \in applied
          BY <1>3, <1>4, <2>1, <3>1, <4>2, Told DEF E!Earlier, GrantInv
        <5> QED BY <1>4, <1>14, <5>1 DEF GrantInv, OrderInv
      <4> QED BY <1>4, <2>1, <4>1, <4>2, Told DEF GrantInv
    <3>3. Holds(row'[u], sent[i].tx)
      BY <1>7, <2>2
    <3> QED BY <1>3, <3>2, <3>3 DEF Holds
  <2>3. CASE u \notin to
    <3>1. sent[k].sub # sent[i].sub
      BY <1>14, <2>3
    <3>2. k \in applied /\ wrote[u] \subseteq {sent[k].sub} /\ row'[u] = row[u]
      BY <1>3, <1>7, <2>3, <3>1
    <3>3. Holds(row[u], sent[k].tx)
      BY <1>14, <3>2 DEF GrantInv, RowInv
    <3> QED BY <1>3, <3>2, <3>3 DEF Holds
  <2> QED BY <2>2, <2>3
<1> QED BY <1>8, <1>9, <1>10, <1>11, <1>12, <1>15, <1>16 DEF GrantInv

\* A reported transaction is written where it is not refused. It is the newest when the history
\* stays straight, and then agrees with what Apple holds.
LEMMA ApplyTransactionStep ==
  ASSUME E!EntitlementAssumption, GrantInv, NEW c \in Clients, E!ApplyTransaction(c)
  PROVE  GrantInv'
<1>1. PICK u : u = report[c].user
  OBVIOUS
<1>2. PICK m : m = report[c].at
  OBVIOUS
<1>3. report[c] # None /\ report' = [report EXCEPT ![c] = None]
      /\ UNCHANGED <<hour, truth, sent, claimed, applied, hook>>
  BY DEF E!ApplyTransaction
<1>4. m \in DOMAIN sent /\ u \in Ids
  BY <1>1, <1>2, <1>3 DEF GrantInv, HookInv, E!TypeOK
<1>5. sent[m] \in E!Notification /\ Means(sent[m]) /\ sent[m].sub \in Purchases
      /\ \A j \in DOMAIN sent : sent[j] \in E!Notification /\ sent[j].sub \in Purchases
  BY <1>4, Told DEF GrantInv, StoryInv, E!Notification
<1>6. PICK s \in Purchases : s = sent[m].sub
  BY <1>5
<1>7. row \in [Ids -> RowType] /\ wrote \in [Ids -> SUBSET Purchases] /\ straight \in BOOLEAN
  BY DEF GrantInv, E!TypeOK, RowType
<1>8. HookInv'
  BY <1>3 DEF GrantInv, HookInv, E!TypeOK
<1>9. CASE ~(E!Bound(s) \subseteq {u})
  <2>1. UNCHANGED <<row, wrote, straight>>
    BY <1>1, <1>2, <1>6, <1>9 DEF E!ApplyTransaction
  <2>2. E!TypeOK' /\ hour' >= hour
    BY <1>3, <2>1 DEF GrantInv, E!TypeOK
  <2> QED BY <1>3, <1>8, <2>1, <2>2, QuietStep
<1>10. CASE E!Bound(s) \subseteq {u}
  <2> DEFINE new == Reported(row[u], s, sent[m].tx)
  <2>1. /\ row' = [row EXCEPT ![u] = new]
        /\ wrote' = [wrote EXCEPT ![u] = @ \cup {s}]
        /\ straight' = (/\ straight /\ \A j \in DOMAIN sent : sent[j].sub = s => j <= m
                        /\ sent[m].tx.grace = None /\ row[u].bound \in {None, s})
    BY <1>1, <1>2, <1>6, <1>10 DEF E!ApplyTransaction, Reported
  <2>2. /\ new \in RowType /\ new.bound = s /\ new.tier = sent[m].tx.tier
        /\ sent[m].tx.grace = None => Holds(new, sent[m].tx)
    BY <1>5, ReportedAgrees DEF GrantInv
  <2> HIDE DEF new
  <2>3. row' \in [Ids -> RowType] /\ wrote' \in [Ids -> SUBSET Purchases]
    BY <1>6, <1>7, <2>1, <2>2
  <2>4. /\ row'[u] = new /\ wrote'[u] = wrote[u] \cup {s}
        /\ \A v \in Ids \ {u} : row'[v] = row[v] /\ wrote'[v] = wrote[v]
    BY <1>4, <1>7, <2>1
  <2>5. E!TypeOK'
    BY <1>3, <2>1, <2>3 DEF GrantInv, E!TypeOK, RowType
  <2>6. StoryInv'
    BY <1>3 DEF GrantInv, StoryInv, Latest, E!Earlier, Means
  <2>7. s # None /\ truth[s] # None
    BY <1>4, <1>6 DEF GrantInv, StoryInv, E!EntitlementAssumption
  <2>8. \A v \in Ids \ {u} : row[v].bound # s
    BY <1>10 DEF E!Bound
  <2>9. BoundInv'
    <3>1. \A v, w \in Ids : row'[v].bound # None /\ row'[v].bound = row'[w].bound => v = w
      BY <2>2, <2>4, <2>8 DEF GrantInv, BoundInv
    <3>2. \A v \in Ids : row'[v].bound # None => truth'[row'[v].bound] # None
      BY <1>3, <2>2, <2>4, <2>7 DEF GrantInv, BoundInv
    <3> QED BY <3>1, <3>2 DEF BoundInv
  <2>10. OrderInv'
    BY <1>3, <2>1 DEF GrantInv, OrderInv, E!Earlier
  <2>11. E!Bound(s)' = {u}
    BY <1>4, <2>2, <2>4, <2>8 DEF E!Bound
  <2>12. E!Target(s)' = {u}
    BY <2>11 DEF E!Target
  <2>13. ASSUME straight', NEW o \in Purchases, o # s
         PROVE  E!Target(o)' = E!Target(o)
    <3>1. row[u].bound \in {None, s}
      BY <2>1, <2>13
    <3>2. \A v \in Ids : row'[v].bound = o <=> row[v].bound = o
      BY <2>2, <2>4, <2>13, <3>1 DEF E!EntitlementAssumption
    <3>3. E!Bound(o)' = E!Bound(o)
      BY <3>2 DEF E!Bound
    <3> QED BY <1>3, <3>3 DEF E!Target
  <2>14. straight' => /\ straight /\ sent[m].tx.grace = None
                      /\ \A j \in DOMAIN sent : sent[j].sub = s => j <= m
    BY <2>1
  <2>15. GrantTierInv'
    <3> SUFFICES ASSUME straight', NEW o \in Purchases, NEW v \in Ids, truth[o] # None,
                        v \in E!Target(o)', wrote'[v] \subseteq {o},
                        row'[v].bound = o \/ \E j \in applied : sent[j].sub = o
                 PROVE  row'[v].tier = truth[o].tier
      BY <1>3 DEF GrantTierInv
    <3>1. CASE v = u
      <4>1. o = s
        BY <2>4, <3>1
      <4>2. sent[m].tx.tier = truth[s].tier
        BY <1>4, <1>6 DEF GrantInv, StoryInv
      <4> QED BY <2>2, <2>4, <3>1, <4>1, <4>2
    <3>2. CASE v # u
      <4>1. o # s
        BY <2>12, <3>2
      <4>2. v \in E!Target(o) /\ wrote[v] \subseteq {o} /\ row'[v] = row[v]
        BY <2>4, <2>13, <3>2, <4>1
      <4> QED BY <2>14, <4>2 DEF GrantInv, GrantTierInv
    <3> QED BY <3>1, <3>2
  <2>16. applied \subseteq DOMAIN sent /\ DOMAIN sent \subseteq Nat
    BY Told DEF GrantInv, E!TypeOK
  <2>17. RowInv'
    <3> SUFFICES ASSUME straight', NEW k \in applied, NEW v \in Ids, Latest(k),
                        v \in E!Target(sent[k].sub)', wrote'[v] \subseteq {sent[k].sub}
                 PROVE  (Holds(row[v], sent[k].tx))'
      <4>1. \A k : Latest(k)' = Latest(k)
        BY <1>3 DEF Latest
      <4> QED BY <1>3, <4>1 DEF RowInv
    <3>1. PICK o \in Purchases : o = sent[k].sub
      BY <1>5, <2>16
    <3>2. v \in E!Target(o)'
      BY <1>3, <3>1
    <3>3. CASE v = u
      <4>1. o = s
        BY <2>4, <3>1, <3>3
      <4>2. k = m
        <5>1. k \in DOMAIN sent /\ k \in Nat /\ m \in Nat /\ sent[k].sub = s
          BY <1>4, <2>16, <3>1, <4>1
        <5>2. k <= m
          BY <2>14, <5>1
        <5>3. ~(m > k)
          BY <1>4, <1>6, <5>1 DEF Latest
        <5> QED BY <5>1, <5>2, <5>3
      <4>3. Holds(row'[v], sent[k].tx)
        BY <2>2, <2>4, <2>14, <3>3, <4>2
      <4> QED BY <1>3, <4>3 DEF Holds
    <3>4. CASE v # u
      <4>1. o # s
        BY <2>12, <3>2, <3>4
      <4>2. v \in E!Target(o) /\ wrote[v] \subseteq {o} /\ row'[v] = row[v]
        BY <2>4, <2>13, <3>1, <3>2, <3>4, <4>1
      <4>3. Holds(row[v], sent[k].tx)
        BY <2>14, <3>1, <4>2 DEF GrantInv, RowInv
      <4> QED BY <1>3, <4>2, <4>3 DEF Holds
    <3> QED BY <3>3, <3>4
  <2> QED BY <1>8, <2>5, <2>6, <2>9, <2>10, <2>15, <2>17 DEF GrantInv
<1> QED BY <1>9, <1>10

LEMMA StartsSound ==
  ASSUME E!EntitlementAssumption, E!Init
  PROVE  GrantInv
<1>1. E!TypeOK
  BY DEF E!Init, E!TypeOK, E!Free, E!Statuses, E!Moments, E!EntitlementAssumption
<1>2. StoryInv /\ HookInv /\ BoundInv /\ OrderInv /\ RowInv
  BY DEF E!Init, StoryInv, HookInv, BoundInv, OrderInv, RowInv, E!Free
<1>3. GrantTierInv
  BY DEF E!Init, GrantTierInv
<1> QED BY <1>1, <1>2, <1>3 DEF GrantInv

LEMMA StepSound ==
  ASSUME E!EntitlementAssumption, GrantInv, [E!Next]_E!vars
  PROVE  GrantInv'
<1>1. CASE E!Tick
  BY <1>1, TickStep
<1>2. CASE E!Crash
  BY <1>2, CrashStep
<1>3. ASSUME NEW s \in Purchases, E!Apple(s) \/ \E u \in Ids, tier \in Tiers : E!Purchase(s, u, tier)
      PROVE  GrantInv'
  BY <1>3, AppleStep
<1>4. ASSUME NEW w \in Workers,
             E!ApplyNotification(w) \/ E!Release(w) \/ \E i \in DOMAIN sent : E!Claim(w, i)
      PROVE  GrantInv'
  BY <1>4, ApplyNotificationStep, ReleaseStep, ClaimStep
<1>5. ASSUME NEW c \in Clients,
             E!ApplyTransaction(c) \/ \E u \in Ids, i \in DOMAIN sent : E!Report(c, u, i)
      PROVE  GrantInv'
  BY <1>5, ApplyTransactionStep, ReportStep
<1>6. CASE UNCHANGED E!vars
  <2>1. E!TypeOK' /\ HookInv' /\ hour' >= hour
    BY <1>6 DEF E!vars, GrantInv, E!TypeOK, HookInv
  <2> QED BY <1>6, <2>1, QuietStep DEF E!vars
<1> QED BY <1>1, <1>2, <1>3, <1>4, <1>5, <1>6 DEF E!Next

\* When all of it is applied, a subscription's own row grants what Apple says it is good for.
LEMMA Follows ==
  ASSUME E!EntitlementAssumption, GrantInv
  PROVE  E!FollowsApple
<1> SUFFICES ASSUME NEW s \in Purchases, straight, truth[s] # None, NEW u \in Ids, u \in E!Target(s),
                    \A i \in DOMAIN sent : sent[i].sub = s => i \in applied, wrote[u] \subseteq {s}
             PROVE  E!Tier(u) = IF E!Paid(s) THEN truth[s].tier ELSE "free"
  BY Targeted DEF E!FollowsApple, GrantInv
<1>1. PICK i \in DOMAIN sent : sent[i].sub = s /\ Latest(i) /\ i \in applied
  BY DEF GrantInv, StoryInv
<1>2. sent[i].tx = truth[s] /\ Means(sent[i]) /\ sent[i] \in E!Notification
  BY <1>1, Told DEF GrantInv, StoryInv
<1>3. row[u].tier = truth[s].tier
  BY <1>1 DEF GrantInv, GrantTierInv
<1>4. Holds(row[u], truth[s])
  BY <1>1, <1>2 DEF GrantInv, RowInv
<1>5. /\ truth[s].state \in {"paid", "retry", "over", "grace", "refunded"} /\ truth[s].tier \in Tiers
      /\ truth[s].expires \in Nat /\ truth[s].grace \in Nat \cup {None} /\ hour \in Nat
      /\ "free" \notin Tiers /\ Grace \in Nat \ {0} /\ None \notin Nat
  BY DEF GrantInv, E!TypeOK, E!Transaction, E!Moments, E!EntitlementAssumption
<1>6. /\ truth[s].state = "over" => truth[s].expires <= hour
      /\ truth[s].state = "grace" => truth[s].grace # None /\ truth[s].grace = truth[s].expires + Grace
  BY <1>2 DEF Means
<1>7. row[u].tier # "free"
  BY <1>3, <1>5
<1>8. CASE truth[s].state \in {"paid", "retry", "over"}
  <2>1. E!Paid(s) <=> hour < truth[s].expires
    BY <1>8 DEF E!Paid
  <2>2. \/ row[u].status \in {"active", "billing_retry"} /\ row[u].expires = truth[s].expires
        \/ row[u].status = "expired" /\ truth[s].expires <= hour
    BY <1>4, <1>8 DEF Holds
  <2>3. E!Granted(u) <=> hour < truth[s].expires
    BY <1>5, <1>7, <2>2 DEF E!Granted, E!EntitledUntil
  <2> QED BY <1>3, <2>1, <2>3 DEF E!Tier
<1>9. CASE truth[s].state = "grace"
  <2>1. E!Paid(s) <=> hour < truth[s].grace
    BY <1>9 DEF E!Paid
  <2>2. row[u].status = "grace" /\ row[u].grace = truth[s].grace /\ row[u].expires = truth[s].expires
    BY <1>4, <1>9 DEF Holds
  <2>3. E!EntitledUntil(row[u]) = truth[s].grace
    BY <1>5, <1>6, <1>9, <2>2 DEF E!EntitledUntil
  <2> QED BY <1>3, <1>7, <2>1, <2>2, <2>3 DEF E!Granted, E!Tier
<1>10. CASE truth[s].state = "refunded"
  <2>1. ~E!Paid(s) /\ row[u].status = "revoked"
    BY <1>4, <1>10 DEF E!Paid, Holds
  <2> QED BY <2>1 DEF E!Granted, E!Tier
<1> QED BY <1>5, <1>8, <1>9, <1>10

-----------------------------------------------------------------------------
(* The sum of the machines *)

\* Every step is a step or a stutter of each machine.
LEMMA OneMoves ==
  ASSUME [MCNext]_<<machine, vars, sVars, kVars, eVars>>
  PROVE  /\ machine' = machine /\ [Next]_vars /\ [S!Next]_S!vars /\ [E!Next]_E!vars
         /\ machine = "keys" => [K!Next]_K!vars
BY DEF MCNext, Uncopied, Copied, sVars, kVars, eVars, S!vars, K!vars, E!vars

SessionInv == S!TypeOK /\ CapInv /\ UseInv /\ MintedInv /\ S!BoundedLife
MachinesInv == TypeOK /\ SessionInv /\ GrantInv /\ (machine = "keys" => KInv)

LEMMA MachinesStart ==
  ASSUME MCInit
  PROVE  MachinesInv
<1>1. Init => TypeOK
  BY TypeInit
<1>2. S!Init => SessionInv
  <2>1. S!Init => S!TypeOK
    BY MachinesAssumption DEF S!SessionsAssumption, S!Init, S!TypeOK, S!Request, S!Idle, S!Purposes
  <2>2. S!Init => UseInv /\ MintedInv /\ S!BoundedLife
    BY DEF S!Init, S!Idle, UseInv, MintedInv, S!BoundedLife, S!Live
  <2> QED BY <2>1, <2>2, CapInit, MachinesAssumption DEF SessionInv
<1>3. E!Init => GrantInv
  BY StartsSound, MachinesAssumption
<1>4. machine = "keys" => KInv
  BY KeysStart, MachinesAssumption DEF MCInit
<1> QED BY <1>1, <1>2, <1>3, <1>4 DEF MCInit, MachinesInv

LEMMA MachinesStep ==
  ASSUME MachinesInv, [MCNext]_<<machine, vars, sVars, kVars, eVars>>
  PROVE  MachinesInv'
<1>1. TypeOK'
  BY OneMoves, TypeStep DEF MachinesInv
<1>2. SessionInv'
  BY OneMoves, SessionTypeStep, CapStep, AgeStep, MachinesAssumption DEF MachinesInv, SessionInv
<1>3. GrantInv'
  BY OneMoves, StepSound, MachinesAssumption DEF MachinesInv
<1>4. machine' = "keys" => KInv'
  BY OneMoves, KeysStep, MachinesAssumption DEF MachinesInv
<1> QED BY <1>1, <1>2, <1>3, <1>4 DEF MachinesInv

\* Every variable of every machine keeps its type.
THEOREM MachinesTyped == MCSpec => []TypesOK
<1>1. MachinesInv => TypesOK
  BY DEF MachinesInv, SessionInv, GrantInv, KInv, TypesOK
<1> QED BY <1>1, MachinesStart, MachinesStep, PTL DEF MCSpec

\* Concurrent sign-ins never leave more sessions than the cap and one for each of them that is
\* unfinished, and no use prolongs a session past its absolute life and one more window
\* (store/sessions.ts).
THEOREM SessionSafety == MCSpec => []SessionsBounded
<1>1. MachinesInv => SessionsBounded
  BY CapFollows, MachinesAssumption DEF MachinesInv, SessionInv, SessionsBounded, S!SessionsBounded
<1> QED BY <1>1, MachinesStart, MachinesStep, PTL DEF MCSpec

\* A request that passed its check before goes on to write by id: it finds the row or nothing
\* (store/sessions.ts).
THEOREM EndedSafety == MCSpec => EndedStaysEnded
<1>1. MachinesInv /\ [MCNext]_<<machine, vars, sVars, kVars, eVars>> =>
        [\A t \in minted : sessions[t] = NoRow => sessions'[t] = NoRow]_S!vars
  BY OneMoves, NothingReturns DEF MachinesInv, SessionInv
<1> QED BY <1>1, MachinesStart, MachinesStep, PTL DEF MCSpec, EndedStaysEnded, S!EndedStaysEnded

\* Whatever requests write while interrupted sweeps and backfills go by, the keys dropped after a
\* sweep that rewrote nothing are needed by no column it lists and by no override, and every
\* override is found (db/rotate-encryption-key.ts).
THEOREM KeySafety == MCSpec => []DroppedKeyUnused
<1>1. MachinesInv => DroppedKeyUnused
  BY KeysFollow, MachinesAssumption DEF MachinesInv, DroppedKeyUnused
<1> QED BY <1>1, MachinesStart, MachinesStep, PTL DEF MCSpec

\* Delivered in order and in full, however claims, releases, crashes and reports interleave, the
\* notifications leave the tier Apple holds (webhook/appstore.ts, api/entitlements.ts).
THEOREM AppleFollowed == MCSpec => []FollowsApple
<1>1. MachinesInv => FollowsApple
  BY Follows, MachinesAssumption DEF MachinesInv, FollowsApple
<1> QED BY <1>1, MachinesStart, MachinesStep, PTL DEF MCSpec
=============================================================================
