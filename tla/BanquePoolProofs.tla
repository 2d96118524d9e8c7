--------------------------- MODULE BanquePoolProofs ---------------------------
(***************************************************************************)
(* Theorems about BanquePool, for every number of connections, requests,   *)
(* accounts and amounts.                                                   *)
(*                                                                         *)
(* Core is what BanqueService keeps even though the script resets the table *)
(* under its requests; CreditsRead it does not keep, nor NonNegative.      *)
(***************************************************************************)
EXTENDS BanquePool, BanqueServiceProofs

\* A credit that goes on has the connection of its transaction.
CreditsHold ==
    \A r \in Requests :
      req[r].op = "credit" /\ pc[r] \notin {"new", "received", "done"} => conn[r]

PoolInv ==
    /\ Core
    /\ PoolTypeOK
    /\ CreditsHold

\* Init opens nothing, and nobody runs.
LEMMA PoolInitInv == PoolInit => PoolInv
  <1>. SUFFICES ASSUME PoolInit PROVE PoolInv
    OBVIOUS
  <1>1. Core
    BY InitInv DEF PoolInit, SerialInv, Inv
  <1>2. Holders = {}
    BY DEF PoolInit, Holders
  <1>3. PoolTypeOK
    BY <1>1, <1>2, FS_EmptySet, PoolAssumption DEF PoolInit, PoolTypeOK, Core
  <1>4. CreditsHold
    BY DEF PoolInit, Init, CreditsHold
  <1>. QED
    BY <1>1, <1>3, <1>4 DEF PoolInv

\* Of how many connections are held: no more after some are given back, one
\* more after one is taken.
LEMMA HoldersCounted ==
    ASSUME conn \in [Requests -> BOOLEAN]
    PROVE  /\ Cardinality(Holders) \in Nat
           /\ \A S \in SUBSET Holders : Cardinality(S) <= Cardinality(Holders)
           /\ \A r \in Requests : ~conn[r] =>
                Cardinality(Holders \cup {r}) = Cardinality(Holders) + 1
  <1>1. IsFiniteSet(Holders)
    BY RequestsAssumption, FS_Subset DEF Holders
  <1>. QED
    BY <1>1, FS_CardinalityType, FS_Subset, FS_AddElement DEF Holders

\* What a step of the service keeps of a request's connection.
LEMMA WorkInv ==
    ASSUME PoolInv, NEW r \in Requests, Work(r)
    PROVE  PoolInv'
  <1>. USE DEF PoolInv
  <1>1. Core'
    <2>1. [Next]_vars
      BY DEF Work, Next
    <2>. QED
      BY <2>1, NextCore
  <1>2. /\ conn' = [conn EXCEPT ![r] = conn[r] /\ KeepsConnection(r)]
        /\ opened' = opened
        /\ conn \in [Requests -> BOOLEAN]
        /\ UNCHANGED req
    BY DEF Work, PoolTypeOK, Handle, Validate, UserFound, UserNotFound, ReadCredits,
           ReadDebits, ReadRows, InsertDebit, InsertCredit, Commit, CallFails,
           InsertAnswerLost
  <1>3. conn' \in [Requests -> BOOLEAN]
    BY <1>2
  <1>4. \A s \in Requests : conn'[s] => conn[s]
    BY <1>2
  <1>5. Holders' \subseteq Holders
    BY <1>4 DEF Holders
  <1>6. PoolTypeOK'
    <2>1. Cardinality(Holders') <= Cardinality(Holders)
      BY <1>2, <1>5, HoldersCounted
    <2>2. /\ Cardinality(Holders) \in Nat /\ Cardinality(Holders') \in Nat
          /\ opened \in 0..MaxTotal /\ Cardinality(Holders) <= opened
      <3>1. IsFiniteSet(Holders')
        BY <1>5, RequestsAssumption, FS_Subset DEF Holders
      <3>. QED
        BY <1>2, <3>1, HoldersCounted, FS_CardinalityType DEF PoolTypeOK
    <2>3. Cardinality(Holders') <= opened'
      BY <2>1, <2>2, <1>2, PoolAssumption
    <2>. QED
      BY <1>1, <1>2, <1>3, <2>2, <2>3 DEF PoolTypeOK, Core
  <1>7. /\ pc[r] \notin {"new", "done"}
        /\ \E step \in Steps \ {"new", "received"} : pc' = [pc EXCEPT ![r] = step]
    <2>. req[r].op \in Operations
      BY DEF Work, Handle, Validate, UserFound, UserNotFound, ReadCredits, ReadDebits,
             ReadRows, InsertDebit, InsertCredit, Commit, CallFails, InsertAnswerLost,
             Core, TypeOK, Request
    <2>. QED
      BY DEF Work, Handle, Validate, UserFound, UserNotFound, ReadCredits, ReadDebits,
             ReadRows, InsertDebit, InsertCredit, Commit, CallFails, InsertAnswerLost,
             AfterUserCheck, Goto, Answer, Steps, Operations
  <1>8. CreditsHold'
    <2>1. req[r].op = "credit" => conn[r]
      BY <1>7 DEF CreditsHold, Work, NeedsConnection, Core, TypeOK
    <2>. QED
      BY <1>2, <1>7, <2>1 DEF CreditsHold, KeepsConnection, Core, TypeOK
  <1>. QED
    BY <1>1, <1>6, <1>8

\* The script leaves nothing of the requests' rows, and sums it could have left
\* at the start.
LEMMA OpenConnectionInv ==
    ASSUME PoolInv, NEW r \in Requests, OpenConnection(r)
    PROVE  PoolInv'
  <1>. USE DEF PoolInv
  <1>1. Core'
    BY SeedAssumption, PoolAssumption
       DEF OpenConnection, RunScript, Core, TypeOK, Validated, NotPositive, OverMax,
           NeedsAmount, OnTrack, StoredLate
  <1>2. conn \in [Requests -> BOOLEAN] /\ opened \in 0..MaxTotal /\ MaxTotal \in Nat
    BY PoolAssumption DEF PoolTypeOK
  <1>3. Holders' = Holders \cup {r}
    BY <1>2 DEF OpenConnection, Holders
  <1>4. Cardinality(Holders') = opened'
    BY <1>2, <1>3, HoldersCounted DEF OpenConnection
  <1>5. PoolTypeOK'
    BY <1>1, <1>2, <1>4 DEF OpenConnection, PoolTypeOK, Core
  <1>6. CreditsHold'
    BY <1>2 DEF OpenConnection, NeedsConnection, CreditsHold
  <1>. QED
    BY <1>1, <1>5, <1>6

LEMMA BorrowInv ==
    ASSUME PoolInv, NEW r \in Requests, Borrow(r)
    PROVE  PoolInv'
  <1>. USE DEF PoolInv
  <1>1. Core'
    BY DEF Borrow, vars, Core, TypeOK, Validated, NotPositive, OverMax, NeedsAmount,
           OnTrack, StoredLate
  <1>2. conn \in [Requests -> BOOLEAN] /\ opened \in 0..MaxTotal /\ MaxTotal \in Nat
    BY PoolAssumption DEF PoolTypeOK
  <1>3. Holders' = Holders \cup {r}
    BY <1>2 DEF Borrow, Holders
  <1>4. Cardinality(Holders') <= opened'
    BY <1>2, <1>3, HoldersCounted DEF Borrow
  <1>5. PoolTypeOK'
    BY <1>1, <1>2, <1>4 DEF Borrow, PoolTypeOK, Core
  <1>6. CreditsHold'
    BY <1>2 DEF Borrow, vars, NeedsConnection, CreditsHold
  <1>. QED
    BY <1>1, <1>5, <1>6

LEMMA PoolNextInv == PoolInv /\ [PoolNext]_poolVars => PoolInv'
  <1>. SUFFICES ASSUME PoolInv, [PoolNext]_poolVars PROVE PoolInv'
    OBVIOUS
  <1>. USE DEF PoolInv
  <1>1. ASSUME NEW r \in Requests, NEW q \in Request, Receive(r, q),
               UNCHANGED <<opened, conn>>
        PROVE  PoolInv'
    <2>1. Core'
      BY <1>1, NextCore DEF Next
    <2>2. PoolTypeOK'
      BY <1>1, <2>1 DEF PoolTypeOK, Holders, Core
    <2>3. CreditsHold'
      BY <1>1 DEF Receive, Goto, CreditsHold, Core, TypeOK
    <2>. QED
      BY <2>1, <2>2, <2>3
  <1>2. ASSUME NEW r \in Requests, OpenTimesOut(r) PROVE PoolInv'
    <2>1. Core'
      BY <1>2 DEF OpenTimesOut, Answer, NeedsConnection, store, Steps, Answers, Core,
                  TypeOK, Validated, NotPositive, OverMax, NeedsAmount, OnTrack, StoredLate
    <2>2. PoolTypeOK'
      BY <1>2, <2>1 DEF OpenTimesOut, PoolTypeOK, Holders, Core
    <2>3. CreditsHold'
      BY <1>2 DEF OpenTimesOut, Answer, CreditsHold, Core, TypeOK
    <2>. QED
      BY <2>1, <2>2, <2>3
  <1>3. CASE RegistryChanges /\ UNCHANGED <<opened, conn>>
    <2>1. Core'
      BY <1>3, NextCore DEF Next
    <2>2. PoolTypeOK' /\ CreditsHold'
      BY <1>3, <2>1 DEF RegistryChanges, PoolTypeOK, Holders, Core, CreditsHold
    <2>. QED
      BY <2>1, <2>2
  <1>4. CASE UNCHANGED poolVars
    <2>1. Core'
      BY <1>4, NextCore DEF poolVars
    <2>2. PoolTypeOK' /\ CreditsHold'
      BY <1>4, <2>1 DEF poolVars, vars, PoolTypeOK, Holders, Core, CreditsHold
    <2>. QED
      BY <2>1, <2>2
  <1>. QED
    BY <1>1, <1>2, <1>3, <1>4, BorrowInv, OpenConnectionInv, WorkInv DEF PoolNext

LEMMA PoolSpecInv == PoolSpec => []PoolInv
  BY PoolInitInv, PoolNextInv, PTL DEF PoolSpec

\* The state of the pool and of the service over it: never more connections are
\* held than are open, nor open than the limit.
THEOREM PoolTypeCorrect == PoolSpec => []PoolTypeOK
  <1>1. PoolInv => PoolTypeOK
    BY DEF PoolInv
  <1>. QED
    BY <1>1, PoolSpecInv, PTL

\* A row stored once the pool is full stays stored.
THEOREM RowsStayOnceFull == PoolSpec => StableOnceFull
  <1>1. PoolInv /\ [PoolNext]_poolVars
          => [opened >= MaxTotal => operations \subseteq operations']_poolVars
    <2>. SUFFICES ASSUME PoolInv, PoolNext, opened >= MaxTotal
                  PROVE  operations \subseteq operations'
      OBVIOUS
    <2>1. ASSUME NEW r \in Requests, Work(r)
          PROVE  operations \subseteq operations'
      BY <2>1 DEF Work, Handle, Validate, UserFound, UserNotFound, ReadCredits,
             ReadDebits, ReadRows, InsertDebit, InsertCredit, Commit, CallFails,
             InsertAnswerLost, StoreRow, store
    <2>2. ASSUME NEW r \in Requests, OpenConnection(r)
          PROVE  FALSE
      BY <2>2, PoolAssumption DEF OpenConnection, PoolInv, PoolTypeOK
    <2>. QED
      BY <2>1, <2>2 DEF PoolNext, Receive, Borrow, OpenTimesOut, RegistryChanges, store, vars
  <1>. QED
    BY <1>1, PoolSpecInv, PTL DEF PoolSpec, StableOnceFull

\* A row a credit has inserted is committed to the table it was inserted into: a
\* credit about to commit holds its connection, so the table is locked and the
\* script waits.
THEOREM ScriptWaits == PoolSpec => ScriptWaitsForTransactions
  <1>1. PoolInv /\ [PoolNext]_poolVars
          => [(\E r \in Requests : pc[r] = "commit") => opened' = opened]_poolVars
    <2>. SUFFICES ASSUME PoolInv, PoolNext, NEW r \in Requests, pc[r] = "commit"
                  PROVE  opened' = opened
      OBVIOUS
    <2>1. TableLocked
      BY DEF TableLocked, PoolInv, Core, OnTrack, CreditsHold
    <2>. QED
      BY <2>1 DEF PoolNext, Borrow, OpenConnection, OpenTimesOut, Work
  <1>. QED
    BY <1>1, PoolSpecInv, PTL DEF PoolSpec, ScriptWaitsForTransactions

-----------------------------------------------------------------------------
\* The script puts the rows and the sums back together: what the table holds
\* and what its queries answer agree at every moment, however often it is run.
THEOREM SumsAreOfRowsInPool == PoolSpec => []SumsMatchRows
  <1>. DEFINE I == PoolInv /\ RowsLawful /\ SumsMatchRows
  <1>1. PoolInit => I
    BY PoolInitInv, InitSums DEF PoolInit, SumsInv
  <1>2. I /\ [PoolNext]_poolVars => I'
    <2>. SUFFICES ASSUME PoolInv, RowsLawful, SumsMatchRows, [PoolNext]_poolVars
                  PROVE  RowsLawful' /\ SumsMatchRows'
      BY PoolNextInv
    <2>. USE DEF PoolInv
    <2>1. ASSUME NEW r \in Requests, OpenConnection(r)
          PROVE  RowsLawful' /\ SumsMatchRows'
      <3>1. RowsLawful'
        BY <2>1 DEF OpenConnection, RunScript, RowsLawful
      <3>2. ASSUME NEW op, NEW u
            PROVE  SumOf(RowsOf(op, u))' = 0
        <4>1. Cents(RowsOf(op, u), req)' = {}
          BY <2>1 DEF OpenConnection, RunScript, Cents, RowsOf
        <4>. QED
          BY <4>1, FS_EmptySet DEF SumOf
      <3>3. SumsMatchRows'
        BY <2>1, <3>2, SeedAssumption DEF OpenConnection, RunScript, SumsMatchRows
      <3>. QED
        BY <3>1, <3>3
    <2>2. ASSUME NEW r \in Requests, Work(r)
          PROVE  RowsLawful' /\ SumsMatchRows'
      <3>1. [Next]_vars
        BY <2>2 DEF Work, Next
      <3>. QED
        BY <3>1, StoreSteps, RowAdds, RowsStay DEF Core
    <2>3. ASSUME NEW r \in Requests, NEW q \in Request, Receive(r, q)
          PROVE  RowsLawful' /\ SumsMatchRows'
      <3>1. [Next]_vars
        BY <2>3 DEF Next
      <3>. QED
        BY <3>1, StoreSteps, RowAdds, RowsStay DEF Core
    <2>4. CASE \/ \E r \in Requests : Borrow(r) \/ OpenTimesOut(r)
               \/ RegistryChanges
               \/ UNCHANGED poolVars
      <3>1. UNCHANGED <<store, req>>
        BY <2>4 DEF Borrow, OpenTimesOut, RegistryChanges, poolVars, vars, store
      <3>. QED
        BY <3>1, RowsStay
    <2>. QED
      BY <2>1, <2>2, <2>3, <2>4 DEF PoolNext
  <1>3. I => SumsMatchRows
    OBVIOUS
  <1>. QED
    BY <1>1, <1>2, <1>3, PTL DEF PoolSpec

-----------------------------------------------------------------------------
\* How far debits can overdraw an account whose table is reset under them.

\* The debits of an account that have counted credits it no longer has: what
\* they read decides whatever the account holds now.
Stale(u) == {r \in InFlight(u) : pc[r] = "readDebits" /\ credits[r] > credited[u]}

\* The granted debits will be inserted, and the stale ones may be granted.
PendingBound(most) ==
    \A u \in Identifiers :
      Balance(u) - SumOf(Granted(u)) - Cardinality(Stale(u)) * most
        >= -(DebitsInFlight * most)

PendingInv ==
    /\ PoolInv
    /\ InFlightBounded
    /\ \A most \in Nat : IsMost(most) => PendingBound(most)

\* A product of a sum.
LEMMA TimesAdds ==
    ASSUME NEW m \in Nat, NEW n \in Nat, NEW most \in Nat
    PROVE  (m + n) * most = m * most + n * most
  OBVIOUS

\* What granted debits and others beside them can take, if all are among some
\* debits in flight: as much as those at the most.
LEMMA PendingIsBounded ==
    ASSUME Core, NEW most \in Nat, IsMost(most), NEW u \in Identifiers,
           NEW S \in SUBSET InFlight(u), NEW T \in SUBSET S,
           Granted(u) \subseteq S, T \cap Granted(u) = {}
    PROVE  /\ Cardinality(T) \in Nat /\ Cardinality(S) \in Nat
           /\ SumOf(Granted(u)) + Cardinality(T) * most <= Cardinality(S) * most
  <1>1. /\ IsFiniteSet(InFlight(u)) /\ IsFiniteSet(Granted(u))
        /\ \A r \in Granted(u) : req[r].amount \in Int /\ req[r].amount <= most
        /\ SumOf(Granted(u)) \in Nat
    BY GrantedTyped DEF IsMost
  <1>2. IsFiniteSet(S) /\ IsFiniteSet(T)
    BY <1>1, FS_Subset
  <1>3. /\ Cardinality(T) \in Nat /\ Cardinality(S) \in Nat
        /\ Cardinality(Granted(u)) \in Nat
    BY <1>1, <1>2, FS_CardinalityType
  <1>4. Cardinality(Granted(u)) + Cardinality(T) <= Cardinality(S)
    <2>1. Cardinality(Granted(u) \cup T)
            = Cardinality(Granted(u)) + Cardinality(T) - Cardinality(Granted(u) \cap T)
      BY <1>1, <1>2, FS_Union
    <2>2. Cardinality(Granted(u) \cap T) = 0
      <3>1. Granted(u) \cap T = {}
        OBVIOUS
      <3>. QED
        BY <3>1, FS_EmptySet
    <2>3. Cardinality(Granted(u) \cup T) <= Cardinality(S)
      BY <1>2, FS_Subset
    <2>. QED
      BY <1>3, <2>1, <2>2, <2>3
  <1>5. SumOf(Granted(u)) <= Cardinality(Granted(u)) * most
    BY <1>1, CentsBound DEF SumOf
  <1>6. (Cardinality(Granted(u)) + Cardinality(T)) * most
          = Cardinality(Granted(u)) * most + Cardinality(T) * most
    BY <1>3, TimesAdds
  <1>7. (Cardinality(Granted(u)) + Cardinality(T)) * most <= Cardinality(S) * most
    BY <1>3, <1>4, TimesGrows
  <1>. QED
    BY <1>1, <1>3, <1>5, <1>6, <1>7

\* The numbers of the bound.
LEMMA PendingTyped ==
    ASSUME Core, NEW most \in Nat, NEW u \in Identifiers
    PROVE  /\ IsFiniteSet(Stale(u)) /\ Stale(u) \subseteq InFlight(u)
           /\ Cardinality(Stale(u)) \in Nat
           /\ Cardinality(Stale(u)) * most \in Nat
           /\ Stale(u) \cap Granted(u) = {}
           /\ SumOf(Granted(u)) \in Nat
           /\ Balance(u) \in Int
           /\ DebitsInFlight * most \in Nat
  <1>1. /\ IsFiniteSet(InFlight(u)) /\ SumOf(Granted(u)) \in Nat /\ Balance(u) \in Int
    BY GrantedTyped
  <1>2. Stale(u) \subseteq InFlight(u) /\ Stale(u) \cap Granted(u) = {}
    BY DEF Stale, Granted
  <1>3. IsFiniteSet(Stale(u)) /\ Cardinality(Stale(u)) \in Nat
    BY <1>1, <1>2, FS_Subset, FS_CardinalityType
  <1>4. Cardinality(Stale(u)) * most \in Nat /\ DebitsInFlight * most \in Nat
    BY <1>3, ClientsAssumption
  <1>. QED
    BY <1>1, <1>2, <1>3, <1>4

\* No more debits granted or stale, and no smaller balance, keep the bound.
LEMMA FewerPending ==
    ASSUME Core, Core', NEW most \in Nat, PendingBound(most),
           \A u \in Identifiers : /\ Granted(u)' \subseteq Granted(u)
                                  /\ Stale(u)' \subseteq Stale(u)
                                  /\ Balance(u)' >= Balance(u),
           \A u \in Identifiers : \A r \in Granted(u) : req'[r] = req[r]
    PROVE  PendingBound(most)'
  <1>. SUFFICES ASSUME NEW u \in Identifiers
                PROVE  (Balance(u) - SumOf(Granted(u)) - Cardinality(Stale(u)) * most)'
                         >= -(DebitsInFlight * most)
    BY DEF PendingBound
  <1>1. /\ IsFiniteSet(Stale(u)) /\ Cardinality(Stale(u)) \in Nat
        /\ Cardinality(Stale(u)) * most \in Nat
        /\ SumOf(Granted(u)) \in Nat
        /\ Balance(u) \in Int
        /\ DebitsInFlight * most \in Nat
    BY PendingTyped
  <1>2. Balance(u)' \in Int
    BY DEF Balance, Core, TypeOK
  <1>3. SumOf(Granted(u))' \in Nat /\ SumOf(Granted(u))' <= SumOf(Granted(u))
    <2>1. Cents(Granted(u), req)' \subseteq Cents(Granted(u), req)
      BY DEF Cents
    <2>2. IsFiniteSet(Cents(Granted(u), req))
      BY GrantedTyped
    <2>3. IsFiniteSet(Cents(Granted(u), req)')
      BY <2>1, <2>2, FS_Subset
    <2>. QED
      BY <2>1, <2>2, <2>3, FS_Subset, FS_CardinalityType DEF SumOf
  <1>4. Cardinality(Stale(u)') \in Nat /\ Cardinality(Stale(u)') <= Cardinality(Stale(u))
    BY <1>1, FS_Subset, FS_CardinalityType
  <1>5. /\ Cardinality(Stale(u)') * most <= Cardinality(Stale(u)) * most
        /\ Cardinality(Stale(u)') * most \in Nat
    BY <1>1, <1>4, TimesGrows
  <1>6. Cardinality(Stale(u))' = Cardinality(Stale(u)')
    OBVIOUS
  <1>7. Balance(u) - SumOf(Granted(u)) - Cardinality(Stale(u)) * most
          >= -(DebitsInFlight * most)
    BY DEF PendingBound
  <1>. HIDE DEF Balance, SumOf, Stale
  <1>. QED
    BY <1>1, <1>2, <1>3, <1>5, <1>6, <1>7

\* The script puts the seeds back, and every debit in flight may be one that is
\* granted or has counted what is gone.
LEMMA OpenPending ==
    ASSUME PendingInv, Core', NEW most \in Nat, IsMost(most),
           NEW s \in Requests, OpenConnection(s)
    PROVE  PendingBound(most)'
  <1>. USE DEF PendingInv, PoolInv
  <1>. SUFFICES ASSUME NEW u \in Identifiers
                PROVE  (Balance(u) - SumOf(Granted(u)) - Cardinality(Stale(u)) * most)'
                         >= -(DebitsInFlight * most)
    BY DEF PendingBound
  <1>1. /\ UNCHANGED <<pc, req, credits>>
        /\ Balance(u)' = SeedCredits[u] - SeedDebits[u]
    BY DEF OpenConnection, RunScript, Balance
  <1>2. Balance(u)' \in Nat
    BY <1>1, SeedAssumption
  <1>3. Granted(u)' = Granted(u) /\ SumOf(Granted(u))' = SumOf(Granted(u))
    BY <1>1 DEF Granted, InFlight, SumOf, Cents
  <1>4. /\ Stale(u)' \subseteq InFlight(u) /\ Stale(u)' \cap Granted(u) = {}
        /\ Granted(u) \subseteq InFlight(u)
    BY <1>1 DEF Stale, Granted, InFlight
  <1>5. Core
    OBVIOUS
  <1>6. /\ Cardinality(Stale(u)') \in Nat /\ Cardinality(InFlight(u)) \in Nat
        /\ SumOf(Granted(u)) + Cardinality(Stale(u)') * most
             <= Cardinality(InFlight(u)) * most
    <2>. DEFINE S == InFlight(u)
                T == Stale(u)'
    <2>1. S \in SUBSET InFlight(u) /\ T \in SUBSET S
      BY <1>4
    <2>2. Granted(u) \subseteq S /\ T \cap Granted(u) = {}
      BY <1>4
    <2>. HIDE DEF S, T, PendingInv, PoolInv
    <2>3. /\ Cardinality(T) \in Nat /\ Cardinality(S) \in Nat
          /\ SumOf(Granted(u)) + Cardinality(T) * most <= Cardinality(S) * most
      BY <1>5, <2>1, <2>2, PendingIsBounded
    <2>. QED
      BY <2>3 DEF S, T
  <1>7. /\ Cardinality(InFlight(u)) * most <= DebitsInFlight * most
        /\ DebitsInFlight * most \in Nat
        /\ Cardinality(InFlight(u)) * most \in Nat
    <2>1. Cardinality(InFlight(u)) <= DebitsInFlight
      BY DEF InFlightBounded
    <2>. QED
      BY <1>6, <2>1, ClientsAssumption, TimesGrows
  <1>8. SumOf(Granted(u)) \in Nat /\ Cardinality(Stale(u)') * most \in Nat
    BY <1>6, GrantedTyped
  <1>9. Cardinality(Stale(u))' = Cardinality(Stale(u)')
    OBVIOUS
  <1>. HIDE DEF Balance, SumOf, Stale
  <1>. QED
    BY <1>2, <1>3, <1>6, <1>7, <1>8, <1>9

\* A debit that is granted on what the account holds is covered; one that has
\* counted what is gone is no longer among those.
LEMMA GrantPending ==
    ASSUME PendingInv, Core', NEW most \in Nat, IsMost(most),
           NEW r \in Requests, ReadDebits(r), pc'[r] = "insert"
    PROVE  PendingBound(most)'
  <1>. USE DEF PendingInv, PoolInv, Core
  <1>. SUFFICES ASSUME NEW u \in Identifiers
                PROVE  (Balance(u) - SumOf(Granted(u)) - Cardinality(Stale(u)) * most)'
                         >= -(DebitsInFlight * most)
    BY DEF PendingBound
  <1>1. /\ UNCHANGED <<store, req, credits>>
        /\ pc[r] = "readDebits"
        /\ pc' = [pc EXCEPT ![r] = "insert"]
        /\ req[r].op = "debit"
        /\ \E sum \in Int :
             /\ debited[req[r].user] <= sum + Rounding
             /\ ~Overdrawn(credits[r] - sum, req[r].amount)
    BY DebitsAreRead DEF OnTrack, TypeOK
  <1>2. Balance(u)' = Balance(u)
    BY <1>1 DEF Balance, store
  <1>3. /\ IsFiniteSet(Stale(u)) /\ Cardinality(Stale(u)) \in Nat
        /\ Cardinality(Stale(u)) * most \in Nat
        /\ Stale(u) \subseteq InFlight(u) /\ Stale(u) \cap Granted(u) = {}
        /\ SumOf(Granted(u)) \in Nat
        /\ Balance(u) \in Int
        /\ DebitsInFlight * most \in Nat
    BY PendingTyped
  <1>4. Cardinality(Stale(u))' = Cardinality(Stale(u)')
    OBVIOUS
  <1>5. Balance(u) - SumOf(Granted(u)) - Cardinality(Stale(u)) * most
          >= -(DebitsInFlight * most)
    BY DEF PendingBound
  <1>6. CASE u # req[r].user
    <2>1. Granted(u)' = Granted(u) /\ Stale(u)' = Stale(u)
      BY <1>1, <1>6 DEF Granted, Stale, InFlight, TypeOK, store
    <2>2. SumOf(Granted(u))' = SumOf(Granted(u))
      BY <1>1, <2>1 DEF SumOf, Cents
    <2>. QED
      BY <1>2, <1>4, <1>5, <2>1, <2>2
  <1>7. CASE u = req[r].user
    <2>1. /\ Granted(u)' = Granted(u) \cup {r} /\ r \notin Granted(u) /\ r \in InFlight(u)
          /\ Stale(u)' = Stale(u) \ {r}
      BY <1>1, <1>7 DEF Granted, Stale, InFlight, TypeOK, store
    <2>2. /\ req[r].amount \in Nat \ {0} /\ req[r].amount <= most
      <3>1. req[r].amount \in Int /\ req[r].amount <= most
        BY <1>1, AmountsAssumption DEF TypeOK, Request, IsMost
      <3>2. ~NotPositive(req[r])
        BY <1>1 DEF Validated, Steps
      <3>. QED
        BY <1>1, <3>1, <3>2 DEF NotPositive, NeedsAmount
    <2>3. SumOf(Granted(u))' = SumOf(Granted(u)) + req[r].amount
      <3>1. /\ IsFiniteSet(Granted(u))
            /\ \A s \in Granted(u) : req[s].amount \in Nat \ {0}
        BY GrantedTyped
      <3>2. \A s \in Granted(u) \cup {r} : req[s].amount \in Int
        BY <2>2, <3>1
      <3>3. Cardinality(Cents(Granted(u) \cup {r}, req))
              = Cardinality(Cents(Granted(u), req)) + req[r].amount
        BY <2>1, <2>2, <3>1, <3>2, CentsAdd
      <3>. QED
        BY <1>1, <2>1, <3>3 DEF SumOf, Cents
    <2>4. CASE r \in Stale(u)
      <3>1. Cardinality(Stale(u)') = Cardinality(Stale(u)) - 1
        BY <1>3, <2>1, <2>4, FS_RemoveElement
      <3>2. Cardinality(Stale(u)') \in Nat
        BY <1>3, <2>1, FS_Subset, FS_CardinalityType
      <3>3. Cardinality(Stale(u)) * most = Cardinality(Stale(u)') * most + most
        <4>1. (Cardinality(Stale(u)') + 1) * most
                = Cardinality(Stale(u)') * most + 1 * most
          BY <3>2, TimesAdds
        <4>2. Cardinality(Stale(u)) = Cardinality(Stale(u)') + 1
          BY <1>3, <3>1, <3>2
        <4>. QED
          BY <4>1, <4>2
      <3>4. Cardinality(Stale(u)') * most \in Nat
        BY <3>2
      <3>. HIDE DEF Balance, SumOf, Stale
      <3>. QED
        BY <1>2, <1>3, <1>4, <1>5, <2>2, <2>3, <3>3, <3>4
    <2>5. CASE r \notin Stale(u)
      <3>1. Stale(u)' = Stale(u)
        BY <2>1, <2>5
      <3>2. req[r].amount <= Balance(u)
        <4>1. PICK sum \in Int : /\ debited[u] <= sum + Rounding
                                 /\ ~Overdrawn(credits[r] - sum, req[r].amount)
          BY <1>1, <1>7
        <4>2. /\ Rounding = 0
              /\ credits[r] \in Int /\ credited[u] \in Nat /\ debited[u] \in Nat
          BY PoolAssumption, SumsRead DEF TypeOK
        <4>3. credits[r] <= credited[u]
          BY <1>1, <2>1, <2>5, <4>2 DEF Stale
        <4>4. req[r].amount <= credits[r] - sum
          BY <2>2, <4>1, <4>2 DEF Overdrawn
        <4>. QED
          BY <2>2, <4>1, <4>2, <4>3, <4>4 DEF Balance
      <3>3. SumOf(Granted(u)) + Cardinality(Stale(u)) * most <= DebitsInFlight * most
        <4>. DEFINE S == InFlight(u) \ {r}
        <4>1. /\ S \in SUBSET InFlight(u) /\ Stale(u) \in SUBSET S
              /\ Granted(u) \subseteq S
          BY <1>3, <2>1, <2>5 DEF Granted
        <4>2. /\ IsFiniteSet(InFlight(u)) /\ Cardinality(InFlight(u)) \in Nat
              /\ Cardinality(InFlight(u)) <= DebitsInFlight
          BY GrantedTyped DEF InFlightBounded
        <4>3. Cardinality(S) = Cardinality(InFlight(u)) - 1
          BY <2>1, <4>2, FS_RemoveElement
        <4>4. Core
          OBVIOUS
        <4>. HIDE DEF S, PendingInv, PoolInv, Core
        <4>5. /\ Cardinality(S) \in Nat
              /\ SumOf(Granted(u)) + Cardinality(Stale(u)) * most <= Cardinality(S) * most
          BY <1>3, <4>1, <4>4, PendingIsBounded
        <4>6. /\ Cardinality(S) * most <= DebitsInFlight * most
              /\ Cardinality(S) * most \in Nat
          BY <4>2, <4>3, <4>5, ClientsAssumption, TimesGrows
        <4>. HIDE DEF SumOf, Stale
        <4>. QED
          BY <1>3, <4>5, <4>6
      <3>. HIDE DEF Balance, SumOf, Stale
      <3>. QED
        BY <1>2, <1>3, <1>4, <2>2, <2>3, <3>1, <3>2, <3>3
    <2>. QED
      BY <2>4, <2>5
  <1>. QED
    BY <1>6, <1>7

\* The row of a granted debit takes from the balance what was set aside for it.
LEMMA InsertPending ==
    ASSUME PendingInv, Core', NEW most \in Nat, IsMost(most),
           NEW r \in Requests, InsertDebit(r)
    PROVE  PendingBound(most)'
  <1>. USE DEF PendingInv, PoolInv, Core
  <1>. SUFFICES ASSUME NEW u \in Identifiers
                PROVE  (Balance(u) - SumOf(Granted(u)) - Cardinality(Stale(u)) * most)'
                         >= -(DebitsInFlight * most)
    BY DEF PendingBound
  <1>1. /\ pc[r] = "insert" /\ req[r].op = "debit"
        /\ pc' = [pc EXCEPT ![r] = "done"]
        /\ UNCHANGED <<req, credits, credited>>
        /\ debited' = Add(debited, r)
    BY DEF InsertDebit, Answer, StoreRow
  <1>2. Stale(u)' = Stale(u)
    BY <1>1 DEF Stale, InFlight, TypeOK
  <1>3. /\ Cardinality(Stale(u)) * most \in Nat
        /\ SumOf(Granted(u)) \in Nat
        /\ Balance(u) \in Int
        /\ DebitsInFlight * most \in Nat
    BY PendingTyped
  <1>4. Cardinality(Stale(u))' = Cardinality(Stale(u)')
    OBVIOUS
  <1>5. Balance(u) - SumOf(Granted(u)) - Cardinality(Stale(u)) * most
          >= -(DebitsInFlight * most)
    BY DEF PendingBound
  <1>6. CASE u # req[r].user
    <2>1. Granted(u)' = Granted(u)
      BY <1>1, <1>6 DEF Granted, InFlight, TypeOK
    <2>2. SumOf(Granted(u))' = SumOf(Granted(u))
      BY <1>1, <2>1 DEF SumOf, Cents
    <2>3. Balance(u)' = Balance(u)
      BY <1>1, <1>6 DEF Balance, Add, TypeOK
    <2>. QED
      BY <1>2, <1>4, <1>5, <2>2, <2>3
  <1>7. CASE u = req[r].user
    <2>1. r \in Granted(u) /\ Granted(u)' = Granted(u) \ {r}
      BY <1>1, <1>7 DEF Granted, InFlight, TypeOK
    <2>2. /\ IsFiniteSet(Granted(u))
          /\ \A s \in Granted(u) : req[s].amount \in Nat \ {0}
      BY GrantedTyped
    <2>3. req[r].amount \in Nat
      BY <2>1, <2>2
    <2>4. SumOf(Granted(u)) = SumOf(Granted(u))' + req[r].amount
          /\ SumOf(Granted(u))' \in Nat
      <3>1. \A s \in Granted(u) : req[s].amount \in Nat
        BY <2>2
      <3>2. /\ Cardinality(Cents(Granted(u), req))
                 = Cardinality(Cents(Granted(u) \ {r}, req)) + req[r].amount
            /\ Cardinality(Cents(Granted(u) \ {r}, req)) \in Nat
        BY <2>1, <2>2, <3>1, CentsRemove
      <3>. QED
        BY <1>1, <2>1, <3>2 DEF SumOf, Cents
    <2>5. Balance(u)' = Balance(u) - req[r].amount
      BY <1>1, <1>7, <2>3 DEF Balance, Add, TypeOK
    <2>. HIDE DEF Balance, SumOf, Stale
    <2>. QED
      BY <1>2, <1>3, <1>4, <1>5, <2>3, <2>4, <2>5
  <1>. QED
    BY <1>6, <1>7

\* Every step of the pool preserves the bound.
LEMMA NextPending == PendingInv /\ [PoolNext]_poolVars => PendingInv'
  <1>. SUFFICES ASSUME PendingInv, [PoolNext]_poolVars PROVE PendingInv'
    OBVIOUS
  <1>. USE DEF PendingInv
  <1>1. PoolInv' /\ Core /\ Core' /\ TypeOK
    BY PoolNextInv DEF PoolInv, Core
  <1>2. \A u \in Identifiers : Balance(u) \in Int
    BY <1>1 DEF Balance, TypeOK
  <1>3. ASSUME UNCHANGED req,
               \A s \in Requests : pc'[s] \notin {"new", "done"} => pc[s] \notin {"new", "done"}
        PROVE  InFlightBounded'
    <2>. SUFFICES ASSUME NEW u \in Identifiers
                  PROVE  Cardinality(InFlight(u)') <= DebitsInFlight
      BY DEF InFlightBounded
    <2>1. InFlight(u)' \subseteq InFlight(u)
      BY <1>3 DEF InFlight
    <2>2. /\ IsFiniteSet(InFlight(u)) /\ Cardinality(InFlight(u)) \in Nat
          /\ Cardinality(InFlight(u)) <= DebitsInFlight
      BY <1>1, GrantedTyped DEF InFlightBounded
    <2>3. /\ IsFiniteSet(InFlight(u)') /\ Cardinality(InFlight(u)') \in Nat
          /\ Cardinality(InFlight(u)') <= Cardinality(InFlight(u))
      BY <2>1, <2>2, FS_Subset, FS_CardinalityType
    <2>. QED
      BY <2>2, <2>3, ClientsAssumption
  <1>4. ASSUME UNCHANGED req,
               \A u \in Identifiers : /\ Granted(u)' \subseteq Granted(u)
                                      /\ Stale(u)' \subseteq Stale(u)
                                      /\ Balance(u)' >= Balance(u),
               NEW most \in Nat, IsMost(most)
        PROVE  PendingBound(most)'
    BY <1>1, <1>4, FewerPending
  <1>5. ASSUME NEW s \in Requests, NEW q \in Request, Receive(s, q)
        PROVE  PendingInv'
    <2>1. InFlightBounded'
      BY <1>1, <1>5, NextInFlight DEF Next
    <2>2. \A u \in Identifiers : /\ Granted(u)' \subseteq Granted(u)
                                 /\ Stale(u)' \subseteq Stale(u)
                                 /\ Balance(u)' >= Balance(u)
      BY <1>1, <1>2, <1>5 DEF Receive, Goto, Granted, Stale, InFlight, Balance, store, TypeOK
    <2>3. \A u \in Identifiers : \A r \in Granted(u) : req'[r] = req[r]
      BY <1>1, <1>5 DEF Receive, Granted, InFlight, TypeOK
    <2>4. ASSUME NEW most \in Nat, IsMost(most) PROVE PendingBound(most)'
      BY <1>1, <2>2, <2>3, <2>4, FewerPending
    <2>. QED
      BY <1>1, <2>1, <2>4 DEF IsMost
  <1>6. ASSUME NEW s \in Requests, Work(s)
        PROVE  PendingInv'
    <2>1. Handle(s) /\ InFlightBounded'
      BY <1>1, <1>6, NextInFlight DEF Work, Next
    <2>2. ASSUME NEW most \in Nat, IsMost(most) PROVE PendingBound(most)'
      <3>1. CASE \/ Validate(s) \/ UserFound(s) \/ UserNotFound(s) \/ ReadCredits(s)
                 \/ ReadRows(s) \/ CallFails(s)
        <4>1. /\ UNCHANGED <<store, req>>
              /\ \A r \in Requests : pc'[r] = "insert" /\ req[r].op = "debit" => pc[r] = "insert"
          BY <1>1, <3>1 DEF Validate, UserFound, AfterUserCheck, UserNotFound, ReadCredits,
               ReadRows, CallFails, Goto, Answer, TypeOK
        <4>2. \A u \in Identifiers : Granted(u)' \subseteq Granted(u) /\ Balance(u)' = Balance(u)
          BY <4>1 DEF Granted, InFlight, Balance, store
        <4>3. \A r \in Requests :
                pc'[r] = "readDebits" /\ credits'[r] > credited[req[r].user] =>
                  pc[r] = "readDebits" /\ credits[r] > credited[req[r].user]
          <5>1. CASE ReadCredits(s)
            <6>1. credits'[s] \in Int /\ credits'[s] <= credited[req[s].user]
              <7>1. Rounding = 0 /\ credited[req[s].user] \in Nat
                BY <1>1, <5>1, PoolAssumption, SumsRead DEF ReadCredits, TypeOK, Request
              <7>. QED
                BY <1>1, <5>1, <7>1, SumsRead DEF ReadCredits, TypeOK
            <6>2. credited[req[s].user] \in Nat
              BY <1>1, <5>1 DEF ReadCredits, TypeOK, Request
            <6>3. \A r \in Requests \ {s} : pc'[r] = pc[r] /\ credits'[r] = credits[r]
              BY <1>1, <5>1 DEF ReadCredits, Goto, TypeOK
            <6>. QED
              BY <6>1, <6>2, <6>3
          <5>2. CASE ~ReadCredits(s)
            BY <1>1, <3>1, <5>2 DEF Validate, UserFound, AfterUserCheck, UserNotFound,
               ReadRows, CallFails, Goto, Answer, TypeOK
          <5>. QED
            BY <5>1, <5>2
        <4>4. \A u \in Identifiers : Stale(u)' \subseteq Stale(u)
          BY <4>1, <4>3 DEF Stale, InFlight, store
        <4>. QED
          BY <1>2, <1>4, <2>2, <4>1, <4>2, <4>4
      <3>2. CASE ReadDebits(s)
        <4>1. CASE pc'[s] = "insert"
          BY <1>1, <2>2, <3>2, <4>1, GrantPending
        <4>2. CASE pc'[s] # "insert"
          <5>1. /\ UNCHANGED <<store, req, credits>>
                /\ \A r \in Requests : pc'[r] \in {"insert", "readDebits"} => pc'[r] = pc[r]
                /\ \A r \in Requests :
                     pc'[r] \notin {"new", "done"} => pc[r] \notin {"new", "done"}
            BY <1>1, <3>2, <4>2, DebitsAreRead DEF TypeOK
          <5>2. \A u \in Identifiers : /\ Granted(u)' \subseteq Granted(u)
                                       /\ Stale(u)' \subseteq Stale(u)
                                       /\ Balance(u)' = Balance(u)
            BY <5>1 DEF Granted, Stale, InFlight, Balance, store
          <5>. QED
            BY <1>2, <1>4, <2>2, <5>1, <5>2
        <4>. QED
          BY <4>1, <4>2
      <3>3. CASE InsertDebit(s)
        BY <1>1, <2>2, <3>3, InsertPending
      <3>4. CASE InsertCredit(s) \/ Commit(s)
        <4>1. /\ UNCHANGED <<req, credits>>
              /\ pc[s] \in {"insert", "commit"}
              /\ pc' \in {[pc EXCEPT ![s] = "done"], [pc EXCEPT ![s] = "commit"]}
              /\ StoreRow(s) \/ UNCHANGED store
              /\ req[s].op = "credit"
          BY <1>1, <3>4 DEF InsertCredit, Commit, Goto, Answer, Core, OnTrack
        <4>2. \A u \in Identifiers : credited'[u] >= credited[u] /\ debited'[u] = debited[u]
          <5>1. CASE UNCHANGED store
            BY <1>1, <5>1 DEF store, TypeOK
          <5>2. CASE StoreRow(s)
            <6>1. req[s].user \in Identifiers /\ req[s].amount \in Nat
              BY <1>1, <4>1, <5>2, StoreRowGrows DEF OnTrack, Steps, Core
            <6>. QED
              BY <1>1, <4>1, <5>2, <6>1 DEF StoreRow, Add, TypeOK
          <5>. QED
            BY <4>1, <5>1, <5>2
        <4>3. \A u \in Identifiers : Balance(u)' >= Balance(u)
          BY <1>1, <4>2 DEF Balance, TypeOK, Core
        <4>4. \A u \in Identifiers : Granted(u)' \subseteq Granted(u)
          BY <1>1, <4>1 DEF Granted, InFlight, TypeOK
        <4>5. \A u \in Identifiers : Stale(u)' \subseteq Stale(u)
          BY <1>1, <4>1, <4>2 DEF Stale, InFlight, TypeOK, Core
        <4>. QED
          BY <1>4, <2>2, <4>1, <4>3, <4>4, <4>5
      <3>5. CASE InsertAnswerLost(s)
        BY <3>5, PoolAssumption DEF InsertAnswerLost
      <3>. QED
        BY <2>1, <3>1, <3>2, <3>3, <3>4, <3>5 DEF Handle
    <2>. QED
      BY <1>1, <2>1, <2>2 DEF IsMost
  <1>7. ASSUME NEW s \in Requests, OpenConnection(s)
        PROVE  PendingInv'
    <2>1. InFlightBounded'
      BY <1>3, <1>7 DEF OpenConnection
    <2>2. ASSUME NEW most \in Nat, IsMost(most) PROVE PendingBound(most)'
      BY <1>1, <1>7, <2>2, OpenPending
    <2>. QED
      BY <1>1, <2>1, <2>2 DEF IsMost
  <1>8. CASE \/ \E s \in Requests : Borrow(s) \/ OpenTimesOut(s)
             \/ RegistryChanges
             \/ UNCHANGED poolVars
    <2>1. /\ UNCHANGED <<store, req, credits>>
          /\ \A r \in Requests : pc'[r] = pc[r] \/ pc'[r] = "done"
      BY <1>1, <1>8 DEF Borrow, OpenTimesOut, Answer, RegistryChanges, poolVars, vars, store,
           TypeOK
    <2>2. InFlightBounded'
      BY <1>3, <2>1
    <2>3. \A u \in Identifiers : /\ Granted(u)' \subseteq Granted(u)
                                 /\ Stale(u)' \subseteq Stale(u)
                                 /\ Balance(u)' = Balance(u)
      BY <2>1 DEF Granted, Stale, InFlight, Balance, store
    <2>4. ASSUME NEW most \in Nat, IsMost(most) PROVE PendingBound(most)'
      BY <1>2, <1>4, <2>1, <2>3, <2>4
    <2>. QED
      BY <1>1, <2>2, <2>4 DEF IsMost
  <1>. QED
    BY <1>5, <1>6, <1>7, <1>8 DEF PoolNext

\* However often the table is reset under the debits, they overdraw an account
\* by at most all of those on their way.
THEOREM OverdraftsAreBoundedInPool == PoolSpec => []OverdraftBoundWithResets
  <1>1. PoolInit => PendingInv
    <2>. SUFFICES ASSUME PoolInit PROVE PendingInv
      OBVIOUS
    <2>1. PoolInv
      BY PoolInitInv
    <2>2. ASSUME NEW u \in Identifiers
          PROVE  /\ Cardinality(InFlight(u)) = 0
                 /\ SumOf(Granted(u)) = 0
                 /\ Cardinality(Stale(u)) = 0
                 /\ Balance(u) \in Nat
      <3>1. InFlight(u) = {} /\ Balance(u) \in Nat
        BY SeedAssumption DEF PoolInit, Init, InFlight, Balance
      <3>2. Cents(Granted(u), req) = {} /\ Stale(u) = {}
        BY <3>1 DEF Granted, Cents, Stale
      <3>. QED
        BY <3>1, <3>2, FS_EmptySet DEF SumOf
    <2>3. InFlightBounded
      BY <2>2, ClientsAssumption DEF InFlightBounded
    <2>4. ASSUME NEW most \in Nat PROVE PendingBound(most)
      BY <2>2, ClientsAssumption DEF PendingBound
    <2>. QED
      BY <2>1, <2>3, <2>4 DEF PendingInv
  <1>2. PendingInv => OverdraftBoundWithResets
    <2>. SUFFICES ASSUME PendingInv, NEW u \in Identifiers, NEW most \in Amounts \cup {0},
                         \A a \in Amounts \cup {0} : a <= most
                  PROVE  Balance(u) >= -(DebitsInFlight * most)
      BY DEF OverdraftBoundWithResets
    <2>1. most \in Nat /\ IsMost(most)
      BY AmountsAssumption DEF IsMost
    <2>2. /\ SumOf(Granted(u)) \in Nat /\ Balance(u) \in Int
          /\ Cardinality(Stale(u)) * most \in Nat
          /\ DebitsInFlight * most \in Nat
      BY <2>1, PendingTyped DEF PendingInv, PoolInv
    <2>3. Balance(u) - SumOf(Granted(u)) - Cardinality(Stale(u)) * most
            >= -(DebitsInFlight * most)
      BY <2>1 DEF PendingInv, PendingBound
    <2>. HIDE DEF Balance, SumOf, Stale
    <2>. QED
      BY <2>2, <2>3
  <1>. QED
    BY <1>1, <1>2, NextPending, PTL DEF PoolSpec

=============================================================================
