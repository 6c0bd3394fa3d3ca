------------------------- MODULE TokenStore_proofs --------------------------
(***************************************************************************)
(* Proofs about TokenStore, for every limit, lifetime and set of static    *)
(* tokens: the invariants that the run TokenStore checks.                  *)
(***************************************************************************)
EXTENDS TokenStore, FiniteSetTheorems, TLAPS

\* The store is a part of the ledger, and the ledger is what was issued.
StoreInLedger ==
    /\ IsFiniteSet(ledger)
    /\ store \subseteq ledger
    /\ \A e \in ledger : e.token <= minted /\ e.serial <= serial

\* A refused token is old, and it is not in the store any more.
RefusedIsGone ==
    /\ \A token \in refused : token <= minted
    /\ \A e \in store : e.token \notin refused

TokenInv ==
    /\ TypeOK
    /\ StoreInLedger
    /\ StoreBounded
    /\ LostInTime
    /\ RefusedIsGone
    /\ RefusedForGood
    /\ AcceptedUnexpired

USE TokenAssumption DEF Entry

LEMMA TokenInvInit == Init => TokenInv
<1> SUFFICES ASSUME Init PROVE TokenInv OBVIOUS
<1>1. IsFiniteSet({}) /\ Cardinality({}) = 0
  BY FS_EmptySet
<1>2. QED
  BY <1>1 DEF Init, NoAnswer, TokenInv, TypeOK, StoreInLedger, StoreBounded,
              LostInTime, RefusedIsGone, RefusedForGood, AcceptedUnexpired

\* A reading of the clock only moves `latest` up, to the reading at least.
LEMMA ReadingsAdvance ==
  ASSUME now \in Nat, latest \in Nat, NEW t \in LaterReadings, ReadClock(t)
  PROVE  /\ t \in Nat /\ t >= now
         /\ now' \in Nat /\ latest' \in Nat
         /\ latest' >= latest /\ latest' >= t
BY DEF LaterReadings, ReadClock

\* What is expired at one reading is expired at every later one.
LEMMA ExpiredStays ==
  ASSUME NEW e \in Entry, NEW t \in Nat, NEW u \in Nat, t <= u, Expired(e, t)
  PROVE  Expired(e, u)
BY DEF Expired

\* Entries that were lost in time stay lost in time when the ledger grows and
\* the clock is read again.
LEMMA LostStaysLost ==
  ASSUME TokenInv, ledger' \in SUBSET Entry, IsFiniteSet(ledger'),
         ledger \subseteq ledger', latest' \in Nat, latest' >= latest,
         NEW e \in ledger, e \notin store
  PROVE  (Expired(e, latest) \/ Cardinality(Newer(e)) >= MaxIssuedTokens)'
<1> USE DEF TokenInv, TypeOK
<1>1. CASE Expired(e, latest)
  BY <1>1, ExpiredStays
<1>2. CASE Cardinality(Newer(e)) >= MaxIssuedTokens
  <2>1. IsFiniteSet(Newer(e)')
    BY FS_Subset DEF Newer
  <2>2. Newer(e) \subseteq Newer(e)'
    BY DEF Newer
  <2>3. Cardinality(Newer(e)) <= Cardinality(Newer(e)')
    BY <2>1, <2>2, FS_Subset
  <2>4. IsFiniteSet(Newer(e))
    BY <2>1, <2>2, FS_Subset
  <2>5. Cardinality(Newer(e)) \in Nat /\ Cardinality(Newer(e)') \in Nat
    BY <2>1, <2>4, FS_CardinalityType
  <2>6. Cardinality(Newer(e)') >= MaxIssuedTokens
    BY <1>2, <2>3, <2>5
  <2>7. QED
    BY <2>6
<1>3. QED
  BY <1>1, <1>2 DEF LostInTime

\* Evicting leaves room for one more entry.
LEMMA EvictionsMakeRoom ==
  ASSUME NEW entries, IsFiniteSet(entries), NEW kept \in Evictions(entries)
  PROVE  /\ IsFiniteSet(kept) /\ kept \subseteq entries
         /\ Cardinality(kept) < MaxIssuedTokens
<1>1. kept \in SUBSET entries
  BY DEF Evictions
<1>2. IsFiniteSet(kept)
  BY <1>1, FS_Subset
<1>3. Cardinality(kept) \in Nat
  BY <1>2, FS_CardinalityType
<1>4. Cardinality(kept) < MaxIssuedTokens
  <2>1. CASE Cardinality(entries) < MaxIssuedTokens
    BY <2>1 DEF Evictions
  <2>2. CASE ~(Cardinality(entries) < MaxIssuedTokens)
    BY <2>2 DEF Evictions
  <2>3. QED
    BY <2>1, <2>2
<1>5. QED
  BY <1>1, <1>2, <1>4

LEMMA TokenInvIssue ==
  ASSUME TokenInv, IssueToken
  PROVE  TokenInv'
<1> USE DEF TokenInv, TypeOK
<1> SUFFICES ASSUME NEW t \in LaterReadings, NEW live \in Prunings(t),
                    NEW kept \in Evictions(live),
                    store' = kept \union {NewEntry(t)},
                    ledger' = ledger \union {NewEntry(t)},
                    ReadClock(t)
             PROVE  TokenInv'
  BY DEF IssueToken, Room
<1>2. /\ serial' = serial + 1 /\ minted' = minted + 1
      /\ restarts' = restarts /\ refused' = refused /\ last' = last
  BY DEF IssueToken
<1>3. /\ t \in Nat /\ now' \in Nat /\ latest' \in Nat
      /\ latest' >= latest /\ latest' >= t
  BY ReadingsAdvance
<1> DEFINE new == NewEntry(t)
<1>4. /\ new \in Entry
      /\ new.token = minted + 1 /\ new.serial = serial + 1
  BY <1>3 DEF NewEntry
<1>5. live \in SUBSET store /\ \A e \in store \ live : Expired(e, t)
  BY DEF Prunings, Unexpired
<1>6. IsFiniteSet(live)
  BY <1>5, FS_Subset DEF StoreInLedger
<1>7. /\ IsFiniteSet(kept) /\ kept \subseteq live
      /\ Cardinality(kept) < MaxIssuedTokens
  BY <1>6, EvictionsMakeRoom
<1>8. IsFiniteSet(ledger')
  BY FS_AddElement DEF StoreInLedger
<1>9. new \notin ledger
  BY <1>4 DEF StoreInLedger
<1>10. store' = kept \union {new} /\ ledger' = ledger \union {new}
  OBVIOUS
<1> HIDE DEF new
<1>11. TypeOK'
  BY <1>2, <1>3, <1>4, <1>5, <1>7, <1>10
<1>12. StoreInLedger'
  BY <1>2, <1>4, <1>5, <1>7, <1>8, <1>10 DEF StoreInLedger
<1>13. Cardinality(store') = Cardinality(kept) + 1 /\ Cardinality(kept) \in Nat
  BY <1>5, <1>7, <1>9, <1>10, FS_AddElement, FS_CardinalityType DEF StoreInLedger
<1>14. StoreBounded'
  BY <1>7, <1>13 DEF StoreBounded
<1>15. LostInTime'
  <2> SUFFICES ASSUME NEW e \in ledger', e \notin store'
               PROVE  (Expired(e, latest) \/ Cardinality(Newer(e)) >= MaxIssuedTokens)'
    BY DEF LostInTime
  <2>1. e \in ledger /\ e \in Entry /\ e \notin kept
    BY <1>10
  <2>2. CASE e \notin store
    <3>1. ledger' \in SUBSET Entry /\ ledger \subseteq ledger'
      BY <1>10, <1>11
    <3>2. QED
      BY <1>3, <1>8, <2>1, <2>2, <3>1, LostStaysLost
  <2>3. CASE e \in store \ live
    BY <1>3, <1>5, <2>1, <2>3, ExpiredStays
  <2>4. CASE e \in live
    <3>1. /\ Cardinality(kept) = MaxIssuedTokens - 1
          /\ \A k \in kept : e.serial < k.serial
      BY <2>1, <2>4 DEF Evictions
    <3>2. store' \subseteq Newer(e)'
      <4>1. e.serial < new.serial
        BY <1>4, <2>1 DEF StoreInLedger
      <4>2. \A k \in store' : k \in ledger' /\ k.serial > e.serial
        BY <1>4, <1>10, <1>12, <2>1, <3>1, <4>1 DEF StoreInLedger
      <4>3. QED
        BY <4>2 DEF Newer
    <3>3. IsFiniteSet(Newer(e)')
      BY <1>8, FS_Subset DEF Newer
    <3>4. Cardinality(store') <= Cardinality(Newer(e)')
      BY <3>2, <3>3, FS_Subset
    <3>5. Cardinality(Newer(e)') \in Nat
      BY <3>3, FS_CardinalityType
    <3>6. Cardinality(Newer(e)') >= MaxIssuedTokens
      BY <1>13, <3>1, <3>4, <3>5
    <3>7. QED
      BY <3>6
  <2>5. QED
    BY <2>2, <2>3, <2>4
<1>16. RefusedIsGone'
  BY <1>2, <1>4, <1>5, <1>7, <1>10 DEF RefusedIsGone
<1>17. RefusedForGood'
  BY <1>2 DEF RefusedForGood
<1>18. AcceptedUnexpired'
  BY <1>2, <1>10 DEF AcceptedUnexpired, Expired
<1>19. QED
  BY <1>11, <1>12, <1>14, <1>15, <1>16, <1>17, <1>18

LEMMA TokenInvValidate ==
  ASSUME TokenInv, NEW token \in Presented, ValidateBearer(token)
  PROVE  TokenInv'
<1> USE DEF TokenInv, TypeOK
<1> DEFINE Found(live) == {e \in live : e.token = token}
           Ok(live, t) == token \in StaticTokens \/ StillValid(Found(live), t)
<1>1. PICK t \in LaterReadings :
         \E live \in Prunings(t) :
            /\ store' = live \ DeletedBy(Found(live), t)
            /\ last' = [token |-> token, ok |-> Ok(live, t), at |-> t]
            /\ refused' = IF Ok(live, t) THEN refused ELSE refused \union {token}
            /\ ReadClock(t)
            /\ serial' = serial /\ minted' = minted /\ restarts' = restarts
            /\ ledger' = ledger
  BY DEF ValidateBearer
<1>2. PICK live \in Prunings(t) :
         /\ store' = live \ DeletedBy(Found(live), t)
         /\ last' = [token |-> token, ok |-> Ok(live, t), at |-> t]
         /\ refused' = IF Ok(live, t) THEN refused ELSE refused \union {token}
         /\ ReadClock(t)
         /\ serial' = serial /\ minted' = minted /\ restarts' = restarts
         /\ ledger' = ledger
  BY <1>1
<1>3. /\ t \in Nat /\ now' \in Nat /\ latest' \in Nat
      /\ latest' >= latest /\ latest' >= t
  BY <1>2, ReadingsAdvance
<1>4. live \in SUBSET store /\ \A e \in store \ live : Expired(e, t)
  BY DEF Prunings, Unexpired
<1>5. store' \in SUBSET store /\ \A e \in store \ store' : Expired(e, t)
  BY <1>2, <1>4 DEF DeletedBy, Unexpired
<1>6. Ok(live, t) \in BOOLEAN
  BY DEF StillValid
<1>7. token \in Nat \union StaticTokens /\ (token \in Nat => token <= minted)
  BY DEF Presented
<1>8. TypeOK'
  <2>1. last' \in [token : Nat \union StaticTokens, ok : BOOLEAN, at : Nat]
    BY <1>2, <1>3, <1>6, <1>7
  <2>2. refused' \in SUBSET Nat
    BY <1>2, <1>7
  <2>3. QED
    BY <1>2, <1>3, <1>5, <2>1, <2>2
<1>9. StoreInLedger'
  BY <1>2, <1>5 DEF StoreInLedger
<1>10. StoreBounded'
  <2>1. IsFiniteSet(store)
    BY FS_Subset DEF StoreInLedger
  <2>2. IsFiniteSet(store') /\ Cardinality(store') <= Cardinality(store)
    BY <1>5, <2>1, FS_Subset
  <2>3. Cardinality(store) \in Nat /\ Cardinality(store') \in Nat
    BY <2>1, <2>2, FS_CardinalityType
  <2>4. Cardinality(store') <= MaxIssuedTokens
    BY <2>2, <2>3 DEF StoreBounded
  <2>5. QED
    BY <2>4 DEF StoreBounded
<1>11. LostInTime'
  <2> SUFFICES ASSUME NEW e \in ledger', e \notin store'
               PROVE  (Expired(e, latest) \/ Cardinality(Newer(e)) >= MaxIssuedTokens)'
    BY DEF LostInTime
  <2>1. e \in ledger /\ e \in Entry
    BY <1>2
  <2>2. CASE e \notin store
    <3>1. ledger' \in SUBSET Entry /\ ledger \subseteq ledger' /\ IsFiniteSet(ledger')
      BY <1>2 DEF StoreInLedger
    <3>2. QED
      BY <1>3, <2>1, <2>2, <3>1, LostStaysLost
  <2>3. CASE e \in store
    BY <1>3, <1>5, <2>1, <2>3, ExpiredStays
  <2>4. QED
    BY <2>2, <2>3
<1>12. CASE Ok(live, t)
  <2>1. last' = [token |-> token, ok |-> TRUE, at |-> t] /\ refused' = refused
    BY <1>2, <1>12
  <2>2. CASE token \in StaticTokens
    <3>1. token \notin refused
      BY <2>2
    <3>2. QED
      BY <1>2, <1>5, <1>8, <1>9, <1>10, <1>11, <2>1, <2>2, <3>1
      DEF RefusedIsGone, RefusedForGood, AcceptedUnexpired
  <2>3. CASE token \notin StaticTokens
    <3>1. PICK e \in live : e.token = token /\ ~Expired(e, t)
      BY <1>12, <2>3 DEF StillValid, Unexpired
    <3>2. e \in store /\ e \in ledger
      BY <1>4, <3>1 DEF StoreInLedger
    <3>3. token \notin refused
      BY <3>1, <3>2 DEF RefusedIsGone
    <3>4. AcceptedUnexpired'
      BY <1>2, <2>1, <3>1, <3>2 DEF AcceptedUnexpired, Expired
    <3>5. RefusedForGood'
      BY <2>1, <3>3 DEF RefusedForGood
    <3>6. RefusedIsGone'
      <4>1. minted' = minted
        BY <1>2
      <4>2. QED
        BY <1>5, <2>1, <4>1 DEF RefusedIsGone
    <3>7. QED
      BY <1>8, <1>9, <1>10, <1>11, <3>4, <3>5, <3>6
  <2>4. QED
    BY <2>2, <2>3
<1>13. CASE ~Ok(live, t)
  <2>1. /\ last' = [token |-> token, ok |-> FALSE, at |-> t]
        /\ refused' = refused \union {token}
    BY <1>2, <1>6, <1>13
  <2>2. \A e \in store' : e.token # token
    BY <1>2, <1>13 DEF StillValid, DeletedBy, Unexpired
  <2>3. RefusedIsGone'
    BY <1>2, <1>5, <1>7, <1>13, <2>1, <2>2 DEF RefusedIsGone
  <2>4. QED
    BY <1>8, <1>9, <1>10, <1>11, <2>1, <2>3 DEF RefusedForGood, AcceptedUnexpired
<1>14. QED
  BY <1>12, <1>13

LEMMA TokenInvNext ==
  ASSUME TokenInv, [Next]_vars
  PROVE  TokenInv'
<1> USE DEF TokenInv, TypeOK
<1>1. CASE IssueToken
  BY <1>1, TokenInvIssue
<1>2. ASSUME NEW token \in Presented, ValidateBearer(token) PROVE TokenInv'
  BY <1>2, TokenInvValidate
<1>3. ASSUME UNCHANGED <<serial, store, minted, restarts, ledger, latest, refused, last>>,
             now' \in Nat
      PROVE  TokenInv'
  BY <1>3 DEF StoreInLedger, StoreBounded, LostInTime, Newer, Expired,
              RefusedIsGone, RefusedForGood, AcceptedUnexpired
<1>4. CASE Tick
  BY <1>3, <1>4 DEF Tick
<1>5. CASE SetClockBack
  BY <1>3, <1>5 DEF SetClockBack
<1>6. CASE Restart
  <2>1. IsFiniteSet({}) /\ Cardinality({}) = 0
    BY FS_EmptySet
  <2>2. QED
    BY <1>6, <2>1 DEF Restart, NoAnswer, StoreInLedger, StoreBounded,
       LostInTime, RefusedIsGone, RefusedForGood, AcceptedUnexpired
<1>7. CASE UNCHANGED vars
  BY <1>3, <1>7 DEF vars
<1>8. QED
  BY <1>1, <1>2, <1>4, <1>5, <1>6, <1>7 DEF Next

\* TokenInv holds in every reachable state.
THEOREM TokenInvAlways == Spec => []TokenInv
<1>1. QED
  BY TokenInvInit, TokenInvNext, PTL DEF Spec

\* The variables keep their types; serials and token numbers are positive.
THEOREM TypeCorrect == Spec => []TypeOK
<1>1. TokenInv => TypeOK          BY DEF TokenInv
<1>2. QED                         BY <1>1, TokenInvAlways, PTL

\* AddIssuedToken never retains more than max_issued_tokens tokens.
THEOREM StoreAlwaysBounded == Spec => []StoreBounded
<1>1. TokenInv => StoreBounded    BY DEF TokenInv
<1>2. QED                         BY <1>1, TokenInvAlways, PTL

\* Whom AddIssuedToken evicts is older than everything it keeps, and what it
\* keeps has passed the prune before.
LEMMA EvictedInTurn ==
  ASSUME TokenInv, IssueToken
  PROVE  LeavesInTurn
<1> USE DEF TokenInv, TypeOK
<1>a. PICK t \in LaterReadings :
         \E kept \in Room(t) : store' = kept \union {NewEntry(t)} /\ now' = t
  BY DEF IssueToken, ReadClock
<1>b. PICK kept \in Room(t) : store' = kept \union {NewEntry(t)} /\ now' = t
  BY <1>a
<1>c. PICK live \in Prunings(t) : kept \in Evictions(live)
  BY DEF Room
<1> SUFFICES ASSUME NEW e \in store, e \notin store', ~Expired(e, t)
             PROVE  /\ Cardinality(store') = MaxIssuedTokens
                    /\ \A k \in store \cap store' : k.serial > e.serial /\ ~Expired(k, now)
  BY <1>b DEF LeavesInTurn
<1>1. live \in SUBSET Unexpired(store, now) /\ e \in live /\ e \notin kept
  BY <1>b DEF Prunings, Unexpired
<1>2. kept \in SUBSET live /\ IsFiniteSet(kept)
  BY <1>1, <1>c, FS_Subset DEF StoreInLedger, Unexpired, Evictions
<1>3. Cardinality(kept) = MaxIssuedTokens - 1 /\ \A k \in kept : e.serial < k.serial
  BY <1>1, <1>c DEF Evictions
<1>4. NewEntry(t) \notin store
  BY DEF NewEntry, StoreInLedger
<1>5. Cardinality(store') = MaxIssuedTokens
  <2>1. NewEntry(t) \notin kept
    BY <1>1, <1>2, <1>4 DEF Unexpired
  <2>2. Cardinality(store') = Cardinality(kept) + 1
    BY <1>2, <1>b, <2>1, FS_AddElement
  <2> QED
    BY <1>3, <2>2
<1>6. \A k \in store \cap store' : k.serial > e.serial /\ ~Expired(k, now)
  <2>1. \A k \in store \cap store' : k \in kept
    BY <1>4, <1>b
  <2> QED
    BY <1>1, <1>2, <1>3, <2>1 DEF Unexpired
<1> QED
  BY <1>5, <1>6

\* A token is lost only after its expiry or to max_issued_tokens newer ones, and
\* no live one makes room while an expired one is kept.
THEOREM TokensLostInTime == Spec => NothingLostEarly
<1>1. TokenInv => LostInTime
  BY DEF TokenInv
<1>2. TokenInv /\ [Next]_vars => [restarts' = restarts => LeavesInTurn]_vars
  <2> SUFFICES ASSUME TokenInv, Next, restarts' = restarts PROVE LeavesInTurn
    OBVIOUS
  <2>1. CASE IssueToken
    BY <2>1, EvictedInTurn
  <2>2. ASSUME NEW token \in Presented, ValidateBearer(token) PROVE LeavesInTurn
    BY <2>2 DEF ValidateBearer, ReadClock, Prunings, DeletedBy, Unexpired, LeavesInTurn
  <2>3. CASE Tick \/ SetClockBack
    BY <2>3 DEF Tick, SetClockBack, LeavesInTurn
  <2>4. CASE Restart
    BY <2>4 DEF Restart, TokenInv, TypeOK
  <2> QED
    BY <2>1, <2>2, <2>3, <2>4 DEF Next
<1> QED
  BY <1>1, <1>2, TokenInvAlways, PTL DEF Spec, NothingLostEarly

\* A refused token stays refused, whatever happens to the wall clock.
THEOREM RefusalIsFinal == Spec => []RefusedForGood
<1>1. TokenInv => RefusedForGood  BY DEF TokenInv
<1>2. QED                         BY <1>1, TokenInvAlways, PTL

\* ValidateBearer accepts no issued token after its expiry.
THEOREM AcceptanceInTime == Spec => []AcceptedUnexpired
<1>1. TokenInv => AcceptedUnexpired  BY DEF TokenInv
<1>2. QED                            BY <1>1, TokenInvAlways, PTL

=============================================================================
