-------------------------- MODULE SignVerifyProofs --------------------------
(***************************************************************************)
(* Proofs about Verifier and about SignVerify, which extends it.           *)
(*                                                                         *)
(* Verifier: for any number of concurrent calls, any inputs, keys and      *)
(* profile.  A call that was granted its record owns it: Owned says that   *)
(* the record is granted and the input not yet accepted, Unique that no    *)
(* other call owns the same input.  A second grant of the record is        *)
(* impossible because the ledger grants only unexpired records of vacant   *)
(* identities.  These proofs cite the assumptions of Verifier only.        *)
(*                                                                         *)
(* SignVerify: for every key window, lifetime, age, skew, drift and length *)
(* of a second.                                                            *)
(***************************************************************************)
EXTENDS SignVerify, TLAPS

\* The record that a nonce of an input consumes.
RecordOf(i) == [id |-> i.nonce, expiresAt |-> replayExpires(i)]

\* A call past input validation holds an input and its replay expiration.
Holding ==
    \A v \in Calls :
        /\ pc[v] # "idle" => input[v] \in Inputs
        /\ pc[v] \notin {"idle", "input"} => expiry[v] = replayExpires(input[v])
        /\ pc[v] \in {"consume", "reserve", "deadline"} =>
              HasNonce(input[v]) /\ input[v].genuine

Owned ==
    \A v \in Calls : consumed[v] = "nil" =>
        /\ pc[v] = "deadline"
        /\ granted[RecordOf(input[v])] > 0
        /\ accepted[input[v]] = 0

Unique ==
    \A v, w \in Calls : consumed[v] = "nil" /\ consumed[w] = "nil" /\ input[v] = input[w] => v = w

\* An accepted input had its record granted.
Backed == \A i \in Inputs : HasNonce(i) /\ accepted[i] > 0 => granted[RecordOf(i)] > 0

IndInv == TypeOK /\ Holding /\ Owned /\ Unique /\ Backed /\ AcceptedOnce

-----------------------------------------------------------------------------
LEMMA RecordOfType ==
    ASSUME NEW i \in Inputs, HasNonce(i)
    PROVE  RecordOf(i) \in Records
BY WindowsEnd DEF RecordOf, Records, HasNonce

\* A grant is the first one of its record.
LEMMA GrantIsFirst ==
    ASSUME NEW r \in Records, Grant(r), granted \in [Records -> Nat], storeTime \in Times
    PROVE  granted[r] = 0
<1>1. granted[r] \in Nat
  OBVIOUS
<1>2. r.expiresAt \in Nat /\ storeTime \in Nat /\ storeTime < r.expiresAt
  BY LedgerTimes DEF Records, Grant
<1>3. granted[r] > 0 => r.expiresAt <= storeTime
  BY DEF Grant, Vacant
<1> QED
  BY <1>1, <1>2, <1>3
-----------------------------------------------------------------------------
LEMMA InitIndInv == Init => IndInv
<1> SUFFICES ASSUME Init PROVE IndInv
  OBVIOUS
<1> USE DEF Init, LedgerInit
<1>1. TypeOK
  BY LedgerTimes, ProfileConfig DEF TypeOK
<1>2. Holding /\ Owned /\ Unique /\ Backed /\ AcceptedOnce
  BY DEF Holding, Owned, Unique, Backed, AcceptedOnce
<1> QED
  BY <1>1, <1>2 DEF IndInv

-----------------------------------------------------------------------------
(* Each step preserves the types. *)

LEMMA TypeStep ==
    ASSUME IndInv, [Next]_vars
    PROVE  TypeOK'
<1> USE ProfileConfig, LedgerTimes
        DEF IndInv, TypeOK, Goto, At, Pass, Refuse, Accept, Return, storeVars
<1>1. CASE Tick
  BY <1>1 DEF Tick, callVars
<1>2. ASSUME NEW v \in Calls, NEW i \in Inputs, Start(v, i) PROVE TypeOK'
  BY <1>2 DEF Start
<1>3. ASSUME NEW v \in Calls, ValidateInput(v) PROVE TypeOK'
  <2>1. input[v] \in Inputs
    BY <1>3 DEF ValidateInput, Holding
  <2>2. replayExpires(input[v]) \in Times
    BY <2>1, WindowsEnd
  <2>3. CASE Refuse(v) /\ UNCHANGED <<storeVars, clock>>
    BY <2>3
  <2>4. CASE /\ Goto(v, "base")
             /\ expiry' = [expiry EXCEPT ![v] = replayExpires(input[v])]
             /\ UNCHANGED <<input, key, consumed, accepted, burned, storeVars, clock>>
    BY <2>2, <2>4
  <2> QED
    BY <1>3, <2>3, <2>4 DEF ValidateInput
<1>4. ASSUME NEW v \in Calls, CreateBase(v) PROVE TypeOK'
  BY <1>4 DEF CreateBase
<1>5. ASSUME NEW v \in Calls, Resolve(v) PROVE TypeOK'
  BY <1>5 DEF Resolve
<1>6. ASSUME NEW v \in Calls, ValidateKey(v) PROVE TypeOK'
  BY <1>6 DEF ValidateKey
<1>7. ASSUME NEW v \in Calls, CryptoVerify(v) PROVE TypeOK'
  <2>1. input[v] \in Inputs
    BY <1>7 DEF CryptoVerify, Holding
  <2>2. CASE Refuse(v) /\ UNCHANGED <<storeVars, clock>>
    BY <2>2
  <2>3. CASE Pass(v, "consume") /\ UNCHANGED <<storeVars, clock>>
    BY <2>3
  <2>4. CASE Accept(v) /\ UNCHANGED <<storeVars, clock>>
    BY <2>1, <2>4
  <2> QED
    BY <1>7, <2>2, <2>3, <2>4 DEF CryptoVerify
<1>8. ASSUME NEW v \in Calls, Consume(v) PROVE TypeOK'
  BY <1>8 DEF Consume
<1>9. ASSUME NEW v \in Calls, Reserve(v) PROVE TypeOK'
  <2>1. input[v] \in Inputs /\ HasNonce(input[v]) /\ expiry[v] = replayExpires(input[v])
    BY <1>9 DEF Reserve, Holding
  <2>2. ReplayRecord(v) \in Records
    BY <2>1, RecordOfType DEF RecordOf, ReplayRecord
  <2>3. granted' \in [Records -> Nat] /\ UNCHANGED storeTime
    BY <1>9, <2>2 DEF Reserve, Grant
  <2>4. consumed' \in [Calls -> {"none", "nil", "error"}]
    BY <1>9 DEF Reserve
  <2>5. burned' \subseteq (Inputs \X Times)
    BY <1>9, <2>1 DEF Reserve
  <2> QED
    BY <1>9, <2>3, <2>4, <2>5 DEF Reserve
<1>10. ASSUME NEW v \in Calls, ReplayDeadline(v) PROVE TypeOK'
  <2>1. input[v] \in Inputs
    BY <1>10 DEF ReplayDeadline, Holding
  <2>2. CASE Refuse(v) /\ UNCHANGED <<storeVars, clock>>
    BY <2>2
  <2>3. CASE Accept(v) /\ UNCHANGED <<storeVars, clock>>
    BY <2>1, <2>3
  <2> QED
    BY <1>10, <2>2, <2>3 DEF ReplayDeadline
<1>11. CASE UNCHANGED vars
  BY <1>11 DEF vars
<1> QED
  BY <1>1, <1>2, <1>3, <1>4, <1>5, <1>6, <1>7, <1>8, <1>9, <1>10, <1>11 DEF Next, Verify

-----------------------------------------------------------------------------
\* A step of one call that neither grants nor accepts anything, and that the
\* rest of the invariant follows for.
Moves(v) ==
    /\ UNCHANGED <<granted, accepted>>
    /\ consumed'[v] # "nil" \/ (UNCHANGED <<consumed, input>> /\ pc'[v] = pc[v])
    /\ \A w \in Calls \ {v} : /\ pc'[w] = pc[w] /\ input'[w] = input[w]
                              /\ expiry'[w] = expiry[w] /\ consumed'[w] = consumed[w]
    /\ pc'[v] # "idle" => input'[v] \in Inputs
    /\ pc'[v] \notin {"idle", "input"} => expiry'[v] = replayExpires(input'[v])
    /\ pc'[v] \in {"consume", "reserve", "deadline"} => HasNonce(input'[v]) /\ input'[v].genuine

LEMMA MovesStep ==
    ASSUME IndInv, NEW v \in Calls, Moves(v), TypeOK'
    PROVE  IndInv'
<1> USE DEF IndInv, Moves
<1>1. Holding'
  BY DEF Holding
<1>2. Owned' /\ Unique'
  BY DEF Owned, Unique
<1>3. Backed' /\ AcceptedOnce'
  BY DEF Backed, AcceptedOnce
<1> QED
  BY <1>1, <1>2, <1>3

LEMMA MovingActions ==
    ASSUME IndInv, NEW v \in Calls,
           \/ \E i \in Inputs : Start(v, i)
           \/ ValidateInput(v) \/ CreateBase(v) \/ Resolve(v) \/ ValidateKey(v)
           \/ CryptoVerify(v) \/ Consume(v)
    PROVE  Moves(v)
<1> USE DEF IndInv, TypeOK, Holding, Owned, Moves, At, Goto, Pass, Refuse, Return, storeVars
<1>1. CASE \E i \in Inputs : Start(v, i)
  BY <1>1 DEF Start
<1>2. CASE ValidateInput(v)
  <2>1. CASE Refuse(v) /\ UNCHANGED <<storeVars, clock>>
    BY <2>1
  <2>2. CASE /\ pc[v] = "input" /\ Goto(v, "base")
             /\ expiry' = [expiry EXCEPT ![v] = replayExpires(input[v])]
             /\ UNCHANGED <<input, key, consumed, accepted, burned, storeVars, clock>>
    BY <2>2
  <2> QED
    BY <1>2, <2>1, <2>2 DEF ValidateInput
<1>3. CASE CreateBase(v)
  BY <1>3 DEF CreateBase
<1>4. CASE Resolve(v)
  BY <1>4 DEF Resolve
<1>5. CASE ValidateKey(v)
  BY <1>5 DEF ValidateKey
<1>6. CASE CryptoVerify(v)
  <2>1. CASE Refuse(v) /\ UNCHANGED <<storeVars, clock>>
    BY <2>1
  <2>2. CASE /\ pc[v] = "crypto" /\ input[v].genuine /\ HasNonce(input[v])
             /\ Pass(v, "consume") /\ UNCHANGED <<storeVars, clock>>
    BY <2>2
  <2>3. CASE ~HasNonce(input[v]) /\ Accept(v) /\ UNCHANGED <<storeVars, clock>>
    <3>1. accepted' = accepted
      BY <2>3 DEF Accept
    <3> QED
      BY <2>3, <3>1 DEF Accept
  <2> QED
    BY <1>6, <2>1, <2>2, <2>3 DEF CryptoVerify
<1>7. CASE Consume(v)
  BY <1>7 DEF Consume
<1> QED
  BY <1>1, <1>2, <1>3, <1>4, <1>5, <1>6, <1>7

\* The reservation makes the call the only owner of its input.
LEMMA ReserveStep ==
    ASSUME IndInv, NEW v \in Calls, Reserve(v), TypeOK'
    PROVE  IndInv'
<1> USE DEF IndInv, TypeOK
<1>0. /\ pc' = [pc EXCEPT ![v] = "deadline"] /\ pc[v] = "reserve"
      /\ UNCHANGED <<input, expiry, accepted>>
      /\ consumed' \in {[consumed EXCEPT ![v] = "error"], [consumed EXCEPT ![v] = "nil"]}
      /\ input[v] \in Inputs /\ HasNonce(input[v]) /\ expiry[v] = replayExpires(input[v])
      /\ input[v].genuine
  BY DEF Reserve, Goto, At, Holding
<1>1. Holding'
  BY <1>0 DEF Holding
<1>2. CASE consumed' = [consumed EXCEPT ![v] = "error"] /\ UNCHANGED granted
  <2>1. Owned' /\ Unique'
    BY <1>0, <1>2 DEF Owned, Unique
  <2>2. Backed' /\ AcceptedOnce'
    BY <1>0, <1>2 DEF Backed, AcceptedOnce
  <2> QED
    BY <1>1, <2>1, <2>2
<1>3. CASE consumed' = [consumed EXCEPT ![v] = "nil"] /\ Grant(ReplayRecord(v))
  <2> DEFINE r == RecordOf(input[v])
  <2>1. r \in Records /\ r = ReplayRecord(v)
    BY <1>0, RecordOfType DEF RecordOf, ReplayRecord
  <2>2. granted[r] = 0
    BY <1>3, <2>1, GrantIsFirst
  <2>3. granted' = [granted EXCEPT ![r] = @ + 1]
    BY <1>3, <2>1 DEF Grant
  <2> HIDE DEF r
  <2>4. \A s \in Records : granted[s] > 0 => granted'[s] > 0
    BY <2>1, <2>3
  <2>5. granted'[r] > 0
    BY <2>1, <2>2, <2>3
  <2>6. accepted[input[v]] = 0
    <3>1. accepted[input[v]] \in Nat /\ ~ (accepted[input[v]] > 0)
      BY <1>0, <2>2 DEF Backed, r
    <3> QED
      BY <3>1
  <2>7. \A w \in Calls : consumed[w] = "nil" => w # v /\ input[w] # input[v]
    BY <1>0, <2>2 DEF Owned, r
  <2>8. \A w \in Calls : consumed[w] = "nil" => RecordOf(input[w]) \in Records
    BY RecordOfType DEF Owned, Holding
  <2>9. Owned'
    <3> SUFFICES ASSUME NEW w \in Calls, consumed'[w] = "nil"
                 PROVE  /\ pc'[w] = "deadline"
                        /\ granted'[RecordOf(input[w])] > 0
                        /\ accepted[input[w]] = 0
      BY <1>0 DEF Owned
    <3>1. CASE w = v
      BY <1>0, <2>5, <2>6, <3>1 DEF r
    <3>2. CASE w # v
      <4>1. consumed[w] = "nil"
        BY <1>3, <3>2
      <4> QED
        BY <1>0, <2>4, <2>8, <4>1 DEF Owned
    <3> QED
      BY <3>1, <3>2
  <2>10. Unique'
    BY <1>0, <1>3, <2>7 DEF Unique
  <2>11. Backed'
    BY <1>0, <2>4, RecordOfType DEF Backed
  <2>12. AcceptedOnce'
    BY <1>0 DEF AcceptedOnce
  <2> QED
    BY <1>1, <2>9, <2>10, <2>11, <2>12
<1> QED
  BY <1>2, <1>3 DEF Reserve, storeVars

\* Acceptance spends the ownership.
LEMMA DeadlineStep ==
    ASSUME IndInv, NEW v \in Calls, ReplayDeadline(v), TypeOK'
    PROVE  IndInv'
<1> USE DEF IndInv, TypeOK
<1>1. CASE Refuse(v) /\ UNCHANGED <<storeVars, clock>>
  <2>1. Moves(v)
    BY <1>1 DEF Moves, Refuse, Return, Goto, storeVars
  <2> QED
    BY <2>1, MovesStep
<1>2. CASE consumed[v] = "nil" /\ Accept(v) /\ UNCHANGED <<storeVars, clock>>
  <2>0. /\ pc' = [pc EXCEPT ![v] = "idle"] /\ consumed' = [consumed EXCEPT ![v] = "none"]
        /\ input' = [input EXCEPT ![v] = NoInput] /\ expiry' = [expiry EXCEPT ![v] = 0]
        /\ accepted' = [accepted EXCEPT ![input[v]] = IF HasNonce(input[v]) THEN @ + 1 ELSE @]
        /\ UNCHANGED granted
    BY <1>2 DEF Accept, Return, Goto, storeVars
  <2>1. /\ input[v] \in Inputs /\ HasNonce(input[v])
        /\ granted[RecordOf(input[v])] > 0 /\ accepted[input[v]] = 0
    BY <1>2 DEF Owned, Holding
  <2>2. Holding'
    BY <2>0 DEF Holding
  <2>3. Owned' /\ Unique'
    BY <1>2, <2>0, <2>1 DEF Owned, Unique, Holding
  <2>4. Backed' /\ AcceptedOnce'
    BY <2>0, <2>1 DEF Backed, AcceptedOnce
  <2> QED
    BY <2>2, <2>3, <2>4
<1> QED
  BY <1>1, <1>2 DEF ReplayDeadline

-----------------------------------------------------------------------------
LEMMA StepIndInv == IndInv /\ [Next]_vars => IndInv'
<1> SUFFICES ASSUME IndInv, [Next]_vars PROVE IndInv'
  OBVIOUS
<1>0. TypeOK'
  BY TypeStep
<1>1. CASE Tick \/ UNCHANGED vars
  <2>0. UNCHANGED <<granted, pc, input, expiry, consumed, accepted>>
    BY <1>1 DEF Tick, vars, callVars, storeVars
  <2>1. Holding' /\ Owned' /\ Unique' /\ Backed' /\ AcceptedOnce'
    BY <2>0 DEF IndInv, Holding, Owned, Unique, Backed, AcceptedOnce
  <2> QED
    BY <1>0, <2>1 DEF IndInv
<1>2. ASSUME NEW v \in Calls, Verify(v) PROVE IndInv'
  <2>1. CASE Reserve(v)
    BY <1>0, <2>1, ReserveStep
  <2>2. CASE ReplayDeadline(v)
    BY <1>0, <2>2, DeadlineStep
  <2>3. CASE ~Reserve(v) /\ ~ReplayDeadline(v)
    BY <1>0, <1>2, <2>3, MovingActions, MovesStep DEF Verify
  <2> QED
    BY <2>1, <2>2, <2>3
<1> QED
  BY <1>1, <1>2 DEF Next

LEMMA IndInvHolds == Spec => []IndInv
BY InitIndInv, StepIndInv, PTL DEF Spec

-----------------------------------------------------------------------------
\* Every variable of the verifier keeps its type.
THEOREM TypeCorrect == Spec => []TypeOK
<1>1. IndInv => TypeOK
  BY DEF IndInv
<1> QED
  BY IndInvHolds, <1>1, PTL

\* A signature with a nonce is accepted at most once, for every number of
\* concurrent Verify calls, every profile and every behaviour of the resolver.
THEOREM AcceptedAtMostOnce == Spec => []AcceptedOnce
<1>1. IndInv => AcceptedOnce
  BY DEF IndInv
<1> QED
  BY IndInvHolds, <1>1, PTL

-----------------------------------------------------------------------------
(* What is reserved was checked. *)

\* Past input validation the coverage and identifier policies are met.
Checked ==
    \A v \in Calls : pc[v] \notin {"idle", "input"} =>
        input[v].covered = TRUE /\ input[v].identified = TRUE

BurnInv == Checked /\ OnlyGenuineBurnsNonce /\ ConsumedInWindow

\* replayExpires is no later than the end of either validity window.
LEMMA EarlierEnd ==
    ASSUME NEW i \in Inputs, HasCreated(i) \/ HasExpires(i)
    PROVE  /\ HasCreated(i) => replayExpires(i) <= i.created + MaxAge + ClockSkew
           /\ HasExpires(i) => replayExpires(i) <= i.expires + ClockSkew
<1> DEFINE byAge == i.created + MaxAge + ClockSkew
           byEnd == i.expires + ClockSkew
           ends  == (IF HasCreated(i) THEN {byAge} ELSE {}) \cup (IF HasExpires(i) THEN {byEnd} ELSE {})
<1>0. byAge \in Nat /\ byEnd \in Nat
  BY WindowsEnd, ProfileConfig
<1> HIDE DEF byAge, byEnd
<1>1. \E t \in ends : \A u \in ends : t <= u
  <2>1. CASE HasCreated(i) /\ (HasExpires(i) => byAge <= byEnd)
    BY <1>0, <2>1
  <2>2. CASE HasExpires(i) /\ (HasCreated(i) => byEnd <= byAge)
    BY <1>0, <2>2
  <2> QED
    BY <1>0, <2>1, <2>2
<1>2. replayExpires(i) = CHOOSE t \in ends : \A u \in ends : t <= u
  BY <1>1 DEF replayExpires, byAge, byEnd
<1>3. \A u \in ends : replayExpires(i) <= u
  BY <1>1, <1>2
<1> QED
  BY <1>3 DEF byAge, byEnd

\* Only Reserve adds to burned, and what it adds was checked.
LEMMA BurnStep == IndInv /\ BurnInv /\ [Next]_vars => BurnInv'
<1> SUFFICES ASSUME IndInv, BurnInv, [Next]_vars PROVE BurnInv'
  OBVIOUS
<1> USE DEF At, Goto, Pass, Refuse, Accept, Return, storeVars
<1>1. Checked'
  <2> USE DEF BurnInv, IndInv, TypeOK, Checked
  <2>1. CASE Tick \/ UNCHANGED vars
    BY <2>1 DEF Tick, vars, callVars
  <2>2. ASSUME NEW v \in Calls, NEW i \in Inputs, Start(v, i) PROVE Checked'
    BY <2>2 DEF Start
  <2>3. ASSUME NEW v \in Calls, ValidateInput(v) PROVE Checked'
    <3>1. CASE Refuse(v)
      BY <3>1
    <3>2. CASE ~InputRefused(input[v], clock) /\ Goto(v, "base") /\ UNCHANGED input
      <4>1. input[v] \in Inputs
        BY <2>3 DEF ValidateInput, Holding
      <4>2. input[v].covered = TRUE /\ input[v].identified = TRUE
        BY <3>2, <4>1, WindowsEnd DEF InputRefused
      <4> QED
        BY <3>2, <4>2
    <3> QED
      BY <2>3, <3>1, <3>2 DEF ValidateInput
  <2>4. ASSUME NEW v \in Calls, CreateBase(v) \/ Resolve(v) \/ ValidateKey(v) \/ Consume(v) \/ Reserve(v)
        PROVE  Checked'
    BY <2>4 DEF CreateBase, Resolve, ValidateKey, Consume, Reserve
  <2>5. ASSUME NEW v \in Calls, CryptoVerify(v) \/ ReplayDeadline(v) PROVE Checked'
    BY <2>5 DEF CryptoVerify, ReplayDeadline
  <2> QED
    BY <2>1, <2>2, <2>3, <2>4, <2>5 DEF Next, Verify
<1>2. OnlyGenuineBurnsNonce' /\ ConsumedInWindow'
  <2>1. CASE UNCHANGED burned
    BY <2>1 DEF BurnInv, OnlyGenuineBurnsNonce, ConsumedInWindow
  <2>2. ASSUME NEW v \in Calls, At(v, "reserve"), Grant(ReplayRecord(v)),
               burned' = burned \cup {<<input[v], storeTime>>}
        PROVE  OnlyGenuineBurnsNonce' /\ ConsumedInWindow'
    <3>1. /\ input[v] \in Inputs /\ HasNonce(input[v]) /\ input[v].genuine
          /\ expiry[v] = replayExpires(input[v])
      BY <2>2 DEF IndInv, Holding
    <3>2. input[v].covered /\ input[v].identified
      BY <2>2 DEF BurnInv, Checked
    <3>3. storeTime < replayExpires(input[v])
      BY <2>2, <3>1 DEF Grant, ReplayRecord
    <3>4. /\ storeTime \in Nat /\ replayExpires(input[v]) \in Nat
          /\ input[v].created + MaxAge + ClockSkew \in Nat /\ input[v].expires + ClockSkew \in Nat
      BY <3>1, WindowsEnd, ProfileConfig, LedgerTimes DEF IndInv, TypeOK
    <3>5. /\ HasCreated(input[v]) => storeTime < input[v].created + MaxAge + ClockSkew
          /\ HasExpires(input[v]) => storeTime < input[v].expires + ClockSkew
      BY <3>1, <3>3, <3>4, EarlierEnd
    <3>6. OnlyGenuineBurnsNonce'
      <4> SUFFICES ASSUME NEW b \in burned'
                   PROVE  b[1].genuine /\ b[1].covered /\ b[1].identified
        BY DEF OnlyGenuineBurnsNonce
      <4>1. CASE b \in burned
        BY <4>1, Zenon DEF BurnInv, OnlyGenuineBurnsNonce
      <4>2. CASE b = <<input[v], storeTime>>
        <5>1. b[1] = input[v]
          BY <4>2
        <5> QED
          BY <3>1, <3>2, <5>1, Zenon
      <4> QED
        BY <2>2, <4>1, <4>2, Zenon
    <3>7. ConsumedInWindow'
      BY <2>2, <3>5 DEF BurnInv, ConsumedInWindow
    <3> QED
      BY <3>6, <3>7
  <2>3. UNCHANGED burned \/ \E v \in Calls : /\ At(v, "reserve") /\ Grant(ReplayRecord(v))
                                            /\ burned' = burned \cup {<<input[v], storeTime>>}
    BY DEF Next, Verify, Tick, vars, Start, ValidateInput, CreateBase, Resolve, ValidateKey,
           CryptoVerify, Consume, Reserve, ReplayDeadline
  <2> QED
    BY <2>1, <2>2, <2>3
<1> QED
  BY <1>1, <1>2 DEF BurnInv

LEMMA BurnInvHolds == Spec => []BurnInv
<1>1. Init => BurnInv
  BY DEF Init, BurnInv, Checked, OnlyGenuineBurnsNonce, ConsumedInWindow
<1> QED
  BY <1>1, IndInvHolds, BurnStep, PTL DEF Spec

\* An invalid signature never burns a nonce, in any interleaving of calls.
THEOREM InvalidNeverBurns == Spec => []OnlyGenuineBurnsNonce
<1>1. BurnInv => OnlyGenuineBurnsNonce
  BY DEF BurnInv
<1> QED
  BY BurnInvHolds, <1>1, PTL

\* A nonce is consumed only while both validity windows are open, however long
\* key resolution took after the only check of the signature time.
THEOREM ConsumedOnlyInWindow == Spec => []ConsumedInWindow
<1>1. BurnInv => ConsumedInWindow
  BY DEF BurnInv
<1> QED
  BY BurnInvHolds, <1>1, PTL
-----------------------------------------------------------------------------
(* How long a reservation may last. *)

\* Past input validation the signature is not from the future, by the clock and,
\* once Consume was called, by the store's own time.
NotFuture ==
    \A v \in Calls : HasCreated(input[v]) =>
        /\ pc[v] \notin {"idle", "input"} => input[v].created <= clock + ClockSkew
        /\ pc[v] = "reserve" => input[v].created <= storeTime + ClockSkew

\* Neither the clock nor the store's time goes back.
LEMMA TimeAdvances ==
    ASSUME IndInv, [Next]_vars
    PROVE  /\ clock \in Nat /\ clock' \in Nat /\ clock <= clock'
           /\ storeTime \in Nat /\ storeTime' \in Nat /\ storeTime <= storeTime'
<1>1. clock \in Nat /\ clock' \in Nat /\ storeTime \in Nat /\ storeTime' \in Nat
  BY TypeStep, ProfileConfig, LedgerTimes DEF IndInv, TypeOK
<1>2. CASE Tick \/ UNCHANGED vars
  BY <1>1, <1>2 DEF Tick, vars, storeVars
<1>3. ASSUME NEW v \in Calls, Verify(v) PROVE clock <= clock' /\ storeTime <= storeTime'
  BY <1>1, <1>3 DEF Verify, Start, ValidateInput, CreateBase, Resolve, ValidateKey, CryptoVerify,
                    Consume, Reserve, ReplayDeadline, Grant, storeVars
<1> QED
  BY <1>1, <1>2, <1>3 DEF Next

LEMMA NotFutureStep == IndInv /\ NotFuture /\ [Next]_vars => NotFuture'
<1> SUFFICES ASSUME IndInv, NotFuture, [Next]_vars,
                    NEW w \in Calls, HasCreated(input'[w])
             PROVE  /\ pc'[w] \notin {"idle", "input"} => input'[w].created <= clock' + ClockSkew
                    /\ pc'[w] = "reserve" => input'[w].created <= storeTime' + ClockSkew
  BY DEF NotFuture, HasCreated
<1> USE DEF IndInv, TypeOK, At, Goto, Pass, Refuse, Accept, Return
<1>0. /\ clock \in Nat /\ clock' \in Nat /\ clock <= clock'
      /\ storeTime \in Nat /\ storeTime' \in Nat /\ storeTime <= storeTime'
      /\ ClockSkew \in Nat
  BY TimeAdvances, ProfileConfig
<1>1. CASE input'[w] = input[w] /\ pc'[w] = pc[w]
  <2>1. pc[w] # "idle" => input[w].created \in Nat
    BY WindowsEnd DEF Holding
  <2> QED
    BY <1>0, <1>1, <2>1 DEF NotFuture
<1>2. CASE pc'[w] \in {"idle", "input"}
  BY <1>2
<1>3. ASSUME ValidateInput(w), pc'[w] \notin {"idle", "input"}
      PROVE  input'[w].created <= clock' + ClockSkew /\ pc'[w] # "reserve"
  <2>1. /\ ~InputRefused(input[w], clock) /\ pc' = [pc EXCEPT ![w] = "base"]
        /\ UNCHANGED <<input, clock>> /\ input[w] \in Inputs
    BY <1>3 DEF ValidateInput, Holding
  <2>2. ~CreatedOutside(input[w], clock)
    BY <2>1 DEF InputRefused
  <2>3. input[w].created <= clock + ClockSkew
    BY <1>0, <2>1, <2>2, WindowsEnd DEF CreatedOutside, HasCreated
  <2> QED
    BY <2>1, <2>3
<1>4. ASSUME Consume(w)
      PROVE  input'[w].created <= clock' + ClockSkew /\ input'[w].created <= storeTime' + ClockSkew
  <2>1. /\ input[w].created <= clock + ClockSkew /\ input[w].created \in Nat
        /\ UNCHANGED <<input, clock>>
    BY <1>4, WindowsEnd DEF Consume, NotFuture, Holding
  <2>2. clock <= storeTime'
    BY <1>0, <1>4 DEF Consume
  <2> QED
    BY <1>0, <2>1, <2>2
<1>5. ASSUME CreateBase(w) \/ Resolve(w) \/ ValidateKey(w) \/ CryptoVerify(w) \/ Reserve(w) \/ ReplayDeadline(w),
             pc'[w] \notin {"idle", "input"}
      PROVE  input'[w].created <= clock' + ClockSkew /\ pc'[w] # "reserve"
  <2>1. /\ pc[w] \notin {"idle", "input"} /\ pc'[w] # "reserve"
        /\ UNCHANGED <<input, clock>>
    BY <1>5 DEF CreateBase, Resolve, ValidateKey, CryptoVerify, Reserve, ReplayDeadline
  <2> QED
    BY <2>1 DEF NotFuture
<1>6. \/ input'[w] = input[w] /\ pc'[w] = pc[w]
      \/ Verify(w)
  BY DEF Next, Verify, Tick, vars, callVars, Start, ValidateInput, CreateBase, Resolve, ValidateKey,
         CryptoVerify, Consume, Reserve, ReplayDeadline
<1>7. ASSUME NEW i \in Inputs, Start(w, i) PROVE pc'[w] = "input"
  BY <1>7 DEF Start
<1> QED
  BY <1>1, <1>2, <1>3, <1>4, <1>5, <1>6, <1>7 DEF Verify

\* A signature from the clock's future is refused before its nonce reaches the store,
\* and the store's time never lags behind the clock Verify has seen: no reservation is
\* asked for that outlasts MaxAge and twice the skew, in any interleaving of calls.
THEOREM ReservationsFit == Spec => []ReservationFitsStore
<1>1. Init => NotFuture
  BY DEF Init, NotFuture
<1>2. IndInv /\ NotFuture => ReservationFitsStore
  <2> SUFFICES ASSUME IndInv, NotFuture, NEW v \in Calls, pc[v] = "reserve", HasCreated(input[v])
               PROVE  expiry[v] - storeTime <= MaxAge + 2 * ClockSkew
    BY DEF ReservationFitsStore, At
  <2>1. input[v] \in Inputs /\ expiry[v] = replayExpires(input[v])
    BY DEF IndInv, Holding
  <2>2. /\ input[v].created <= storeTime + ClockSkew
        /\ replayExpires(input[v]) <= input[v].created + MaxAge + ClockSkew
    BY <2>1, EarlierEnd DEF NotFuture
  <2>3. /\ storeTime \in Nat /\ replayExpires(input[v]) \in Nat /\ input[v].created \in Nat
        /\ MaxAge \in Nat /\ ClockSkew \in Nat
    BY <2>1, WindowsEnd, ProfileConfig, LedgerTimes DEF IndInv, TypeOK
  <2> QED
    BY <2>1, <2>2, <2>3
<1> QED
  BY <1>1, <1>2, IndInvHolds, NotFutureStep, PTL DEF Spec
-----------------------------------------------------------------------------
(* SignVerify. *)

\* Cutting off the fraction loses less than a second.
LEMMA UnixBounds ==
    ASSUME NEW t \in Int
    PROVE  Unix(t) \in Int /\ Unix(t) <= t /\ t < Unix(t) + Second
<1>1. Second \in Nat \ {0}
  BY Deployment
<1> QED BY <1>1 DEF Unix

\* A signature in flight: what Sign wrote at s.at, on a clock off by drift.
Honest(s) ==
    /\ s.at \in FirstTick..clock
    /\ ~SigningRefused(SigningKey, s.at + drift)
    /\ \E nonce \in Identities : s.input = SignedInput(nonce, s.at + drift)

\* Where a call is, and the key it got from the resolver.
Placed ==
    /\ pc \in [Calls -> {"idle", "input", "base", "resolve", "key", "crypto", "consume", "reserve", "deadline"}]
    /\ key \in [Calls -> Keys \cup {NoKey}]
    /\ \A v \in Calls : pc[v] = "key" => key[v] \in Keys

HonestInv ==
    /\ clock \in FirstTick..LastTick /\ drift \in Drifts
    /\ \A s \in signed : Honest(s)
    /\ Placed

-----------------------------------------------------------------------------
(* What an honest signature says of the two checks, at the time now. *)

\* The signature is on time: neither window is closer to its end than a second.
Prompt(s, now) ==
    /\ now - s.at <= MaxAge - Second
    /\ ExpiresPolicy = "required" => now - s.at <= Lifetime - Second

LEMMA Constants ==
    /\ ClockSkew \in Nat /\ MaxAge \in Nat /\ MaxDuration \in Nat /\ MaxAge + ClockSkew <= MaxDuration
    /\ Second \in Nat /\ Second > 0 /\ Lifetime \in Nat /\ Second - 1 <= ClockSkew
    /\ FirstTick \in Nat /\ LastTick \in Nat
    /\ \A d \in Drifts : d \in Int /\ -ClockSkew <= d /\ d <= ClockSkew
BY ProfileConfig, Deployment

\* The creation time an honest signature carries, and its expiration.
LEMMA Window ==
    ASSUME HonestInv, NEW s \in signed
    PROVE  /\ s.at \in Int /\ s.at <= clock /\ clock \in Int /\ drift \in Int
           /\ s.input.created \in Int /\ s.input.created > 0
           /\ s.input.created <= s.at + drift /\ s.at + drift < s.input.created + Second
           /\ ExpiresPolicy = "required" =>
                /\ s.input.expires \in Int /\ s.input.expires > 0
                /\ s.at + drift + Lifetime < s.input.expires + Second
           /\ ExpiresPolicy # "required" => s.input.expires = 0
<1> DEFINE now == s.at + drift
<1>1. s.at \in FirstTick..clock /\ clock \in FirstTick..LastTick /\ drift \in Drifts
  BY DEF HonestInv, Honest
<1>2. s.at \in Int /\ s.at <= clock /\ clock \in Int /\ drift \in Int /\ now \in Int
      /\ s.at \in FirstTick..LastTick
  BY <1>1, Constants
<1>3. PICK nonce \in Identities : s.input = SignedInput(nonce, now)
  BY DEF HonestInv, Honest
<1>4. /\ s.input.created = Unix(now)
      /\ s.input.expires = IF ExpiresPolicy = "required" THEN Unix(now + Lifetime) ELSE 0
  BY <1>3 DEF SignedInput
<1>5. now >= Second
  <2>1. ~(now < SigningKey.notBefore)
    BY DEF HonestInv, Honest, SigningRefused
  <2>2. now >= SigningKey.notBefore
    BY <1>2, <2>1, SharedKey
  <2> QED BY <1>1, <1>2, <2>2, SharedKey
<1> HIDE DEF now
<1>6. Unix(now) \in Int /\ Unix(now) <= now /\ now < Unix(now) + Second
  BY <1>2, UnixBounds
<1>7. /\ Unix(now + Lifetime) \in Int /\ Unix(now + Lifetime) <= now + Lifetime
      /\ now + Lifetime < Unix(now + Lifetime) + Second
  <2>1. now + Lifetime \in Int
    BY <1>2, Constants
  <2> QED BY <2>1, UnixBounds
<1>8. Unix(now) > 0 /\ Unix(now + Lifetime) > 0
  BY <1>2, <1>5, <1>6, <1>7, Constants
<1> QED BY <1>2, <1>4, <1>6, <1>7, <1>8 DEF now

\* What the policies ask of the parameters, Sign writes.
LEMMA Present ==
    ASSUME HonestInv, NEW s \in signed
    PROVE  /\ s.input.covered /\ s.input.identified
           /\ presenceAllowed(AlgorithmPolicy, HasAlg(s.input))
           /\ HasAlg(s.input) => s.input.alg = SigningKey.algorithm
           /\ presenceAllowed(NoncePolicy, HasNonce(s.input))
           /\ SigningKey.algorithm \in Algorithms
<1> DEFINE now == s.at + drift
<1>1. PICK nonce \in Identities : s.input = SignedInput(nonce, now)
  BY DEF HonestInv, Honest
<1>2. /\ s.input.covered = TRUE /\ s.input.identified = TRUE
      /\ s.input.alg = IF AlgorithmPolicy = "required" THEN SigningKey.algorithm ELSE NoAlg
      /\ s.input.nonce = IF NoncePolicy = "required" THEN nonce ELSE NoNonce
  BY <1>1 DEF SignedInput
<1>3. SigningKey.algorithm \in Algorithms
  BY DEF HonestInv, Honest, SigningRefused
<1> QED BY <1>2, <1>3, SharedKey, ProfileConfig DEF HasAlg, HasNonce, presenceAllowed

\* validateInput has no reason to refuse a prompt signature: the creation time is not in
\* the future by more than the drift, and the fraction it lost counts for less than a second.
LEMMA InputStands ==
    ASSUME HonestInv, NEW s \in signed, Prompt(s, clock)
    PROVE  ~InputRefused(s.input, clock)
<1> DEFINE i == s.input
<1>1. /\ s.at \in Int /\ s.at <= clock /\ clock \in Int /\ drift \in Int
      /\ i.created \in Int /\ i.created > 0
      /\ i.created <= s.at + drift /\ s.at + drift < i.created + Second
      /\ ExpiresPolicy = "required" =>
           /\ i.expires \in Int /\ i.expires > 0
           /\ s.at + drift + Lifetime < i.expires + Second
      /\ ExpiresPolicy # "required" => i.expires = 0
  BY Window
<1>2. -ClockSkew <= drift /\ drift <= ClockSkew
  BY Constants DEF HonestInv
<1>3. HasCreated(i) /\ ~CreatedOutside(i, clock)
  <2>1. i.created <= clock + ClockSkew
    <3> HIDE DEF i
    <3> QED BY <1>1, <1>2, Constants
  <2>2. clock - i.created <= MaxAge + ClockSkew
    <3>1. clock - s.at <= MaxAge - Second
      BY DEF Prompt
    <3> HIDE DEF i
    <3> QED BY <1>1, <1>2, <3>1, Constants
  <2> HIDE DEF i
  <2>3. Sub(clock, i.created) <= MaxAge + ClockSkew
    BY <1>1, <2>2, Constants DEF Sub
  <2>4. Sub(clock, i.created) \in Int
    BY <1>1, Constants DEF Sub
  <2> QED BY <1>1, <2>1, <2>3, <2>4, Constants DEF HasCreated, CreatedOutside
<1>4. presenceAllowed(ExpiresPolicy, HasExpires(i)) /\ ~ExpiresOutside(i, clock)
  <2>1. CASE ExpiresPolicy = "required"
    <3>1. clock - s.at <= Lifetime - Second
      BY <2>1 DEF Prompt
    <3> HIDE DEF i
    <3>2. clock < i.expires + ClockSkew /\ i.created < i.expires
      BY <1>1, <1>2, <2>1, <3>1, Constants
    <3>3. HasExpires(i) /\ ~ExpiresOutside(i, clock)
      BY <1>1, <2>1, <3>2, Constants DEF HasExpires, ExpiresOutside
    <3> QED BY <2>1, <3>3 DEF presenceAllowed
  <2>2. CASE ExpiresPolicy # "required"
    <3>1. ExpiresPolicy = "forbidden"
      BY <2>2, ProfileConfig, Deployment
    <3>2. ~HasExpires(i)
      BY <1>1, <2>2 DEF HasExpires
    <3> QED BY <3>1, <3>2 DEF presenceAllowed, ExpiresOutside
  <2> QED BY <2>1, <2>2
<1>5. presenceAllowed(CreatedPolicy, HasCreated(i))
  BY <1>3, Deployment DEF presenceAllowed
<1>6. HasAlg(i) => i.alg \in Algorithms
  BY Present
<1> QED BY <1>3, <1>4, <1>5, <1>6, Present DEF InputRefused

\* validateKey has none either, once the key is fresh and, where a signature does not
\* expire, still in its window: Sign compared the same window with its own clock.
LEMMA KeyStands ==
    ASSUME HonestInv, NEW s \in signed, Prompt(s, clock), NEW k \in Keys, clock < k.freshUntil,
           ExpiresPolicy = "forbidden" => clock < k.notAfter + ClockSkew
    PROVE  ~KeyUnusable(k, s.input, clock) /\ ~AlgorithmRefused(k, s.input)
<1> DEFINE i == s.input
           now == s.at + drift
<1>1. /\ s.at \in Int /\ s.at <= clock /\ clock \in Int /\ drift \in Int
      /\ i.created \in Int /\ i.created > 0
      /\ i.created <= s.at + drift /\ s.at + drift < i.created + Second
  BY Window
<1>2. -ClockSkew <= drift /\ drift <= ClockSkew
  BY Constants DEF HonestInv
<1>3. /\ k.notBefore = SigningKey.notBefore /\ k.notAfter = SigningKey.notAfter
      /\ k.revoked = SigningKey.revoked /\ k.algorithm = SigningKey.algorithm
      /\ k.freshUntil \in Int /\ k.notBefore \in Int /\ k.notAfter \in Int
  BY SharedKey
<1>4. ~SigningRefused(SigningKey, now)
  BY DEF HonestInv, Honest
<1>5. /\ ~SigningKey.revoked /\ SigningKey.notAfter > SigningKey.notBefore
      /\ now >= SigningKey.notBefore /\ now < SigningKey.notAfter
      /\ ExpiresPolicy = "required" => now + Lifetime <= SigningKey.notAfter
  BY <1>1, <1>4, SharedKey, Constants DEF SigningRefused
<1>6. clock < k.notAfter + ClockSkew
  <2>1. CASE ExpiresPolicy = "required"
    <3>1. clock - s.at <= Lifetime - Second
      BY <2>1 DEF Prompt
    <3> QED BY <1>1, <1>2, <1>3, <1>5, <2>1, <3>1, Constants
  <2>2. CASE ExpiresPolicy # "required"
    BY <2>2, ProfileConfig, Deployment
  <2> QED BY <2>1, <2>2
<1>7. clock >= k.notBefore - ClockSkew
  BY <1>1, <1>2, <1>3, <1>5, Constants
<1>8. i.created >= k.notBefore - ClockSkew /\ i.created < k.notAfter + ClockSkew
  <2> HIDE DEF i
  <2> QED BY <1>1, <1>2, <1>3, <1>5, Constants
<1>9. ~KeyUnusable(k, i, clock)
  <2>1. ~k.revoked
    BY <1>3, <1>5
  <2> HIDE DEF i
  <2> QED BY <1>1, <1>3, <1>5, <1>6, <1>7, <1>8, <2>1, Constants DEF KeyUnusable
<1>10. ~AlgorithmRefused(k, i)
  BY <1>3, Present DEF AlgorithmRefused
<1> QED BY <1>9, <1>10

-----------------------------------------------------------------------------
(* The invariant. *)

Labels == {"idle", "input", "base", "resolve", "key", "crypto", "consume", "reserve", "deadline"}

\* A call moves on; only Resolve leads to the key check, with the resolver's key.
LEMMA MovesOn ==
    ASSUME Placed, NEW v \in Calls, NEW label \in Labels, Goto(v, label),
           \/ key' = key /\ label # "key"
           \/ key' = [key EXCEPT ![v] = NoKey] /\ label # "key"
           \/ \E k \in Keys : key' = [key EXCEPT ![v] = k]
    PROVE  Placed'
<1>1. pc' \in [Calls -> Labels] /\ pc' = [pc EXCEPT ![v] = label] /\ pc \in [Calls -> Labels]
  BY DEF Placed, Goto, Labels
<1>2. key' \in [Calls -> Keys \cup {NoKey}]
  BY DEF Placed
<1>3. ASSUME NEW u \in Calls, pc'[u] = "key" PROVE key'[u] \in Keys
  BY <1>1, <1>3 DEF Placed
<1> QED BY <1>1, <1>2, <1>3 DEF Placed, Labels

LEMMA CheckPlaces ==
    ASSUME Placed, NEW v \in Calls, Check(v) \/ Deliver(v)
    PROVE  Placed' /\ UNCHANGED clock
<1> USE DEF Labels
<1>1. CASE ValidateInput(v)
  BY <1>1, MovesOn DEF ValidateInput, Refuse, Return
<1>2. CASE CreateBase(v)
  BY <1>2, MovesOn DEF CreateBase, Refuse, Return, Pass
<1>3. CASE Resolve(v)
  BY <1>3, MovesOn DEF Resolve, Refuse, Return
<1>4. CASE ValidateKey(v)
  BY <1>4, MovesOn DEF ValidateKey, Refuse, Return, Pass
<1>5. CASE CryptoVerify(v)
  BY <1>5, MovesOn DEF CryptoVerify, Refuse, Accept, Return, Pass
<1>6. CASE Consume(v)
  BY <1>6, MovesOn DEF Consume, Pass
<1>7. CASE Reserve(v)
  BY <1>7, MovesOn DEF Reserve
<1>8. CASE ReplayDeadline(v)
  BY <1>8, MovesOn DEF ReplayDeadline, Refuse, Accept, Return
<1>9. CASE Deliver(v)
  BY <1>9, MovesOn DEF Deliver, Start
<1> QED BY <1>1, <1>2, <1>3, <1>4, <1>5, <1>6, <1>7, <1>8, <1>9 DEF Check

LEMMA InitHonest == SignerInit => HonestInv
<1> SUFFICES ASSUME SignerInit PROVE HonestInv
  OBVIOUS
<1>1. clock \in FirstTick..LastTick
  BY ProfileConfig DEF SignerInit, Init
<1>2. Placed
  BY DEF SignerInit, Init, Placed
<1> QED BY <1>1, <1>2 DEF SignerInit, HonestInv

\* A signature stays honest while time passes.
LEMMA StaysHonest ==
    ASSUME HonestInv, clock' \in clock..LastTick, UNCHANGED drift, NEW s, Honest(s)
    PROVE  Honest(s)'
BY Constants DEF HonestInv, Honest

LEMMA StepHonest == HonestInv /\ [SignNext]_allVars => HonestInv'
<1> SUFFICES ASSUME HonestInv, [SignNext]_allVars PROVE HonestInv'
  OBVIOUS
<1>0. clock \in Int /\ FirstTick \in Nat /\ LastTick \in Nat /\ FirstTick <= clock /\ clock <= LastTick
  BY Constants DEF HonestInv
<1>1. ASSUME NEW nonce \in Identities, Sign(nonce) PROVE HonestInv'
  <2> DEFINE s0 == [input |-> SignedInput(nonce, clock + drift), at |-> clock]
  <2>1. clock' = clock /\ drift' = drift /\ Placed'
    BY <1>1 DEF Sign, vars, HonestInv, Placed
  <2>2. Honest(s0)
    <3>1. s0.at = clock /\ s0.input = SignedInput(nonce, clock + drift)
      OBVIOUS
    <3>2. ~SigningRefused(SigningKey, clock + drift)
      BY <1>1 DEF Sign
    <3> HIDE DEF s0
    <3> QED BY <1>0, <3>1, <3>2 DEF Honest
  <2>3. signed' = signed \cup {s0}
    BY <1>1 DEF Sign
  <2> HIDE DEF s0
  <2>4. \A s \in signed' : Honest(s)
    BY <2>2, <2>3 DEF HonestInv
  <2>5. ASSUME NEW s \in signed' PROVE Honest(s)'
    BY <1>0, <2>1, <2>4, StaysHonest
  <2> QED BY <2>1, <2>5 DEF HonestInv
<1>2. ASSUME clock' \in clock..LastTick, UNCHANGED <<drift, signed>>, Placed' PROVE HonestInv'
  <2>1. ASSUME NEW s \in signed PROVE Honest(s)'
    BY <1>2, StaysHonest DEF HonestInv
  <2>2. clock' \in FirstTick..LastTick
    BY <1>0, <1>2
  <2> QED BY <1>2, <2>1, <2>2 DEF HonestInv
<1>3. CASE Tick /\ UNCHANGED <<drift, signed>>
  <2>1. Placed'
    BY <1>3 DEF Tick, callVars, HonestInv, Placed
  <2>2. clock' \in clock..LastTick
    BY <1>0, <1>3 DEF Tick
  <2> QED BY <1>2, <1>3, <2>1, <2>2
<1>4. ASSUME NEW v \in Calls, Deliver(v) \/ Check(v), UNCHANGED <<drift, signed>> PROVE HonestInv'
  <2>1. Placed' /\ clock' = clock
    BY <1>4, CheckPlaces DEF HonestInv
  <2>2. clock' \in clock..LastTick
    BY <1>0, <2>1
  <2> QED BY <1>2, <1>4, <2>1, <2>2
<1>5. CASE UNCHANGED allVars
  <2>1. Placed' /\ clock' \in clock..LastTick /\ UNCHANGED <<drift, signed>>
    BY <1>0, <1>5 DEF allVars, vars, HonestInv, Placed
  <2> QED BY <1>2, <2>1
<1> QED BY <1>1, <1>3, <1>4, <1>5 DEF SignNext

-----------------------------------------------------------------------------
\* Only the check a call is at sends it back to idle from there.
LEMMA WhoRefuses ==
    ASSUME Placed, NEW v \in Calls, [SignNext]_allVars, pc'[v] = "idle"
    PROVE  /\ pc[v] = "input" => InputRefused(input[v], clock)
           /\ pc[v] = "key" => KeyUnusable(key[v], input[v], clock) \/ AlgorithmRefused(key[v], input[v])
<1>0. pc \in [Calls -> Labels]
  BY DEF Placed, Labels
<1>1. CASE UNCHANGED pc
  BY <1>1
<1>2. ASSUME NEW u \in Calls, Deliver(u) \/ Check(u), u # v PROVE UNCHANGED pc \/ pc'[v] = pc[v]
  <2>1. \E label \in Labels : Goto(u, label)
    BY <1>2 DEF Labels, Deliver, Start, Check, ValidateInput, CreateBase, Resolve, ValidateKey, CryptoVerify,
       Consume, Reserve, ReplayDeadline, Refuse, Accept, Return, Pass
  <2> QED BY <1>0, <1>2, <2>1 DEF Goto
<1>3. ASSUME Deliver(v) \/ Check(v)
      PROVE  /\ pc[v] = "input" => InputRefused(input[v], clock)
             /\ pc[v] = "key" => KeyUnusable(key[v], input[v], clock) \/ AlgorithmRefused(key[v], input[v])
  <2>1. CASE ValidateInput(v)
    BY <1>0, <2>1 DEF ValidateInput, At, Goto
  <2>2. CASE ValidateKey(v)
    BY <1>0, <2>2 DEF ValidateKey, At, Goto, Pass
  <2>3. CASE ~ValidateInput(v) /\ ~ValidateKey(v)
    BY <1>3, <2>3 DEF Deliver, Start, Check, CreateBase, Resolve, CryptoVerify, Consume, Reserve, ReplayDeadline, At
  <2> QED BY <2>1, <2>2, <2>3
<1>4. UNCHANGED pc \/ \E u \in Calls : Deliver(u) \/ Check(u)
  BY DEF SignNext, Sign, Tick, callVars, vars, allVars
<1> QED BY <1>1, <1>2, <1>3, <1>4

\* An honest signature is refused by the input and key checks only when it is late, the
\* resolved key is stale or, without an expiration, the key has come to its end: for every
\* skew, drift within it, lifetime, age and key window, at every moment.
THEOREM HonestStands == SignSpec => HonestSignatureStands
<1> DEFINE Refusals ==
             \A v \in Calls :
               /\ pc[v] = "input" /\ pc'[v] = "idle" => Late(input[v], clock)
               /\ pc[v] = "key" /\ pc'[v] = "idle" =>
                    \/ Late(input[v], clock) \/ clock >= key[v].freshUntil
                    \/ ExpiresPolicy = "forbidden" /\ clock >= key[v].notAfter + ClockSkew
<1>1. HonestInv /\ [SignNext]_allVars => Refusals
  <2> SUFFICES ASSUME HonestInv, [SignNext]_allVars, NEW v \in Calls, pc'[v] = "idle"
               PROVE  /\ pc[v] = "input" => Late(input[v], clock)
                      /\ pc[v] = "key" =>
                           \/ Late(input[v], clock) \/ clock >= key[v].freshUntil
                           \/ ExpiresPolicy = "forbidden" /\ clock >= key[v].notAfter + ClockSkew
    OBVIOUS
  <2>1. ASSUME ~Late(input[v], clock)
        PROVE  \E s \in signed : s.input = input[v] /\ Prompt(s, clock)
    <3>1. PICK s \in signed : /\ s.input = input[v] /\ ~(clock - s.at > MaxAge - Second)
                              /\ ~(ExpiresPolicy = "required" /\ clock - s.at > Lifetime - Second)
      BY <2>1 DEF Late
    <3>2. s.at \in Int /\ clock \in Int
      BY Window
    <3>3. Prompt(s, clock)
      BY <3>1, <3>2, Constants DEF Prompt
    <3> QED BY <3>1, <3>3
  <2>2. CASE pc[v] = "input"
    <3> SUFFICES ASSUME ~Late(input[v], clock) PROVE FALSE
      BY <2>2
    <3>1. PICK s \in signed : s.input = input[v] /\ Prompt(s, clock)
      BY <2>1
    <3>2. ~InputRefused(input[v], clock)
      BY <3>1, InputStands
    <3> QED BY <2>2, <3>2, WhoRefuses DEF HonestInv
  <2>3. CASE pc[v] = "key"
    <3> SUFFICES ASSUME ~Late(input[v], clock), ~(clock >= key[v].freshUntil),
                        ~(ExpiresPolicy = "forbidden" /\ clock >= key[v].notAfter + ClockSkew)
                 PROVE  FALSE
      BY <2>3
    <3>1. PICK s \in signed : s.input = input[v] /\ Prompt(s, clock)
      BY <2>1
    <3>2. key[v] \in Keys /\ clock \in Int
      BY <2>3, Constants DEF HonestInv, Placed
    <3>3. clock < key[v].freshUntil /\ (ExpiresPolicy = "forbidden" => clock < key[v].notAfter + ClockSkew)
      BY <3>2, SharedKey, Constants
    <3>4. ~KeyUnusable(key[v], input[v], clock) /\ ~AlgorithmRefused(key[v], input[v])
      BY <3>1, <3>2, <3>3, KeyStands
    <3> QED BY <2>3, <3>4, WhoRefuses DEF HonestInv
  <2> QED BY <2>2, <2>3
<1>2. SignSpec => []HonestInv
  BY InitHonest, StepHonest, PTL DEF SignSpec
<1>3. HonestInv /\ [SignNext]_allVars => [Refusals]_allVars
  BY <1>1
<1> QED BY <1>2, <1>3, PTL DEF SignSpec, HonestSignatureStands
=============================================================================
