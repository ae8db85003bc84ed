------------------------- MODULE PairWorkflowProofs -------------------------
(***************************************************************************)
(* What holds of PairWorkflow for every set of devices, every request,     *)
(* every agent and every backend kind.  The inductive invariant is TypeOK  *)
(* and Accounting; the theorems about single properties follow from it.    *)
(***************************************************************************)
EXTENDS PairWorkflow, FiniteSetTheorems,
        SequenceTheorems, TLAPS

-----------------------------------------------------------------------------
(* The parameters of a request. *)

(* The fields of a request. *)
LEMMA RequestFields ==
  ASSUME req \in Requests
  PROVE  /\ req.backend \in Backends
         /\ req.targets \in Seq(Device) /\ req.bonded \in SUBSET Device
         /\ req.auto \in BOOLEAN /\ req.spoof \in BOOLEAN
         /\ req.slots \in Nat /\ req.rounds \in Nat /\ req.retries \in 0..U32Max
         /\ U32Max \in Nat \ {0}
BY PairAssumption DEF Request

(* Rounds and attempts are never zero: a batch tries every target.         *)
LEMMA Bounds ==
  ASSUME req \in Requests
  PROVE  MaxAttempts \in Nat \ {0} /\ Rounds \in Nat \ {0} /\ Budget \in Nat \ {0}
<1>1. MaxAttempts \in Nat \ {0}
  BY RequestFields DEF MaxAttempts
<1>2. Rounds \in Nat \ {0}
  BY RequestFields DEF Rounds
<1>3. \A a, b \in Nat \ {0} : a * b \in Nat \ {0}
  OBVIOUS
<1> QED BY <1>1, <1>2, <1>3 DEF Budget

(* Targets are devices. *)
LEMMA TargetsType ==
  ASSUME req \in Requests
  PROVE  Targets \in SUBSET Device
BY RequestFields DEF Targets, Range

(* What the rounds' shares of the budget add up to.                        *)
LEMMA Shares ==
  ASSUME NEW m \in Nat \ {0}, NEW r \in Nat \ {0}
  PROVE  /\ (r - 1) * m + m = r * m
         /\ r * m \in Nat /\ (r - 1) * m \in Nat
OBVIOUS

(* The calls of whole rounds and some of one more are within the budget. *)
LEMMA SharesWithinBudget ==
  ASSUME NEW m \in Nat \ {0}, NEW r \in Nat \ {0}, NEW n \in Nat, r <= n,
         NEW t \in Nat, t < m
  PROVE  (r - 1) * m + t < n * m
<1>1. n * m = r * m + (n - r) * m /\ (n - r) * m \in Nat
  OBVIOUS
<1> QED BY <1>1, Shares

-----------------------------------------------------------------------------
(* Type correctness. *)

(* A backend answers with a result. *)
LEMMA UnpromptedType ==
  TypeOK => \A d \in Device : Unprompted(d) \subseteq Results
<1> SUFFICES ASSUME TypeOK PROVE \A d \in Device : Unprompted(d) \subseteq Results
  OBVIOUS
<1>1. Kind \in Backends
  BY RequestFields DEF TypeOK, Kind
<1> QED BY <1>1 DEF Unprompted, Results, Backends

(* Resuming after a result of backend.pair keeps the types.                *)
LEMMA ResumeType ==
  ASSUME TypeOK, NEW d \in Device, NEW r \in Results, Resume(d, r)
  PROVE  /\ UNCHANGED <<req, pc, identity, order, pending, next, round>>
         /\ requeue' \in Seq(Device)
         /\ trying' \in [Device -> Nat]
         /\ outcome' \in [Device -> Results \union {"not_attempted", "local_address"}]
         /\ passes' \in [Device -> Nat]
         /\ calls' \in [Device -> Nat]
<1>1. CASE Retry(d)
  BY <1>1 DEF Retry, TypeOK, flow
<1>2. CASE Settle(d, r)
  <2>1. requeue' \in Seq(Device)
    BY <1>2, AppendProperties DEF Settle, TypeOK
  <2> QED BY <1>2, <2>1 DEF Settle, TypeOK
<1> QED BY <1>1, <1>2 DEF Resume

(* The targets in some order are a sequence of devices. *)
LEMMA ArrangementIsSeq ==
  ASSUME req \in Requests,
         NEW s \in [1..Cardinality(Range(req.targets)) -> Range(req.targets)]
  PROVE  s \in Seq(Device)
<1>1. Range(req.targets) \in SUBSET Device
  BY TargetsType DEF Targets
<1>2. Cardinality(Range(req.targets)) \in Nat
  BY <1>1, PairAssumption, FS_Subset, FS_CardinalityType
<1>3. s \in [1..Cardinality(Range(req.targets)) -> Device]
  BY <1>1
<1> QED BY <1>2, <1>3, SeqDef

(* A bonding that goes on is a device's. *)
LEMMA MayGoOnType ==
  ASSUME TypeOK, NEW d \in Device, NEW r
  PROVE  \A s \in MayGoOn(d, r) : s \in SUBSET Device
BY DEF MayGoOn, TypeOK

(* Every step keeps the types. *)
LEMMA TypeStep == TypeOK /\ [Next]_vars => TypeOK'
<1> SUFFICES ASSUME TypeOK, [Next]_vars PROVE TypeOK'
  OBVIOUS
<1>1. CASE ApplySpoof
  BY <1>1 DEF TypeOK, ApplySpoof, AfterSpoof, work
<1>2. CASE SpoofFails
  BY <1>2 DEF TypeOK, SpoofFails, work
<1>3. CASE Scan
  BY <1>3 DEF TypeOK, Scan, work
<1>4. CASE BeginBatch
  BY <1>4, ArrangementIsSeq DEF TypeOK, BeginBatch
<1>5. CASE StartRound
  BY <1>5, EmptySeq DEF TypeOK, StartRound
<1>6. CASE Launch
  BY SMTT(30), <1>6 DEF TypeOK, Launch
<1>7. CASE EndRound
  BY <1>7 DEF TypeOK, EndRound
<1>8. CASE Return
  BY <1>8 DEF TypeOK, Return, work
<1>9. ASSUME NEW d \in Device, AgentReplies(d) PROVE TypeOK'
  <2>1. PICK r \in Results : Resume(d, r)
    BY <1>9 DEF AgentReplies, RefusalResult, Results
  <2>2. /\ bonds' \in SUBSET Device /\ refused' \in SUBSET Device
        /\ started' \in SUBSET Device
    BY <1>9, MayGoOnType DEF AgentReplies, TypeOK, Results
  <2> QED BY <2>1, <2>2, ResumeType DEF TypeOK
<1>10. ASSUME NEW d \in Device, BackendReturns(d) PROVE TypeOK'
  <2>1. PICK r \in Results : Resume(d, r)
    BY <1>10, UnpromptedType DEF BackendReturns
  <2>2. /\ bonds' \in SUBSET Device /\ refused' \in SUBSET Device
        /\ started' \in SUBSET Device
    BY <1>10, MayGoOnType DEF BackendReturns, TypeOK
  <2> QED BY <2>1, <2>2, ResumeType DEF TypeOK
<1>11. ASSUME NEW d \in Device, OsBonds(d) PROVE TypeOK'
  BY <1>11 DEF TypeOK, OsBonds, flow
<1>12. CASE UNCHANGED vars
  BY <1>12 DEF TypeOK, vars
<1> QED BY <1>1, <1>2, <1>3, <1>4, <1>5, <1>6, <1>7, <1>8, <1>9, <1>10,
            <1>11, <1>12 DEF Next

(* The types at the start. *)
LEMMA TypeInit == Init => TypeOK
BY EmptySeq, RequestFields DEF Init, TypeOK

(* Every reachable state of the workflow is well formed.                   *)
THEOREM TypeCorrect == Spec => []TypeOK
BY TypeInit, TypeStep, PTL DEF Spec

-----------------------------------------------------------------------------
(* The accounting invariant: one lemma per action.                         *)

USE DEF Targets

(* No call has been made at the start. *)
LEMMA AccountingInit == Init => Accounting
BY DEF Init, Accounting, BeforeBatch, BetweenRounds, InRound, AfterBatch,
       Decided, Final

(* The steps before the batch: nothing is called.                          *)
LEMMA PreludeAccounting ==
  ASSUME TypeOK, Accounting, ApplySpoof \/ SpoofFails \/ Scan
  PROVE  Accounting'
<1>1. CASE ApplySpoof
  BY <1>1 DEF ApplySpoof, AfterSpoof, work, Accounting, BeforeBatch,
              BetweenRounds, InRound, AfterBatch, Decided
<1>2. CASE Scan
  BY <1>2 DEF Scan, work, Accounting, BeforeBatch, BetweenRounds, InRound,
              AfterBatch, Decided
<1>3. CASE SpoofFails
  <2>1. pc = "start" /\ \A d \in Device : calls'[d] = 0 /\ trying'[d] = 0
    BY <1>3 DEF SpoofFails, work, Accounting, BeforeBatch
  <2>2. CASE pc' = "error"
    BY <1>3, <2>2 DEF SpoofFails, work, Accounting, BeforeBatch,
                      BetweenRounds, InRound, AfterBatch, Decided
  <2>3. CASE pc' = "done"
    <3>1. \A d \in Range(req.targets) : d \in Device
      BY TargetsType DEF TypeOK
    <3>2. \A d \in Range(req'.targets) : outcome'[d] = "local_address"
      BY <1>3, <2>3, <3>1 DEF SpoofFails, work
    <3>3. \A d \in Range(req'.targets) : d \in Device
      BY <1>3, <3>1 DEF SpoofFails
    <3>4. EveryTargetGetsItsBudget'
      BY <2>1, <3>2, <3>3 DEF EveryTargetGetsItsBudget
    <3> QED BY <2>1, <2>3, <3>4 DEF Accounting, BeforeBatch, BetweenRounds,
                                    InRound, AfterBatch
  <2> QED BY <1>3, <2>2, <2>3 DEF SpoofFails
<1> QED BY <1>1, <1>2, <1>3

(* The accounts open with every target pending. *)
LEMMA BeginBatchAccounting ==
  ASSUME TypeOK, Accounting, BeginBatch
  PROVE  Accounting'
<1>1. PICK s \in [1..Cardinality(Range(req.targets)) -> Range(req.targets)] :
        IsFirstSeen(s, req.targets) /\ pending' = s
  BY DEF BeginBatch
<1>2. s \in Seq(Device)
  BY ArrangementIsSeq DEF TypeOK
<1>3. /\ IsInjective(s)
      /\ \A d : (\E i \in 1..Len(s) : s[i] = d) <=> d \in Range(req.targets)
  <2>1. Range(s) = Range(req.targets) /\ IsInjective(s)
    BY <1>1, Zenon DEF IsFirstSeen
  <2>2. DOMAIN s = 1..Len(s)
    BY <1>2, LenProperties
  <2> QED BY <2>1, <2>2, Zenon DEF Range
<1>4. round * MaxAttempts = 0 /\ round = 0
  BY Bounds DEF BeginBatch, Accounting, BeforeBatch, TypeOK
<1> QED
  BY <1>1, <1>3, <1>4, Bounds
  DEF BeginBatch, Accounting, BeforeBatch, BetweenRounds, InRound, AfterBatch,
      Decided, Pending, TypeOK, MaxAttempts, Rounds

(* A round puts what was requeued in the queue. *)
LEMMA StartRoundAccounting ==
  ASSUME TypeOK, Accounting, StartRound
  PROVE  Accounting'
<1>1. /\ req' = req /\ pending' = pending /\ trying' = trying
      /\ outcome' = outcome /\ calls' = calls /\ pc = "between"
      /\ pc' = "round" /\ round' = round + 1 /\ next' = 1 /\ requeue' = <<>>
      /\ round < Rounds
  BY DEF StartRound
<1>2. Rounds' = Rounds /\ MaxAttempts' = MaxAttempts
  BY <1>1 DEF Rounds, MaxAttempts
<1>3. (round' - 1) * MaxAttempts' = round * MaxAttempts
  BY <1>1, <1>2 DEF TypeOK
<1>4. \A d : ~Requeued(d)' /\ (Waiting(d)' <=> Pending(d)) /\ (Pending(d)' <=> Pending(d))
  BY <1>1 DEF Requeued, Waiting, Pending
<1>5. \A d \in Device : d \notin InFlight'
  BY <1>1 DEF InFlight, Accounting, BetweenRounds
<1>6. round' \in 1..Rounds'
  BY <1>1, <1>2, Bounds DEF TypeOK
<1>7. IsInjective(pending') /\ IsInjective(requeue')
  BY <1>1 DEF Accounting, BetweenRounds, IsInjective
<1>8. \A d : Decided(d)' <=> Decided(d)
  BY <1>1 DEF Decided
<1>9. BetweenRounds
  BY DEF Accounting
<1>10. InRound'
  BY <1>1, <1>3, <1>4, <1>5, <1>6, <1>7, <1>8, <1>9
  DEF InRound, BetweenRounds, InFlight
<1> QED BY <1>1, <1>10 DEF Accounting, BeforeBatch, BetweenRounds, AfterBatch

(* A launched device leaves the waiting part of the round, nothing else moves. *)
LEMMA LaunchAccounting ==
  ASSUME TypeOK, Accounting, Launch
  PROVE  Accounting'
<1> DEFINE d == pending[next]
           base == (round - 1) * MaxAttempts
<1>1. /\ pc = "round" /\ pc' = pc /\ req' = req /\ pending' = pending
      /\ round' = round /\ requeue' = requeue /\ outcome' = outcome
      /\ next \in 1..Len(pending) /\ next' = next + 1
      /\ trying' = [trying EXCEPT ![d] = 1]
      /\ calls' = [calls EXCEPT ![d] = @ + 1]
  BY DEF Launch, TypeOK
<1>2. InRound
  BY DEF Accounting
<1>3. d \in Device
  BY <1>1 DEF TypeOK
<1>4. Waiting(d) /\ Pending(d)
  BY SMTT(30), <1>1 DEF Waiting, Pending, TypeOK
<1>5. Rounds' = Rounds /\ MaxAttempts' = MaxAttempts /\ base' = base
  BY <1>1 DEF Rounds, MaxAttempts
<1>6. base \in Nat /\ MaxAttempts \in Nat \ {0}
  <2>1. round \in Nat \ {0} /\ MaxAttempts \in Nat \ {0}
    BY <1>1, <1>2, Bounds DEF InRound, TypeOK
  <2> QED BY <2>1, Shares
<1>7. \A e \in Device : Waiting(e)' => Waiting(e) /\ e # d
  <2>1. \A i \in next'..Len(pending) : pending[i] # d /\ i \in next..Len(pending)
    <3>1. IsInjective(pending) /\ DOMAIN pending = 1..Len(pending)
      BY <1>1, <1>2, LenProperties DEF InRound, TypeOK
    <3>2. next \in Nat /\ Len(pending) \in Nat
      BY <1>1, LenProperties DEF TypeOK
    <3> QED BY <1>1, <3>1, <3>2 DEF IsInjective
  <2> QED BY <1>1, <2>1 DEF Waiting
<1>8. \A e \in Device : Waiting(e) => e = d \/ Waiting(e)'
  BY <1>1 DEF Waiting, TypeOK
<1>9. /\ \A e \in Device : Requeued(e)' <=> Requeued(e)
      /\ \A e \in Device : Pending(e)' <=> Pending(e)
      /\ \A e \in Device : Decided(e)' <=> Decided(e)
  BY <1>1 DEF Requeued, Pending, Decided
<1>10. \A e \in Device : e # d => trying'[e] = trying[e] /\ calls'[e] = calls[e]
  BY <1>1 DEF TypeOK
<1>11. trying'[d] = 1 /\ calls'[d] = base + 1
  BY <1>1, <1>2, <1>3, <1>4 DEF TypeOK, InRound
<1>12. \A e \in Device : e \in InFlight' <=> e = d \/ e \in InFlight
  BY <1>10, <1>11 DEF InFlight
<1>13. d \in Targets /\ ~Decided(d) /\ ~Requeued(d)
  BY <1>2, <1>1, <1>3, <1>4 DEF InRound
<1>14. InRound'
  <2>1. \A e \in Device : Waiting(e)' =>
           /\ ~Decided(e)' /\ trying'[e] = 0 /\ ~Requeued(e)'
           /\ calls'[e] = base'
    BY <1>1, <1>2, <1>5, <1>7, <1>9, <1>10 DEF InRound
  <2>2. \A e \in InFlight' :
           /\ e \in Targets' /\ ~Decided(e)' /\ trying'[e] <= MaxAttempts'
           /\ calls'[e] = base' + trying'[e]
    <3>1. \A e \in InFlight : e \in Device
      BY DEF InFlight
    <3>2. \A e \in InFlight' : e \in Device
      BY DEF InFlight
    <3> QED BY <1>1, <1>2, <1>3, <1>5, <1>6, <1>9, <1>10, <1>11, <1>12, <1>13,
               <3>1, <3>2 DEF InRound
  <2>3. \A e \in Device : Requeued(e)' =>
           /\ e \in Targets' /\ ~Decided(e)' /\ trying'[e] = 0
           /\ calls'[e] = round' * MaxAttempts'
    BY <1>1, <1>2, <1>5, <1>9, <1>10, <1>13 DEF InRound
  <2>4. \A e \in Targets' :
           Decided(e)' \/ e \in InFlight' \/ Waiting(e)' \/ Requeued(e)'
    BY <1>1, <1>2, <1>8, <1>9, <1>12, TargetsType DEF InRound, TypeOK
  <2> QED BY <1>1, <1>2, <1>5, <1>9, <2>1, <2>2, <2>3, <2>4 DEF InRound
<1> QED BY <1>1, <1>14 DEF Accounting, BeforeBatch, BetweenRounds, AfterBatch

(* A pairing can only resume inside a round.                               *)
LEMMA InFlightInRound ==
  ASSUME TypeOK, Accounting, NEW d \in Device, trying[d] > 0
  PROVE  pc = "round" /\ d \in InFlight
<1>1. trying[d] # 0
  BY DEF TypeOK
<1> QED BY <1>1 DEF TypeOK, Accounting, BeforeBatch, BetweenRounds, AfterBatch,
                    InFlight

(* A device whose pairing fails transiently is retried within its share of *)
(* the budget, and requeued when it has used all of it.                    *)
LEMMA ResumeAccounting ==
  ASSUME TypeOK, Accounting, NEW d \in Device, NEW r \in Results,
         trying[d] > 0, Resume(d, r)
  PROVE  Accounting'
<1> DEFINE base == (round - 1) * MaxAttempts
<1>1. pc = "round" /\ d \in InFlight /\ InRound
  BY InFlightInRound DEF Accounting
<1>2. /\ pc' = pc /\ req' = req /\ pending' = pending /\ next' = next
      /\ round' = round
  BY ResumeType
<1>3. Rounds' = Rounds /\ MaxAttempts' = MaxAttempts /\ base' = base
  BY <1>2 DEF Rounds, MaxAttempts
<1>4. base \in Nat /\ MaxAttempts \in Nat \ {0} /\ base + MaxAttempts = round * MaxAttempts
  <2>1. round \in Nat \ {0} /\ MaxAttempts \in Nat \ {0}
    BY <1>1, Bounds DEF InRound, TypeOK
  <2> QED BY <2>1, Shares
<1>5. /\ d \in Targets /\ ~Decided(d) /\ ~Waiting(d) /\ ~Requeued(d)
      /\ trying[d] <= MaxAttempts /\ calls[d] = base + trying[d]
      /\ trying[d] \in Nat \ {0}
  BY <1>1 DEF InRound, TypeOK, InFlight
<1>6. \A e \in Device : (Waiting(e)' <=> Waiting(e)) /\ (Pending(e)' <=> Pending(e))
  BY <1>2 DEF Waiting, Pending
<1>7. CASE Retry(d) /\ trying[d] < MaxAttempts
  <2>1. /\ requeue' = requeue /\ outcome' = outcome
        /\ \A e \in Device : e # d => trying'[e] = trying[e] /\ calls'[e] = calls[e]
        /\ trying'[d] = trying[d] + 1 /\ calls'[d] = calls[d] + 1
    BY <1>7 DEF Retry, flow, TypeOK
  <2>2. \A e \in Device : (Requeued(e)' <=> Requeued(e)) /\ (Decided(e)' <=> Decided(e))
    BY <2>1 DEF Requeued, Decided
  <2>3. \A e \in Device : e \in InFlight' <=> e \in InFlight
    BY <1>1, <1>5, <2>1 DEF InFlight
  <2>4. \A e \in InFlight' :
           /\ e \in Targets' /\ ~Decided(e)' /\ trying'[e] <= MaxAttempts'
           /\ calls'[e] = base' + trying'[e]
    <3>1. \A e \in InFlight' : e \in Device
      BY DEF InFlight
    <3> QED BY <1>1, <1>2, <1>3, <1>4, <1>5, <1>7, <2>1, <2>2, <2>3, <3>1 DEF InRound
  <2>5. \A e \in Targets' :
           Decided(e)' \/ e \in InFlight' \/ Waiting(e)' \/ Requeued(e)'
    BY <1>1, <1>2, <1>6, <2>2, <2>3, TargetsType DEF InRound, TypeOK
  <2>6. \A e \in Device : Waiting(e)' \/ Requeued(e)' => e # d
    BY <1>5, <1>6, <2>2
  <2>7. InRound'
    BY <1>1, <1>2, <1>3, <1>6, <2>1, <2>2, <2>4, <2>5, <2>6 DEF InRound
  <2> QED BY <1>1, <1>2, <2>7 DEF Accounting, BeforeBatch, BetweenRounds, AfterBatch
<1>8. CASE Settle(d, r) /\ ~(r \notin Final \union {"ok"} /\ trying[d] < MaxAttempts)
  <2>1. /\ \A e \in Device : e # d => trying'[e] = trying[e] /\ outcome'[e] = outcome[e]
        /\ calls' = calls /\ trying'[d] = 0 /\ outcome'[d] = r
    BY <1>8 DEF Settle, TypeOK
  <2>2. \A e \in Device : e # d => (Decided(e)' <=> Decided(e))
    BY <2>1 DEF Decided
  <2>3. \A e \in Device : e \in InFlight' <=> e \in InFlight /\ e # d
    BY <2>1 DEF InFlight
  <2>4. Decided(d)' <=> r \in Final \union {"ok"}
    BY <2>1 DEF Decided
  <2>5. CASE r \in Final \union {"ok"}
    <3>1. requeue' = requeue
      BY <1>8, <2>5 DEF Settle
    <3>2. \A e \in Device : Requeued(e)' <=> Requeued(e)
      BY <3>1 DEF Requeued
    <3>3. \A e \in Device : Waiting(e)' \/ Requeued(e)' => e # d
      BY <1>5, <1>6, <3>2
    <3>4. \A e \in InFlight' : e \in InFlight /\ e # d /\ e \in Device
      BY <2>3 DEF InFlight
    <3>5. \A e \in Targets' :
             Decided(e)' \/ e \in InFlight' \/ Waiting(e)' \/ Requeued(e)'
      BY <1>1, <1>2, <1>6, <2>2, <2>3, <2>4, <2>5, <3>2, TargetsType DEF InRound, TypeOK
    <3>6. InRound'
      BY <1>1, <1>2, <1>3, <1>6, <2>1, <2>2, <3>1, <3>2, <3>3, <3>4, <3>5 DEF InRound
    <3> QED BY <1>1, <1>2, <3>6 DEF Accounting, BeforeBatch, BetweenRounds, AfterBatch
  <2>6. CASE r \notin Final \union {"ok"}
    <3>1. requeue' = Append(requeue, d) /\ trying[d] = MaxAttempts
      BY <1>4, <1>5, <1>8, <2>6 DEF Settle
    <3>2. calls[d] = round * MaxAttempts
      BY <1>4, <1>5, <3>1
    <3>3. /\ Len(requeue') = Len(requeue) + 1 /\ Len(requeue) \in Nat
          /\ requeue'[Len(requeue) + 1] = d
          /\ \A i \in 1..Len(requeue) : requeue'[i] = requeue[i]
          /\ DOMAIN requeue = 1..Len(requeue) /\ DOMAIN requeue' = 1..(Len(requeue) + 1)
      BY <3>1, AppendProperties, LenProperties DEF TypeOK
    <3>4. \A e \in Device : Requeued(e)' <=> e = d \/ Requeued(e)
      BY <3>3 DEF Requeued
    <3>5. IsInjective(requeue')
      <4>1. \A i \in 1..Len(requeue) : requeue[i] # d
        BY <1>5 DEF Requeued
      <4> QED BY <1>1, <3>3, <4>1 DEF InRound, IsInjective
    <3>6. \A e \in Device : Waiting(e)' => e # d
      BY <1>5, <1>6
    <3>7. \A e \in InFlight' : e \in InFlight /\ e # d /\ e \in Device
      BY <2>3 DEF InFlight
    <3>8. \A e \in Targets' :
             Decided(e)' \/ e \in InFlight' \/ Waiting(e)' \/ Requeued(e)'
      BY <1>1, <1>2, <1>6, <2>2, <2>3, <2>4, <3>4, TargetsType DEF InRound, TypeOK
    <3>9. \A e \in Device : Requeued(e)' =>
             /\ e \in Targets' /\ ~Decided(e)' /\ trying'[e] = 0
             /\ calls'[e] = round' * MaxAttempts'
      BY <1>1, <1>2, <1>3, <1>5, <2>1, <2>2, <2>4, <2>6, <3>2, <3>4 DEF InRound
    <3>10. InRound'
      BY <1>1, <1>2, <1>3, <1>6, <2>1, <2>2, <3>4, <3>5, <3>6, <3>7, <3>8, <3>9 DEF InRound
    <3> QED BY <1>1, <1>2, <3>10 DEF Accounting, BeforeBatch, BetweenRounds, AfterBatch
  <2> QED BY <2>5, <2>6
<1> QED BY <1>7, <1>8 DEF Resume

(* A round ends with every device decided or requeued. *)
LEMMA EndRoundAccounting ==
  ASSUME TypeOK, Accounting, EndRound
  PROVE  Accounting'
<1>1. /\ pc = "round" /\ pc' = "between" /\ pending' = requeue /\ req' = req
      /\ round' = round /\ trying' = trying /\ outcome' = outcome
      /\ calls' = calls /\ next > Len(pending) /\ InFlight = {}
  BY DEF EndRound
<1>2. InRound
  BY DEF Accounting
<1>3. Rounds' = Rounds /\ MaxAttempts' = MaxAttempts
  BY <1>1 DEF Rounds, MaxAttempts
<1>4. \A d \in Device : ~Waiting(d)
  BY <1>1 DEF Waiting, TypeOK
<1>5. \A d \in Device : (Pending(d)' <=> Requeued(d)) /\ (Decided(d)' <=> Decided(d))
  BY <1>1 DEF Pending, Requeued, Decided
<1>6. \A d \in Device : trying[d] = 0
  BY <1>1 DEF InFlight, TypeOK
<1>7. \A d \in Targets : Decided(d)' \/ Pending(d)'
  BY <1>1, <1>2, <1>4, <1>5, TargetsType DEF InRound, TypeOK
<1>8. BetweenRounds'
  BY <1>1, <1>2, <1>3, <1>5, <1>6, <1>7 DEF InRound, BetweenRounds
<1> QED BY <1>1, <1>8 DEF Accounting, BeforeBatch, InRound, AfterBatch

(* At the return every target is decided, or every round has run and the   *)
(* device has used its share of each.                                      *)
LEMMA ReturnShares ==
  ASSUME TypeOK, Accounting, Return
  PROVE  \A d \in Targets : Decided(d) \/ calls[d] = Budget
<1>1. pc = "between" /\ (pending = <<>> \/ round = Rounds) /\ BetweenRounds
  BY DEF Return, Accounting
<1>2. CASE pending = <<>>
  BY <1>1, <1>2 DEF BetweenRounds, Pending
<1>3. CASE round = Rounds
  BY <1>1, <1>3, TargetsType DEF BetweenRounds, Budget, TypeOK
<1> QED BY <1>1, <1>2, <1>3

(* The accounts close. *)
LEMMA ReturnAccounting ==
  ASSUME TypeOK, Accounting, Return
  PROVE  Accounting'
<1>1. /\ pc = "between" /\ pc' = "done" /\ req' = req /\ outcome' = outcome
      /\ trying' = trying /\ calls' = calls
  BY DEF Return, work
<1>2. Budget' = Budget
  BY <1>1 DEF Budget, Rounds, MaxAttempts
<1>3. EveryTargetGetsItsBudget'
  <2>1. \A d \in Targets :
          outcome'[d] \in Final \union {"ok"} \/ calls'[d] = Budget'
    BY <1>1, <1>2, ReturnShares DEF Decided
  <2> QED BY <1>1, <2>1 DEF EveryTargetGetsItsBudget
<1>4. \A d \in Device : trying'[d] = 0
  BY <1>1 DEF Accounting, BetweenRounds
<1> QED BY <1>1, <1>3, <1>4 DEF Accounting, BeforeBatch, BetweenRounds, InRound,
                                AfterBatch

(* Steps that change nothing the accounting speaks of.                     *)
LEMMA StutterAccounting ==
  ASSUME Accounting,
         UNCHANGED <<req, pc, pending, next, requeue, round, trying, outcome, calls>>
  PROVE  Accounting'
BY DEF Accounting, BeforeBatch, BetweenRounds, InRound, AfterBatch, Decided,
       Waiting, Requeued, Pending, InFlight, EveryTargetGetsItsBudget, Budget,
       Rounds, MaxAttempts, IsInjective

(* Every step keeps the accounts. *)
LEMMA AccountingStep == TypeOK /\ Accounting /\ [Next]_vars => Accounting'
<1> SUFFICES ASSUME TypeOK, Accounting, [Next]_vars PROVE Accounting'
  OBVIOUS
<1>1. ASSUME NEW d \in Device, AgentReplies(d) PROVE Accounting'
  <2>1. trying[d] > 0 /\ \E r \in Results : Resume(d, r)
    BY <1>1 DEF AgentReplies, RefusalResult, Results
  <2> QED BY <2>1, ResumeAccounting
<1>2. ASSUME NEW d \in Device, BackendReturns(d) PROVE Accounting'
  <2>1. trying[d] > 0 /\ \E r \in Results : Resume(d, r)
    BY <1>2, UnpromptedType DEF BackendReturns
  <2> QED BY <2>1, ResumeAccounting
<1>3. ASSUME NEW d \in Device, OsBonds(d) PROVE Accounting'
  BY <1>3, StutterAccounting DEF OsBonds, flow
<1>4. CASE UNCHANGED vars
  BY <1>4, StutterAccounting DEF vars
<1> QED BY <1>1, <1>2, <1>3, <1>4, PreludeAccounting, BeginBatchAccounting,
           StartRoundAccounting, LaunchAccounting, EndRoundAccounting,
           ReturnAccounting DEF Next

-----------------------------------------------------------------------------
(* What the accounting gives.                                              *)

(* In every reachable state each device stands where its calls say.        *)
THEOREM AccountingCorrect == Spec => []Accounting
<1>1. TypeOK /\ Accounting /\ [Next]_vars => (TypeOK /\ Accounting)'
  BY TypeStep, AccountingStep
<1> QED BY TypeInit, AccountingInit, <1>1, PTL DEF Spec

(* A batch that returns has decided each target or spent its whole budget. *)
THEOREM BudgetCorrect == Spec => []EveryTargetGetsItsBudget
<1>1. TypeOK /\ Accounting => EveryTargetGetsItsBudget
  BY DEF Accounting, AfterBatch, EveryTargetGetsItsBudget
<1> QED BY <1>1, TypeCorrect, AccountingCorrect, PTL

(* No device is paired twice at once, nor queued while it is being paired. *)
THEOREM NeverTwiceCorrect == Spec => []NeverTwiceAtOnce
<1>1. TypeOK /\ Accounting => NeverTwiceAtOnce
  <2> SUFFICES ASSUME TypeOK, Accounting, pc = "round" PROVE NeverTwiceAtOnce
    BY DEF NeverTwiceAtOnce
  <2>1. InRound
    BY DEF Accounting
  <2>2. DOMAIN pending = 1..Len(pending) /\ Len(pending) \in Nat /\ next \in Nat \ {0}
    BY LenProperties DEF TypeOK
  <2>3. DOMAIN requeue = 1..Len(requeue)
    BY LenProperties DEF TypeOK
  <2>4. \A i \in next..Len(pending) : pending[i] \in Device /\ Waiting(pending[i])
    BY <2>2 DEF Waiting, TypeOK
  <2>5. \A i \in 1..Len(requeue) : requeue[i] \in Device /\ Requeued(requeue[i])
    BY <2>3 DEF Requeued, TypeOK
  <2> QED BY <2>1, <2>4, <2>5 DEF InRound, NeverTwiceAtOnce
<1> QED BY <1>1, TypeCorrect, AccountingCorrect, PTL

(* Only a device that is waiting or in flight is ever called.              *)
LEMMA DecidedStep ==
  ASSUME TypeOK, Accounting, [Next]_vars, NEW d \in Device, Decided(d)
  PROVE  outcome'[d] = outcome[d] /\ calls'[d] = calls[d]
<1>1. ASSUME NEW e \in Device, NEW r \in Results, trying[e] > 0, Resume(e, r)
      PROVE  outcome'[d] = outcome[d] /\ calls'[d] = calls[d]
  <2>1. e # d
    BY <1>1, InFlightInRound DEF Accounting, InRound
  <2> QED BY <1>1, <2>1 DEF Resume, Retry, Settle, TypeOK
<1>2. CASE Launch
  <2>1. pending[next] # d /\ pending[next] \in Device
    <3>1. next \in 1..Len(pending) /\ next \in next..Len(pending) /\ pc = "round"
      BY <1>2, LenProperties DEF Launch, TypeOK
    <3>2. Waiting(pending[next]) /\ pending[next] \in Device
      BY <3>1 DEF Waiting, TypeOK
    <3> QED BY <3>1, <3>2 DEF Accounting, InRound
  <2> QED BY <1>2, <2>1 DEF Launch, TypeOK
<1>3. CASE SpoofFails
  BY <1>3 DEF SpoofFails, work, Accounting, BeforeBatch
<1>4. ASSUME NEW e \in Device, AgentReplies(e) \/ BackendReturns(e)
      PROVE  trying[e] > 0 /\ \E r \in Results : Resume(e, r)
  BY <1>4, UnpromptedType DEF AgentReplies, BackendReturns, RefusalResult, Results
<1>5. CASE ApplySpoof \/ Scan \/ BeginBatch \/ StartRound \/ EndRound \/ Return
  BY <1>5 DEF ApplySpoof, Scan, BeginBatch, StartRound, EndRound, Return, work
<1>6. ASSUME NEW e \in Device, OsBonds(e)
      PROVE  outcome'[d] = outcome[d] /\ calls'[d] = calls[d]
  BY <1>6 DEF OsBonds
<1>7. CASE UNCHANGED vars
  BY <1>7 DEF vars
<1> QED BY <1>1, <1>2, <1>3, <1>4, <1>5, <1>6, <1>7 DEF Next

(* A decided device keeps its item and is never called again.              *)
THEOREM DecidedCorrect == Spec => DecidedIsFinal
<1>1. TypeOK /\ Accounting /\ [Next]_vars =>
        [\A d \in Device : outcome[d] \in Final \union {"ok"} =>
           outcome'[d] = outcome[d] /\ calls'[d] = calls[d]]_vars
  BY DecidedStep DEF Decided
<1> QED BY <1>1, TypeCorrect, AccountingCorrect, PTL DEF Spec, DecidedIsFinal

-----------------------------------------------------------------------------
(* Slots.                                                                  *)

(* There is a slot, and by default only one but on the mock. *)
LEMMA WidthBounds ==
  ASSUME req \in Requests
  PROVE  Width \in Nat \ {0} /\ (req.auto /\ Kind # "mock" => Width = 1)
<1>1. Cardinality(Device) \in Nat
  BY PairAssumption, FS_CardinalityType
<1> QED BY <1>1, RequestFields DEF Width, Capability

SlotsBounded == Cardinality(InFlight) <= Width

(* Every step keeps within the slots. *)
LEMMA SlotsStep == TypeOK /\ SlotsBounded /\ [Next]_vars => SlotsBounded'
<1> SUFFICES ASSUME TypeOK, Cardinality(InFlight) <= Width, [Next]_vars
             PROVE  Cardinality(InFlight') <= Width'
  BY DEF SlotsBounded
<1>1. IsFiniteSet(InFlight) /\ Cardinality(InFlight) \in Nat
  <2>1. InFlight \in SUBSET Device
    BY DEF InFlight
  <2> QED BY <2>1, PairAssumption, FS_Subset, FS_CardinalityType
<1>2. req' = req
  BY ResumeType, UnpromptedType
  DEF Next, vars, ApplySpoof, SpoofFails, Scan, BeginBatch, StartRound, Launch,
      EndRound, Return, AgentReplies, BackendReturns, OsBonds, work, flow,
      RefusalResult, Results
<1>3. Width' = Width /\ Width \in Nat
  BY <1>2, WidthBounds DEF Width, Capability, Kind, TypeOK
<1>4. ASSUME InFlight' \subseteq InFlight
      PROVE  Cardinality(InFlight') <= Width'
  <2>1. Cardinality(InFlight') <= Cardinality(InFlight) /\ Cardinality(InFlight') \in Nat
    BY <1>1, <1>4, FS_Subset, FS_CardinalityType
  <2> QED BY <1>1, <1>3, <2>1
<1>5. CASE Launch
  <2>1. Cardinality(InFlight) < Width
    <3>1. Cardinality(InFlight) < Active /\ Len(pending) \in Nat
      BY <1>5, LenProperties DEF Launch, TypeOK
    <3> QED BY <1>1, <1>3, <3>1 DEF Active
  <2>2. InFlight' \subseteq InFlight \union {pending[next]}
    BY <1>5 DEF Launch, InFlight, TypeOK
  <2>3. /\ IsFiniteSet(InFlight \union {pending[next]})
        /\ Cardinality(InFlight \union {pending[next]}) <= Cardinality(InFlight) + 1
    <3> DEFINE x == pending[next]
    <3>1. /\ IsFiniteSet(InFlight \union {x})
          /\ Cardinality(InFlight \union {x}) =
               IF x \in InFlight THEN Cardinality(InFlight) ELSE Cardinality(InFlight) + 1
      <4> HIDE DEF x
      <4> QED BY <1>1, FS_AddElement
    <3> HIDE DEF x
    <3>2. Cardinality(InFlight \union {x}) <= Cardinality(InFlight) + 1
      BY <1>1, <3>1
    <3> USE DEF x
    <3> QED BY <3>1, <3>2
  <2>4. /\ Cardinality(InFlight') <= Cardinality(InFlight) + 1
        /\ Cardinality(InFlight') \in Nat
    BY <1>1, <2>2, <2>3, FS_Subset, FS_CardinalityType
  <2> QED BY <1>1, <1>3, <2>1, <2>4
<1>6. ASSUME NEW d \in Device, NEW r \in Results, trying[d] > 0, Resume(d, r)
      PROVE  InFlight' \subseteq InFlight
  BY <1>6 DEF Resume, Retry, Settle, InFlight, TypeOK
<1>7. ASSUME NEW e \in Device, AgentReplies(e) \/ BackendReturns(e)
      PROVE  trying[e] > 0 /\ \E r \in Results : Resume(e, r)
  BY <1>7, UnpromptedType DEF AgentReplies, BackendReturns, RefusalResult, Results
<1>8. ASSUME trying' = trying PROVE InFlight' \subseteq InFlight
  BY <1>8 DEF InFlight
<1>9. CASE ApplySpoof \/ SpoofFails \/ Scan \/ BeginBatch \/ StartRound \/ EndRound
           \/ Return \/ (\E d \in Device : OsBonds(d)) \/ UNCHANGED vars
  BY <1>9, <1>8, <1>4
  DEF ApplySpoof, SpoofFails, Scan, BeginBatch, StartRound, EndRound, Return,
      OsBonds, work, vars
<1> QED BY <1>4, <1>5, <1>6, <1>7, <1>9 DEF Next

(* Never more pairings at once than the caller or the backend allows, and  *)
(* one at a time on a backend that serializes pairing.                     *)
THEOREM SlotsCorrect == Spec => []SlotsRespected
<1>1. Init => SlotsBounded
  <2> SUFFICES ASSUME Init PROVE Cardinality(InFlight) <= Width
    BY DEF SlotsBounded
  <2>1. InFlight = {} /\ req \in Requests
    BY DEF Init, InFlight
  <2> QED BY <2>1, FS_EmptySet, WidthBounds
<1>2. TypeOK /\ SlotsBounded => SlotsRespected
  BY WidthBounds DEF SlotsBounded, SlotsRespected, TypeOK
<1> QED BY <1>1, <1>2, SlotsStep, TypeCorrect, PTL DEF Spec

-----------------------------------------------------------------------------
(* The workflow implements the batch it promises: every step of            *)
(* PairWorkflow is a step of BatchPairing or leaves its variables alone.   *)
(* Also the spoofed identity, which rests on the same accounting.          *)

Open(d) == outcome[d] \notin Final \union {"ok"}

verdicts == [d \in Device |-> IF outcome[d] \in Final \union {"ok"}
                              THEN outcome[d] ELSE "open"]

returned == pc \in {"done", "error"}

(* The batch's variables are functions of these.                           *)
LEMMA BatchStutter ==
  ASSUME UNCHANGED <<req, calls>>, verdicts' = verdicts, returned' = returned
  PROVE  UNCHANGED Batch!vars
BY DEF Batch!vars, Budget, Rounds, MaxAttempts, verdicts, returned

(* The workflow starts as a batch does. *)
LEMMA BatchInit == Init => Batch!Init
<1> SUFFICES ASSUME Init PROVE Batch!Init
  OBVIOUS
<1>1. req \in Requests
  BY DEF Init
<1>2. Budget \in Nat \ {0} /\ Range(req.targets) \in SUBSET Device
  BY <1>1, Bounds, TargetsType
<1>3. \A d \in Device : outcome[d] \notin Final \union {"ok"}
  BY DEF Init, Final
<1> QED BY <1>2, <1>3 DEF Batch!Init, Init

(* One more call of backend.pair, with budget left.                        *)
LEMMA CallStep ==
  ASSUME TypeOK, Accounting, NEW d \in Targets, ~Decided(d), pc = "round",
         NEW t \in Nat, t < MaxAttempts, calls[d] = (round - 1) * MaxAttempts + t,
         UNCHANGED <<req, pc, outcome>>, calls' = [calls EXCEPT ![d] = @ + 1]
  PROVE  Batch!Call(d)
<1>1. round \in Nat \ {0} /\ round <= Rounds
  BY DEF Accounting, InRound, TypeOK
<1>2. Rounds \in Nat /\ MaxAttempts \in Nat \ {0}
  BY Bounds DEF TypeOK
<1>3. calls[d] < Budget
  BY <1>1, <1>2, SharesWithinBudget DEF Budget
<1>4. d \in Device
  BY TargetsType DEF TypeOK
<1>5. Budget' = Budget
  BY DEF Budget, Rounds, MaxAttempts
<1> QED BY <1>3, <1>4, <1>5 DEF Batch!Call, Decided

(* A launch is a call of the batch. *)
LEMMA LaunchStep ==
  ASSUME TypeOK, Accounting, Launch
  PROVE  \E d \in Device : Batch!Call(d)
<1>1. next \in 1..Len(pending) /\ next \in next..Len(pending) /\ pc = "round"
  BY LenProperties DEF Launch, TypeOK
<1>2. Waiting(pending[next]) /\ Pending(pending[next]) /\ pending[next] \in Device
  BY <1>1 DEF Waiting, Pending, TypeOK
<1>3. /\ pending[next] \in Targets /\ ~Decided(pending[next])
      /\ calls[pending[next]] = (round - 1) * MaxAttempts
  BY <1>1, <1>2 DEF Accounting, InRound
<1>4. /\ MaxAttempts \in Nat \ {0} /\ (round - 1) * MaxAttempts \in Nat
  <2>1. MaxAttempts \in Nat \ {0} /\ round \in Nat \ {0}
    BY <1>1, Bounds DEF Accounting, InRound, TypeOK
  <2> QED BY <2>1, Shares
<1>5. calls[pending[next]] = (round - 1) * MaxAttempts + 0 /\ 0 < MaxAttempts
  BY <1>3, <1>4
<1> QED BY <1>1, <1>2, <1>3, <1>5, CallStep DEF Launch

(* An answer is a call of the batch again, a verdict, or nothing to it. *)
LEMMA ResumeStep ==
  ASSUME TypeOK, Accounting, NEW d \in Device, NEW r \in Results,
         trying[d] > 0, Resume(d, r)
  PROVE  \/ Batch!Call(d)
         \/ \E v \in Batch!Verdicts : Batch!Decide(d, v)
         \/ UNCHANGED Batch!vars
<1>1. pc = "round" /\ d \in InFlight /\ InRound
  BY InFlightInRound DEF Accounting
<1>2. /\ d \in Targets /\ ~Decided(d)
      /\ calls[d] = (round - 1) * MaxAttempts + trying[d]
      /\ trying[d] \in Nat \ {0}
  BY <1>1 DEF InRound, TypeOK
<1>3. UNCHANGED <<req, pc>>
  BY ResumeType
<1>4. CASE Retry(d) /\ trying[d] < MaxAttempts
  BY <1>1, <1>2, <1>3, <1>4, CallStep DEF Retry
<1>5. CASE Settle(d, r)
  <2>1. /\ UNCHANGED <<req, calls>> /\ returned' = returned
        /\ outcome' = [outcome EXCEPT ![d] = r]
    BY <1>3, <1>5 DEF Settle, returned
  <2>2. CASE r \in Final \union {"ok"}
    <3>1. r \in Batch!Verdicts
      BY <2>2 DEF Batch!Verdicts, Final
    <3>2. verdicts' = [verdicts EXCEPT ![d] = r] /\ verdicts[d] = "open"
      BY <1>2, <2>1, <2>2 DEF verdicts, TypeOK, Decided
    <3>3. calls[d] > 0
      <4>1. (round - 1) * MaxAttempts \in Nat
        <5>1. MaxAttempts \in Nat \ {0} /\ round \in Nat \ {0}
          BY <1>1, Bounds DEF InRound, TypeOK
        <5> QED BY <5>1, Shares
      <4> QED BY <1>2, <4>1
    <3>4. Budget' = Budget
      BY <2>1 DEF Budget, Rounds, MaxAttempts
    <3>5. Batch!Decide(d, r)
      BY <1>1, <1>3, <2>1, <3>2, <3>3, <3>4 DEF Batch!Decide, verdicts
    <3> QED BY <3>1, <3>5
  <2>3. CASE r \notin Final \union {"ok"}
    <3>1. verdicts' = verdicts
      BY <1>2, <2>1, <2>3 DEF verdicts, TypeOK, Decided
    <3> QED BY <2>1, <3>1, BatchStutter
  <2> QED BY <2>2, <2>3
<1> QED BY <1>4, <1>5 DEF Resume

(* Failing before the batch abandons it, with nothing tried.               *)
LEMMA AbandonStep ==
  ASSUME TypeOK, Accounting, pc \in {"start", "scan"}, returned',
         UNCHANGED <<req, calls>>, verdicts' = verdicts
  PROVE  Batch!Abandon
<1>1. Budget' = Budget
  BY DEF Budget, Rounds, MaxAttempts
<1> QED BY <1>1 DEF Batch!Abandon, Accounting, BeforeBatch, verdicts, returned

(* A return closes the batch. *)
LEMMA CloseStep ==
  ASSUME TypeOK, Accounting, Return
  PROVE  Batch!Close
<1>1. /\ ~returned /\ returned' /\ UNCHANGED <<req, calls, outcome>>
  BY DEF Return, work, returned
<1>2. Budget' = Budget /\ verdicts' = verdicts
  BY <1>1 DEF Budget, Rounds, MaxAttempts, verdicts
<1>3. \A d \in Targets : verdicts[d] # "open" \/ calls[d] = Budget
  <2>1. \A d \in Targets : d \in Device
    BY TargetsType DEF TypeOK
  <2> QED BY <2>1, ReturnShares DEF verdicts, Decided, Final
<1> QED BY <1>1, <1>2, <1>3 DEF Batch!Close, verdicts, returned

(* Every step is one of the batch or a stutter. *)
LEMMA BatchStep ==
  TypeOK /\ Accounting /\ [Next]_vars => [Batch!Next]_(Batch!vars)
<1> SUFFICES ASSUME TypeOK, Accounting, [Next]_vars
             PROVE  Batch!Next \/ UNCHANGED Batch!vars
  OBVIOUS
<1>1. ASSUME UNCHANGED <<req, calls, outcome>>, returned' = returned
      PROVE  UNCHANGED Batch!vars
  <2>1. verdicts' = verdicts
    BY <1>1 DEF verdicts
  <2> QED BY <1>1, <2>1, BatchStutter
<1>2. CASE ApplySpoof \/ BeginBatch \/ StartRound \/ EndRound
  BY <1>1, <1>2
  DEF ApplySpoof, AfterSpoof, BeginBatch, StartRound, EndRound, returned, work
<1>3. CASE SpoofFails
  <2>1. pc = "start" /\ returned' /\ UNCHANGED <<req, calls>>
    BY <1>3 DEF SpoofFails, work, returned
  <2>2. \A d \in Device : Open(d) /\ Open(d)'
    BY <1>3 DEF SpoofFails, Accounting, BeforeBatch, Decided, Open, Final
  <2>3. verdicts' = verdicts
    BY <2>2 DEF verdicts, Open
  <2> QED BY <2>1, <2>3, AbandonStep DEF Batch!Next
<1>4. CASE Scan
  <2>1. pc = "scan" /\ UNCHANGED <<req, calls, outcome>> /\ verdicts' = verdicts
    BY <1>4 DEF Scan, work, verdicts
  <2>2. CASE returned'
    BY <2>1, <2>2, AbandonStep DEF Batch!Next
  <2>3. CASE ~returned'
    BY <2>1, <2>3, <1>1 DEF returned
  <2> QED BY <2>2, <2>3
<1>5. CASE Launch
  BY <1>5, LaunchStep DEF Batch!Next
<1>6. CASE Return
  BY <1>6, CloseStep DEF Batch!Next
<1>7. ASSUME NEW d \in Device, AgentReplies(d) \/ BackendReturns(d)
      PROVE  Batch!Next \/ UNCHANGED Batch!vars
  <2>1. trying[d] > 0 /\ \E r \in Results : Resume(d, r)
    BY <1>7, UnpromptedType DEF AgentReplies, BackendReturns, RefusalResult, Results
  <2> QED BY <2>1, ResumeStep DEF Batch!Next
<1>8. ASSUME NEW d \in Device, OsBonds(d)
      PROVE  UNCHANGED Batch!vars
  BY <1>8, <1>1 DEF OsBonds, flow, returned
<1>9. CASE UNCHANGED vars
  BY <1>9, <1>1 DEF vars, returned
<1> QED BY <1>2, <1>3, <1>4, <1>5, <1>6, <1>7, <1>8, <1>9 DEF Next

(* Rounds, slots, retries and completion order are an implementation of    *)
(* "try every wanted device until it is decided or its budget is spent".   *)
THEOREM BatchCorrect == Spec => ImplementsBatch
<1>1. TypeOK /\ Accounting /\ [Next]_vars => [Batch!Next]_(Batch!vars)
  BY BatchStep
<1> QED BY BatchInit, <1>1, TypeCorrect, AccountingCorrect, PTL
        DEF Spec, ImplementsBatch, Batch!Spec

-----------------------------------------------------------------------------
(* Under the real identity a spoofing call has not left its prelude.       *)
SpoofBeforePairing ==
  req.spoof /\ identity = "real" =>
    /\ pc \in {"start", "done", "error"}
    /\ \A d \in Device : calls[d] = 0

(* Every step keeps pairing after the spoof. *)
LEMMA SpoofStep ==
  TypeOK /\ Accounting /\ SpoofBeforePairing /\ [Next]_vars => SpoofBeforePairing'
<1> SUFFICES ASSUME TypeOK, Accounting, SpoofBeforePairing, [Next]_vars
             PROVE  SpoofBeforePairing'
  OBVIOUS
<1>1. CASE ApplySpoof
  BY <1>1 DEF ApplySpoof, work, SpoofBeforePairing
<1>2. CASE SpoofFails
  BY <1>2 DEF SpoofFails, work, SpoofBeforePairing, Accounting, BeforeBatch
<1>3. CASE Scan \/ BeginBatch \/ StartRound \/ EndRound \/ Return
  BY <1>3 DEF Scan, BeginBatch, StartRound, EndRound, Return, work,
              SpoofBeforePairing
<1>4. CASE Launch
  BY <1>4 DEF Launch, SpoofBeforePairing
<1>5. ASSUME NEW d \in Device, NEW r \in Results, trying[d] > 0, Resume(d, r)
      PROVE  SpoofBeforePairing'
  BY <1>5, InFlightInRound, ResumeType DEF SpoofBeforePairing
<1>6. ASSUME NEW d \in Device, AgentReplies(d) \/ BackendReturns(d)
      PROVE  trying[d] > 0 /\ \E r \in Results : Resume(d, r)
  BY <1>6, UnpromptedType DEF AgentReplies, BackendReturns, RefusalResult, Results
<1>7. ASSUME NEW d \in Device, OsBonds(d)
      PROVE  SpoofBeforePairing'
  BY <1>7 DEF OsBonds, flow, SpoofBeforePairing
<1>8. CASE UNCHANGED vars
  BY <1>8 DEF vars, SpoofBeforePairing
<1> QED BY <1>1, <1>2, <1>3, <1>4, <1>5, <1>6, <1>7, <1>8 DEF Next

(* A call that asks for a spoofed identity never pairs under the real one. *)
THEOREM SpoofCorrect == Spec => []PairsUnderSpoof
<1>1. Init => SpoofBeforePairing
  BY DEF Init, SpoofBeforePairing
<1>2. SpoofBeforePairing => PairsUnderSpoof
  BY DEF SpoofBeforePairing, PairsUnderSpoof
<1> QED BY <1>1, <1>2, SpoofStep, TypeCorrect, AccountingCorrect, PTL DEF Spec

-----------------------------------------------------------------------------
(* What the items say of the bond store, and of refusals. *)

(* Except on Android, at every moment of the call: a device with the item  *)
(* "ok" is bonded, and any other that is was so before or went on.         *)
BondsReported ==
  Kind # "android" => \A d \in Device :
    /\ outcome[d] = "ok" => d \in bonds
    /\ d \in bonds => outcome[d] = "ok" \/ d \in req.bonded \union started

(* On the mock, a device whose agent refused has the item "rejected".      *)
RefusalsReported ==
  Kind = "mock" => \A d \in refused : outcome[d] = "rejected"

(* How a result of backend.pair changes the items.                         *)
LEMMA ResumeOutcome ==
  ASSUME TypeOK, Accounting, NEW d \in Device, NEW r \in Results,
         trying[d] > 0, Resume(d, r)
  PROVE  /\ req' = req
         /\ \A e \in Device : e # d => outcome'[e] = outcome[e]
         /\ outcome'[d] = "ok" <=> r = "ok"
         /\ r = "rejected" => outcome'[d] = "rejected"
<1>1. ~Decided(d)
  BY InFlightInRound DEF Accounting, InRound
<1>2. CASE Retry(d) /\ r \notin Final \union {"ok"}
  BY <1>1, <1>2 DEF Retry, flow, Decided, Final
<1>3. CASE Settle(d, r)
  BY <1>3 DEF Settle, TypeOK
<1> QED BY <1>2, <1>3 DEF Resume

(* Every step keeps bonds and reports together. *)
LEMMA BondsReportedStep ==
  ASSUME TypeOK, Accounting, BondsReported, [Next]_vars
  PROVE  BondsReported'
<1> USE DEF BondsReported, Kind
<1>1. CASE SpoofFails
  <2>1. \A d \in Device : outcome[d] # "ok"
    BY <1>1 DEF SpoofFails, Accounting, BeforeBatch, Decided
  <2>2. \A d \in Device : outcome'[d] # "ok"
    BY <1>1, <2>1 DEF SpoofFails
  <2> QED BY <1>1, <2>1, <2>2 DEF SpoofFails, work
<1>2. CASE ApplySpoof \/ Scan \/ BeginBatch \/ StartRound \/ EndRound \/ Return
  BY <1>2 DEF ApplySpoof, Scan, BeginBatch, StartRound, EndRound, Return, work
<1>3. CASE Launch
  BY <1>3 DEF Launch
<1>4. ASSUME NEW d \in Device, NEW r \in Results, trying[d] > 0, Resume(d, r),
             Kind # "android" => bonds' = IF r = "ok" THEN bonds \union {d} ELSE bonds,
             started \subseteq started'
      PROVE  BondsReported'
  <2>1. ~Decided(d)
    BY <1>4, InFlightInRound DEF Accounting, InRound
  <2>2. /\ req' = req
        /\ outcome'[d] = "ok" <=> r = "ok"
        /\ \A e \in Device : e # d => outcome'[e] = outcome[e]
    BY <1>4, ResumeOutcome
  <2>3. outcome[d] # "ok"
    BY <2>1 DEF Decided
  <2> QED BY <1>4, <2>2, <2>3
<1>5. ASSUME NEW d \in Device, NEW r
      PROVE  \A s \in MayGoOn(d, r) : started \subseteq s
  BY DEF MayGoOn
<1>6. ASSUME NEW d \in Device, AgentReplies(d)
      PROVE  BondsReported'
  <2>1. PICK p \in Policy[Agent][Prompt[d]], completes \in BOOLEAN :
          IF Refuses(Prompt[d], p)
          THEN UNCHANGED <<bonds, started>> /\ Resume(d, RefusalResult)
          ELSE /\ bonds' = IF completes THEN bonds \union {d} ELSE bonds
               /\ started' \in MayGoOn(d, IF completes THEN "ok" ELSE "failed")
               /\ Resume(d, IF completes THEN "ok" ELSE "failed")
    BY <1>6 DEF AgentReplies
  <2>2. trying[d] > 0
    BY <1>6 DEF AgentReplies
  <2>3. CASE Refuses(Prompt[d], p)
    BY <1>4, <2>1, <2>2, <2>3 DEF RefusalResult, Results
  <2>4. CASE ~Refuses(Prompt[d], p)
    <3>1. started \subseteq started'
      BY <1>5, <2>1, <2>4
    <3> QED BY <1>4, <2>1, <2>2, <2>4, <3>1 DEF Results
  <2> QED BY <2>3, <2>4
<1>7. ASSUME NEW d \in Device, BackendReturns(d)
      PROVE  BondsReported'
  <2>1. PICK r \in Unprompted(d) :
          /\ bonds' = IF Kind = "bluez" /\ r = "ok" THEN bonds \union {d} ELSE bonds
          /\ started' \in MayGoOn(d, r)
          /\ Resume(d, r)
    BY <1>7 DEF BackendReturns
  <2>2. r \in Results /\ trying[d] > 0 /\ started \subseteq started'
    BY <1>5, <1>7, <2>1, UnpromptedType DEF BackendReturns
  <2>3. Kind \notin {"android", "bluez"} => r # "ok"
    <3>1. Kind \in Backends
      BY RequestFields DEF TypeOK
    <3> QED BY <3>1 DEF Unprompted, Backends
  <2> QED BY <1>4, <2>1, <2>2, <2>3
<1>8. ASSUME NEW d \in Device, OsBonds(d)
      PROVE  BondsReported'
  BY <1>8 DEF OsBonds, flow
<1>9. CASE UNCHANGED vars
  BY <1>9 DEF vars
<1> QED BY <1>1, <1>2, <1>3, <1>6, <1>7, <1>8, <1>9 DEF Next

(* When the workflow returns, on any backend but Android, what the items   *)
(* call paired is bonded, and any other bond is older than the call or was *)
(* completed by the OS after pair had given up on it.                      *)
THEOREM ReportCorrect == Spec => []ReportMatchesBonds
<1>1. Init => BondsReported
  BY RequestFields DEF Init, BondsReported
<1>2. TypeOK /\ BondsReported => ReportMatchesBonds
  BY DEF BondsReported, ReportMatchesBonds, TypeOK
<1> QED BY <1>1, <1>2, BondsReportedStep, TypeCorrect, AccountingCorrect, PTL
        DEF Spec

(* Every step keeps a told refusal final. *)
LEMMA RefusalsReportedStep ==
  ASSUME TypeOK, Accounting, RefusalsReported, [Next]_vars
  PROVE  RefusalsReported'
<1>1. req' = req
  BY ResumeType, UnpromptedType
     DEF Next, ApplySpoof, SpoofFails, Scan, BeginBatch, StartRound, Launch,
         EndRound, Return, AgentReplies, BackendReturns, OsBonds, flow, vars,
         RefusalResult, Results
<1>2. CASE refused' = refused
  BY <1>1, <1>2, DecidedStep DEF RefusalsReported, Kind, Decided, Final, TypeOK
<1>3. ASSUME NEW d \in Device, AgentReplies(d), refused' # refused
      PROVE  RefusalsReported'
  <2>1. /\ refused' = refused \union {d} /\ trying[d] > 0
        /\ Resume(d, RefusalResult) /\ RefusalResult \in Results
    BY <1>3 DEF AgentReplies, RefusalResult, Results
  <2>2. Kind = "mock" => outcome'[d] = "rejected"
    BY <2>1, ResumeOutcome DEF RefusalResult
  <2>3. Kind = "mock" => \A e \in refused : outcome'[e] = outcome[e]
    BY DecidedStep DEF RefusalsReported, Decided, Final, TypeOK
  <2> QED BY <1>1, <2>1, <2>2, <2>3 DEF RefusalsReported, Kind
<1>4. refused' = refused \/ \E d \in Device : AgentReplies(d)
  BY DEF Next, ApplySpoof, SpoofFails, Scan, BeginBatch, StartRound, Launch,
         EndRound, Return, BackendReturns, OsBonds, work, vars
<1> QED BY <1>2, <1>3, <1>4

(* On the mock, which tells a refusal from a failure, no device is paired  *)
(* again, in this round or a later one, once its agent refused.            *)
THEOREM ToldRefusalCorrect == Spec => ToldRefusalIsFinal
<1>1. Init => RefusalsReported
  BY DEF Init, RefusalsReported
<1>2. TypeOK /\ Accounting /\ RefusalsReported /\ [Next]_vars =>
        [Kind = "mock" => \A d \in refused : calls'[d] = calls[d]]_vars
  BY DecidedStep DEF RefusalsReported, Decided, Final, TypeOK
<1> QED BY <1>1, <1>2, RefusalsReportedStep, TypeCorrect, AccountingCorrect, PTL
        DEF Spec, ToldRefusalIsFinal
=============================================================================
