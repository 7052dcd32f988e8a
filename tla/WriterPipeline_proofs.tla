------------------------ MODULE WriterPipeline_proofs ------------------------
(***************************************************************************)
(* Proofs about WriterPipeline, for every set of events and writers, every *)
(* batch size, retry limit and number of disruptions.                      *)
(***************************************************************************)
EXTENDS WriterPipeline, TLAPS

USE DEF pubVars, pgVars, procVars, vars, PCs

(* Counting deliveries keeps the counters in range and never lowers one.   *)
LEMMA DeliveredRange ==
  ASSUME NEW S, deliveries \in [Events -> 0..MaxRetries]
  PROVE  /\ Delivered(S) \in [Events -> 0..MaxRetries]
         /\ \A e \in Events : deliveries[e] <= Delivered(S)[e]
  BY WriterConstants DEF Delivered

(* The type invariant is inductive.                                         *)
LEMMA TypeOKStep ==
  ASSUME TypeOK, [Next]_vars
  PROVE  TypeOK'
<1> USE WriterConstants
<1>1. ASSUME NEW e \in Events, Publish(e) PROVE TypeOK'
  BY <1>1 DEF TypeOK, Publish
<1>2. ASSUME NEW e \in Events, PublishFails(e) PROVE TypeOK'
  BY <1>2 DEF TypeOK, PublishFails, Disrupt
<1>3. ASSUME NEW w \in Writers, NEW S \in SUBSET Events, Reclaim(w, S)
      PROVE  TypeOK'
  <2>1. deliveries' \in [Events -> 0..MaxRetries]
    BY <1>3, DeliveredRange DEF TypeOK, Reclaim
  <2> QED BY <1>3, <2>1 DEF TypeOK, Reclaim, Disrupt
<1>4. ASSUME NEW w \in Writers, NEW S \in SUBSET Events, Deliver(w, S)
      PROVE  /\ fresh' \subseteq Events
             /\ pel \subseteq Events => pel' \subseteq Events
             /\ dlq' \subseteq Events
             /\ batch' \in [Writers -> SUBSET Events]
             /\ deliveries' \in [Events -> 0..MaxRetries]
             /\ disruptions' \in 0..MaxDisruptions
  <2>1. deliveries' \in [Events -> 0..MaxRetries]
    BY <1>4, DeliveredRange DEF TypeOK, Deliver
  <2> QED BY <1>4, <2>1 DEF TypeOK, Deliver, Disrupt
<1>5. ASSUME NEW w \in Writers, NEW S \in SUBSET Events, Read(w, S)
      PROVE  TypeOK'
  BY <1>4, <1>5 DEF TypeOK, Read
<1>6. ASSUME NEW w \in Writers, NEW S \in SUBSET Events, FinalRead(w, S)
      PROVE  TypeOK'
  BY <1>4, <1>6 DEF TypeOK, FinalRead
<1>7. ASSUME NEW w \in Writers, EndCollect(w) PROVE TypeOK'
  BY <1>7 DEF TypeOK, EndCollect
<1>8. ASSUME NEW w \in Writers, Commit(w) PROVE TypeOK'
  BY <1>8 DEF TypeOK, Commit, Accepted
<1>9. ASSUME NEW w \in Writers, Fail(w) PROVE TypeOK'
  BY <1>9 DEF TypeOK, Fail, Disrupt
<1>10. ASSUME NEW w \in Writers, NEW S \in SUBSET Events, Ack(w, S)
       PROVE  TypeOK'
  BY <1>10 DEF TypeOK, Ack, AfterBatch, Disrupt
<1>11. ASSUME NEW w \in Writers, DeadLetter(w) PROVE TypeOK'
  BY <1>11 DEF TypeOK, DeadLetter, Exhausted, AfterBatch, Disrupt
<1>12. ASSUME NEW w \in Writers, Stop(w) PROVE TypeOK'
  BY <1>12 DEF TypeOK, Stop, Disrupt
<1>13. ASSUME NEW w \in Writers, Crash(w) PROVE TypeOK'
  BY <1>13 DEF TypeOK, Crash, Disrupt
<1>14. ASSUME NEW w \in Writers, Restart(w) PROVE TypeOK'
  BY <1>14 DEF TypeOK, Restart
<1>15. ASSUME UNCHANGED vars PROVE TypeOK'
  BY <1>15 DEF TypeOK
<1> QED
  BY <1>1, <1>2, <1>3, <1>5, <1>6, <1>7, <1>8, <1>9, <1>10, <1>11, <1>12,
     <1>13, <1>14, <1>15 DEF Next

(* The variables of a writer and of Redis always have their types.          *)
THEOREM TypeCorrect == Spec => []TypeOK
<1>1. Init => TypeOK
  BY WriterConstants DEF Init, TypeOK
<1>2. TypeOK /\ [Next]_vars => TypeOK'
  BY TypeOKStep
<1> QED BY <1>1, <1>2, PTL DEF Spec

-----------------------------------------------------------------------------
(* What one delivery does, whether it is a read of the loop or the last one. *)
LEMMA DeliverStep ==
  ASSUME TypeOK, Provenance, NoEventLost, DeadLetteredOnlyWhenExhausted,
         NEW w \in Writers, NEW S \in SUBSET Events, Deliver(w, S)
  PROVE  /\ fresh' \cup pel' \cup dlq' \subseteq published
         /\ fresh \cup pel \cup dlq \subseteq fresh' \cup pel' \cup dlq'
         /\ dlq \subseteq dlq'
         /\ dlq' \ dlq \subseteq Invalid
         /\ \A v \in Writers : batch'[v] \subseteq published
         /\ \A v \in Writers : v # w => batch'[v] = batch[v]
         /\ \A e \in dlq' \ Invalid : deliveries'[e] = MaxRetries
<1> USE WriterConstants
<1>1. PICK got \in {S, {}}, acked \in SUBSET (S \cap Invalid) :
        /\ acked \subseteq got
        /\ batch' = [batch EXCEPT ![w] = batch[w] \cup (got \ Invalid)]
        /\ dlq' = dlq \cup (got \cap Invalid)
        /\ pel' = (pel \cup S) \ acked
  BY DEF Deliver
<1>2. fresh' = fresh \ S /\ S \subseteq fresh
  BY DEF Deliver
<1>3. \A e \in dlq' \ Invalid : deliveries'[e] = MaxRetries
  BY <1>1 DEF Deliver, Delivered, TypeOK, DeadLetteredOnlyWhenExhausted
<1>4. \A v \in Writers : batch'[v] \subseteq published
  BY <1>1, <1>2 DEF TypeOK, Provenance
<1>5. \A v \in Writers : v # w => batch'[v] = batch[v]
  BY <1>1 DEF TypeOK
<1>6. fresh \cup pel \cup dlq \subseteq fresh' \cup pel' \cup dlq'
  BY <1>1, <1>2
<1>7. fresh' \cup pel' \cup dlq' \subseteq published
  BY <1>1, <1>2 DEF Provenance
<1> QED BY <1>1, <1>3, <1>4, <1>5, <1>6, <1>7

(* Every step keeps the conjuncts of IInv beyond the types.                 *)
LEMMA IInvStep ==
  ASSUME IInv, [Next]_vars
  PROVE  IInv'
<1> USE WriterConstants
<1>0. TypeOK'
  BY TypeOKStep DEF IInv
<1> DEFINE Rest == /\ Provenance
                   /\ AckAfterCommit
                   /\ NoEventLost
                   /\ ExactlyOnceEffect
                   /\ DeadLetteredOnlyWhenExhausted
<1> SUFFICES Rest'
  BY <1>0 DEF IInv
<1> USE DEF IInv, TypeOK, Provenance, AckAfterCommit, NoEventLost,
            ExactlyOnceEffect, DeadLetteredOnlyWhenExhausted
<1>1. ASSUME NEW e \in Events, Publish(e) PROVE Rest'
  BY <1>1 DEF Publish
<1>2. ASSUME NEW e \in Events, PublishFails(e) PROVE Rest'
  BY <1>2 DEF PublishFails
<1>3. ASSUME NEW w \in Writers, NEW S \in SUBSET Events, Reclaim(w, S)
      PROVE  Rest'
  <2>1. PICK got \in SUBSET S, acked \in SUBSET (S \cap Invalid) :
          /\ acked \subseteq got
          /\ batch' = [batch EXCEPT ![w] = got \ Invalid]
          /\ dlq' = dlq \cup (got \cap Invalid)
          /\ pel' = pel \ acked
    BY <1>3 DEF Reclaim
  <2>2. /\ S \subseteq pel
        /\ pc' = [pc EXCEPT ![w] = "reading"]
        /\ deliveries' = Delivered(S)
        /\ UNCHANGED <<published, fresh, inbox, effect>>
    BY <1>3 DEF Reclaim
  <2>3. Provenance'
    BY <2>1, <2>2
  <2>4. AckAfterCommit'
    BY <2>1, <2>2
  <2>5. NoEventLost' /\ ExactlyOnceEffect'
    BY <2>1, <2>2
  <2>6. DeadLetteredOnlyWhenExhausted'
    BY <2>1, <2>2 DEF Delivered
  <2> QED BY <2>3, <2>4, <2>5, <2>6
<1>4. ASSUME NEW w \in Writers, NEW S \in SUBSET Events, Read(w, S)
      PROVE  Rest'
  <2>1. Deliver(w, S) /\ pc[w] = "reading"
        /\ UNCHANGED <<published, inbox, effect, pc>>
    BY <1>4 DEF Read
  <2> QED BY <2>1, DeliverStep
<1>5. ASSUME NEW w \in Writers, NEW S \in SUBSET Events, FinalRead(w, S)
      PROVE  Rest'
  <2>1. Deliver(w, S) /\ UNCHANGED <<published, inbox, effect>>
    BY <1>5 DEF FinalRead
  <2>2. \A v \in Writers : pc'[v] = "ack" => v # w /\ pc[v] = "ack"
    BY <1>5 DEF FinalRead
  <2> QED BY <2>1, <2>2, DeliverStep
<1>6. ASSUME NEW w \in Writers, EndCollect(w) PROVE Rest'
  BY <1>6 DEF EndCollect
<1>7. ASSUME NEW w \in Writers, Commit(w) PROVE Rest'
  <2>1. /\ inbox' = inbox \cup Accepted(w)
        /\ Accepted(w) = batch[w] \ inbox
        /\ effect' = [e \in Events |-> IF e \in Accepted(w) THEN effect[e] + 1
                                       ELSE effect[e]]
        /\ pc' = [pc EXCEPT ![w] = "ack"]
        /\ UNCHANGED <<published, fresh, pel, dlq, batch, deliveries>>
    BY <1>7 DEF Commit, Accepted
  <2>2. Provenance' /\ NoEventLost' /\ DeadLetteredOnlyWhenExhausted'
    BY <2>1
  <2>3. AckAfterCommit'
    BY <2>1
  <2>4. ExactlyOnceEffect'
    BY <2>1
  <2> QED BY <2>2, <2>3, <2>4
<1>8. ASSUME NEW w \in Writers, Fail(w) PROVE Rest'
  BY <1>8 DEF Fail
<1>9. ASSUME NEW w \in Writers, NEW S \in SUBSET Events, Ack(w, S) PROVE Rest'
  <2>1. /\ S \subseteq batch[w] /\ batch[w] \subseteq inbox
        /\ pel' = pel \ S
        /\ \A v \in Writers : batch'[v] \subseteq batch[v]
        /\ \A v \in Writers : pc'[v] = "ack" => pc[v] = "ack"
        /\ UNCHANGED <<published, fresh, inbox, effect, dlq, deliveries>>
    BY <1>9 DEF Ack, AfterBatch
  <2> QED BY <2>1
<1>10. ASSUME NEW w \in Writers, DeadLetter(w) PROVE Rest'
  <2>1. PICK moved \in SUBSET Exhausted(w), acked \in SUBSET Exhausted(w) :
          /\ acked \subseteq moved
          /\ dlq' = dlq \cup moved
          /\ pel' = pel \ acked
    BY <1>10 DEF DeadLetter
  <2>2. /\ \A v \in Writers : batch'[v] \subseteq batch[v]
        /\ \A v \in Writers : pc'[v] = "ack" => pc[v] = "ack"
        /\ UNCHANGED <<published, fresh, inbox, effect, deliveries>>
    BY <1>10 DEF DeadLetter, AfterBatch
  <2>3. \A e \in moved : deliveries[e] = MaxRetries /\ e \in pel
    BY <2>1 DEF Exhausted
  <2> QED BY <2>1, <2>2, <2>3
<1>11. ASSUME NEW w \in Writers, Stop(w) PROVE Rest'
  BY <1>11 DEF Stop
<1>12. ASSUME NEW w \in Writers, Crash(w) PROVE Rest'
  BY <1>12 DEF Crash
<1>13. ASSUME NEW w \in Writers, Restart(w) PROVE Rest'
  BY <1>13 DEF Restart
<1>14. ASSUME UNCHANGED vars PROVE Rest'
  BY <1>14
<1> QED
  BY <1>1, <1>2, <1>3, <1>4, <1>5, <1>6, <1>7, <1>8, <1>9, <1>10, <1>11,
     <1>12, <1>13, <1>14 DEF Next

LEMMA IInvAlways == Spec => []IInv
<1>1. Init => IInv
  BY WriterConstants
     DEF Init, IInv, TypeOK, Provenance, AckAfterCommit, NoEventLost,
         ExactlyOnceEffect, DeadLetteredOnlyWhenExhausted
<1>2. IInv /\ [Next]_vars => IInv'
  BY IInvStep
<1> QED BY <1>1, <1>2, PTL DEF Spec

(* An event Redis accepted is never forgotten, whatever crashes.            *)
THEOREM NothingLost == Spec => []NoEventLost
<1>1. IInv => NoEventLost
  BY DEF IInv
<1> QED BY <1>1, IInvAlways, PTL

(* The counters and the inbox agree: redelivery never counts an event twice. *)
THEOREM ExactlyOnce == Spec => []ExactlyOnceEffect
<1>1. IInv => ExactlyOnceEffect
  BY DEF IInv
<1> QED BY <1>1, IInvAlways, PTL

(* A decodable event is dead-lettered only after WRITER_MAX_RETRIES.        *)
THEOREM DeadLetterRule == Spec => []DeadLetteredOnlyWhenExhausted
<1>1. IInv => DeadLetteredOnlyWhenExhausted
  BY DEF IInv
<1> QED BY <1>1, IInvAlways, PTL

-----------------------------------------------------------------------------
(* Refinement: every step of the pipeline submits, counts or parks events   *)
(* of the ledger, or the ledger does not see it.                            *)
LEMMA LedgerStep ==
  ASSUME IInv, [Next]_vars
  PROVE  [Ledger!LedgerNext]_(Ledger!ledgerVars)
<1> USE DEF IInv, TypeOK, Provenance, ExactlyOnceEffect, Ledger!ledgerVars
<1>1. ASSUME NEW e \in Events, Publish(e) PROVE Ledger!Submit(e)
  BY <1>1 DEF Publish, Ledger!Submit
<1>2. ASSUME NEW e \in Events, PublishFails(e)
      PROVE  Ledger!Submit(e) \/ UNCHANGED Ledger!ledgerVars
  BY <1>2 DEF PublishFails, Ledger!Submit
<1>3. ASSUME NEW P \in SUBSET published, dlq' = dlq \cup P,
             UNCHANGED <<published, effect>>
      PROVE  Ledger!Park(P) \/ UNCHANGED Ledger!ledgerVars
  BY <1>3 DEF Ledger!Park
<1>4. ASSUME NEW w \in Writers, NEW S \in SUBSET Events, Reclaim(w, S)
      PROVE  \E P \in SUBSET published : dlq' = dlq \cup P
                                         /\ UNCHANGED <<published, effect>>
  <2>1. PICK got \in SUBSET S : dlq' = dlq \cup (got \cap Invalid)
    BY <1>4 DEF Reclaim
  <2>2. S \subseteq published /\ UNCHANGED <<published, effect>>
    BY <1>4 DEF Reclaim, NoEventLost
  <2>3. got \cap Invalid \in SUBSET published
    BY <2>1, <2>2
  <2> QED BY <2>1, <2>2, <2>3
<1>5. ASSUME NEW w \in Writers, NEW S \in SUBSET Events, Deliver(w, S),
             UNCHANGED <<published, effect>>
      PROVE  \E P \in SUBSET published : dlq' = dlq \cup P
                                         /\ UNCHANGED <<published, effect>>
  <2>1. PICK got \in {S, {}} : dlq' = dlq \cup (got \cap Invalid)
    BY <1>5 DEF Deliver
  <2>2. got \cap Invalid \in SUBSET published
    BY <1>5, <2>1 DEF Deliver
  <2> QED BY <1>5, <2>1, <2>2
<1>6. ASSUME NEW w \in Writers, Commit(w)
      PROVE  Ledger!Count(Accepted(w)) \/ UNCHANGED Ledger!ledgerVars
  <2>1. /\ UNCHANGED <<published, dlq>>
        /\ effect' = [e \in Events |-> IF e \in Accepted(w) THEN effect[e] + 1
                                       ELSE effect[e]]
    BY <1>6 DEF Commit
  <2>2. CASE Accepted(w) = {}
    <3>1. effect' = effect
      BY <2>1, <2>2
    <3> QED BY <2>1, <3>1
  <2>3. CASE Accepted(w) # {}
    <3>1. /\ Accepted(w) \subseteq published
          /\ \A e \in Accepted(w) : effect[e] = 0
      BY DEF Accepted
    <3> QED BY <2>1, <2>3, <3>1 DEF Ledger!Count
  <2> QED BY <2>2, <2>3
<1>7. ASSUME NEW w \in Writers, DeadLetter(w)
      PROVE  \E P \in SUBSET published : dlq' = dlq \cup P
                                         /\ UNCHANGED <<published, effect>>
  <2>1. PICK moved \in SUBSET Exhausted(w) : dlq' = dlq \cup moved
    BY <1>7 DEF DeadLetter
  <2>2. moved \in SUBSET published /\ UNCHANGED <<published, effect>>
    BY <1>7, <2>1 DEF DeadLetter, Exhausted
  <2> QED BY <2>1, <2>2
<1>8. ASSUME NEW w \in Writers, NEW S \in SUBSET Events, Read(w, S)
      PROVE  \E P \in SUBSET published : dlq' = dlq \cup P
                                         /\ UNCHANGED <<published, effect>>
  BY <1>5, <1>8 DEF Read
<1>9. ASSUME NEW w \in Writers, NEW S \in SUBSET Events, FinalRead(w, S)
      PROVE  \E P \in SUBSET published : dlq' = dlq \cup P
                                         /\ UNCHANGED <<published, effect>>
  BY <1>5, <1>9 DEF FinalRead
<1>10. ASSUME NEW w \in Writers,
              \/ EndCollect(w)
              \/ Fail(w)
              \/ \E S \in SUBSET Events : Ack(w, S)
              \/ Stop(w)
              \/ Crash(w)
              \/ Restart(w)
       PROVE  UNCHANGED Ledger!ledgerVars
  BY <1>10 DEF EndCollect, Fail, Ack, Stop, Crash, Restart
<1>11. ASSUME \E P \in SUBSET published : dlq' = dlq \cup P
                                          /\ UNCHANGED <<published, effect>>
       PROVE  [Ledger!LedgerNext]_(Ledger!ledgerVars)
  <2>1. PICK P \in SUBSET published : dlq' = dlq \cup P
                                      /\ UNCHANGED <<published, effect>>
    BY <1>11
  <2>2. P \in SUBSET Events
    BY <2>1
  <2> QED BY <1>3, <2>1, <2>2 DEF Ledger!LedgerNext
<1>12. CASE UNCHANGED vars
  BY <1>12
<1>13. CASE \E e \in Events : Publish(e) \/ PublishFails(e)
  BY <1>1, <1>2, <1>13 DEF Ledger!LedgerNext
<1>14. ASSUME NEW w \in Writers, Commit(w)
       PROVE  [Ledger!LedgerNext]_(Ledger!ledgerVars)
  <2>1. Accepted(w) \in SUBSET Events
    BY DEF Accepted
  <2> QED BY <1>6, <1>14, <2>1 DEF Ledger!LedgerNext
<1> QED
  BY <1>4, <1>7, <1>8, <1>9, <1>10, <1>11, <1>12, <1>13, <1>14 DEF Next

(* The pipeline implements the safety part of the ledger's promise.         *)
THEOREM PipelineImplementsLedger == Spec => ImplementsLedger
<1>1. Init => Ledger!LedgerInit
  BY DEF Init, Ledger!LedgerInit
<1>2. IInv /\ [Next]_vars => [Ledger!LedgerNext]_(Ledger!ledgerVars)
  BY LedgerStep
<1> QED
  BY <1>1, <1>2, IInvAlways, PTL DEF Spec, ImplementsLedger, Ledger!LedgerSafe
=============================================================================
