-------------------------- MODULE TokenRefresh_proofs --------------------------
(***************************************************************************)
(* Proofs about TokenRefresh, for any workers, processes, generations and  *)
(* number of rare events.                                                  *)
(***************************************************************************)
EXTENDS TokenRefresh, TLAPS

USE DEF stored, grants, locks, local

-----------------------------------------------------------------------------
(* Types.                                                                   *)

LocalTyped ==
  /\ pc \in [Procs -> Positions]
  /\ view \in [Procs -> Entry]
  /\ got \in [Procs -> Entry]
  /\ mode \in [Procs -> {"near", "expired", "second", "sso"}]

LocksTyped ==
  /\ lock \in [Workers -> Procs \cup {Nobody}]
  /\ slot \in Procs \cup {Nobody, Left}

GrantsTyped ==
  good \subseteq Gens /\ spent \subseteq Gens /\ issued \in Gens

LEMMA HomeTyped ==
  ASSUME NEW p \in Procs
  PROVE  Home[p] \in Workers
BY RefreshConstants

LEMMA AbsentTyped == Absent \in Entry /\ NoBulk \in [by: Workers \cup {Nobody}, view: Entry]
BY RefreshConstants DEF Absent, Entry, NoBulk

LEMMA ReadTyped ==
  ASSUME TypeOK, NEW w \in Workers
  PROVE  Read(w) \in Entry /\ Snapshots(w) \subseteq Entry
BY DEF Read, Snapshots, TypeOK

LEMMA KeepTyped ==
  ASSUME NEW e \in Entry, NEW old \in Entry
  PROVE  KeepDurable(e, old) \in Entry
BY DEF KeepDurable, Entry

LEMMA MergeTyped ==
  ASSUME NEW e \in Entry, NEW old \in Entry
  PROVE  MergeImported(e, old) \in Entry
BY DEF MergeImported, KeepDurable, Entry

LEMMA RowsTyped ==
  ASSUME NEW r \in Row
  PROVE  /\ OutOfRotation(r) \in Row
         /\ BackInRotation(r) \in Row
         /\ Kicked(r) \in Row
         /\ [OutOfRotation(r) EXCEPT !.ssoWait = TRUE] \in Row
         /\ [r EXCEPT !.ssoWait = FALSE] \in Row
         /\ NewRow \in Row
BY DEF OutOfRotation, BackInRotation, Kicked, NewRow, Row

LEMMA CacheTyped ==
  ASSUME TypeOK, NEW w \in Workers, NEW e \in Entry
  PROVE  /\ Remember(w, e) \in [Workers -> Entry]
         /\ Forget(w) \in [Workers -> Entry]
BY AbsentTyped DEF Remember, Forget, TypeOK

LEMMA ReleaseTyped ==
  ASSUME TypeOK, NEW p \in Procs, Release(p)
  PROVE  LocksTyped'
BY DEF Release, TypeOK, LocksTyped

LEMMA RestTyped ==
  ASSUME TypeOK, NEW p \in Procs, Rest(p)
  PROVE  LocalTyped'
BY AbsentTyped DEF Rest, Goto, TypeOK, LocalTyped, Positions

LEMMA GiveBackTyped ==
  ASSUME TypeOK, NEW p \in Procs, NEW e \in Entry, GiveBack(p, e)
  PROVE  LocalTyped'
<1>1. CASE Rest(p)
  BY <1>1, RestTyped
<1>2. CASE ~Rest(p)
  <2>1. /\ \/ Goto(p, "lock") \/ Goto(p, "delete")
        /\ mode' = [mode EXCEPT ![p] = "second"]
        /\ view' = [view EXCEPT ![p] = e]
        /\ got' = [got EXCEPT ![p] = Absent]
    BY <1>2 DEF GiveBack
  <2> QED BY <2>1, AbsentTyped DEF Goto, TypeOK, LocalTyped, Positions
<1> QED BY <1>1, <1>2

LEMMA HappensTyped ==
  ASSUME TypeOK, NEW kind \in RareKinds, Happens(kind)
  PROVE  happened' \subseteq RareKinds \cup Noted
BY DEF Happens, TypeOK

LEMMA NoteTyped ==
  ASSUME TypeOK, NEW e, NoteStale(e)
  PROVE  happened' \subseteq RareKinds \cup Noted
BY DEF NoteStale, TypeOK, Noted

LEMMA NextEntryTyped ==
  ASSUME TypeOK, NEW e \in Entry, issued < MaxGen
  PROVE  NextEntry(e) \in Entry /\ issued + 1 \in Gens
<1>1. issued \in 1..MaxGen /\ MaxGen \in Nat
  BY RefreshConstants DEF TypeOK, Gens
<1>2. issued + 1 \in 1..MaxGen /\ issued + 1 \in 0..MaxGen
  BY <1>1
<1>3. NextEntry(e) \in Entry
  BY <1>2 DEF NextEntry, Entry
<1> QED BY <1>2, <1>3 DEF Gens

LEMMA ExchangedTyped ==
  ASSUME TypeOK, NEW rt \in 0..MaxGen, rt # 0, issued < MaxGen, Exchanged(rt)
  PROVE  GrantsTyped'
BY RefreshConstants DEF Exchanged, TypeOK, GrantsTyped, Gens

(* The types of the parts make the type of the whole.                        *)
LEMMA PartsTyped ==
  ASSUME db' \in Entry, cache' \in [Workers -> Entry], row' \in Row,
         GrantsTyped', age' \in [Gens -> 0..2], LocksTyped', LocalTyped',
         bulk' \in [by: Workers \cup {Nobody}, view: Entry],
         happened' \subseteq RareKinds \cup Noted
  PROVE  TypeOK'
BY DEF GrantsTyped, LocksTyped, LocalTyped, TypeOK

LEMMA WholeTyped ==
  ASSUME TypeOK
  PROVE  /\ db \in Entry /\ cache \in [Workers -> Entry] /\ row \in Row
         /\ GrantsTyped /\ age \in [Gens -> 0..2] /\ LocksTyped /\ LocalTyped
         /\ bulk \in [by: Workers \cup {Nobody}, view: Entry]
         /\ happened \subseteq RareKinds \cup Noted
BY DEF GrantsTyped, LocksTyped, LocalTyped, TypeOK

LEMMA RenewTyped ==
  ASSUME TypeOK, NEW p \in Procs, Renew(p)
  PROVE  TypeOK'
<1> USE HomeTyped, AbsentTyped
<1>0. Read(Home[p]) \in Entry /\ Remember(Home[p], Read(Home[p])) \in [Workers -> Entry]
      /\ Forget(Home[p]) \in [Workers -> Entry]
  BY ReadTyped, CacheTyped
<1>00. view[p] \in Entry /\ got[p] \in Entry
  BY DEF TypeOK
<1>1. CASE TakeLock(p)
  BY <1>1 DEF TakeLock, Goto, TypeOK, Positions
<1>2. CASE TakeSlot(p)
  BY <1>2 DEF TakeSlot, Goto, TypeOK, Positions
<1>3. CASE SlotBusy(p)
  <2>1. LocksTyped' BY <1>3, ReleaseTyped DEF SlotBusy
  <2>2. LocalTyped'
    BY <1>0, <1>00, <1>3, GiveBackTyped, RestTyped DEF SlotBusy
  <2>3. cache' \in [Workers -> Entry]
    BY <1>0, <1>3 DEF SlotBusy, TypeOK
  <2> QED BY <1>3, <2>1, <2>2, <2>3 DEF SlotBusy, TypeOK, LocksTyped, LocalTyped
<1>4. CASE Recheck(p)
  <2>1. happened' \subseteq RareKinds \cup Noted
    BY <1>4, NoteTyped DEF Recheck
  <2>2. cache' \in [Workers -> Entry]
    BY <1>0, <1>4 DEF Recheck
  <2>3. CASE Release(p) /\ GiveBack(p, Read(Home[p])) /\ row' = BackInRotation(row)
    <3>1. LocksTyped' /\ LocalTyped' /\ row' \in Row
      BY <1>0, <2>3, ReleaseTyped, GiveBackTyped, RowsTyped DEF TypeOK
    <3> QED BY <1>4, <2>1, <2>2, <3>1 DEF Recheck, TypeOK, LocksTyped, LocalTyped
  <2>4. CASE ~(Release(p) /\ GiveBack(p, Read(Home[p])) /\ row' = BackInRotation(row))
    <3>1. /\ got' = [got EXCEPT ![p] = IF Read(Home[p]) = Absent THEN view[p] ELSE Read(Home[p])]
          /\ pc' = [pc EXCEPT ![p] = "exchange"]
          /\ UNCHANGED <<row, lock, slot, view, mode>>
      BY <1>4, <2>4 DEF Recheck, Goto
    <3>2. UNCHANGED <<db, good, spent, issued, age, bulk>>
      BY <1>4 DEF Recheck
    <3>3. LocalTyped'
      BY <1>0, <1>00, <3>1 DEF TypeOK, LocalTyped, Positions
    <3>4. LocksTyped' /\ GrantsTyped'
      BY <3>1, <3>2 DEF TypeOK, LocksTyped, GrantsTyped
    <3> QED BY <2>1, <2>2, <3>1, <3>2, <3>3, <3>4, PartsTyped, WholeTyped
  <2> QED BY <2>3, <2>4
<1>5. CASE ExchangeSucceeds(p)
  <2>1. got[p].rt \in 0..MaxGen BY <1>00 DEF Entry
  <2>2. GrantsTyped' BY <1>5, <2>1, ExchangedTyped DEF ExchangeSucceeds
  <2>3. NextEntry(got[p]) \in Entry
    BY <1>5, <1>00, NextEntryTyped DEF ExchangeSucceeds
  <2> QED BY <1>5, <2>2, <2>3 DEF ExchangeSucceeds, Goto, TypeOK, GrantsTyped, Positions
<1>6. CASE ExchangeLost(p)
  <2>1. got[p].rt \in 0..MaxGen BY <1>00 DEF Entry
  <2>2. GrantsTyped' BY <1>6, <2>1, ExchangedTyped DEF ExchangeLost
  <2>3. LocksTyped' BY <1>6, ReleaseTyped DEF ExchangeLost
  <2>4. happened' \subseteq RareKinds \cup Noted
    BY <1>6, HappensTyped DEF ExchangeLost, RareKinds
  <2> QED
    BY <1>6, <2>2, <2>3, <2>4 DEF ExchangeLost, Goto, TypeOK, GrantsTyped, LocksTyped, Positions
<1>7. CASE ExchangeFails(p)
  <2>1. LocksTyped' BY <1>7, ReleaseTyped DEF ExchangeFails
  <2> QED BY <1>7, <2>1 DEF ExchangeFails, Goto, TypeOK, LocksTyped, Positions
<1>8. CASE ExchangeRejected(p)
  <2>1. LocksTyped' BY <1>8, ReleaseTyped DEF ExchangeRejected
  <2> QED BY <1>8, <2>1 DEF ExchangeRejected, Goto, TypeOK, LocksTyped, Positions
<1>9. CASE Persist(p)
  <2>1. db' \in Entry BY <1>00, <1>9, KeepTyped DEF Persist, TypeOK
  <2> QED BY <1>0, <1>9, <2>1 DEF Persist, Goto, TypeOK, Positions
<1>10. CASE PersistFails(p)
  <2>1. LocksTyped' BY <1>10, ReleaseTyped DEF PersistFails
  <2>2. happened' \subseteq RareKinds \cup Noted
    BY <1>10, HappensTyped DEF PersistFails, RareKinds
  <2>3. LocalTyped'
    <3>1. CASE Rest(p) BY <3>1, RestTyped
    <3>2. CASE ~Rest(p)
      BY <1>10, <3>2 DEF PersistFails, Goto, TypeOK, LocalTyped, Positions
    <3> QED BY <3>1, <3>2
  <2> QED BY <1>10, <2>1, <2>2, <2>3 DEF PersistFails, TypeOK, LocksTyped, LocalTyped
<1>11. CASE Renewed(p)
  <2>1. LocksTyped' /\ LocalTyped' /\ row' \in Row
    BY <1>00, <1>11, ReleaseTyped, GiveBackTyped, RowsTyped DEF Renewed, TypeOK
  <2> QED BY <1>11, <2>1 DEF Renewed, TypeOK, LocksTyped, LocalTyped
<1>12. CASE Failed(p)
  <2>1. LocalTyped' BY <1>00, <1>12, GiveBackTyped, RestTyped DEF Failed
  <2>2. row' \in Row BY <1>12, RowsTyped DEF Failed, TypeOK
  <2> QED BY <1>12, <2>1, <2>2 DEF Failed, TypeOK, LocalTyped
<1>13. CASE Delete(p)
  <2>1. LocksTyped' /\ LocalTyped' /\ row' \in Row
    BY <1>13, ReleaseTyped, RestTyped, RowsTyped DEF Delete, TypeOK
  <2> QED BY <1>0, <1>13, <2>1 DEF Delete, TypeOK, LocksTyped, LocalTyped, Noted
<1> QED
  BY <1>1, <1>2, <1>3, <1>4, <1>5, <1>6, <1>7, <1>8, <1>9, <1>10, <1>11, <1>12, <1>13
  DEF Renew

LEMMA RequestTyped ==
  ASSUME TypeOK, NEW p \in Requests, Request(p)
  PROVE  TypeOK'
<1> USE HomeTyped, AbsentTyped DEF Procs
<1>0. p \in Procs /\ Read(Home[p]) \in Entry
      /\ Remember(Home[p], Read(Home[p])) \in [Workers -> Entry]
  BY ReadTyped, CacheTyped
<1>1. CASE RequestReads(p)
  BY <1>0, <1>1 DEF RequestReads, Goto, TypeOK, Positions
<1>2. CASE MarkExpired(p)
  <2>1. row' \in Row BY <1>2, RowsTyped DEF MarkExpired, TypeOK
  <2> QED BY <1>2, <2>1 DEF MarkExpired, Goto, TypeOK, Positions
<1>3. CASE Revoked(p)
  <2>1. CASE mode[p] = "second"
    BY <1>3, <2>1 DEF Revoked, Goto, TypeOK, Positions
  <2>2. CASE mode[p] # "second"
    <3>1. LocalTyped' /\ row' \in Row /\ cache' \in [Workers -> Entry]
      BY <1>0, <1>3, <2>2, GiveBackTyped, RestTyped, RowsTyped DEF Revoked, TypeOK
    <3> QED BY <1>3, <3>1 DEF Revoked, TypeOK, LocalTyped
  <2> QED BY <2>1, <2>2
<1> QED BY <1>1, <1>2, <1>3 DEF Request

LEMMA SweepTyped ==
  ASSUME TypeOK, NEW p \in Sweeps, Sweep(p)
  PROVE  TypeOK'
<1> USE HomeTyped, AbsentTyped DEF Procs
<1>0. p \in Procs /\ Read(Home[p]) \in Entry
      /\ Remember(Home[p], Read(Home[p])) \in [Workers -> Entry]
      /\ Forget(Home[p]) \in [Workers -> Entry]
      /\ Snapshots(Home[p]) \subseteq Entry
  BY ReadTyped, CacheTyped
<1>1. CASE SweepSelects(p)
  <2>1. row' \in Row BY <1>1, RowsTyped DEF SweepSelects, TypeOK
  <2>2. LocalTyped'
    BY <1>0, <1>1 DEF SweepSelects, Goto, TypeOK, LocalTyped, Positions
  <2> QED BY <1>1, <2>1, <2>2 DEF SweepSelects, TypeOK, LocalTyped
<1>2. CASE PurgeSelects(p)
  BY <1>2 DEF PurgeSelects, Goto, TypeOK, Positions
<1>3. CASE Confirm(p)
  <2>1. /\ happened' \subseteq RareKinds \cup Noted
        /\ cache' \in [Workers -> Entry]
    BY <1>0, <1>3, NoteTyped DEF Confirm
  <2>2. row' \in Row BY <1>3, RowsTyped DEF Confirm, TypeOK
  <2>3. LocksTyped' BY <1>0, <1>3, ReleaseTyped DEF Confirm, TypeOK, LocksTyped
  <2>4. LocalTyped'
    <3>1. CASE Rest(p) BY <1>0, <3>1, RestTyped
    <3>2. CASE ~Rest(p)
      <4>1. /\ \/ Goto(p, "sso") \/ Goto(p, "delete") \/ Goto(p, "invalidate")
            /\ \E e \in Entry : got' = [got EXCEPT ![p] = e]
            /\ view' = [view EXCEPT ![p] = Absent]
            /\ UNCHANGED mode
        BY <1>0, <1>3, <3>2 DEF Confirm
      <4> QED BY <4>1 DEF Goto, TypeOK, LocalTyped, Positions
    <3> QED BY <3>1, <3>2
  <2> QED BY <1>3, <2>1, <2>2, <2>3, <2>4 DEF Confirm, TypeOK, LocksTyped, LocalTyped
<1>4. CASE SsoSucceeds(p)
  <2>1. got[p] \in Entry BY <1>0 DEF TypeOK
  <2>2. NextEntry(got[p]) \in Entry /\ issued + 1 \in Gens
    BY <1>4, <2>1, NextEntryTyped DEF SsoSucceeds
  <2>3. got' = [got EXCEPT ![p] = NextEntry(got[p])]
    BY <1>0, <1>4 DEF SsoSucceeds, TypeOK
  <2> QED BY <1>4, <2>2, <2>3 DEF SsoSucceeds, Goto, TypeOK, Positions
<1>5. CASE SsoFails(p)
  <2>1. LocksTyped' /\ LocalTyped' /\ row' \in Row
    BY <1>0, <1>5, ReleaseTyped, RestTyped, RowsTyped DEF SsoFails, TypeOK
  <2> QED BY <1>5, <2>1 DEF SsoFails, TypeOK, LocksTyped, LocalTyped
<1>6. CASE Invalidate(p)
  <2>1. db' \in Entry BY <1>6 DEF Invalidate, TypeOK, Entry
  <2> QED BY <1>0, <1>6, <2>1 DEF Invalidate, Goto, TypeOK, Positions
<1>7. CASE Kick(p)
  <2>1. LocksTyped' /\ LocalTyped' /\ row' \in Row
    BY <1>0, <1>7, ReleaseTyped, RestTyped, RowsTyped DEF Kick, TypeOK
  <2> QED BY <1>7, <2>1 DEF Kick, TypeOK, LocksTyped, LocalTyped
<1> QED BY <1>1, <1>2, <1>3, <1>4, <1>5, <1>6, <1>7 DEF Sweep

LEMMA TimeTyped ==
  ASSUME TypeOK, Time
  PROVE  TypeOK'
<1>1. ASSUME NEW g \in Gens, Age(g) PROVE TypeOK'
  <2>1. age[g] + 1 \in 0..2 BY <1>1 DEF Age, TypeOK
  <2> QED BY <1>1, <2>1 DEF Age, TypeOK
<1>2. ASSUME NEW w \in Workers, CopyExpires(w) PROVE TypeOK'
  BY <1>2, CacheTyped, AbsentTyped DEF CopyExpires, TypeOK
<1>3. CASE SsoWaitEnds
  <2>1. row' \in Row BY <1>3, RowsTyped DEF SsoWaitEnds, TypeOK
  <2> QED BY <1>3, <2>1 DEF SsoWaitEnds, TypeOK
<1>4. CASE SlotExpires
  BY <1>4 DEF SlotExpires, TypeOK
<1> QED BY <1>1, <1>2, <1>3, <1>4 DEF Time

LEMMA OthersTyped ==
  ASSUME TypeOK, Others
  PROVE  TypeOK'
<1> USE AbsentTyped, HomeTyped
<1>0. /\ \A kind \in RareKinds : Happens(kind) => happened' \subseteq RareKinds \cup Noted
      /\ \A w \in Workers : Forget(w) \in [Workers -> Entry]
      /\ \A w \in Workers : Snapshots(w) \subseteq Entry
  BY HappensTyped, CacheTyped, ReadTyped
<1>1. CASE SlotLapses
  BY <1>0, <1>1 DEF SlotLapses, TypeOK, RareKinds
<1>2. CASE ProviderRevokes
  BY <1>0, <1>2 DEF ProviderRevokes, TypeOK, RareKinds
<1>3. CASE BulkWrites
  <2>1. bulk.by \in Workers /\ bulk.view \in Entry
    BY <1>3 DEF BulkWrites, TypeOK
  <2>2. db' \in Entry /\ row' \in Row /\ cache' \in [Workers -> Entry]
    BY <1>0, <1>3, <2>1, KeepTyped, RowsTyped DEF BulkWrites, TypeOK
  <2> QED BY <1>3, <2>2 DEF BulkWrites, TypeOK
<1>4. ASSUME NEW w \in Workers, Crash(w) PROVE TypeOK'
  <2>1. happened' \subseteq RareKinds \cup Noted
    BY <1>0, <1>4 DEF Crash, RareKinds
  <2>2. LocalTyped' BY <1>4 DEF Crash, TypeOK, LocalTyped, Positions
  <2>3. LocksTyped' BY <1>4 DEF Crash, TypeOK, LocksTyped
  <2>4. bulk' \in [by: Workers \cup {Nobody}, view: Entry]
    BY <1>4 DEF Crash, TypeOK
  <2> QED BY <1>0, <1>4, <2>1, <2>2, <2>3, <2>4 DEF Crash, TypeOK, LocksTyped, LocalTyped
<1>5. ASSUME NEW w \in Workers, Import(w) PROVE TypeOK'
  <2>1. happened' \subseteq RareKinds \cup Noted
    BY <1>0, <1>5 DEF Import, RareKinds
  <2>2. PICK e \in [rt: 0..MaxGen, key: Gens, invalid: {FALSE}, sso: {FALSE}] :
          /\ \/ UNCHANGED <<good, issued>>
             \/ /\ e.rt \in {0, e.key} /\ issued' = e.key
                /\ good' = good \cup ({e.rt} \ {0})
          /\ db' = MergeImported(e, db)
    BY <1>5 DEF Import
  <2>3. e \in Entry /\ e.key \in Gens
    <3>1. Gens \subseteq 0..MaxGen BY RefreshConstants DEF Gens
    <3> QED BY <2>2, <3>1 DEF Entry
  <2>4. db' \in Entry
    BY <2>2, <2>3, MergeTyped DEF TypeOK
  <2>5. GrantsTyped'
    BY <1>5, <2>2, <2>3 DEF Import, TypeOK, GrantsTyped
  <2> QED BY <1>0, <1>5, <2>1, <2>4, <2>5 DEF Import, TypeOK, GrantsTyped
<1>6. ASSUME NEW w \in Workers, AdminRemoves(w) PROVE TypeOK'
  <2>1. happened' \subseteq RareKinds \cup Noted
    BY <1>0, <1>6 DEF AdminRemoves, RareKinds
  <2>2. row' \in Row BY <1>6, RowsTyped DEF AdminRemoves, TypeOK
  <2> QED BY <1>0, <1>6, <2>1, <2>2 DEF AdminRemoves, TypeOK
<1>7. ASSUME NEW w \in Workers, BulkReads(w) PROVE TypeOK'
  <2>1. happened' \subseteq RareKinds \cup Noted
    BY <1>0, <1>7 DEF BulkReads, RareKinds
  <2> QED BY <1>0, <1>7, <2>1 DEF BulkReads, TypeOK
<1> QED BY <1>1, <1>2, <1>3, <1>4, <1>5, <1>6, <1>7 DEF Others

LEMMA TypeStep ==
  ASSUME TypeOK, [Next]_vars
  PROVE  TypeOK'
<1>1. CASE UNCHANGED vars
  BY <1>1 DEF vars, TypeOK
<1> QED BY <1>1, RenewTyped, RequestTyped, SweepTyped, TimeTyped, OthersTyped DEF Next

LEMMA TypeInit == Init => TypeOK
<1> SUFFICES ASSUME Init PROVE TypeOK
  OBVIOUS
<1>0. MaxGen \in Nat /\ 1 \in 1..MaxGen /\ 1 \in 0..MaxGen /\ 0 \in 0..MaxGen
  BY RefreshConstants
<1>1. db \in Entry /\ good \subseteq Gens /\ issued \in Gens /\ spent \subseteq Gens
  BY <1>0 DEF Init, Entry, Gens
<1> QED BY <1>1, AbsentTyped, RowsTyped DEF Init, TypeOK, NewRow, Row, Positions

(* Every state is of its type, for any instance.                             *)
THEOREM TypeCorrect == Spec => []TypeOK
<1>1. Init => TypeOK BY TypeInit
<1>2. TypeOK /\ [Next]_vars => TypeOK' BY TypeStep
<1> QED BY <1>1, <1>2, PTL DEF Spec

-----------------------------------------------------------------------------
(* The slot.  A process that is alone owns it, as long as no slot has lapsed *)
(* under its owner; the lock of the worker is not needed for that.           *)

SlotHeld == Without({"lapsed"}) => \A p \in Procs : pc[p] \in Alone => slot = p

LEMMA HeldIsExclusive ==
  ASSUME SlotHeld
  PROVE  OneRenewalAtATime
BY DEF SlotHeld, OneRenewalAtATime

(* What p may do without disturbing another's slot.                          *)
LEMMA OwnStepHolds ==
  ASSUME TypeOK, SlotHeld, NEW p \in Procs, happened \subseteq happened',
         NEW to \in Positions, pc' = [pc EXCEPT ![p] = to],
         to \in Alone => slot' = p,
         \/ slot' = slot
         \/ slot' = IF slot = p THEN Nobody ELSE slot
         \/ slot = Nobody
  PROVE  SlotHeld'
<1> SUFFICES ASSUME Without({"lapsed"})', NEW q \in Procs, pc'[q] \in Alone
             PROVE  slot' = q
  BY DEF SlotHeld
<1>1. Without({"lapsed"}) BY DEF Without
<1>2. CASE q = p BY <1>2 DEF TypeOK
<1>3. CASE q # p
  <2>1. slot = q BY <1>1, <1>3 DEF SlotHeld, TypeOK
  <2> QED BY <1>3, <2>1, NobodyHere
<1> QED BY <1>2, <1>3

LEMMA RestHolds ==
  ASSUME TypeOK, SlotHeld, NEW p \in Procs, happened \subseteq happened', Rest(p),
         Release(p) \/ slot' = slot
  PROVE  SlotHeld'
BY OwnStepHolds DEF Rest, Goto, Release, Positions, Alone

LEMMA GiveBackHolds ==
  ASSUME TypeOK, SlotHeld, NEW p \in Procs, NEW e, happened \subseteq happened',
         GiveBack(p, e), Release(p) \/ slot' = slot
  PROVE  SlotHeld'
<1>1. CASE Rest(p) BY <1>1, RestHolds
<1>2. CASE Goto(p, "lock") \/ Goto(p, "delete")
  BY <1>2, OwnStepHolds DEF Goto, Release, Positions, Alone
<1> QED BY <1>1, <1>2 DEF GiveBack

LEMMA StillHeld ==
  ASSUME SlotHeld, UNCHANGED <<pc, slot>>, happened \subseteq happened'
  PROVE  SlotHeld'
BY DEF SlotHeld, Without

LEMMA RenewHolds ==
  ASSUME TypeOK, SlotHeld, NEW p \in Procs, Renew(p)
  PROVE  SlotHeld'
<1>0. ASSUME NEW kind, Happens(kind) PROVE happened \subseteq happened'
  BY <1>0 DEF Happens
<1>1. CASE TakeLock(p)
  BY <1>1, OwnStepHolds DEF TakeLock, Goto, Positions, Alone
<1>2. CASE TakeSlot(p)
  BY <1>2, OwnStepHolds DEF TakeSlot, Goto, Positions
<1>3. CASE SlotBusy(p)
  BY <1>3, GiveBackHolds, RestHolds DEF SlotBusy
<1>4. CASE Recheck(p)
  <2>1. happened \subseteq happened' BY <1>4 DEF Recheck, NoteStale
  <2>2. CASE Release(p) /\ GiveBack(p, Read(Home[p]))
    BY <2>1, <2>2, GiveBackHolds
  <2>3. CASE Goto(p, "exchange") /\ slot' = slot
    <3>1. Without({"lapsed"})' => slot = p
      BY <1>4, <2>1 DEF Recheck, At, SlotHeld, Without, Alone
    <3>2. CASE Without({"lapsed"})'
      BY <2>1, <2>3, <3>1, <3>2, OwnStepHolds DEF Goto, Positions
    <3> QED BY <3>2 DEF SlotHeld
  <2> QED BY <1>4, <2>2, <2>3 DEF Recheck
<1>5. CASE ExchangeSucceeds(p) \/ Persist(p)
  <2>1. PICK to \in {"persist", "renewed"} : Goto(p, to) /\ UNCHANGED <<slot, happened>>
    BY <1>5 DEF ExchangeSucceeds, Persist
  <2>2. Without({"lapsed"})' => slot = p
    BY <1>5, <2>1 DEF ExchangeSucceeds, Persist, At, SlotHeld, Without, Alone
  <2>3. CASE Without({"lapsed"})'
    BY <2>1, <2>2, <2>3, OwnStepHolds DEF Goto, Positions
  <2> QED BY <2>3 DEF SlotHeld
<1>6. CASE ExchangeLost(p)
  BY <1>0, <1>6, OwnStepHolds DEF ExchangeLost, Goto, Release, Positions, Alone
<1>7. CASE ExchangeFails(p)
  BY <1>7, OwnStepHolds DEF ExchangeFails, Goto, Release, Positions, Alone
<1>8. CASE ExchangeRejected(p)
  BY <1>8, OwnStepHolds DEF ExchangeRejected, Goto, Release, Positions, Alone
<1>9. CASE PersistFails(p)
  <2>1. happened \subseteq happened' BY <1>0, <1>9 DEF PersistFails
  <2>2. CASE Rest(p) BY <1>9, <2>1, <2>2, RestHolds DEF PersistFails
  <2>3. CASE Goto(p, "failed")
    BY <1>9, <2>1, <2>3, OwnStepHolds DEF PersistFails, Goto, Release, Positions, Alone
  <2> QED BY <1>9, <2>2, <2>3 DEF PersistFails
<1>10. CASE Renewed(p)
  BY <1>10, GiveBackHolds DEF Renewed
<1>11. CASE Failed(p)
  BY <1>11, GiveBackHolds, RestHolds DEF Failed
<1>12. CASE Delete(p)
  BY <1>12, RestHolds DEF Delete
<1> QED
  BY <1>1, <1>2, <1>3, <1>4, <1>5, <1>6, <1>7, <1>8, <1>9, <1>10, <1>11, <1>12
  DEF Renew

LEMMA CallersHold ==
  ASSUME TypeOK, SlotHeld, NEW p \in Procs, Request(p) \/ Sweep(p)
  PROVE  SlotHeld'
<1>1. CASE RequestReads(p) \/ MarkExpired(p)
  <2>1. PICK to \in {"mark", "lock", "delete"} :
          Goto(p, to) /\ UNCHANGED <<slot, happened>>
    BY <1>1 DEF RequestReads, MarkExpired
  <2> QED BY <2>1, OwnStepHolds DEF Goto, Positions, Alone
<1>2. CASE Revoked(p)
  <2>1. CASE Goto(p, "delete")
    BY <1>2, <2>1, OwnStepHolds DEF Revoked, Goto, Positions, Alone
  <2> QED BY <1>2, <2>1, GiveBackHolds, RestHolds DEF Revoked
<1>3. CASE SweepSelects(p)
  <2>1. CASE UNCHANGED pc
    BY <1>3, <2>1, StillHeld DEF SweepSelects
  <2>2. CASE Goto(p, "relock") \/ Goto(p, "lock")
    BY <1>3, <2>2, OwnStepHolds DEF SweepSelects, Goto, Positions, Alone
  <2> QED BY <1>3, <2>1, <2>2 DEF SweepSelects
<1>4. CASE PurgeSelects(p)
  BY <1>4, OwnStepHolds DEF PurgeSelects, Goto, Positions, Alone
<1>5. CASE Confirm(p)
  <2>1. happened \subseteq happened' BY <1>5 DEF Confirm, NoteStale
  <2>2. CASE Release(p) /\ Rest(p)
    BY <2>1, <2>2, RestHolds
  <2>3. CASE /\ Goto(p, "sso") \/ Goto(p, "delete") \/ Goto(p, "invalidate")
             /\ slot' = slot
    <3>1. Without({"lapsed"})' => slot = p
      BY <1>5, <2>1 DEF Confirm, At, SlotHeld, Without, Alone
    <3>2. CASE Without({"lapsed"})'
      BY <2>1, <2>3, <3>1, <3>2, OwnStepHolds DEF Goto, Positions
    <3> QED BY <3>2 DEF SlotHeld
  <2> QED BY <1>5, <2>2, <2>3 DEF Confirm
<1>6. CASE SsoSucceeds(p)
  <2>1. Without({"lapsed"})' => slot = p
    BY <1>6 DEF SsoSucceeds, At, SlotHeld, Without, Alone
  <2>2. CASE Without({"lapsed"})'
    BY <1>6, <2>1, <2>2, OwnStepHolds DEF SsoSucceeds, Goto, Positions
  <2> QED BY <2>2 DEF SlotHeld
<1>7. CASE SsoFails(p) \/ Kick(p)
  BY <1>7, RestHolds DEF SsoFails, Kick
<1>8. CASE Invalidate(p)
  BY <1>8, OwnStepHolds DEF Invalidate, Goto, Positions, Alone
<1> QED BY <1>1, <1>2, <1>3, <1>4, <1>5, <1>6, <1>7, <1>8 DEF Request, Sweep

LEMMA WorldHolds ==
  ASSUME TypeOK, SlotHeld, Time \/ Others
  PROVE  SlotHeld'
<1>0. ASSUME NEW kind, Happens(kind) PROVE happened \subseteq happened'
  BY <1>0 DEF Happens
<1>1. CASE \/ \E g \in Gens : Age(g)
           \/ \E w \in Workers : CopyExpires(w)
           \/ SsoWaitEnds
  BY <1>1, StillHeld DEF Age, CopyExpires, SsoWaitEnds
<1>2. CASE SlotExpires
  BY <1>2, NobodyHere DEF SlotExpires, SlotHeld, Without
<1>3. CASE SlotLapses
  BY <1>3 DEF SlotLapses, Happens, SlotHeld, Without
<1>4. CASE ProviderRevokes \/ BulkWrites
  BY <1>0, <1>4, StillHeld DEF ProviderRevokes, BulkWrites
<1>5. ASSUME NEW w \in Workers, Crash(w) PROVE SlotHeld'
  <2> SUFFICES ASSUME Without({"lapsed"})', NEW q \in Procs, pc'[q] \in Alone
               PROVE  slot' = q
    BY DEF SlotHeld
  <2>1. Without({"lapsed"}) BY <1>0, <1>5 DEF Crash, Without
  <2>2. Home[q] # w /\ pc[q] \in Alone
    BY <1>5 DEF Crash, TypeOK, Alone
  <2>3. slot = q BY <2>1, <2>2 DEF SlotHeld
  <2> QED BY <1>5, <2>2, <2>3 DEF Crash
<1>6. ASSUME NEW w \in Workers, Import(w) \/ AdminRemoves(w) \/ BulkReads(w)
      PROVE  SlotHeld'
  BY <1>0, <1>6, StillHeld DEF Import, AdminRemoves, BulkReads
<1> QED BY <1>1, <1>2, <1>3, <1>4, <1>5, <1>6 DEF Time, Others

LEMMA SlotStep ==
  ASSUME TypeOK, SlotHeld, [Next]_vars
  PROVE  SlotHeld'
<1>1. CASE UNCHANGED vars
  BY <1>1, StillHeld DEF vars
<1> QED BY <1>1, RenewHolds, CallersHold, WorldHolds DEF Next, Procs

(* At most one process exchanges, stores or condemns the account's token, in *)
(* any number of workers, unless a slot has lapsed under its owner.          *)
THEOREM RenewalsExclude == Spec => []OneRenewalAtATime
<1>1. Init => SlotHeld BY DEF Init, SlotHeld, Alone
<1>2. TypeOK /\ SlotHeld /\ [Next]_vars => SlotHeld' BY SlotStep
<1>3. SlotHeld => OneRenewalAtATime BY HeldIsExclusive
<1> QED BY <1>1, <1>2, <1>3, TypeCorrect, PTL DEF Spec

-----------------------------------------------------------------------------
(* What the stored token is worth.  Persisting(p) holds in the interval in   *)
(* which the provider has moved on and the storage has not.                  *)

Persisting(p) == pc[p] = "persist"
Undisturbed ==
  /\ Without({"lapsed", "lost", "crash", "rewrite", "removed", "deleted"})
  /\ Without({"revoked"}) \/ Without({"import"})

Known == \A g \in good \cup spent : g <= issued

BulkNoted == bulk.by # Nobody => "rewrite" \in happened

Ahead ==
  Without({"lapsed", "rewrite"}) =>
    /\ db.key <= issued
    /\ \A p \in Procs : Persisting(p) => got[p].key <= issued

Forward ==
  Without({"lapsed", "rewrite", "import"}) =>
    \A p \in Procs : Persisting(p) => db.key <= got[p].key

(* The token in hand is accepted and newer than every spent one, and between *)
(* renewals so is the stored one.                                            *)
Accepted ==
  Undisturbed =>
    /\ \A p \in Procs : Persisting(p) =>
         /\ got[p].rt \in good \/ (good = {} /\ "revoked" \in happened)
         /\ good = {} \/ \A g \in spent : g < got[p].key
    /\ \/ \E p \in Procs : Persisting(p)
       \/ good = {}
       \/ db.rt \in good /\ \A g \in spent : g <= db.key

IInv == TypeOK /\ SlotHeld /\ Known /\ BulkNoted /\ Ahead /\ Forward /\ Accepted

LEMMA Calm ==
  ASSUME happened \subseteq happened'
  PROVE  /\ \A kinds : Without(kinds)' => Without(kinds)
         /\ Undisturbed' => Undisturbed
BY DEF Without, Undisturbed

LEMMA NumbersTyped ==
  ASSUME TypeOK
  PROVE  /\ db.key \in Nat /\ db.rt \in Nat /\ issued \in Nat /\ 0 \notin good
         /\ \A p \in Procs : got[p].key \in Nat /\ got[p].rt \in Nat
         /\ \A g \in good \cup spent : g \in Nat
BY RefreshConstants DEF TypeOK, Entry, Gens

LEMMA OneInHand ==
  ASSUME IInv, Without({"lapsed"}), NEW p \in Procs, NEW q \in Procs,
         pc[p] \in Alone, Persisting(q)
  PROVE  q = p
BY DEF IInv, SlotHeld, Persisting, Alone

(* Most steps neither store nor exchange anything.                           *)
LEMMA ElsewhereKeeps ==
  ASSUME IInv, TypeOK', SlotHeld', happened \subseteq happened',
         UNCHANGED <<db, good, spent, issued>>, BulkNoted',
         \A q \in Procs : Persisting(q)' => Persisting(q) /\ got'[q] = got[q],
         Undisturbed' => \A q \in Procs : Persisting(q) => Persisting(q)'
  PROVE  IInv'
BY Calm DEF IInv, Known, Ahead, Forward, Accepted, Without, Undisturbed

LEMMA BulkStays ==
  ASSUME BulkNoted, happened \subseteq happened', UNCHANGED bulk
  PROVE  BulkNoted'
BY DEF BulkNoted

LEMMA GrantKeeps ==
  ASSUME IInv, TypeOK', SlotHeld', NEW p \in Procs, pc[p] \in {"exchange", "sso"},
         issued' = issued + 1, pc' = [pc EXCEPT ![p] = "persist"],
         good' \subseteq good \cup {issued + 1}, issued + 1 \in good',
         spent' \subseteq spent \cup good,
         got'[p].key = issued + 1, got'[p].rt = issued + 1,
         UNCHANGED <<db, bulk, happened>>
  PROVE  IInv'
<1>0. TypeOK /\ Known /\ Ahead /\ Forward /\ Accepted /\ BulkNoted BY DEF IInv
<1>1. Known' BY <1>0, NumbersTyped DEF Known
<1>2. ASSUME Without({"lapsed"}), NEW q \in Procs, Persisting(q)' PROVE q = p
  <2>1. Persisting(q) \/ q = p BY <1>0, <1>2 DEF Persisting, TypeOK
  <2> QED BY <1>2, <2>1, OneInHand DEF Alone
<1>3. Persisting(p)' BY <1>0 DEF Persisting, TypeOK
<1>4. Ahead'
  BY <1>0, <1>2, NumbersTyped DEF Ahead, Without
<1>5. Forward'
  BY <1>0, <1>2, NumbersTyped DEF Forward, Ahead, Without
<1>6. Accepted'
  <2> SUFFICES ASSUME Undisturbed'
               PROVE  \A q \in Procs : Persisting(q)' =>
                        /\ got'[q].rt \in good'
                        /\ \A g \in spent' : g < got'[q].key
    BY <1>3 DEF Accepted
  <2>1. Without({"lapsed"}) BY DEF Undisturbed, Without
  <2>2. \A g \in spent' : g < issued + 1
    BY <1>0, NumbersTyped DEF Known
  <2> QED BY <1>2, <2>1, <2>2
<1>7. BulkNoted' BY <1>0 DEF BulkNoted
<1> QED BY <1>1, <1>4, <1>5, <1>6, <1>7 DEF IInv

LEMMA PersistKeeps ==
  ASSUME IInv, TypeOK', SlotHeld', NEW p \in Procs, Persist(p)
  PROVE  IInv'
<1>0. TypeOK /\ Known /\ Ahead /\ Forward /\ Accepted /\ BulkNoted BY DEF IInv
<1>1. Persisting(p) /\ UNCHANGED <<good, spent, issued, got, bulk, happened>>
  BY DEF Persist, At, Persisting
<1>2. db'.key = got[p].key /\ db'.rt = got[p].rt
  BY <1>0 DEF Persist, KeepDurable, TypeOK, Entry
<1>3. ASSUME Without({"lapsed"}), NEW q \in Procs PROVE ~Persisting(q)'
  <2>1. CASE q = p BY <1>0, <2>1 DEF Persist, Goto, Persisting, TypeOK
  <2>2. CASE q # p
    <3>1. ~Persisting(q) BY <1>1, <1>3, <2>2, OneInHand DEF Persisting, Alone
    <3> QED BY <1>0, <2>2, <3>1 DEF Persist, Goto, Persisting, TypeOK
  <2> QED BY <2>1, <2>2
<1>4. Known' /\ BulkNoted' BY <1>0, <1>1 DEF Known, BulkNoted
<1>5. Ahead' BY <1>0, <1>1, <1>2, <1>3 DEF Ahead, Without
<1>6. Forward' BY <1>1, <1>3 DEF Forward, Without
<1>7. Accepted'
  <2> SUFFICES ASSUME Undisturbed'
               PROVE  good' = {} \/ (db'.rt \in good' /\ \A g \in spent' : g <= db'.key)
    BY <1>1, <1>3 DEF Accepted, Undisturbed, Without
  <2>1. Undisturbed BY <1>1 DEF Undisturbed, Without
  <2> QED BY <1>0, <1>1, <1>2, <2>1, NumbersTyped DEF Accepted
<1> QED BY <1>4, <1>5, <1>6, <1>7 DEF IInv

(* The entry is marked, or goes.                                             *)
LEMMA ErasureKeeps ==
  ASSUME IInv, TypeOK', SlotHeld', happened \subseteq happened',
         UNCHANGED <<good, spent, issued>>, BulkNoted',
         \A q \in Procs : /\ Persisting(q)' <=> Persisting(q)
                          /\ Persisting(q) => got'[q] = got[q],
         \/ db'.key = db.key /\ db'.rt = db.rt
         \/ db' = Absent /\ ~Undisturbed'
  PROVE  IInv'
<1>0. TypeOK /\ Known /\ Ahead /\ Forward /\ Accepted BY DEF IInv
<1>1. db'.key \in {0, db.key} BY DEF Absent
<1>2. \A q \in Procs : Persisting(q)' => Persisting(q) /\ got'[q] = got[q]
  BY DEF Persisting
<1>3. Known'
  BY <1>0 DEF Known
<1>4. Ahead' /\ Forward'
  BY <1>0, <1>1, <1>2, Calm, NumbersTyped DEF Ahead, Forward
<1>5. Accepted'
  <2> SUFFICES ASSUME Undisturbed' PROVE Accepted'
    BY DEF Accepted
  <2>1. Undisturbed /\ db'.key = db.key /\ db'.rt = db.rt
    BY Calm
  <2> QED BY <1>0, <1>2, <2>1 DEF Accepted, Persisting
<1> QED BY <1>3, <1>4, <1>5 DEF IInv

LEMMA ImportKeeps ==
  ASSUME IInv, TypeOK', SlotHeld', NEW w \in Workers, Import(w)
  PROVE  IInv'
<1>0. TypeOK /\ Known /\ Ahead /\ Accepted /\ BulkNoted BY DEF IInv
<1>1. /\ happened' = happened \cup {"import"}
      /\ UNCHANGED <<spent, pc, got, bulk>>
  BY DEF Import, Happens
<1>2. PICK e \in [rt: 0..MaxGen, key: Gens, invalid: {FALSE}, sso: {FALSE}] :
        /\ \/ /\ e.rt = e.key /\ e.rt \in good \cup spent
              /\ UNCHANGED <<good, issued>>
           \/ /\ e.key = issued + 1 /\ e.rt \in {0, e.key}
              /\ issued' = e.key
              /\ good' = good \cup ({e.rt} \ {0})
        /\ db' = MergeImported(e, db)
  BY DEF Import
<1>3. /\ e.key \in Nat \ {0} /\ e.rt \in Nat
      /\ db.key >= e.key =>
           db'.key = db.key /\ db'.rt = (IF db.rt # 0 THEN db.rt ELSE e.rt)
      /\ ~(db.key >= e.key) =>
           db'.key = e.key /\ db'.rt = (IF e.rt = 0 THEN db.rt ELSE e.rt)
  <2>1. e.key \in Nat \ {0} /\ e.rt \in Nat
    BY <1>2, RefreshConstants DEF Gens
  <2>2. e \in Entry
    <3>1. Gens \subseteq 0..MaxGen BY RefreshConstants DEF Gens
    <3> QED BY <1>2, <3>1 DEF Entry
  <2>3. db \in Entry BY <1>0 DEF TypeOK
  <2> QED BY <1>2, <2>1, <2>2, <2>3 DEF MergeImported, KeepDurable, Entry
<1>4. e.key <= issued' /\ issued <= issued' /\ issued' \in Nat
  BY <1>0, <1>2, <1>3, NumbersTyped DEF Known
<1>5. Known'
  BY <1>0, <1>1, <1>2, <1>4, NumbersTyped DEF Known
<1>6. BulkNoted' BY <1>0, <1>1 DEF BulkNoted
<1>7. Ahead'
  <2> SUFFICES ASSUME Without({"lapsed", "rewrite"})' PROVE Ahead'
    BY DEF Ahead
  <2>1. Without({"lapsed", "rewrite"}) BY <1>1 DEF Without
  <2> QED BY <1>0, <1>1, <1>3, <1>4, <2>1, NumbersTyped DEF Ahead, Persisting
<1>8. Forward' BY <1>1 DEF Forward, Without
<1>9. Accepted'
  <2> SUFFICES ASSUME Undisturbed' PROVE Accepted'
    BY DEF Accepted
  <2>1. Undisturbed /\ "revoked" \notin happened /\ Without({"lapsed", "rewrite"})
    BY <1>1 DEF Undisturbed, Without
  <2>2. good \subseteq good' BY <1>2
  <2>3. ASSUME NEW q \in Procs, Persisting(q)
        PROVE  got[q].rt \in good' /\ \A g \in spent : g < got[q].key
    BY <1>0, <2>1, <2>2, <2>3 DEF Accepted
  <2>4. CASE \E q \in Procs : Persisting(q)
    BY <1>1, <2>3, <2>4 DEF Accepted, Persisting
  <2>5. CASE ~\E q \in Procs : Persisting(q)
    <3>1. good = {} \/ (db.rt \in good /\ \A g \in spent : g <= db.key)
      BY <1>0, <2>1, <2>5 DEF Accepted
    <3>2. db.key <= issued BY <1>0, <2>1 DEF Ahead
    <3>3. good' = {} \/ (db'.rt \in good' /\ \A g \in spent : g <= db'.key)
      <4>1. CASE UNCHANGED <<good, issued>>
        <5>1. e.rt = e.key /\ e.rt \in good \cup spent
          BY <1>2, <1>3, <4>1, NumbersTyped, <1>0
        <5>2. CASE good = {} BY <4>1, <5>2
        <5>3. CASE good # {}
          BY <1>0, <1>3, <3>1, <4>1, <5>1, <5>3, NumbersTyped
        <5> QED BY <5>2, <5>3
      <4>2. CASE e.key = issued + 1 /\ good' = good \cup ({e.rt} \ {0})
        <5>1. db'.key = issued + 1 /\ db'.rt = (IF e.rt = 0 THEN db.rt ELSE e.rt)
          BY <1>0, <1>3, <3>2, <4>2, NumbersTyped
        <5>2. \A g \in spent : g <= db'.key
          BY <1>0, <5>1, NumbersTyped DEF Known
        <5> QED BY <1>0, <1>3, <3>1, <4>2, <5>1, <5>2, NumbersTyped
      <4> QED BY <1>2, <4>1, <4>2
    <3> QED BY <1>1, <2>5, <3>3 DEF Accepted, Persisting
  <2> QED BY <2>4, <2>5
<1> QED BY <1>5, <1>6, <1>7, <1>8, <1>9 DEF IInv

LEMMA RestElsewhere ==
  ASSUME TypeOK, NEW p \in Procs, ~Persisting(p),
         Rest(p) \/ \E e : GiveBack(p, e)
  PROVE  \A q \in Procs : /\ Persisting(q)' <=> Persisting(q)
                          /\ Persisting(q) => got'[q] = got[q]
BY DEF Rest, GiveBack, Goto, Persisting, TypeOK

LEMMA RenewKeeps ==
  ASSUME IInv, TypeOK', SlotHeld', NEW p \in Procs, Renew(p)
  PROVE  IInv'
<1>0. TypeOK /\ BulkNoted BY DEF IInv
<1>1. CASE TakeLock(p) \/ TakeSlot(p)
  <2>1. \A q \in Procs : Persisting(q)' <=> Persisting(q)
    BY <1>0, <1>1 DEF TakeLock, TakeSlot, At, Goto, Persisting, TypeOK
  <2>2. UNCHANGED <<db, good, spent, issued, got, bulk, happened>>
    BY <1>1 DEF TakeLock, TakeSlot
  <2> QED BY <1>0, <2>1, <2>2, ElsewhereKeeps, BulkStays
<1>2. CASE SlotBusy(p) \/ Failed(p) \/ Renewed(p)
  <2>1. UNCHANGED <<db, good, spent, issued, bulk, happened>> /\ ~Persisting(p)
    BY <1>2 DEF SlotBusy, Failed, Renewed, At, Persisting
  <2>2. Rest(p) \/ \E e : GiveBack(p, e)
    BY <1>2 DEF SlotBusy, Failed, Renewed
  <2> QED BY <1>0, <2>1, <2>2, RestElsewhere, ElsewhereKeeps, BulkStays
<1>3. CASE Recheck(p)
  <2>1. /\ UNCHANGED <<db, good, spent, issued, bulk>> /\ ~Persisting(p)
        /\ happened \subseteq happened'
    BY <1>3 DEF Recheck, At, Persisting, NoteStale
  <2>2. CASE \E e : GiveBack(p, e)
    BY <1>0, <2>1, <2>2, RestElsewhere, ElsewhereKeeps, BulkStays
  <2>3. CASE Goto(p, "exchange") /\ \E e : got' = [got EXCEPT ![p] = e]
    <3>1. \A q \in Procs : /\ Persisting(q)' <=> Persisting(q)
                           /\ Persisting(q) => got'[q] = got[q]
      BY <1>0, <2>1, <2>3 DEF Goto, Persisting, TypeOK
    <3> QED BY <1>0, <2>1, <3>1, ElsewhereKeeps, BulkStays
  <2> QED BY <1>3, <2>2, <2>3 DEF Recheck
<1>4. CASE ExchangeSucceeds(p)
  <2>1. got[p].rt \in good /\ got'[p] = NextEntry(got[p])
    BY <1>0, <1>4 DEF ExchangeSucceeds, Rejected, TypeOK
  <2>2. got'[p].key = issued + 1 /\ got'[p].rt = issued + 1
    BY <1>0, <2>1 DEF NextEntry, TypeOK, Entry
  <2> QED
    BY <1>4, <2>1, <2>2, GrantKeeps DEF ExchangeSucceeds, Exchanged, At, Goto
<1>5. CASE ExchangeLost(p)
  <2>1. /\ happened' = happened \cup {"lost"} /\ ~Undisturbed' /\ issued' = issued + 1
        /\ UNCHANGED <<db, bulk>> /\ ~Persisting(p) /\ got[p].rt \in good
    BY <1>5 DEF ExchangeLost, Exchanged, Happens, Undisturbed, Without, At, Persisting, Rejected
  <2>2. \A q \in Procs : /\ Persisting(q)' <=> Persisting(q)
                         /\ Persisting(q) => got'[q] = got[q]
    BY <1>0, <1>5, <2>1 DEF ExchangeLost, Goto, Persisting, TypeOK
  <2>3. Known'
    BY <1>0, <1>5, <2>1, NumbersTyped DEF IInv, ExchangeLost, Exchanged, Known
  <2>4. Ahead' /\ Forward'
    BY <1>0, <2>1, <2>2, NumbersTyped DEF IInv, Ahead, Forward, Without
  <2> QED BY <1>0, <2>1, <2>3, <2>4, BulkStays DEF IInv, Accepted
<1>6. CASE ExchangeFails(p) \/ ExchangeRejected(p)
  <2>1. UNCHANGED <<db, good, spent, issued, bulk, happened>> /\ ~Persisting(p)
    BY <1>6 DEF ExchangeFails, ExchangeRejected, At, Persisting
  <2>2. \A q \in Procs : /\ Persisting(q)' <=> Persisting(q)
                         /\ Persisting(q) => got'[q] = got[q]
    BY <1>0, <1>6, <2>1 DEF ExchangeFails, ExchangeRejected, Goto, Persisting, TypeOK
  <2> QED BY <1>0, <2>1, <2>2, ElsewhereKeeps, BulkStays
<1>7. CASE Persist(p)
  BY <1>7, PersistKeeps
<1>8. CASE PersistFails(p)
  <2>1. /\ happened' = happened \cup {"lost"} /\ ~Undisturbed'
        /\ UNCHANGED <<db, good, spent, issued, bulk>>
    BY <1>8 DEF PersistFails, Happens, Undisturbed, Without
  <2>2. \A q \in Procs : Persisting(q)' => Persisting(q) /\ got'[q] = got[q]
    BY <1>0, <1>8 DEF PersistFails, Rest, Goto, Persisting, TypeOK
  <2> QED BY <1>0, <2>1, <2>2, ElsewhereKeeps, BulkStays
<1>9. CASE Delete(p)
  <2>1. /\ happened \subseteq happened' /\ UNCHANGED <<good, spent, issued, bulk>>
        /\ ~Persisting(p) /\ db' = Absent
        /\ db # Absent => ~Undisturbed'
    BY <1>9 DEF Delete, At, Persisting, Undisturbed, Without
  <2>2. \A q \in Procs : /\ Persisting(q)' <=> Persisting(q)
                         /\ Persisting(q) => got'[q] = got[q]
    BY <1>0, <1>9, <2>1, RestElsewhere DEF Delete
  <2>3. CASE db = Absent
    BY <1>0, <2>1, <2>2, <2>3, ErasureKeeps, BulkStays
  <2>4. CASE db # Absent
    BY <1>0, <2>1, <2>2, <2>4, ErasureKeeps, BulkStays
  <2> QED BY <2>3, <2>4
<1> QED
  BY <1>1, <1>2, <1>3, <1>4, <1>5, <1>6, <1>7, <1>8, <1>9 DEF Renew

LEMMA CallersKeep ==
  ASSUME IInv, TypeOK', SlotHeld', NEW p \in Procs, Request(p) \/ Sweep(p)
  PROVE  IInv'
<1>0. TypeOK /\ BulkNoted BY DEF IInv
<1>1. CASE RequestReads(p) \/ MarkExpired(p) \/ SweepSelects(p) \/ PurgeSelects(p)
  <2>1. UNCHANGED <<db, good, spent, issued, got, bulk, happened>>
    BY <1>1 DEF RequestReads, MarkExpired, SweepSelects, PurgeSelects
  <2>2. \A q \in Procs : Persisting(q)' <=> Persisting(q)
    BY <1>0, <1>1
    DEF RequestReads, MarkExpired, SweepSelects, PurgeSelects, At, Goto, Persisting, TypeOK
  <2> QED BY <1>0, <2>1, <2>2, ElsewhereKeeps, BulkStays
<1>2. CASE Revoked(p) \/ SsoFails(p) \/ Kick(p)
  <2>1. UNCHANGED <<db, good, spent, issued, bulk, happened>> /\ ~Persisting(p)
    BY <1>2 DEF Revoked, SsoFails, Kick, At, Persisting
  <2>2. \A q \in Procs : /\ Persisting(q)' <=> Persisting(q)
                         /\ Persisting(q) => got'[q] = got[q]
    <3>1. CASE Rest(p) \/ \E e : GiveBack(p, e)
      BY <1>0, <2>1, <3>1, RestElsewhere
    <3>2. CASE Goto(p, "delete") /\ UNCHANGED got
      BY <1>0, <2>1, <3>2 DEF Goto, Persisting, TypeOK
    <3> QED BY <1>2, <3>1, <3>2 DEF Revoked, SsoFails, Kick
  <2> QED BY <1>0, <2>1, <2>2, ElsewhereKeeps, BulkStays
<1>3. CASE Confirm(p)
  <2>1. /\ UNCHANGED <<db, good, spent, issued, bulk>> /\ ~Persisting(p)
        /\ happened \subseteq happened'
    BY <1>3 DEF Confirm, At, Persisting, NoteStale
  <2>2. CASE Rest(p)
    BY <1>0, <2>1, <2>2, RestElsewhere, ElsewhereKeeps, BulkStays
  <2>3. CASE /\ Goto(p, "sso") \/ Goto(p, "delete") \/ Goto(p, "invalidate")
             /\ \E e : got' = [got EXCEPT ![p] = e]
    <3>1. \A q \in Procs : /\ Persisting(q)' <=> Persisting(q)
                           /\ Persisting(q) => got'[q] = got[q]
      BY <1>0, <2>1, <2>3 DEF Goto, Persisting, TypeOK
    <3> QED BY <1>0, <2>1, <3>1, ElsewhereKeeps, BulkStays
  <2> QED BY <1>3, <2>2, <2>3 DEF Confirm
<1>4. CASE SsoSucceeds(p)
  <2>1. got'[p].key = issued + 1 /\ got'[p].rt = issued + 1
    BY <1>0, <1>4 DEF SsoSucceeds, NextEntry, TypeOK, Entry
  <2> QED BY <1>4, <2>1, GrantKeeps DEF SsoSucceeds, At, Goto
<1>5. CASE Invalidate(p)
  <2>1. /\ UNCHANGED <<good, spent, issued, got, bulk, happened>>
        /\ db'.key = db.key /\ db'.rt = db.rt
    BY <1>0, <1>5 DEF Invalidate, TypeOK, Entry
  <2>2. \A q \in Procs : Persisting(q)' <=> Persisting(q)
    BY <1>0, <1>5 DEF Invalidate, At, Goto, Persisting, TypeOK
  <2> QED BY <1>0, <2>1, <2>2, ErasureKeeps, BulkStays
<1> QED BY <1>1, <1>2, <1>3, <1>4, <1>5 DEF Request, Sweep

LEMMA WorldKeeps ==
  ASSUME IInv, TypeOK', SlotHeld', Time \/ Others
  PROVE  IInv'
<1>0. TypeOK /\ BulkNoted BY DEF IInv
<1>1. CASE Time \/ SlotLapses
  <2>1. UNCHANGED <<db, good, spent, issued, pc, got, bulk>> /\ happened \subseteq happened'
    BY <1>1 DEF Time, Age, CopyExpires, SsoWaitEnds, SlotExpires, SlotLapses, Happens
  <2> QED BY <1>0, <2>1, ElsewhereKeeps, BulkStays DEF Persisting
<1>2. CASE ProviderRevokes
  <2>1. /\ happened' = happened \cup {"revoked"} /\ good' = {} /\ spent' = spent \cup good
        /\ UNCHANGED <<db, issued, pc, got, bulk>>
    BY <1>2 DEF ProviderRevokes, Happens
  <2>2. Known' /\ Ahead' /\ Forward'
    BY <2>1 DEF IInv, Known, Ahead, Forward, Without, Persisting
  <2>3. Accepted' BY <2>1 DEF Accepted, Persisting
  <2> QED BY <1>0, <2>1, <2>2, <2>3, BulkStays DEF IInv
<1>3. CASE BulkWrites
  <2>1. "rewrite" \in happened /\ happened' = happened
    BY <1>0, <1>3 DEF BulkWrites, BulkNoted
  <2>2. ~Without({"lapsed", "rewrite"})' /\ ~Undisturbed' /\ bulk'.by = Nobody
    BY <1>3, <2>1 DEF Without, Undisturbed, BulkWrites, NoBulk
  <2>3. ~Without({"lapsed", "rewrite", "import"})'
    BY <2>1 DEF Without
  <2>4. Known' BY <1>3 DEF IInv, BulkWrites, Known
  <2> QED BY <2>2, <2>3, <2>4 DEF IInv, Ahead, Forward, Accepted, BulkNoted
<1>4. ASSUME NEW w \in Workers, Crash(w) PROVE IInv'
  <2>1. /\ happened' = happened \cup {"crash"} /\ ~Undisturbed'
        /\ UNCHANGED <<db, good, spent, issued>>
    BY <1>4 DEF Crash, Happens, Undisturbed, Without
  <2>2. \A q \in Procs : Persisting(q)' => Persisting(q) /\ got'[q] = got[q]
    BY <1>4 DEF Crash, Persisting
  <2>3. BulkNoted' BY <1>0, <1>4, <2>1 DEF Crash, BulkNoted, NoBulk
  <2> QED BY <2>1, <2>2, <2>3, ElsewhereKeeps
<1>5. ASSUME NEW w \in Workers, Import(w) PROVE IInv'
  BY <1>5, ImportKeeps
<1>6. ASSUME NEW w \in Workers, AdminRemoves(w) PROVE IInv'
  <2>1. /\ happened' = happened \cup {"removed"} /\ ~Undisturbed' /\ db' = Absent
        /\ UNCHANGED <<good, spent, issued, pc, got, bulk>>
    BY <1>6 DEF AdminRemoves, Happens, Undisturbed, Without
  <2> QED BY <1>0, <2>1, ErasureKeeps, BulkStays DEF Persisting
<1>7. ASSUME NEW w \in Workers, BulkReads(w) PROVE IInv'
  <2>1. /\ happened' = happened \cup {"rewrite"}
        /\ UNCHANGED <<db, good, spent, issued, pc, got>>
    BY <1>7 DEF BulkReads, Happens
  <2>2. BulkNoted' BY <2>1 DEF BulkNoted
  <2> QED BY <2>1, <2>2, ElsewhereKeeps DEF Persisting
<1> QED BY <1>1, <1>2, <1>3, <1>4, <1>5, <1>6, <1>7 DEF Others

LEMMA InvStep ==
  ASSUME IInv, [Next]_vars
  PROVE  IInv'
<1>1. TypeOK' /\ SlotHeld'
  BY TypeStep, SlotStep DEF IInv
<1>2. CASE UNCHANGED vars
  BY <1>1, <1>2, ElsewhereKeeps DEF vars, IInv, BulkNoted, Persisting
<1> QED BY <1>1, <1>2, RenewKeeps, CallersKeep, WorldKeeps DEF Next, Procs

LEMMA InvInit == Init => IInv
<1> SUFFICES ASSUME Init PROVE IInv
  OBVIOUS
<1>1. TypeOK /\ SlotHeld
  BY TypeInit DEF Init, SlotHeld, Alone
<1>2. /\ db.key = 1 /\ good = {db.rt} \ {0} /\ db.rt \in {0, 1}
      /\ issued = 1 /\ spent = {} /\ bulk.by = Nobody
      /\ \A p \in Procs : ~Persisting(p)
  BY DEF Init, NoBulk, Persisting
<1> QED BY <1>1, <1>2 DEF IInv, Known, BulkNoted, Ahead, Forward, Accepted

(* The storage keeps an accepted refresh token, in any number of workers,    *)
(* through any interleaving of requests, sweeps, imports and stale copies.   *)
THEOREM StoredTokenSurvives == Spec => []StoredTokenAccepted
<1>1. IInv => StoredTokenAccepted
  BY DEF IInv, Accepted, Undisturbed, StoredTokenAccepted, Persisting
<1> QED BY <1>1, InvInit, InvStep, PTL DEF Spec

(* No step replaces the stored entry by an older generation, as long as no   *)
(* slot lapses and nobody imports or rewrites the whole map.                 *)
THEOREM NoRollback == Spec => GenerationsMoveForward
<1>1. ASSUME IInv, [Next]_vars, Without({"lapsed", "rewrite", "import"})',
             db # Absent, db' # Absent
      PROVE  db'.key >= db.key
  <2>0. TypeOK /\ BulkNoted /\ Forward BY <1>1 DEF IInv
  <2>1. CASE \E p \in Procs : Persist(p)
    <3> PICK p \in Procs : Persist(p) BY <2>1
    <3>1. db'.key = got[p].key /\ UNCHANGED happened
      BY <2>0 DEF Persist, KeepDurable, TypeOK, Entry
    <3>2. db.key <= got[p].key
      BY <1>1, <2>0, <3>1 DEF Forward, Persist, At, Persisting, Without
    <3> QED BY <2>0, <3>1, <3>2, NumbersTyped
  <2>2. CASE BulkWrites \/ \E w \in Workers : Import(w)
    BY <1>1, <2>0, <2>2 DEF BulkWrites, Import, BulkNoted, Happens, Without
  <2>3. CASE \/ UNCHANGED db
             \/ db' = [db EXCEPT !.invalid = TRUE]
             \/ db' = Absent
    BY <1>1, <2>0, <2>3, NumbersTyped DEF TypeOK, Entry
  <2>4. CASE UNCHANGED vars BY <2>3, <2>4 DEF vars
  <2>5. CASE Time
    BY <2>3, <2>5 DEF Time, Age, CopyExpires, SsoWaitEnds, SlotExpires
  <2>6. CASE Others
    BY <2>2, <2>3, <2>6
    DEF Others, SlotLapses, ProviderRevokes, Crash, AdminRemoves, BulkReads
  <2>7. ASSUME NEW p \in Procs, Renew(p) PROVE db'.key >= db.key
    BY <2>1, <2>3, <2>7
    DEF Renew, TakeLock, TakeSlot, SlotBusy, Recheck, ExchangeSucceeds, ExchangeLost,
        ExchangeFails, ExchangeRejected, PersistFails, Renewed, Failed, Delete
  <2>8. ASSUME NEW p \in Procs, Request(p) \/ Sweep(p) PROVE db'.key >= db.key
    BY <1>1, <2>3, <2>8
    DEF Request, RequestReads, MarkExpired, Revoked, Sweep, SweepSelects, PurgeSelects,
        Confirm, SsoSucceeds, SsoFails, Invalidate, Kick
  <2> QED BY <1>1, <2>4, <2>5, <2>6, <2>7, <2>8 DEF Next, Procs
<1>2. IInv /\ [Next]_vars =>
        [Without({"lapsed", "rewrite", "import"})' /\ db # Absent /\ db' # Absent
           => db'.key >= db.key]_vars
  BY <1>1
<1> QED BY <1>2, InvInit, InvStep, PTL DEF Spec, GenerationsMoveForward

-----------------------------------------------------------------------------
(* Why a token is condemned only when it is refused.  Trusted is the absence *)
(* of what may bring an entry of unknown age back.  The copies of an entry   *)
(* are all there is of it; the one a process is about to store is not        *)
(* resting yet.  Doomed: somebody condemns the account, or could.            *)

Trusted == Without({"stale", "lapsed", "rewrite", "import"})

Resting ==
  {db} \cup {cache[w] : w \in Workers} \cup {view[p] : p \in Procs}
       \cup {got[p] : p \in {q \in Procs : pc[q] # "persist"}}
Copies == Resting \cup {got[p] : p \in Procs}

Barren == \A e \in Resting : e.rt \notin good

Doomed ==
  \/ \E p \in Procs : pc[p] = "invalidate"
  \/ \E e \in Copies : e # Absent /\ ~e.sso /\ (e.invalid \/ e.rt = 0)

(* The copies differ in their generation only, and one accepted generation   *)
(* at most rests; if the account is still there, the storage has it.         *)
CopiesAgree ==
  /\ \A e \in Copies : e.rt <= issued
  /\ \A e, f \in Copies : e # Absent /\ f # Absent => e.sso = f.sso
  /\ \A e \in Copies : e.invalid => ~e.sso
  /\ \A e, f \in Resting : e.rt \in good /\ f.rt \in good => e.rt = f.rt
  /\ db # Absent => \A e \in Resting : e.rt \in good => db.rt = e.rt

(* What a process knows by its position.                                     *)
PositionsKnow ==
  \A p \in Procs :
    /\ pc[p] \in {"persist", "sso"} => Barren
    /\ pc[p] = "persist" => ~got[p].invalid /\ got[p].rt # 0
    /\ pc[p] = "sso" => got[p].sso
    /\ pc[p] = "exchange" /\ view[p].rt \in good => got[p].rt = view[p].rt
    /\ pc[p] \in {"relock", "reslot", "confirm"} => view[p].rt \notin good

DoomIsJust ==
  Doomed => /\ Barren
            /\ \A p \in Procs : pc[p] # "persist"
            /\ \A e \in Copies : ~e.sso

Refusal == Trusted => CopiesAgree /\ PositionsKnow /\ DoomIsJust

LEMMA CopiesTyped ==
  ASSUME TypeOK
  PROVE  /\ \A e \in Copies : e.rt \in Nat /\ e \in Entry
         /\ Resting \subseteq Copies
         /\ 0 \notin good /\ issued \in Nat /\ Absent.rt = 0
         /\ ~Absent.sso /\ ~Absent.invalid
BY NumbersTyped DEF Copies, Resting, TypeOK, Entry, Absent

LEMMA WhereCopiesAre ==
  ASSUME TypeOK
  PROVE  /\ db \in Resting
         /\ \A w \in Workers : cache[w] \in Resting /\ Read(w) \in Resting
                               /\ Snapshots(w) \subseteq Resting
         /\ \A p \in Procs : /\ view[p] \in Resting /\ got[p] \in Copies
                             /\ pc[p] # "persist" => got[p] \in Resting
BY DEF Copies, Resting, Read, Snapshots

LEMMA TrustStays ==
  ASSUME happened \subseteq happened', Trusted'
  PROVE  Trusted
BY DEF Trusted, Without

(* Where copies come from: nowhere else, or one from one hand.               *)
LEMMA RestingStays ==
  ASSUME NEW S,
         db' \in S, \A w \in Workers : cache'[w] \in S,
         \A q \in Procs : view'[q] \in S,
         \A q \in Procs : pc'[q] # "persist" => got'[q] \in S
  PROVE  Resting' \subseteq S
BY DEF Resting

LEMMA CopiesStay ==
  ASSUME NEW S, Resting' \subseteq S, \A q \in Procs : pc'[q] = "persist" => got'[q] \in S
  PROVE  Copies' \subseteq S
BY DEF Copies, Resting

(* What a process that gets further has found out.                           *)
Justified(q) ==
  /\ pc'[q] = "persist" => pc[q] = "persist" /\ got'[q] = got[q]
  /\ pc'[q] = "sso" =>
       \/ pc[q] = "sso" /\ got'[q] = got[q]
       \/ Barren /\ got'[q].sso
  /\ pc'[q] = "exchange" =>
       \/ pc[q] = "exchange" /\ got'[q] = got[q] /\ view'[q] = view[q]
       \/ view'[q].rt \in good => got'[q].rt = view'[q].rt
  /\ pc'[q] \in {"relock", "reslot", "confirm"} =>
       \/ pc[q] \in {"relock", "reslot", "confirm"} /\ view'[q] = view[q]
       \/ view'[q].rt \notin good
  /\ pc'[q] = "invalidate" => pc[q] = "invalidate" \/ Doomed

(* A step that only copies or drops entries.                                 *)
Copying ==
  /\ happened \subseteq happened'
  /\ issued <= issued' /\ \A g \in good' : g \in good \/ g > issued
  /\ db' \in {db, Absent}
  /\ Resting' \subseteq Resting \cup {Absent}
  /\ \A q \in Procs : pc'[q] = "persist" => pc[q] = "persist" /\ got'[q] = got[q]
  /\ Trusted' => \A q \in Procs : Justified(q)

LEMMA CopyingKeeps ==
  ASSUME IInv, TypeOK', Refusal, Copying
  PROVE  Refusal'
<1> SUFFICES ASSUME Trusted' PROVE (CopiesAgree /\ PositionsKnow /\ DoomIsJust)'
  BY DEF Refusal
<1>0. TypeOK /\ CopiesAgree /\ PositionsKnow /\ DoomIsJust
  BY TrustStays DEF Copying, Refusal, IInv
<1>00. 0 \notin good' /\ issued \in Nat /\ issued' \in Nat
  BY RefreshConstants, <1>0 DEF TypeOK, Gens
<1>1. Copies' \subseteq Copies \cup {Absent}
  <2>1. \A q \in Procs : pc'[q] = "persist" => got'[q] \in Copies \cup {Absent}
    BY <1>0, WhereCopiesAre DEF Copying
  <2>2. Resting' \subseteq Copies \cup {Absent}
    BY <1>0, CopiesTyped DEF Copying
  <2> QED BY <2>1, <2>2, CopiesStay
<1>2. /\ \A e \in Copies \cup {Absent} : e.rt \in Nat /\ e.rt <= issued
      /\ Resting' \subseteq Resting \cup {Absent} /\ Resting \subseteq Copies
      /\ 0 \notin good' /\ issued \in Nat /\ issued' \in Nat /\ issued <= issued'
      /\ Absent.rt = 0 /\ ~Absent.sso /\ ~Absent.invalid
  <2>1. \A e \in Copies : e.rt \in Nat /\ e.rt <= issued
    BY <1>0, CopiesTyped DEF CopiesAgree
  <2> QED BY <1>0, <1>00, <2>1, CopiesTyped DEF Copying
<1>3. /\ \A e \in Resting' : e.rt \in good' => e \in Resting /\ e.rt \in good
      /\ \A e \in Copies : e.rt \in good' => e.rt \in good
  BY <1>0, <1>2, NumbersTyped DEF Copying
<1>4. Barren => Barren'
  BY <1>3 DEF Barren
<1>5. CopiesAgree'
  <2>1. \A e \in Copies' : e.rt <= issued'
    BY <1>1, <1>2
  <2>2. /\ \A e, f \in Copies' : e # Absent /\ f # Absent => e.sso = f.sso
        /\ \A e \in Copies' : e.invalid => ~e.sso
    BY <1>0, <1>1, <1>2 DEF CopiesAgree
  <2>3. /\ \A e, f \in Resting' : e.rt \in good' /\ f.rt \in good' => e.rt = f.rt
        /\ db' # Absent => \A e \in Resting' : e.rt \in good' => db'.rt = e.rt
    BY <1>0, <1>3 DEF CopiesAgree, Copying
  <2> QED BY <2>1, <2>2, <2>3 DEF CopiesAgree
<1>6. PositionsKnow'
  <2> SUFFICES ASSUME NEW p \in Procs
               PROVE  /\ pc'[p] \in {"persist", "sso"} => Barren'
                      /\ pc'[p] = "persist" => ~got'[p].invalid /\ got'[p].rt # 0
                      /\ pc'[p] = "sso" => got'[p].sso
                      /\ pc'[p] = "exchange" /\ view'[p].rt \in good' => got'[p].rt = view'[p].rt
                      /\ pc'[p] \in {"relock", "reslot", "confirm"} => view'[p].rt \notin good'
    BY DEF PositionsKnow
  <2>1. view[p] \in Copies /\ (view'[p].rt \in good' => view'[p].rt \in good)
    BY <1>0, <1>2, <1>3, WhereCopiesAre DEF Resting
  <2> QED BY <1>0, <1>3, <1>4, <2>1 DEF PositionsKnow, Copying, Justified
<1>7. DoomIsJust'
  <2> SUFFICES ASSUME Doomed' PROVE /\ Barren' /\ \A p \in Procs : pc'[p] # "persist"
                                    /\ \A e \in Copies' : ~e.sso
    BY DEF DoomIsJust
  <2>1. Doomed
    BY <1>1 DEF Doomed, Copying, Justified
  <2> QED BY <1>0, <1>1, <1>2, <1>4, <2>1 DEF DoomIsJust, Copying
<1> QED BY <1>5, <1>6, <1>7

(* The process p comes by the next generation, and no other copy is any more *)
(* accepted.                                                                 *)
LEMMA GrantKeepsRefusal ==
  ASSUME IInv, TypeOK', Refusal, NEW p \in Procs, happened' = happened,
         issued' = issued + 1, \A g \in good' : g \in good \/ g = issued + 1,
         pc[p] # "persist", pc' = [pc EXCEPT ![p] = "persist"],
         got' = [got EXCEPT ![p] = NextEntry(got[p])],
         UNCHANGED <<db, cache, view>>,
         Trusted => got[p] # Absent /\ ~Doomed /\ \A e \in Resting : e.rt \notin good'
  PROVE  Refusal'
<1> SUFFICES ASSUME Trusted' PROVE (CopiesAgree /\ PositionsKnow /\ DoomIsJust)'
  BY DEF Refusal
<1>0. /\ TypeOK /\ CopiesAgree /\ PositionsKnow /\ DoomIsJust
      /\ got[p] # Absent /\ ~Doomed /\ \A e \in Resting : e.rt \notin good'
  BY TrustStays DEF Refusal, IInv
<1> DEFINE next == NextEntry(got[p])
<1>1. /\ next.rt = issued + 1 /\ ~next.invalid /\ next.sso = got[p].sso
      /\ got[p] \in Copies
      /\ \A q \in Procs : got'[q] = IF q = p THEN next ELSE got[q]
      /\ \A q \in Procs : pc'[q] = IF q = p THEN "persist" ELSE pc[q]
  <2>1. got[p] \in Entry /\ got[p] \in Copies
    BY <1>0, WhereCopiesAre DEF TypeOK
  <2>2. next.rt = issued + 1 /\ ~next.invalid /\ next.sso = got[p].sso
    BY <2>1 DEF NextEntry, Entry
  <2>3. /\ \A q \in Procs : got'[q] = IF q = p THEN next ELSE got[q]
        /\ \A q \in Procs : pc'[q] = IF q = p THEN "persist" ELSE pc[q]
    BY <1>0 DEF TypeOK
  <2> QED BY <2>1, <2>2, <2>3
<1> HIDE DEF next
<1>2. Resting' \subseteq Resting
  <2>1. \A q \in Procs : pc'[q] # "persist" => got'[q] \in Resting
    BY <1>0, <1>1, WhereCopiesAre
  <2> QED BY <1>0, <2>1, WhereCopiesAre, RestingStays
<1>3. Copies' \subseteq Copies \cup {next}
  <2>1. \A q \in Procs : pc'[q] = "persist" => got'[q] \in Copies \cup {next}
    BY <1>0, <1>1, WhereCopiesAre
  <2>2. Resting' \subseteq Copies \cup {next}
    BY <1>0, <1>2, CopiesTyped
  <2> QED BY <2>1, <2>2, CopiesStay
<1>4. \A e \in Copies' : /\ e \in Copies \/ e = next
                         /\ e.rt <= issued'
  BY <1>0, <1>1, <1>3, CopiesTyped DEF CopiesAgree
<1>5. Barren' /\ \A e \in Resting' : e.rt \notin good'
  BY <1>0, <1>2 DEF Barren
<1>6. CopiesAgree'
  <2>1. \A e, f \in Copies' : e # Absent /\ f # Absent => e.sso = f.sso
    BY <1>0, <1>1, <1>4 DEF CopiesAgree
  <2>2. \A e \in Copies' : e.invalid => ~e.sso
    BY <1>0, <1>1, <1>4 DEF CopiesAgree
  <2> QED BY <1>4, <1>5, <2>1, <2>2 DEF CopiesAgree
<1>7. PositionsKnow'
  <2> SUFFICES ASSUME NEW q \in Procs
               PROVE  /\ pc'[q] = "persist" => ~got'[q].invalid /\ got'[q].rt # 0
                      /\ pc'[q] = "sso" => got'[q].sso
                      /\ view'[q].rt \notin good'
    BY <1>5 DEF PositionsKnow
  <2>1. view'[q].rt \notin good' BY <1>0, WhereCopiesAre
  <2>2. issued + 1 # 0 BY <1>0, CopiesTyped
  <2> QED BY <1>0, <1>1, <2>1, <2>2 DEF PositionsKnow
<1>8. DoomIsJust'
  <2>1. next.rt # 0 BY <1>0, <1>1, CopiesTyped
  <2>2. ~Doomed' BY <1>0, <1>1, <1>4, <2>1 DEF Doomed
  <2> QED BY <2>2 DEF DoomIsJust
<1> QED BY <1>6, <1>7, <1>8

LEMMA PersistKeepsRefusal ==
  ASSUME IInv, TypeOK', Refusal, NEW p \in Procs, Persist(p)
  PROVE  Refusal'
<1> SUFFICES ASSUME Trusted' PROVE (CopiesAgree /\ PositionsKnow /\ DoomIsJust)'
  BY DEF Refusal
<1>0. /\ TypeOK /\ CopiesAgree /\ PositionsKnow /\ DoomIsJust /\ SlotHeld
      /\ happened' = happened /\ good' = good /\ issued' = issued /\ got' = got
      /\ Without({"lapsed"}) /\ pc[p] = "persist"
  BY TrustStays DEF Refusal, IInv, Persist, Trusted, Without, At
<1>1. /\ Barren /\ ~Doomed /\ ~got[p].invalid /\ got[p].rt # 0 /\ got[p] # Absent
  BY <1>0 DEF PositionsKnow, DoomIsJust, Absent
<1>2. db' = got[p]
  <2>1. db = Absent \/ db.sso = got[p].sso
    BY <1>0, <1>1, WhereCopiesAre, CopiesTyped DEF CopiesAgree
  <2>2. got[p].sso \/ db.sso = got[p].sso
    BY <1>0, <2>1, WhereCopiesAre, CopiesTyped DEF TypeOK, Entry
  <2> QED BY <1>0, <2>2 DEF Persist, KeepDurable, TypeOK, Entry
<1>3. \A q \in Procs : /\ pc'[q] = IF q = p THEN "renewed" ELSE pc[q]
                       /\ view'[q] = IF q = p THEN Absent ELSE view[q]
  BY <1>0 DEF Persist, Goto, TypeOK
<1>4. Resting' \subseteq Resting \cup {Absent, got[p]}
  <2>1. \A w \in Workers : cache'[w] \in Resting \cup {Absent}
    BY <1>0, WhereCopiesAre DEF Persist, Forget, TypeOK
  <2>2. \A q \in Procs : pc'[q] # "persist" => got'[q] \in Resting \cup {Absent, got[p]}
    BY <1>0, <1>3, WhereCopiesAre
  <2>3. \A q \in Procs : view'[q] \in Resting \cup {Absent}
    BY <1>0, <1>3, WhereCopiesAre
  <2> QED BY <1>2, <2>1, <2>2, <2>3, RestingStays
<1>5. Copies' \subseteq Copies \cup {Absent}
  <2>1. \A q \in Procs : got'[q] \in Copies
    BY <1>0, WhereCopiesAre
  <2>2. Resting' \subseteq Copies \cup {Absent}
    BY <1>0, <1>4, CopiesTyped, WhereCopiesAre
  <2> QED BY <2>1, <2>2, CopiesStay
<1>6. \A e \in Resting' : e.rt \in good => e.rt = got[p].rt
  BY <1>0, <1>1, <1>4, CopiesTyped DEF Barren
<1>7. CopiesAgree'
  <2>1. \A e \in Copies' : e.rt <= issued'
    <3>1. Absent.rt <= issued BY <1>0, CopiesTyped
    <3> QED BY <1>0, <1>5, <3>1 DEF CopiesAgree
  <2>2. /\ \A e, f \in Copies' : e # Absent /\ f # Absent => e.sso = f.sso
        /\ \A e \in Copies' : e.invalid => ~e.sso
    BY <1>0, <1>5, CopiesTyped DEF CopiesAgree
  <2> QED BY <1>0, <1>2, <1>6, <2>1, <2>2 DEF CopiesAgree
<1>8. PositionsKnow'
  <2>1. \A q \in Procs : q # p => pc[q] \notin Alone
    BY <1>0 DEF SlotHeld, Alone
  <2> QED BY <1>0, <1>3, <2>1 DEF PositionsKnow, Alone
<1>9. DoomIsJust'
  <2>1. ~Doomed' BY <1>1, <1>3, <1>5 DEF Doomed
  <2> QED BY <2>1 DEF DoomIsJust
<1> QED BY <1>7, <1>8, <1>9

(* The processes only pass on what rests, and nobody gets further.           *)
LocalCopies ==
  \A q \in Procs :
    /\ view'[q] \in Resting \cup {Absent}
    /\ pc'[q] # "persist" => got'[q] \in Resting \cup {Absent}
    /\ pc'[q] = "persist" => pc[q] = "persist" /\ got'[q] = got[q]
    /\ Trusted' => Justified(q)

CacheCopies == \A w \in Workers : cache'[w] \in Resting \cup {Absent}

LEMMA CacheIsCopied ==
  ASSUME TypeOK, NEW w \in Workers, NEW e \in Resting,
         \/ cache' = cache \/ cache' = Remember(w, e) \/ cache' = Forget(w)
  PROVE  CacheCopies
BY WhereCopiesAre DEF Remember, Forget, CacheCopies, TypeOK

LEMMA CopiesOnly ==
  ASSUME TypeOK, LocalCopies, CacheCopies, happened \subseteq happened',
         \/ issued' = issued /\ good' \subseteq good
         \/ issued' = issued + 1 /\ good' \subseteq good \cup {issued + 1},
         db' \in {db, Absent}
  PROVE  Copying
<1>1. issued \in Nat BY CopiesTyped
<1>2. issued <= issued' /\ \A g \in good' : g \in good \/ g > issued
  BY <1>1
<1>3. Resting' \subseteq Resting \cup {Absent}
  BY WhereCopiesAre, RestingStays DEF LocalCopies, CacheCopies
<1> QED BY <1>2, <1>3 DEF Copying, LocalCopies

LEMMA MoveCopies ==
  ASSUME TypeOK, NEW p \in Procs, UNCHANGED got, pc[p] # "persist",
         NEW e \in Resting, view' = view \/ view' = [view EXCEPT ![p] = e],
         NEW to \in Positions, pc' = [pc EXCEPT ![p] = to],
         \/ to \notin {"persist", "sso", "exchange", "relock", "reslot", "confirm", "invalidate"}
         \/ /\ to \in {"reslot", "confirm"} /\ view' = view
            /\ pc[p] \in {"relock", "reslot", "confirm"}
  PROVE  LocalCopies
<1>1. \A q \in Procs : /\ pc'[q] = IF q = p THEN to ELSE pc[q]
                       /\ view'[q] \in Resting
                       /\ q # p => view'[q] = view[q]
  BY WhereCopiesAre DEF TypeOK
<1>2. \A q \in Procs : got'[q] = got[q] /\ (pc'[q] # "persist" => got'[q] \in Resting)
  BY <1>1, WhereCopiesAre
<1>3. ASSUME NEW q \in Procs, q # p
      PROVE  pc'[q] = pc[q] /\ view'[q] = view[q] /\ got'[q] = got[q]
  BY <1>1, <1>3
<1>4. /\ pc'[p] \notin {"persist", "sso", "exchange", "invalidate"}
      /\ pc'[p] \in {"relock", "reslot", "confirm"} =>
           pc[p] \in {"relock", "reslot", "confirm"} /\ view'[p] = view[p]
  BY <1>1
<1> QED BY <1>1, <1>2, <1>3, <1>4 DEF LocalCopies, Justified

LEMMA DropCopies ==
  ASSUME TypeOK, NEW p \in Procs,
         got' = [got EXCEPT ![p] = Absent],
         \E e \in Resting \cup {Absent} : view' = [view EXCEPT ![p] = e],
         NEW to \in Positions, pc' = [pc EXCEPT ![p] = to],
         to \notin {"persist", "sso", "exchange", "relock", "reslot", "confirm", "invalidate"}
  PROVE  LocalCopies
<1>1. \A q \in Procs : /\ pc'[q] = IF q = p THEN to ELSE pc[q]
                       /\ got'[q] = IF q = p THEN Absent ELSE got[q]
                       /\ view'[q] \in Resting \cup {Absent}
                       /\ q # p => view'[q] = view[q]
  BY WhereCopiesAre DEF TypeOK
<1> QED BY <1>1, WhereCopiesAre DEF LocalCopies, Justified

LEMMA RestCopies ==
  ASSUME TypeOK, NEW p \in Procs, Rest(p)
  PROVE  LocalCopies
BY DropCopies DEF Rest, Goto, Positions

LEMMA GiveBackCopies ==
  ASSUME TypeOK, NEW p \in Procs, NEW e \in Resting, GiveBack(p, e)
  PROVE  LocalCopies
<1>1. CASE Rest(p) BY <1>1, RestCopies
<1>2. CASE ~Rest(p)
  <2>1. PICK to \in {"lock", "delete"} :
          /\ pc' = [pc EXCEPT ![p] = to]
          /\ view' = [view EXCEPT ![p] = e] /\ got' = [got EXCEPT ![p] = Absent]
    BY <1>2 DEF GiveBack, Goto
  <2>2. to \in Positions
        /\ to \notin {"persist", "sso", "exchange", "relock", "reslot", "confirm", "invalidate"}
    BY DEF Positions
  <2> QED BY <2>1, <2>2, DropCopies
<1> QED BY <1>1, <1>2

LEMMA RecheckRefusal ==
  ASSUME IInv, Refusal, NEW p \in Procs, Recheck(p)
  PROVE  Copying
<1> DEFINE e == Read(Home[p])
<1>0. TypeOK /\ e \in Resting /\ pc[p] = "recheck"
  BY WhereCopiesAre, HomeTyped DEF IInv, Recheck, At
<1>1. CacheCopies
  BY <1>0, CacheIsCopied, HomeTyped DEF Recheck
<1>2. /\ happened \subseteq happened'
      /\ Trusted' => e = db
      /\ UNCHANGED <<db, good, issued>>
  BY DEF Recheck, NoteStale, Trusted, Without
<1>3. CASE GiveBack(p, e)
  BY <1>0, <1>1, <1>2, <1>3, GiveBackCopies, CopiesOnly
<1>4. CASE ~GiveBack(p, e)
  <2>1. /\ got' = [got EXCEPT ![p] = IF e = Absent THEN view[p] ELSE e]
        /\ pc' = [pc EXCEPT ![p] = "exchange"] /\ view' = view
    BY <1>4 DEF Recheck, Goto
  <2>2. /\ got'[p] = (IF e = Absent THEN view[p] ELSE e) /\ got'[p] \in Resting
        /\ pc'[p] = "exchange"
        /\ \A q \in Procs : q # p => pc'[q] = pc[q] /\ got'[q] = got[q]
    BY <1>0, <2>1, WhereCopiesAre DEF TypeOK
  <2>3. Trusted' /\ view[p].rt \in good => got'[p].rt = view[p].rt
    <3> SUFFICES ASSUME Trusted', view[p].rt \in good, e # Absent
                 PROVE  e.rt = view[p].rt
      BY <2>2
    <3>1. CopiesAgree BY <1>2, TrustStays DEF Refusal
    <3> QED BY <1>0, <1>2, <3>1, WhereCopiesAre DEF CopiesAgree
  <2>4. LocalCopies
    BY <1>0, <2>1, <2>2, <2>3, WhereCopiesAre DEF LocalCopies, Justified
  <2> QED BY <1>0, <1>1, <1>2, <2>4, CopiesOnly
<1> QED BY <1>3, <1>4

LEMMA RejectedRefusal ==
  ASSUME IInv, Refusal, NEW p \in Procs, ExchangeRejected(p)
  PROVE  Copying
<1>0. /\ TypeOK /\ pc[p] = "exchange" /\ got[p].rt # 0 /\ Rejected(got[p])
      /\ UNCHANGED <<db, cache, good, issued, happened, view>>
  BY DEF IInv, ExchangeRejected, At
<1>1. CacheCopies BY <1>0, WhereCopiesAre DEF CacheCopies
<1>2. PICK to \in {"relock", "revoked"} :
        pc' = [pc EXCEPT ![p] = to] /\ got' = [got EXCEPT ![p] = Absent]
  BY DEF ExchangeRejected, Goto
<1>3. Trusted' => view[p].rt \notin good
  <2> SUFFICES ASSUME Trusted' PROVE view[p].rt \notin good
    OBVIOUS
  <2>1. CopiesAgree /\ PositionsKnow /\ DoomIsJust
    BY <1>0, TrustStays DEF Refusal
  <2>2. CASE got[p].rt \notin good
    BY <1>0, <2>1, <2>2 DEF PositionsKnow
  <2>3. CASE got[p].invalid
    <3>1. got[p] \in Copies /\ ~got[p].sso /\ got[p] # Absent
      BY <1>0, <2>1, <2>3, WhereCopiesAre, CopiesTyped DEF CopiesAgree
    <3>2. Barren BY <2>1, <2>3, <3>1 DEF Doomed, DoomIsJust
    <3> QED BY <1>0, <3>2, WhereCopiesAre DEF Barren
  <2> QED BY <1>0, <2>2, <2>3 DEF Rejected
<1>4. /\ pc'[p] \in {"relock", "revoked"} /\ got'[p] = Absent
      /\ \A q \in Procs : q # p => pc'[q] = pc[q] /\ got'[q] = got[q]
  BY <1>0, <1>2 DEF TypeOK
<1>5. LocalCopies
  BY <1>0, <1>3, <1>4, WhereCopiesAre DEF LocalCopies, Justified
<1> QED BY <1>0, <1>1, <1>5, CopiesOnly

LEMMA RenewRefuses ==
  ASSUME IInv, TypeOK', Refusal, NEW p \in Procs, Renew(p)
  PROVE  Refusal'
<1>0. /\ TypeOK /\ Read(Home[p]) \in Resting /\ view[p] \in Resting
      /\ pc[p] # "persist" => got[p] \in Resting
      /\ Home[p] \in Workers /\ db \in Resting
  BY WhereCopiesAre, HomeTyped DEF IInv
<1>1. cache' = cache => CacheCopies
  BY <1>0, CacheIsCopied
<1>2. CASE TakeLock(p) \/ TakeSlot(p)
  <2>1. PICK to \in {"slot", "reslot", "recheck", "confirm"} :
          /\ pc' = [pc EXCEPT ![p] = to] /\ UNCHANGED <<db, cache, good, issued, view, got, happened>>
          /\ pc[p] # "persist"
          /\ to \in {"reslot", "confirm"} => pc[p] \in {"relock", "reslot"}
    BY <1>2 DEF TakeLock, TakeSlot, Goto, At
  <2>2. to \in Positions BY DEF Positions
  <2>3. LocalCopies BY <1>0, <2>1, <2>2, MoveCopies
  <2> QED BY <1>0, <1>1, <2>1, <2>3, CopiesOnly, CopyingKeeps
<1>3. CASE SlotBusy(p)
  <2>1. LocalCopies
    BY <1>0, <1>3, GiveBackCopies, RestCopies DEF SlotBusy
  <2>2. CacheCopies
    BY <1>0, <1>3, CacheIsCopied DEF SlotBusy
  <2>3. UNCHANGED <<db, good, issued, happened>> BY <1>3 DEF SlotBusy
  <2> QED BY <1>0, <2>1, <2>2, <2>3, CopiesOnly, CopyingKeeps
<1>4. CASE Recheck(p)
  BY <1>4, RecheckRefusal, CopyingKeeps
<1>5. CASE ExchangeSucceeds(p)
  <2>1. /\ happened' = happened /\ issued' = issued + 1 /\ UNCHANGED <<db, cache, view>>
        /\ good' = (good \ {got[p].rt}) \cup {issued + 1}
        /\ pc[p] = "exchange" /\ pc' = [pc EXCEPT ![p] = "persist"]
        /\ got' = [got EXCEPT ![p] = NextEntry(got[p])]
        /\ got[p].rt # 0 /\ got[p].rt \in good
    BY <1>5 DEF ExchangeSucceeds, Exchanged, At, Goto, Rejected
  <2>2. ASSUME Trusted
        PROVE  got[p] # Absent /\ ~Doomed /\ \A e \in Resting : e.rt \notin good'
    <3>1. CopiesAgree /\ DoomIsJust /\ got[p] \in Resting
      BY <1>0, <2>1, <2>2 DEF Refusal
    <3>2. got[p] # Absent BY <1>0, <2>1, CopiesTyped
    <3>3. ~Doomed BY <2>1, <3>1 DEF DoomIsJust, Barren
    <3>4. ASSUME NEW e \in Resting PROVE e.rt \notin good'
      <4>1. e.rt \in Nat /\ e.rt <= issued /\ issued \in Nat
        BY <1>0, <3>1, CopiesTyped DEF CopiesAgree
      <4>2. e.rt # issued + 1 BY <4>1
      <4> QED BY <2>1, <3>1, <4>2 DEF CopiesAgree
    <3> QED BY <3>2, <3>3, <3>4
  <2>3. /\ \A g \in good' : g \in good \/ g = issued + 1
        /\ pc[p] # "persist"
    BY <2>1
  <2> QED BY <2>1, <2>2, <2>3, GrantKeepsRefusal
<1>6. CASE ExchangeLost(p) \/ ExchangeFails(p)
  <2>1. /\ pc' = [pc EXCEPT ![p] = "failed"] /\ got' = [got EXCEPT ![p] = Absent]
        /\ view' = [view EXCEPT ![p] = view[p]]
        /\ happened \subseteq happened' /\ UNCHANGED <<db, cache>>
        /\ \/ issued' = issued /\ good' \subseteq good
           \/ issued' = issued + 1 /\ good' \subseteq good \cup {issued + 1}
    BY <1>0, <1>6 DEF ExchangeLost, ExchangeFails, Goto, Exchanged, Happens, TypeOK
  <2>2. LocalCopies BY <1>0, <2>1, DropCopies DEF Positions
  <2> QED BY <1>0, <1>1, <2>1, <2>2, CopiesOnly, CopyingKeeps
<1>7. CASE ExchangeRejected(p)
  BY <1>7, RejectedRefusal, CopyingKeeps
<1>8. CASE Persist(p)
  BY <1>8, PersistKeepsRefusal
<1>9. CASE PersistFails(p)
  <2>1. UNCHANGED <<db, cache, good, issued>> /\ happened \subseteq happened'
    BY <1>9 DEF PersistFails, Happens
  <2>2. LocalCopies
    <3>1. CASE Rest(p) BY <1>0, <3>1, RestCopies
    <3>2. CASE ~Rest(p)
      <4>1. /\ pc' = [pc EXCEPT ![p] = "failed"] /\ got' = [got EXCEPT ![p] = Absent]
            /\ view' = [view EXCEPT ![p] = view[p]]
        BY <1>0, <1>9, <3>2 DEF PersistFails, Goto, TypeOK
      <4> QED BY <1>0, <4>1, DropCopies DEF Positions
    <3> QED BY <3>1, <3>2
  <2> QED BY <1>0, <1>1, <2>1, <2>2, CopiesOnly, CopyingKeeps
<1>10. CASE Renewed(p) \/ Failed(p)
  <2>1. UNCHANGED <<db, cache, good, issued, happened>> /\ pc[p] # "persist"
    BY <1>10 DEF Renewed, Failed, At
  <2>2. LocalCopies
    BY <1>0, <1>10, <2>1, GiveBackCopies, RestCopies DEF Renewed, Failed
  <2> QED BY <1>0, <1>1, <2>1, <2>2, CopiesOnly, CopyingKeeps
<1>11. CASE Delete(p)
  <2>1. /\ UNCHANGED <<good, issued>> /\ happened \subseteq happened' /\ db' = Absent
        /\ cache' = Forget(Home[p])
    BY <1>11 DEF Delete
  <2>2. LocalCopies /\ CacheCopies
    BY <1>0, <1>11, <2>1, RestCopies, CacheIsCopied DEF Delete
  <2> QED BY <1>0, <2>1, <2>2, CopiesOnly, CopyingKeeps
<1> QED
  BY <1>2, <1>3, <1>4, <1>5, <1>6, <1>7, <1>8, <1>9, <1>10, <1>11 DEF Renew

LEMMA ConfirmRefuses ==
  ASSUME IInv, TypeOK', Refusal, NEW p \in Sweeps, Confirm(p)
  PROVE  Refusal'
<1> DEFINE e == Read(Home[p])
<1>0. /\ TypeOK /\ e \in Resting /\ e \in Entry /\ pc[p] = "confirm" /\ p \in Procs
      /\ UNCHANGED <<db, good, issued>>
  BY WhereCopiesAre, HomeTyped, ReadTyped DEF IInv, Confirm, At, Procs
<1>1. CacheCopies
  BY <1>0, CacheIsCopied, HomeTyped DEF Confirm
<1>2. /\ happened \subseteq happened'
      /\ Trusted' => e = db
  BY DEF Confirm, NoteStale, Trusted, Without
<1>3. CASE Rest(p)
  BY <1>0, <1>1, <1>2, <1>3, RestCopies, CopiesOnly, CopyingKeeps
<1>4. CASE ~Rest(p)
  <2>1. /\ e # Absent /\ e.rt = view[p].rt /\ slot' = slot
        /\ view' = [view EXCEPT ![p] = Absent]
        /\ \/ e.sso /\ pc' = [pc EXCEPT ![p] = "sso"] /\ got' = [got EXCEPT ![p] = e]
           \/ /\ ~e.sso /\ got' = [got EXCEPT ![p] = Absent]
              /\ \/ pc' = [pc EXCEPT ![p] = "delete"]
                 \/ pc' = [pc EXCEPT ![p] = "invalidate"]
    BY <1>4 DEF Confirm, Changed, Goto
  <2>2. \A q \in Procs :
          /\ view'[q] = IF q = p THEN Absent ELSE view[q]
          /\ q # p => pc'[q] = pc[q] /\ got'[q] = got[q]
    BY <1>0, <2>1 DEF TypeOK
  <2>3. Trusted' => Barren
    <3> SUFFICES ASSUME Trusted' PROVE Barren
      OBVIOUS
    <3>1. CopiesAgree /\ PositionsKnow BY <1>2, TrustStays DEF Refusal
    <3>2. db # Absent /\ db.rt \notin good
      BY <1>0, <1>2, <2>1, <3>1 DEF PositionsKnow
    <3> QED BY <3>1, <3>2 DEF CopiesAgree, Barren
  <2>4. CASE pc'[p] \in {"sso", "delete"}
    <3>1. /\ got'[p] \in {e, Absent}
          /\ pc'[p] = "sso" => got'[p].sso
      BY <1>0, <2>1, <2>4 DEF TypeOK
    <3>2. LocalCopies
      BY <1>0, <2>2, <2>3, <2>4, <3>1, WhereCopiesAre DEF LocalCopies, Justified
    <3> QED BY <1>0, <1>1, <1>2, <3>2, CopiesOnly, CopyingKeeps
  <2>5. CASE pc' = [pc EXCEPT ![p] = "invalidate"] /\ ~e.sso
             /\ got' = [got EXCEPT ![p] = Absent]
    <3> SUFFICES ASSUME Trusted' PROVE (CopiesAgree /\ PositionsKnow /\ DoomIsJust)'
      BY DEF Refusal
    <3>0. CopiesAgree /\ PositionsKnow /\ Barren /\ e = db /\ SlotHeld /\ Without({"lapsed"})
      BY <1>2, <2>3, TrustStays DEF Refusal, IInv, Trusted, Without
    <3>1. \A q \in Procs : /\ pc'[q] = IF q = p THEN "invalidate" ELSE pc[q]
                           /\ got'[q] = IF q = p THEN Absent ELSE got[q]
      BY <1>0, <2>5 DEF TypeOK
    <3>2. \A q \in Procs : q # p => pc[q] \notin Alone
      BY <1>0, <3>0 DEF SlotHeld, Alone
    <3>3. Resting' \subseteq Resting \cup {Absent}
      <4>1. \A q \in Procs : pc'[q] # "persist" => got'[q] \in Resting \cup {Absent}
        BY <1>0, <3>1, <3>2, WhereCopiesAre DEF Alone
      <4>2. /\ \A q \in Procs : view'[q] \in Resting \cup {Absent}
            /\ db' \in Resting \cup {Absent}
        BY <1>0, <2>2, WhereCopiesAre
      <4> QED BY <1>1, <4>1, <4>2, RestingStays DEF CacheCopies
    <3>4. Copies' \subseteq Copies \cup {Absent}
      <4>1. \A q \in Procs : got'[q] \in Copies \cup {Absent}
        BY <1>0, <3>1, WhereCopiesAre
      <4>2. Resting' \subseteq Copies \cup {Absent}
        BY <1>0, <3>3, CopiesTyped
      <4> QED BY <4>1, <4>2, CopiesStay
    <3>5. \A x \in Resting' : x.rt \notin good'
      BY <1>0, <3>0, <3>3, CopiesTyped DEF Barren
    <3>6. \A x \in Copies : ~x.sso
      BY <1>0, <2>1, <2>5, <3>0, WhereCopiesAre, CopiesTyped DEF CopiesAgree
    <3>7. CopiesAgree'
      <4>1. Absent.rt <= issued BY <1>0, CopiesTyped
      <4>2. \A x \in Copies' : x.rt <= issued' /\ ~x.sso
        BY <1>0, <3>0, <3>4, <3>6, <4>1, CopiesTyped DEF CopiesAgree
      <4>3. \A x \in Copies' : x.sso = FALSE
        <5>1. \A x \in Copies : x.sso = FALSE
          BY <1>0, <3>6, CopiesTyped DEF Entry
        <5> QED BY <3>4, <5>1 DEF Absent
      <4> QED BY <3>5, <4>2, <4>3 DEF CopiesAgree
    <3>8. PositionsKnow'
      <4>1. Barren' BY <3>5 DEF Barren
      <4>2. \A q \in Procs : view'[q].rt \notin good'
        BY <3>5 DEF Resting
      <4>3. \A q \in Procs : pc'[q] \notin {"persist", "sso"}
        BY <3>1, <3>2 DEF Alone
      <4> QED BY <4>1, <4>2, <4>3 DEF PositionsKnow
    <3>9. DoomIsJust'
      <4>1. \A q \in Procs : pc'[q] # "persist"
        BY <3>1, <3>2 DEF Alone
      <4> QED BY <1>0, <3>4, <3>5, <3>6, <4>1, CopiesTyped DEF DoomIsJust, Barren
    <3> QED BY <3>7, <3>8, <3>9
  <2> QED
    BY <1>0, <2>1, <2>4, <2>5 DEF TypeOK
<1> QED BY <1>3, <1>4

LEMMA InvalidateRefuses ==
  ASSUME IInv, TypeOK', Refusal, NEW p \in Procs, Invalidate(p)
  PROVE  Refusal'
<1> SUFFICES ASSUME Trusted' PROVE (CopiesAgree /\ PositionsKnow /\ DoomIsJust)'
  BY DEF Refusal
<1>0. /\ TypeOK /\ CopiesAgree /\ PositionsKnow /\ DoomIsJust /\ Doomed
      /\ UNCHANGED <<good, issued, view, got>>
  BY TrustStays DEF Refusal, IInv, Invalidate, At, Doomed
<1>1. Barren /\ \A e \in Copies : ~e.sso
  BY <1>0 DEF DoomIsJust
<1>2. \A q \in Procs : /\ pc[q] # "persist" /\ pc'[q] # "persist"
                       /\ pc'[q] = IF q = p THEN "kick" ELSE pc[q]
  BY <1>0 DEF DoomIsJust, Invalidate, Goto, TypeOK
<1>3. db'.rt = db.rt /\ ~db'.sso
  BY <1>0, <1>1, WhereCopiesAre, CopiesTyped DEF Invalidate, TypeOK, Entry
<1>4. Resting' \subseteq Resting \cup {Absent, db'}
  <2>1. /\ \A q \in Procs : view'[q] \in Resting /\ got'[q] \in Resting
        /\ \A w \in Workers : cache'[w] \in Resting \cup {Absent}
    BY <1>0, <1>2, WhereCopiesAre DEF Invalidate, Forget, TypeOK
  <2> QED BY <2>1, RestingStays
<1>5. Copies' \subseteq Copies \cup {Absent, db'}
  <2>1. Resting' \subseteq Copies \cup {Absent, db'}
    BY <1>0, <1>4, CopiesTyped
  <2> QED BY <1>2, <2>1, CopiesStay
<1>6. \A x \in Resting' : x.rt \notin good'
  BY <1>0, <1>1, <1>3, <1>4, WhereCopiesAre, CopiesTyped DEF Barren
<1>7. \A x \in Copies' : x.rt <= issued' /\ ~x.sso
  <2>1. Absent.rt <= issued /\ db.rt <= issued
    BY <1>0, WhereCopiesAre, CopiesTyped DEF CopiesAgree
  <2> QED BY <1>0, <1>1, <1>3, <1>5, <2>1, CopiesTyped DEF CopiesAgree
<1>8. CopiesAgree'
  <2>1. \A e, f \in Copies' : e.sso = f.sso
    <3>1. \A e \in Copies' : e.sso = FALSE
      <4>1. \A e \in Copies : e.sso = FALSE
        BY <1>0, <1>1, CopiesTyped DEF Entry
      <4>2. db'.sso = FALSE
        BY <1>3 DEF TypeOK, Entry
      <4> QED BY <1>5, <4>1, <4>2 DEF Absent
    <3> QED BY <3>1
  <2> QED BY <1>6, <1>7, <2>1 DEF CopiesAgree
<1>9. PositionsKnow'
  <2>1. Barren' BY <1>6 DEF Barren
  <2>2. \A q \in Procs : view'[q].rt \notin good'
    BY <1>6 DEF Resting
  <2> QED BY <1>0, <1>2, <2>1, <2>2 DEF PositionsKnow
<1>10. DoomIsJust'
  BY <1>2, <1>6, <1>7 DEF DoomIsJust, Barren
<1> QED BY <1>8, <1>9, <1>10

LEMMA CallersRefuse ==
  ASSUME IInv, TypeOK', Refusal, NEW p \in Procs,
         Request(p) \/ (p \in Sweeps /\ Sweep(p))
  PROVE  Refusal'
<1>0. /\ TypeOK /\ Read(Home[p]) \in Resting /\ view[p] \in Resting
      /\ Home[p] \in Workers /\ db \in Resting /\ Snapshots(Home[p]) \subseteq Resting
  BY WhereCopiesAre, HomeTyped DEF IInv
<1>1. cache' = cache => CacheCopies
  BY <1>0, CacheIsCopied
<1>2. CASE RequestReads(p) \/ MarkExpired(p)
  <2>1. PICK to \in {"mark", "lock", "delete"} :
          /\ pc' = [pc EXCEPT ![p] = to] /\ UNCHANGED <<db, good, issued, got, happened>>
          /\ pc[p] # "persist"
          /\ view' = view \/ view' = [view EXCEPT ![p] = Read(Home[p])]
          /\ cache' = cache \/ cache' = Remember(Home[p], Read(Home[p]))
    BY <1>2 DEF RequestReads, MarkExpired, Goto, At
  <2>2. to \in Positions BY DEF Positions
  <2>3. LocalCopies BY <1>0, <2>1, <2>2, MoveCopies
  <2>4. CacheCopies BY <1>0, <2>1, CacheIsCopied
  <2> QED BY <1>0, <2>1, <2>3, <2>4, CopiesOnly, CopyingKeeps
<1>3. CASE Revoked(p)
  <2>1. /\ UNCHANGED <<db, good, issued, happened>> /\ pc[p] = "revoked"
        /\ cache' = cache \/ cache' = Remember(Home[p], Read(Home[p]))
    BY <1>3 DEF Revoked, At
  <2>2. LocalCopies
    <3>1. CASE Goto(p, "delete") /\ UNCHANGED <<view, got>>
      BY <1>0, <2>1, <3>1, MoveCopies DEF Goto, Positions
    <3>2. CASE Rest(p) \/ GiveBack(p, Read(Home[p]))
      BY <1>0, <3>2, RestCopies, GiveBackCopies
    <3> QED BY <1>3, <3>1, <3>2 DEF Revoked
  <2>3. CacheCopies BY <1>0, <2>1, CacheIsCopied
  <2> QED BY <1>0, <2>1, <2>2, <2>3, CopiesOnly, CopyingKeeps
<1>4. CASE SweepSelects(p)
  <2>1. UNCHANGED <<db, cache, good, issued, got, happened>> /\ pc[p] = "idle"
    BY <1>4 DEF SweepSelects, At
  <2>2. LocalCopies
    <3>1. CASE UNCHANGED <<view, pc>>
      BY <1>0, <2>1, <3>1, WhereCopiesAre DEF LocalCopies, Justified
    <3>2. CASE \E e \in Snapshots(Home[p]) :
                 /\ view' = [view EXCEPT ![p] = e]
                 /\ pc' = [pc EXCEPT ![p] = IF e.rt = 0 THEN "relock" ELSE "lock"]
      <4> PICK e \in Snapshots(Home[p]) :
                 /\ view' = [view EXCEPT ![p] = e]
                 /\ pc' = [pc EXCEPT ![p] = IF e.rt = 0 THEN "relock" ELSE "lock"]
        BY <3>2
      <4>1. e \in Resting BY <1>0
      <4>2. /\ pc'[p] = (IF e.rt = 0 THEN "relock" ELSE "lock") /\ view'[p] = e
            /\ \A q \in Procs : q # p => pc'[q] = pc[q] /\ view'[q] = view[q]
        BY <1>0 DEF TypeOK
      <4>3. pc'[p] = "relock" => view'[p].rt \notin good
        BY <1>0, <4>2, CopiesTyped
      <4> QED
        BY <1>0, <2>1, <4>1, <4>2, <4>3, WhereCopiesAre DEF LocalCopies, Justified
    <3> QED BY <1>4, <3>1, <3>2 DEF SweepSelects, Goto
  <2> QED BY <1>0, <1>1, <2>1, <2>2, CopiesOnly, CopyingKeeps
<1>5. CASE PurgeSelects(p)
  <2>1. /\ UNCHANGED <<db, cache, good, issued, got, view, happened>> /\ pc[p] = "idle"
        /\ pc' = [pc EXCEPT ![p] = IF HardDelete THEN "delete" ELSE "invalidate"]
    BY <1>5 DEF PurgeSelects, At, Goto
  <2>2. Doomed
    <3> PICK e \in Snapshots(Home[p]) : e # Absent /\ ~e.sso /\ (e.invalid \/ e.rt = 0)
      BY <1>5 DEF PurgeSelects
    <3> QED BY <1>0, CopiesTyped DEF Doomed
  <2>3. LocalCopies
    <3>1. /\ pc'[p] \in {"delete", "invalidate"}
          /\ \A q \in Procs : q # p => pc'[q] = pc[q]
      BY <1>0, <2>1 DEF TypeOK
    <3> QED BY <1>0, <2>1, <2>2, <3>1, WhereCopiesAre DEF LocalCopies, Justified
  <2> QED BY <1>0, <1>1, <2>1, <2>3, CopiesOnly, CopyingKeeps
<1>6. CASE p \in Sweeps /\ Confirm(p)
  BY <1>6, ConfirmRefuses
<1>7. CASE SsoSucceeds(p)
  <2>1. /\ happened' = happened /\ issued' = issued + 1 /\ UNCHANGED <<db, cache, view>>
        /\ good' = good \cup {issued + 1}
        /\ pc[p] = "sso" /\ pc' = [pc EXCEPT ![p] = "persist"]
        /\ got' = [got EXCEPT ![p] = NextEntry(got[p])]
    BY <1>0, <1>7 DEF SsoSucceeds, At, Goto, TypeOK
  <2>2. ASSUME Trusted
        PROVE  got[p] # Absent /\ ~Doomed /\ \A e \in Resting : e.rt \notin good'
    <3>1. CopiesAgree /\ DoomIsJust /\ got[p] \in Copies /\ got[p].sso /\ Barren
      BY <1>0, <2>1, <2>2, WhereCopiesAre DEF Refusal, PositionsKnow
    <3>2. got[p] # Absent BY <1>0, <3>1, CopiesTyped
    <3>3. ~Doomed BY <3>1 DEF DoomIsJust
    <3>4. ASSUME NEW e \in Resting PROVE e.rt \notin good'
      <4>1. e.rt \in Nat /\ e.rt <= issued /\ issued \in Nat
        BY <1>0, <3>1, CopiesTyped DEF CopiesAgree
      <4>2. e.rt # issued + 1 BY <4>1
      <4> QED BY <2>1, <3>1, <4>2 DEF Barren
    <3> QED BY <3>2, <3>3, <3>4
  <2>3. /\ \A g \in good' : g \in good \/ g = issued + 1
        /\ pc[p] # "persist"
    BY <2>1
  <2> QED BY <2>1, <2>2, <2>3, GrantKeepsRefusal
<1>8. CASE SsoFails(p) \/ Kick(p)
  <2>1. UNCHANGED <<db, cache, good, issued, happened>> /\ Rest(p)
    BY <1>8 DEF SsoFails, Kick
  <2> QED BY <1>0, <1>1, <2>1, RestCopies, CopiesOnly, CopyingKeeps
<1>9. CASE Invalidate(p)
  BY <1>9, InvalidateRefuses
<1> QED
  BY <1>2, <1>3, <1>4, <1>5, <1>6, <1>7, <1>8, <1>9 DEF Request, Sweep

LEMMA WorldRefuses ==
  ASSUME IInv, TypeOK', Refusal, Time \/ Others
  PROVE  Refusal'
<1>0. TypeOK /\ BulkNoted /\ db \in Resting BY WhereCopiesAre DEF IInv
<1>1. CASE BulkWrites \/ SlotLapses \/ \E w \in Workers : Import(w) \/ BulkReads(w)
  <2>1. ~Trusted'
    BY <1>0, <1>1 DEF BulkWrites, SlotLapses, Import, BulkReads, Happens, BulkNoted,
                      Trusted, Without
  <2> QED BY <2>1 DEF Refusal
<1>2. CASE UNCHANGED <<pc, view, got>> /\ ~BulkWrites /\ ~SlotLapses
           /\ ~\E w \in Workers : Import(w) \/ BulkReads(w)
  <2>1. LocalCopies
    BY <1>0, <1>2, WhereCopiesAre DEF LocalCopies, Justified
  <2>2. /\ happened \subseteq happened' /\ issued' = issued /\ good' \subseteq good
        /\ db' \in {db, Absent}
        /\ cache' = cache \/ \E w \in Workers : cache' = Forget(w)
    BY <1>2 DEF Time, Age, CopyExpires, SsoWaitEnds, SlotExpires, Others, ProviderRevokes,
                Crash, AdminRemoves, Happens
  <2>3. CacheCopies
    BY <1>0, <2>2, WhereCopiesAre DEF CacheCopies, Forget, TypeOK
  <2> QED BY <1>0, <2>1, <2>2, <2>3, CopiesOnly, CopyingKeeps
<1>3. ASSUME NEW w \in Workers, Crash(w) PROVE Refusal'
  <2>1. LocalCopies
    BY <1>0, <1>3, WhereCopiesAre DEF Crash, LocalCopies, Justified
  <2>2. /\ happened \subseteq happened' /\ UNCHANGED <<issued, good, db>>
        /\ cache' = Forget(w)
    BY <1>3 DEF Crash, Happens
  <2>3. CacheCopies BY <1>0, <2>2, CacheIsCopied
  <2> QED BY <1>0, <2>1, <2>2, <2>3, CopiesOnly, CopyingKeeps
<1>4. CASE Time
  BY <1>1, <1>2, <1>4 DEF Time, Age, CopyExpires, SsoWaitEnds, SlotExpires
<1>5. CASE Others
  BY <1>1, <1>2, <1>3, <1>5 DEF Others, ProviderRevokes, AdminRemoves
<1> QED BY <1>4, <1>5

LEMMA RefusalStep ==
  ASSUME IInv, Refusal, [Next]_vars
  PROVE  Refusal'
<1>1. TypeOK' BY InvStep DEF IInv
<1>2. CASE UNCHANGED vars
  <2>1. Resting' = Resting
    BY <1>2 DEF vars, Resting
  <2>2. Copies' = Copies
    BY <1>2, <2>1 DEF vars, Copies
  <2>3. CopiesAgree' = CopiesAgree /\ (Barren' <=> Barren) /\ (Trusted' <=> Trusted)
    BY <1>2, <2>1, <2>2 DEF vars, CopiesAgree, Barren, Trusted, Without
  <2>4. (PositionsKnow' <=> PositionsKnow) /\ (Doomed' <=> Doomed)
    BY <1>2, <2>2, <2>3 DEF vars, PositionsKnow, Doomed
  <2>5. DoomIsJust' <=> DoomIsJust
    BY <1>2, <2>2, <2>3, <2>4 DEF vars, DoomIsJust
  <2> QED BY <2>3, <2>4, <2>5 DEF Refusal
<1> QED BY <1>1, <1>2, RenewRefuses, CallersRefuse, WorldRefuses DEF Next, Procs

LEMMA RefusalInit == Init => Refusal
<1> SUFFICES ASSUME Init PROVE CopiesAgree /\ PositionsKnow /\ DoomIsJust
  BY DEF Refusal
<1>0. /\ \A p \in Procs : pc[p] = "idle" /\ got[p] = Absent /\ view[p] = Absent
      /\ \A w \in Workers : cache[w] = Absent
      /\ db.rt \in {0, 1} /\ good = {db.rt} \ {0} /\ issued = 1 /\ ~db.invalid
  BY DEF Init
<1>1. Copies \subseteq {db, Absent} /\ Resting \subseteq {db, Absent}
  BY <1>0 DEF Copies, Resting
<1>2. CopiesAgree
  BY <1>0, <1>1 DEF CopiesAgree, Absent
<1>3. PositionsKnow
  BY <1>0 DEF PositionsKnow
<1>4. ASSUME Doomed PROVE Barren /\ \A e \in Copies : ~e.sso
  <2>1. db.rt = 0 /\ ~db.sso
    BY <1>0, <1>1, <1>4 DEF Doomed
  <2> QED BY <1>0, <1>1, <2>1 DEF Barren, Absent
<1> QED BY <1>0, <1>2, <1>3, <1>4 DEF DoomIsJust

(* An account is marked as invalid only when the provider refuses the token  *)
(* that is stored by then: neither a slow request of another worker nor the  *)
(* purge nor a rejection that arrives late condemns an accepted one, as long *)
(* as nobody compared with an outdated copy.                                 *)
THEOREM CondemnedIsRefused == Spec => []InvalidMeansRefused
<1>1. IInv /\ Refusal => InvalidMeansRefused
  <2> SUFFICES ASSUME IInv, Refusal, Trusted, db.invalid
               PROVE  db.rt \notin good
    BY DEF InvalidMeansRefused, Trusted
  <2>1. TypeOK /\ CopiesAgree /\ DoomIsJust /\ db \in Copies /\ db \in Resting
    BY WhereCopiesAre, CopiesTyped DEF IInv, Refusal
  <2>2. ~db.sso /\ db # Absent
    BY <2>1, CopiesTyped DEF CopiesAgree
  <2> QED BY <2>1, <2>2 DEF Doomed, DoomIsJust, Barren
<1>2. Init => IInv /\ Refusal
  BY InvInit, RefusalInit
<1>3. IInv /\ Refusal /\ [Next]_vars => (IInv /\ Refusal)'
  BY InvStep, RefusalStep
<1> QED BY <1>1, <1>2, <1>3, PTL DEF Spec
=============================================================================
