------------------------- MODULE Maintenance_proofs -------------------------
(***************************************************************************)
(* Proofs about Maintenance, for any workers and threads, any number of    *)
(* uses of the switch and of disruptions.                                  *)
(***************************************************************************)
EXTENDS Maintenance, TLAPS

USE DEF electionVars, threadVars, bounds, rest

-----------------------------------------------------------------------------
(* Types. *)

LEMMA DisruptTyped ==
  ASSUME TypeOK, Disrupt
  PROVE  disruptions' \in 0..MaxDisruptions /\ toggles' \in 0..MaxToggles
BY MaintenanceConstants DEF TypeOK, Disrupt

LEMMA StartTyped ==
  ASSUME TypeOK, NEW w \in Workers, StartBackground(w)
  PROVE  /\ stop' \in [Workers -> BOOLEAN]
         /\ handle' \in [Workers -> Threads \cup {NoThread}]
         /\ loop' \in [Workers -> [Threads -> Loops]]
<1>1. CASE ~enabled \/ Running(w)
  BY <1>1 DEF TypeOK, StartBackground
<1>2. CASE ~(~enabled \/ Running(w))
  <2>1. PICK t \in Threads : /\ loop' = [loop EXCEPT ![w][t] = "sleep"]
                             /\ handle' = [handle EXCEPT ![w] = t]
    BY <1>2 DEF StartBackground
  <2>2. stop' = [stop EXCEPT ![w] = FALSE]
    BY <1>2 DEF StartBackground
  <2> QED BY <2>1, <2>2 DEF TypeOK, Loops
<1> QED BY <1>1, <1>2

LEMMA StopTyped ==
  ASSUME TypeOK, NEW w \in Workers, StopBackground(w)
  PROVE  /\ stop' \in [Workers -> BOOLEAN]
         /\ handle' \in [Workers -> Threads \cup {NoThread}]
         /\ loop' \in [Workers -> [Threads -> Loops]]
BY DEF TypeOK, StopBackground

LEMMA GoTyped ==
  ASSUME TypeOK, NEW w \in Workers, NEW c \in Callers, NEW to \in PCs, Go(w, c, to)
  PROVE  pc' \in [Workers -> [Callers -> PCs]]
BY DEF TypeOK, Go

LEMMA SetLoopTyped ==
  ASSUME TypeOK, NEW w \in Workers, NEW t \in Threads, NEW from, NEW to \in Loops,
         SetLoop(w, t, from, to),
         slot' \in (Workers \X Threads) \cup {Free}, lapsed' \in BOOLEAN,
         disruptions' \in 0..MaxDisruptions
  PROVE  TypeOK'
BY DEF TypeOK, SetLoop

LEMMA AtRestTyped ==
  AtRest \in [Callers -> PCs] /\ Booting \in [Callers -> PCs]
    /\ NoLoop \in [Threads -> Loops]
BY DEF AtRest, Booting, NoLoop, Callers, PCs, Loops

LEMMA ElectTyped ==
  ASSUME TypeOK, NEW w \in Workers, NEW c \in Callers,
         Elect(w, c) \/ ElectionFails(w, c)
  PROVE  TypeOK'
<1>1. CASE Try(w, c)
  <2>1. pc' \in [Workers -> [Callers -> PCs]]
    BY <1>1, GoTyped DEF Try, PCs
  <2> QED BY <1>1, <2>1 DEF Try, TypeOK
<1>2. CASE Check(w, c)
  <2>1. pc' \in [Workers -> [Callers -> PCs]]
    BY <1>2, GoTyped DEF Check, PCs
  <2> QED BY <1>2, <2>1 DEF Check, TypeOK
<1>3. CASE Renew(w, c)
  <2>1. pc' \in [Workers -> [Callers -> PCs]]
    BY <1>3, GoTyped DEF Renew, PCs
  <2> QED BY <1>3, <2>1 DEF Renew, TypeOK
<1>4. CASE Won(w, c)
  <2>1. pc' \in [Workers -> [Callers -> PCs]]
    BY <1>4, GoTyped DEF Won, PCs
  <2>2. /\ stop' \in [Workers -> BOOLEAN]
        /\ handle' \in [Workers -> Threads \cup {NoThread}]
        /\ loop' \in [Workers -> [Threads -> Loops]]
    BY <1>4, StartTyped DEF Won, TypeOK
  <2> QED BY <1>4, <2>1, <2>2 DEF Won, Arm, TypeOK
<1>5. CASE Lost(w, c)
  <2>1. pc' \in [Workers -> [Callers -> PCs]]
    BY <1>5 DEF Lost, TypeOK, PCs, Callers
  <2>2. /\ stop' \in [Workers -> BOOLEAN]
        /\ handle' \in [Workers -> Threads \cup {NoThread}]
        /\ loop' \in [Workers -> [Threads -> Loops]]
    BY <1>5, StopTyped DEF Lost, TypeOK
  <2> QED BY <1>5, <2>1, <2>2 DEF Lost, Arm, TypeOK
<1>6. CASE Start(w, c)
  <2>1. pc' \in [Workers -> [Callers -> PCs]]
    BY <1>6, GoTyped DEF Start, PCs
  <2>2. /\ stop' \in [Workers -> BOOLEAN]
        /\ handle' \in [Workers -> Threads \cup {NoThread}]
        /\ loop' \in [Workers -> [Threads -> Loops]]
    BY <1>6, StartTyped DEF Start
  <2> QED BY <1>6, <2>1, <2>2 DEF Start, TypeOK
<1>7. CASE ElectionFails(w, c)
  <2>1. pc' \in [Workers -> [Callers -> PCs]]
    BY <1>7, GoTyped DEF ElectionFails, PCs
  <2> QED BY <1>7, <2>1, DisruptTyped DEF ElectionFails, TypeOK
<1> QED BY <1>1, <1>2, <1>3, <1>4, <1>5, <1>6, <1>7 DEF Elect

LEMMA RunTyped ==
  ASSUME TypeOK, NEW w \in Workers, NEW t \in Threads,
         Maintain(w, t) \/ RedisFails(w, t)
  PROVE  TypeOK'
<1>1. /\ disruptions \in 0..MaxDisruptions
      /\ disruptions < MaxDisruptions => disruptions + 1 \in 0..MaxDisruptions
  BY MaintenanceConstants DEF TypeOK
<1>2. slot \in (Workers \X Threads) \cup {Free} /\ lapsed \in BOOLEAN
  BY DEF TypeOK
<1>3. CASE Wake(w, t) \/ Exit(w, t) \/ Defer(w, t) \/ EndLocalRun(w, t)
  BY <1>1, <1>2, <1>3, SetLoopTyped DEF Wake, Exit, Defer, EndLocalRun, Loops
<1>4. CASE Acquire(w, t)
  BY <1>1, <1>2, <1>4, SetLoopTyped DEF Acquire, Loops
<1>5. CASE EndRun(w, t)
  BY <1>1, <1>2, <1>5, SetLoopTyped DEF EndRun, Release, Loops
<1>6. CASE RedisFails(w, t)
  BY <1>1, <1>2, <1>6, SetLoopTyped DEF RedisFails, AcquireLocally, ReleaseFails, Loops
<1> QED BY <1>3, <1>4, <1>5, <1>6 DEF Maintain

LEMMA TypeStep ==
  ASSUME TypeOK, [Next]_vars
  PROVE  TypeOK'
<1>1. ASSUME NEW w \in Workers, Watch(w) PROVE TypeOK'
  <2>1. pc' \in [Workers -> [Callers -> PCs]]
    BY <1>1, GoTyped DEF Watch, PCs, Callers
  <2> QED BY <1>1, <2>1 DEF Watch, TypeOK
<1>2. ASSUME NEW w \in Workers, Crash(w) PROVE TypeOK'
  BY <1>2, DisruptTyped, AtRestTyped DEF Crash, TypeOK
<1>3. ASSUME NEW w \in Workers, Restart(w) PROVE TypeOK'
  BY <1>3, AtRestTyped DEF Restart, TypeOK
<1>4. ASSUME NEW w \in Workers, SwitchOff(w) PROVE TypeOK'
  <2>1. /\ stop' \in [Workers -> BOOLEAN]
        /\ handle' \in [Workers -> Threads \cup {NoThread}]
        /\ loop' \in [Workers -> [Threads -> Loops]]
    BY <1>4, StopTyped DEF SwitchOff
  <2>2. toggles' \in 0..MaxToggles
    BY <1>4, MaintenanceConstants DEF SwitchOff, TypeOK
  <2>3. enabled' \in BOOLEAN /\ UNCHANGED <<electionVars, alive, slot, lapsed, disruptions>>
    BY <1>4 DEF SwitchOff
  <2> QED BY <2>1, <2>2, <2>3 DEF TypeOK
<1>5. ASSUME NEW w \in Workers, SwitchOn(w) PROVE TypeOK'
  <2>1. pc' \in [Workers -> [Callers -> PCs]]
    BY <1>5, GoTyped DEF SwitchOn, PCs, Callers
  <2> QED BY <1>5, <2>1, MaintenanceConstants DEF SwitchOn, TypeOK
<1>6. ASSUME LockExpires PROVE TypeOK'
  BY <1>6, DisruptTyped DEF LockExpires, TypeOK
<1>7. ASSUME SlotExpires PROVE TypeOK'
  BY <1>7, DisruptTyped DEF SlotExpires, TypeOK
<1>8. CASE UNCHANGED vars
  BY <1>8 DEF vars, TypeOK
<1>9. ASSUME NEW w \in Workers, NEW c \in Callers, Elect(w, c) \/ ElectionFails(w, c)
      PROVE  TypeOK'
  BY <1>9, ElectTyped
<1>10. ASSUME NEW w \in Workers, NEW t \in Threads, Maintain(w, t) \/ RedisFails(w, t)
       PROVE  TypeOK'
  BY <1>10, RunTyped
<1> QED BY <1>1, <1>2, <1>3, <1>4, <1>5, <1>6, <1>7, <1>8, <1>9, <1>10 DEF Next

-----------------------------------------------------------------------------
(* The inductive invariant: one lemma per conjunct, and in it one step per   *)
(* kind of action.                                                           *)

LEMMA InitInv == Init => IInv
<1> SUFFICES ASSUME Init PROVE IInv
  OBVIOUS
<1>1. TypeOK
  <2>1. 0 \in 0..MaxToggles /\ 0 \in 0..MaxDisruptions
    BY MaintenanceConstants
  <2> QED BY <2>1, AtRestTyped DEF Init, TypeOK
<1>2. LeaderOwnsLock /\ LeaderIsArmed
  BY DEF Init, LeaderOwnsLock, LeaderIsArmed, Booting, AtRest, Callers
<1>3. RunnerOwnsSlot /\ DeadAreStill
  BY DEF Init, RunnerOwnsSlot, DeadAreStill, NoLoop
<1> QED BY <1>1, <1>2, <1>3 DEF IInv

(* A step of a thread leaves the election alone, and is made by a live       *)
(* worker.                                                                   *)
LEMMA RunStep ==
  ASSUME IInv, NEW w \in Workers, NEW t \in Threads,
         Maintain(w, t) \/ RedisFails(w, t)
  PROVE  /\ UNCHANGED <<electionVars, alive, enabled, stop, handle>>
         /\ \E to \in Loops : loop' = [loop EXCEPT ![w][t] = to]
         /\ loop[w][t] # "off"
         /\ lapsed => lapsed'
         /\ w \in alive
<1>1. loop[w][t] # "off"
  BY DEF Maintain, RedisFails, Wake, Exit, Acquire, Defer, EndRun, EndLocalRun,
         AcquireLocally, ReleaseFails, SetLoop
<1>2. /\ UNCHANGED <<electionVars, alive, enabled, stop, handle>>
      /\ \E to \in Loops : loop' = [loop EXCEPT ![w][t] = to]
  BY DEF Maintain, RedisFails, Wake, Exit, Acquire, Defer, EndRun, EndLocalRun,
         AcquireLocally, ReleaseFails, SetLoop, Loops
<1>3. lapsed => lapsed'
  BY DEF Maintain, RedisFails, Wake, Exit, Acquire, Defer, EndRun, EndLocalRun,
         AcquireLocally, ReleaseFails
<1>4. w \in alive
  BY <1>1 DEF IInv, DeadAreStill, NoLoop
<1> QED BY <1>1, <1>2, <1>3, <1>4

(* A step of an election leaves the slot and the runs alone, and is made by  *)
(* a live worker; what it starts sleeps.                                     *)
LEMMA StartKeepsRuns ==
  ASSUME TypeOK, NEW w \in Workers, StartBackground(w) \/ UNCHANGED threadVars
  PROVE  /\ \A v \in Workers : v # w => loop'[v] = loop[v]
         /\ \A v \in Workers, t \in Threads : loop'[v][t] = "run" => loop[v][t] = "run"
<1>1. CASE UNCHANGED threadVars
  BY <1>1
<1>2. CASE StartBackground(w) /\ ~UNCHANGED threadVars
  <2>1. PICK t \in Threads : loop' = [loop EXCEPT ![w][t] = "sleep"]
    BY <1>2 DEF StartBackground
  <2> QED BY <2>1 DEF TypeOK
<1> QED BY <1>1, <1>2

LEMMA ElectStep ==
  ASSUME IInv, NEW w \in Workers, NEW c \in Callers,
         Elect(w, c) \/ ElectionFails(w, c)
  PROVE  /\ w \in alive
         /\ UNCHANGED <<alive, slot, lapsed>>
         /\ \A v \in Workers : v # w => /\ loop'[v] = loop[v] /\ pc'[v] = pc[v]
                                        /\ leader'[v] = leader[v]
                                        /\ armed'[v] = armed[v]
         /\ \A v \in Workers, t \in Threads : loop'[v][t] = "run" => loop[v][t] = "run"
<1>0. TypeOK
  BY DEF IInv
<1>1. w \in alive
  <2>1. pc[w][c] # "idle"
    BY DEF Elect, Try, Check, Renew, Won, Lost, Start, ElectionFails
  <2> QED BY <2>1 DEF IInv, DeadAreStill, AtRest
<1>2. UNCHANGED <<alive, slot, lapsed>>
  BY DEF Elect, Try, Check, Renew, Won, Lost, Start, ElectionFails
<1>3. \A v \in Workers : v # w => /\ pc'[v] = pc[v]
                                 /\ leader'[v] = leader[v]
                                 /\ armed'[v] = armed[v]
  BY <1>0 DEF Elect, Try, Check, Renew, Won, Lost, Start, ElectionFails, Go, Arm, TypeOK
<1>4. /\ \A v \in Workers : v # w => loop'[v] = loop[v]
      /\ \A v \in Workers, t \in Threads : loop'[v][t] = "run" => loop[v][t] = "run"
  <2>1. \/ StartBackground(w) \/ UNCHANGED threadVars
        \/ UNCHANGED loop
    BY DEF Elect, Try, Check, Renew, Won, Lost, Start, ElectionFails, StopBackground
  <2> QED BY <1>0, <2>1, StartKeepsRuns
<1> QED BY <1>1, <1>2, <1>3, <1>4

(* Who believes to lead, or is about to. *)
Leads(w) == leader[w] \/ \E c \in Callers : pc[w][c] = "won"

LEMMA ElectKeepsLock ==
  ASSUME IInv, NEW w \in Workers, NEW c \in Callers,
         Elect(w, c) \/ ElectionFails(w, c)
  PROVE  LeaderOwnsLock'
<1>0. TypeOK
  BY DEF IInv
<1>1. SUFFICES ASSUME ~lapsed', NEW v \in Workers, Leads(v)' PROVE lock' = v
  BY DEF LeaderOwnsLock, Leads
<1>2. /\ ~lapsed
      /\ \A u \in Workers : u # w => leader'[u] = leader[u] /\ pc'[u] = pc[u]
  BY <1>1, ElectStep
<1>3. \A u \in Workers : Leads(u) => lock = u
  BY <1>2 DEF IInv, LeaderOwnsLock, Leads
<1>4. CASE Try(w, c)
  <2>1. CASE lock = Nobody
    <3>1. lock' = w
      BY <1>4, <2>1 DEF Try
    <3>2. ~Leads(v)
      BY <1>3, <2>1, NobodyIsNone
    <3>3. v = w
      BY <1>1, <1>2, <3>2 DEF Leads
    <3> QED BY <3>1, <3>3
  <2>2. CASE lock # Nobody
    <3>1. lock' = lock /\ leader' = leader /\ pc' = [pc EXCEPT ![w][c] = "check"]
      BY <1>4, <2>2 DEF Try, Go
    <3>2. Leads(v)
      BY <1>0, <1>1, <3>1 DEF Leads, TypeOK
    <3> QED BY <1>3, <3>1, <3>2
  <2> QED BY <2>1, <2>2
<1>5. CASE Won(w, c)
  <2>1. lock' = lock /\ Leads(w)
    BY <1>5 DEF Won, Leads
  <2>2. Leads(v)
    BY <1>1, <1>2, <2>1 DEF Leads
  <2> QED BY <1>3, <2>1, <2>2
<1>6. CASE Renew(w, c)
  <2>1. lock' = lock /\ leader' = leader
    BY <1>6 DEF Renew
  <2>2. CASE lock = w /\ v = w
    BY <2>1, <2>2
  <2>3. CASE v # w
    BY <1>1, <1>2, <1>3, <2>1, <2>3 DEF Leads
  <2>4. CASE lock # w /\ v = w
    <3>1. pc' = [pc EXCEPT ![w][c] = "lost"]
      BY <1>6, <2>4 DEF Renew, Go
    <3>2. Leads(w)
      BY <1>0, <1>1, <2>1, <2>4, <3>1 DEF Leads, TypeOK
    <3> QED BY <1>3, <2>1, <2>4, <3>2
  <2> QED BY <2>2, <2>3, <2>4
<1>7. CASE Check(w, c) \/ Start(w, c) \/ ElectionFails(w, c)
  <2>1. lock' = lock /\ leader' = leader
    BY <1>7 DEF Check, Start, ElectionFails
  <2>2. PICK to \in PCs \ {"won"} : pc' = [pc EXCEPT ![w][c] = to]
    BY <1>7 DEF Check, Start, ElectionFails, Go, PCs
  <2>3. Leads(v)
    BY <1>0, <1>1, <2>1, <2>2 DEF Leads, TypeOK
  <2> QED BY <1>3, <2>1, <2>3
<1>8. CASE Lost(w, c)
  <2>1. lock' = lock /\ ~leader'[w]
    BY <1>0, <1>8 DEF Lost, TypeOK
  <2>2. \A d \in Callers : pc'[w][d] = "won" => pc[w][d] = "won"
    BY <1>0, <1>8 DEF Lost, TypeOK, Callers
  <2>3. Leads(v)
    BY <1>1, <1>2, <2>1, <2>2 DEF Leads
  <2> QED BY <1>3, <2>1, <2>3
<1> QED BY <1>4, <1>5, <1>6, <1>7, <1>8 DEF Elect

LEMMA LeaderOwnsLockStep ==
  ASSUME IInv, [Next]_vars
  PROVE  LeaderOwnsLock'
<1>0. TypeOK /\ LeaderOwnsLock /\ LeaderIsArmed
  BY DEF IInv
<1>1. ASSUME NEW w \in Workers, NEW c \in Callers, Elect(w, c) \/ ElectionFails(w, c)
      PROVE  LeaderOwnsLock'
  BY <1>1, ElectKeepsLock
<1>2. ASSUME NEW w \in Workers, NEW t \in Threads, Maintain(w, t) \/ RedisFails(w, t)
      PROVE  LeaderOwnsLock'
  BY <1>0, <1>2, RunStep DEF LeaderOwnsLock
<1>3. ASSUME NEW w \in Workers, Watch(w) PROVE LeaderOwnsLock'
  <2>1. PICK to \in {"renew", "try", "lost"} : pc' = [pc EXCEPT ![w]["watch"] = to]
    BY <1>3 DEF Watch, Go
  <2> QED BY <1>0, <1>3, <2>1 DEF Watch, LeaderOwnsLock, TypeOK
<1>4. ASSUME NEW w \in Workers, Crash(w) PROVE LeaderOwnsLock'
  BY <1>0, <1>4 DEF Crash, LeaderOwnsLock, TypeOK, AtRest
<1>5. ASSUME NEW w \in Workers, Restart(w) PROVE LeaderOwnsLock'
  BY <1>0, <1>5 DEF Restart, LeaderOwnsLock, TypeOK, Booting, AtRest, Callers
<1>6. ASSUME NEW w \in Workers, SwitchOff(w) PROVE LeaderOwnsLock'
  BY <1>0, <1>6 DEF SwitchOff, LeaderOwnsLock
<1>7. ASSUME NEW w \in Workers, SwitchOn(w) PROVE LeaderOwnsLock'
  <2>1. PICK to \in {"start", "try"} : pc' = [pc EXCEPT ![w]["admin"] = to]
    BY <1>7 DEF SwitchOn, Go
  <2> QED BY <1>0, <1>7, <2>1 DEF SwitchOn, LeaderOwnsLock, TypeOK
<1>8. ASSUME LockExpires PROVE LeaderOwnsLock'
  <2>1. CASE Kept(lock)
    BY <1>8, <2>1 DEF LockExpires, LeaderOwnsLock
  <2>2. CASE ~Kept(lock)
    <3>1. \A w \in Workers : Leads(w) => Kept(w)
      BY <1>0 DEF LeaderIsArmed, Leads, Kept
    <3>2. UNCHANGED <<leader, pc, lapsed>>
      BY <1>8, <2>2 DEF LockExpires
    <3> QED BY <1>0, <2>2, <3>1, <3>2 DEF LeaderOwnsLock, Leads
  <2> QED BY <2>1, <2>2
<1>9. ASSUME SlotExpires PROVE LeaderOwnsLock'
  BY <1>0, <1>9 DEF SlotExpires, LeaderOwnsLock, TypeOK
<1>10. CASE UNCHANGED vars
  BY <1>0, <1>10 DEF vars, LeaderOwnsLock
<1> QED BY <1>1, <1>2, <1>3, <1>4, <1>5, <1>6, <1>7, <1>8, <1>9, <1>10 DEF Next

LEMMA RunnerOwnsSlotStep ==
  ASSUME IInv, [Next]_vars
  PROVE  RunnerOwnsSlot'
<1>0. TypeOK /\ RunnerOwnsSlot
  BY DEF IInv
<1>1. ASSUME NEW w \in Workers, NEW c \in Callers, Elect(w, c) \/ ElectionFails(w, c)
      PROVE  RunnerOwnsSlot'
  BY <1>0, <1>1, ElectStep DEF RunnerOwnsSlot
<1>2. ASSUME NEW w \in Workers, NEW t \in Threads, Maintain(w, t) \/ RedisFails(w, t)
      PROVE  RunnerOwnsSlot'
  <2>1. CASE Acquire(w, t)
    BY <1>0, <2>1 DEF Acquire, SetLoop, RunnerOwnsSlot, TypeOK, Free
  <2>2. CASE EndRun(w, t)
    BY <1>0, <2>2 DEF EndRun, SetLoop, Release, RunnerOwnsSlot, TypeOK
  <2>3. CASE AcquireLocally(w, t)
    BY <2>3 DEF AcquireLocally, RunnerOwnsSlot
  <2>4. CASE ReleaseFails(w, t)
    BY <1>0, <2>4 DEF ReleaseFails, SetLoop, RunnerOwnsSlot, TypeOK
  <2>5. CASE Wake(w, t) \/ Exit(w, t) \/ Defer(w, t) \/ EndLocalRun(w, t)
    <3>1. UNCHANGED <<slot, lapsed>>
      BY <2>5 DEF Wake, Exit, Defer, EndLocalRun
    <3>2. PICK to \in Loops \ {"run"} : loop' = [loop EXCEPT ![w][t] = to]
      BY <2>5 DEF Wake, Exit, Defer, EndLocalRun, SetLoop, Loops
    <3> QED BY <1>0, <3>1, <3>2 DEF RunnerOwnsSlot, TypeOK
  <2>6. CASE Maintain(w, t)
    BY <2>1, <2>2, <2>5, <2>6 DEF Maintain
  <2>7. CASE RedisFails(w, t)
    BY <2>3, <2>4, <2>7 DEF RedisFails
  <2> QED BY <1>2, <2>6, <2>7
<1>3. ASSUME NEW w \in Workers, Watch(w) \/ Restart(w) \/ SwitchOff(w) \/ SwitchOn(w)
      PROVE  RunnerOwnsSlot'
  BY <1>0, <1>3 DEF Watch, Restart, SwitchOff, SwitchOn, StopBackground, RunnerOwnsSlot
<1>4. ASSUME NEW w \in Workers, Crash(w) PROVE RunnerOwnsSlot'
  BY <1>0, <1>4 DEF Crash, RunnerOwnsSlot, TypeOK, NoLoop
<1>5. ASSUME LockExpires PROVE RunnerOwnsSlot'
  BY <1>0, <1>5 DEF LockExpires, RunnerOwnsSlot, TypeOK
<1>6. ASSUME SlotExpires PROVE RunnerOwnsSlot'
  BY <1>0, <1>6 DEF SlotExpires, RunnerOwnsSlot, Held
<1>7. CASE UNCHANGED vars
  BY <1>0, <1>7 DEF vars, RunnerOwnsSlot
<1> QED BY <1>1, <1>2, <1>3, <1>4, <1>5, <1>6, <1>7 DEF Next

LEMMA LeaderIsArmedStep ==
  ASSUME IInv, [Next]_vars
  PROVE  LeaderIsArmed'
<1>0. TypeOK /\ LeaderIsArmed /\ DeadAreStill
  BY DEF IInv
<1>1. ASSUME NEW w \in Workers, NEW c \in Callers, Elect(w, c) \/ ElectionFails(w, c)
      PROVE  LeaderIsArmed'
  <2>1. SUFFICES ASSUME leader'[w] \/ \E d \in {"watch", "again"} : pc'[w][d] # "idle"
                 PROVE  armed'[w]
    BY <1>0, <1>1, ElectStep DEF LeaderIsArmed
  <2>2. CASE Won(w, c) \/ Lost(w, c)
    <3>1. armed'[w] = (armed[w] \/ c \in {"boot", "admin"})
      BY <1>0, <2>2 DEF Won, Lost, Arm, TypeOK
    <3>2. CASE c \in {"boot", "admin"}
      BY <3>1, <3>2
    <3>3. CASE c \in {"watch", "again"}
      BY <1>0, <2>2, <3>1, <3>3 DEF Won, Lost, LeaderIsArmed
    <3> QED BY <3>2, <3>3 DEF Callers
  <2>3. CASE Try(w, c) \/ Check(w, c) \/ Renew(w, c) \/ Start(w, c) \/ ElectionFails(w, c)
    <3>1. /\ leader' = leader /\ armed' = armed
          /\ pc[w][c] # "idle"
          /\ \E to \in PCs : pc' = [pc EXCEPT ![w][c] = to]
      BY <2>3 DEF Try, Check, Renew, Start, ElectionFails, Go, PCs
    <3>2. leader[w] \/ \E d \in {"watch", "again"} : pc[w][d] # "idle"
      BY <1>0, <2>1, <3>1 DEF TypeOK, Callers
    <3> QED BY <1>0, <3>1, <3>2 DEF LeaderIsArmed
  <2> QED BY <1>1, <2>2, <2>3 DEF Elect
<1>2. ASSUME NEW w \in Workers, NEW t \in Threads, Maintain(w, t) \/ RedisFails(w, t)
      PROVE  LeaderIsArmed'
  BY <1>0, <1>2, RunStep DEF LeaderIsArmed
<1>3. ASSUME NEW w \in Workers, Watch(w) PROVE LeaderIsArmed'
  BY <1>0, <1>3 DEF Watch, Go, LeaderIsArmed, TypeOK, Callers
<1>4. ASSUME NEW w \in Workers, Crash(w) PROVE LeaderIsArmed'
  BY <1>0, <1>4 DEF Crash, LeaderIsArmed, TypeOK, AtRest, Callers
<1>5. ASSUME NEW w \in Workers, Restart(w) PROVE LeaderIsArmed'
  BY <1>0, <1>5 DEF Restart, LeaderIsArmed, DeadAreStill, TypeOK, Booting, AtRest, Callers
<1>6. ASSUME NEW w \in Workers, SwitchOff(w) PROVE LeaderIsArmed'
  BY <1>0, <1>6 DEF SwitchOff, LeaderIsArmed
<1>7. ASSUME NEW w \in Workers, SwitchOn(w) PROVE LeaderIsArmed'
  BY <1>0, <1>7 DEF SwitchOn, Go, LeaderIsArmed, TypeOK, Callers
<1>8. ASSUME LockExpires \/ SlotExpires PROVE LeaderIsArmed'
  BY <1>0, <1>8 DEF LockExpires, SlotExpires, LeaderIsArmed
<1>9. CASE UNCHANGED vars
  BY <1>0, <1>9 DEF vars, LeaderIsArmed
<1> QED BY <1>1, <1>2, <1>3, <1>4, <1>5, <1>6, <1>7, <1>8, <1>9 DEF Next

LEMMA DeadAreStillStep ==
  ASSUME IInv, [Next]_vars
  PROVE  DeadAreStill'
<1>0. TypeOK /\ LeaderIsArmed /\ DeadAreStill
  BY DEF IInv
<1>1. ASSUME NEW w \in Workers, NEW c \in Callers, Elect(w, c) \/ ElectionFails(w, c)
      PROVE  DeadAreStill'
  BY <1>0, <1>1, ElectStep DEF DeadAreStill
<1>2. ASSUME NEW w \in Workers, NEW t \in Threads, Maintain(w, t) \/ RedisFails(w, t)
      PROVE  DeadAreStill'
  <2>1. w \in alive /\ UNCHANGED <<electionVars, alive>>
    BY <1>2, RunStep
  <2>2. \A v \in Workers : v # w => loop'[v] = loop[v]
    <3>1. PICK to \in Loops : loop' = [loop EXCEPT ![w][t] = to]
      BY <1>2, RunStep
    <3> QED BY <1>0, <3>1 DEF TypeOK
  <2> QED BY <1>0, <2>1, <2>2 DEF DeadAreStill
<1>3. ASSUME NEW w \in Workers, Watch(w) PROVE DeadAreStill'
  BY <1>0, <1>3 DEF Watch, Go, DeadAreStill, TypeOK
<1>4. ASSUME NEW w \in Workers, Crash(w) PROVE DeadAreStill'
  BY <1>0, <1>4 DEF Crash, DeadAreStill, TypeOK
<1>5. ASSUME NEW w \in Workers, Restart(w) PROVE DeadAreStill'
  BY <1>0, <1>5 DEF Restart, DeadAreStill, TypeOK
<1>6. ASSUME NEW w \in Workers, SwitchOff(w) PROVE DeadAreStill'
  BY <1>0, <1>6 DEF SwitchOff, StopBackground, DeadAreStill
<1>7. ASSUME NEW w \in Workers, SwitchOn(w) PROVE DeadAreStill'
  BY <1>0, <1>7 DEF SwitchOn, Go, DeadAreStill, TypeOK
<1>8. ASSUME LockExpires \/ SlotExpires PROVE DeadAreStill'
  BY <1>0, <1>8 DEF LockExpires, SlotExpires, DeadAreStill
<1>9. CASE UNCHANGED vars
  BY <1>0, <1>9 DEF vars, DeadAreStill
<1> QED BY <1>1, <1>2, <1>3, <1>4, <1>5, <1>6, <1>7, <1>8, <1>9 DEF Next

LEMMA Inductive == Spec => []IInv
<1>1. IInv /\ [Next]_vars => IInv'
  <2> SUFFICES ASSUME IInv, [Next]_vars PROVE IInv'
    OBVIOUS
  <2>1. TypeOK'
    BY TypeStep DEF IInv
  <2>2. LeaderOwnsLock' /\ RunnerOwnsSlot' /\ LeaderIsArmed' /\ DeadAreStill'
    BY LeaderOwnsLockStep, RunnerOwnsSlotStep, LeaderIsArmedStep, DeadAreStillStep
  <2> QED BY <2>1, <2>2 DEF IInv
<1> QED BY InitInv, <1>1, PTL DEF Spec

-----------------------------------------------------------------------------
(* The theorems. *)

(* Every variable keeps its type. *)
THEOREM TypeCorrect == Spec => []TypeOK
<1>1. IInv => TypeOK
  BY DEF IInv
<1> QED BY Inductive, <1>1, PTL

(* Election (leader.py): unless a lock has lapsed, only the owner of the     *)
(* lock leads, so at most one worker does.                                   *)
THEOREM OneLeader == Spec => []LeaderOwnsLock
<1>1. IInv => LeaderOwnsLock
  BY DEF IInv
<1> QED BY Inductive, <1>1, PTL

(* The maintenance slot (maintenance_gate.py): unless a lock has lapsed, one *)
(* run at a time, in one thread of one worker.                               *)
THEOREM RunsExclude == Spec => []OneRunAtATime
<1>1. IInv => OneRunAtATime
  <2> SUFFICES ASSUME IInv PROVE OneRunAtATime
    OBVIOUS
  <2>1. RunnerOwnsSlot
    BY DEF IInv
  <2> QED BY <2>1 DEF RunnerOwnsSlot, OneRunAtATime
<1> QED BY Inductive, <1>1, PTL

(* compare_and_delete: the slot of a run is freed by that run's end or by a  *)
(* failure, never by another run.                                            *)
THEOREM SlotIsOwn == Spec => ReleasesOwnSlot
<1>1. ASSUME IInv, [Next]_vars,
             NEW w \in Workers, NEW t \in Threads,
             slot = <<w, t>>, slot' # slot, loop[w][t] = "run"
      PROVE  loop'[w][t] = "sleep" \/ disruptions' # disruptions
  <2>0. TypeOK /\ slot # Free
    BY <1>1 DEF IInv, Free
  <2>1. ASSUME NEW v \in Workers, NEW c \in Callers, Elect(v, c) \/ ElectionFails(v, c)
        PROVE  FALSE
    BY <1>1, <2>1, ElectStep
  <2>2. ASSUME NEW v \in Workers, NEW u \in Threads, Maintain(v, u) \/ RedisFails(v, u)
        PROVE  loop'[w][t] = "sleep"
    <3>1. EndRun(v, u)
      BY <1>1, <2>0, <2>2 DEF Maintain, RedisFails, Wake, Exit, Acquire, Defer,
         EndLocalRun, AcquireLocally, ReleaseFails
    <3>2. slot = <<v, u>>
      BY <1>1, <3>1 DEF EndRun, Release
    <3>3. v = w /\ u = t
      BY <1>1, <3>2
    <3> QED BY <2>0, <3>1, <3>3 DEF EndRun, SetLoop, TypeOK
  <2>3. ASSUME NEW v \in Workers,
               Watch(v) \/ Crash(v) \/ Restart(v) \/ SwitchOff(v) \/ SwitchOn(v)
        PROVE  FALSE
    BY <1>1, <2>3 DEF Watch, Crash, Restart, SwitchOff, SwitchOn
  <2>4. ASSUME LockExpires PROVE FALSE
    BY <1>1, <2>4 DEF LockExpires
  <2>5. ASSUME SlotExpires PROVE disruptions' # disruptions
    <3>1. Held
      BY <1>1 DEF Held
    <3> QED BY <2>0, <2>5, <3>1, MaintenanceConstants DEF SlotExpires, Disrupt, TypeOK
  <2>6. CASE UNCHANGED vars
    BY <1>1, <2>6 DEF vars
  <2> QED BY <1>1, <2>1, <2>2, <2>3, <2>4, <2>5, <2>6 DEF Next
<1>2. IInv /\ [Next]_vars =>
        [\A w \in Workers, t \in Threads :
           slot = <<w, t>> /\ slot' # slot /\ loop[w][t] = "run"
             => loop'[w][t] = "sleep" \/ disruptions' # disruptions]_vars
  BY <1>1
<1> QED BY Inductive, <1>2, PTL DEF Spec, ReleasesOwnSlot
=============================================================================
