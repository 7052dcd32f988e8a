----------------------------- MODULE Maintenance -----------------------------
(***************************************************************************)
(* Who runs the background maintenance when several gateway workers share  *)
(* one Redis: the election of a leader by a lock that expires              *)
(* (store/leader.py), the threads of the token maintainer a leader starts  *)
(* and stops (token_maintainer.py; model_health.py is built alike, but its *)
(* thread outlives a run that raises), the maintenance slot every run      *)
(* takes (maintenance_gate.py, locks_redis.py), and the admin switch       *)
(* (set_token_maintain_enabled).                                           *)
(*                                                                         *)
(* A worker elects in up to four places: the start of the process, its     *)
(* watch thread, and two calls in a row of the admin handler. Stopping a   *)
(* thread gives it two seconds to end and then forgets it; a run takes     *)
(* minutes, so a thread may outlive its handle.                            *)
(* The slot's token names the owner, the worker and the second in which it *)
(* began to wait; the model takes it to name the thread.                   *)
(*                                                                         *)
(* An operator introduced as a seeded fault is a mutated form of the       *)
(* definition after it; no action uses it.                                 *)
(***************************************************************************)
EXTENDS Naturals

CONSTANTS
  Workers,
  Threads,         \* the maintainer threads a worker can have at a time
  MaxToggles,      \* bound: uses of the admin switch
  MaxDisruptions   \* bound: crashes, Redis errors, locks lapsing in use

ASSUME MaintenanceConstants ==
  /\ MaxToggles \in Nat
  /\ MaxDisruptions \in Nat

Nobody == "nobody"
ASSUME NobodyIsNone == Nobody \notin Workers

Free == <<>>

NoThread == "none"
ASSUME NoThreadIsNone == NoThread \notin Threads

Callers == {"boot", "watch", "admin", "again"}

VARIABLES
  lock,        \* g2a:lock:maintainer_leader: its owner
  alive,       \* the workers that are up
  leader,      \* _is_leader
  started,     \* _maintainers_started
  armed,       \* whether the watch thread runs
  pc,          \* where each caller of the election is
  enabled,     \* the setting token_maintain_enabled
  stop,        \* _stop of the maintainer
  handle,      \* its _thread
  loop,        \* what its threads do
  slot,        \* g2a:lock:maintenance: the thread that owns it
  lapsed,      \* history: a lock has expired under a live owner, or a run
               \* has gone ahead without Redis
  toggles,
  disruptions

electionVars == <<lock, leader, started, armed, pc>>
threadVars   == <<stop, handle, loop>>
bounds       == <<toggles, disruptions>>
rest         == <<alive, enabled, threadVars, slot, lapsed, bounds>>
vars == <<electionVars, rest>>

PCs   == {"idle", "try", "check", "renew", "won", "lost", "start"}
Loops == {"off", "sleep", "wait", "run", "local"}

TypeOK ==
  /\ lock \in Workers \cup {Nobody}
  /\ alive \subseteq Workers
  /\ leader \in [Workers -> BOOLEAN]
  /\ started \in [Workers -> BOOLEAN]
  /\ armed \in [Workers -> BOOLEAN]
  /\ pc \in [Workers -> [Callers -> PCs]]
  /\ enabled \in BOOLEAN
  /\ stop \in [Workers -> BOOLEAN]
  /\ handle \in [Workers -> Threads \cup {NoThread}]
  /\ loop \in [Workers -> [Threads -> Loops]]
  /\ slot \in (Workers \X Threads) \cup {Free}
  /\ lapsed \in BOOLEAN
  /\ toggles \in 0..MaxToggles
  /\ disruptions \in 0..MaxDisruptions

AtRest == [c \in Callers |-> "idle"]
NoLoop == [t \in Threads |-> "off"]

(* _on_startup calls should_start_maintainers. *)
Booting == [AtRest EXCEPT !["boot"] = "try"]

Init ==
  /\ lock = Nobody
  /\ alive = Workers
  /\ leader = [w \in Workers |-> FALSE]
  /\ started = [w \in Workers |-> FALSE]
  /\ armed = [w \in Workers |-> FALSE]
  /\ pc = [w \in Workers |-> Booting]
  /\ enabled = TRUE
  /\ stop = [w \in Workers |-> FALSE]
  /\ handle = [w \in Workers |-> NoThread]
  /\ loop = [w \in Workers |-> NoLoop]
  /\ slot = Free
  /\ lapsed = FALSE
  /\ toggles = 0
  /\ disruptions = 0

Disrupt ==
  /\ disruptions < MaxDisruptions
  /\ disruptions' = disruptions + 1
  /\ UNCHANGED toggles

-----------------------------------------------------------------------------
(* The maintainer's threads.                                                *)

Running(w) == handle[w] # NoThread /\ loop[w][handle[w]] # "off"

(* start_background: clearing _stop also revives a thread that was told to  *)
(* stop and has not looked yet.                                             *)
StartBackground(w) ==
  IF ~enabled \/ Running(w)
  THEN UNCHANGED threadVars
  ELSE /\ stop' = [stop EXCEPT ![w] = FALSE]
       /\ \E t \in Threads :
            /\ loop[w][t] = "off"
            /\ loop' = [loop EXCEPT ![w][t] = "sleep"]
            /\ handle' = [handle EXCEPT ![w] = t]

(* stop_background: _stop is set, and the thread forgotten after a join of   *)
(* two seconds.                                                              *)
StopBackground(w) ==
  /\ stop' = [stop EXCEPT ![w] = TRUE]
  /\ handle' = [handle EXCEPT ![w] = NoThread]
  /\ UNCHANGED loop

SetLoop(w, t, from, to) ==
  /\ loop[w][t] = from
  /\ loop' = [loop EXCEPT ![w][t] = to]
  /\ UNCHANGED <<electionVars, alive, enabled, stop, handle, toggles>>

(* The interval is over, or the thread was woken: run_once asks for the slot *)
(* if maintenance is enabled.                                                *)
Wake(w, t) ==
  /\ ~stop[w] /\ enabled
  /\ SetLoop(w, t, "sleep", "wait")
  /\ UNCHANGED <<slot, lapsed, disruptions>>

(* A sleeping thread sees _stop. *)
Exit(w, t) ==
  /\ stop[w]
  /\ SetLoop(w, t, "sleep", "off")
  /\ UNCHANGED <<slot, lapsed, disruptions>>

(* Seeded fault: the thread goes ahead when its time to wait is over.       *)
AcquireAnyway(w, t) ==
  /\ SetLoop(w, t, "wait", "run")
  /\ slot' = IF slot = Free THEN <<w, t>> ELSE slot
  /\ UNCHANGED <<lapsed, disruptions>>

(* Seeded fault: the token of the slot names the worker only.               *)
(* SET NX of the maintenance lock. *)
Acquire(w, t) ==
  /\ slot = Free
  /\ SetLoop(w, t, "wait", "run")
  /\ slot' = <<w, t>>
  /\ UNCHANGED <<lapsed, disruptions>>

(* The slot stays busy for as long as the thread would wait: deferred. *)
Defer(w, t) ==
  /\ slot # Free
  /\ SetLoop(w, t, "wait", "sleep")
  /\ UNCHANGED <<slot, lapsed, disruptions>>

(* Redis raises in the acquisition: maintenance_slot falls back to the lock  *)
(* of the process.                                                           *)
AcquireLocally(w, t) ==
  /\ \A u \in Threads : loop[w][u] # "local"
  /\ SetLoop(w, t, "wait", "local")
  /\ disruptions < MaxDisruptions
  /\ disruptions' = disruptions + 1
  /\ lapsed' = TRUE
  /\ UNCHANGED slot

(* Seeded fault: the lock is deleted whoever owns it.                       *)
ReleaseAny(w, t) == slot' = Free

(* compare_and_delete. *)
Release(w, t) == slot' = IF slot = <<w, t>> THEN Free ELSE slot

(* run_once returns. *)
EndRun(w, t) ==
  /\ SetLoop(w, t, "run", "sleep")
  /\ Release(w, t)
  /\ UNCHANGED <<lapsed, disruptions>>

(* Redis raises in the release.  maintenance_slot yields a second time, so   *)
(* that run_once raises and the maintainer's thread ends; the slot stays     *)
(* until it expires.                                                         *)
ReleaseFails(w, t) ==
  /\ SetLoop(w, t, "run", "off")
  /\ disruptions < MaxDisruptions
  /\ disruptions' = disruptions + 1
  /\ UNCHANGED <<slot, lapsed>>

EndLocalRun(w, t) ==
  /\ SetLoop(w, t, "local", "sleep")
  /\ UNCHANGED <<slot, lapsed, disruptions>>

-----------------------------------------------------------------------------
(* Election.                                                                *)

Go(w, c, to) == pc' = [pc EXCEPT ![w][c] = to]

(* Seeded fault: a worker that lost the first election never tries again.   *)
WatchOnce(w) ==
  /\ armed[w]
  /\ pc[w]["watch"] = "idle"
  /\ Go(w, "watch", IF lock = w THEN "renew" ELSE "lost")
  /\ UNCHANGED <<lock, leader, started, armed, rest>>

(* _watch_loop wakes and reads the lock. *)
Watch(w) ==
  /\ armed[w]
  /\ pc[w]["watch"] = "idle"
  /\ Go(w, "watch", IF lock = w THEN "renew"
                    ELSE IF lock = Nobody THEN "try" ELSE "lost")
  /\ UNCHANGED <<lock, leader, started, armed, rest>>

(* Seeded fault: the lock is set without NX.                                *)
TrySetOver(w, c) ==
  /\ pc[w][c] = "try"
  /\ lock' = w /\ Go(w, c, "won")
  /\ UNCHANGED <<leader, started, armed, rest>>

(* try_become_leader: SET NX. *)
Try(w, c) ==
  /\ pc[w][c] = "try"
  /\ IF lock = Nobody
     THEN lock' = w /\ Go(w, c, "won")
     ELSE UNCHANGED lock /\ Go(w, c, "check")
  /\ UNCHANGED <<leader, started, armed, rest>>

(* try_become_leader: the owner may be this worker, before a restart. *)
Check(w, c) ==
  /\ pc[w][c] = "check"
  /\ Go(w, c, IF lock = w THEN "renew" ELSE "lost")
  /\ UNCHANGED <<lock, leader, started, armed, rest>>

(* renew_if_owner. *)
Renew(w, c) ==
  /\ pc[w][c] = "renew"
  /\ Go(w, c, IF lock = w THEN "won" ELSE "lost")
  /\ UNCHANGED <<lock, leader, started, armed, rest>>

(* should_start_maintainers arms the watch thread when its attempt has an    *)
(* outcome.                                                                  *)
Arm(w, c) ==
  armed' = [armed EXCEPT ![w] = @ \/ c \in {"boot", "admin"}]

(* _set_leader_state(True): a worker that was not the leader starts its      *)
(* maintainers, once.                                                        *)
Won(w, c) ==
  /\ pc[w][c] = "won"
  /\ Go(w, c, IF c = "watch" THEN "idle" ELSE "start")
  /\ leader' = [leader EXCEPT ![w] = TRUE]
  /\ started' = [started EXCEPT ![w] = @ \/ ~leader[w]]
  /\ Arm(w, c)
  /\ IF ~leader[w] /\ ~started[w] THEN StartBackground(w) ELSE UNCHANGED threadVars
  /\ UNCHANGED <<lock, alive, enabled, slot, lapsed, bounds>>

(* The start of the process and the admin handler start the maintainer       *)
(* themselves.                                                               *)
Start(w, c) ==
  /\ pc[w][c] = "start"
  /\ Go(w, c, "idle")
  /\ StartBackground(w)
  /\ UNCHANGED <<lock, leader, started, armed, alive, enabled, slot, lapsed,
                 bounds>>

(* _set_leader_state(False).  The admin handler makes its second attempt;    *)
(* after that it sets a Redis flag, which nothing reads.                     *)
Lost(w, c) ==
  /\ pc[w][c] = "lost"
  /\ pc' = [pc EXCEPT ![w] =
              IF c = "admin" THEN [@ EXCEPT !["admin"] = "idle", !["again"] = "try"]
              ELSE [@ EXCEPT ![c] = "idle"]]
  /\ leader' = [leader EXCEPT ![w] = FALSE]
  /\ started' = [started EXCEPT ![w] = @ /\ ~leader[w]]
  /\ Arm(w, c)
  /\ IF leader[w] /\ started[w] THEN StopBackground(w) ELSE UNCHANGED threadVars
  /\ UNCHANGED <<lock, alive, enabled, slot, lapsed, bounds>>

(* Redis raises.  The watch thread reports it and stays what it was; the     *)
(* start of the process, whose watch thread is then not armed, and the admin *)
(* handler take it for permission to start.                                  *)
ElectionFails(w, c) ==
  /\ pc[w][c] \in {"try", "check", "renew"}
  /\ Disrupt
  /\ Go(w, c, IF c = "watch" THEN "idle" ELSE "start")
  /\ UNCHANGED <<lock, leader, started, armed, alive, enabled, threadVars, slot,
                 lapsed>>

-----------------------------------------------------------------------------
(* The admin switch.                                                        *)

SwitchOff(w) ==
  /\ w \in alive /\ toggles < MaxToggles
  /\ enabled' = FALSE
  /\ StopBackground(w)
  /\ toggles' = toggles + 1
  /\ UNCHANGED <<electionVars, alive, slot, lapsed, disruptions>>

(* The setting is saved, and then the handler looks whether this worker      *)
(* leads or can.                                                             *)
SwitchOn(w) ==
  /\ w \in alive /\ toggles < MaxToggles
  /\ pc[w]["admin"] = "idle" /\ pc[w]["again"] = "idle"
  /\ ~enabled
  /\ enabled' = TRUE
  /\ Go(w, "admin", IF leader[w] THEN "start" ELSE "try")
  /\ toggles' = toggles + 1
  /\ UNCHANGED <<lock, leader, started, armed, alive, threadVars, slot, lapsed,
                 disruptions>>

-----------------------------------------------------------------------------
(* Locks that expire, workers that die.                                     *)

Kept(w) == armed[w] \/ \E c \in Callers : pc[w][c] = "won"

(* A lock nobody renews expires: its owner is dead, or has restarted without *)
(* a watch thread.  So does a lock whose renewals fail or come late.         *)
LockExpires ==
  /\ lock # Nobody
  /\ lock' = Nobody
  /\ IF Kept(lock)
     THEN Disrupt /\ lapsed' = TRUE
     ELSE UNCHANGED <<bounds, lapsed>>
  /\ UNCHANGED <<leader, started, armed, pc, alive, enabled, threadVars, slot>>

Held == \E w \in Workers, t \in Threads : slot = <<w, t>> /\ loop[w][t] = "run"

SlotExpires ==
  /\ slot # Free
  /\ slot' = Free
  /\ IF Held
     THEN Disrupt /\ lapsed' = TRUE
     ELSE UNCHANGED <<bounds, lapsed>>
  /\ UNCHANGED <<electionVars, alive, enabled, threadVars>>

Crash(w) ==
  /\ w \in alive
  /\ Disrupt
  /\ alive' = alive \ {w}
  /\ leader' = [leader EXCEPT ![w] = FALSE]
  /\ started' = [started EXCEPT ![w] = FALSE]
  /\ armed' = [armed EXCEPT ![w] = FALSE]
  /\ pc' = [pc EXCEPT ![w] = AtRest]
  /\ stop' = [stop EXCEPT ![w] = FALSE]
  /\ handle' = [handle EXCEPT ![w] = NoThread]
  /\ loop' = [loop EXCEPT ![w] = NoLoop]
  /\ UNCHANGED <<lock, enabled, slot, lapsed>>

Restart(w) ==
  /\ w \in Workers \ alive
  /\ alive' = alive \cup {w}
  /\ pc' = [pc EXCEPT ![w] = Booting]
  /\ UNCHANGED <<lock, leader, started, armed, enabled, threadVars, slot, lapsed,
                 bounds>>

Elect(w, c) ==
  \/ Try(w, c) \/ Check(w, c) \/ Renew(w, c)
  \/ Won(w, c) \/ Lost(w, c) \/ Start(w, c)

Maintain(w, t) ==
  \/ Wake(w, t) \/ Exit(w, t) \/ Acquire(w, t) \/ Defer(w, t)
  \/ EndRun(w, t) \/ EndLocalRun(w, t)

RedisFails(w, t) == AcquireLocally(w, t) \/ ReleaseFails(w, t)

Next ==
  \/ \E w \in Workers : \/ Watch(w) \/ Crash(w) \/ Restart(w)
                        \/ SwitchOff(w) \/ SwitchOn(w)
  \/ \E w \in Workers, c \in Callers : Elect(w, c) \/ ElectionFails(w, c)
  \/ \E w \in Workers, t \in Threads : Maintain(w, t) \/ RedisFails(w, t)
  \/ LockExpires
  \/ SlotExpires

Spec == Init /\ [][Next]_vars

(* The watch thread of a live worker goes on (its calls of Redis return or   *)
(* time out), admin handlers and runs come to an end, and Redis drops a lock *)
(* whose time is up.                                                         *)
FairSpec ==
  /\ Spec
  /\ \A w \in Workers : /\ WF_vars(Watch(w))
                        /\ \A c \in Callers : WF_vars(Elect(w, c))
                        /\ \A t \in Threads : WF_vars(Maintain(w, t))
  /\ WF_vars(LockExpires /\ ~Kept(lock))

-----------------------------------------------------------------------------
(* Properties.                                                              *)

(* leader.py: "only one process runs background jobs".  Unless a lock has    *)
(* lapsed, whoever believes to lead, or is about to, owns the lock, and so   *)
(* nobody else does - whatever the watch thread and the admin handler of     *)
(* each worker read and write in between.                                    *)
LeaderOwnsLock ==
  ~lapsed => \A w \in Workers :
    leader[w] \/ (\E c \in Callers : pc[w][c] = "won") => lock = w

(* maintenance_gate.py: "they must not run at the same time".  Unless a lock *)
(* has lapsed, at most one thread of all workers runs, threads that were     *)
(* told to stop and still run included.                                      *)
OneRunAtATime ==
  ~lapsed => \A w, v \in Workers, t, u \in Threads :
    loop[w][t] = "run" /\ loop[v][u] = "run" => <<w, t>> = <<v, u>>

(* A run gives back its own slot only: even one whose lock has lapsed never  *)
(* frees the slot of its successor (compare_and_delete).                     *)
ReleasesOwnSlot ==
  [][\A w \in Workers, t \in Threads :
       slot = <<w, t>> /\ slot' # slot /\ loop[w][t] = "run"
         => loop'[w][t] = "sleep" \/ disruptions' # disruptions]_vars

(* The strengthening the proofs need: a run owns the slot; whoever leads,    *)
(* watches or makes the second attempt has a watch thread; the dead do       *)
(* nothing.                                                                  *)
RunnerOwnsSlot ==
  ~lapsed => \A w \in Workers, t \in Threads :
    loop[w][t] = "run" => slot = <<w, t>>

LeaderIsArmed ==
  \A w \in Workers :
    leader[w] \/ (\E c \in {"watch", "again"} : pc[w][c] # "idle") => armed[w]

DeadAreStill ==
  \A w \in Workers \ alive :
    pc[w] = AtRest /\ loop[w] = NoLoop /\ ~leader[w] /\ ~armed[w]

IInv ==
  TypeOK /\ LeaderOwnsLock /\ RunnerOwnsSlot /\ LeaderIsArmed /\ DeadAreStill

(* leader.py, "Critical": the lock a dead worker leaves behind does not      *)
(* leave the others without a leader.  As long as a worker whose watch       *)
(* thread was armed lives, there is a leader again and again.                *)
LeaderElected ==
  []<>((\E w \in alive : armed[w]) => \E w \in alive : leader[w])

(* settings_store.py: enabling maintenance on a worker that does not lead    *)
(* is to "signal any leader".  So once it stays enabled, some thread runs    *)
(* the loop.                                                                 *)
EnabledIsServed ==
  []<>(~enabled \/ \E w \in Workers, t \in Threads : loop[w][t] # "off")
=============================================================================
