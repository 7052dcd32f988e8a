------------------------------ MODULE Background ------------------------------
(* What goes on behind the requests, one part at a time: the sweep that      *)
(* probes the accounts, the administrator's import and export jobs, and a    *)
(* login with a device code.  The parts of this module share no state: one   *)
(* of them runs in a behaviour and the others rest in their initial state.   *)
EXTENDS Naturals, Sequences

CONSTANTS
  MaxEvents,      \* bound of each part: what happens to it from outside
  Nobody, Absent,
  Accounts, Batch, KickAt,   \* HealthSweep
  Items, Owner,              \* AdminJobs
  Workers, Home              \* DeviceLogin

VARIABLES
  part,
  \* HealthSweep
  auto, live, rows, order, fresh, covered, started, pc, batch, tally, attempted, rejoined, changes,
  \* AdminJobs
  kind, at, result, finished, named, accepted, here, there, faults, disturbed,
  \* DeviceLogin
  provider, thread, status, mirror, stored, overdue, lapses

sweepVars == <<auto, live, rows, order, fresh, covered, started, pc, batch, tally, attempted,
  rejoined, changes>>
jobVars == <<kind, at, result, finished, named, accepted, here, there, faults, disturbed>>
loginVars == <<provider, thread, status, mirror, stored, overdue, lapses>>
vars == <<part, sweepVars, jobVars, loginVars>>
-----------------------------------------------------------------------------
S == INSTANCE HealthSweep WITH MaxEvents <- MaxEvents["sweep"], events <- changes
J == INSTANCE AdminJobs WITH
       MaxEvents <- MaxEvents["jobs"], pc <- at, stored <- accepted, events <- faults
D == INSTANCE DeviceLogin WITH
       MaxEvents <- MaxEvents["login"], pc <- thread, events <- lapses

\* A session that is gone is no session that has ended.
ASSUME AbsentIsNoEnd == Absent \notin D!Ended
\* The cookies and files of a job are counted.
ASSUME ItemsAreCounted == Items \subseteq Nat /\ J!IsFiniteSet(Items)
-----------------------------------------------------------------------------
Init ==
  /\ part \in {"sweep", "jobs", "login"}
  /\ S!Init /\ (part # "sweep" => auto = FALSE)
  /\ J!Init /\ (part # "jobs" => kind = "sso")
  /\ D!Init

Sweep == part = "sweep" /\ S!Next /\ UNCHANGED <<part, jobVars, loginVars>>
Jobs == part = "jobs" /\ J!Next /\ UNCHANGED <<part, sweepVars, loginVars>>
Login == part = "login" /\ D!Next /\ UNCHANGED <<part, sweepVars, jobVars>>
Next == Sweep \/ Jobs \/ Login

\* The threads of the part that runs go on, as their modules say.
Spec ==
  /\ Init /\ [][Next]_vars
  /\ WF_vars(part = "sweep" /\ S!Work /\ UNCHANGED <<part, jobVars, loginVars>>)
  /\ WF_vars(part = "jobs" /\ J!Thread /\ UNCHANGED <<part, sweepVars, loginVars>>)
-----------------------------------------------------------------------------
\* The parts' properties, under the names they have there.
NoneSkipped == S!NoneSkipped
CoolingIsProbed == S!CoolingIsProbed
OverTellsTruth == J!OverTellsTruth
JobEnds == J!JobEnds
LoginTellsTruth == D!LoginTellsTruth
=============================================================================
