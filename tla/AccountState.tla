---------------------------- MODULE AccountState ----------------------------
(***************************************************************************)
(* The scheduling state of ONE account and the three copies of it:         *)
(*   row    the account_pool row in PostgreSQL (settings_pg.py),           *)
(*   hot    the status record in Redis (ready_redis.py),                   *)
(*   index  its membership in the ready or the cooldown ZSET.              *)
(* A patch is stamped with a number from the Redis counter pool:state_seq. *)
(* Requests that report an outcome patch hot and append an event for the   *)
(* writer (publish_account_state, publish_account_stats); admin actions    *)
(* and probes commit the row themselves and then copy it to hot            *)
(* (patch_pool_meta, sync_account).  Accounts do not share any of this     *)
(* state, so one account is enough.                                        *)
(*                                                                         *)
(* A status record is a set of flags and a label:                          *)
(*   "disabled"  enabled = false                                           *)
(*   "stack"     cooldown_count > 0 and status_stack is not empty          *)
(*   "until"     cooldown_until is in the future                           *)
(* The clock does not recover an account (PROBE_ONLY_COOLDOWN_RECOVERY).   *)
(* Token expiry and quota disabling are not modelled.                      *)
(*                                                                         *)
(* An operator introduced as a seeded fault is a mutated form of the       *)
(* definition after it; no action uses it.                                 *)
(***************************************************************************)
EXTENDS Naturals, Sequences

CONSTANTS
  Requests,        \* requests that report an outcome of the account
  Operators,       \* admin and probe calls
  Outcomes,        \* which of the request outcomes are considered
  Controls,        \* which of the control-plane calls are considered
  MaxDisruptions   \* bound: Redis errors, process crashes and index rebuilds

Procs == Requests \cup Operators

Flags == {"disabled", "stack", "until"}

Labels == {"normal", "cooldown", "disabled"}

(* A patch adds and removes flags; an empty label leaves pool_status alone. *)
Patch == [add : SUBSET Flags, del : SUBSET Flags, label : Labels \cup {""}]

(* report_failure, and its follow-up touch_account_stats. *)
CoolPatch == [add |-> {"stack", "until"}, del |-> {}, label |-> "cooldown"]

(* Seeded fault: the follow-up leaves cooldown_until out.                    *)
NotePatchBare == [add |-> {}, del |-> {}, label |-> ""]

NotePatch == [add |-> {"until"}, del |-> {}, label |-> ""]

(* apply_free_usage_cooldown, preceded by block_model, which touches none of *)
(* the flags but takes a number like any other patch.                        *)
FreePatch == [add |-> {"stack", "until"}, del |-> {"disabled"}, label |-> "cooldown"]
NoPatch   == [add |-> {}, del |-> {}, label |-> ""]

(* set_account_enabled. *)
DisablePatch == [add |-> {"disabled"}, del |-> {}, label |-> "disabled"]
EnablePatch  == [add |-> {}, del |-> {"disabled", "until"}, label |-> "normal"]

(* clear_account_cooldown, record_model_probe_outcome(available=True). *)
ClearPatch == [add |-> {}, del |-> {"stack", "until"}, label |-> "normal"]

RequestPatches ==
  [success |-> <<NoPatch>>,
   failure |-> <<CoolPatch, NotePatch>>,
   quota   |-> <<NoPatch, FreePatch, NotePatch>>]

ControlPatches ==
  [disable |-> <<DisablePatch>>,
   enable  |-> <<EnablePatch>>,
   clear   |-> <<ClearPatch>>,
   probe_fail |-> <<NoPatch, FreePatch, NoPatch>>]

ASSUME AccountConstants ==
  /\ Requests \cap Operators = {}
  /\ Outcomes \subseteq DOMAIN RequestPatches
  /\ Controls \subseteq DOMAIN ControlPatches
  /\ MaxDisruptions \in Nat

Nobody == "none"

VARIABLES
  seq,          \* the Redis counter pool:state_seq:<account>
  row,          \* [ver, flags]: state_version and flags of the row
  hot,          \* [ver, flags, label]: pool:status:<account>
  index,        \* "ready", "cooldown" or "none": the ZSET that lists it
  stream,       \* events appended and not yet consumed by the writer
  outcome,      \* what each process set out to report
  pc,           \* where a process is in patch_account_pool_meta
  path,         \* which branch of it: "state", "stats" or "sync"
  todo,         \* patches the process still has to make, current one first
  cur,          \* the patch it is about to apply to hot
  my,           \* the number it was given
  seen,         \* the hot record it read
  rebuild,      \* the row a rebuild_ready_index has read, or {}
  epoch,        \* history: control-plane commits so far
  born,         \* history: epoch in which a process took its number
  disruptions

procVars == <<outcome, pc, path, todo, cur, my, seen, born>>
hotVars  == <<hot, index>>
vars == <<seq, row, hotVars, stream, procVars, rebuild, epoch, disruptions>>

NoHot == [ver |-> 0, flags |-> {}, label |-> "normal"]

PCs == {"start", "stamp", "read", "write", "index", "append", "done"}

Max2(a, b) == IF a >= b THEN a ELSE b

Row   == [ver : Nat, flags : SUBSET Flags]
Hot   == [ver : Nat, flags : SUBSET Flags, label : Labels]
Event == [kind : {"state", "stats"}, seq : Nat, patch : Patch, born : Nat]

TypeOK ==
  /\ seq \in Nat
  /\ row \in Row
  /\ hot \in Hot
  /\ index \in {"ready", "cooldown", "none"}
  /\ stream \subseteq Event
  /\ outcome \in [Procs -> Outcomes \cup Controls \cup {Nobody}]
  /\ pc \in [Procs -> PCs]
  /\ path \in [Procs -> {"state", "stats", "sync"}]
  /\ todo \in [Procs -> Seq(Patch)]
  /\ cur \in [Procs -> Patch]
  /\ my \in [Procs -> Nat]
  /\ seen \in [Procs -> Hot]
  /\ rebuild \in SUBSET Row
  /\ epoch \in Nat
  /\ born \in [Procs -> Nat]
  /\ disruptions \in 0..MaxDisruptions

Init ==
  /\ seq = 0
  /\ row = [ver |-> 0, flags |-> {}]
  /\ hot = NoHot
  /\ index = "ready"
  /\ stream = {}
  /\ outcome = [p \in Procs |-> Nobody]
  /\ pc = [p \in Procs |-> "start"]
  /\ path = [p \in Procs |-> "sync"]
  /\ todo = [p \in Procs |-> <<>>]
  /\ cur = [p \in Procs |-> NoPatch]
  /\ my = [p \in Procs |-> 0]
  /\ seen = [p \in Procs |-> NoHot]
  /\ rebuild = {}
  /\ epoch = 0
  /\ born = [p \in Procs |-> 0]
  /\ disruptions = 0

Disrupt ==
  /\ disruptions < MaxDisruptions
  /\ disruptions' = disruptions + 1

-----------------------------------------------------------------------------
(* Status records.                                                          *)

(* Seeded fault: a status that neither the index nor the row knows.         *)
(* The row's own derivation of pool_status: disabled outranks cooldown. *)
DeriveLabel(flags) ==
  IF "disabled" \in flags THEN "disabled"
  ELSE IF flags # {} THEN "cooldown"
  ELSE "normal"

PatchFlags(flags, p) == (flags \ p.del) \cup p.add

PatchHot(h, p, ver) ==
  [ver |-> ver,
   flags |-> PatchFlags(h.flags, p),
   label |-> IF p.label = "" THEN h.label ELSE p.label]

(* _status_active, and the branch of apply_status_patch before it. *)
IndexOf(h) ==
  IF "until" \in h.flags \/ h.label = "cooldown" THEN "cooldown"
  ELSE IF "disabled" \in h.flags \/ h.label = "disabled" THEN "none"
  ELSE "ready"

(* What sync_account writes: every key of the merged row.  A key the patch  *)
(* popped (cooldown_until = None) is missing there, so the hot record keeps *)
(* its own value of it; cooldown_count = 0 and status_stack = [] are there. *)
RowPatch(flags, p) ==
  [add |-> flags,
   del |-> (Flags \ flags) \ (p.del \cap {"until"}),
   label |-> DeriveLabel(flags)]

-----------------------------------------------------------------------------
(* Gateway processes.                                                       *)

(* A request in flight reports: report_success or report_failure. *)
Report(r, what) ==
  /\ pc[r] = "start"
  /\ outcome' = [outcome EXCEPT ![r] = what]
  /\ todo' = [todo EXCEPT ![r] = RequestPatches[what]]
  /\ path' = [path EXCEPT ![r] = IF what = "success" THEN "stats" ELSE "state"]
  /\ pc' = [pc EXCEPT ![r] = "stamp"]
  /\ UNCHANGED <<seq, row, hotVars, stream, cur, my, seen, born, rebuild, epoch,
                 disruptions>>

(* An admin handler or a probe, outside async_pool_state_writes(). *)
Control(o, what) ==
  /\ pc[o] = "start"
  /\ outcome' = [outcome EXCEPT ![o] = what]
  /\ todo' = [todo EXCEPT ![o] = ControlPatches[what]]
  /\ path' = [path EXCEPT ![o] = "sync"]
  /\ pc' = [pc EXCEPT ![o] = "stamp"]
  /\ UNCHANGED <<seq, row, hotVars, stream, cur, my, seen, born, rebuild, epoch,
                 disruptions>>

(* Seeded fault: the number is read and incremented outside Redis, so the   *)
(* counter does not move.                                                   *)
(* next_state_sequence on the asynchronous branch. *)
Stamp(p) ==
  /\ pc[p] = "stamp"
  /\ path[p] # "sync"
  /\ seq' = seq + 1
  /\ my' = [my EXCEPT ![p] = seq + 1]
  /\ cur' = [cur EXCEPT ![p] = Head(todo[p])]
  /\ born' = [born EXCEPT ![p] = epoch]
  /\ pc' = [pc EXCEPT ![p] = "read"]
  /\ UNCHANGED <<row, hotVars, stream, outcome, path, todo, seen, rebuild, epoch,
                 disruptions>>

(* Seeded fault: the row is stamped from its own version alone.             *)
SyncVersionRowOnly(new) == row.ver + 1

(* state_version of a synchronous write that drew the number new. *)
SyncVersion(new) == Max2(row.ver + 1, new)

(* patch_pool_meta: SELECT ... FOR UPDATE, merge, INCR, upsert, commit.  The *)
(* row lock is held from before the INCR until the commit, so no other step  *)
(* reads or writes the row in between.                                       *)
SyncCommit(p) ==
  /\ pc[p] = "stamp"
  /\ path[p] = "sync"
  /\ LET patch == Head(todo[p])
         flags == PatchFlags(row.flags, patch)
         ver   == SyncVersion(seq + 1)
     IN /\ row' = [ver |-> ver, flags |-> flags]
        /\ my' = [my EXCEPT ![p] = ver]
        /\ cur' = [cur EXCEPT ![p] = RowPatch(flags, patch)]
  /\ seq' = seq + 1
  /\ epoch' = epoch + 1
  /\ born' = [born EXCEPT ![p] = epoch + 1]
  /\ pc' = [pc EXCEPT ![p] = "read"]
  /\ UNCHANGED <<hotVars, stream, outcome, path, todo, seen, rebuild, disruptions>>

(* apply_status_patch and apply_success_sequence begin with a GET. *)
ReadHot(p) ==
  /\ pc[p] = "read"
  /\ seen' = [seen EXCEPT ![p] = hot]
  /\ pc' = [pc EXCEPT ![p] = "write"]
  /\ UNCHANGED <<seq, row, hotVars, stream, outcome, path, todo, cur, my, born,
                 rebuild, epoch, disruptions>>

(* The call returns; its local variables are gone. *)
Forget(p) ==
  /\ cur' = [cur EXCEPT ![p] = NoPatch]
  /\ my' = [my EXCEPT ![p] = 0]
  /\ seen' = [seen EXCEPT ![p] = NoHot]
  /\ born' = [born EXCEPT ![p] = 0]

(* The process is through with its current patch. *)
Advance(p) ==
  /\ todo' = [todo EXCEPT ![p] = Tail(todo[p])]
  /\ pc' = [pc EXCEPT ![p] = IF Len(todo[p]) = 1 THEN "done" ELSE "stamp"]
  /\ path' = [path EXCEPT ![p] = IF p \in Requests THEN "state" ELSE "sync"]
  /\ Forget(p)

(* What follows the hot mirror: the event, or nothing on the sync branch. *)
AfterHot(p) ==
  IF path[p] = "sync"
  THEN Advance(p)
  ELSE /\ pc' = [pc EXCEPT ![p] = "append"]
       /\ seen' = [seen EXCEPT ![p] = NoHot]
       /\ UNCHANGED <<todo, path, cur, my, born>>

Newer(p) == IF path[p] = "stats" THEN my[p] > seen[p].ver
            ELSE my[p] >= seen[p].ver

(* Raise the floor of the counter, compare with the record that was READ,   *)
(* then SET: a record written in between is overwritten unseen.             *)
WriteHot(p) ==
  /\ pc[p] = "write"
  /\ seq' = Max2(seq, Max2(seen[p].ver, my[p]))
  /\ IF Newer(p)
     THEN /\ hot' = PatchHot(seen[p], cur[p], my[p])
          /\ IF path[p] = "stats"
             THEN AfterHot(p)
             ELSE /\ pc' = [pc EXCEPT ![p] = "index"]
                  /\ UNCHANGED <<todo, path, cur, my, seen, born>>
     ELSE /\ AfterHot(p)
          /\ UNCHANGED hot
  /\ UNCHANGED <<row, index, stream, outcome, rebuild, epoch, disruptions>>

(* ZREM from both sets and ZADD by the record this process wrote. *)
Index(p) ==
  /\ pc[p] = "index"
  /\ index' = IndexOf(PatchHot(seen[p], cur[p], my[p]))
  /\ AfterHot(p)
  /\ UNCHANGED <<seq, row, hot, stream, outcome, rebuild, epoch, disruptions>>

(* Redis raises in the mirror; every caller swallows the exception. *)
HotFails(p) ==
  /\ pc[p] \in {"read", "write", "index"}
  /\ Disrupt
  /\ AfterHot(p)
  /\ UNCHANGED <<seq, row, hotVars, stream, outcome, rebuild, epoch>>

(* XADD of the event. *)
AppendEvent(p) ==
  /\ pc[p] = "append"
  /\ stream' = stream \cup {[kind |-> path[p], seq |-> my[p], patch |-> cur[p],
                             born |-> born[p]]}
  /\ Advance(p)
  /\ UNCHANGED <<seq, row, hotVars, outcome, rebuild, epoch, disruptions>>

(* INCR or XADD raises on the asynchronous branch: the caller makes the     *)
(* same patch on the synchronous branch.  The exception may hide an XADD    *)
(* that Redis executed.                                                     *)
PublishFails(p) ==
  /\ \/ /\ pc[p] = "stamp"
        /\ path[p] # "sync"
        /\ UNCHANGED stream
     \/ /\ pc[p] = "append"
        /\ \/ UNCHANGED stream
           \/ stream' = stream \cup {[kind |-> path[p], seq |-> my[p],
                                      patch |-> cur[p], born |-> born[p]]}
  /\ Disrupt
  /\ path' = [path EXCEPT ![p] = "sync"]
  /\ pc' = [pc EXCEPT ![p] = "stamp"]
  /\ Forget(p)
  /\ UNCHANGED <<seq, row, hotVars, outcome, todo, rebuild, epoch>>

(* The process dies between two of its steps. *)
Crash(p) ==
  /\ pc[p] \notin {"start", "done"}
  /\ Disrupt
  /\ pc' = [pc EXCEPT ![p] = "done"]
  /\ todo' = [todo EXCEPT ![p] = <<>>]
  /\ Forget(p)
  /\ UNCHANGED <<seq, row, hotVars, stream, outcome, path, rebuild, epoch>>

-----------------------------------------------------------------------------
(* The writer.                                                              *)

(* Seeded fault: the version of the event is not compared with the row's.   *)
(* One event of a committed batch, under the row lock.  _process applies    *)
(* the account_stats events of a batch before its account_state events and  *)
(* a batch may miss older events that another writer or the pending list    *)
(* holds, so the events take effect in any order.  A statistics event that  *)
(* carries a number raises state_version (GREATEST); a state event applies  *)
(* only if its number is above state_version.                               *)
Consume(e) ==
  /\ e \in stream
  /\ stream' = stream \ {e}
  /\ row' = IF e.kind = "stats"
            THEN [row EXCEPT !.ver = Max2(row.ver, e.seq)]
            ELSE IF e.seq > row.ver
                 THEN [ver |-> e.seq, flags |-> PatchFlags(row.flags, e.patch)]
                 ELSE row
  /\ UNCHANGED <<seq, hotVars, procVars, rebuild, epoch, disruptions>>

-----------------------------------------------------------------------------
(* rebuild_ready_index: drop the ZSETs, read the row, overwrite the hot     *)
(* record without comparing versions.                                       *)

RebuildRead ==
  /\ rebuild = {}
  /\ Disrupt
  /\ index' = "none"
  /\ rebuild' = {row}
  /\ UNCHANGED <<seq, row, hot, stream, procVars, epoch>>

RebuildWrite ==
  /\ \E r \in rebuild :
       LET h == [ver |-> r.ver, flags |-> r.flags, label |-> DeriveLabel(r.flags)]
       IN /\ hot' = h
          /\ index' = IndexOf(h)
  /\ rebuild' = {}
  /\ UNCHANGED <<seq, row, stream, procVars, epoch, disruptions>>

Step(p) ==
  \/ Stamp(p) \/ SyncCommit(p)
  \/ ReadHot(p) \/ WriteHot(p) \/ Index(p) \/ HotFails(p)
  \/ AppendEvent(p) \/ PublishFails(p)
  \/ Crash(p)

Next ==
  \/ \E r \in Requests, what \in Outcomes : Report(r, what)
  \/ \E o \in Operators, what \in Controls : Control(o, what)
  \/ \E p \in Procs : Step(p)
  \/ \E e \in stream : Consume(e)
  \/ RebuildRead
  \/ RebuildWrite

Spec == Init /\ [][Next]_vars

-----------------------------------------------------------------------------
(* Properties.                                                              *)

InFlight(p) == pc[p] \in {"read", "write", "index", "append"}

(* The counter is at least every version in either store, every queued      *)
(* number and everything a process remembers, so the next INCR is newer     *)
(* than all of them (_raise_state_sequence_floor, patch_pool_meta).         *)
SeqDominates ==
  /\ row.ver <= seq
  /\ hot.ver <= seq
  /\ \A e \in stream : e.seq <= seq
  /\ \A p \in Procs : my[p] <= seq /\ seen[p].ver <= seq
  /\ \A r \in rebuild : r.ver <= seq

(* No two patches carry the same number: the writer drops an event whose    *)
(* number equals state_version, so a shared one would lose a patch.         *)
StampsUnique ==
  /\ \A p, q \in Procs : InFlight(p) /\ InFlight(q) /\ p # q => my[p] # my[q]
  /\ \A e \in stream, p \in Procs : InFlight(p) => e.seq # my[p]
  /\ \A e, f \in stream : e.seq = f.seq => e = f

(* "A delayed request failure cannot overwrite a later probe or admin       *)
(* action" (apply_pool_state_event): what was stamped before the last       *)
(* control-plane commit is already too old for the row, whether it is still *)
(* on its way to the stream or waits in it.                                 *)
AdminActionPrevails ==
  /\ \A e \in stream : e.born < epoch => e.seq <= row.ver
  /\ \A p \in Procs : InFlight(p) /\ born[p] < epoch => my[p] <= row.ver

(* The strengthening the proofs need: a busy process has a patch left, and  *)
(* only the asynchronous branch appends.                                    *)
Busy(p) == pc[p] \notin {"start", "done"}

ProcsConsistent ==
  \A p \in Procs : /\ Busy(p) => todo[p] # <<>>
                   /\ pc[p] = "append" => path[p] # "sync"

IInv ==
  /\ TypeOK
  /\ ProcsConsistent
  /\ SeqDominates
  /\ StampsUnique
  /\ AdminActionPrevails

(* The flags of the row change only together with a rising state_version:   *)
(* an old state never overwrites a new one (README.md, state_version).      *)
RowMovesForward == [][row'.flags # row.flags => row'.ver > row.ver]_vars

(* Everybody has reported and the writer has caught up. *)
Quiet ==
  /\ \A p \in Procs : pc[p] \in {"start", "done"}
  /\ stream = {}
  /\ rebuild = {}

Failed(r) == outcome[r] \in {"failure", "quota"}

(* Failures alone, in any number and order of delivery, leave the account   *)
(* cooling in PostgreSQL once the writer has caught up (report_failure:     *)
(* every failure "stacks a durable cooldown status").                       *)
FailuresCoolTheRow ==
  Quiet /\ disruptions = 0
    /\ (\E r \in Requests : Failed(r))
    /\ (\A r \in Requests : outcome[r] # "success")
    /\ (\A o \in Operators : outcome[o] \in {Nobody, "probe_fail"})
    => row.flags \cap {"stack", "until"} # {}

(* report_success: "Ordinary chat/API success must NOT clear, rewrite, or   *)
(* re-derive cooldown status".  So a failure cools the row whatever         *)
(* successes are reported beside it.                                        *)
DurableCooldown ==
  Quiet /\ disruptions = 0
    /\ (\E r \in Requests : Failed(r))
    /\ (\A o \in Operators : outcome[o] = Nobody)
    => row.flags \cap {"stack", "until"} # {}
=============================================================================
