----------------------------- MODULE TokenRefresh -----------------------------
(***************************************************************************)
(* How several gateway workers renew the credentials of one account:       *)
(* upstream/oidc_auth.py with the request path that calls it               *)
(* (pool/auth.py), the storage of the credentials (pool/auth_store.py,     *)
(* store/accounts_pg.py) and the renewal marks of the scheduling row       *)
(* (pool/account_pool.py).                                                 *)
(*                                                                         *)
(* The provider rotates: an exchange uses a refresh token up and returns   *)
(* the next generation.  Generations number access and refresh tokens, a   *)
(* later one expires later.  A worker keeps what it has read of an account *)
(* for ten minutes, and only its own writes clear that copy; the copy of   *)
(* the whole map, kept for two seconds, is part of it here.                *)
(*                                                                         *)
(* A request (load_credentials_by_id) and a sweep (refresh_all_accounts)   *)
(* are processes of a worker.  Both renew under a lock of their worker and *)
(* a slot in Redis.  What the environment does beside them is `Rare`: it   *)
(* happens at most once, at most MaxRare things of it in all, and          *)
(* `happened` remembers it, because each property holds in the absence of  *)
(* some of it.                                                             *)
(*                                                                         *)
(* An operator introduced as a seeded fault is a mutated form of the       *)
(* definition after it; no action uses it.                                 *)
(***************************************************************************)
EXTENDS Naturals, FiniteSets

CONSTANTS
  Workers,
  Requests, Sweeps,   \* the processes, by what they run
  Home,               \* the worker of each process
  HardDelete,         \* GROK2API_DELETE_INVALID_REFRESH
  Rare,               \* what may happen beside the processes
  MaxRare,            \* bound: how many of these
  MaxGen              \* bound: generations of tokens

Procs == Requests \cup Sweeps
Nobody == "nobody"
Left == "left"         \* the owner of a slot that died holding it

RareKinds == {"lapsed", "lost", "crash", "rewrite", "import", "removed",
              "revoked"}
Noted == {"stale", "deleted"}   \* what the processes did themselves

ASSUME RefreshConstants ==
  /\ Home \in [Procs -> Workers]
  /\ Requests \cap Sweeps = {}
  /\ HardDelete \in BOOLEAN
  /\ Rare \subseteq RareKinds
  /\ MaxRare \in Nat
  /\ MaxGen \in Nat \ {0}

ASSUME NobodyHere == {Nobody, Left} \cap (Procs \cup Workers) = {}

VARIABLES
  db,         \* the stored entry
  cache,      \* what each worker remembers of it
  row,        \* its scheduling row, as far as renewal reads or writes it
  good,       \* the refresh tokens the provider accepts
  spent,      \* those it has accepted once and refuses now
  issued,     \* how many generations it has given out
  age,        \* how far each access token is: 0 fresh, 1 near expiry, 2 expired
  lock,       \* the renewal lock of each worker
  slot,       \* g2a:lock:token_refresh:<account>
  pc,         \* where each process is
  view,       \* the entry it was called with
  got,        \* the entry it has in hand
  mode,       \* why it renews
  bulk,       \* a rewrite of the whole map in progress: its worker and snapshot
  happened

stored  == <<db, cache>>
grants  == <<good, spent, issued>>
locks   == <<lock, slot>>
local   == <<pc, view, got, mode>>
vars == <<db, cache, row, good, spent, issued, age, lock, slot, pc, view, got, mode, bulk, happened>>

Gens == 1..MaxGen
Entry == [rt: 0..MaxGen, key: 0..MaxGen, invalid: BOOLEAN, sso: BOOLEAN]
Absent == [rt |-> 0, key |-> 0, invalid |-> FALSE, sso |-> FALSE]
Row == [expired: BOOLEAN, enabled: BOOLEAN, ssoWait: BOOLEAN]
NewRow == [expired |-> FALSE, enabled |-> TRUE, ssoWait |-> FALSE]

Positions ==
  {"idle", "mark", "lock", "slot", "recheck", "exchange", "persist", "renewed",
   "failed", "revoked", "relock", "reslot", "confirm", "sso", "invalidate",
   "kick", "delete"}

TypeOK ==
  /\ db \in Entry
  /\ cache \in [Workers -> Entry]
  /\ row \in Row
  /\ good \subseteq Gens /\ spent \subseteq Gens
  /\ issued \in Gens
  /\ age \in [Gens -> 0..2]
  /\ lock \in [Workers -> Procs \cup {Nobody}]
  /\ slot \in Procs \cup {Nobody, Left}
  /\ pc \in [Procs -> Positions]
  /\ view \in [Procs -> Entry]
  /\ got \in [Procs -> Entry]
  /\ mode \in [Procs -> {"near", "expired", "second", "sso"}]
  /\ bulk \in [by: Workers \cup {Nobody}, view: Entry]
  /\ happened \subseteq RareKinds \cup Noted

NoBulk == [by |-> Nobody, view |-> Absent]

(* An account as it is imported or logged in: with or without a refresh      *)
(* token, with or without a saved SSO cookie.                                *)
Init ==
  /\ \E rt \in {0, 1}, sso \in BOOLEAN :
       /\ db = [rt |-> rt, key |-> 1, invalid |-> FALSE, sso |-> sso]
       /\ good = {rt} \ {0}
  /\ cache = [w \in Workers |-> Absent]
  /\ row = NewRow
  /\ issued = 1 /\ spent = {}
  /\ age = [g \in Gens |-> 0]
  /\ lock = [w \in Workers |-> Nobody]
  /\ slot = Nobody
  /\ pc = [p \in Procs |-> "idle"]
  /\ view = [p \in Procs |-> Absent]
  /\ got = [p \in Procs |-> Absent]
  /\ mode = [p \in Procs |-> "near"]
  /\ bulk = NoBulk
  /\ happened = {}

-----------------------------------------------------------------------------
(* Reading and comparing entries.                                           *)

(* read_auth_entry: the remembered entry as long as there is one.            *)
Read(w) == IF cache[w] # Absent THEN cache[w] ELSE db

(* read_auth_map, whose own short-lived copy may be as old as the entry's.   *)
Snapshots(w) == {db, Read(w)}

Remember(w, e) == [cache EXCEPT ![w] = e]
Forget(w) == [cache EXCEPT ![w] = Absent]

(* Seeded fault: nothing is compared.                                       *)
ChangedNever(before, after) == FALSE

(* _credential_generation_changed *)
Changed(before, after) == before.rt # after.rt \/ before.key # after.key

Expired(e) == e.key # 0 /\ age[e.key] = 2
Near(e)    == e.key # 0 /\ age[e.key] = 1

(* The answers to a question about expiry that looks less far ahead than the *)
(* two minutes at which a token counts as near it.                           *)
TooOld(e) == IF Near(e) THEN BOOLEAN ELSE {Expired(e)}

(* merge_durable_account_fields: a saved SSO cookie outlives every write.    *)
KeepDurable(e, old) == [e EXCEPT !.sso = @ \/ old.sso]

(* Seeded fault: the imported pair of tokens always stays.                   *)
MergeImportedFlat(e, old) == KeepDurable(e, old)

(* merge_imported_account_fields: the pair of tokens that expires later      *)
(* stays, and a refresh token is carried over to an import without one.      *)
MergeImported(e, old) ==
  LET kept == KeepDurable(e, old)
  IN  IF old.key >= e.key
      THEN [kept EXCEPT !.key = old.key, !.rt = IF old.rt # 0 THEN old.rt ELSE @]
      ELSE [kept EXCEPT !.rt = IF @ = 0 THEN old.rt ELSE @]

(* Seeded fault: the patch takes the place of the row.                       *)
(* The patches of mark_account_expired and record_renew_failure, of          *)
(* clear_account_expired, of kick_from_pool.                                 *)
OutOfRotation(r) == [r EXCEPT !.expired = TRUE]
BackInRotation(r) == [r EXCEPT !.expired = FALSE, !.ssoWait = FALSE, !.enabled = TRUE]
Kicked(r) == [r EXCEPT !.enabled = FALSE]

-----------------------------------------------------------------------------
(* The steps of a process.                                                  *)

At(p, place) == pc[p] = place
Goto(p, place) == pc' = [pc EXCEPT ![p] = place]

(* Seeded fault: the slot is deleted whoever owns it.                        *)
ReleaseAny(p) ==
  /\ lock' = [lock EXCEPT ![Home[p]] = IF @ = p THEN Nobody ELSE @]
  /\ slot' = Nobody

(* Leaving the two context managers; the slot is deleted only by its owner.  *)
Release(p) ==
  /\ lock' = [lock EXCEPT ![Home[p]] = IF @ = p THEN Nobody ELSE @]
  /\ slot' = IF slot = p THEN Nobody ELSE slot

Happens(kind) ==
  /\ kind \in Rare \ happened
  /\ Cardinality(happened \ Noted) < MaxRare
  /\ happened' = happened \cup {kind}

(* The call is over: its variables are gone.                                 *)
Rest(p) ==
  /\ Goto(p, "idle")
  /\ view' = [view EXCEPT ![p] = Absent]
  /\ got' = [got EXCEPT ![p] = Absent]
  /\ mode' = [mode EXCEPT ![p] = "near"]

(* What load_credentials_by_id makes of the entry it is given back: an old   *)
(* token is renewed once more, and without a refresh token the account goes. *)
GiveBack(p, e) ==
  \/ /\ p \in Sweeps \/ mode[p] = "second" \/ FALSE \in TooOld(e)
     /\ Rest(p)
  \/ /\ p \in Requests /\ mode[p] # "second" /\ TRUE \in TooOld(e)
     /\ Goto(p, IF e.rt # 0 THEN "lock" ELSE "delete")
     /\ mode' = [mode EXCEPT ![p] = "second"]
     /\ view' = [view EXCEPT ![p] = e]
     /\ got' = [got EXCEPT ![p] = Absent]

(* load_credentials_by_id and the first lines of ensure_fresh_entry.         *)
RequestReads(p) ==
  LET w == Home[p]  e == Read(w)
  IN  /\ At(p, "idle") /\ e # Absent
      /\ cache' = Remember(w, e)
      /\ view' = [view EXCEPT ![p] = e]
      /\ \/ /\ e.rt # 0 /\ Expired(e)
            /\ mode' = [mode EXCEPT ![p] = "expired"]
            /\ Goto(p, "mark")
         \/ /\ e.rt # 0 /\ Near(e)
            /\ mode' = [mode EXCEPT ![p] = "near"]
            /\ Goto(p, "lock")
         \/ /\ e.rt = 0 /\ TRUE \in TooOld(e)
            /\ Goto(p, "delete")
            /\ UNCHANGED mode
      /\ UNCHANGED <<db, row, grants, age, locks, got, bulk, happened>>

(* mark_account_expired before the renewal is tried.                         *)
MarkExpired(p) ==
  /\ At(p, "mark")
  /\ row' = OutOfRotation(row)
  /\ Goto(p, "lock")
  /\ UNCHANGED <<stored, grants, age, locks, view, got, mode, bulk, happened>>

(* The selection of refresh_all_accounts: every expired account leaves the   *)
(* rotation, also those the batch then has no room for.                      *)
SweepSelects(p) ==
  /\ At(p, "idle")
  /\ \E e \in Snapshots(Home[p]), room \in BOOLEAN, onlyNear \in BOOLEAN :
       LET wanted == \/ e.rt = 0 /\ (Expired(e) \/ e.sso)
                     \/ e.rt # 0 /\ e.invalid /\ e.sso
                     \/ e.rt # 0 /\ ~e.invalid /\ (onlyNear => age[e.key] # 0)
       IN  /\ e # Absent
           /\ row' = IF Expired(e) THEN OutOfRotation(row) ELSE row
           /\ IF wanted /\ room
              THEN /\ view' = [view EXCEPT ![p] = e]
                   /\ mode' = [mode EXCEPT ![p] = "near"]
                   /\ Goto(p, IF e.rt = 0 THEN "relock" ELSE "lock")
              ELSE UNCHANGED <<view, mode, pc>>
  /\ UNCHANGED <<stored, grants, age, locks, got, bulk, happened>>

(* _account_refresh_lock, for the renewal and for its confirmation.          *)
TakeLock(p) ==
  /\ At(p, "lock") \/ At(p, "relock")
  /\ lock[Home[p]] = Nobody
  /\ lock' = [lock EXCEPT ![Home[p]] = p]
  /\ Goto(p, IF At(p, "lock") THEN "slot" ELSE "reslot")
  /\ UNCHANGED <<stored, row, grants, age, slot, view, got, mode, bulk, happened>>

(* Seeded fault: SET without NX.                                             *)
TakeSlotOver(p) ==
  /\ At(p, "slot") \/ At(p, "reslot")
  /\ slot' = p
  /\ Goto(p, IF At(p, "slot") THEN "recheck" ELSE "confirm")
  /\ UNCHANGED <<stored, row, grants, age, lock, view, got, mode, bulk, happened>>

(* _distributed_refresh_slot: SET NX. *)
TakeSlot(p) ==
  /\ At(p, "slot") \/ At(p, "reslot")
  /\ slot = Nobody
  /\ slot' = p
  /\ Goto(p, IF At(p, "slot") THEN "recheck" ELSE "confirm")
  /\ UNCHANGED <<stored, row, grants, age, lock, view, got, mode, bulk, happened>>

(* Forty seconds have passed, of waiting or of errors of Redis.  The renewal *)
(* uses what somebody else has stored meanwhile and is given up otherwise,   *)
(* by a request only if its token had expired; a confirmation is skipped.    *)
SlotBusy(p) ==
  LET w == Home[p]  e == Read(w)
  IN  /\ At(p, "slot") \/ At(p, "reslot")
      /\ Release(p)
      /\ cache' = IF At(p, "slot") THEN Remember(w, e) ELSE cache
      /\ IF At(p, "slot") /\ e # Absent /\ Changed(view[p], e) THEN GiveBack(p, e)
         ELSE IF p \in Requests /\ mode[p] = "near" THEN GiveBack(p, view[p])
         ELSE Rest(p)
      /\ UNCHANGED <<db, row, grants, age, bulk, happened>>

(* What the process reads under the slot may be what its worker remembers.   *)
NoteStale(e) == happened' = IF e # db THEN happened \cup {"stale"} ELSE happened

(* refresh_and_persist once both locks are held: a usable generation stored  *)
(* by somebody else is taken over; otherwise the entry to renew is the       *)
(* latest that was read, or the caller's if the account is gone.             *)
Recheck(p) ==
  LET w == Home[p]  e == Read(w)
  IN  /\ At(p, "recheck")
      /\ cache' = Remember(w, e)
      /\ NoteStale(e)
      /\ \/ /\ e # Absent /\ Changed(view[p], e) /\ FALSE \in TooOld(e)
            /\ row' = BackInRotation(row)
            /\ Release(p)
            /\ GiveBack(p, e)
         \/ /\ e = Absent \/ ~Changed(view[p], e) \/ TRUE \in TooOld(e)
            /\ got' = [got EXCEPT ![p] = IF e = Absent THEN view[p] ELSE e]
            /\ Goto(p, "exchange")
            /\ UNCHANGED <<row, locks, view, mode>>
      /\ UNCHANGED <<db, grants, age, bulk>>

Rejected(e) == e.invalid \/ e.rt \notin good

(* The provider takes the token and gives the next generation.               *)
Exchanged(rt) ==
  /\ issued' = issued + 1
  /\ good' = (good \ {rt}) \cup {issued + 1}
  /\ spent' = spent \cup {rt}

NextEntry(e) == [e EXCEPT !.rt = issued + 1, !.key = issued + 1, !.invalid = FALSE]

(* refresh_access_token and entry_from_token_response.                       *)
ExchangeSucceeds(p) ==
  LET e == got[p]
  IN  /\ At(p, "exchange")
      /\ e.rt # 0 /\ ~Rejected(e) /\ issued < MaxGen
      /\ Exchanged(e.rt)
      /\ got' = [got EXCEPT ![p] = NextEntry(e)]
      /\ Goto(p, "persist")
      /\ UNCHANGED <<stored, row, age, locks, view, mode, bulk, happened>>

(* The provider has exchanged the token and the reply is lost.               *)
ExchangeLost(p) ==
  LET e == got[p]
  IN  /\ At(p, "exchange")
      /\ e.rt # 0 /\ ~Rejected(e) /\ issued < MaxGen
      /\ Happens("lost")
      /\ Exchanged(e.rt)
      /\ Release(p)
      /\ Goto(p, "failed")
      /\ got' = [got EXCEPT ![p] = Absent]
      /\ UNCHANGED <<stored, row, age, view, mode, bulk>>

(* A transport error, an error of the provider, or no token to exchange.     *)
ExchangeFails(p) ==
  /\ At(p, "exchange")
  /\ Release(p)
  /\ Goto(p, "failed")
  /\ got' = [got EXCEPT ![p] = Absent]
  /\ UNCHANGED <<stored, row, grants, age, view, mode, bulk, happened>>

(* RefreshRevokedError: invalid_grant, or the entry says so already.         *)
ExchangeRejected(p) ==
  /\ At(p, "exchange")
  /\ got[p].rt # 0 /\ Rejected(got[p])
  /\ Release(p)
  /\ Goto(p, IF p \in Sweeps THEN "relock" ELSE "revoked")
  /\ got' = [got EXCEPT ![p] = Absent]
  /\ UNCHANGED <<stored, row, grants, age, view, mode, bulk, happened>>

(* upsert_account_merged in one transaction, and the worker forgets.         *)
Persist(p) ==
  /\ At(p, "persist")
  /\ db' = KeepDurable(got[p], db)
  /\ cache' = Forget(Home[p])
  /\ Goto(p, "renewed")
  /\ view' = [view EXCEPT ![p] = Absent]
  /\ UNCHANGED <<row, grants, age, locks, got, mode, bulk, happened>>

(* The bounded retries of _persist_refreshed_entry are used up.              *)
PersistFails(p) ==
  /\ At(p, "persist")
  /\ Happens("lost")
  /\ Release(p)
  /\ IF mode[p] = "sso"
     THEN Rest(p)
     ELSE /\ Goto(p, "failed")
          /\ got' = [got EXCEPT ![p] = Absent]
          /\ UNCHANGED <<view, mode>>
  /\ UNCHANGED <<stored, row, grants, age, bulk>>

(* record_renew_success, still under both locks.                             *)
Renewed(p) ==
  /\ At(p, "renewed")
  /\ row' = BackInRotation(row)
  /\ Release(p)
  /\ GiveBack(p, got[p])
  /\ UNCHANGED <<stored, grants, age, bulk, happened>>

-----------------------------------------------------------------------------
(* The handlers of a failed renewal; the locks are free by then.             *)

(* Transient: the last lines of ensure_fresh_entry, of                       *)
(* load_credentials_by_id, the first of _handle_refresh_failure.             *)
Failed(p) ==
  /\ At(p, "failed")
  /\ IF mode[p] = "second" THEN UNCHANGED row ELSE row' = OutOfRotation(row)
  /\ IF p \in Requests /\ mode[p] = "near" THEN GiveBack(p, view[p]) ELSE Rest(p)
  /\ UNCHANGED <<stored, grants, age, locks, bulk, happened>>

(* Rejected: a request looks whether the entry has changed.  A second        *)
(* rejection makes load_credentials_by_id delete the account.                *)
Revoked(p) ==
  LET w == Home[p]  e == Read(w)
  IN  /\ At(p, "revoked")
      /\ IF mode[p] = "second"
         THEN Goto(p, "delete") /\ UNCHANGED <<row, cache, view, got, mode>>
         ELSE /\ cache' = Remember(w, e)
              /\ IF e # Absent /\ Changed(view[p], e)
                 THEN row' = BackInRotation(row) /\ GiveBack(p, e)
                 ELSE row' = OutOfRotation(row) /\ Rest(p)
      /\ UNCHANGED <<db, grants, age, locks, bulk, happened>>

(* Rejected in a sweep: _handle_refresh_failure takes the locks again and    *)
(* compares before it goes on to the saved SSO cookie or to the mark.        *)
Confirm(p) ==
  LET w == Home[p]  e == Read(w)
  IN  /\ At(p, "confirm")
      /\ cache' = Remember(w, e)
      /\ NoteStale(e)
      /\ IF e = Absent
         THEN Release(p) /\ Rest(p) /\ UNCHANGED row
         ELSE IF Changed(view[p], e)
         THEN row' = BackInRotation(row) /\ Release(p) /\ Rest(p)
         ELSE /\ row' = OutOfRotation(row)
              /\ IF e.sso /\ row.ssoWait
                 THEN Release(p) /\ Rest(p)
                 ELSE /\ Goto(p, IF e.sso THEN "sso"
                                 ELSE IF HardDelete THEN "delete" ELSE "invalidate")
                      /\ got' = [got EXCEPT ![p] = IF e.sso THEN e ELSE Absent]
                      /\ view' = [view EXCEPT ![p] = Absent]
                      /\ UNCHANGED <<mode, locks>>
      /\ UNCHANGED <<db, grants, age, bulk>>

(* _try_sso_reauth: the cookie gives a grant of its own, or the next attempt *)
(* waits an hour.                                                            *)
SsoSucceeds(p) ==
  /\ At(p, "sso") /\ issued < MaxGen
  /\ issued' = issued + 1
  /\ good' = good \cup {issued + 1}
  /\ got' = [got EXCEPT ![p] = NextEntry(@)]
  /\ mode' = [mode EXCEPT ![p] = "sso"]
  /\ Goto(p, "persist")
  /\ UNCHANGED <<spent, stored, row, age, locks, view, bulk, happened>>

SsoFails(p) ==
  /\ At(p, "sso")
  /\ row' = [OutOfRotation(row) EXCEPT !.ssoWait = TRUE]
  /\ Release(p)
  /\ Rest(p)
  /\ UNCHANGED <<stored, grants, age, bulk, happened>>

(* mark_refresh_invalid: a transaction on what is stored by now...           *)
Invalidate(p) ==
  /\ At(p, "invalidate")
  /\ db' = IF db = Absent THEN db ELSE [db EXCEPT !.invalid = TRUE]
  /\ cache' = Forget(Home[p])
  /\ Goto(p, "kick")
  /\ UNCHANGED <<row, grants, age, locks, view, got, mode, bulk, happened>>

(* ... and kick_from_pool.                                                   *)
Kick(p) ==
  /\ At(p, "kick")
  /\ row' = Kicked(row)
  /\ Release(p)
  /\ Rest(p)
  /\ UNCHANGED <<stored, grants, age, bulk, happened>>

(* remove_account: the entry and its row go.                                 *)
Delete(p) ==
  /\ At(p, "delete")
  /\ db' = Absent
  /\ cache' = Forget(Home[p])
  /\ row' = NewRow
  /\ happened' = IF db # Absent THEN happened \cup {"deleted"} ELSE happened
  /\ Release(p)
  /\ Rest(p)
  /\ UNCHANGED <<grants, age, bulk>>

(* purge_refresh_invalid_accounts, at the start and in every run.            *)
PurgeSelects(p) ==
  /\ At(p, "idle")
  /\ \E e \in Snapshots(Home[p]) :
       e # Absent /\ ~e.sso /\ (e.invalid \/ (e.rt = 0 /\ Expired(e)))
  /\ Goto(p, IF HardDelete THEN "delete" ELSE "invalidate")
  /\ UNCHANGED <<stored, row, grants, age, locks, view, got, mode, bulk, happened>>

-----------------------------------------------------------------------------
(* Everything else.                                                         *)

(* Time: tokens age, an older one at least as fast; copies and waits end;    *)
(* the slot of a dead owner expires.                                         *)
Age(g) ==
  /\ g <= issued /\ age[g] < 2
  /\ \A h \in 1..(g - 1) : age[h] > age[g]
  /\ age' = [age EXCEPT ![g] = @ + 1]
  /\ UNCHANGED <<stored, row, grants, locks, local, bulk, happened>>

CopyExpires(w) ==
  /\ cache[w] # Absent
  /\ cache' = Forget(w)
  /\ UNCHANGED <<db, row, grants, age, locks, local, bulk, happened>>

SsoWaitEnds ==
  /\ row.ssoWait
  /\ row' = [row EXCEPT !.ssoWait = FALSE]
  /\ UNCHANGED <<stored, grants, age, locks, local, bulk, happened>>

SlotExpires ==
  /\ slot = Left
  /\ slot' = Nobody
  /\ UNCHANGED <<stored, row, grants, age, lock, local, bulk, happened>>

(* The renewing thread of a live owner has died of an error of Redis.        *)
SlotLapses ==
  /\ slot \in Procs
  /\ Happens("lapsed")
  /\ slot' = Nobody
  /\ UNCHANGED <<stored, row, grants, age, lock, local, bulk>>

Crash(w) ==
  /\ Happens("crash")
  /\ pc' = [p \in Procs |-> IF Home[p] = w THEN "idle" ELSE pc[p]]
  /\ view' = [p \in Procs |-> IF Home[p] = w THEN Absent ELSE view[p]]
  /\ got' = [p \in Procs |-> IF Home[p] = w THEN Absent ELSE got[p]]
  /\ mode' = [p \in Procs |-> IF Home[p] = w THEN "near" ELSE mode[p]]
  /\ lock' = [lock EXCEPT ![w] = Nobody]
  /\ slot' = IF slot \in Procs /\ Home[slot] = w THEN Left ELSE slot
  /\ cache' = Forget(w)
  /\ bulk' = IF bulk.by = w THEN NoBulk ELSE bulk
  /\ UNCHANGED <<db, row, grants, age>>

(* The account's owner ends the session at the provider.                     *)
ProviderRevokes ==
  /\ good # {}
  /\ Happens("revoked")
  /\ good' = {}
  /\ spent' = spent \cup good
  /\ UNCHANGED <<stored, row, issued, age, locks, local, bulk>>

(* merge_normalized_accounts under the row lock: a backup, a new login, or   *)
(* an access token alone.                                                    *)
Import(w) ==
  /\ Happens("import")
  /\ \E e \in [rt: 0..MaxGen, key: Gens, invalid: {FALSE}, sso: {FALSE}] :
       /\ \/ /\ e.rt = e.key /\ e.rt \in good \cup spent
             /\ UNCHANGED <<good, issued>>
          \/ /\ e.key = issued + 1 /\ e.rt \in {0, e.key}
             /\ issued' = e.key
             /\ good' = good \cup ({e.rt} \ {0})
       /\ db' = MergeImported(e, db)
  /\ UNCHANGED spent
  /\ cache' = Forget(w)
  /\ UNCHANGED <<row, age, locks, local, bulk>>

AdminRemoves(w) ==
  /\ db # Absent
  /\ Happens("removed")
  /\ db' = Absent
  /\ cache' = Forget(w)
  /\ row' = NewRow
  /\ UNCHANGED <<grants, age, locks, local, bulk>>

(* remove_accounts of other accounts, normalize_auth_file_keys: the map is   *)
(* read, and written back whole with write_auth_map.                         *)
BulkReads(w) ==
  /\ bulk = NoBulk
  /\ Happens("rewrite")
  /\ \E e \in Snapshots(w) : bulk' = [by |-> w, view |-> e]
  /\ UNCHANGED <<stored, row, grants, age, locks, local>>

BulkWrites ==
  /\ bulk.by # Nobody
  /\ db' = IF bulk.view = Absent THEN Absent ELSE KeepDurable(bulk.view, db)
  /\ row' = IF bulk.view = Absent THEN NewRow ELSE row
  /\ cache' = Forget(bulk.by)
  /\ bulk' = NoBulk
  /\ UNCHANGED <<grants, age, locks, local, happened>>

-----------------------------------------------------------------------------

Renew(p) ==
  \/ TakeLock(p) \/ TakeSlot(p) \/ SlotBusy(p) \/ Recheck(p)
  \/ ExchangeSucceeds(p) \/ ExchangeLost(p) \/ ExchangeFails(p) \/ ExchangeRejected(p)
  \/ Persist(p) \/ PersistFails(p) \/ Renewed(p) \/ Failed(p) \/ Delete(p)

Request(p) == RequestReads(p) \/ MarkExpired(p) \/ Revoked(p)

Sweep(p) ==
  \/ SweepSelects(p) \/ PurgeSelects(p) \/ Confirm(p)
  \/ SsoSucceeds(p) \/ SsoFails(p) \/ Invalidate(p) \/ Kick(p)

Time ==
  \/ \E g \in Gens : Age(g)
  \/ \E w \in Workers : CopyExpires(w)
  \/ SsoWaitEnds
  \/ SlotExpires

Others ==
  \/ SlotLapses \/ ProviderRevokes \/ BulkWrites
  \/ \E w \in Workers : Crash(w) \/ Import(w) \/ AdminRemoves(w) \/ BulkReads(w)

Next ==
  \/ \E p \in Procs : Renew(p)
  \/ \E p \in Requests : Request(p)
  \/ \E p \in Sweeps : Sweep(p)
  \/ Time
  \/ Others

Spec == Init /\ [][Next]_vars

-----------------------------------------------------------------------------
(* Properties.                                                              *)

Without(kinds) == happened \cap kinds = {}

Alone == {"recheck", "exchange", "persist", "renewed", "confirm", "sso"}

(* One process at a time exchanges, stores or condemns the refresh token of  *)
(* an account, across the workers, as long as no slot lapses under its owner.*)
OneRenewalAtATime ==
  Without({"lapsed"}) =>
    \A p, q \in Procs : pc[p] \in Alone /\ pc[q] \in Alone => p = q

(* Between renewals the stored refresh token is one the provider accepts, if *)
(* it accepts any, until the account is deleted: neither a stale copy, a     *)
(* request beside a sweep, nor an import replaces a valid token by one that  *)
(* was used up.  (A renewal under way may still overwrite a login imported   *)
(* because the session was revoked.)                                         *)
StoredTokenAccepted ==
  /\ Without({"lapsed", "lost", "crash", "rewrite", "removed", "deleted"})
  /\ Without({"revoked"}) \/ Without({"import"})
  => \/ good = {}
     \/ db.rt \in good
     \/ \E p \in Procs : pc[p] = "persist"

(* A stored entry is never replaced by an older generation, whoever writes,  *)
(* except by a rewrite of the whole map and by a renewal that an import has  *)
(* overtaken or whose slot has lapsed.                                       *)
GenerationsMoveForward ==
  [][Without({"lapsed", "rewrite", "import"})' /\ db # Absent /\ db' # Absent
       => db'.key >= db.key]_vars

(* The mark that takes an account out for good is set only when the stored   *)
(* token is refused, as long as nobody compared with an outdated copy.       *)
InvalidMeansRefused ==
  Without({"stale", "lapsed", "rewrite", "import"}) =>
    ~(db.invalid /\ db.rt \in good)

(* test_stale_invalid_grant_cannot_invalidate_new_generation: a rejection of *)
(* an outdated token does not condemn the generation that replaced it.       *)
StaleRejectionIsHarmless ==
  Without({"lapsed", "rewrite", "import"}) => ~(db.invalid /\ db.rt \in good)
===============================================================================
