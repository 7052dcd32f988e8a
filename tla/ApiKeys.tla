------------------------------- MODULE ApiKeys -------------------------------
(* The client keys (admin/apikeys.py, store/keys_pg.py): administration and  *)
(* verification in the threads of several workers.  A worker has a lock and  *)
(* a cache of the keys it has verified; the table is read and rewritten as a *)
(* whole, and nothing excludes the other workers.                            *)
(* A secret is the id of its key and a generation; names and notes, counters *)
(* and the key of the environment are left out.                              *)
EXTENDS Naturals, FiniteSets

CONSTANTS
  Keys, Threads,
  Made,        \* the keys there are at the beginning
  Home,        \* the worker of each thread
  MaxOps,      \* bound: operations
  MaxEvents,   \* bound: failures of PostgreSQL, restarts, lapses of caches
  Absent, Nobody

Workers == {Home[t] : t \in Threads}

VARIABLES
  mode,        \* _pg_keys(): "postgres" or "file"
  counting,    \* redis_enabled()
  pg, file,    \* the rows of api_keys, of keys.json
  lock,        \* _lock of each worker
  cache,       \* _verify_cache of each worker: the secrets it accepts
  pc, op, seen,   \* of each thread: where, at what, the table it has loaded
  last,        \* the generation of the newest secret
  wanted, by,  \* history: what the last administrator made of a key, and where
  ops, events, overlap

kvars == <<mode, counting, pg, file, lock, cache, pc, op, seen, last, wanted, by, ops, events, overlap>>

Store == IF mode = "postgres" THEN pg ELSE file
Row(gen, enabled) == [gen |-> gen, enabled |-> enabled]
Has(row, gen) == row # Absent /\ row.gen = gen
Accepts(row, gen) == Has(row, gen) /\ row.enabled

\* A thread between its reading of the table and the end of its writing.
Busy(at) == {t \in Threads : at[t] \notin {"idle", "find", "scan"}}

Goto(t, where) ==
  /\ pc' = [pc EXCEPT ![t] = where]
  /\ overlap' = (overlap \/ \E u, v \in Busy(pc') : Home[u] # Home[v])
Return(t) ==
  /\ Goto(t, "idle") /\ lock' = [lock EXCEPT ![Home[t]] = Nobody]
  /\ op' = [op EXCEPT ![t] = Nobody] /\ seen' = [seen EXCEPT ![t] = [k \in Keys |-> Absent]]

Calm == UNCHANGED events
Fault == mode = "postgres" /\ events < MaxEvents /\ events' = events + 1
-----------------------------------------------------------------------------
Init ==
  /\ mode \in {"postgres", "file"} /\ counting \in BOOLEAN
  /\ LET table == [k \in Keys |-> IF k \in Made THEN Row(1, TRUE) ELSE Absent]
         none == [k \in Keys |-> Absent]
     IN /\ pg = (IF mode = "postgres" THEN table ELSE none)
        /\ file = (IF mode = "file" THEN table ELSE none)
        /\ wanted = table
  /\ lock = [w \in Workers |-> Nobody] /\ cache = [w \in Workers |-> {}]
  /\ pc = [t \in Threads |-> "idle"] /\ op = [t \in Threads |-> Nobody]
  /\ seen = [t \in Threads |-> [k \in Keys |-> Absent]]
  /\ last = 1 /\ by = [k \in Keys |-> IF k \in Made THEN Home[CHOOSE t \in Threads : TRUE] ELSE Nobody]
  /\ ops = 0 /\ events = 0 /\ overlap = FALSE

\* create_key, regenerate_key, set_enabled, update_key, delete_key; the key
\* made or made anew gets a secret nobody has had.
Asked == [what : {"create", "regenerate", "enable", "disable", "rename", "delete"}, key : Keys, gen : {last + 1}]

\* Seeded fault: an operation does not wait for its worker's others.
AdministerUnlocked(t) ==
  /\ pc[t] = "idle" /\ ops < MaxOps
  /\ \E o \in Asked :
       /\ o.what = "create" => by[o.key] = Nobody
       /\ op' = [op EXCEPT ![t] = o]
       /\ by' = IF o.what = "create" THEN [by EXCEPT ![o.key] = Home[t]] ELSE by
       /\ last' = IF o.what \in {"create", "regenerate"} THEN last + 1 ELSE last
       /\ Goto(t, IF o.what = "delete" /\ mode = "postgres" THEN "delete" ELSE "load")
  /\ ops' = ops + 1 /\ Calm
  /\ UNCHANGED <<mode, counting, pg, file, cache, seen, wanted, lock>>

Administer(t) ==
  /\ pc[t] = "idle" /\ lock[Home[t]] = Nobody /\ ops < MaxOps
  /\ \E o \in Asked :
       /\ o.what = "create" => by[o.key] = Nobody
       /\ op' = [op EXCEPT ![t] = o]
       /\ by' = IF o.what = "create" THEN [by EXCEPT ![o.key] = Home[t]] ELSE by
       /\ last' = IF o.what \in {"create", "regenerate"} THEN last + 1 ELSE last
       /\ Goto(t, IF o.what = "delete" /\ mode = "postgres" THEN "delete" ELSE "load")
  /\ lock' = [lock EXCEPT ![Home[t]] = t]
  /\ ops' = ops + 1 /\ Calm
  /\ UNCHANGED <<mode, counting, pg, file, cache, seen, wanted>>

Changed(row, o) ==
  CASE o.what = "create" -> Row(o.gen, TRUE)
    [] o.what = "regenerate" -> Row(o.gen, row.enabled)
    [] o.what = "enable" -> Row(row.gen, TRUE)
    [] o.what = "disable" -> Row(row.gen, FALSE)
    [] o.what = "rename" -> row
    [] o.what = "delete" -> Absent

\* _load_raw: without PostgreSQL, or when it fails, the file.
Loaded(data) == \/ data = Store /\ Calm
                \/ data = file /\ Fault

Load(t) ==
  /\ pc[t] = "load"
  /\ \E data \in {pg, file} :
       /\ Loaded(data)
       /\ LET k == op[t].key
          IN IF data[k] = Absent /\ op[t].what # "create"
             THEN Return(t)
             ELSE /\ seen' = [seen EXCEPT ![t] = [data EXCEPT ![k] = Changed(data[k], op[t])]]
                  /\ Goto(t, IF mode = "postgres" /\ op[t].what \notin {"create", "delete"}
                             THEN "upsert" ELSE "save")
                  /\ UNCHANGED <<lock, op>>
  /\ UNCHANGED <<mode, counting, pg, file, cache, last, wanted, by, ops>>

Upsert(t) ==
  /\ pc[t] = "upsert" /\ Goto(t, "save")
  /\ \/ pg' = [pg EXCEPT ![op[t].key] = seen[t][op[t].key]] /\ Calm
     \/ Fault /\ UNCHANGED pg
  /\ UNCHANGED <<mode, counting, file, lock, cache, op, seen, last, wanted, by, ops>>

\* _save_raw: the whole table in one transaction, or else the file.
Saved(data) ==
  \/ mode = "postgres" /\ pg' = data /\ Calm /\ UNCHANGED file
  \/ file' = data /\ ((mode = "file" /\ Calm) \/ Fault) /\ UNCHANGED pg

Save(t) ==
  /\ pc[t] = "save" /\ Goto(t, "invalidate") /\ Saved(seen[t])
  /\ UNCHANGED <<mode, counting, lock, cache, op, seen, last, wanted, by, ops>>

\* keys_pg.delete; if it fails, the way of the other operations.
Delete(t) ==
  /\ pc[t] = "delete"
  /\ LET k == op[t].key
     IN \/ /\ pg' = [pg EXCEPT ![k] = Absent] /\ Calm
           /\ IF pg[k] = Absent THEN Return(t) ELSE Goto(t, "invalidate") /\ UNCHANGED <<lock, op, seen>>
        \/ Fault /\ Goto(t, "load") /\ UNCHANGED <<pg, seen, lock, op>>
  /\ UNCHANGED <<mode, counting, file, cache, last, wanted, by, ops>>

\* Seeded fault: the worker's cache is left as it is.
InvalidateNothing(t) ==
  /\ pc[t] = "invalidate" /\ Return(t)
  /\ wanted' = [wanted EXCEPT ![op[t].key] = IF op[t].what = "delete" THEN Absent ELSE seen[t][op[t].key]]
  /\ by' = [by EXCEPT ![op[t].key] = Home[t]]
  /\ Calm
  /\ UNCHANGED <<mode, counting, pg, file, cache, last, ops>>

Invalidate(t) ==
  /\ pc[t] = "invalidate" /\ Return(t)
  /\ cache' = [cache EXCEPT ![Home[t]] = {}]
  /\ wanted' = [wanted EXCEPT ![op[t].key] = IF op[t].what = "delete" THEN Absent ELSE seen[t][op[t].key]]
  /\ by' = [by EXCEPT ![op[t].key] = Home[t]]
  /\ Calm
  /\ UNCHANGED <<mode, counting, pg, file, last, ops>>
-----------------------------------------------------------------------------
\* verify_key of a secret the cache does not hold.
Verify(t) ==
  /\ pc[t] = "idle" /\ lock[Home[t]] = Nobody /\ ops < MaxOps
  /\ \E k \in Keys, g \in 1..last :
       <<k, g>> \notin cache[Home[t]] /\ op' = [op EXCEPT ![t] = [what |-> "verify", key |-> k, gen |-> g]]
  /\ Goto(t, IF mode = "postgres" THEN "find" ELSE "scan")
  /\ lock' = [lock EXCEPT ![Home[t]] = t]
  /\ ops' = ops + 1 /\ Calm
  /\ UNCHANGED <<mode, counting, pg, file, cache, seen, last, wanted, by>>

Remember(t) == cache' = [cache EXCEPT ![Home[t]] = @ \cup {<<op[t].key, op[t].gen>>}]

\* find_by_hash; a key it does not find, or cannot look for, is searched in
\* the whole table.
Find(t) ==
  /\ pc[t] = "find"
  /\ LET row == pg[op[t].key]
     IN \/ /\ Has(row, op[t].gen) /\ Return(t) /\ Calm
           /\ IF row.enabled THEN Remember(t) ELSE UNCHANGED cache
        \/ /\ (~Has(row, op[t].gen) /\ Calm) \/ Fault
           /\ Goto(t, "scan") /\ UNCHANGED <<lock, cache, op, seen>>
  /\ UNCHANGED <<mode, counting, pg, file, last, wanted, by, ops>>

\* A key found there is counted in Redis, or else with the table it stood in.
Scan(t) ==
  /\ pc[t] = "scan"
  /\ \E data \in {pg, file} :
       /\ Loaded(data)
       /\ IF Accepts(data[op[t].key], op[t].gen)
          THEN /\ Remember(t)
               /\ IF counting THEN Return(t)
                  ELSE seen' = [seen EXCEPT ![t] = data] /\ Goto(t, "touch") /\ UNCHANGED <<lock, op>>
          ELSE Return(t) /\ UNCHANGED cache
  /\ UNCHANGED <<mode, counting, pg, file, last, wanted, by, ops>>

Touch(t) ==
  /\ pc[t] = "touch" /\ Return(t) /\ Saved(seen[t])
  /\ UNCHANGED <<mode, counting, cache, last, wanted, by, ops>>

\* _VERIFY_CACHE_TTL.
Expire(w) ==
  /\ events < MaxEvents /\ events' = events + 1
  /\ \E s \in cache[w] : cache' = [cache EXCEPT ![w] = @ \ {s}]
  /\ UNCHANGED <<mode, counting, pg, file, lock, pc, op, seen, last, wanted, by, ops, overlap>>

Next ==
  \/ \E t \in Threads : \/ Administer(t) \/ Load(t) \/ Upsert(t) \/ Save(t) \/ Delete(t) \/ Invalidate(t)
                        \/ Verify(t) \/ Find(t) \/ Scan(t) \/ Touch(t)
  \/ \E w \in Workers : Expire(w)

Spec == Init /\ [][Next]_kvars
-----------------------------------------------------------------------------
\* Only a failing PostgreSQL or two workers that write at the same time may
\* undo what an administrator has done.
Quiet == ~overlap /\ (mode = "postgres" => events = 0)

\* As long as neither has happened, every key nobody is working on stands as
\* its last administrator has left it, although each operation, and each
\* verification that is counted without Redis, rewrites all keys from a copy.
TableFollowsAdmin ==
  Quiet => \A k \in Keys : (\A t \in Busy(pc) : op[t].key # k) => Store[k] = wanted[k]

\* The worker on which a key was withdrawn or changed no longer accepts its
\* old secret; only the others may, until their caches lapse.
WithdrawnIsForgotten ==
  Quiet => \A w \in Workers : \A s \in cache[w] :
    by[s[1]] = w /\ (\A t \in Busy(pc) : op[t].key # s[1]) => Accepts(wanted[s[1]], s[2])
=============================================================================
