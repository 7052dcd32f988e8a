------------------------------ MODULE Affinity ------------------------------
(* The sticky bindings of one conversation (pool/conversation_affinity.py,   *)
(* store/affinity_redis.py) and the turns that read and write them (app.py). *)
(* A chat turn sends the whole history and so always has session key 0; a    *)
(* Responses turn may send only the id of an earlier answer and has to       *)
(* recover its session key from the entry of that answer.  Reading an entry  *)
(* writes it back (GET, SET), clearing for an account scans, reads and       *)
(* deletes, and any other call may come in between.  Hit counts, times and   *)
(* the in-process map that stands in for a failing Redis are left out.       *)
EXTENDS Naturals, FiniteSets

CONSTANTS
  Accounts,
  Turns,        \* numbers: the turns of the conversation
  MaxAttempts,  \* length of the chain
  MaxEvents,    \* bound: entries expire, accounts fail and recover
  Overlap,      \* whether the client starts a turn while another is under way
  Nobody

Session(n) == <<"session", n>>
Chain(t) == <<"chain", t>>
Keys == ({"session"} \X (Turns \union {0})) \union ({"chain"} \X Turns)
Unbound == [account |-> Nobody, key |-> 0]
Kinds == [responses : BOOLEAN, stream : BOOLEAN]

VARIABLES
  entry,     \* Redis: what each fingerprint leads to
  up,        \* accounts in rotation
  sweep,     \* clear_for_account under way: account, keys to scan, keys to delete
  turn,      \* the turns
  last,      \* history: the turn whose bindings were completed last, or 0
  lost,      \* history: an entry expired or was deleted
  events

fvars == <<entry, up, sweep, turn, last, lost, events>>

Unstarted == [pc |-> "new", kind |-> [responses |-> FALSE, stream |-> FALSE], prev |-> 0,
              key |-> 0, copy |-> Unbound, prefer |-> Nobody, first |-> Nobody,
              tried |-> {}, at |-> Nobody, told |-> FALSE, alone |-> TRUE]

Rest == [account |-> Nobody, scan |-> {}, doomed |-> {}]

Active(t) == turn[t].pc \notin {"new", "done", "failed"}

Init ==
  /\ entry = [k \in Keys |-> Unbound]
  /\ up = Accounts
  /\ sweep = Rest
  /\ turn = [t \in Turns |-> Unstarted]
  /\ last = 0 /\ lost = FALSE /\ events = 0

(* Turn t goes on at pc with the given fields changed by f.                  *)
To(t, r) == turn' = [turn EXCEPT ![t] = r]
Step(t, pc) == To(t, [turn[t] EXCEPT !.pc = pc])
Quiet == UNCHANGED <<up, sweep, last, lost, events>>
-----------------------------------------------------------------------------
(* What a turn finds: _resolve_conversation_affinity, _responses_affinity.   *)
(* A client speaks one protocol: chat and Messages share the session key,    *)
(* which no Responses turn reads.                                            *)
Start(t) ==
  /\ turn[t].pc = "new"
  /\ \A u \in Turns : u < t => turn[u].pc # "new"
  /\ ~Overlap => \A u \in Turns : ~Active(u)
  /\ \E k \in Kinds, p \in {0} \union {u \in Turns : turn[u].told /\ turn[u].kind.responses} :
       /\ ~k.responses => p = 0
       /\ \A u \in Turns : turn[u].pc # "new" => turn[u].kind.responses = k.responses
       /\ turn' = [u \in Turns |->
            IF u = t
            THEN [Unstarted EXCEPT !.kind = k, !.prev = p,
                                   !.key = IF k.responses THEN t ELSE 0,
                                   !.pc = IF p = 0 THEN "session" ELSE "chain",
                                   !.alone = \A w \in Turns : ~Active(w)]
            ELSE [turn[u] EXCEPT !.alone = @ /\ ~Active(u)]]
  /\ UNCHANGED entry /\ Quiet

(* get_response_chain_entry: the stored prompt_cache_key is the session's.   *)
ReadChain(t) ==
  /\ turn[t].pc = "chain"
  /\ LET found == entry[Chain(turn[t].prev)]
     IN IF found = Unbound THEN Step(t, "session")
        ELSE To(t, [turn[t] EXCEPT !.pc = "touchChain", !.copy = found, !.key = found.key])
  /\ UNCHANGED entry /\ Quiet

TouchChain(t) ==
  /\ turn[t].pc = "touchChain"
  /\ entry' = [entry EXCEPT ![Chain(turn[t].prev)] = turn[t].copy]
  /\ Step(t, "session") /\ Quiet

ReadSession(t) ==
  /\ turn[t].pc = "session"
  /\ LET found == entry[Session(turn[t].key)]
     IN To(t, [turn[t] EXCEPT !.pc = IF found = Unbound THEN "pick" ELSE "touch",
                              !.copy = found, !.prefer = found.account])
  /\ UNCHANGED entry /\ Quiet

(* get_entry writes back; _responses_affinity binds the account it found.    *)
Touch(t) ==
  /\ turn[t].pc \in {"touch", "alias"}
  /\ entry' = [entry EXCEPT ![Session(turn[t].key)] = turn[t].copy]
  /\ Step(t, IF turn[t].pc = "touch" /\ turn[t].kind.responses THEN "alias" ELSE "pick")
  /\ Quiet
-----------------------------------------------------------------------------
(* The chain of accounts: the preferred one first if it is in rotation.      *)
Try(t, a) ==
  /\ turn[t].pc = "pick"
  /\ a \in up \ turn[t].tried
  /\ (turn[t].tried = {} /\ turn[t].prefer \in up) => a = turn[t].prefer
  /\ To(t, [turn[t] EXCEPT !.pc = "trying", !.at = a, !.tried = @ \union {a},
                           !.first = IF @ = Nobody THEN a ELSE @])
  /\ UNCHANGED entry /\ Quiet

NoneLeft(t) ==
  /\ turn[t].pc = "pick"
  /\ up \subseteq turn[t].tried
  /\ Step(t, "failed") /\ UNCHANGED entry /\ Quiet

(* Account a fails: kept, cooled, or disabled with its bindings cleared.     *)
Penalty(a) ==
  \/ UNCHANGED <<up, sweep, events>>
  \/ events < MaxEvents /\ events' = events + 1 /\ up' = up \ {a} /\ UNCHANGED sweep
  \/ /\ events < MaxEvents /\ events' = events + 1 /\ up' = up \ {a}
     /\ sweep = Rest
     /\ sweep' = [account |-> a, scan |-> Keys, doomed |-> {}]

Refused(t) ==
  /\ turn[t].pc = "trying"
  /\ Penalty(turn[t].at)
  /\ Step(t, IF Cardinality(turn[t].tried) < MaxAttempts THEN "pick" ELSE "failed")
  /\ UNCHANGED <<entry, last, lost>>

(* bind_response_chain (its second bind refreshes the session).              *)
Linked(t, e) ==
  LET r == turn[t]
      pin == [account |-> r.at, key |-> r.key]
  IN [e EXCEPT ![Chain(t)] = pin, ![Session(r.key)] = pin]

(* Seeded fault: the id is bound only after the answer.                      *)
OpenUnbound(t) ==
  /\ turn[t].pc = "trying" /\ turn[t].kind = [responses |-> TRUE, stream |-> TRUE]
  /\ UNCHANGED entry
  /\ Step(t, "open") /\ Quiet

(* A stream binds its response id before it waits for model output.          *)
Open(t) ==
  /\ turn[t].pc = "trying" /\ turn[t].kind = [responses |-> TRUE, stream |-> TRUE]
  /\ entry' = Linked(t, entry)
  /\ Step(t, "open") /\ Quiet

(* After the envelope there is no other account.                             *)
Broken(t) ==
  /\ turn[t].pc = "open"
  /\ Penalty(turn[t].at)
  /\ Step(t, "failed")
  /\ UNCHANGED <<entry, last, lost>>

(* Whether the turn rebinds (app.py 5589, 5951, 7584, 7804).                 *)
Rebinds(t) ==
  LET r == turn[t]
  IN IF r.kind = [responses |-> FALSE, stream |-> TRUE] THEN r.at # r.first
     ELSE r.prefer # Nobody /\ r.prefer # r.at

Answer(t) ==
  /\ turn[t].pc = IF turn[t].kind = [responses |-> TRUE, stream |-> TRUE] THEN "open" ELSE "trying"
  /\ To(t, [turn[t] EXCEPT !.pc = IF Rebinds(t) THEN "rebind" ELSE "bind",
                           !.told = @ \/ turn[t].kind.stream])
  /\ UNCHANGED entry /\ Quiet

(* rebind_on_failover reads (and writes back), then decides.                 *)
ReadPin(t) ==
  /\ turn[t].pc = "rebind"
  /\ To(t, [turn[t] EXCEPT !.pc = "rebound", !.copy = entry[Session(turn[t].key)]])
  /\ UNCHANGED entry /\ Quiet

(* Seeded fault: a failover does not move the pin.                           *)
MovesNever(t) == turn[t].copy.account = Nobody
Moves(t) == turn[t].copy.account \in {Nobody, turn[t].first}

Bound(t) ==
  To(t, [turn[t] EXCEPT !.pc = IF turn[t].kind.responses THEN "link" ELSE "done",
                        !.told = @ \/ ~turn[t].kind.responses])
Ended(t) == last' = IF turn[t].kind.responses THEN last ELSE t

Rebind(t) ==
  /\ turn[t].pc = "rebound"
  /\ entry' = IF turn[t].copy = Unbound THEN entry
              ELSE [entry EXCEPT ![Session(turn[t].key)] = turn[t].copy]
  /\ IF Moves(t) THEN Step(t, "bind") /\ UNCHANGED last ELSE Bound(t) /\ Ended(t)
  /\ UNCHANGED <<up, sweep, lost, events>>

Bind(t) ==
  /\ turn[t].pc = "bind"
  /\ entry' = [entry EXCEPT ![Session(turn[t].key)] = [account |-> turn[t].at, key |-> turn[t].key]]
  /\ Bound(t) /\ Ended(t)
  /\ UNCHANGED <<up, sweep, lost, events>>

Link(t) ==
  /\ turn[t].pc = "link"
  /\ entry' = Linked(t, entry)
  /\ To(t, [turn[t] EXCEPT !.pc = "done", !.told = TRUE])
  /\ last' = t
  /\ UNCHANGED <<up, sweep, lost, events>>
-----------------------------------------------------------------------------
(* clear_for_account: SCAN, then GET and DELETE of each key.                 *)
Scan(k) ==
  /\ k \in sweep.scan
  /\ sweep' = [sweep EXCEPT !.scan = @ \ {k},
                            !.doomed = IF entry[k].account = sweep.account THEN {k} ELSE {}]
  /\ sweep.doomed = {}
  /\ UNCHANGED <<entry, up, turn, last, lost, events>>

Delete ==
  /\ sweep.doomed # {}
  /\ entry' = [k \in Keys |-> IF k \in sweep.doomed THEN Unbound ELSE entry[k]]
  /\ sweep' = [sweep EXCEPT !.doomed = {}]
  /\ lost' = TRUE
  /\ UNCHANGED <<up, turn, last, events>>

Cleared ==
  /\ sweep.account # Nobody /\ sweep.scan = {} /\ sweep.doomed = {}
  /\ sweep' = Rest
  /\ UNCHANGED <<entry, up, turn, last, lost, events>>

Expire(k) ==
  /\ entry[k] # Unbound /\ events < MaxEvents
  /\ events' = events + 1
  /\ entry' = [entry EXCEPT ![k] = Unbound]
  /\ lost' = TRUE
  /\ UNCHANGED <<up, sweep, turn, last>>

(* Another conversation's request cools an account; a probe or the admin     *)
(* readmits it.                                                              *)
Leave(a) ==
  /\ a \in up /\ events < MaxEvents
  /\ events' = events + 1
  /\ up' = up \ {a}
  /\ UNCHANGED <<entry, sweep, turn, last, lost>>

Readmit(a) ==
  /\ a \notin up
  /\ up' = up \union {a}
  /\ UNCHANGED <<entry, sweep, turn, last, lost, events>>

Next ==
  \/ \E t \in Turns :
       \/ Start(t) \/ ReadChain(t) \/ TouchChain(t) \/ ReadSession(t) \/ Touch(t)
       \/ NoneLeft(t) \/ Refused(t) \/ Open(t) \/ Broken(t) \/ Answer(t)
       \/ ReadPin(t) \/ Rebind(t) \/ Bind(t) \/ Link(t)
       \/ \E a \in Accounts : Try(t, a)
  \/ \E k \in Keys : Scan(k) \/ Expire(k)
  \/ Delete \/ Cleared
  \/ \E a \in Accounts : Leave(a) \/ Readmit(a)

Spec == Init /\ [][Next]_fvars
-----------------------------------------------------------------------------
(* A Responses conversation keeps its session key: as long as no entry is    *)
(* lost, a turn that names an earlier answer recovers that answer's key,     *)
(* whichever turns run beside it and however soon after the answer it comes. *)
KeyStable ==
  ~lost => \A t \in Turns :
    (turn[t].prev # 0 /\ turn[t].pc \notin {"new", "chain"}) => turn[t].key = turn[turn[t].prev].key

(* When a turn has been answered, the session leads to the account that      *)
(* answered.                                                                 *)
Pinned(t) == entry[Session(turn[t].key)].account = turn[t].at

(* A turn nobody overlapped leaves its session pinned to the account that    *)
(* answered, after a failover too, if the preferred account was tried.       *)
PinFollowsAnswer ==
  (~lost /\ last # 0 /\ \A t \in Turns : ~Active(t)) =>
    ((turn[last].alone /\ turn[last].prefer \in {Nobody, turn[last].first}
      /\ \A t \in Turns : turn[t].pc # "new" => t <= last) => Pinned(last))
=============================================================================
