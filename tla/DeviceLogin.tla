----------------------------- MODULE DeviceLogin -----------------------------
(* One device login (upstream/oidc_auth.py): a thread of the worker that     *)
(* began it polls the provider until the user has decided, stores the        *)
(* account and records the end in the worker's memory and, for the others,   *)
(* in Redis.  A worker that is asked about a session of another keeps the    *)
(* copy it has read.                                                         *)
EXTENDS Naturals

CONSTANTS Workers, Home, MaxEvents, Absent

VARIABLES
  provider,   \* of the device code: "pending", "approved", "denied", "expired", "used"
  pc,         \* the thread: "none", "check", "ask", "save", "record", "over"
  status,     \* _device_sessions of each worker
  mirror,     \* the copy in Redis
  stored,     \* whether the account has been stored
  overdue,    \* expires_at has passed
  events

dvars == <<provider, pc, status, mirror, stored, overdue, events>>

Ended == {"success", "error", "expired"}
Fault == events < MaxEvents /\ events' = events + 1
Calm == UNCHANGED events

\* _device_mirror overlooks a Redis that fails.
Mirrored(new) ==
  \/ mirror' = new /\ Calm
  \/ Fault /\ UNCHANGED mirror

\* _device_update changes nothing if the session is gone.
Record(new) ==
  IF status[Home] = Absent THEN UNCHANGED <<status, mirror>> /\ Calm
  ELSE /\ status' = [status EXCEPT ![Home] = new]
       /\ Mirrored(new)
Unrecorded == UNCHANGED <<status, mirror>> /\ Calm

Init ==
  /\ provider = "pending" /\ pc = "none" /\ status = [w \in Workers |-> Absent] /\ mirror = Absent
  /\ stored = FALSE /\ overdue = FALSE /\ events = 0

\* start_device_authorization
Start ==
  /\ pc = "none" /\ pc' = "check"
  /\ status' = [status EXCEPT ![Home] = "waiting_user"]
  /\ Mirrored("waiting_user")
  /\ UNCHANGED <<provider, stored, overdue>>

\* The user, the provider's clock and the worker's.
Decide ==
  /\ pc # "none" /\ provider = "pending" /\ provider' \in {"approved", "denied", "expired"}
  /\ UNCHANGED <<pc, status, mirror, stored, overdue, events>>
RunOut ==
  /\ pc # "none" /\ ~overdue /\ overdue' = TRUE
  /\ UNCHANGED <<provider, pc, status, mirror, stored, events>>

\* The head of _device_poll_worker's loop.
Check ==
  /\ pc = "check"
  /\ IF status[Home] = Absent \/ status[Home] \in Ended THEN pc' = "over" /\ Unrecorded
     ELSE IF overdue THEN pc' = "over" /\ Record("expired")
     ELSE pc' = "ask" /\ Unrecorded
  /\ UNCHANGED <<provider, stored, overdue>>

\* The provider gives the tokens once; a lost reply is asked for again, and
\* what the provider then answers (400) ends the login.
Ask ==
  /\ pc = "ask"
  /\ \/ provider = "pending" /\ pc' = "check" /\ Unrecorded /\ UNCHANGED provider
     \/ provider = "approved" /\ provider' = "used" /\ pc' = "save" /\ Unrecorded
     \/ provider = "expired" /\ pc' = "over" /\ Record("expired") /\ UNCHANGED provider
     \/ provider \in {"denied", "used"} /\ pc' = "over" /\ Record("error") /\ UNCHANGED provider
     \/ /\ Fault /\ pc' = "check" /\ UNCHANGED <<status, mirror>>
        /\ provider' = IF provider = "approved" THEN "used" ELSE provider
     \/ Fault /\ pc' = "check" /\ UNCHANGED <<status, mirror, provider>>
  /\ UNCHANGED <<stored, overdue>>

\* Seeded fault: the end is recorded whether or not the entry was stored.
SaveAnyhow ==
  /\ pc = "save" /\ pc' = "record" /\ Unrecorded
  /\ stored' \in BOOLEAN
  /\ UNCHANGED <<provider, overdue>>

\* upsert_entry, which may raise an exception
Save ==
  /\ pc = "save"
  /\ \/ stored' = TRUE /\ pc' = "record" /\ Unrecorded
     \/ pc' = "over" /\ Record("error") /\ UNCHANGED stored
  /\ UNCHANGED <<provider, overdue>>
Succeed ==
  /\ pc = "record" /\ pc' = "over" /\ Record("success")
  /\ UNCHANGED <<provider, stored, overdue>>

\* _device_load in a worker that is asked for the session.
Look(w) ==
  /\ status[w] = Absent /\ mirror # Absent
  /\ status' = [status EXCEPT ![w] = mirror]
  /\ UNCHANGED <<provider, pc, mirror, stored, overdue, events>>

\* list_device_sessions forgets what ended an hour ago; Redis after its TTL.
Forget(w) ==
  /\ status[w] \in Ended /\ Fault
  /\ status' = [status EXCEPT ![w] = Absent] /\ mirror' = Absent
  /\ UNCHANGED <<provider, pc, stored, overdue>>
Lapse ==
  /\ mirror # Absent /\ Fault /\ mirror' = Absent
  /\ UNCHANGED <<provider, pc, status, stored, overdue>>

Crash ==
  /\ pc # "none" /\ Fault
  /\ status' = [status EXCEPT ![Home] = Absent] /\ pc' = "over"
  /\ UNCHANGED <<provider, mirror, stored, overdue>>

Thread == Check \/ Ask \/ Save \/ Succeed
Next ==
  \/ Start \/ Decide \/ RunOut \/ Thread \/ Lapse \/ Crash
  \/ \E w \in Workers : Look(w) \/ Forget(w)

Spec == Init /\ [][Next]_dvars /\ WF_dvars(Thread)
-----------------------------------------------------------------------------
\* Whatever is lost on the way, a login that any worker reports as successful
\* has stored its account, one that is reported as failed or expired has not,
\* and while the login goes on nobody reports an end.  (What a worker has once
\* read of another's login may be older than the end.)
LoginTellsTruth ==
  \A s \in {status[w] : w \in Workers} \cup {mirror} :
    /\ s = "success" => stored
    /\ s \in {"error", "expired"} => ~stored
    /\ s \in Ended => pc = "over"
=============================================================================
