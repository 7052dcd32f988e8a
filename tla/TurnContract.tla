----------------------------- MODULE TurnContract -----------------------------
(* What one turn of a client promises, whatever the protocol: accounts are   *)
(* tried one after another, but none after the client has seen any content;  *)
(* what was sent is never taken back; one frame ends the turn and nothing    *)
(* follows it; a tool call is sent once.                                     *)
EXTENDS Naturals, Sequences

CONSTANT Attempts

VARIABLES
  account,   \* the account that is asked
  wire,      \* the frames the client was sent
  over       \* the turn has ended

cvars == <<account, wire, over>>

Content(f) == f.kind \in {"delta", "tool"}
Final(f) == f.kind \in {"end", "fail"}
Has(w, Is(_)) == \E i \in DOMAIN w : Is(w[i])

Grows ==
  /\ Len(wire) <= Len(wire')
  /\ SubSeq(wire', 1, Len(wire)) = wire
CallsOnce(w) ==
  \A i, j \in DOMAIN w :
    w[i].kind = "tool" /\ w[j].kind = "tool" /\ w[i].what = w[j].what => i = j

CInit == account = 1 /\ wire = <<>> /\ over = FALSE

Retry ==
  /\ ~over /\ account < Attempts /\ ~Has(wire, Content)
  /\ account' = account + 1
  /\ UNCHANGED <<wire, over>>

Deliver ==
  /\ ~over /\ Grows /\ ~Has(wire', Final) /\ CallsOnce(wire')
  /\ UNCHANGED <<account, over>>

\* Only a client that left before the stream opened gets no final frame.
Conclude ==
  /\ ~over /\ over' = TRUE /\ Grows /\ CallsOnce(wire')
  /\ \/ wire' = <<>>
     \/ /\ Final(wire'[Len(wire')])
        /\ \A i \in 1 .. Len(wire') - 1 : ~Final(wire'[i])
  /\ UNCHANGED account

CNext == Retry \/ Deliver \/ Conclude
CSpec == CInit /\ [][CNext]_cvars
=============================================================================
