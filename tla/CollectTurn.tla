----------------------------- MODULE CollectTurn ----------------------------
(* The answers that are not streamed: the loops of chat_completions,         *)
(* anthropic_messages and openai_responses over _collect_completion, which   *)
(* reads an account's whole answer before anything is sent.                  *)
EXTENDS Turn

\* _finalize_tool_calls: named calls, whole if their schema has required keys.
Collected(known) ==
  {t \in Tools : known[t] = "ready" \/ (t \notin Strict /\ known[t] \in {"named", "cut"})}

\* The calls the protocol's reply shows.
Shown(known, raw) ==
  IF proto = "messages"
  THEN {t \in IF raw THEN Tools ELSE Collected(known) : t \in Finishable(known, Silent)}
  ELSE IF raw THEN {t \in Tools : known[t] \in {"named", "cut", "ready"}} ELSE Collected(known)

Reply(known, heard, why, raw) ==
  LET calls == Shown(known, raw)
      say(o, p) == IF p \in heard /\ ~(proto = "responses" /\ p = "thinking")
                   THEN Put(o, Frame("delta", p, 0)) ELSE o
      o == CallAll(say(say(Open(Silent), "thinking"), "text"), calls)
  IN End(o, IF proto = "messages"
            THEN (IF calls # {} THEN "tool_calls"
                  ELSE IF why \in {"none", "tool_calls"} THEN "stop" ELSE why)
            ELSE IF proto = "responses" THEN "completed"
            ELSE NormalFinish(why, calls # {}))

CollectGiveUp(mayRetry) ==
  /\ Tell("fail")
  /\ IF mayRetry /\ attempt < Attempts THEN NextAccount
     ELSE Over /\ out' = Fail(out) /\ UNCHANGED <<slots, held, got, finish>>
  /\ UNCHANGED tooled

CollectAnswered ==
  /\ ~streamed /\ Answered
  /\ UNCHANGED <<tooled, out, reports>>

CollectRefused ==
  /\ ~streamed /\ pc = "dial"
  /\ \E retryable \in BOOLEAN : CollectGiveUp(retryable)

CollectBroken ==
  /\ ~streamed /\ pc # "over"
  /\ CollectGiveUp(TRUE)

CollectLine(l) ==
  /\ ~streamed /\ pc = "lines" /\ lines < MaxLines
  /\ Read(l)
  /\ lines' = lines + 1
  /\ UNCHANGED <<proto, streamed, tooled, attempt, pc, held, gone, out, reports>>

\* raw: the calls of a complete message, which are passed on unchecked.
CollectClose(known, heard, why, raw) ==
  IF heard = {} /\ (IF raw THEN \A t \in Tools : known[t] = "unseen" ELSE Collected(known) = {})
  THEN CollectGiveUp(TRUE)
  ELSE /\ Tell("ok") /\ Over
       /\ out' = Reply(known, heard, why, raw)
       /\ slots' = known /\ got' = heard /\ finish' = why
       /\ UNCHANGED <<tooled, held>>

CollectDrained ==
  /\ ~streamed /\ pc = "lines"
  /\ \E raw \in BOOLEAN : CollectClose(slots, got, finish, raw)

CollectBody(l) ==
  /\ ~streamed /\ pc = "body"
  /\ CollectClose(Merged(l.calls), l.say, l.finish, TRUE)

CollectCancelled ==
  /\ ~streamed /\ pc # "over"
  /\ Over
  /\ UNCHANGED <<tooled, slots, held, got, finish, out, reports>>

CollectNext ==
  \/ CollectAnswered \/ CollectRefused \/ CollectBroken \/ CollectDrained \/ CollectCancelled
  \/ \E l \in Lines : CollectLine(l) \/ CollectBody(l)
=============================================================================
