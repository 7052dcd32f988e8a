---------------------------- MODULE MessagesTurn ----------------------------
(* The stream of /v1/messages (_stream_anthropic_with_failover_inner and     *)
(* AnthropicStreamAssembler).  message_start leaves as soon as the upstream  *)
(* answers 200, so that no other account is tried after that; content blocks *)
(* are numbered in the order they start and one is open at a time.           *)
EXTENDS Turn

CloseBlock(o) ==
  IF o.block = "none" THEN o
  ELSE [Put(o, Frame("stop", o.block, o.index)) EXCEPT !.block = "none"]

\* Seeded fault: the block that is open is not stopped first.
StartBlockOver(o, part) ==
  IF o.block = part THEN o
  ELSE [Put(o, Frame("start", part, o.next))
          EXCEPT !.block = part, !.index = o.next, !.next = @ + 1]

StartBlock(o, part) ==
  IF o.block = part THEN o
  ELSE LET c == CloseBlock(o)
       IN [Put(c, Frame("start", part, c.next))
             EXCEPT !.block = part, !.index = c.next, !.next = @ + 1]

\* _emit_text_and_thinking
MsgSay(o, say) ==
  LET Delta(oo, p) ==
        IF p \in say THEN LET s == StartBlock(oo, p) IN Put(s, Frame("delta", p, s.index))
        ELSE oo
  IN Delta(Delta(o, "thinking"), "text")

MsgSayAll(o, h) ==
  LET f[i \in 0 .. Len(h)] == IF i = 0 THEN o ELSE MsgSay(f[i - 1], h[i])
  IN f[Len(h)]

\* feed: text first, held back or not, then the calls that became complete.
Feed(o, h, say, known, calls) ==
  LET early == tooled /\ Called(o) = {}
      o1 == IF tooled THEN o ELSE MsgSay(o, say)
      o2 == IF calls = {} THEN o1 ELSE CloseBlock(o1)
      ready == IF calls = {} THEN {} ELSE Budgeted(o2, Deliverable(known, o2))
  IN [out |-> CallAll(o2, ready),
      held |-> IF ready # {} THEN <<>>
               ELSE IF early /\ say # {} THEN Append(h, say) ELSE h]

\* map_finish_to_stop_reason
StopReason(why, called) ==
  IF called THEN "tool_calls" ELSE IF why \in {"none", "tool_calls"} THEN "stop" ELSE why

\* Seeded faults: kept text is sent beside the calls; kept text is dropped
\* as soon as any fragment of a call was seen.
FinishStreamBoth(o, h, known, why) ==
  LET o1 == CallAll(CloseBlock(MsgSayAll(o, h)), Budgeted(o, Finishable(known, o)))
  IN End(o1, StopReason(why, Called(o1) # {}))

FinishStreamSwallow(o, h, known, why) ==
  LET seen == {t \in Tools : known[t] # "unseen"}
      said == IF seen # {} THEN o ELSE MsgSayAll(o, h)
      o1 == CallAll(CloseBlock(said), Budgeted(o, Finishable(known, o)))
  IN End(o1, StopReason(why, Called(o1) # {}))

\* finish: kept text if no call is ready, then the calls that are.
FinishStream(o, h, known, why) ==
  LET ready == Finishable(known, o)
      said == IF Called(o) # {} \/ ready # {} THEN o ELSE MsgSayAll(o, h)
      o1 == CallAll(CloseBlock(said), Budgeted(o, ready))
  IN End(o1, StopReason(why, Called(o1) # {}))

MsgAnswered ==
  /\ Speaks("messages") /\ Answered
  /\ out' = Open(out)
  /\ UNCHANGED <<tooled, reports>>

MsgGiveUp(mayRetry) ==
  /\ Tell("fail")
  /\ IF mayRetry /\ ~Opened(out) /\ attempt < Attempts
     THEN NextAccount
     ELSE Over /\ out' = Fail(out) /\ UNCHANGED <<slots, held, got, finish>>
  /\ UNCHANGED tooled

MsgRefused ==
  /\ Speaks("messages") /\ pc = "dial"
  /\ \E retryable \in BOOLEAN : MsgGiveUp(retryable)

\* An exception, or a body that is no answer.
MsgBroken ==
  /\ Speaks("messages") /\ pc # "over"
  /\ MsgGiveUp(TRUE)

MsgLine(l) ==
  /\ Speaks("messages") /\ pc = "lines" /\ lines < MaxLines
  /\ Read(l)
  /\ LET fed == Feed(out, held, l.say, slots', DOMAIN l.calls)
     IN out' = fed.out /\ held' = fed.held
  /\ IF l.say # {} \/ DOMAIN l.calls # {} THEN Tell("ok") ELSE UNCHANGED reports
  /\ lines' = lines + 1
  /\ UNCHANGED <<proto, streamed, tooled, attempt, pc, gone>>

MsgClose(o, h, known, heard, calls, why) ==
  IF heard = {} /\ calls = {}
  THEN MsgGiveUp(TRUE)
  ELSE /\ Tell("ok") /\ Over
       /\ out' = FinishStream(o, h, known, why)
       /\ slots' = known /\ got' = heard /\ finish' = why /\ held' = <<>>
       /\ UNCHANGED tooled

MsgDrained ==
  /\ Speaks("messages") /\ pc = "lines"
  /\ MsgClose(out, held, slots, got, {t \in Tools : slots[t] # "unseen"}, finish)

MsgBody(l) ==
  /\ Speaks("messages") /\ pc = "body"
  /\ LET known == Merged(l.calls)
         fed == Feed(out, held, l.say, known, DOMAIN l.calls)
     IN MsgClose(fed.out, fed.held, known, l.say, DOMAIN l.calls, l.finish)

MsgCancelled ==
  /\ Speaks("messages") /\ pc # "over"
  /\ Over
  /\ out' = IF Opened(out) THEN Fail(out) ELSE out
  /\ UNCHANGED <<tooled, slots, held, got, finish, reports>>

MsgNext ==
  \/ MsgAnswered \/ MsgRefused \/ MsgBroken \/ MsgDrained \/ MsgCancelled
  \/ \E l \in Lines : MsgLine(l) \/ MsgBody(l)
=============================================================================
