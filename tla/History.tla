------------------------------- MODULE History -------------------------------
(* The conversation a client sends again with every request, on its way to   *)
(* the upstream: the Anthropic messages (anthropic_compat.py) or Responses   *)
(* items (openai_responses.py) become chat messages, and past tool results   *)
(* are cut to fit a budget (history_compact.py).                             *)
(* A text is its length, the cuts it has been through, and whether the       *)
(* original quotes the marks of a cut.                                       *)
EXTENDS Integers, Sequences, FiniteSets, SequencesExt

CONSTANTS
  Keep, Mid,           \* HISTORY_KEEP_TOOL_ROUNDS, HISTORY_MID_TOOL_ROUNDS
  MaxChars, MidChars, OldChars,   \* HISTORY_{MAX,MID,OLD}_TOOL_RESULT_CHARS
  Budget,              \* HISTORY_MAX_MESSAGES_CHARS
  Wrap,                \* characters of a message beside its text
  MarkChars, Gone,     \* lengths of a cut's mark and of a placeholder
  Shapes,              \* of a turn: the lengths of its texts and tool results
  MaxTurns             \* bound

VARIABLES
  turns,               \* the conversation, as the client keeps it
  protocol,
  compacting,          \* HISTORY_COMPACT_ENABLED, or forced by the size
  sent,                \* the messages of the last request
  pressed              \* history: its tiers alone did not fit

hvars == <<turns, protocol, compacting, sent, pressed>>

Larger(a, b) == IF a > b THEN a ELSE b
Text(len, marked) == [len |-> len, cuts |-> <<>>, marked |-> marked]
Message(role, calls, of, text) == [role |-> role, calls |-> calls, of |-> of, text |-> text]
Flatten(parts) == FoldLeft(LAMBDA all, part : all \o part, <<>>, parts)
-----------------------------------------------------------------------------
(* A turn: what the assistant said, the calls it made, and the answer of the *)
(* client: their results and a text.  Calls are numbered by turn and place.  *)
Call(n, i) == <<n, i>>
AnthropicMessages(history) ==
  Flatten([n \in DOMAIN history |->
    LET t == history[n]
        said == IF t.said > 0 THEN <<[type |-> "text", text |-> Text(t.said, FALSE)]>> ELSE <<>>
        uses == [i \in DOMAIN t.results |-> [type |-> "tool_use", id |-> Call(n, i)]]
        results == [i \in DOMAIN t.results |-> [type |-> "tool_result", id |-> Call(n, i), text |-> t.results[i]]]
        ask == IF t.ask > 0 THEN <<[type |-> "text", text |-> Text(t.ask, FALSE)]>> ELSE <<>>
    IN <<[role |-> "assistant", content |-> said \o uses], [role |-> "user", content |-> results \o ask]>>])

ResponsesItems(history) ==
  Flatten([n \in DOMAIN history |->
    LET t == history[n]
        message(role, len) == IF len > 0 THEN <<[type |-> "message", role |-> role, text |-> Text(len, FALSE)]>> ELSE <<>>
    IN message("assistant", t.said)
       \o [i \in DOMAIN t.results |-> [type |-> "function_call", id |-> Call(n, i)]]
       \o [i \in DOMAIN t.results |-> [type |-> "function_call_output", id |-> Call(n, i), text |-> t.results[i]]]
       \o message("user", t.ask)])

Blank == Text(0, FALSE)

\* The user branch of anthropic_messages_to_openai: text before a tool result
\* becomes a message of its own.
SplitUser(content) ==
  LET Step(s, block) ==
        IF block.type = "tool_result"
        THEN [out |-> s.out \o s.pending \o <<Message("tool", <<>>, block.id, block.text)>>, pending |-> <<>>]
        ELSE [s EXCEPT !.pending = <<Message("user", <<>>, <<>>, block.text)>>]
      end == FoldLeft(Step, [out |-> <<>>, pending |-> <<>>], content)
  IN end.out \o end.pending

\* The assistant branch: one message with the text and all calls.
JoinAssistant(content) ==
  LET Of(type) == SelectSeq(content, LAMBDA block : block.type = type)
      texts == Of("text")  uses == Of("tool_use")
  IN <<Message("assistant", [i \in DOMAIN uses |-> uses[i].id], <<>>, IF texts = <<>> THEN Blank ELSE texts[1].text)>>

FromAnthropic(raw) ==
  Flatten([i \in DOMAIN raw |-> IF raw[i].role = "user" THEN SplitUser(raw[i].content)
                                ELSE JoinAssistant(raw[i].content)])

\* Seeded fault: every function_call becomes a message of its own.
JoinsCallNever(messages) == FALSE

\* convert_responses_input_to_messages: does the next call join the last
\* message?
JoinsCall(messages) ==
  /\ messages # <<>>
  /\ Last(messages).role = "assistant" /\ Last(messages).calls # <<>> /\ Last(messages).text.len = 0

FromResponses(items) ==
  LET Step(out, item) ==
        IF item.type = "function_call_output" THEN Append(out, Message("tool", <<>>, item.id, item.text))
        ELSE IF item.type = "message" THEN Append(out, Message(item.role, <<>>, <<>>, item.text))
        ELSE IF JoinsCall(out) THEN [out EXCEPT ![Len(out)].calls = Append(@, item.id)]
        ELSE Append(out, Message("assistant", <<item.id>>, <<>>, Blank))
  IN FoldLeft(Step, <<>>, items)

Chat(history) ==
  IF protocol = "anthropic" THEN FromAnthropic(AnthropicMessages(history)) ELSE FromResponses(ResponsesItems(history))
-----------------------------------------------------------------------------
(* The cuts.                                                                 *)
\* _already_compacted
Compacted(text) == text.cuts # <<>> \/ text.marked
IsGone(text) == text.cuts # <<>> /\ Last(text.cuts) = 0

\* _truncate_text keeps a head and a longer tail; 120 characters are set
\* aside for the mark between them.
Truncate(text, limit) ==
  LET body == limit - 120
      kept == Larger(32, body \div 3) + Larger(32, body - Larger(32, body \div 3))
  IN IF text.len <= limit \/ kept >= text.len THEN text
     ELSE [len |-> kept + MarkChars, cuts |-> Append(text.cuts, limit), marked |-> TRUE]

\* _placeholder, also where it is longer than what it stands for
Placeholder(text) == [len |-> Gone, cuts |-> Append(text.cuts, 0), marked |-> TRUE]

\* _shrink_tool_message with prefix_stable
Shrink(text, limit) == IF text.len = 0 \/ Compacted(text) THEN text ELSE Truncate(text, limit)

Size(ms) == FoldLeft(LAMBDA sum, m : sum + Wrap + m.text.len, 0, ms)

\* _tool_round_spans: a message with calls and the results right after it.
Spans(ms) ==
  LET starts == SelectSeq([i \in DOMAIN ms |-> i], LAMBDA i : ms[i].calls # <<>>)
      end(i) == CHOOSE j \in i..Len(ms) : /\ \A l \in i + 1..j : ms[l].role = "tool"
                                          /\ j < Len(ms) => ms[j + 1].role # "tool"
  IN [n \in DOMAIN starts |-> [k \in 1..end(starts[n]) - starts[n] + 1 |-> starts[n] + k - 1]]
Among(i, spans) == \E span \in ToSet(spans) : Contains(span, i)

\* The tiers: the last Keep rounds, the last Mid of the others, and the rest.
Newest(s, n) == SubSeq(s, Larger(1, Len(s) - n + 1), Len(s))
Others(s, n) == SubSeq(s, 1, Len(s) - Len(Newest(s, n)))
Recent(spans) == Newest(spans, Keep)
Past(spans) == Others(spans, Keep)
Middle(spans) == Newest(Past(spans), Mid)
Old(spans) == Others(Past(spans), Mid)

\* The results of some messages, rewritten.
Rewrite(ms, indexes, F(_)) ==
  FoldLeft(LAMBDA s, i : IF s[i].role = "tool" THEN [s EXCEPT ![i].text = F(@)] ELSE s, ms, indexes)

\* The passes over the budget go on, group by group, until the messages fit.
UntilFits(ms, groups, F(_, _)) ==
  FoldLeft(LAMBDA s, group : IF Size(s) <= Budget THEN s ELSE F(s, group), ms, groups)

OneByOne(spans) == LET all == Flatten(spans) IN [n \in DOMAIN all |-> <<all[n]>>]

Limited(ms, spans, limit) == Rewrite(ms, Flatten(spans), LAMBDA text : Shrink(text, limit))

\* Seeded fault: the oldest rounds share their characters.
TiersShared(ms, spans) ==
  Limited(Limited(Limited(ms, Recent(spans), MaxChars), Middle(spans), MidChars),
          Old(spans), Larger(184, OldChars - 100 * Len(Old(spans))))

\* Pass 1: each tier has its limit.
Tiers(ms, spans) ==
  Limited(Limited(Limited(ms, Recent(spans), MaxChars), Middle(spans), MidChars), Old(spans), OldChars)

\* Pass 2: half of it for the older tiers.
Tighten(ms, spans) ==
  LET To(cap, s, group) == Rewrite(s, group, LAMBDA text : IF IsGone(text) THEN text ELSE Truncate(text, cap))
      old == UntilFits(ms, Old(spans), LAMBDA s, g : To(Larger(512, OldChars \div 2), s, g))
  IN UntilFits(old, Middle(spans), LAMBDA s, g : To(Larger(1024, MidChars \div 2), s, g))

\* Seeded fault: placeholders begin with the newest of the older rounds.
EraseNewest(ms, spans) ==
  UntilFits(ms, OneByOne(Reverse(Old(spans) \o Middle(spans))),
            LAMBDA s, g : Rewrite(s, g, LAMBDA text : IF text.len = 0 \/ IsGone(text) THEN text ELSE Placeholder(text)))

\* Pass 3: placeholders, the oldest first.
Erase(ms, spans) ==
  UntilFits(ms, OneByOne(Old(spans) \o Middle(spans)),
            LAMBDA s, g : Rewrite(s, g, LAMBDA text : IF text.len = 0 \/ IsGone(text) THEN text ELSE Placeholder(text)))

\* Pass 4: the recent results, the newest first.
Clamp(ms, spans) ==
  UntilFits(ms, Reverse(Recent(spans)),
            LAMBDA s, g : Rewrite(s, g, LAMBDA text : IF IsGone(text) THEN text
                                                 ELSE Truncate(text, Larger(2000, MaxChars \div 3))))

\* Pass 5: prose outside the recent rounds; _shrink_assistant_oversized_content
\* allows plain text twice the limit.
Trim(ms, spans) ==
  LET soft == Larger(2000, MaxChars \div 2)
      open(i) == /\ ms[i].role # "tool" /\ ~Among(i, Recent(spans))
                 /\ i - 1 < Len(ms) - Keep * 4 => ms[i].text.len > soft * 2
      prose == SelectSeq([i \in DOMAIN ms |-> i], open)
      cut(m) == IF m.calls = <<>> /\ m.text.len > soft * 2 THEN Truncate(m.text, soft * 2) ELSE Truncate(m.text, soft)
  IN UntilFits(ms, prose, LAMBDA s, i : [s EXCEPT ![i].text = cut(s[i])])

\* compact_openai_messages
Compact(ms) ==
  LET spans == Spans(ms)
  IN Trim(Clamp(Erase(Tighten(Tiers(ms, spans), spans), spans), spans), spans)
-----------------------------------------------------------------------------
Init ==
  /\ turns = <<>> /\ protocol \in {"anthropic", "responses"} /\ compacting \in BOOLEAN
  /\ sent = <<>> /\ pressed = FALSE

\* The client adds a turn and sends everything it has.
Request ==
  /\ Len(turns) < MaxTurns
  /\ UNCHANGED <<protocol, compacting>>
  /\ \E shape \in Shapes :
       /\ LET turn == [shape EXCEPT !.results = [i \in DOMAIN @ |-> Text(@[i], shape.quotes)]]
              ms == Chat(Append(turns, turn))
          IN /\ turns' = Append(turns, turn)
             /\ sent' = IF compacting THEN Compact(ms) ELSE ms
             /\ pressed' = (Size(Tiers(ms, Spans(ms))) > Budget)

Next == Request
Spec == Init /\ [][Next]_hvars
-----------------------------------------------------------------------------
\* Both translations tell the upstream the same story: nothing is dropped or
\* moved, and a result stands right behind the message that made its call,
\* where the upstream looks for it.
Tale(ms) ==
  Flatten([i \in DOMAIN ms |->
    (IF ms[i].text.len > 0 /\ ms[i].role # "tool" THEN <<ms[i].role>> ELSE <<>>)
      \o ms[i].calls \o (IF ms[i].role = "tool" THEN <<ms[i].of>> ELSE <<>>)])
Told ==
  LET calls(n) == [i \in DOMAIN turns[n].results |-> Call(n, i)]
  IN Flatten([n \in DOMAIN turns |->
    (IF turns[n].said > 0 THEN <<"assistant">> ELSE <<>>) \o calls(n) \o calls(n)
      \o (IF turns[n].ask > 0 THEN <<"user">> ELSE <<>>)])
SameStory ==
  /\ Tale(sent) = Told
  /\ \A i \in DOMAIN sent : sent[i].role = "tool" =>
       \E j \in 1..i - 1 : /\ Contains(sent[j].calls, sent[i].of)
                           /\ \A l \in j + 1..i : sent[l].role = "tool"

\* What is lost is lost from the oldest on: no result is erased before every
\* older one is, none of the recent rounds is cut below its own limit unless
\* all results of older rounds are erased, and then the messages fit or
\* nothing is left to cut.
Texts == [i \in DOMAIN sent |-> sent[i].text]
Results(spans) ==
  {i \in DOMAIN sent : sent[i].role = "tool" /\ sent[i].text.len > 0 /\ Among(i, spans)}
LossIsGraded ==
  LET spans == Spans(sent)
      past == Results(Past(spans))
      recent == Results(Recent(spans))
      clamped == {i \in recent : Texts[i].cuts # <<>> /\ Last(Texts[i].cuts) # MaxChars}
  IN /\ \A i \in past \cup recent : IsGone(Texts[i]) => i \in past /\ \A j \in past : j < i => IsGone(Texts[j])
     /\ clamped # {} => \A i \in past : IsGone(Texts[i])
     /\ compacting /\ Size(sent) > Budget =>
          /\ \A i \in past : IsGone(Texts[i])
          /\ \A i \in recent : Texts[i].len <= Larger(2000, MaxChars \div 3)

\* As long as everything fits, a message that has come to the oldest tier is
\* sent in the same words with every later request: the upstream's cache of
\* the prompt's prefix stays valid up to the middle tier.
SettledStays ==
  [][~pressed /\ ~pressed' =>
       LET old == Old(Spans(sent)) IN old # <<>> => \A i \in 1..Last(Last(old)) : sent'[i] = sent[i]]_hvars
=============================================================================
