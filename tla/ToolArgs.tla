------------------------------- MODULE ToolArgs -------------------------------
(* How the fragments of one tool call's arguments are put together           *)
(* (merge_tool_argument_delta and what it calls in anthropic_compat.py; the  *)
(* three protocols all collect through it).  An upstream may send one object *)
(* in pieces, the growing text again and again, or whole objects that each   *)
(* correct the one before, also two of them in one chunk.                    *)
(* JSON is abstracted to tokens: brackets and fields; a field whose value is *)
(* a list of objects has that list's brackets behind it.  An object is the   *)
(* sequence of its fields.  Argument texts that are no objects are left out. *)
EXTENDS Naturals, Sequences, SequencesExt

CONSTANTS
  Objects,    \* the objects an upstream may send
  Schemas,    \* sets of required keys: of Update, of a tool without any ...
  Bytes,      \* lengths of keys and values
  MaxChunks   \* bound: objects sent one after another

VARIABLES
  required,   \* _required_keys_for_tool
  style,      \* how this upstream sends arguments
  target,     \* the object that is sent in pieces
  sent,       \* how many of its tokens were sent
  objects,    \* history: the whole objects that were sent
  mistaken,   \* history: a piece looked like something else
  buffer      \* function.arguments as collected

avars == <<required, style, target, sent, objects, mistaken, buffer>>

Styles == {"pieces", "resends", "rewrites", "doubled"}
-----------------------------------------------------------------------------
(* Texts                                                                     *)
Opening == <<"{">>
Closing == <<"}">>
Nested(f) == f[2] = "list"
Text(d) ==
  <<Opening>> \o FlattenSeq([i \in DOMAIN d |-> IF Nested(d[i]) THEN <<d[i], Opening, Closing>> ELSE <<d[i]>>])
              \o <<Closing>>
\* The elements of s that pass, in their order.
Picked(s, Test(_)) == FlattenSeq([i \in DOMAIN s |-> IF Test(s[i]) THEN <<s[i]>> ELSE <<>>])
Fields(s) == Picked(s, LAMBDA t : t \notin {Opening, Closing})
Whole(s) == s = Text(Fields(s))

\* The objects at the beginning of s, one after another.
Leading(s) ==
  LET from[i \in 1 .. Len(s) + 1] ==
        LET ends == {j \in i .. Len(s) : Whole(SubSeq(s, i, j))}
        IN IF ends = {} THEN <<>>
           ELSE LET j == CHOOSE j \in ends : TRUE
                IN <<Fields(SubSeq(s, i, j))>> \o from[j + 1]
  IN from[1]
-----------------------------------------------------------------------------
(* Objects                                                                   *)
Canon(k) == IF k = "path" THEN "file_path" ELSE k
Has(d, k) == \E i \in DOMAIN d : d[i][1] = k
Canons(d) == {Canon(d[i][1]) : i \in DOMAIN d}
Same(d, e) == ToSet(d) = ToSet(e)

Set(d, f) ==
  IF Has(d, f[1]) THEN [i \in DOMAIN d |-> IF d[i][1] = f[1] THEN f ELSE d[i]] ELSE Append(d, f)
Overlay(d, e) == FoldLeft(Set, d, e)

\* A key under its schema name; of several the later value that is not empty.
Choose(d, f) ==
  LET g == <<Canon(f[1]), f[2]>>
  IN IF Has(d, g[1]) /\ g[2] = "" THEN d ELSE Set(d, g)
NormalKeys(d) == FoldLeft(Choose, <<>>, d)

\* new_string may be empty, a path may not.
Complete(d) ==
  LET n == NormalKeys(d)
  IN \A k \in required : \E i \in DOMAIN n : n[i][1] = k /\ (n[i][2] # "" \/ k = "new_string")

GivesPath(d) == \E i \in DOMAIN d : Canon(d[i][1]) = "file_path"
ValuedPath(d) == \E i \in DOMAIN d : Canon(d[i][1]) = "file_path" /\ d[i][2] # ""
WithoutPath(d) == Picked(d, LAMBDA f : Canon(f[1]) # "file_path")
AddNew(d, f) == IF Canon(f[1]) \in Canons(d) THEN d ELSE Append(d, f)
OnlyNew(d, e) == Picked(e, LAMBDA f : Canon(f[1]) \notin Canons(d))

\* _merge_tool_arg_dicts: the last complete object with what the others add,
\* or, if that is the first or there is none, one object over the other.
MergeAll(ds) ==
  LET base == SelectLastInSeq(ds, Complete)
      over(d, e) == Overlay(IF ValuedPath(e) THEN WithoutPath(d) ELSE d, e)
  IN NormalKeys(
       IF base > 1
       THEN FoldLeft(Overlay,
                     FoldLeft(AddNew, ds[base], FlattenSeq(SubSeq(ds, 1, base - 1))),
                     SubSeq(ds, base + 1, Len(ds)))
       ELSE FoldLeft(over, <<>>, ds))

\* _tool_arg_value_score: keys, then values that are not empty, then bytes.
Length(d) == FoldLeft(LAMBDA n, f : n + Bytes[f[1]] + Bytes[f[2]], 0, d)
Valued(d) == Len(Picked(d, LAMBDA f : f[2] # ""))
Richer(d, e) ==
  \/ Len(d) > Len(e)
  \/ Len(d) = Len(e) /\ Valued(d) > Valued(e)
  \/ Len(d) = Len(e) /\ Valued(d) = Valued(e) /\ Length(d) > Length(e)
Richest(d, ds) == FoldLeft(LAMBDA best, e : IF Richer(e, best) THEN e ELSE best, d, ds)
-----------------------------------------------------------------------------
(* sanitize_tool_arguments_json and normalize_tool_arguments_json            *)
Sanitize(s) ==
  LET ds == Leading(s)
  IN IF Len(ds) < 2 THEN s
     ELSE Text(IF \A i \in DOMAIN ds : Same(ds[i], ds[1]) THEN ds[1] ELSE Richest(MergeAll(ds), ds))

Tidy(s) == IF Whole(s) THEN Text(NormalKeys(Fields(s))) ELSE s
Normal(s) == Tidy(Sanitize(s))

Ready(s) == Whole(s) /\ Complete(Fields(s))

\* Seeded fault: a complete object is kept whatever comes after it.
MergeTwoFirst(d, e) ==
  IF Complete(d) THEN d \o OnlyNew(d, e)
  ELSE IF Complete(e) THEN e \o OnlyNew(e, d)
  ELSE Overlay(IF GivesPath(e) THEN WithoutPath(d) ELSE d, e)

\* Of two objects the later complete one prevails; the other adds its keys.
MergeTwo(d, e) ==
  IF Complete(e) THEN e \o OnlyNew(e, d)
  ELSE IF Complete(d) THEN d \o OnlyNew(d, e)
  ELSE Overlay(IF GivesPath(e) THEN WithoutPath(d) ELSE d, e)

\* Seeded fault: a text that is sent again and longer is taken for a delta.
JoinAppending(d, e, cur, piece) == IF d = <<>> THEN piece ELSE Normal(d \o e)

\* What merge_tool_argument_delta makes of the buffer and what arrives, each
\* sanitized (d, e) and normalized (cur, piece).
Join(d, e, cur, piece) ==
  IF cur = <<>> \/ IsPrefix(cur, piece) THEN piece
  ELSE IF IsPrefix(piece, cur) THEN cur
  ELSE LET both == Whole(d) /\ Whole(e)
       IN IF both /\ Same(Fields(d), Fields(e)) THEN cur
          ELSE IF ~both /\ Ready(piece) THEN piece
          ELSE IF ~both /\ Ready(cur) THEN cur
          ELSE Normal(IF both THEN Text(MergeTwo(Fields(d), Fields(e))) ELSE d \o e)
-----------------------------------------------------------------------------
Init ==
  /\ required \in Schemas /\ style \in Styles /\ target \in Objects
  /\ sent = 0 /\ objects = <<>> /\ mistaken = FALSE /\ buffer = <<>>

Take(chunk) ==
  \E d \in {Sanitize(buffer)}, e \in {Sanitize(chunk)} :
    \E cur \in {Tidy(d)}, piece \in {Tidy(e)} : buffer' = Join(d, e, cur, piece)

\* The next n tokens of the object.
Piece(n) ==
  /\ style = "pieces" /\ sent + n <= Len(Text(target))
  /\ LET chunk == SubSeq(Text(target), sent + 1, sent + n)
     IN /\ Take(chunk)
        /\ mistaken' = (mistaken \/ (sent > 0 /\ (IsPrefix(chunk, buffer) \/ Whole(chunk))))
  /\ sent' = sent + n
  /\ UNCHANGED <<required, style, target, objects>>

\* All that was sent, and n tokens more.
Resend(n) ==
  /\ style = "resends" /\ sent + n <= Len(Text(target))
  /\ Take(SubSeq(Text(target), 1, sent + n))
  /\ sent' = sent + n
  /\ UNCHANGED <<required, style, target, objects, mistaken>>

\* A first piece that is never continued.
Cut(n) ==
  /\ style = "rewrites" /\ buffer = <<>> /\ n < Len(Text(target))
  /\ Take(SubSeq(Text(target), 1, n))
  /\ UNCHANGED <<required, style, target, sent, objects, mistaken>>

Rewrite(d) ==
  /\ style = "rewrites" /\ Len(objects) < MaxChunks
  /\ Take(Text(d)) /\ objects' = Append(objects, d)
  /\ UNCHANGED <<required, style, target, sent, mistaken>>

Double(d, e) ==
  /\ style = "doubled" /\ objects = <<>>
  /\ Take(Text(d) \o Text(e)) /\ objects' = <<d, e>>
  /\ UNCHANGED <<required, style, target, sent, mistaken>>

Sizes == UNION {1 .. Len(Text(d)) : d \in Objects}
Next ==
  \/ \E n \in Sizes : Piece(n) \/ Resend(n) \/ Cut(n)
  \/ \E d \in Objects : Rewrite(d) \/ \E e \in Objects : Double(d, e)
Spec == Init /\ [][Next]_avars
-----------------------------------------------------------------------------
Prevails ==
  LET last == SelectLastInSeq(objects, Complete)
  IN last > 0 => /\ Whole(buffer)
                 /\ ToSet(NormalKeys(objects[last])) \subseteq ToSet(Fields(buffer))

\* The last complete object that was sent prevails in every field it has,
\* under whichever of its names: neither an unfinished beginning nor earlier
\* or later previews with another path change the call.
LastCompletePrevails == style = "rewrites" => Prevails

\* Pieces and growing texts come out as the text that was sent, unless it
\* is an object that lacks required keys and so is never used.
\* (A piece that equals the beginning of the buffer is dropped as a text sent
\* again, one that is an object by itself may replace the buffer.)
TextRestored ==
  LET text == SubSeq(Text(target), 1, sent)
  IN style \in {"pieces", "resends"} /\ ~mistaken /\ (Whole(text) => Complete(Fields(text)))
       => buffer = Normal(text)

=============================================================================
