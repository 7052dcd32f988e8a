------------------------- MODULE AccountState_proofs -------------------------
(***************************************************************************)
(* Proofs about AccountState, for any number of requests and operators and *)
(* any number of disruptions.                                              *)
(***************************************************************************)
EXTENDS AccountState, TLAPS

USE DEF procVars, hotVars, Procs

-----------------------------------------------------------------------------
(* The patches are patches, and every report makes at least one.            *)
LEMMA PatchesTyped ==
  /\ CoolPatch \in Patch /\ NotePatch \in Patch /\ FreePatch \in Patch
  /\ NoPatch \in Patch /\ DisablePatch \in Patch /\ EnablePatch \in Patch
  /\ ClearPatch \in Patch
BY DEF CoolPatch, NotePatch, FreePatch, NoPatch, DisablePatch, EnablePatch,
       ClearPatch, Patch, Flags, Labels

LEMMA ShortSequences ==
  ASSUME NEW S, NEW a \in S, NEW b \in S, NEW c \in S
  PROVE  /\ <<a>> \in Seq(S) /\ <<a>> # <<>>
         /\ <<a, b>> \in Seq(S) /\ <<a, b>> # <<>>
         /\ <<a, b, c>> \in Seq(S) /\ <<a, b, c>> # <<>>
OBVIOUS

LEMMA TailFacts ==
  ASSUME NEW S, NEW s \in Seq(S), s # <<>>
  PROVE  /\ Head(s) \in S
         /\ Tail(s) \in Seq(S)
         /\ Len(s) # 1 => Tail(s) # <<>>
<1>1. Len(s) # 0 /\ Len(s) \in Nat
  OBVIOUS
<1>2. Head(s) \in S /\ Tail(s) \in Seq(S)
  BY <1>1
<1>3. Len(Tail(s)) = Len(s) - 1
  BY <1>1
<1>4. Len(<<>>) = 0
  OBVIOUS
<1> DEFINE n == Len(s)
           t == Tail(s)
<1>5. n \in Nat /\ Len(t) = n - 1
  BY <1>1, <1>3
<1> HIDE DEF n, t
<1>6. n # 1 => t # <<>>
  BY <1>4, <1>5
<1> QED BY <1>2, <1>6 DEF n, t

LEMMA RequestPatchesTyped ==
  ASSUME NEW what \in Outcomes
  PROVE  RequestPatches[what] \in Seq(Patch) /\ RequestPatches[what] # <<>>
<1>1. what \in {"success", "failure", "quota"}
  BY AccountConstants DEF RequestPatches
<1>2. /\ RequestPatches["success"] = <<NoPatch>>
      /\ RequestPatches["failure"] = <<CoolPatch, NotePatch>>
      /\ RequestPatches["quota"] = <<NoPatch, FreePatch, NotePatch>>
  BY DEF RequestPatches
<1> QED BY <1>1, <1>2, PatchesTyped, ShortSequences

LEMMA ControlPatchesTyped ==
  ASSUME NEW what \in Controls
  PROVE  ControlPatches[what] \in Seq(Patch) /\ ControlPatches[what] # <<>>
<1>1. what \in {"disable", "enable", "clear", "probe_fail"}
  BY AccountConstants DEF ControlPatches
<1>2. /\ ControlPatches["disable"] = <<DisablePatch>>
      /\ ControlPatches["enable"] = <<EnablePatch>>
      /\ ControlPatches["clear"] = <<ClearPatch>>
      /\ ControlPatches["probe_fail"] = <<NoPatch, FreePatch, NoPatch>>
  BY DEF ControlPatches
<1> QED BY <1>1, <1>2, PatchesTyped, ShortSequences

(* Patching keeps the types of the records.                                 *)
LEMMA PatchHotTyped ==
  ASSUME NEW h \in Hot, NEW p \in Patch, NEW v \in Nat
  PROVE  PatchHot(h, p, v) \in Hot /\ PatchHot(h, p, v).ver = v
BY DEF PatchHot, PatchFlags, Hot, Patch, Labels

LEMMA RowPatchTyped ==
  ASSUME NEW f \in SUBSET Flags, NEW p \in Patch
  PROVE  RowPatch(f, p) \in Patch /\ PatchFlags(f, p) \in SUBSET Flags
BY DEF RowPatch, PatchFlags, Patch, Flags, Labels, DeriveLabel

LEMMA NoHotTyped == NoHot \in Hot /\ NoHot.ver = 0
BY DEF NoHot, Hot, Labels, Flags

-----------------------------------------------------------------------------
(* What Advance and AfterHot do to the memory of a process.                 *)
ProcsTyped ==
  /\ pc \in [Procs -> PCs]
  /\ path \in [Procs -> {"state", "stats", "sync"}]
  /\ todo \in [Procs -> Seq(Patch)]
  /\ cur \in [Procs -> Patch]
  /\ my \in [Procs -> Nat]
  /\ seen \in [Procs -> Hot]
  /\ born \in [Procs -> Nat]
  /\ ProcsConsistent

LEMMA ForgetStep ==
  ASSUME ProcsTyped, NEW p \in Procs, Forget(p)
  PROVE  /\ cur' \in [Procs -> Patch]
         /\ my' \in [Procs -> Nat]
         /\ seen' \in [Procs -> Hot]
         /\ born' \in [Procs -> Nat]
         /\ my'[p] = 0
         /\ \A q \in Procs : q # p => my'[q] = my[q] /\ born'[q] = born[q]
         /\ \A q \in Procs : seen'[q] = seen[q] \/ seen'[q].ver = 0
BY PatchesTyped, NoHotTyped DEF Forget, ProcsTyped

LEMMA AdvanceStep ==
  ASSUME ProcsTyped, NEW p \in Procs, Busy(p), Advance(p)
  PROVE  /\ ProcsTyped'
         /\ pc'[p] \in {"stamp", "done"}
         /\ my'[p] = 0
         /\ \A q \in Procs : q # p => pc'[q] = pc[q]
         /\ \A q \in Procs : q # p => my'[q] = my[q] /\ born'[q] = born[q]
         /\ \A q \in Procs : seen'[q] = seen[q] \/ seen'[q].ver = 0
<1>1. todo[p] \in Seq(Patch) /\ todo[p] # <<>>
  BY DEF ProcsTyped, ProcsConsistent
<1> DEFINE rest == Tail(todo[p])
<1>2. rest \in Seq(Patch) /\ (Len(todo[p]) # 1 => rest # <<>>)
  BY <1>1, TailFacts
<1>3. /\ todo' = [todo EXCEPT ![p] = rest]
      /\ pc' = [pc EXCEPT ![p] = IF Len(todo[p]) = 1 THEN "done" ELSE "stamp"]
      /\ path' = [path EXCEPT ![p] = IF p \in Requests THEN "state" ELSE "sync"]
      /\ Forget(p)
  BY DEF Advance
<1> HIDE DEF rest
<1>4. /\ pc' \in [Procs -> PCs]
      /\ path' \in [Procs -> {"state", "stats", "sync"}]
      /\ todo' \in [Procs -> Seq(Patch)]
  BY <1>2, <1>3 DEF ProcsTyped, PCs
<1>5. \A q \in Procs : q # p => pc'[q] = pc[q] /\ path'[q] = path[q]
                                /\ todo'[q] = todo[q]
  BY <1>3 DEF ProcsTyped
<1>6. pc'[p] \in {"stamp", "done"} /\ (pc'[p] = "stamp" => todo'[p] # <<>>)
  BY <1>2, <1>3 DEF ProcsTyped
<1>7. ProcsConsistent'
  BY <1>5, <1>6 DEF ProcsTyped, ProcsConsistent, Busy
<1> QED BY <1>3, <1>4, <1>5, <1>6, <1>7, ForgetStep DEF ProcsTyped

LEMMA AfterHotStep ==
  ASSUME ProcsTyped, NEW p \in Procs, Busy(p), AfterHot(p)
  PROVE  /\ ProcsTyped'
         /\ \/ pc'[p] \in {"stamp", "done"} /\ my'[p] = 0
            \/ pc'[p] = "append" /\ my'[p] = my[p] /\ born'[p] = born[p]
         /\ \A q \in Procs : q # p => pc'[q] = pc[q]
         /\ \A q \in Procs : q # p => my'[q] = my[q] /\ born'[q] = born[q]
         /\ \A q \in Procs : seen'[q] = seen[q] \/ seen'[q].ver = 0
<1>1. CASE path[p] = "sync"
  BY <1>1, AdvanceStep DEF AfterHot
<1>2. CASE path[p] # "sync"
  <2>1. /\ pc' = [pc EXCEPT ![p] = "append"]
        /\ seen' = [seen EXCEPT ![p] = NoHot]
        /\ UNCHANGED <<todo, path, cur, my, born>>
    BY <1>2 DEF AfterHot
  <2>2. ProcsConsistent'
    BY <1>2, <2>1 DEF ProcsTyped, ProcsConsistent, Busy
  <2> QED BY <2>1, <2>2, NoHotTyped DEF ProcsTyped, PCs
<1> QED BY <1>1, <1>2

-----------------------------------------------------------------------------
(* The types and the consistency of the processes are inductive.            *)
Typing == TypeOK /\ ProcsConsistent

LEMMA TypingStep ==
  ASSUME Typing, [Next]_vars
  PROVE  Typing'
<1> USE AccountConstants DEF Typing
<1>0. ProcsTyped
  BY DEF TypeOK, ProcsTyped
<1>1. ASSUME NEW r \in Requests, NEW what \in Outcomes, Report(r, what)
      PROVE  Typing'
  BY <1>1, RequestPatchesTyped DEF Report, TypeOK, ProcsConsistent, PCs, Busy
<1>2. ASSUME NEW o \in Operators, NEW what \in Controls, Control(o, what)
      PROVE  Typing'
  BY <1>2, ControlPatchesTyped DEF Control, TypeOK, ProcsConsistent, PCs, Busy
<1>3. ASSUME NEW p \in Procs, Busy(p)
      PROVE  Head(todo[p]) \in Patch
  BY <1>3, TailFacts DEF TypeOK, ProcsConsistent
<1>4. ASSUME NEW p \in Procs, Stamp(p) PROVE Typing'
  <2> DEFINE patch == Head(todo[p])
  <2>1. patch \in Patch
    BY <1>3, <1>4 DEF Stamp, Busy
  <2>2. /\ pc[p] = "stamp" /\ seq' = seq + 1
        /\ my' = [my EXCEPT ![p] = seq + 1]
        /\ cur' = [cur EXCEPT ![p] = patch]
        /\ born' = [born EXCEPT ![p] = epoch]
        /\ pc' = [pc EXCEPT ![p] = "read"]
        /\ UNCHANGED <<row, hotVars, stream, outcome, path, todo, seen, rebuild,
                       epoch, disruptions>>
    BY <1>4 DEF Stamp
  <2> HIDE DEF patch
  <2> QED BY <2>1, <2>2 DEF TypeOK, ProcsConsistent, PCs, Busy
<1>5. ASSUME NEW p \in Procs, SyncCommit(p) PROVE Typing'
  <2> DEFINE patch == Head(todo[p])
             flags == PatchFlags(row.flags, patch)
             ver   == SyncVersion(seq + 1)
  <2>1. patch \in Patch
    BY <1>3, <1>5 DEF SyncCommit, Busy
  <2>2. row.flags \in SUBSET Flags /\ row.ver \in Nat
    BY DEF TypeOK, Row
  <2>3. flags \in SUBSET Flags /\ RowPatch(flags, patch) \in Patch
    BY <2>1, <2>2, RowPatchTyped
  <2>4. ver \in Nat
    BY <2>2 DEF SyncVersion, Max2, TypeOK
  <2>5. /\ row' = [ver |-> ver, flags |-> flags]
        /\ my' = [my EXCEPT ![p] = ver]
        /\ cur' = [cur EXCEPT ![p] = RowPatch(flags, patch)]
        /\ seq' = seq + 1 /\ epoch' = epoch + 1
        /\ born' = [born EXCEPT ![p] = epoch + 1]
        /\ pc' = [pc EXCEPT ![p] = "read"]
        /\ pc[p] = "stamp"
        /\ UNCHANGED <<hotVars, stream, outcome, path, todo, seen, rebuild,
                       disruptions>>
    BY <1>5 DEF SyncCommit
  <2> HIDE DEF patch, flags, ver
  <2> QED
    BY <2>3, <2>4, <2>5 DEF TypeOK, ProcsConsistent, PCs, Busy, Row
<1>6. ASSUME NEW p \in Procs, ReadHot(p) PROVE Typing'
  BY <1>6 DEF ReadHot, TypeOK, ProcsConsistent, PCs, Busy
<1>7. ASSUME NEW p \in Procs, WriteHot(p) PROVE Typing'
  <2>1. /\ PatchHot(seen[p], cur[p], my[p]) \in Hot
        /\ Max2(seq, Max2(seen[p].ver, my[p])) \in Nat
    BY PatchHotTyped DEF TypeOK, Hot, Max2
  <2>2. CASE AfterHot(p)
    <3>1. hot' \in Hot
      BY <1>7, <2>1 DEF WriteHot, TypeOK
    <3>2. Busy(p)
      BY <1>7 DEF WriteHot, Busy
    <3> QED
      BY <1>0, <1>7, <2>1, <2>2, <3>1, <3>2, AfterHotStep
         DEF WriteHot, TypeOK, ProcsTyped
  <2>3. CASE ~AfterHot(p)
    BY <1>7, <2>1, <2>3 DEF WriteHot, TypeOK, ProcsConsistent, PCs, Busy
  <2> QED BY <2>2, <2>3
<1>8. ASSUME NEW p \in Procs, Index(p) PROVE Typing'
  <2>1. Busy(p) /\ AfterHot(p)
        /\ index' \in {"ready", "cooldown", "none"}
        /\ UNCHANGED <<seq, row, hot, stream, outcome, rebuild, epoch, disruptions>>
    BY <1>8 DEF Index, IndexOf, Busy
  <2> QED
    BY <1>0, <2>1, AfterHotStep DEF TypeOK, ProcsTyped
<1>9. ASSUME NEW p \in Procs, HotFails(p) PROVE Typing'
  <2>1. Busy(p) /\ AfterHot(p) /\ disruptions' \in 0..MaxDisruptions
        /\ UNCHANGED <<seq, row, hotVars, stream, outcome, rebuild, epoch>>
    BY <1>9 DEF HotFails, Disrupt, Busy, TypeOK
  <2> QED
    BY <1>0, <2>1, AfterHotStep DEF TypeOK, ProcsTyped
<1>10. ASSUME NEW p \in Procs, pc[p] = "append"
       PROVE  [kind |-> path[p], seq |-> my[p], patch |-> cur[p],
               born |-> born[p]] \in Event
  BY <1>10 DEF TypeOK, ProcsConsistent, Event
<1>11. ASSUME NEW p \in Procs, AppendEvent(p) PROVE Typing'
  <2>1. Busy(p) /\ Advance(p) /\ stream' \subseteq Event
        /\ UNCHANGED <<seq, row, hotVars, outcome, rebuild, epoch, disruptions>>
    BY <1>10, <1>11 DEF AppendEvent, Busy, TypeOK
  <2> QED
    BY <1>0, <2>1, AdvanceStep DEF TypeOK, ProcsTyped
<1>12. ASSUME NEW p \in Procs, PublishFails(p) PROVE Typing'
  <2>1. stream' \subseteq Event /\ disruptions' \in 0..MaxDisruptions
    BY <1>10, <1>12 DEF PublishFails, Disrupt, TypeOK
  <2> QED
    BY <1>12, <2>1, PatchesTyped, NoHotTyped
       DEF PublishFails, Forget, TypeOK, ProcsConsistent, PCs, Busy
<1>13. ASSUME NEW p \in Procs, Crash(p) PROVE Typing'
  BY <1>13, PatchesTyped, NoHotTyped
     DEF Crash, Disrupt, Forget, TypeOK, ProcsConsistent, PCs, Busy
<1>14. ASSUME NEW e \in stream, Consume(e) PROVE Typing'
  <2>1. e \in Event /\ row \in Row
    BY DEF TypeOK
  <2>2. row' \in Row
    BY <1>14, <2>1, RowPatchTyped DEF Consume, Row, Event, Max2
  <2> QED BY <1>14, <2>2 DEF Consume, TypeOK, ProcsConsistent, Busy
<1>15. ASSUME RebuildRead PROVE Typing'
  BY <1>15 DEF RebuildRead, Disrupt, TypeOK, ProcsConsistent, Busy
<1>16. ASSUME RebuildWrite PROVE Typing'
  <2>1. PICK r \in rebuild :
          LET h == [ver |-> r.ver, flags |-> r.flags, label |-> DeriveLabel(r.flags)]
          IN hot' = h /\ index' = IndexOf(h)
    BY <1>16 DEF RebuildWrite
  <2>2. hot' \in Hot /\ index' \in {"ready", "cooldown", "none"}
    BY <2>1 DEF TypeOK, Row, Hot, DeriveLabel, Labels, IndexOf
  <2> QED BY <1>16, <2>2 DEF RebuildWrite, TypeOK, ProcsConsistent, Busy
<1>17. CASE UNCHANGED vars
  BY <1>17 DEF vars, TypeOK, ProcsConsistent, Busy
<1> QED
  BY <1>1, <1>2, <1>4, <1>5, <1>6, <1>7, <1>8, <1>9, <1>11, <1>12, <1>13, <1>14,
     <1>15, <1>16, <1>17 DEF Next, Step

-----------------------------------------------------------------------------
(* The numbers.  Together with the types the three invariants are inductive. *)

(* What a step of one process does to the numbers in flight: it drops its    *)
(* own, keeps it, or takes one above the counter.                            *)
Numbers == SeqDominates /\ StampsUnique /\ AdminActionPrevails

LEMMA KeepsNumbers ==
  ASSUME Typing, Numbers, NEW p \in Procs,
         UNCHANGED <<row, rebuild, stream, epoch>>,
         seq' \in Nat, seq <= seq', hot'.ver <= seq',
         \A q \in Procs : q # p => pc'[q] = pc[q]
         , \A q \in Procs : q # p => my'[q] = my[q] /\ born'[q] = born[q],
         \A q \in Procs : seen'[q] = seen[q] \/ seen'[q].ver = 0,
         my'[p] \in Nat, my'[p] <= seq',
         \/ pc'[p] \in {"stamp", "done"}
         \/ InFlight(p) /\ my'[p] = my[p] /\ born'[p] = born[p]
  PROVE  Numbers'
<1> USE DEF Numbers, Typing, TypeOK
<1>1. SeqDominates'
  <2>1. row.ver \in Nat /\ \A e \in stream : e.seq \in Nat
    BY DEF Row, Event
  <2>2. \A q \in Procs : seen[q].ver \in Nat /\ my[q] \in Nat
    BY DEF Hot
  <2>3. \A r \in rebuild : r.ver \in Nat
    BY DEF Row
  <2>4. /\ row.ver <= seq' /\ \A e \in stream : e.seq <= seq'
        /\ \A r \in rebuild : r.ver <= seq'
    BY <2>1, <2>3 DEF SeqDominates
  <2>5. \A q \in Procs : my[q] <= seq' /\ seen[q].ver <= seq'
    BY <2>2 DEF SeqDominates
  <2>6. \A q \in Procs : my'[q] <= seq'
    BY <2>5
  <2>7. \A q \in Procs : seen'[q].ver <= seq'
    <3>1. 0 <= seq'
      OBVIOUS
    <3> QED BY <2>5, <3>1
  <2> HIDE DEF Numbers, Typing, TypeOK
  <2> QED BY <2>4, <2>6, <2>7 DEF SeqDominates
<1>2. \A q \in Procs : InFlight(q)' =>
         InFlight(q) /\ my'[q] = my[q] /\ born'[q] = born[q]
  BY DEF InFlight
<1>3. StampsUnique'
  BY <1>2 DEF StampsUnique
<1>4. AdminActionPrevails'
  BY <1>2 DEF AdminActionPrevails
<1> QED BY <1>1, <1>3, <1>4

(* A larger counter still dominates what has not changed.                    *)
LEMMA CounterGrows ==
  ASSUME Typing, SeqDominates, seq' \in Nat, seq <= seq', row'.ver <= seq',
         UNCHANGED <<hot, stream, seen, rebuild>>,
         \A q \in Procs : my'[q] = my[q] \/ my'[q] = seq'
  PROVE  SeqDominates'
<1>1. /\ hot.ver \in Nat /\ seq \in Nat
      /\ \A e \in stream : e.seq \in Nat
      /\ \A q \in Procs : seen[q].ver \in Nat /\ my[q] \in Nat
      /\ \A r \in rebuild : r.ver \in Nat
  BY DEF Typing, TypeOK, Hot, Event, Row
<1>2. /\ hot.ver <= seq'
      /\ \A e \in stream : e.seq <= seq'
      /\ \A q \in Procs : seen[q].ver <= seq' /\ my[q] <= seq'
      /\ \A r \in rebuild : r.ver <= seq'
  BY <1>1 DEF SeqDominates
<1>3. \A q \in Procs : my'[q] <= seq'
  BY <1>2
<1> QED BY <1>2, <1>3 DEF SeqDominates

LEMMA NumbersStep ==
  ASSUME Typing, Typing', Numbers, [Next]_vars
  PROVE  Numbers'
<1> USE AccountConstants
<1>0. /\ ProcsTyped /\ ProcsTyped'
      /\ row.ver \in Nat /\ hot.ver \in Nat /\ seq \in Nat
      /\ \A e \in stream : e.seq \in Nat
      /\ \A q \in Procs : seen[q].ver \in Nat /\ my[q] \in Nat
  BY DEF Typing, TypeOK, ProcsTyped, Row, Hot, Event
<1>1. ASSUME NEW p \in Procs, pc[p] \in {"start", "done"}, pc'[p] = "stamp",
             \A q \in Procs : q # p => pc'[q] = pc[q],
             UNCHANGED <<seq, row, hot, stream, my, seen, born, rebuild, epoch>>
      PROVE  Numbers'
  BY <1>0, <1>1, KeepsNumbers DEF Numbers, SeqDominates
<1>2. ASSUME NEW r \in Requests, NEW what \in Outcomes, Report(r, what)
      PROVE  Numbers'
  BY <1>0, <1>1, <1>2 DEF Report, ProcsTyped
<1>3. ASSUME NEW o \in Operators, NEW what \in Controls, Control(o, what)
      PROVE  Numbers'
  BY <1>0, <1>1, <1>3 DEF Control, ProcsTyped
<1>4. ASSUME NEW p \in Procs, Stamp(p) PROVE Numbers'
  <2>1. /\ seq' = seq + 1
        /\ my' = [my EXCEPT ![p] = seq + 1]
        /\ born' = [born EXCEPT ![p] = epoch]
        /\ pc' = [pc EXCEPT ![p] = "read"]
        /\ UNCHANGED <<row, hot, stream, seen, rebuild, epoch>>
    BY <1>4 DEF Stamp, hotVars
  <2>3. \A q \in Procs : q # p => /\ my'[q] = my[q] /\ born'[q] = born[q]
                                  /\ (InFlight(q)' => InFlight(q))
    BY <1>0, <2>1 DEF ProcsTyped, InFlight
  <2>4. my'[p] = seq + 1 /\ born'[p] = epoch
    BY <1>0, <2>1 DEF ProcsTyped
  <2>2. SeqDominates'
    <3>1. row'.ver <= seq' /\ seq <= seq' /\ seq' \in Nat
      BY <1>0, <2>1 DEF Numbers, SeqDominates
    <3>2. \A q \in Procs : my'[q] = my[q] \/ my'[q] = seq'
      BY <2>1, <2>3, <2>4
    <3>3. UNCHANGED <<hot, stream, seen, rebuild>>
      BY <1>4, <2>1 DEF Stamp
    <3> QED BY <3>1, <3>2, <3>3, CounterGrows DEF Numbers
  <2>5. \A q \in Procs : my[q] # seq + 1
    BY <1>0 DEF Numbers, SeqDominates
  <2>6. \A e \in stream : e.seq # seq + 1
    BY <1>0 DEF Numbers, SeqDominates
  <2>7. StampsUnique'
    BY <2>1, <2>3, <2>4, <2>5, <2>6 DEF Numbers, StampsUnique
  <2>8. AdminActionPrevails'
    BY <2>1, <2>3, <2>4 DEF Numbers, AdminActionPrevails, Typing, TypeOK
  <2> QED BY <2>2, <2>7, <2>8 DEF Numbers
<1>5. ASSUME NEW p \in Procs, SyncCommit(p) PROVE Numbers'
  <2>1. /\ row'.ver = SyncVersion(seq + 1)
        /\ seq' = seq + 1
        /\ my' = [my EXCEPT ![p] = SyncVersion(seq + 1)]
        /\ epoch' = epoch + 1
        /\ born' = [born EXCEPT ![p] = epoch + 1]
        /\ pc' = [pc EXCEPT ![p] = "read"]
        /\ UNCHANGED <<hot, stream, seen, rebuild>>
    BY <1>5 DEF SyncCommit, hotVars
  <2>2. SyncVersion(seq + 1) = seq + 1
    BY <1>0 DEF SyncVersion, Max2, Numbers, SeqDominates
  <2>3. \A q \in Procs : q # p => /\ my'[q] = my[q] /\ born'[q] = born[q]
                                  /\ (InFlight(q)' => InFlight(q))
    BY <1>0, <2>1 DEF ProcsTyped, InFlight
  <2>4. my'[p] = seq + 1 /\ born'[p] = epoch'
    BY <1>0, <2>1, <2>2 DEF ProcsTyped
  <2>5. SeqDominates'
    <3>1. row'.ver <= seq' /\ seq <= seq' /\ seq' \in Nat
      BY <1>0, <2>1, <2>2
    <3>2. \A q \in Procs : my'[q] = my[q] \/ my'[q] = seq'
      BY <2>1, <2>3, <2>4
    <3> QED BY <2>1, <3>1, <3>2, CounterGrows DEF Numbers
  <2>6. (\A q \in Procs : my[q] <= seq) /\ (\A e \in stream : e.seq <= seq)
    BY DEF Numbers, SeqDominates
  <2>7. StampsUnique'
    BY <1>0, <2>1, <2>3, <2>4, <2>6 DEF Numbers, StampsUnique
  <2>8. AdminActionPrevails'
    BY <1>0, <2>1, <2>2, <2>3, <2>4, <2>6
       DEF AdminActionPrevails, Typing, TypeOK
  <2> QED BY <2>5, <2>7, <2>8 DEF Numbers
<1>6. ASSUME NEW p \in Procs, ReadHot(p) PROVE Numbers'
  <2>1. /\ seen' = [seen EXCEPT ![p] = hot]
        /\ pc' = [pc EXCEPT ![p] = "write"] /\ pc[p] = "read"
        /\ UNCHANGED <<seq, row, hot, stream, my, born, rebuild, epoch>>
    BY <1>6 DEF ReadHot, hotVars
  <2>2. SeqDominates'
    BY <1>0, <2>1 DEF Numbers, SeqDominates, ProcsTyped
  <2>3. \A q \in Procs : InFlight(q)' => InFlight(q)
    BY <1>0, <2>1 DEF ProcsTyped, InFlight
  <2> QED
    BY <2>1, <2>2, <2>3 DEF Numbers, StampsUnique, AdminActionPrevails
<1>7. ASSUME NEW p \in Procs, WriteHot(p) PROVE Numbers'
  <2>1. /\ seq' = Max2(seq, Max2(seen[p].ver, my[p]))
        /\ pc[p] = "write"
        /\ UNCHANGED <<row, stream, rebuild, epoch>>
    BY <1>7 DEF WriteHot
  <2>2. seq' = seq
    BY <1>0, <2>1 DEF Max2, Numbers, SeqDominates
  <2>3. hot' = hot \/ hot' = PatchHot(seen[p], cur[p], my[p])
    BY <1>7 DEF WriteHot
  <2>4. hot'.ver <= seq'
    <3>1. PatchHot(seen[p], cur[p], my[p]).ver = my[p]
      BY DEF PatchHot
    <3>2. my[p] <= seq /\ hot.ver <= seq
      BY DEF Numbers, SeqDominates
    <3> QED BY <2>2, <2>3, <3>1, <3>2
  <2>5. InFlight(p) /\ Busy(p)
    BY <2>1 DEF InFlight, Busy
  <2>6. CASE AfterHot(p)
    BY <1>0, <2>1, <2>2, <2>4, <2>5, <2>6, AfterHotStep, KeepsNumbers
       DEF Numbers, SeqDominates
  <2>7. CASE pc' = [pc EXCEPT ![p] = "index"] /\ UNCHANGED <<my, seen, born>>
    BY <1>0, <2>1, <2>2, <2>4, <2>5, <2>7, KeepsNumbers
       DEF Numbers, SeqDominates, ProcsTyped
  <2> QED BY <1>7, <2>6, <2>7 DEF WriteHot
<1>8. ASSUME NEW p \in Procs, pc[p] \in {"read", "write", "index"}, AfterHot(p),
             UNCHANGED <<seq, row, hot, stream, rebuild, epoch>>
      PROVE  Numbers'
  <2>1. InFlight(p) /\ Busy(p)
    BY <1>8 DEF InFlight, Busy
  <2> QED
    BY <1>0, <1>8, <2>1, AfterHotStep, KeepsNumbers DEF Numbers, SeqDominates
<1>9. ASSUME NEW p \in Procs, Index(p) \/ HotFails(p) PROVE Numbers'
  BY <1>8, <1>9 DEF Index, HotFails, hotVars
<1>10. ASSUME NEW p \in Procs, pc[p] = "append",
              NEW n \in Nat, my[p] = n,
              stream' = stream \cup {[kind |-> path[p], seq |-> my[p],
                                      patch |-> cur[p], born |-> born[p]]},
              pc'[p] \in {"stamp", "done"}, my'[p] = 0,
              \A q \in Procs : q # p => pc'[q] = pc[q],
              \A q \in Procs : q # p => my'[q] = my[q] /\ born'[q] = born[q],
              \A q \in Procs : seen'[q] = seen[q] \/ seen'[q].ver = 0,
              UNCHANGED <<seq, row, hot, rebuild, epoch>>
       PROVE  Numbers'
  <2> DEFINE new == [kind |-> path[p], seq |-> my[p], patch |-> cur[p],
                     born |-> born[p]]
  <2>1. InFlight(p) /\ ~InFlight(p)'
    BY <1>10 DEF InFlight
  <2>2. \A q \in Procs : InFlight(q)' =>
           InFlight(q) /\ q # p /\ my'[q] = my[q] /\ born'[q] = born[q]
    BY <1>10, <2>1 DEF InFlight
  <2>3. SeqDominates'
    BY <1>0, <1>10 DEF Numbers, SeqDominates
  <2>4. new.seq = my[p] /\ new.born = born[p]
    OBVIOUS
  <2>5. stream' = stream \cup {new}
    BY <1>10
  <2> HIDE DEF new
  <2>6. StampsUnique'
    BY <2>1, <2>2, <2>4, <2>5 DEF Numbers, StampsUnique
  <2>7. AdminActionPrevails'
    BY <1>10, <2>1, <2>2, <2>4, <2>5 DEF Numbers, AdminActionPrevails
  <2> QED BY <2>3, <2>6, <2>7 DEF Numbers
<1>11. ASSUME NEW p \in Procs, AppendEvent(p) PROVE Numbers'
  <2>1. /\ pc[p] = "append" /\ Busy(p) /\ Advance(p)
        /\ stream' = stream \cup {[kind |-> path[p], seq |-> my[p],
                                   patch |-> cur[p], born |-> born[p]]}
        /\ UNCHANGED <<seq, row, hot, rebuild, epoch>>
    BY <1>11 DEF AppendEvent, hotVars, Busy
  <2> QED BY <1>0, <1>10, <2>1, AdvanceStep
<1>12. ASSUME NEW p \in Procs, pc'[p] \in {"stamp", "done"},
              \A q \in Procs : q # p => pc'[q] = pc[q],
              Forget(p), UNCHANGED <<seq, row, hot, stream, rebuild, epoch>>
       PROVE  Numbers'
  BY <1>0, <1>12, ForgetStep, KeepsNumbers DEF Numbers, SeqDominates
<1>13. ASSUME NEW p \in Procs, PublishFails(p) PROVE Numbers'
  <2>1. /\ pc'[p] = "stamp" /\ \A q \in Procs : q # p => pc'[q] = pc[q]
        /\ Forget(p)
        /\ UNCHANGED <<seq, row, hot, rebuild, epoch>>
    BY <1>0, <1>13 DEF PublishFails, hotVars, ProcsTyped
  <2>2. CASE UNCHANGED stream
    BY <1>12, <2>1, <2>2
  <2>3. CASE stream' # stream
    <3>1. /\ pc[p] = "append"
          /\ stream' = stream \cup {[kind |-> path[p], seq |-> my[p],
                                     patch |-> cur[p], born |-> born[p]]}
      BY <1>13, <2>3 DEF PublishFails
    <3> QED BY <1>0, <1>10, <2>1, <3>1, ForgetStep
  <2> QED BY <2>2, <2>3
<1>14. ASSUME NEW p \in Procs, Crash(p) PROVE Numbers'
  BY <1>0, <1>12, <1>14 DEF Crash, hotVars, ProcsTyped
<1>15. ASSUME NEW e \in stream, Consume(e) PROVE Numbers'
  <2>1. /\ stream' \subseteq stream
        /\ UNCHANGED <<seq, hot, pc, my, seen, born, rebuild, epoch>>
    BY <1>15 DEF Consume, hotVars, procVars
  <2>2. row'.ver = row.ver \/ (row'.ver = e.seq /\ row.ver <= e.seq)
    <3>1. CASE e.kind = "stats"
      <4>1. row' = [row EXCEPT !.ver = Max2(row.ver, e.seq)]
        BY <1>15, <3>1 DEF Consume
      <4> QED BY <1>0, <4>1 DEF Max2, Typing, TypeOK, Row
    <3>2. CASE e.kind # "stats" /\ e.seq > row.ver
      BY <1>0, <1>15, <3>2 DEF Consume
    <3>3. CASE e.kind # "stats" /\ ~(e.seq > row.ver)
      BY <1>15, <3>3 DEF Consume
    <3> QED BY <3>1, <3>2, <3>3
  <2>3. row.ver <= row'.ver /\ row'.ver <= seq /\ row'.ver \in Nat
    BY <1>0, <2>2 DEF Numbers, SeqDominates
  <2>4. SeqDominates'
    BY <2>1, <2>3 DEF Numbers, SeqDominates
  <2>5. StampsUnique'
    BY <2>1 DEF Numbers, StampsUnique, InFlight
  <2>6. AdminActionPrevails'
    BY <1>0, <2>1, <2>3 DEF Numbers, AdminActionPrevails, InFlight
  <2> QED BY <2>4, <2>5, <2>6 DEF Numbers
<1>16. ASSUME RebuildRead \/ RebuildWrite PROVE Numbers'
  <2>1. /\ UNCHANGED <<seq, row, stream, pc, my, seen, born, epoch>>
        /\ \A r \in rebuild' : r.ver <= seq
    BY <1>16
       DEF RebuildRead, RebuildWrite, procVars, Numbers, SeqDominates
  <2>2. hot'.ver <= seq
    <3>1. CASE RebuildRead
      BY <3>1 DEF RebuildRead, Numbers, SeqDominates
    <3>2. CASE RebuildWrite
      <4>1. PICK r \in rebuild :
              hot' = [ver |-> r.ver, flags |-> r.flags, label |-> DeriveLabel(r.flags)]
        BY <3>2 DEF RebuildWrite
      <4>2. hot'.ver = r.ver
        BY <4>1
      <4> QED BY <2>1, <4>2 DEF Numbers, SeqDominates
    <3> QED BY <1>16, <3>1, <3>2
  <2> QED
    BY <2>1, <2>2
       DEF Numbers, SeqDominates, StampsUnique, AdminActionPrevails, InFlight
<1>17. CASE UNCHANGED vars
  BY <1>17 DEF vars, Numbers, SeqDominates, StampsUnique, AdminActionPrevails,
               InFlight
<1> QED
  BY <1>2, <1>3, <1>4, <1>5, <1>6, <1>7, <1>9, <1>11, <1>13, <1>14, <1>15,
     <1>16, <1>17 DEF Next, Step

LEMMA IInvAlways == Spec => []IInv
<1>1. Init => Typing
  BY AccountConstants, PatchesTyped, NoHotTyped
     DEF Init, Typing, TypeOK, ProcsConsistent, Row, PCs, Busy
<1>2. Init => Numbers
  BY NoHotTyped
     DEF Init, Numbers, SeqDominates, StampsUnique, AdminActionPrevails, InFlight
<1>3. Typing /\ [Next]_vars => Typing'
  BY TypingStep
<1>4. Typing /\ Typing' /\ Numbers /\ [Next]_vars => Numbers'
  BY NumbersStep
<1>5. IInv <=> Typing /\ Numbers
  BY DEF IInv, Typing, Numbers
<1> QED BY <1>1, <1>2, <1>3, <1>4, <1>5, PTL DEF Spec
-----------------------------------------------------------------------------
(* The theorems.                                                            *)

(* Every variable keeps its type through every step of the gateway, the      *)
(* admin handlers, the writer and the index rebuild.                         *)
THEOREM TypeCorrect == Spec => []TypeOK
BY IInvAlways, PTL DEF IInv

(* The Redis counter pool:state_seq is never behind a version that either    *)
(* store, the stream or a process holds, so INCR always hands out a newer    *)
(* number (next_state_sequence, _raise_state_sequence_floor).                *)
THEOREM CounterDominates == Spec => []SeqDominates
BY IInvAlways, PTL DEF IInv

(* No two patches on their way to the row carry the same number, so the      *)
(* writer's "version <= current_version" test never drops a patch as a copy  *)
(* of another (apply_pool_state_event).                                      *)
THEOREM NumbersAreUnique == Spec => []StampsUnique
BY IInvAlways, PTL DEF IInv

(* A delayed request event never overwrites a later probe or admin action    *)
(* (patch_pool_meta against apply_pool_state_event).                         *)
THEOREM AdminPrevails == Spec => []AdminActionPrevails
BY IInvAlways, PTL DEF IInv

(* The flags of the row change only under a rising state_version, whichever  *)
(* of patch_pool_meta and apply_pool_state_event writes it.                  *)
THEOREM RowIsMonotone == Spec => RowMovesForward
<1>1. TypeOK /\ [Next]_vars => [row'.flags # row.flags => row'.ver > row.ver]_vars
  <2> SUFFICES ASSUME TypeOK, Next, row'.flags # row.flags
               PROVE  row'.ver > row.ver
    BY DEF vars
  <2>0. row \in Row /\ row.ver \in Nat /\ seq \in Nat
    BY DEF TypeOK, Row
  <2>1. ASSUME NEW p \in Procs, SyncCommit(p) PROVE row'.ver > row.ver
    <3>1. row'.ver = SyncVersion(seq + 1)
      BY <2>1 DEF SyncCommit
    <3> QED BY <2>0, <3>1 DEF SyncVersion, Max2
  <2>2. ASSUME NEW e \in stream, Consume(e) PROVE row'.ver > row.ver
    <3>1. CASE e.kind = "stats"
      <4>1. row' = [row EXCEPT !.ver = Max2(row.ver, e.seq)]
        BY <2>2, <3>1 DEF Consume
      <4>2. row'.flags = row.flags
        BY <2>0, <4>1 DEF Row
      <4> QED BY <4>2
    <3>2. CASE e.kind # "stats" /\ e.seq > row.ver
      BY <2>2, <3>2 DEF Consume
    <3>3. CASE e.kind # "stats" /\ ~(e.seq > row.ver)
      BY <2>2, <3>3 DEF Consume
    <3> QED BY <3>1, <3>2, <3>3
  <2>3. ASSUME NEW p \in Procs, Step(p), ~SyncCommit(p) PROVE row' = row
    BY <2>3 DEF Step, Stamp, ReadHot, WriteHot, Index, HotFails, AppendEvent,
                PublishFails, Crash
  <2>4. ASSUME \/ \E r \in Requests, what \in Outcomes : Report(r, what)
               \/ \E o \in Operators, what \in Controls : Control(o, what)
               \/ RebuildRead
               \/ RebuildWrite
        PROVE  row' = row
    BY <2>4 DEF Report, Control, RebuildRead, RebuildWrite
  <2> QED BY <2>1, <2>2, <2>3, <2>4 DEF Next
<1>2. Spec => []TypeOK
  BY TypeCorrect
<1> QED BY <1>1, <1>2, PTL DEF Spec, RowMovesForward
-----------------------------------------------------------------------------
(* Failures cool the row.  As long as nothing is disrupted and nothing but   *)
(* failures is reported, no patch on its way takes a cooldown back, and a    *)
(* cooling patch that beats the row and every harmless event in the stream   *)
(* is still to be stamped, in flight or in the stream, until the row cools.  *)

Cooling == {"stack", "until"}
Cools(patch) == patch.add \cap Cooling # {}
Mends(patch) == patch.del \cap Cooling # {}
Cooled == row.flags \cap Cooling # {}

Mild ==
  /\ disruptions = 0
  /\ \A r \in Requests : outcome[r] # "success"
  /\ \A o \in Operators : outcome[o] \in {Nobody, "probe_fail"}

(* A cooling patch that p has still to stamp, and one that it has stamped    *)
(* with a number above n.                                                    *)
Ahead(p) ==
  Busy(p) /\ \E i \in DOMAIN todo[p] : (pc[p] = "stamp" \/ i # 1) /\ Cools(todo[p][i])
Flying(p, n) ==
  InFlight(p) /\ path[p] = "state" /\ Cools(cur[p]) /\ my[p] > n

Due(n) ==
  \/ \E p \in Procs : Ahead(p) \/ Flying(p, n)
  \/ \E e \in stream : Cools(e.patch) /\ e.seq > n

Shape(p) ==
  /\ \A i \in DOMAIN todo[p] : ~Mends(todo[p][i])
  /\ p \in Requests /\ Busy(p) =>
       /\ path[p] = "state" /\ Failed(p)
       /\ Cools(todo[p][Len(todo[p])])
       /\ InFlight(p) => cur[p] = Head(todo[p])
  /\ p \in Operators /\ Busy(p) =>
       /\ path[p] = "sync"
       /\ Ahead(p) \/ Cooled

EventsMild == \A e \in stream : e.kind = "state" /\ ~Mends(e.patch)

WillCool ==
  (\E r \in Requests : Failed(r)) =>
    \/ Cooled
    \/ Due(row.ver) /\ \A e \in stream : ~Cools(e.patch) => Due(e.seq)

Unreported == \A p \in Procs : pc[p] = "start" => outcome[p] = Nobody

CoolInv ==
  Unreported /\ (Mild => (\A p \in Procs : Shape(p)) /\ EventsMild /\ WillCool)

LEMMA RestOf ==
  ASSUME NEW S, NEW s \in Seq(S), s # <<>>
  PROVE  /\ Len(s) \in Nat /\ Len(s) # 0 /\ Head(s) = s[1]
         /\ DOMAIN s = 1..Len(s)
         /\ DOMAIN Tail(s) = 1..(Len(s) - 1) /\ Len(Tail(s)) = Len(s) - 1
         /\ \A i \in 1..(Len(s) - 1) : Tail(s)[i] = s[i + 1]
<1>1. Len(s) \in Nat /\ Len(s) # 0 /\ Head(s) = s[1] /\ DOMAIN s = 1..Len(s)
  OBVIOUS
<1>2. Tail(s) \in Seq(S) /\ Len(Tail(s)) = Len(s) - 1
  BY <1>1
<1>3. DOMAIN Tail(s) = 1..(Len(s) - 1)
  BY <1>2
<1>4. \A i \in 1..(Len(s) - 1) : Tail(s)[i] = s[i + 1]
  BY <1>1
<1> QED BY <1>1, <1>2, <1>3, <1>4

(* What is left after the current patch.                                     *)
LEMMA AheadAdvances ==
  ASSUME TypeOK, ProcsConsistent, NEW p \in Procs, Busy(p), pc[p] # "stamp", Advance(p)
  PROVE  /\ Ahead(p) => Ahead(p)'
         /\ \A i \in DOMAIN todo'[p] : \E j \in DOMAIN todo[p] : todo'[p][i] = todo[p][j]
         /\ Busy(p)' => todo'[p][Len(todo'[p])] = todo[p][Len(todo[p])]
         /\ ~InFlight(p)' /\ pc'[p] # "start"
         /\ path'[p] = IF p \in Requests THEN "state" ELSE "sync"
         /\ Len(todo[p]) # 1 => pc'[p] = "stamp" /\ Busy(p)'
<1>1. todo[p] \in Seq(Patch) /\ todo[p] # <<>>
  BY DEF TypeOK, ProcsConsistent
<1>2. /\ todo'[p] = Tail(todo[p])
      /\ pc'[p] = IF Len(todo[p]) = 1 THEN "done" ELSE "stamp"
      /\ path'[p] = IF p \in Requests THEN "state" ELSE "sync"
  BY DEF Advance, TypeOK
<1> DEFINE n == Len(todo[p])
           was == todo[p]
           is == todo'[p]
<1>3. /\ n \in Nat /\ n # 0 /\ DOMAIN was = 1..n
      /\ DOMAIN is = 1..(n - 1) /\ Len(is) = n - 1
      /\ \A i \in 1..(n - 1) : is[i] = was[i + 1]
  BY <1>1, <1>2, RestOf
<1>4. /\ pc'[p] = (IF n = 1 THEN "done" ELSE "stamp")
      /\ Ahead(p) <=> \E i \in DOMAIN was : i # 1 /\ Cools(was[i])
      /\ Ahead(p)' <=> Busy(p)' /\ \E i \in DOMAIN is : (pc'[p] = "stamp" \/ i # 1) /\ Cools(is[i])
      /\ Busy(p)' <=> pc'[p] \notin {"start", "done"}
  BY <1>2 DEF Ahead, Busy
<1> HIDE DEF n, was, is
<1>5. Ahead(p) => Ahead(p)'
  <2> SUFFICES ASSUME NEW i \in DOMAIN was, i # 1, Cools(was[i])
               PROVE  Ahead(p)'
    BY <1>4
  <2>1. i - 1 \in DOMAIN is /\ is[i - 1] = was[i] /\ n # 1
    BY <1>3
  <2> QED BY <1>4, <2>1
<1>6. \A i \in DOMAIN is : \E j \in DOMAIN was : is[i] = was[j]
  <2> SUFFICES ASSUME NEW i \in DOMAIN is PROVE \E j \in DOMAIN was : is[i] = was[j]
    OBVIOUS
  <2>1. i + 1 \in DOMAIN was /\ is[i] = was[i + 1]
    BY <1>3
  <2> QED BY <2>1
<1>7. n # 1 => is[Len(is)] = was[n]
  <2> SUFFICES ASSUME n # 1 PROVE is[n - 1] = was[n]
    BY <1>3
  <2>1. n - 1 \in 1..(n - 1) /\ (n - 1) + 1 = n
    BY <1>3
  <2> QED BY <1>3, <2>1
<1>8. ~InFlight(p)' /\ pc'[p] # "start" /\ (Busy(p)' => n # 1)
  BY <1>4 DEF InFlight
<1> QED BY <1>2, <1>4, <1>5, <1>6, <1>7, <1>8 DEF n, was, is

Same(q) ==
  /\ pc'[q] = pc[q] /\ path'[q] = path[q] /\ todo'[q] = todo[q] /\ cur'[q] = cur[q]
  /\ my'[q] = my[q] /\ outcome'[q] = outcome[q]

LEMMA SameKeeps ==
  ASSUME NEW q, Same(q)
  PROVE  /\ Ahead(q)' <=> Ahead(q)
         /\ \A n : Flying(q, n)' <=> Flying(q, n)
         /\ Shape(q) /\ (Cooled => Cooled') => Shape(q)'
<1>1. (Busy(q)' <=> Busy(q)) /\ (InFlight(q)' <=> InFlight(q)) /\ (Failed(q)' <=> Failed(q))
  BY DEF Same, Busy, InFlight, Failed
<1>2. Ahead(q)' <=> Ahead(q)
  BY <1>1 DEF Same, Ahead
<1>3. \A n : Flying(q, n)' <=> Flying(q, n)
  BY <1>1 DEF Same, Flying
<1>4. Shape(q) /\ (Cooled => Cooled') => Shape(q)'
  BY <1>1, <1>2 DEF Same, Shape
<1> QED BY <1>2, <1>3, <1>4

(* A step of p that touches neither the row nor the stream.                  *)
LEMMA LocalStepCools ==
  ASSUME IInv, NEW p \in Procs, \A q \in Procs : Shape(q), EventsMild, WillCool,
         row' = row, stream' = stream,
         \A q \in Procs : q # p => Same(q),
         Shape(p)',
         Ahead(p) => Ahead(p)' \/ \A n \in Nat : n <= seq => Flying(p, n)',
         \A n : Flying(p, n) => Flying(p, n)',
         (\E r \in Requests : Failed(r))' => (\E r \in Requests : Failed(r)) \/ Ahead(p)'
  PROVE  (\A q \in Procs : Shape(q))' /\ EventsMild' /\ WillCool'
<1>1. (Cooled' <=> Cooled) /\ EventsMild'
  BY DEF Cooled, EventsMild
<1>2. \A q \in Procs : Shape(q)'
  BY <1>1, SameKeeps
<1>3. ASSUME NEW n \in Nat, n <= seq, Due(n) PROVE Due(n)'
  <2>1. CASE \E e \in stream : Cools(e.patch) /\ e.seq > n
    BY <2>1 DEF Due
  <2>2. ASSUME NEW q \in Procs, Ahead(q) \/ Flying(q, n) PROVE Due(n)'
    <3>1. CASE q = p BY <1>3, <2>2, <3>1 DEF Due
    <3>2. CASE q # p BY <2>2, <3>2, SameKeeps DEF Due
    <3> QED BY <3>1, <3>2
  <2> QED BY <1>3, <2>1, <2>2 DEF Due
<1>4. /\ row.ver \in Nat /\ row.ver <= seq
      /\ \A e \in stream : e.seq \in Nat /\ e.seq <= seq
  BY DEF IInv, TypeOK, Row, Event, SeqDominates
<1>5. WillCool'
  <2>1. CASE Ahead(p)'
    <3>1. \A n : Due(n)' BY <2>1 DEF Due
    <3> QED BY <3>1 DEF WillCool
  <2>2. CASE ~Ahead(p)'
    <3> SUFFICES ASSUME (\E r \in Requests : Failed(r))', ~Cooled
                 PROVE  Due(row.ver)' /\ \A e \in stream : ~Cools(e.patch) => Due(e.seq)'
      BY <1>1 DEF WillCool
    <3>1. Due(row.ver) /\ \A e \in stream : ~Cools(e.patch) => Due(e.seq)
      BY <2>2 DEF WillCool
    <3>2. Due(row.ver)' BY <1>3, <1>4, <3>1
    <3>3. ASSUME NEW e \in stream, ~Cools(e.patch) PROVE Due(e.seq)'
      BY <1>3, <1>4, <3>1, <3>3
    <3> QED BY <3>2, <3>3
  <2> QED BY <2>1, <2>2
<1> QED BY <1>1, <1>2, <1>5

(* The reports begin with a harmless patch or a cooling one, end with a      *)
(* cooling one and mend nothing.                                             *)
LEMMA FailurePatches ==
  /\ ~Mends(CoolPatch) /\ ~Mends(NotePatch) /\ ~Mends(FreePatch) /\ ~Mends(NoPatch)
  /\ Cools(CoolPatch) /\ Cools(NotePatch) /\ Cools(FreePatch) /\ ~Cools(NoPatch)
BY DEF Mends, Cools, Cooling, CoolPatch, NotePatch, FreePatch, NoPatch

LEMMA ReportedCools ==
  ASSUME NEW what \in {"failure", "quota"}
  PROVE  LET s == RequestPatches[what]
         IN  /\ \A i \in DOMAIN s : ~Mends(s[i])
             /\ Cools(s[Len(s)])
             /\ Len(s) \in DOMAIN s
<1>1. /\ RequestPatches["failure"] = <<CoolPatch, NotePatch>>
      /\ RequestPatches["quota"] = <<NoPatch, FreePatch, NotePatch>>
  BY DEF RequestPatches
<1> DEFINE Good(s) == /\ \A i \in DOMAIN s : ~Mends(s[i])
                      /\ Cools(s[Len(s)])
                      /\ Len(s) \in DOMAIN s
<1>2. Good(RequestPatches["failure"])
  BY <1>1, FailurePatches
<1>3. Good(RequestPatches["quota"])
  BY <1>1, FailurePatches
<1> HIDE DEF Good
<1>4. Good(RequestPatches[what])
  BY <1>2, <1>3
<1> QED BY <1>4 DEF Good

LEMMA ProbedCools ==
  LET s == ControlPatches["probe_fail"]
  IN  /\ \A i \in DOMAIN s : ~Mends(s[i])
      /\ 2 \in DOMAIN s /\ Cools(s[2])
<1>1. ControlPatches["probe_fail"] = <<NoPatch, FreePatch, NoPatch>>
  BY DEF ControlPatches
<1> QED BY <1>1, FailurePatches

LEMMA ReportCools ==
  ASSUME IInv, CoolInv, Mild, Mild', NEW r \in Requests, NEW what \in Outcomes, Report(r, what)
  PROVE  (\A q \in Procs : Shape(q))' /\ EventsMild' /\ WillCool'
<1>0. /\ r \in Procs /\ r \notin Operators /\ TypeOK
      /\ (\A q \in Procs : Shape(q)) /\ EventsMild /\ WillCool
  BY AccountConstants DEF Procs, CoolInv, IInv
<1>1. /\ outcome'[r] = what /\ todo'[r] = RequestPatches[what]
      /\ path'[r] = (IF what = "success" THEN "stats" ELSE "state") /\ pc'[r] = "stamp"
      /\ UNCHANGED <<row, stream>>
  BY <1>0 DEF Report, TypeOK
<1>2. \A q \in Procs : q # r => Same(q)
  BY <1>0 DEF Report, TypeOK, Same
<1>3. what \in {"failure", "quota"}
  BY <1>1, AccountConstants DEF Mild, RequestPatches
<1>4. Ahead(r)'
  BY <1>1, <1>3, ReportedCools DEF Ahead, Busy
<1>5. Shape(r)'
  BY <1>0, <1>1, <1>3, <1>4, ReportedCools DEF Shape, Busy, InFlight, Failed
<1>6. ~\E n : Flying(r, n)
  BY DEF Report, Flying, InFlight
<1> QED BY <1>0, <1>1, <1>2, <1>4, <1>5, <1>6, LocalStepCools

LEMMA ControlCools ==
  ASSUME IInv, CoolInv, Mild, Mild', NEW o \in Operators, NEW what \in Controls, Control(o, what)
  PROVE  (\A q \in Procs : Shape(q))' /\ EventsMild' /\ WillCool'
<1>0. /\ o \in Procs /\ o \notin Requests /\ TypeOK
      /\ (\A q \in Procs : Shape(q)) /\ EventsMild /\ WillCool
  BY AccountConstants DEF Procs, CoolInv, IInv
<1>1. /\ outcome'[o] = what /\ todo'[o] = ControlPatches[what]
      /\ path'[o] = "sync" /\ pc'[o] = "stamp"
      /\ UNCHANGED <<row, stream>>
  BY <1>0 DEF Control, TypeOK
<1>2. \A q \in Procs : q # o => Same(q)
  BY <1>0 DEF Control, TypeOK, Same
<1>3. what = "probe_fail"
  BY <1>1, AccountConstants DEF Mild, ControlPatches, Nobody
<1>4. Ahead(o)'
  BY <1>1, <1>3, ProbedCools DEF Ahead, Busy
<1>5. Shape(o)'
  BY <1>0, <1>1, <1>3, <1>4, ProbedCools DEF Shape, Busy, InFlight, Failed
<1>6. ~\E n : Flying(o, n)
  BY DEF Control, Flying, InFlight
<1> QED BY <1>0, <1>1, <1>2, <1>4, <1>5, <1>6, LocalStepCools

LEMMA StampCools ==
  ASSUME IInv, CoolInv, Mild, Mild', NEW p \in Procs, Stamp(p)
  PROVE  (\A q \in Procs : Shape(q))' /\ EventsMild' /\ WillCool'
<1>0. /\ TypeOK /\ ProcsConsistent /\ seq \in Nat
      /\ (\A q \in Procs : Shape(q)) /\ EventsMild /\ WillCool
      /\ pc[p] = "stamp" /\ path[p] # "sync"
  BY DEF CoolInv, IInv, TypeOK, Stamp
<1>1. /\ my'[p] = seq + 1 /\ cur'[p] = Head(todo[p]) /\ pc'[p] = "read"
      /\ todo'[p] = todo[p] /\ path'[p] = path[p] /\ outcome'[p] = outcome[p]
      /\ UNCHANGED <<row, stream, outcome>>
  BY <1>0 DEF Stamp, TypeOK
<1>2. \A q \in Procs : q # p => Same(q)
  BY <1>0 DEF Stamp, TypeOK, Same
<1>3. p \in Requests /\ path[p] = "state"
  BY <1>0 DEF Shape, Procs, Busy
<1>4. Shape(p)'
  BY <1>0, <1>1, <1>3, AccountConstants DEF Shape, Busy, InFlight, Failed
<1>5. Ahead(p) => Ahead(p)' \/ \A n \in Nat : n <= seq => Flying(p, n)'
  <2>1. CASE Cools(Head(todo[p]))
    <3>1. ASSUME NEW n \in Nat, n <= seq PROVE Flying(p, n)'
      BY <1>0, <1>1, <1>3, <2>1, <3>1 DEF Flying, InFlight
    <3> QED BY <3>1
  <2>2. CASE ~Cools(Head(todo[p]))
    <3>1. todo[p] \in Seq(Patch) /\ todo[p] # <<>>
      BY <1>0 DEF TypeOK, ProcsConsistent, Busy
    <3>2. Head(todo[p]) = todo[p][1] BY <3>1, RestOf
    <3> QED BY <1>0, <1>1, <2>2, <3>2 DEF Ahead, Busy
  <2> QED BY <2>1, <2>2
<1>6. (\E r \in Requests : Failed(r))' => \E r \in Requests : Failed(r)
  BY <1>1 DEF Failed
<1>7. \A n : ~Flying(p, n)
  BY <1>0 DEF Flying, InFlight
<1> QED BY <1>0, <1>1, <1>2, <1>4, <1>5, <1>6, <1>7, LocalStepCools

(* The hot mirror, or the end of a synchronous patch.                        *)
LEMMA MirrorCools ==
  ASSUME IInv, CoolInv, Mild, Mild', NEW p \in Procs,
         ReadHot(p) \/ WriteHot(p) \/ Index(p)
  PROVE  (\A q \in Procs : Shape(q))' /\ EventsMild' /\ WillCool'
<1>0. /\ TypeOK /\ ProcsConsistent
      /\ (\A q \in Procs : Shape(q)) /\ EventsMild /\ WillCool
      /\ Busy(p) /\ InFlight(p) /\ pc[p] \notin {"stamp", "append"}
      /\ UNCHANGED <<row, stream, outcome>>
  BY DEF CoolInv, IInv, ReadHot, WriteHot, Index, Busy, InFlight
<1>1. (\E r \in Requests : Failed(r))' => \E r \in Requests : Failed(r)
  BY <1>0 DEF Failed
<1>2. CASE /\ \E to \in {"write", "index", "append"} : pc' = [pc EXCEPT ![p] = to]
           /\ UNCHANGED <<todo, path, cur, my>>
  <2>1. \A q \in Procs : q # p => Same(q)
    BY <1>0, <1>2 DEF TypeOK, Same
  <2>2. /\ pc'[p] \in {"write", "index", "append"}
        /\ UNCHANGED <<todo, path, cur, my>>
    BY <1>0, <1>2 DEF TypeOK
  <2>3. (Ahead(p) => Ahead(p)') /\ \A n : Flying(p, n) => Flying(p, n)'
    BY <1>0, <2>2 DEF Ahead, Busy, Flying, InFlight
  <2>4. Shape(p)'
    <3>1. Cooled' <=> Cooled BY <1>0 DEF Cooled
    <3> QED BY <1>0, <2>2, <2>3, <3>1 DEF Shape, Busy, InFlight, Failed
  <2> QED BY <1>0, <1>1, <2>1, <2>3, <2>4, LocalStepCools
<1>3. CASE path[p] = "sync" /\ Advance(p)
  <2>1. \A q \in Procs : q # p => Same(q)
    BY <1>0, <1>3 DEF TypeOK, Same, Advance, Forget
  <2>2. p \in Operators /\ p \notin Requests
    BY <1>0, <1>3, AccountConstants DEF Shape, Procs
  <2>3. (Ahead(p) => Ahead(p)') /\ \A n : ~Flying(p, n)
    BY <1>0, <1>3, AheadAdvances DEF Flying
  <2>4. Shape(p)'
    <3>1. Cooled' <=> Cooled BY <1>0 DEF Cooled
    <3>2. \A i \in DOMAIN todo'[p] : ~Mends(todo'[p][i])
      BY <1>0, <1>3, AheadAdvances DEF Shape
    <3>3. path'[p] = "sync" BY <1>0, <1>3, <2>2, AheadAdvances
    <3>4. Ahead(p) \/ Cooled BY <1>0, <2>2 DEF Shape
    <3> QED BY <2>2, <2>3, <3>1, <3>2, <3>3, <3>4 DEF Shape
  <2> QED BY <1>0, <1>1, <2>1, <2>3, <2>4, LocalStepCools
<1> QED
  BY <1>2, <1>3 DEF ReadHot, WriteHot, Index, AfterHot

LEMMA AppendCools ==
  ASSUME IInv, CoolInv, Mild, Mild', NEW p \in Procs, AppendEvent(p)
  PROVE  (\A q \in Procs : Shape(q))' /\ EventsMild' /\ WillCool'
<1> DEFINE new == [kind |-> path[p], seq |-> my[p], patch |-> cur[p], born |-> born[p]]
<1>0. /\ TypeOK /\ ProcsConsistent
      /\ (\A q \in Procs : Shape(q)) /\ EventsMild /\ WillCool
      /\ Busy(p) /\ InFlight(p) /\ pc[p] = "append" /\ path[p] # "sync"
      /\ stream' = stream \cup {new} /\ Advance(p)
      /\ UNCHANGED <<row, outcome>>
  BY DEF CoolInv, IInv, AppendEvent, Busy, InFlight, ProcsConsistent
<1>1. /\ new.kind = path[p] /\ new.seq = my[p] /\ new.patch = cur[p]
  OBVIOUS
<1> HIDE DEF new
<1>2. \A q \in Procs : q # p => Same(q)
  BY <1>0 DEF TypeOK, Same, Advance, Forget
<1>3. /\ p \in Requests /\ p \notin Operators /\ path[p] = "state" /\ cur[p] = Head(todo[p])
      /\ Failed(p) /\ Cools(todo[p][Len(todo[p])])
  BY <1>0, AccountConstants DEF Shape, Procs
<1>4. /\ todo[p] \in Seq(Patch) /\ todo[p] # <<>>
  BY <1>0 DEF TypeOK, ProcsConsistent
<1>5. cur[p] = todo[p][1] /\ 1 \in DOMAIN todo[p] /\ Len(todo[p]) \in DOMAIN todo[p]
  BY <1>3, <1>4, RestOf
<1>6. EventsMild'
  <2>1. new.kind = "state" /\ ~Mends(new.patch)
    BY <1>0, <1>1, <1>3, <1>5 DEF Shape
  <2> QED BY <1>0, <2>1 DEF EventsMild
<1>7. Shape(p)'
  <2>1. \A i \in DOMAIN todo'[p] : ~Mends(todo'[p][i])
    BY <1>0, AheadAdvances DEF Shape
  <2>2. path'[p] = "state" /\ ~InFlight(p)' /\ Failed(p)'
        /\ (Busy(p)' => Cools(todo'[p][Len(todo'[p])]))
    BY <1>0, <1>3, AheadAdvances DEF Failed
  <2> QED BY <1>3, <2>1, <2>2 DEF Shape
<1>8. Cooled' <=> Cooled BY <1>0 DEF Cooled
<1>9. Ahead(p) => Ahead(p)'
  BY <1>0, AheadAdvances
<1>10. ~Cools(new.patch) => Ahead(p)
  <2> SUFFICES ASSUME ~Cools(cur[p]) PROVE Ahead(p)
    BY <1>1
  <2>1. Len(todo[p]) # 1 BY <1>3, <1>5
  <2> QED BY <1>0, <1>3, <1>5, <2>1 DEF Ahead
<1>11. ASSUME NEW n, Due(n) PROVE Due(n)'
  <2>1. CASE \E e \in stream : Cools(e.patch) /\ e.seq > n
    BY <1>0, <2>1 DEF Due
  <2>2. ASSUME NEW q \in Procs, Ahead(q) \/ Flying(q, n) PROVE Due(n)'
    <3>1. CASE q = p /\ Ahead(p) BY <1>9, <3>1 DEF Due
    <3>2. CASE q = p /\ Flying(p, n)
      <4>1. Cools(new.patch) /\ new.seq > n BY <1>1, <3>2 DEF Flying
      <4> QED BY <1>0, <4>1 DEF Due
    <3>3. CASE q # p BY <1>2, <2>2, <3>3, SameKeeps DEF Due
    <3> QED BY <2>2, <3>1, <3>2, <3>3
  <2> QED BY <1>11, <2>1, <2>2 DEF Due
<1>12. WillCool'
  <2> SUFFICES ASSUME ~Cooled
               PROVE  Due(row.ver)' /\ \A e \in stream' : ~Cools(e.patch) => Due(e.seq)'
    BY <1>8 DEF WillCool
  <2>1. Due(row.ver) /\ \A e \in stream : ~Cools(e.patch) => Due(e.seq)
    BY <1>0, <1>3 DEF WillCool
  <2>2. Due(row.ver)'
    <3>1. row' = row BY <1>0
    <3> QED BY <1>11, <2>1, <3>1
  <2>3. ASSUME NEW e \in stream', ~Cools(e.patch) PROVE Due(e.seq)'
    <3>1. CASE e \in stream BY <1>11, <2>1, <2>3, <3>1
    <3>2. CASE e = new
      <4>1. Ahead(p)' BY <1>9, <1>10, <2>3, <3>2
      <4> QED BY <4>1 DEF Due
    <3> QED BY <1>0, <3>1, <3>2
  <2> QED BY <2>2, <2>3
<1> QED BY <1>2, <1>0, <1>6, <1>7, <1>8, <1>12, SameKeeps

LEMMA CommitCools ==
  ASSUME IInv, CoolInv, Mild, Mild', NEW p \in Procs, SyncCommit(p)
  PROVE  (\A q \in Procs : Shape(q))' /\ EventsMild' /\ WillCool'
<1>0. /\ TypeOK /\ ProcsConsistent
      /\ (\A q \in Procs : Shape(q)) /\ EventsMild /\ WillCool
      /\ Busy(p) /\ pc[p] = "stamp" /\ path[p] = "sync"
      /\ UNCHANGED <<stream, outcome>>
  BY DEF CoolInv, IInv, SyncCommit, Busy
<1>1. /\ row'.flags = PatchFlags(row.flags, Head(todo[p]))
      /\ pc'[p] = "read" /\ todo'[p] = todo[p] /\ path'[p] = path[p] /\ outcome'[p] = outcome[p]
  BY <1>0 DEF SyncCommit, TypeOK
<1>2. \A q \in Procs : q # p => Same(q)
  BY <1>0 DEF SyncCommit, TypeOK, Same
<1>3. p \in Operators /\ p \notin Requests
  BY <1>0, AccountConstants DEF Shape, Procs
<1>4. /\ todo[p] \in Seq(Patch) /\ todo[p] # <<>>
  BY <1>0 DEF TypeOK, ProcsConsistent
<1>5. Head(todo[p]) = todo[p][1] /\ 1 \in DOMAIN todo[p]
  BY <1>4, RestOf
<1>6. ~Mends(Head(todo[p]))
  BY <1>0, <1>5 DEF Shape
<1>7. Cooled => Cooled'
  BY <1>1, <1>6 DEF Cooled, Mends, PatchFlags
<1>8. Cools(Head(todo[p])) => Cooled'
  BY <1>1 DEF Cooled, Cools, PatchFlags
<1>9. Cooled' \/ Ahead(p)'
  <2>1. CASE Cooled BY <1>7, <2>1
  <2>2. CASE ~Cooled /\ ~Cools(Head(todo[p]))
    <3>1. Ahead(p) BY <1>0, <1>3, <2>2 DEF Shape
    <3> QED BY <1>0, <1>1, <1>5, <2>2, <3>1 DEF Ahead, Busy
  <2> QED BY <1>8, <2>1, <2>2
<1>10. Shape(p)'
  BY <1>0, <1>1, <1>3, <1>9 DEF Shape
<1>11. EventsMild' BY <1>0 DEF EventsMild
<1>12. WillCool'
  <2>1. CASE Cooled' BY <2>1 DEF WillCool
  <2>2. CASE Ahead(p)'
    <3>1. \A n : Due(n)' BY <2>2 DEF Due
    <3> QED BY <3>1 DEF WillCool
  <2> QED BY <1>9, <2>1, <2>2
<1> QED BY <1>0, <1>2, <1>7, <1>10, <1>11, <1>12, SameKeeps

LEMMA ConsumeCools ==
  ASSUME IInv, CoolInv, Mild, Mild', NEW e \in stream, Consume(e)
  PROVE  (\A q \in Procs : Shape(q))' /\ EventsMild' /\ WillCool'
<1>0. /\ TypeOK
      /\ (\A q \in Procs : Shape(q)) /\ EventsMild /\ WillCool
      /\ stream' = stream \ {e} /\ UNCHANGED procVars
      /\ row.ver \in Nat /\ row \in Row /\ e.seq \in Nat
      /\ \A f \in stream : f.seq \in Nat
  BY DEF CoolInv, IInv, Consume, TypeOK, Row, Event
<1>1. e.kind = "state" /\ ~Mends(e.patch)
  BY <1>0 DEF EventsMild
<1>2. row' = IF e.seq > row.ver
             THEN [ver |-> e.seq, flags |-> PatchFlags(row.flags, e.patch)]
             ELSE row
  BY <1>1 DEF Consume
<1>3. \A q \in Procs : Same(q)
  BY <1>0 DEF Same, procVars
<1>4. Cooled => Cooled'
  BY <1>1, <1>2 DEF Cooled, Mends, PatchFlags
<1>5. Cools(e.patch) /\ e.seq > row.ver => Cooled'
  BY <1>2 DEF Cooled, Cools, PatchFlags
<1>6. EventsMild' BY <1>0 DEF EventsMild
<1>7. ASSUME NEW n \in Nat, Due(n), ~Cools(e.patch) \/ e.seq <= n
      PROVE  Due(n)'
  <2>1. CASE \E f \in stream : Cools(f.patch) /\ f.seq > n
    <3> PICK f \in stream : Cools(f.patch) /\ f.seq > n BY <2>1
    <3>1. f # e BY <1>0, <1>7
    <3> QED BY <1>0, <3>1 DEF Due
  <2>2. CASE \E q \in Procs : Ahead(q) \/ Flying(q, n)
    BY <1>3, <2>2, SameKeeps DEF Due
  <2> QED BY <1>7, <2>1, <2>2 DEF Due
<1>8. ASSUME NEW n \in Nat, NEW m \in Nat, m <= n, Due(n) PROVE Due(m)
  <2>1. CASE \E f \in stream : Cools(f.patch) /\ f.seq > n
    BY <1>0, <1>8, <2>1 DEF Due
  <2>2. ASSUME NEW q \in Procs, Flying(q, n) PROVE Flying(q, m)
    <3>1. my[q] \in Nat BY <1>0 DEF TypeOK
    <3> QED BY <1>8, <2>2, <3>1 DEF Flying
  <2> QED BY <1>8, <2>1, <2>2 DEF Due
<1>9. WillCool'
  <2> SUFFICES ASSUME (\E r \in Requests : Failed(r))', ~Cooled'
               PROVE  Due(row.ver)' /\ \A f \in stream' : ~Cools(f.patch) => Due(f.seq)'
    BY DEF WillCool
  <2>1. \E r \in Requests : Failed(r)
    BY <1>0 DEF Failed, procVars
  <2>2. Due(row.ver) /\ \A f \in stream : ~Cools(f.patch) => Due(f.seq)
    BY <1>0, <1>4, <2>1 DEF WillCool
  <2>3. CASE e.seq > row.ver
    <3>1. ~Cools(e.patch) BY <1>5, <2>3
    <3>2. row'.ver = e.seq BY <1>2, <2>3
    <3>3. Due(e.seq)' BY <1>0, <1>7, <2>2, <3>1
    <3>4. Due(row.ver)' BY <3>2, <3>3 DEF Due
    <3>5. ASSUME NEW f \in stream', ~Cools(f.patch) PROVE Due(f.seq)'
      BY <1>0, <1>7, <2>2, <3>1, <3>5
    <3> QED BY <3>4, <3>5
  <2>4. CASE ~(e.seq > row.ver)
    <3>1. e.seq <= row.ver /\ row' = row BY <1>0, <1>2, <2>4
    <3>2. Due(row.ver)' BY <1>0, <1>7, <2>2, <3>1
    <3>3. ASSUME NEW f \in stream', ~Cools(f.patch) PROVE Due(f.seq)'
      <4>1. f \in stream /\ Due(f.seq) /\ f.seq \in Nat BY <1>0, <2>2, <3>3
      <4>2. CASE e.seq <= f.seq BY <1>7, <4>1, <4>2
      <4>3. CASE f.seq < e.seq
        <5>1. f.seq <= row.ver BY <1>0, <3>1, <4>1, <4>3
        <5>2. ASSUME NEW n \in Nat, NEW m \in Nat, m <= n, Due(n)' PROVE Due(m)'
          <6>1. \A q \in Procs : my'[q] \in Nat BY <1>0 DEF TypeOK, procVars
          <6>2. \A q \in Procs : Flying(q, n)' => Flying(q, m)'
            BY <5>2, <6>1 DEF Flying
          <6>3. \A g \in stream' : g.seq > n => g.seq > m
            BY <1>0, <5>2
          <6> QED BY <5>2, <6>2, <6>3 DEF Due
        <5> QED BY <1>0, <3>1, <3>2, <4>1, <5>1, <5>2
      <4> QED BY <1>0, <4>1, <4>2, <4>3
    <3> QED BY <3>2, <3>3
  <2> QED BY <2>3, <2>4
<1> QED BY <1>3, <1>0, <1>4, <1>6, <1>9, SameKeeps

LEMMA CoolStep ==
  ASSUME IInv, CoolInv, [Next]_vars
  PROVE  CoolInv'
<1>0. TypeOK /\ Unreported BY DEF IInv, CoolInv
<1>1. Unreported'
  <2>1. ASSUME NEW p \in Procs, Step(p) PROVE Unreported'
    BY <1>0, <2>1
    DEF Unreported, Step, Stamp, SyncCommit, ReadHot, WriteHot, Index, HotFails, AppendEvent,
        PublishFails, Crash, AfterHot, Advance, TypeOK
  <2>2. ASSUME NEW r \in Requests, NEW what \in Outcomes, Report(r, what) PROVE Unreported'
    BY <1>0, <2>2 DEF Unreported, Report, TypeOK, Procs
  <2>3. ASSUME NEW o \in Operators, NEW what \in Controls, Control(o, what) PROVE Unreported'
    BY <1>0, <2>3 DEF Unreported, Control, TypeOK, Procs
  <2>4. CASE UNCHANGED procVars
    BY <1>0, <2>4 DEF Unreported, procVars
  <2> QED
    BY <2>1, <2>2, <2>3, <2>4
    DEF Next, Consume, RebuildRead, RebuildWrite, vars, procVars
<1>2. ASSUME Mild' PROVE (\A q \in Procs : Shape(q))' /\ EventsMild' /\ WillCool'
  <2>1. Mild
    <3>1. \A p \in Procs : outcome'[p] = outcome[p] \/ outcome[p] = Nobody
      <4>1. ASSUME NEW r \in Requests, NEW what \in Outcomes, Report(r, what)
            PROVE \A p \in Procs : outcome'[p] = outcome[p] \/ outcome[p] = Nobody
        BY <1>0, <4>1 DEF Report, Unreported, TypeOK, Procs
      <4>2. ASSUME NEW o \in Operators, NEW what \in Controls, Control(o, what)
            PROVE \A p \in Procs : outcome'[p] = outcome[p] \/ outcome[p] = Nobody
        BY <1>0, <4>2 DEF Control, Unreported, TypeOK, Procs
      <4>3. CASE UNCHANGED outcome BY <4>3
      <4> QED
        BY <4>1, <4>2, <4>3
        DEF Next, Step, Stamp, SyncCommit, ReadHot, WriteHot, Index, HotFails, AppendEvent,
            PublishFails, Crash, Consume, RebuildRead, RebuildWrite, vars, procVars
    <3>2. disruptions' = 0 => disruptions = 0
      BY <1>0
      DEF Next, Step, Stamp, SyncCommit, ReadHot, WriteHot, Index, HotFails, AppendEvent,
          PublishFails, Crash, Consume, RebuildRead, RebuildWrite, Report, Control, Disrupt,
          vars, TypeOK
    <3> QED BY <1>2, <3>1, <3>2 DEF Mild, Procs, Nobody
  <2>2. (\A q \in Procs : Shape(q)) /\ EventsMild /\ WillCool
    BY <2>1 DEF CoolInv
  <2>3. ~Disrupt
    <3>1. disruptions \in Nat /\ disruptions' = 0
      BY <1>0, <1>2, AccountConstants DEF TypeOK, Mild
    <3> QED BY <3>1 DEF Disrupt
  <2>4. CASE UNCHANGED <<row, stream, procVars>>
    <3>1. \A q \in Procs : Same(q) BY <2>4 DEF Same, procVars
    <3>2. (Cooled' <=> Cooled) /\ EventsMild'
      BY <2>2, <2>4 DEF Cooled, EventsMild
    <3>3. \A q \in Procs : Shape(q)' BY <2>2, <3>1, <3>2, SameKeeps
    <3>4. \A n : Due(n) => Due(n)' BY <2>4, <3>1, SameKeeps DEF Due
    <3>5. WillCool'
      <4> SUFFICES ASSUME (\E r \in Requests : Failed(r))', ~Cooled
                   PROVE  Due(row.ver)' /\ \A e \in stream' : ~Cools(e.patch) => Due(e.seq)'
        BY <3>2 DEF WillCool
      <4>1. \E r \in Requests : Failed(r) BY <2>4 DEF Failed, procVars
      <4>2. Due(row.ver) /\ \A e \in stream : ~Cools(e.patch) => Due(e.seq)
        BY <2>2, <4>1 DEF WillCool
      <4>3. row' = row BY <2>4
      <4>4. Due(row.ver)' BY <3>4, <4>2, <4>3
      <4> QED BY <2>4, <3>4, <4>2, <4>4
    <3> QED BY <3>2, <3>3, <3>5
  <2> QED
    BY <1>2, <2>1, <2>3, <2>4, ReportCools, ControlCools, StampCools, MirrorCools,
       AppendCools, CommitCools, ConsumeCools
    DEF Next, Step, HotFails, PublishFails, Crash, RebuildRead, RebuildWrite, vars
<1> QED BY <1>1, <1>2 DEF CoolInv

(* Failures cool the account in PostgreSQL, however many requests report     *)
(* them, beside any number of failing probes, in whatever order the writer   *)
(* delivers the events, and whatever of them it drops as too old.            *)
THEOREM FailuresCool == Spec => []FailuresCoolTheRow
<1>1. Init => CoolInv
  <2> SUFFICES ASSUME Init PROVE CoolInv
    OBVIOUS
  <2>1. /\ \A p \in Procs : pc[p] = "start" /\ todo[p] = <<>> /\ outcome[p] = Nobody
        /\ stream = {}
    BY DEF Init
  <2>2. \A p \in Procs : Shape(p)
    BY <2>1 DEF Shape, Busy
  <2>3. Unreported /\ EventsMild BY <2>1 DEF Unreported, EventsMild
  <2>4. WillCool BY <2>1 DEF WillCool, Failed, Nobody, Procs
  <2> QED BY <2>2, <2>3, <2>4 DEF CoolInv
<1>2. IInv /\ CoolInv /\ [Next]_vars => CoolInv'
  BY CoolStep
<1>3. CoolInv => FailuresCoolTheRow
  <2> SUFFICES ASSUME CoolInv, Quiet, Mild, \E r \in Requests : Failed(r)
               PROVE  row.flags \cap Cooling # {}
    BY DEF FailuresCoolTheRow, Mild, Cooling
  <2>1. Cooled \/ Due(row.ver) BY DEF CoolInv, WillCool
  <2>2. ~Due(row.ver)
    BY DEF Due, Quiet, Ahead, Flying, InFlight, Busy
  <2> QED BY <2>1, <2>2 DEF Cooled
<1> QED BY <1>1, <1>2, <1>3, IInvAlways, PTL DEF Spec
=============================================================================
