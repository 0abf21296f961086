--------------------------- MODULE ChatLogProofs ---------------------------
(***************************************************************************)
(* Proofs about ChatLog.tla, for any number of texts, clips, sounds and    *)
(* rows.                                                                   *)
(*                                                                         *)
(* A task finds its row again from the newest one back.  It finds the      *)
(* right one because no two rows of one kind have the same key (Unique),   *)
(* and for texts that rests on their packet ids: a session that types      *)
(* fewer texts than there are ids gives each its own, though the ids wrap  *)
(* around (IdsInv).                                                        *)
(***************************************************************************)
EXTENDS ChatLog, FiniteSetTheorems, SequenceTheorems, TLAPS

-----------------------------------------------------------------------------
(* Types *)

SoundKeys == {<<s.from, s.id>> : s \in Sounds}
Labels == {"text", "sending", "message", "partial", "receiving", "gave up", "failed"}
Rows == [kind : {"sent", "heard", "clip", "sound"},
         key : PacketIds \cup Clips \cup SoundKeys \cup {None},
         label : Labels,
         delivery : Answers \cup {"Pending", "TimedOut", None},
         voice : {None, "whole", "partial"}]
Statuses == {"Sending", "BurstComplete", "GaveUp", "Failed", "Complete"}
Stages == {"unsent", "bursting", "sent", "over"}

TextState ==
    [at : {"typed", "clicked", "writing", "returning", "waiting", "over"},
     id : PacketIds \cup {0},
     to : Peers \cup {Everyone, None},
     answer : Answers \cup {None},
     first : Answers \cup {"TimedOut", None}]

ComposerTypeOK ==
    /\ compose \in {"Idle", "Recording", "Preview"}
    /\ mic \in {"off", "live", "ended"}
    /\ playback \in {None} \cup [what : Playables, ended : BOOLEAN]
    /\ source \in {None, Preview} \cup {"LogEntry"} \X Nat

TypeOK ==
    /\ log \in Seq(Rows)
    /\ packet \in 0 .. 2 ^ IdWidth - 1
    /\ acks \subseteq [id : PacketIds, handle : Texts]
    /\ text \in [Texts -> TextState]
    /\ assembly \in [Sounds -> {"unknown", "open", "settled"}]
    /\ voice \in [Clips -> [stage : Stages, burst : BOOLEAN,
                            ear : {"none", "spawned", "listening", "gone"}, line : Seq(Statuses)]]
    /\ ComposerTypeOK

-----------------------------------------------------------------------------
(* The invariant *)

\* The texts that were given an id, and the ids they were given: the ones
\* from the first on, round the end of the counter.
Numbered == {t \in Texts : text[t].id # 0}
Given(f, n) == (f .. f + n - 1) \cup (1 .. f + n - 2 ^ IdWidth)
NextOf(f, n) == IF f + n < 2 ^ IdWidth THEN f + n ELSE f + n + 1 - 2 ^ IdWidth

IdsInv ==
    /\ \E f \in PacketIds :
          /\ next_id(packet) = NextOf(f, Cardinality(Numbered))
          /\ \A t \in Numbered : text[t].id \in Given(f, Cardinality(Numbered))
    /\ \A t, u \in Numbered : text[t].id = text[u].id => t = u

\* While a direct message may still be answered either its slot is there, or
\* the answer its handle holds is the first there was.
TextInv(t) ==
    /\ text[t].at \in {"typed", "clicked"}
         => text[t].id = 0 /\ text[t].first = None /\ text[t].answer = None
    /\ text[t].id = 0 => text[t].at \in {"typed", "clicked"}
    /\ text[t].at = "waiting" => Direct(t)
    /\ Holds(t) => text[t].first # "TimedOut"
    /\ Holds(t) /\ Direct(t) =>
          /\ text[t].answer = text[t].first
          /\ text[t].first = None => [id |-> text[t].id, handle |-> t] \in acks

AcksInv == SlotsAwaitAnswers /\ \A s \in acks : Direct(s.handle)

\* What a row says of its text, clip or sound.
RowOK(row) ==
    /\ row.kind \in {"sent", "heard"} => row.voice = None
    /\ row.kind = "sent" =>
          \E t \in Texts :
              /\ row.key = text[t].id /\ text[t].at \in {"waiting", "over"}
              /\ Direct(t) =>
                    row.delivery = IF text[t].at = "over" THEN text[t].first ELSE "Pending"
              /\ Direct(t) /\ text[t].at = "over" => text[t].first # None
    /\ row.kind = "clip" =>
          /\ row.key \in Clips /\ voice[row.key].stage # "unsent"
          /\ row.voice # None => row.voice = "whole" /\ voice[row.key].burst
    /\ row.kind = "sound" =>
          \E s \in Sounds :
              /\ row.key = <<s.from, s.id>>
              /\ row.voice # None => Known(s)
              /\ row.voice = "partial" => Conceals(s)

\* No two rows of one kind have the same key, what was heard apart.
Unique(lg) ==
    \A i, j \in 1 .. Len(lg) :
        lg[i].kind = lg[j].kind /\ lg[i].key = lg[j].key /\ lg[i].kind # "heard" => i = j

LogInv == Unique(log) /\ \A i \in 1 .. Len(log) : RowOK(log[i])

\* A status that ends the burst is on a line only once the burst has ended.
LinesInv ==
    \A c \in Clips : \A k \in 1 .. Len(voice[c].line) :
        voice[c].line[k] = "BurstComplete" => voice[c].burst

ChatInv ==
    /\ TypeOK /\ IdsInv /\ (\A t \in Texts : TextInv(t)) /\ AcksInv
    /\ LogInv /\ LinesInv /\ ComposerTruthful

-----------------------------------------------------------------------------
(* Operators on the log *)

Same(row, kind, key) == row.kind = kind /\ row.key = key

LEMMA PushChat ==
    ASSUME NEW lg \in Seq(Rows), Unique(lg), NEW row \in Rows,
           row.kind = "heard" \/ \A i \in 1 .. Len(lg) : ~Same(lg[i], row.kind, row.key)
    PROVE  LET new == push_chat(lg, row)
           IN  /\ new \in Seq(Rows) /\ Unique(new)
               /\ \A i \in 1 .. Len(new) : new[i] = row \/ \E j \in 1 .. Len(lg) : new[i] = lg[j]
<1> DEFINE n == Len(lg)
           grown == Append(lg, row)
<1>1. /\ n \in Nat /\ grown \in Seq(Rows) /\ Len(grown) = n + 1 /\ grown[n + 1] = row
      /\ \A i \in 1 .. n : grown[i] = lg[i]
  BY AppendProperties
<1>2. Unique(grown) /\ \A i \in 1 .. n + 1 : grown[i] = row \/ \E j \in 1 .. n : grown[i] = lg[j]
  <2> HIDE DEF grown
  <2>1. ASSUME NEW i \in 1 .. n + 1, NEW j \in 1 .. n + 1, grown[i].kind = grown[j].kind,
               grown[i].key = grown[j].key, grown[i].kind # "heard"
        PROVE  i = j
    <3>1. CASE i \in 1 .. n /\ j \in 1 .. n
      BY <1>1, <2>1, <3>1 DEF Unique
    <3>2. CASE i = n + 1 /\ j \in 1 .. n
      BY <1>1, <2>1, <3>2 DEF Same
    <3>3. CASE i \in 1 .. n /\ j = n + 1
      BY <1>1, <2>1, <3>3 DEF Same
    <3> QED
      BY <1>1, <3>1, <3>2, <3>3
  <2>2. ASSUME NEW i \in 1 .. n + 1
        PROVE  grown[i] = row \/ \E j \in 1 .. n : grown[i] = lg[j]
    <3>1. i = n + 1 \/ i \in 1 .. n
      BY <1>1
    <3> QED
      BY <1>1, <3>1
  <2> QED
    BY <1>1, <2>1, <2>2 DEF Unique
<1>3. CASE ~(Len(grown) > MaxRows)
  BY <1>1, <1>2, <1>3 DEF push_chat
<1>4. CASE Len(grown) > MaxRows
  <2> DEFINE rest == Tail(grown)
  <2>1. grown # <<>>
    BY <1>1, EmptySeq
  <2> HIDE DEF grown
  <2>2. rest \in Seq(Rows) /\ Len(rest) = n /\ \A i \in 1 .. n : rest[i] = grown[i + 1]
    <3>1. rest \in Seq(Rows) /\ Len(rest) = Len(grown) - 1
          /\ \A i \in 1 .. Len(rest) : rest[i] = grown[i + 1]
      BY <1>1, <2>1, HeadTailProperties
    <3> HIDE DEF rest
    <3> QED
      BY <1>1, <3>1
  <2>3. \A i \in 1 .. n : i + 1 \in 1 .. n + 1
    BY <1>1
  <2> HIDE DEF rest
  <2>4. ASSUME NEW i \in 1 .. n, NEW j \in 1 .. n, rest[i].kind = rest[j].kind,
               rest[i].key = rest[j].key, rest[i].kind # "heard"
        PROVE  i = j
    <3>1. /\ i + 1 \in 1 .. Len(grown) /\ j + 1 \in 1 .. Len(grown)
          /\ rest[i] = grown[i + 1] /\ rest[j] = grown[j + 1]
      BY <1>1, <2>2, <2>3
    <3>2. i + 1 = j + 1
      BY <1>2, <2>4, <3>1 DEF Unique
    <3> QED
      BY <3>2
  <2>5. Unique(rest) /\ \A i \in 1 .. n : rest[i] = row \/ \E j \in 1 .. n : rest[i] = lg[j]
    BY <1>2, <2>2, <2>3, <2>4 DEF Unique
  <2>6. push_chat(lg, row) = rest
    BY <1>4 DEF push_chat, rest, grown
  <2> QED
    BY <2>2, <2>5, <2>6
<1> QED
  BY <1>3, <1>4

\* RowOf finds the row, or there is none.
LEMMA FoundRow ==
    ASSUME NEW lg \in Seq(Rows), Unique(lg), NEW kind, kind # "heard", NEW key
    PROVE  LET i == RowOf(lg, kind, key)
           IN  \/ i = 0 /\ \A j \in 1 .. Len(lg) : ~Same(lg[j], kind, key)
               \/ /\ i \in 1 .. Len(lg) /\ Same(lg[i], kind, key)
                  /\ \A j \in 1 .. Len(lg) : Same(lg[j], kind, key) => j = i
<1> DEFINE I == {i \in 1 .. Len(lg) : lg[i].kind = kind /\ lg[i].key = key}
<1>1. RowOf(lg, kind, key) = IF I # {} THEN Max(I) ELSE 0
  BY DEF RowOf, SelectLastInSeq
<1>2. CASE I = {}
  BY <1>1, <1>2 DEF Same
<1>3. CASE I # {}
  <2>1. PICK i : i \in I
    BY <1>3
  <2>2. \A j \in I : j = i
    BY <2>1 DEF Unique
  <2>3. i \in 1 .. Len(lg) /\ Len(lg) \in Nat
    BY <2>1
  <2>4. Max(I) = i
    <3>1. I = {i}
      BY <2>1, <2>2
    <3> HIDE DEF I
    <3> QED
      BY <2>3, <3>1 DEF Max
  <2> QED
    BY <1>1, <1>3, <2>1, <2>2, <2>3, <2>4 DEF Same
<1> QED
  BY <1>2, <1>3

\* A row with some of its fields changed, and the others as they were.
Fields == {"label", "delivery", "voice"}
Fitting(fields) ==
    /\ DOMAIN fields \subseteq Fields
    /\ "label" \in DOMAIN fields => fields["label"] \in Labels
    /\ "delivery" \in DOMAIN fields => fields["delivery"] \in Answers \cup {"Pending", "TimedOut", None}
    /\ "voice" \in DOMAIN fields => fields["voice"] \in {None, "whole", "partial"}

LEMMA WithIs ==
    ASSUME NEW row \in Rows, NEW fields, Fitting(fields)
    PROVE  LET new == With(fields, row)
           IN  /\ new \in Rows /\ new.kind = row.kind /\ new.key = row.key
               /\ new.label = IF "label" \in DOMAIN fields THEN fields["label"] ELSE row.label
               /\ new.delivery = IF "delivery" \in DOMAIN fields THEN fields["delivery"]
                                 ELSE row.delivery
               /\ new.voice = IF "voice" \in DOMAIN fields THEN fields["voice"] ELSE row.voice
<1> DEFINE D == {"kind", "key", "label", "delivery", "voice"}
           new == With(fields, row)
<1>1. DOMAIN row = D
  BY DEF Rows
<1>2. new = [x \in D |-> IF x \in DOMAIN fields THEN fields[x] ELSE row[x]]
  BY <1>1 DEF With
<1>3. "kind" \notin DOMAIN fields /\ "key" \notin DOMAIN fields
  BY DEF Fitting, Fields
<1> HIDE DEF new
<1>4. /\ new["kind"] = row["kind"] /\ new["key"] = row["key"]
      /\ new["label"] = IF "label" \in DOMAIN fields THEN fields["label"] ELSE row["label"]
      /\ new["delivery"] = IF "delivery" \in DOMAIN fields THEN fields["delivery"]
                           ELSE row["delivery"]
      /\ new["voice"] = IF "voice" \in DOMAIN fields THEN fields["voice"] ELSE row["voice"]
  BY <1>2, <1>3
<1>5. new = [kind |-> new["kind"], key |-> new["key"], label |-> new["label"],
             delivery |-> new["delivery"], voice |-> new["voice"]]
  BY <1>2
<1>6. new \in Rows
  BY <1>4, <1>5 DEF Rows, Fitting
<1> QED
  BY <1>4, <1>6 DEF new

\* A list in which one row was rewritten.
LEMMA RowChanged ==
    ASSUME NEW lg \in Seq(Rows), Unique(lg), NEW i \in 1 .. Len(lg),
           NEW row \in Rows, Same(row, lg[i].kind, lg[i].key)
    PROVE  LET new == [lg EXCEPT ![i] = row]
           IN  /\ new \in Seq(Rows) /\ Unique(new) /\ Len(new) = Len(lg) /\ new[i] = row
               /\ \A j \in 1 .. Len(lg) : j # i => new[j] = lg[j]
<1> DEFINE new == [lg EXCEPT ![i] = row]
<1>1. /\ new \in Seq(Rows) /\ Len(new) = Len(lg) /\ new[i] = row
      /\ \A j \in 1 .. Len(lg) : j # i => new[j] = lg[j]
  BY ExceptSeq
<1> HIDE DEF new
<1>2. \A j \in 1 .. Len(lg) : new[j].kind = lg[j].kind /\ new[j].key = lg[j].key
  BY <1>1 DEF Same
<1>3. Unique(new)
  BY <1>1, <1>2 DEF Unique
<1> QED
  BY <1>1, <1>3 DEF new

LEMMA Rewritten ==
    ASSUME NEW lg \in Seq(Rows), Unique(lg), NEW kind, kind # "heard", NEW key,
           NEW fields, Fitting(fields)
    PROVE  LET new == Rewrite(lg, kind, key, fields)
           IN  /\ new \in Seq(Rows) /\ Unique(new) /\ Len(new) = Len(lg)
               /\ \A i \in 1 .. Len(lg) :
                     new[i] = IF Same(lg[i], kind, key) THEN With(fields, lg[i]) ELSE lg[i]
<1> DEFINE at == RowOf(lg, kind, key)
<1>1. \/ at = 0 /\ \A j \in 1 .. Len(lg) : ~Same(lg[j], kind, key)
      \/ /\ at \in 1 .. Len(lg) /\ Same(lg[at], kind, key)
         /\ \A j \in 1 .. Len(lg) : Same(lg[j], kind, key) => j = at
  BY FoundRow
<1>2. Rewrite(lg, kind, key, fields)
        = IF at = 0 THEN lg ELSE [lg EXCEPT ![at] = With(fields, lg[at])]
  BY DEF Rewrite
<1> HIDE DEF at
<1>3. CASE at = 0
  <2>1. \A j \in 1 .. Len(lg) : ~Same(lg[j], kind, key)
    BY <1>1, <1>3
  <2> QED
    BY <1>2, <1>3, <2>1
<1>4. CASE at # 0
  <2>1. /\ at \in 1 .. Len(lg) /\ Same(lg[at], kind, key)
        /\ \A j \in 1 .. Len(lg) : Same(lg[j], kind, key) => j = at
    BY <1>1, <1>4
  <2> DEFINE row == With(fields, lg[at])
             new == [lg EXCEPT ![at] = row]
  <2>2. row \in Rows /\ Same(row, lg[at].kind, lg[at].key)
    <3>1. lg[at] \in Rows
      BY <2>1
    <3> QED
      BY <3>1, WithIs DEF Same
  <2> HIDE DEF row
  <2>3. /\ new \in Seq(Rows) /\ Unique(new) /\ Len(new) = Len(lg) /\ new[at] = row
        /\ \A j \in 1 .. Len(lg) : j # at => new[j] = lg[j]
    BY <2>1, <2>2, RowChanged
  <2> HIDE DEF new
  <2>4. Rewrite(lg, kind, key, fields) = new
    BY <1>2, <1>4 DEF new, row
  <2>5. \A i \in 1 .. Len(lg) :
            new[i] = IF Same(lg[i], kind, key) THEN With(fields, lg[i]) ELSE lg[i]
    BY <2>1, <2>3 DEF row
  <2> QED
    BY <2>3, <2>4, <2>5
<1> QED
  BY <1>3, <1>4

-----------------------------------------------------------------------------
(* Packet ids *)

LEMMA IdsGrow ==
    ASSUME TypeOK, IdsInv, NEW t \in Texts, text[t].id = 0,
           packet' = Following(packet),
           \A u \in Texts : text'[u].id = IF u = t THEN next_id(packet) ELSE text[u].id
    PROVE  /\ next_id(packet) \in PacketIds /\ packet' \in 0 .. 2 ^ IdWidth - 1
           /\ \A u \in Texts : text[u].id # next_id(packet)
           /\ IdsInv'
<1>1. PICK M : M = 2 ^ IdWidth /\ M \in Nat \ {0, 1}
  BY IdAssumption
<1>2. PICK id : id = next_id(packet)
  OBVIOUS
<1>3. PICK n, m : n = Cardinality(Numbered) /\ m = Cardinality(Texts)
  OBVIOUS
<1>4. t \notin Numbered /\ Numbered \subseteq Texts
  BY DEF Numbered
<1>5. n \in Nat /\ n + 1 < M
  <2>1. IsFiniteSet(Texts) /\ m \in Nat /\ m < M
    BY <1>1, <1>3, TextsAssumption, FS_CardinalityType
  <2>2. IsFiniteSet(Numbered) /\ n \in Nat
    BY <1>3, <1>4, <2>1, FS_Subset, FS_CardinalityType
  <2>3. Cardinality(Numbered \cup {t}) = n + 1
    BY <1>3, <1>4, <2>2, FS_AddElement
  <2>4. n + 1 <= m
    BY <1>3, <1>4, <2>1, <2>3, FS_Subset
  <2> QED
    BY <1>1, <2>1, <2>2, <2>4
<1>6. PICK f \in PacketIds :
        /\ id = NextOf(f, n)
        /\ \A u \in Numbered : text[u].id \in Given(f, n)
  BY <1>2, <1>3 DEF IdsInv
<1>7. f \in 1 .. M - 1
  BY <1>1, <1>6 DEF PacketIds
<1>8. \/ f + n < M /\ id = f + n
      \/ f + n >= M /\ id = f + n + 1 - M
  BY <1>1, <1>5, <1>6, <1>7 DEF NextOf
<1>9. id \in 1 .. M - 1
  BY <1>1, <1>5, <1>7, <1>8
<1>10. id \notin Given(f, n)
  BY <1>1, <1>5, <1>7, <1>8 DEF Given
<1>11. id \in Given(f, n + 1) /\ Given(f, n) \subseteq Given(f, n + 1)
  <2>1. f + (n + 1) - 1 = f + n /\ f + (n + 1) - M = f + n + 1 - M
    BY <1>1, <1>5, <1>7
  <2>2. Given(f, n + 1) = (f .. f + n) \cup (1 .. f + n + 1 - M)
    BY <1>1, <2>1 DEF Given
  <2>3. Given(f, n) = (f .. f + n - 1) \cup (1 .. f + n - M)
    BY <1>1 DEF Given
  <2> QED
    BY <1>1, <1>5, <1>7, <1>8, <2>2, <2>3
<1>12. packet' = IF id + 1 = M THEN 0 ELSE id + 1
  <2>1. packet' = (id + 1) % M
    BY <1>1, <1>2 DEF Following
  <2>2. CASE id + 1 = M
    BY <1>1, <2>1, <2>2
  <2>3. CASE id + 1 # M
    <3>1. id + 1 \in 0 .. M - 1
      BY <1>1, <1>9, <2>3
    <3> QED
      BY <1>1, <2>1, <2>3, <3>1
  <2> QED
    BY <2>2, <2>3
<1>13. next_id(packet') = IF id + 1 = M THEN 1 ELSE id + 1
  BY <1>1, <1>9, <1>12 DEF next_id
<1>14. next_id(packet') = NextOf(f, n + 1)
  <2>1. NextOf(f, n + 1) = IF f + (n + 1) < M THEN f + (n + 1) ELSE f + (n + 1) + 1 - M
    BY <1>1 DEF NextOf
  <2> QED
    BY <1>1, <1>5, <1>7, <1>8, <1>13, <2>1
<1>15. \A u \in Texts : text[u].id # id
  <2>1. \A u \in Numbered : text[u].id # id
    BY <1>6, <1>10
  <2> QED
    BY <1>9, <2>1 DEF Numbered
<1>16. Numbered' = Numbered \cup {t}
  BY <1>2, <1>9 DEF Numbered
<1>17. Cardinality(Numbered') = n + 1
  <2>1. IsFiniteSet(Numbered)
    BY <1>4, TextsAssumption, FS_Subset
  <2> QED
    BY <1>3, <1>4, <1>16, <2>1, FS_AddElement
<1>18. \A u \in Numbered' : text'[u].id \in Given(f, n + 1)
  BY <1>2, <1>4, <1>6, <1>11, <1>16
<1>19. \A u, v \in Numbered' : text'[u].id = text'[v].id => u = v
  <2>1. \A u, v \in Numbered : text[u].id = text[v].id => u = v
    BY DEF IdsInv
  <2> QED
    BY <1>2, <1>4, <1>15, <1>16, <2>1
<1>20. IdsInv'
  <2>1. next_id(packet') = NextOf(f, Cardinality(Numbered'))
    BY <1>14, <1>17
  <2>2. \A u \in Numbered' : text'[u].id \in Given(f, Cardinality(Numbered'))
    BY <1>17, <1>18
  <2> QED
    BY <1>19, <2>1, <2>2 DEF IdsInv
<1> QED
  BY <1>1, <1>2, <1>9, <1>12, <1>15, <1>20 DEF PacketIds

LEMMA IdsKept ==
    ASSUME TypeOK, IdsInv, UNCHANGED packet, \A u \in Texts : text'[u].id = text[u].id
    PROVE  IdsInv'
<1>1. Numbered' = Numbered
  BY DEF Numbered
<1>2. PICK n : n = Cardinality(Numbered)
  OBVIOUS
<1>3. Cardinality(Numbered') = n
  BY <1>1, <1>2
<1>4. PICK f \in PacketIds :
        /\ next_id(packet) = NextOf(f, n)
        /\ \A t \in Numbered : text[t].id \in Given(f, n)
  BY <1>2 DEF IdsInv
<1>5. next_id(packet') = NextOf(f, Cardinality(Numbered'))
  BY <1>3, <1>4
<1>6. \A t \in Numbered' : text'[t].id \in Given(f, Cardinality(Numbered'))
  BY <1>1, <1>3, <1>4 DEF Numbered
<1>7. \A t, u \in Numbered' : text'[t].id = text'[u].id => t = u
  <2>1. \A t, u \in Numbered : text[t].id = text[u].id => t = u
    BY DEF IdsInv
  <2> QED
    BY <1>1, <2>1 DEF Numbered
<1> QED
  BY <1>5, <1>6, <1>7 DEF IdsInv

-----------------------------------------------------------------------------
(* What a step does to the rows *)

\* What a row says of a text or a clip it goes on saying.
TextKept(t) ==
    text[t].at \in {"waiting", "over"} =>
        /\ text'[t].id = text[t].id /\ text'[t].at = text[t].at /\ text'[t].to = text[t].to
        /\ text[t].first # None => text'[t].first = text[t].first

ClipsKept ==
    \A c \in Clips :
        /\ voice[c].stage # "unsent" => voice'[c].stage # "unsent"
        /\ voice[c].burst => voice'[c].burst

\* What PlayableStays says of one step.
Carries ==
    \A i \in 1 .. Len(log), j \in 1 .. Len(log') :
        log[i].kind # "heard" /\ log[i].kind = log'[j].kind /\ log[i].key = log'[j].key =>
            /\ log[i].voice # None => log'[j].voice # None
            /\ log[i].voice = "whole" => log'[j].voice = "whole"

LEMMA RowStays ==
    ASSUME NEW row \in Rows, RowOK(row), ClipsKept,
           row.kind = "sent" => \A t \in Texts : row.key = text[t].id => TextKept(t)
    PROVE  RowOK(row)'
<1>1. CASE row.kind = "sent"
  <2>1. PICK t \in Texts :
          /\ row.key = text[t].id /\ text[t].at \in {"waiting", "over"}
          /\ Direct(t) => row.delivery = IF text[t].at = "over" THEN text[t].first ELSE "Pending"
          /\ Direct(t) /\ text[t].at = "over" => text[t].first # None
    BY <1>1 DEF RowOK
  <2>2. /\ text'[t].id = text[t].id /\ text'[t].at = text[t].at /\ text'[t].to = text[t].to
        /\ text[t].first # None => text'[t].first = text[t].first
    BY <1>1, <2>1 DEF TextKept
  <2>3. row.voice = None
    BY <1>1 DEF RowOK
  <2> QED
    BY <1>1, <2>1, <2>2, <2>3 DEF RowOK, Direct
<1>2. CASE row.kind = "clip"
  BY <1>2 DEF RowOK, ClipsKept
<1>3. CASE row.kind \in {"sound", "heard"}
  BY <1>3 DEF RowOK
<1> QED
  BY <1>1, <1>2, <1>3 DEF Rows

LEMMA LogKept ==
    ASSUME TypeOK, LogInv, UNCHANGED log, \A t \in Texts : TextKept(t), ClipsKept
    PROVE  log' \in Seq(Rows) /\ LogInv' /\ Carries
<1>1. log' \in Seq(Rows) /\ Unique(log') /\ Carries
  BY DEF TypeOK, LogInv, Unique, Carries
<1>2. ASSUME NEW i \in 1 .. Len(log')
      PROVE  RowOK(log[i])'
  <2>1. PICK row : row = log[i] /\ row = log'[i]
    OBVIOUS
  <2>2. row \in Rows /\ RowOK(row)
    BY <2>1 DEF TypeOK, LogInv
  <2>3. RowOK(row)'
    BY <2>2, RowStays
  <2> QED
    BY <2>1, <2>3
<1> QED
  BY <1>1, <1>2 DEF LogInv

LEMMA LogPushed ==
    ASSUME TypeOK, LogInv, NEW row \in Rows, log' = push_chat(log, row),
           row.kind = "heard" \/ \A i \in 1 .. Len(log) : ~Same(log[i], row.kind, row.key),
           RowOK(row)', \A r \in Rows : RowOK(r) => RowOK(r)'
    PROVE  log' \in Seq(Rows) /\ LogInv' /\ Carries
<1>1. PICK lg : lg = log
  OBVIOUS
<1>2. lg \in Seq(Rows) /\ Unique(lg) /\ \A i \in 1 .. Len(lg) : RowOK(lg[i])
  BY <1>1 DEF TypeOK, LogInv
<1>3. PICK new : new = push_chat(lg, row)
  OBVIOUS
<1>4. /\ new \in Seq(Rows) /\ Unique(new)
      /\ \A i \in 1 .. Len(new) : new[i] = row \/ \E j \in 1 .. Len(lg) : new[i] = lg[j]
  BY <1>1, <1>2, <1>3, PushChat
<1>5. log' = new
  BY <1>1, <1>3
<1>6. ASSUME NEW i \in 1 .. Len(new)
      PROVE  RowOK(new[i])'
  <2>1. CASE new[i] = row
    BY <2>1
  <2>2. CASE \E j \in 1 .. Len(lg) : new[i] = lg[j]
    <3>1. PICK r \in Rows : r = new[i]
      BY <1>4
    <3>2. RowOK(r)
      BY <1>2, <2>2, <3>1
    <3>3. RowOK(r)'
      BY <3>2
    <3> QED
      BY <3>1, <3>3
  <2> QED
    BY <1>4, <2>1, <2>2
<1>7. ASSUME NEW i \in 1 .. Len(lg), NEW j \in 1 .. Len(new), lg[i].kind # "heard",
             lg[i].kind = new[j].kind, lg[i].key = new[j].key
      PROVE  new[j] = lg[i]
  <2>1. CASE new[j] = row
    BY <1>1, <1>7, <2>1 DEF Same
  <2>2. CASE \E k \in 1 .. Len(lg) : new[j] = lg[k]
    BY <1>2, <1>7, <2>2 DEF Unique
  <2> QED
    BY <1>4, <2>1, <2>2
<1>8. Carries
  BY <1>1, <1>5, <1>7 DEF Carries
<1>9. LogInv'
  BY <1>4, <1>5, <1>6 DEF LogInv
<1> QED
  BY <1>4, <1>5, <1>8, <1>9

LEMMA LogRewritten ==
    ASSUME TypeOK, LogInv, NEW kind, kind # "heard", NEW key, NEW fields, Fitting(fields),
           "voice" \in DOMAIN fields => fields["voice"] = "whole",
           log' = Rewrite(log, kind, key, fields),
           \A r \in Rows : RowOK(r) /\ ~Same(r, kind, key) => RowOK(r)',
           \A r, s \in Rows : RowOK(r) /\ Same(r, kind, key) /\ s = With(fields, r) => RowOK(s)'
    PROVE  log' \in Seq(Rows) /\ LogInv' /\ Carries
<1>1. PICK lg : lg = log
  OBVIOUS
<1>2. lg \in Seq(Rows) /\ Unique(lg) /\ \A i \in 1 .. Len(lg) : RowOK(lg[i])
  BY <1>1 DEF TypeOK, LogInv
<1>3. PICK new : new = Rewrite(lg, kind, key, fields)
  OBVIOUS
<1>4. /\ new \in Seq(Rows) /\ Unique(new) /\ Len(new) = Len(lg)
      /\ \A i \in 1 .. Len(lg) :
            new[i] = IF Same(lg[i], kind, key) THEN With(fields, lg[i]) ELSE lg[i]
  BY <1>2, <1>3, Rewritten
<1>5. log' = new
  BY <1>1, <1>3
<1>6. ASSUME NEW i \in 1 .. Len(new)
      PROVE  RowOK(new[i])'
  <2>1. PICK r \in Rows : r = lg[i]
    BY <1>2, <1>4
  <2>2. PICK s \in Rows : s = new[i]
    BY <1>4
  <2>3. RowOK(r)
    BY <1>2, <1>4, <2>1
  <2>4. RowOK(s)'
    <3>1. CASE Same(r, kind, key)
      <4>1. s = With(fields, r)
        BY <1>4, <2>1, <2>2, <3>1
      <4> QED
        BY <2>3, <3>1, <4>1
    <3>2. CASE ~Same(r, kind, key)
      <4>1. s = r
        BY <1>4, <2>1, <2>2, <3>2
      <4>2. RowOK(r)'
        BY <2>3, <3>2
      <4> QED
        BY <4>1, <4>2
    <3> QED
      BY <3>1, <3>2
  <2> QED
    BY <2>2, <2>4
<1>7. ASSUME NEW i \in 1 .. Len(lg)
      PROVE  /\ new[i].kind = lg[i].kind /\ new[i].key = lg[i].key
             /\ new[i].voice = lg[i].voice \/ new[i].voice = "whole"
  <2>1. CASE Same(lg[i], kind, key)
    <3>1. PICK r \in Rows : r = lg[i]
      BY <1>2
    <3>2. PICK s : s = With(fields, r)
      OBVIOUS
    <3>3. /\ s.kind = r.kind /\ s.key = r.key
          /\ s.voice = IF "voice" \in DOMAIN fields THEN fields["voice"] ELSE r.voice
      BY <3>2, WithIs
    <3> QED
      BY <1>4, <2>1, <3>1, <3>2, <3>3
  <2> QED
    BY <1>4, <2>1
<1>8. Carries
  <2>1. ASSUME NEW i \in 1 .. Len(lg), NEW j \in 1 .. Len(new), lg[i].kind # "heard",
               lg[i].kind = new[j].kind, lg[i].key = new[j].key
        PROVE  i = j
    BY <1>2, <1>4, <1>7, <2>1 DEF Unique
  <2>2. "whole" # None
    BY NoneAssumption
  <2> QED
    BY <1>1, <1>4, <1>5, <1>7, <2>1, <2>2 DEF Carries
<1>9. LogInv'
  BY <1>4, <1>5, <1>6 DEF LogInv
<1> QED
  BY <1>4, <1>5, <1>8, <1>9

-----------------------------------------------------------------------------
(* What a step leaves alone *)

TextsOK == IdsInv /\ (\A t \in Texts : TextInv(t)) /\ AcksInv

LEMMA SameTexts ==
    ASSUME TypeOK, TextsOK, UNCHANGED <<packet, acks, text>>
    PROVE  TextsOK' /\ \A t \in Texts : TextKept(t)
<1>1. IdsInv'
  BY IdsKept DEF TextsOK
<1>2. \A t \in Texts : TextInv(t)'
  BY DEF TextsOK, TextInv, Direct, Holds
<1>3. AcksInv'
  BY DEF TextsOK, AcksInv, SlotsAwaitAnswers, Direct, Holds
<1> QED
  BY <1>1, <1>2, <1>3 DEF TextsOK, TextKept

LEMMA SameClips ==
    ASSUME LinesInv, UNCHANGED voice
    PROVE  LinesInv' /\ ClipsKept
BY DEF LinesInv, ClipsKept

LEMMA SameComposer ==
    ASSUME ComposerTruthful, UNCHANGED composerVars
    PROVE  ComposerTruthful'
BY DEF ComposerTruthful, composerVars, Preview

\* A step of the text t leaves the other texts alone, if it leaves them
\* their slots.
LEMMA OthersKept ==
    ASSUME TypeOK, TextsOK, NEW t \in Texts,
           \A u \in Texts : u # t => text'[u] = text[u],
           \A s \in acks : s.handle # t /\ Holds(s.handle) => s \in acks'
    PROVE  \A u \in Texts : u # t => TextInv(u)' /\ TextKept(u)
<1> SUFFICES ASSUME NEW u \in Texts, u # t
             PROVE  TextInv(u)' /\ TextKept(u)
  OBVIOUS
<1>1. text'[u] = text[u] /\ TextInv(u)
  BY DEF TextsOK
<1>2. (Holds(u)' <=> Holds(u)) /\ (Direct(u)' <=> Direct(u))
  BY <1>1 DEF Holds, Direct
<1>3. PICK s : s = [id |-> text[u].id, handle |-> u]
  OBVIOUS
<1>4. s.handle = u
  BY <1>3
<1>5. Holds(u) /\ s \in acks => s \in acks'
  BY <1>4
<1>6. s = [id |-> text'[u].id, handle |-> u]
  BY <1>1, <1>3
<1> QED
  BY <1>1, <1>2, <1>3, <1>5, <1>6 DEF TextInv, TextKept

-----------------------------------------------------------------------------
(* The steps of a text *)

LEMMA ClicksSend ==
    ASSUME ChatInv, NEW t \in Texts, NEW to \in Peers \cup {Everyone}, ClickSend(t, to)
    PROVE  ChatInv' /\ Carries
<1> USE DEF ChatInv
<1>1. PICK was \in TextState : was = text[t]
  BY DEF TypeOK
<1>2. /\ text' \in [Texts -> TextState]
      /\ text'[t] = [was EXCEPT !.at = "clicked", !.to = to]
      /\ \A u \in Texts : u # t => text'[u] = text[u]
      /\ was.at = "typed" /\ UNCHANGED <<log, packet, acks, onAir, assembly, voice, composerVars>>
  BY <1>1 DEF ClickSend, TypeOK, TextState
<1>3. /\ text'[t].at = "clicked" /\ text'[t].id = was.id /\ text'[t].answer = was.answer
      /\ text'[t].first = was.first
  BY <1>1, <1>2 DEF TextState
<1>4. TypeOK'
  BY <1>2 DEF TypeOK, ComposerTypeOK, composerVars
<1>5. \A u \in Texts : u # t => TextInv(u)' /\ TextKept(u)
  BY <1>2, OthersKept DEF TextsOK
<1>6. TextInv(t)' /\ TextKept(t)
  BY <1>1, <1>2, <1>3 DEF TextInv, TextKept, Holds
<1>7. IdsInv'
  BY <1>1, <1>2, <1>3, IdsKept
<1>8. AcksInv'
  <2>1. \A s \in acks : s.handle # t
    BY <1>1, <1>2 DEF AcksInv, SlotsAwaitAnswers, TextInv, TypeOK, PacketIds
  <2> QED
    BY <1>2, <2>1 DEF AcksInv, SlotsAwaitAnswers, Holds, Direct, TypeOK
<1>9. LinesInv' /\ ClipsKept
  BY <1>2, SameClips
<1>10. ComposerTruthful'
  BY <1>2, SameComposer
<1>11. LogInv' /\ Carries
  BY <1>2, <1>5, <1>6, <1>9, LogKept
<1> QED
  BY <1>4, <1>5, <1>6, <1>7, <1>8, <1>9, <1>10, <1>11

LEMMA BeginsTheSend ==
    ASSUME ChatInv, NEW t \in Texts, BeginsSend(t)
    PROVE  ChatInv' /\ Carries
<1> USE DEF ChatInv
<1>1. PICK was \in TextState : was = text[t]
  BY DEF TypeOK
<1>2. PICK id : id = next_id(packet)
  OBVIOUS
<1>3. PICK held : held = {u \in Texts : Holds(u)}
  OBVIOUS
<1>4. PICK slots : slots = IF Direct(t) THEN register_ack(acks, id, t, held) ELSE acks
  OBVIOUS
<1>5. PICK at \in {"writing", "over"} :
        /\ text' = [text EXCEPT ![t].at = at, ![t].id = id]
        /\ acks' = IF at = "writing" THEN slots ELSE discard_ack(slots, id)
  BY <1>2, <1>3, <1>4 DEF BeginsSend
<1>6. /\ was.at = "clicked" /\ packet' = Following(packet)
      /\ UNCHANGED <<log, onAir, assembly, voice, left, composerVars>>
  BY <1>1 DEF BeginsSend
<1>7. /\ text'[t] = [was EXCEPT !.at = at, !.id = id]
      /\ \A u \in Texts : u # t => text'[u] = text[u]
  BY <1>1, <1>5 DEF TypeOK
<1>8. /\ text'[t].at = at /\ text'[t].id = id /\ text'[t].to = was.to
      /\ text'[t].answer = was.answer /\ text'[t].first = was.first
  BY <1>7 DEF TextState
<1>9. was.id = 0 /\ was.first = None /\ was.answer = None
  BY <1>1, <1>6 DEF TextInv
<1>10. /\ id \in PacketIds /\ packet' \in 0 .. 2 ^ IdWidth - 1
       /\ \A u \in Texts : text[u].id # id
       /\ IdsInv'
  <2>1. \A u \in Texts : text'[u].id = IF u = t THEN next_id(packet) ELSE text[u].id
    BY <1>2, <1>7, <1>8
  <2> QED
    BY <1>1, <1>2, <1>6, <1>9, <2>1, IdsGrow
<1>11. text' \in [Texts -> TextState]
  BY <1>1, <1>5, <1>10 DEF TypeOK, TextState
<1>12. PICK mine : mine = [id |-> id, handle |-> t]
  OBVIOUS
<1>13. /\ \A s \in acks' : s \in acks \/ (s = mine /\ Direct(t) /\ at = "writing")
       /\ \A s \in acks : Holds(s.handle) => s \in acks'
       /\ Direct(t) /\ at = "writing" => mine \in acks'
  <2>1. \A s \in acks : s.id # id /\ s.handle \in Texts
    BY <1>10 DEF AcksInv, SlotsAwaitAnswers, TypeOK
  <2>2. /\ \A s \in slots : s \in acks \/ (s = mine /\ Direct(t))
        /\ \A s \in acks : Holds(s.handle) => s \in slots
        /\ Direct(t) => mine \in slots
    BY <1>3, <1>4, <1>12, <2>1 DEF register_ack, Direct, Holds
  <2>3. CASE at = "writing"
    BY <1>5, <2>2, <2>3
  <2>4. CASE at = "over"
    <3>1. acks' = {s \in slots : s.id # id}
      BY <1>5, <2>4 DEF discard_ack
    <3>2. mine.id = id
      BY <1>12
    <3> QED
      BY <2>1, <2>2, <2>4, <3>1, <3>2 DEF Direct, Holds
  <2> QED
    BY <2>3, <2>4
<1>14. acks' \subseteq [id : PacketIds, handle : Texts]
  BY <1>10, <1>12, <1>13 DEF TypeOK
<1>15. TypeOK'
  BY <1>6, <1>10, <1>11, <1>14 DEF TypeOK, ComposerTypeOK, composerVars
<1>16. \A u \in Texts : u # t => TextInv(u)' /\ TextKept(u)
  BY <1>7, <1>13, OthersKept DEF TextsOK
<1>17. Direct(t)' <=> Direct(t)
  BY <1>1, <1>8 DEF Direct
<1>18. TextInv(t)' /\ TextKept(t)
  <2>1. id # 0
    BY <1>10 DEF PacketIds
  <2>2. mine = [id |-> text'[t].id, handle |-> t]
    BY <1>8, <1>12
  <2>3. TextInv(t)'
    BY <1>1, <1>8, <1>9, <1>13, <2>1, <2>2, NoneAssumption DEF TextInv, Holds, Direct
  <2> QED
    BY <1>1, <1>6, <2>3 DEF TextKept
<1>19. AcksInv'
  <2>1. ASSUME NEW s \in acks'
        PROVE  /\ text'[s.handle].id = s.id
               /\ text'[s.handle].first \in {None, "TimedOut"}
               /\ Holds(s.handle)' \/ text'[s.handle].first = "TimedOut"
               /\ Direct(s.handle)'
    <3>1. CASE s \in acks
      <4>1. s.handle \in Texts /\ text[s.handle].id = s.id /\ s.id \in PacketIds
        BY <3>1 DEF AcksInv, SlotsAwaitAnswers, TypeOK
      <4>2. s.handle # t
        BY <1>1, <1>9, <4>1 DEF PacketIds
      <4>3. text'[s.handle] = text[s.handle]
        BY <1>7, <4>1, <4>2
      <4> QED
        BY <3>1, <4>3 DEF AcksInv, SlotsAwaitAnswers, Holds, Direct
    <3>2. CASE s = mine /\ Direct(t) /\ at = "writing"
      <4>1. s.id = id /\ s.handle = t
        BY <1>12, <3>2
      <4> QED
        BY <1>8, <1>9, <1>17, <3>2, <4>1 DEF Holds
    <3> QED
      BY <1>13, <3>1, <3>2
  <2> QED
    BY <2>1 DEF AcksInv, SlotsAwaitAnswers
<1>20. LinesInv' /\ ClipsKept
  BY <1>6, SameClips
<1>21. ComposerTruthful'
  BY <1>6, SameComposer
<1>22. LogInv' /\ Carries
  BY <1>6, <1>16, <1>18, <1>20, LogKept
<1> QED
  BY <1>10, <1>15, <1>16, <1>18, <1>19, <1>20, <1>21, <1>22

\* A step of the text t that has its id keeps the ids and the slots right,
\* if it is right about the text itself.
LEMMA TextMoves ==
    ASSUME ChatInv, NEW t \in Texts, text[t].id # 0,
           text' \in [Texts -> TextState], \A u \in Texts : u # t => text'[u] = text[u],
           text'[t].id = text[t].id, text'[t].to = text[t].to, UNCHANGED packet,
           acks' \subseteq acks, \A s \in acks : s.handle # t => s \in acks',
           TextInv(t)',
           \A s \in acks' : s.handle = t =>
               /\ text'[t].first \in {None, "TimedOut"}
               /\ Holds(t)' \/ text'[t].first = "TimedOut"
    PROVE  /\ TextsOK' /\ acks' \subseteq [id : PacketIds, handle : Texts]
           /\ \A u \in Texts : u # t => TextKept(u)
<1> USE DEF ChatInv
<1>1. \A u \in Texts : u # t => TextInv(u)' /\ TextKept(u)
  BY OthersKept DEF TextsOK
<1>2. IdsInv'
  BY IdsKept
<1>3. AcksInv'
  <2>1. ASSUME NEW s \in acks'
        PROVE  /\ text'[s.handle].id = s.id
               /\ text'[s.handle].first \in {None, "TimedOut"}
               /\ Holds(s.handle)' \/ text'[s.handle].first = "TimedOut"
               /\ Direct(s.handle)'
    <3>1. /\ s \in acks /\ s.handle \in Texts /\ text[s.handle].id = s.id /\ Direct(s.handle)
          /\ text[s.handle].first \in {None, "TimedOut"}
          /\ Holds(s.handle) \/ text[s.handle].first = "TimedOut"
      BY DEF AcksInv, SlotsAwaitAnswers, TypeOK
    <3>2. CASE s.handle = t
      BY <3>1, <3>2 DEF Direct
    <3>3. CASE s.handle # t
      <4>1. text'[s.handle] = text[s.handle]
        BY <3>1, <3>3
      <4> QED
        BY <3>1, <4>1 DEF Direct, Holds
    <3> QED
      BY <3>2, <3>3
  <2> QED
    BY <2>1 DEF AcksInv, SlotsAwaitAnswers
<1> QED
  BY <1>1, <1>2, <1>3 DEF TextsOK, TypeOK

\* The slots of other texts are under other ids.
LEMMA OtherIds ==
    ASSUME ChatInv, NEW t \in Texts, text[t].id # 0, NEW s \in acks
    PROVE  s.handle = t <=> s.id = text[t].id
<1>1. s.handle \in Texts /\ text[s.handle].id = s.id /\ s.id \in PacketIds
  BY DEF ChatInv, AcksInv, SlotsAwaitAnswers, TypeOK
<1>2. s.handle \in Numbered /\ t \in Numbered
  BY <1>1 DEF Numbered, PacketIds
<1> QED
  BY <1>1, <1>2 DEF ChatInv, IdsInv

LEMMA WritesThePacket ==
    ASSUME ChatInv, NEW t \in Texts, WritesPacket(t)
    PROVE  ChatInv' /\ Carries
<1> USE DEF ChatInv
<1>1. PICK was \in TextState : was = text[t]
  BY DEF TypeOK
<1>2. PICK at \in {"returning", "over"} :
        /\ text' = [text EXCEPT ![t].at = at]
        /\ acks' = IF at = "returning" THEN acks ELSE discard_ack(acks, was.id)
  BY <1>1 DEF WritesPacket
<1>3. was.at = "writing" /\ UNCHANGED <<log, packet, assembly, voice, left, composerVars>>
  BY <1>1 DEF WritesPacket
<1>4. /\ text' \in [Texts -> TextState] /\ text'[t] = [was EXCEPT !.at = at]
      /\ \A u \in Texts : u # t => text'[u] = text[u]
  BY <1>1, <1>2 DEF TypeOK, TextState
<1>5. /\ text'[t].at = at /\ text'[t].id = was.id /\ text'[t].to = was.to
      /\ text'[t].answer = was.answer /\ text'[t].first = was.first
  BY <1>4 DEF TextState
<1>6. text[t].id # 0
  BY <1>1, <1>3 DEF TextInv
<1>7. \A s \in acks : s.handle = t <=> s.id = was.id
  BY <1>1, <1>6, OtherIds
<1>8. /\ acks' \subseteq acks /\ \A s \in acks : s.handle # t => s \in acks'
      /\ at = "over" => \A s \in acks' : s.handle # t
      /\ at = "returning" => acks' = acks
  BY <1>2, <1>7 DEF discard_ack
<1>9. TextInv(t)' /\ TextKept(t)
  <2>1. TextInv(t) /\ (Direct(t)' <=> Direct(t))
    BY <1>1, <1>5 DEF Direct
  <2>2. PICK mine : mine = [id |-> was.id, handle |-> t]
    OBVIOUS
  <2>3. mine = [id |-> text'[t].id, handle |-> t] /\ mine = [id |-> text[t].id, handle |-> t]
    BY <1>1, <1>5, <2>2
  <2>4. TextInv(t)'
    BY <1>1, <1>3, <1>5, <1>6, <1>8, <2>1, <2>3 DEF TextInv, Holds, Direct
  <2> QED
    BY <1>1, <1>3, <2>4 DEF TextKept
<1>10. \A s \in acks' : s.handle = t =>
           /\ text'[t].first \in {None, "TimedOut"}
           /\ Holds(t)' \/ text'[t].first = "TimedOut"
  BY <1>1, <1>5, <1>8 DEF AcksInv, SlotsAwaitAnswers, Holds
<1>11. /\ TextsOK' /\ acks' \subseteq [id : PacketIds, handle : Texts]
       /\ \A u \in Texts : u # t => TextKept(u)
  BY <1>1, <1>3, <1>4, <1>5, <1>6, <1>8, <1>9, <1>10, TextMoves
<1>12. TypeOK'
  BY <1>3, <1>4, <1>11 DEF TypeOK, ComposerTypeOK, composerVars
<1>13. LinesInv' /\ ClipsKept
  BY <1>3, SameClips
<1>14. ComposerTruthful'
  BY <1>3, SameComposer
<1>15. LogInv' /\ Carries
  BY <1>3, <1>9, <1>11, <1>13, LogKept
<1> QED
  BY <1>11, <1>12, <1>13, <1>14, <1>15 DEF TextsOK

LEMMA ShowsItSent ==
    ASSUME ChatInv, NEW t \in Texts, ShowsSent(t)
    PROVE  ChatInv' /\ Carries
<1> USE DEF ChatInv
<1>1. PICK was \in TextState : was = text[t]
  BY DEF TypeOK
<1>2. PICK at : at = IF Direct(t) THEN "waiting" ELSE "over"
  OBVIOUS
<1>3. PICK row : row = Row("sent", was.id, "text", IF Direct(t) THEN "Pending" ELSE None, None)
  OBVIOUS
<1>4. /\ was.at = "returning" /\ text' = [text EXCEPT ![t].at = at]
      /\ log' = push_chat(log, row)
      /\ UNCHANGED <<packet, acks, onAir, assembly, voice, left, composerVars>>
  BY <1>1, <1>2, <1>3 DEF ShowsSent
<1>5. /\ text' \in [Texts -> TextState] /\ text'[t] = [was EXCEPT !.at = at]
      /\ \A u \in Texts : u # t => text'[u] = text[u]
  BY <1>1, <1>2, <1>4 DEF TypeOK, TextState
<1>6. /\ text'[t].at = at /\ text'[t].id = was.id /\ text'[t].to = was.to
      /\ text'[t].answer = was.answer /\ text'[t].first = was.first
  BY <1>5 DEF TextState
<1>7. was.id # 0 /\ was.id \in PacketIds
  BY <1>1, <1>4 DEF TextInv, TextState
<1>8. TextInv(t)' /\ TextKept(t)
  <2>1. TextInv(t) /\ (Direct(t)' <=> Direct(t))
    BY <1>1, <1>6 DEF Direct
  <2>2. PICK mine : mine = [id |-> was.id, handle |-> t]
    OBVIOUS
  <2>3. mine = [id |-> text'[t].id, handle |-> t] /\ mine = [id |-> text[t].id, handle |-> t]
    BY <1>1, <1>6, <2>2
  <2>4. TextInv(t)'
    BY <1>1, <1>2, <1>4, <1>6, <1>7, <2>1, <2>3 DEF TextInv, Holds, Direct
  <2> QED
    BY <1>1, <1>4, <2>4 DEF TextKept
<1>9. \A s \in acks' : s.handle = t =>
          /\ text'[t].first \in {None, "TimedOut"}
          /\ Holds(t)' \/ text'[t].first = "TimedOut"
  <2>1. ASSUME NEW s \in acks, s.handle = t
        PROVE  Direct(t) /\ text[t].first \in {None, "TimedOut"}
    BY <2>1 DEF AcksInv, SlotsAwaitAnswers
  <2> QED
    BY <1>1, <1>2, <1>4, <1>6, <2>1 DEF Holds
<1>10. /\ TextsOK' /\ acks' \subseteq [id : PacketIds, handle : Texts]
       /\ \A u \in Texts : u # t => TextKept(u)
  BY <1>1, <1>4, <1>5, <1>6, <1>7, <1>8, <1>9, TextMoves
<1>11. LinesInv' /\ ClipsKept
  BY <1>4, SameClips
<1>12. row \in Rows /\ row.kind = "sent" /\ row.key = was.id /\ row.voice = None
       /\ row.delivery = IF Direct(t) THEN "Pending" ELSE None
  BY <1>3, <1>7 DEF Row, Rows, Labels
<1>13. ASSUME NEW r \in Rows, RowOK(r)
       PROVE  ~Same(r, "sent", was.id) /\ RowOK(r)'
  <2>1. ASSUME r.kind = "sent"
        PROVE  r.key # was.id
    <3>1. PICK u \in Texts : r.key = text[u].id /\ text[u].at \in {"waiting", "over"}
      BY <1>13, <2>1 DEF RowOK
    <3>2. u # t /\ u \in Numbered /\ t \in Numbered
      BY <1>1, <1>4, <1>7, <3>1 DEF TextInv, Numbered
    <3> QED
      BY <1>1, <3>1, <3>2 DEF IdsInv
  <2>2. RowOK(r)'
    BY <1>8, <1>10, <1>11, <1>13, RowStays
  <2> QED
    BY <2>1, <2>2 DEF Same
<1>14. RowOK(row)'
  <2>1. row.key = text'[t].id /\ text'[t].at \in {"waiting", "over"}
    BY <1>2, <1>6, <1>12
  <2>2. Direct(t)' => Direct(t)
    BY <1>1, <1>6 DEF Direct
  <2> QED
    BY <1>2, <1>6, <1>12, <2>1, <2>2 DEF RowOK
<1>15. log' \in Seq(Rows) /\ LogInv' /\ Carries
  <2>1. \A i \in 1 .. Len(log) : ~Same(log[i], row.kind, row.key)
    BY <1>12, <1>13 DEF TypeOK, LogInv
  <2> QED
    BY <1>4, <1>12, <1>13, <1>14, <2>1, LogPushed
<1>16. TypeOK'
  BY <1>4, <1>5, <1>10, <1>15 DEF TypeOK, ComposerTypeOK, composerVars
<1>17. ComposerTruthful'
  BY <1>4, SameComposer
<1> QED
  BY <1>10, <1>11, <1>15, <1>16, <1>17 DEF TextsOK

\* The wait of the text t ends with a verdict, and its row says so.
LEMMA VerdictShown ==
    ASSUME ChatInv, NEW t \in Texts, NEW verdict \in Answers \cup {"TimedOut"},
           text[t].at = "waiting",
           text' = [text EXCEPT ![t].at = "over", ![t].first = verdict],
           text[t].first \in {None, verdict}, verdict = text[t].first \/ verdict = "TimedOut",
           log' = MarkDelivery(log, text[t].id, verdict),
           UNCHANGED <<packet, acks, onAir, assembly, voice, left, composerVars>>
    PROVE  ChatInv' /\ Carries
<1> USE DEF ChatInv
<1>1. PICK was \in TextState : was = text[t]
  BY DEF TypeOK
<1>2. /\ text' \in [Texts -> TextState]
      /\ text'[t] = [was EXCEPT !.at = "over", !.first = verdict]
      /\ \A u \in Texts : u # t => text'[u] = text[u]
  BY <1>1 DEF TypeOK, TextState
<1>3. /\ text'[t].at = "over" /\ text'[t].id = was.id /\ text'[t].to = was.to
      /\ text'[t].first = verdict
  BY <1>2 DEF TextState
<1>4. was.id # 0 /\ was.id \in PacketIds /\ Direct(t)
  BY <1>1 DEF TextInv, TextState
<1>5. verdict # None
  BY NoneAssumption DEF Answers
<1>6. TextInv(t)'
  BY <1>3, <1>4 DEF TextInv, Holds
<1>7. \A s \in acks' : s.handle = t =>
          /\ text'[t].first \in {None, "TimedOut"}
          /\ Holds(t)' \/ text'[t].first = "TimedOut"
  BY <1>1, <1>3, <1>5 DEF AcksInv, SlotsAwaitAnswers
<1>8. /\ TextsOK' /\ acks' \subseteq [id : PacketIds, handle : Texts]
      /\ \A u \in Texts : u # t => TextKept(u)
  BY <1>1, <1>2, <1>3, <1>4, <1>6, <1>7, TextMoves
<1>9. LinesInv' /\ ClipsKept
  BY SameClips
<1>10. PICK fields : fields = [delivery |-> verdict]
  OBVIOUS
<1>11. Fitting(fields) /\ DOMAIN fields = {"delivery"} /\ fields["delivery"] = verdict
  BY <1>10 DEF Fitting, Fields
<1>12. ASSUME NEW r \in Rows, RowOK(r), ~Same(r, "sent", was.id)
       PROVE  RowOK(r)'
  <2>1. r.kind = "sent" => \A u \in Texts : r.key = text[u].id => TextKept(u)
    BY <1>1, <1>8, <1>12 DEF Same
  <2> QED
    BY <1>9, <1>12, <2>1, RowStays
<1>13. ASSUME NEW r \in Rows, NEW s \in Rows, RowOK(r), Same(r, "sent", was.id),
              s = With(fields, r)
       PROVE  RowOK(s)'
  <2>1. s.kind = "sent" /\ s.key = was.id /\ s.delivery = verdict /\ s.voice = r.voice
    BY <1>11, <1>13, WithIs DEF Same
  <2>2. s.voice = None
    BY <1>13, <2>1 DEF RowOK, Same
  <2> QED
    BY <1>3, <1>5, <2>1, <2>2 DEF RowOK
<1>14. log' \in Seq(Rows) /\ LogInv' /\ Carries
  <2>1. log' = Rewrite(log, "sent", was.id, fields)
    BY <1>1, <1>10 DEF MarkDelivery
  <2> QED
    BY <1>11, <1>12, <1>13, <2>1, LogRewritten
<1>15. TypeOK'
  BY <1>2, <1>8, <1>14 DEF TypeOK, ComposerTypeOK, composerVars
<1>16. ComposerTruthful'
  BY SameComposer
<1> QED
  BY <1>8, <1>9, <1>14, <1>15, <1>16 DEF TextsOK

LEMMA HearsTheAnswer ==
    ASSUME ChatInv, NEW t \in Texts, HearsAnswer(t)
    PROVE  ChatInv' /\ Carries
<1>1. PICK was \in TextState : was = text[t]
  BY DEF ChatInv, TypeOK
<1>2. /\ was.at = "waiting" /\ was.answer \in Answers
      /\ text' = [text EXCEPT ![t].at = "over"]
      /\ log' = MarkDelivery(log, text[t].id, was.answer)
      /\ UNCHANGED <<packet, acks, onAir, assembly, voice, left, composerVars>>
  BY <1>1 DEF HearsAnswer, TextState
<1>3. was.first = was.answer
  BY <1>1, <1>2 DEF ChatInv, TextInv, Holds
<1>4. text' = [text EXCEPT ![t].at = "over", ![t].first = was.answer]
  BY <1>1, <1>2, <1>3 DEF ChatInv, TypeOK, TextState
<1> QED
  BY <1>1, <1>2, <1>3, <1>4, VerdictShown

LEMMA TheWaitTimesOut ==
    ASSUME ChatInv, NEW t \in Texts, WaitTimesOut(t)
    PROVE  ChatInv' /\ Carries
<1>1. PICK was \in TextState : was = text[t]
  BY DEF ChatInv, TypeOK
<1>2. was.at = "waiting" /\ was.answer = None
  BY <1>1 DEF WaitTimesOut
<1>3. was.first = None
  BY <1>1, <1>2 DEF ChatInv, TextInv, Holds
<1>4. /\ text' = [text EXCEPT ![t].at = "over", ![t].first = "TimedOut"]
      /\ log' = MarkDelivery(log, text[t].id, "TimedOut")
      /\ UNCHANGED <<packet, acks, onAir, assembly, voice, left, composerVars>>
  BY <1>1, <1>3 DEF WaitTimesOut, ChatInv, TypeOK, TextState
<1> QED
  BY <1>1, <1>2, <1>3, <1>4, VerdictShown

LEMMA HearsVerdict ==
    ASSUME ChatInv, NEW id \in PacketIds, NEW result \in Answers, AckOrNak(id, result)
    PROVE  ChatInv' /\ Carries
<1> USE DEF ChatInv
<1>1. /\ UNCHANGED <<log, packet, onAir, assembly, voice, composerVars>>
      /\ acks' = {s \in acks : s.id # id}
  BY DEF AckOrNak, signal_ack
<1> DEFINE Told(t) == Holds(t) /\ \E s \in acks : s.id = id /\ s.handle = t
<1>2. text' = [t \in Texts |->
          LET heard == IF Told(t) THEN [text[t] EXCEPT !.answer = result] ELSE text[t]
          IN IF text[t].id = id /\ text[t].first = None
             THEN [heard EXCEPT !.first = result] ELSE heard]
  BY DEF AckOrNak, signal_ack
<1>3. ASSUME NEW t \in Texts
      PROVE  /\ text'[t] \in TextState
             /\ text'[t].id = text[t].id /\ text'[t].at = text[t].at /\ text'[t].to = text[t].to
             /\ text'[t].answer = IF Told(t) THEN result ELSE text[t].answer
             /\ text'[t].first = IF text[t].id = id /\ text[t].first = None
                                 THEN result ELSE text[t].first
  <2>1. PICK was \in TextState : was = text[t]
    BY DEF TypeOK
  <2>2. PICK heard : heard = IF Told(t) THEN [was EXCEPT !.answer = result] ELSE was
    OBVIOUS
  <2>3. /\ heard \in TextState /\ heard.id = was.id /\ heard.at = was.at /\ heard.to = was.to
        /\ heard.answer = IF Told(t) THEN result ELSE was.answer
        /\ heard.first = was.first
    <3> HIDE DEF Told
    <3>1. CASE Told(t)
      BY <2>2, <3>1 DEF TextState
    <3>2. CASE ~Told(t)
      BY <2>2, <3>2
    <3> QED
      BY <3>1, <3>2
  <2>4. text'[t] = IF was.id = id /\ was.first = None THEN [heard EXCEPT !.first = result]
                   ELSE heard
    BY <1>2, <2>1, <2>2
  <2> HIDE DEF Told
  <2> QED
    BY <2>1, <2>3, <2>4 DEF TextState
<1>4. ASSUME NEW t \in Texts
      PROVE  (Direct(t)' <=> Direct(t)) /\ (Holds(t)' <=> Holds(t))
  BY <1>3 DEF Direct, Holds
<1>5. text' \in [Texts -> TextState]
  <2>1. \A t \in Texts : text'[t] \in TextState
    BY <1>3
  <2>2. text' = [t \in Texts |-> text'[t]]
    BY <1>2
  <2> QED
    BY <2>1, <2>2
<1>6. TypeOK'
  BY <1>1, <1>5 DEF TypeOK, ComposerTypeOK, composerVars
<1>7. \A t \in Texts : Told(t) => text[t].id = id /\ text[t].first = None
  BY DEF AcksInv, SlotsAwaitAnswers, TextInv
<1> HIDE DEF Told
<1>8. ASSUME NEW t \in Texts
      PROVE  TextInv(t)' /\ TextKept(t)
  <2>1. /\ text'[t].id = text[t].id /\ text'[t].at = text[t].at /\ text'[t].to = text[t].to
        /\ text'[t].answer = IF Told(t) THEN result ELSE text[t].answer
        /\ text'[t].first = IF text[t].id = id /\ text[t].first = None
                            THEN result ELSE text[t].first
    BY <1>3
  <2>2. TextInv(t) /\ id # 0 /\ result # None /\ result # "TimedOut"
    BY NoneAssumption DEF PacketIds, Answers
  <2>3. PICK mine : mine = [id |-> text[t].id, handle |-> t]
    OBVIOUS
  <2>4. mine = [id |-> text'[t].id, handle |-> t] /\ mine.id = text[t].id /\ mine.handle = t
    BY <2>1, <2>3
  <2>5. TextKept(t)
    BY <2>1 DEF TextKept
  <2>6. CASE text[t].id = id /\ text[t].first = None
    <3>1. Holds(t) /\ Direct(t) => Told(t)
      BY <2>2, <2>3, <2>4, <2>6 DEF TextInv, Told
    <3> QED
      BY <1>4, <2>1, <2>2, <2>5, <2>6, <3>1 DEF TextInv, Direct, Holds
  <2>7. CASE ~(text[t].id = id /\ text[t].first = None)
    <3>1. ~Told(t)
      BY <1>7, <2>7
    <3>2. text'[t].answer = text[t].answer /\ text'[t].first = text[t].first
      BY <2>1, <2>7, <3>1
    <3>3. text[t].first = None => text[t].id # id
      BY <2>7
    <3>4. mine \in acks /\ text[t].first = None => mine \in acks'
      BY <1>1, <2>4, <3>3
    <3> QED
      BY <2>1, <2>2, <2>3, <2>4, <2>5, <3>2, <3>4 DEF TextInv, Direct, Holds
  <2> QED
    BY <2>6, <2>7
<1>9. AcksInv'
  <2>1. ASSUME NEW s \in acks'
        PROVE  /\ text'[s.handle].id = s.id
               /\ text'[s.handle].first \in {None, "TimedOut"}
               /\ Holds(s.handle)' \/ text'[s.handle].first = "TimedOut"
               /\ Direct(s.handle)'
    <3>1. /\ s \in acks /\ s.id # id /\ s.handle \in Texts /\ text[s.handle].id = s.id
          /\ Direct(s.handle) /\ text[s.handle].first \in {None, "TimedOut"}
          /\ Holds(s.handle) \/ text[s.handle].first = "TimedOut"
      BY <1>1 DEF AcksInv, SlotsAwaitAnswers, TypeOK
    <3>2. text'[s.handle].id = text[s.handle].id /\ text'[s.handle].first = text[s.handle].first
      BY <1>3, <3>1
    <3> QED
      BY <1>4, <3>1, <3>2
  <2> QED
    BY <2>1 DEF AcksInv, SlotsAwaitAnswers
<1>10. IdsInv'
  BY <1>1, <1>3, IdsKept
<1>11. LinesInv' /\ ClipsKept
  BY <1>1, SameClips
<1>12. ComposerTruthful'
  BY <1>1, SameComposer
<1>13. LogInv' /\ Carries
  BY <1>1, <1>8, <1>11, LogKept
<1> QED
  BY <1>6, <1>8, <1>9, <1>10, <1>11, <1>12, <1>13

-----------------------------------------------------------------------------
(* The steps that leave the texts alone *)

\* Nothing but the log and the assembler changes.
LEMMA RowsStay ==
    ASSUME ChatInv, UNCHANGED <<packet, acks, text>>, ClipsKept
    PROVE  \A r \in Rows : RowOK(r) => RowOK(r)'
<1>1. \A t \in Texts : TextKept(t)
  BY SameTexts DEF ChatInv, TextsOK
<1> QED
  BY <1>1, RowStays

LEMMA LogMoves ==
    ASSUME ChatInv, UNCHANGED <<packet, acks, text, voice, composerVars>>,
           assembly' \in [Sounds -> {"unknown", "open", "settled"}],
           log' \in Seq(Rows), LogInv', Carries
    PROVE  ChatInv' /\ Carries
<1>1. TextsOK'
  BY SameTexts DEF ChatInv, TextsOK
<1>2. LinesInv'
  BY SameClips DEF ChatInv
<1>3. ComposerTruthful'
  BY SameComposer DEF ChatInv
<1>4. TypeOK'
  BY DEF ChatInv, TypeOK, ComposerTypeOK, composerVars
<1> QED
  BY <1>1, <1>2, <1>3, <1>4 DEF ChatInv, TextsOK

LEMMA HearsAText ==
    ASSUME ChatInv, HearsText
    PROVE  ChatInv' /\ Carries
<1>1. PICK row : row = Row("heard", None, "text", None, None)
  OBVIOUS
<1>2. row \in Rows /\ row.kind = "heard" /\ row.voice = None
  BY <1>1 DEF Row, Rows, Labels
<1>3. log' = push_chat(log, row) /\ UNCHANGED <<packet, acks, text, assembly, voice, composerVars>>
  BY <1>1 DEF HearsText
<1>4. ClipsKept
  BY <1>3, SameClips DEF ChatInv
<1>5. RowOK(row)'
  BY <1>2 DEF RowOK
<1>6. log' \in Seq(Rows) /\ LogInv' /\ Carries
  BY <1>2, <1>3, <1>4, <1>5, RowsStay, LogPushed DEF ChatInv
<1> QED
  BY <1>3, <1>6, LogMoves DEF ChatInv, TypeOK

LEMMA LogReplaced ==
    ASSUME TypeOK, LogInv, NEW i \in 1 .. Len(log), NEW row \in Rows,
           Same(row, log[i].kind, log[i].key), log' = [log EXCEPT ![i] = row],
           RowOK(row)', \A r \in Rows : RowOK(r) => RowOK(r)',
           log[i].voice # None => row.voice # None,
           log[i].voice = "whole" => row.voice = "whole"
    PROVE  log' \in Seq(Rows) /\ LogInv' /\ Carries
<1>1. PICK lg : lg = log
  OBVIOUS
<1>2. lg \in Seq(Rows) /\ Unique(lg) /\ \A j \in 1 .. Len(lg) : RowOK(lg[j])
  BY <1>1 DEF TypeOK, LogInv
<1> DEFINE new == [lg EXCEPT ![i] = row]
<1>3. i \in 1 .. Len(lg) /\ Same(row, lg[i].kind, lg[i].key)
  BY <1>1
<1>4. /\ new \in Seq(Rows) /\ Unique(new) /\ Len(new) = Len(lg) /\ new[i] = row
      /\ \A j \in 1 .. Len(lg) : j # i => new[j] = lg[j]
  BY <1>2, <1>3, RowChanged
<1>5. log' = new
  BY <1>1
<1> HIDE DEF new
<1>6. ASSUME NEW j \in 1 .. Len(new)
      PROVE  RowOK(new[j])'
  <2>1. CASE j = i
    BY <1>4, <2>1
  <2>2. CASE j # i
    <3>1. PICK r \in Rows : r = new[j]
      BY <1>4
    <3>2. RowOK(r)
      BY <1>2, <1>4, <2>2, <3>1
    <3>3. RowOK(r)'
      BY <3>2
    <3> QED
      BY <3>1, <3>3
  <2> QED
    BY <2>1, <2>2
<1>7. \A j \in 1 .. Len(lg) :
          /\ new[j].kind = lg[j].kind /\ new[j].key = lg[j].key
          /\ lg[j].voice # None => new[j].voice # None
          /\ lg[j].voice = "whole" => new[j].voice = "whole"
  BY <1>1, <1>4 DEF Same
<1>8. Carries
  <2>1. ASSUME NEW k \in 1 .. Len(lg), NEW j \in 1 .. Len(new), lg[k].kind # "heard",
               lg[k].kind = new[j].kind, lg[k].key = new[j].key
        PROVE  k = j
    BY <1>2, <1>4, <1>7, <2>1 DEF Unique
  <2> QED
    BY <1>1, <1>4, <1>5, <1>7, <2>1 DEF Carries
<1>9. LogInv'
  BY <1>4, <1>5, <1>6 DEF LogInv
<1> QED
  BY <1>4, <1>5, <1>8, <1>9

\* What a message puts into the log, or makes of its row.
LEMMA VoiceEntry ==
    ASSUME TypeOK, LogInv, NEW s \in Sounds, NEW whole \in BOOLEAN, NEW silent \in BOOLEAN,
           whole => ~silent, log' = push_voice_entry(log, s, whole, silent),
           \A r \in Rows : RowOK(r) => RowOK(r)'
    PROVE  log' \in Seq(Rows) /\ LogInv' /\ Carries
<1>1. PICK lg, key : lg = log /\ key = <<s.from, s.id>>
  OBVIOUS
<1>2. lg \in Seq(Rows) /\ Unique(lg) /\ \A j \in 1 .. Len(lg) : RowOK(lg[j])
  BY <1>1 DEF TypeOK, LogInv
<1>3. PICK i : i = RowOf(lg, "sound", key)
  OBVIOUS
<1>4. \/ i = 0 /\ \A j \in 1 .. Len(lg) : ~Same(lg[j], "sound", key)
      \/ /\ i \in 1 .. Len(lg) /\ Same(lg[i], "sound", key)
         /\ \A j \in 1 .. Len(lg) : Same(lg[j], "sound", key) => j = i
  BY <1>2, <1>3, FoundRow
<1>5. PICK label, sound :
        /\ label = IF whole THEN "message" ELSE "partial"
        /\ sound = Playable(s, whole, silent)
  OBVIOUS
<1>6. /\ label \in Labels /\ sound \in {None, "whole", "partial"}
      /\ sound # None => Known(s) /\ sound = IF whole THEN "whole" ELSE "partial"
      /\ sound = "partial" => Conceals(s)
      /\ Known(s) /\ whole => sound = "whole"
  BY <1>5, NoneAssumption DEF Labels, Playable, Known, Conceals
<1>7. key \in SoundKeys
  BY <1>1 DEF SoundKeys
<1>8. CASE i = 0
  <2>1. PICK row : row = SoundRow(s, label, sound)
    OBVIOUS
  <2>2. row \in Rows /\ row.kind = "sound" /\ row.key = key /\ row.voice = sound
    BY <1>1, <1>6, <1>7, <2>1 DEF SoundRow, Row, Rows
  <2>3. RowOK(row)'
    BY <1>1, <1>6, <2>2 DEF RowOK
  <2>4. log' = push_chat(log, row)
    BY <1>1, <1>3, <1>5, <1>8, <2>1 DEF push_voice_entry
  <2>5. \A j \in 1 .. Len(lg) : ~Same(lg[j], "sound", key)
    BY <1>4, <1>8
  <2> QED
    BY <1>1, <2>2, <2>3, <2>4, <2>5, LogPushed
<1>9. CASE i # 0 /\ ~Replaces(lg[i], whole)
  <2>1. log' = log
    BY <1>1, <1>3, <1>9 DEF push_voice_entry
  <2>2. Unique(log') /\ log' \in Seq(Rows) /\ Carries
    BY <1>1, <1>2, <2>1 DEF Carries, Unique
  <2>3. ASSUME NEW j \in 1 .. Len(lg)
        PROVE  RowOK(lg[j])'
    BY <1>2
  <2>4. log' = lg
    BY <1>1, <2>1
  <2> QED
    BY <2>2, <2>3, <2>4 DEF LogInv
<1>10. CASE i # 0 /\ Replaces(lg[i], whole)
  <2>1. i \in 1 .. Len(lg) /\ Same(lg[i], "sound", key)
    BY <1>4, <1>10
  <2>2. PICK was \in Rows : was = lg[i]
    BY <1>2, <2>1
  <2>3. PICK row : row = [was EXCEPT !.label = label, !.voice = sound]
    OBVIOUS
  <2>4. row \in Rows /\ row.kind = "sound" /\ row.key = key /\ row.voice = sound
    BY <1>6, <2>1, <2>2, <2>3 DEF Rows, Same
  <2>5. log' = [log EXCEPT ![i] = row]
    <3>1. log' = [lg EXCEPT ![i].label = label, ![i].voice = sound]
      BY <1>1, <1>3, <1>5, <1>10 DEF push_voice_entry
    <3> QED
      BY <1>1, <1>2, <2>1, <2>2, <2>3, <3>1
  <2>6. RowOK(row)'
    BY <1>1, <1>6, <2>4 DEF RowOK
  <2>7. was.voice # None => Known(s)
    <3>1. RowOK(was) /\ was.kind = "sound" /\ was.key = key
      BY <1>2, <2>1, <2>2 DEF Same
    <3>2. PICK r \in Sounds : was.key = <<r.from, r.id>> /\ (was.voice # None => Known(r))
      BY <3>1 DEF RowOK
    <3>3. r = s
      BY <1>1, <3>1, <3>2, SoundsAssumption
    <3> QED
      BY <3>2, <3>3
  <2>8. was.voice # None => whole
    BY <1>10, <2>2 DEF Replaces
  <2>9. was.voice # None => row.voice = "whole"
    BY <1>6, <2>4, <2>7, <2>8
  <2>10. "whole" # None
    BY NoneAssumption
  <2>11. Same(row, log[i].kind, log[i].key)
    BY <1>1, <2>1, <2>4 DEF Same
  <2>12. /\ log[i].voice # None => row.voice # None
         /\ log[i].voice = "whole" => row.voice = "whole"
    BY <1>1, <2>2, <2>9, <2>10
  <2> QED
    BY <1>1, <2>1, <2>4, <2>5, <2>6, <2>11, <2>12, LogReplaced
<1> QED
  BY <1>8, <1>9, <1>10

LEMMA VoiceProgress ==
    ASSUME TypeOK, LogInv, NEW s \in Sounds, log' = upsert_inbound_voice_progress(log, s),
           \A r \in Rows : RowOK(r) => RowOK(r)'
    PROVE  log' \in Seq(Rows) /\ LogInv' /\ Carries
<1>1. PICK lg, key : lg = log /\ key = <<s.from, s.id>>
  OBVIOUS
<1>2. lg \in Seq(Rows) /\ Unique(lg) /\ \A j \in 1 .. Len(lg) : RowOK(lg[j])
  BY <1>1 DEF TypeOK, LogInv
<1>3. PICK i : i = RowOf(lg, "sound", key)
  OBVIOUS
<1>4. \/ i = 0 /\ \A j \in 1 .. Len(lg) : ~Same(lg[j], "sound", key)
      \/ /\ i \in 1 .. Len(lg) /\ Same(lg[i], "sound", key)
         /\ \A j \in 1 .. Len(lg) : Same(lg[j], "sound", key) => j = i
  BY <1>2, <1>3, FoundRow
<1>5. key \in SoundKeys
  BY <1>1 DEF SoundKeys
<1>6. CASE i = 0
  <2>1. PICK row : row = SoundRow(s, "receiving", None)
    OBVIOUS
  <2>2. row \in Rows /\ row.kind = "sound" /\ row.key = key /\ row.voice = None
    BY <1>1, <1>5, <2>1 DEF SoundRow, Row, Rows, Labels
  <2>3. RowOK(row)'
    BY <1>1, <2>2, NoneAssumption DEF RowOK
  <2>4. log' = push_chat(log, row)
    BY <1>1, <1>3, <1>6, <2>1 DEF upsert_inbound_voice_progress
  <2>5. \A j \in 1 .. Len(lg) : ~Same(lg[j], "sound", key)
    BY <1>4, <1>6
  <2> QED
    BY <1>1, <2>2, <2>3, <2>4, <2>5, LogPushed
<1>7. CASE i # 0
  <2>1. i \in 1 .. Len(lg) /\ Same(lg[i], "sound", key)
    BY <1>4, <1>7
  <2>2. PICK was \in Rows : was = lg[i]
    BY <1>2, <2>1
  <2>3. PICK row : row = [was EXCEPT !.label = "receiving"]
    OBVIOUS
  <2>4. row \in Rows /\ row.kind = "sound" /\ row.key = key /\ row.voice = was.voice
    BY <2>1, <2>2, <2>3 DEF Rows, Labels, Same
  <2>5. log' = [log EXCEPT ![i] = row]
    <3>1. log' = [lg EXCEPT ![i].label = "receiving"]
      BY <1>1, <1>3, <1>7 DEF upsert_inbound_voice_progress
    <3> QED
      BY <1>1, <1>2, <2>1, <2>2, <2>3, <3>1
  <2>6. RowOK(row)'
    <3>1. RowOK(was) /\ was.kind = "sound" /\ was.key = key
      BY <1>2, <2>1, <2>2 DEF Same
    <3> QED
      BY <2>4, <3>1 DEF RowOK
  <2>7. Same(row, log[i].kind, log[i].key) /\ row.voice = log[i].voice
    BY <1>1, <2>1, <2>2, <2>4 DEF Same
  <2> QED
    BY <1>1, <2>1, <2>4, <2>5, <2>6, <2>7, LogReplaced
<1> QED
  BY <1>6, <1>7

LEMMA SoundSteps ==
    ASSUME ChatInv, NEW s \in Sounds, SoundStep(s)
    PROVE  ChatInv' /\ Carries
<1> USE DEF ChatInv
<1>1. UNCHANGED <<packet, acks, text, voice, composerVars>>
      /\ assembly' \in [Sounds -> {"unknown", "open", "settled"}]
  BY DEF SoundStep, AcceptsFrame, TickFinalizes, Forgets, TypeOK
<1>2. ClipsKept
  BY <1>1, SameClips
<1>3. \A r \in Rows : RowOK(r) => RowOK(r)'
  BY <1>1, <1>2, RowsStay
<1>4. CASE log' = upsert_inbound_voice_progress(log, s)
  BY <1>1, <1>3, <1>4, VoiceProgress, LogMoves
<1>5. CASE log' = push_voice_entry(log, s, TRUE, FALSE)
  <2>1. log' \in Seq(Rows) /\ LogInv' /\ Carries
    BY <1>3, <1>5, VoiceEntry
  <2> QED
    BY <1>1, <2>1, LogMoves
<1>6. CASE \E silent \in BOOLEAN : log' = push_voice_entry(log, s, FALSE, silent)
  <2>1. PICK silent \in BOOLEAN : log' = push_voice_entry(log, s, FALSE, silent)
    BY <1>6
  <2>2. log' \in Seq(Rows) /\ LogInv' /\ Carries
    BY <1>3, <2>1, VoiceEntry
  <2> QED
    BY <1>1, <2>2, LogMoves
<1>7. CASE log' = log
  <2>1. \A t \in Texts : TextKept(t)
    BY <1>1, SameTexts DEF TextsOK
  <2>2. log' \in Seq(Rows) /\ LogInv' /\ Carries
    BY <1>2, <1>7, <2>1, LogKept
  <2> QED
    BY <1>1, <2>2, LogMoves
<1> QED
  BY <1>4, <1>5, <1>6, <1>7 DEF SoundStep, AcceptsFrame, TickFinalizes, Forgets

\* A step of a clip, of the player or of the recorder.
LEMMA ClipMoves ==
    ASSUME ChatInv, UNCHANGED <<packet, acks, text, assembly>>,
           ComposerTypeOK', ComposerTruthful',
           voice' \in [Clips -> [stage : Stages, burst : BOOLEAN,
                       ear : {"none", "spawned", "listening", "gone"}, line : Seq(Statuses)]],
           LinesInv', log' \in Seq(Rows), LogInv', Carries
    PROVE  ChatInv' /\ Carries
<1>1. TextsOK'
  BY SameTexts DEF ChatInv, TextsOK
<1>2. TypeOK'
  BY DEF ChatInv, TypeOK
<1> QED
  BY <1>1, <1>2 DEF ChatInv, TextsOK

LEMMA PlayerStops ==
    ASSUME ChatInv, StopPlaying, UNCHANGED mic,
           compose' = compose \/ (compose = "Preview" /\ compose' = "Idle")
    PROVE  ComposerTypeOK' /\ ComposerTruthful'
BY NoneAssumption DEF ChatInv, TypeOK, ComposerTypeOK, ComposerTruthful, StopPlaying

LEMMA SendsPreview ==
    ASSUME ChatInv, NEW c \in Clips, SendPreview(c)
    PROVE  ChatInv' /\ Carries
<1> USE DEF ChatInv
<1>1. PICK was : was = voice[c]
  OBVIOUS
<1>2. /\ was \in [stage : Stages, burst : BOOLEAN,
                  ear : {"none", "spawned", "listening", "gone"}, line : Seq(Statuses)]
      /\ was.stage = "unsent"
      /\ UNCHANGED <<packet, acks, text, assembly>>
  BY <1>1 DEF SendPreview, TypeOK
<1>3. ComposerTypeOK' /\ ComposerTruthful'
  BY PlayerStops DEF SendPreview
<1>4. CASE UNCHANGED <<log, voice>>
  <2>1. LinesInv' /\ ClipsKept
    BY <1>4, SameClips
  <2>2. \A t \in Texts : TextKept(t)
    BY <1>2, SameTexts DEF TextsOK
  <2>3. log' \in Seq(Rows) /\ LogInv' /\ Carries
    BY <1>4, <2>1, <2>2, LogKept
  <2>4. voice' \in [Clips -> [stage : Stages, burst : BOOLEAN,
                    ear : {"none", "spawned", "listening", "gone"}, line : Seq(Statuses)]]
    BY <1>4 DEF TypeOK
  <2> QED
    BY <1>2, <1>3, <2>1, <2>3, <2>4, ClipMoves
<1>5. CASE ~ UNCHANGED <<log, voice>>
  <2>1. PICK row : row = Row("clip", c, "sending", None, None)
    OBVIOUS
  <2>2. /\ log' = push_chat(log, row)
        /\ voice' = [voice EXCEPT ![c].stage = "bursting", ![c].ear = "spawned"]
    BY <1>5, <2>1 DEF SendPreview
  <2>3. row \in Rows /\ row.kind = "clip" /\ row.key = c /\ row.voice = None
    BY <2>1 DEF Row, Rows, Labels
  <2>4. /\ voice' \in [Clips -> [stage : Stages, burst : BOOLEAN,
                       ear : {"none", "spawned", "listening", "gone"}, line : Seq(Statuses)]]
        /\ voice'[c] = [was EXCEPT !.stage = "bursting", !.ear = "spawned"]
        /\ \A d \in Clips : d # c => voice'[d] = voice[d]
    BY <1>1, <1>2, <2>2 DEF TypeOK, Stages
  <2>5. /\ voice'[c].stage = "bursting" /\ voice'[c].burst = was.burst
        /\ voice'[c].line = was.line
    BY <1>2, <2>4
  <2>6. LinesInv' /\ ClipsKept
    <3>1. ASSUME NEW d \in Clips
          PROVE  /\ voice'[d].line = voice[d].line /\ voice'[d].burst = voice[d].burst
                 /\ voice'[d].stage # "unsent" \/ voice[d].stage = "unsent"
      <4>1. CASE d = c
        BY <1>1, <2>5, <4>1
      <4>2. CASE d # c
        BY <2>4, <4>2
      <4> QED
        BY <4>1, <4>2
    <3> QED
      BY <3>1 DEF LinesInv, ClipsKept
  <2>7. \A r \in Rows : RowOK(r) => RowOK(r)' /\ ~Same(r, "clip", c)
    BY <1>1, <1>2, <2>6, RowsStay DEF RowOK, Same
  <2>8. RowOK(row)'
    BY <2>3, <2>5 DEF RowOK
  <2>9. \A i \in 1 .. Len(log) : ~Same(log[i], "clip", c)
    BY <2>7 DEF TypeOK, LogInv
  <2>10. log' \in Seq(Rows) /\ LogInv' /\ Carries
    BY <2>2, <2>3, <2>7, <2>8, <2>9, LogPushed
  <2> QED
    BY <1>2, <1>3, <2>4, <2>6, <2>10, ClipMoves
<1> QED
  BY <1>4, <1>5

\* What is appended or dropped from the front of a line.
LEMMA LineMoves ==
    ASSUME NEW line \in Seq(Statuses), NEW status \in Statuses
    PROVE  /\ Append(line, status) \in Seq(Statuses) /\ Append(line, status) # <<>>
           /\ \A k \in 1 .. Len(Append(line, status)) :
                 Append(line, status)[k] = status
                   \/ \E j \in 1 .. Len(line) : Append(line, status)[k] = line[j]
           /\ line # <<>> =>
                 /\ Tail(line) \in Seq(Statuses) /\ Head(line) \in Statuses
                 /\ 1 \in 1 .. Len(line) /\ Head(line) = line[1]
                 /\ \A k \in 1 .. Len(Tail(line)) :
                       \E j \in 1 .. Len(line) : Tail(line)[k] = line[j]
<1> DEFINE grown == Append(line, status)
<1>1. /\ grown \in Seq(Statuses) /\ Len(grown) = Len(line) + 1 /\ grown[Len(line) + 1] = status
      /\ \A i \in 1 .. Len(line) : grown[i] = line[i]
  BY AppendProperties
<1>2. Len(line) \in Nat
  OBVIOUS
<1>3. grown # <<>>
  BY <1>1, <1>2, EmptySeq
<1> HIDE DEF grown
<1>4. \A k \in 1 .. Len(grown) : grown[k] = status \/ \E j \in 1 .. Len(line) : grown[k] = line[j]
  <2> SUFFICES ASSUME NEW k \in 1 .. Len(grown)
               PROVE  grown[k] = status \/ \E j \in 1 .. Len(line) : grown[k] = line[j]
    OBVIOUS
  <2>1. k \in 1 .. Len(line) \/ k = Len(line) + 1
    BY <1>1, <1>2
  <2> QED
    BY <1>1, <2>1
<1>5. ASSUME line # <<>>
      PROVE  /\ Tail(line) \in Seq(Statuses) /\ Head(line) \in Statuses
             /\ 1 \in 1 .. Len(line) /\ Head(line) = line[1]
             /\ \A k \in 1 .. Len(Tail(line)) : \E j \in 1 .. Len(line) : Tail(line)[k] = line[j]
  <2> DEFINE rest == Tail(line)
  <2>1. /\ rest \in Seq(Statuses) /\ Len(rest) = Len(line) - 1
        /\ \A k \in 1 .. Len(rest) : rest[k] = line[k + 1]
        /\ Head(line) = line[1] /\ Head(line) \in Statuses
    BY <1>5, HeadTailProperties
  <2>2. Len(line) # 0
    BY <1>5, EmptySeq
  <2> HIDE DEF rest
  <2>3. ASSUME NEW k \in 1 .. Len(rest)
        PROVE  k + 1 \in 1 .. Len(line) /\ rest[k] = line[k + 1]
    BY <1>2, <2>1
  <2>4. 1 \in 1 .. Len(line)
    BY <1>2, <2>2
  <2> QED
    BY <2>1, <2>3, <2>4 DEF rest
<1> QED
  BY <1>1, <1>3, <1>4, <1>5 DEF grown

Voices == [stage : Stages, burst : BOOLEAN,
           ear : {"none", "spawned", "listening", "gone"}, line : Seq(Statuses)]

\* A step of the clip c that changes no row.
LEMMA ClipTold ==
    ASSUME ChatInv, NEW c \in Clips, NEW now \in Voices, voice' = [voice EXCEPT ![c] = now],
           UNCHANGED <<log, packet, acks, text, assembly, composerVars>>,
           voice[c].stage # "unsent" => now.stage # "unsent",
           voice[c].burst => now.burst,
           \A k \in 1 .. Len(now.line) :
              now.line[k] = "BurstComplete" => now.burst
    PROVE  ChatInv' /\ Carries
<1> USE DEF ChatInv
<1>1. /\ voice' \in [Clips -> Voices] /\ voice'[c] = now
      /\ \A d \in Clips : d # c => voice'[d] = voice[d]
  BY DEF TypeOK, Voices
<1>2. LinesInv' /\ ClipsKept
  <2>1. ASSUME NEW d \in Clips
        PROVE  /\ \A k \in 1 .. Len(voice'[d].line) :
                     voice'[d].line[k] = "BurstComplete" => voice'[d].burst
               /\ voice[d].stage # "unsent" => voice'[d].stage # "unsent"
               /\ voice[d].burst => voice'[d].burst
    <3>1. CASE d = c
      BY <1>1, <3>1
    <3>2. CASE d # c
      BY <1>1, <3>2 DEF LinesInv
    <3> QED
      BY <3>1, <3>2
  <2> QED
    BY <2>1 DEF LinesInv, ClipsKept
<1>3. ComposerTypeOK' /\ ComposerTruthful'
  BY SameComposer DEF TypeOK, ComposerTypeOK, composerVars
<1>4. \A t \in Texts : TextKept(t)
  BY SameTexts DEF TextsOK
<1>5. log' \in Seq(Rows) /\ LogInv' /\ Carries
  BY <1>2, <1>4, LogKept
<1> QED
  BY <1>1, <1>2, <1>3, <1>5, ClipMoves DEF Voices

LEMMA TheSenderTells ==
    ASSUME ChatInv, NEW c \in Clips, SenderTells(c)
    PROVE  ChatInv' /\ Carries
<1> USE DEF ChatInv
<1>1. PICK v \in Voices : v = voice[c]
  BY DEF TypeOK, Voices
<1>2. PICK said \in Says(v.stage) :
        \E line : /\ line = IF v.ear = "listening" THEN Append(v.line, said[1]) ELSE v.line
                  /\ voice' = [voice EXCEPT
                        ![c].stage = said[2],
                        ![c].burst = @ \/ said[1] = "BurstComplete",
                        ![c].line = IF Len(line) > LineCapacity THEN Tail(line) ELSE line]
                  /\ UNCHANGED <<log, packet, acks, text, assembly, composerVars>>
  BY <1>1 DEF SenderTells
<1>3. PICK status, stage : status = said[1] /\ stage = said[2]
  OBVIOUS
<1>4. status \in Statuses /\ stage \in Stages /\ stage # "unsent"
  <2>1. CASE v.stage = "bursting"
    BY <1>2, <1>3, <2>1 DEF Says, Statuses, Stages
  <2>2. CASE v.stage = "sent"
    BY <1>2, <1>3, <2>2 DEF Says, Statuses, Stages
  <2>3. CASE v.stage \notin {"bursting", "sent"}
    BY <1>2, <2>3 DEF Says
  <2> QED
    BY <2>1, <2>2, <2>3
<1>5. PICK line : /\ line = IF v.ear = "listening" THEN Append(v.line, status) ELSE v.line
                  /\ voice' = [voice EXCEPT
                        ![c].stage = stage,
                        ![c].burst = @ \/ status = "BurstComplete",
                        ![c].line = IF Len(line) > LineCapacity THEN Tail(line) ELSE line]
                  /\ UNCHANGED <<log, packet, acks, text, assembly, composerVars>>
  BY <1>2, <1>3
<1>6. v.line \in Seq(Statuses) /\ v.burst \in BOOLEAN
  BY <1>1 DEF Voices
<1>7. /\ line \in Seq(Statuses)
      /\ \A k \in 1 .. Len(line) : line[k] = status \/ \E j \in 1 .. Len(v.line) : line[k] = v.line[j]
  BY <1>4, <1>5, <1>6, LineMoves
<1>8. PICK rest : rest = IF Len(line) > LineCapacity THEN Tail(line) ELSE line
  OBVIOUS
<1>9. /\ rest \in Seq(Statuses)
      /\ \A k \in 1 .. Len(rest) : \E j \in 1 .. Len(line) : rest[k] = line[j]
  <2>1. CASE Len(line) > LineCapacity
    <3>1. line # <<>>
      BY <2>1, LineAssumption
    <3>2. rest = Tail(line)
      BY <1>8, <2>1
    <3> QED
      BY <1>4, <1>7, <3>1, <3>2, LineMoves
  <2>2. CASE ~(Len(line) > LineCapacity)
    BY <1>7, <1>8, <2>2
  <2> QED
    BY <2>1, <2>2
<1>10. PICK burst \in BOOLEAN : burst = (v.burst \/ status = "BurstComplete")
  OBVIOUS
<1>11. PICK now : now = [v EXCEPT !.stage = stage, !.burst = burst, !.line = rest]
  OBVIOUS
<1>12. now \in Voices /\ now.stage = stage /\ now.burst = burst /\ now.line = rest
  BY <1>4, <1>9, <1>11 DEF Voices
<1>13. voice' = [voice EXCEPT ![c] = now]
  BY <1>1, <1>5, <1>8, <1>10, <1>11 DEF TypeOK, Voices
<1>14. ASSUME NEW k \in 1 .. Len(rest), rest[k] = "BurstComplete"
       PROVE  burst
  <2>1. \A j \in 1 .. Len(v.line) : v.line[j] = "BurstComplete" => v.burst
    BY <1>1 DEF LinesInv
  <2> QED
    BY <1>7, <1>9, <1>10, <1>14, <2>1
<1> QED
  BY <1>1, <1>4, <1>5, <1>10, <1>12, <1>13, <1>14, ClipTold

LEMMA TaskSubscribes ==
    ASSUME ChatInv, NEW c \in Clips, Subscribes(c)
    PROVE  ChatInv' /\ Carries
<1>1. PICK v \in Voices : v = voice[c]
  BY DEF ChatInv, TypeOK, Voices
<1>2. PICK now : now = [v EXCEPT !.ear = "listening"]
  OBVIOUS
<1>3. now \in Voices /\ now.stage = v.stage /\ now.burst = v.burst /\ now.line = v.line
  BY <1>2 DEF Voices
<1>4. voice' = [voice EXCEPT ![c] = now]
      /\ UNCHANGED <<log, packet, acks, text, assembly, composerVars>>
  BY <1>1, <1>2 DEF Subscribes, ChatInv, TypeOK, Voices
<1>5. \A k \in 1 .. Len(now.line) : now.line[k] = "BurstComplete" => now.burst
  BY <1>1, <1>3 DEF ChatInv, LinesInv
<1> QED
  BY <1>1, <1>3, <1>4, <1>5, ClipTold

LEMMA FollowsTheSend ==
    ASSUME ChatInv, NEW c \in Clips, FollowsSend(c)
    PROVE  ChatInv' /\ Carries
<1> USE DEF ChatInv
<1>1. PICK v \in Voices : v = voice[c]
  BY DEF TypeOK, Voices
<1>2. PICK status : status = Head(v.line)
  OBVIOUS
<1>3. PICK ear \in {"listening", "gone"} :
        voice' = [voice EXCEPT ![c].line = Tail(@), ![c].ear = ear]
  <2>1. voice' = [voice EXCEPT ![c].line = Tail(@), ![c].ear =
                     IF status \in {"GaveUp", "Failed", "Complete"} THEN "gone" ELSE @]
        /\ v.ear = "listening"
    BY <1>1, <1>2 DEF FollowsSend
  <2> QED
    BY <1>1, <2>1 DEF TypeOK, Voices
<1>4. PICK fields : fields = Reflected(status)
  OBVIOUS
<1>5. /\ v.line # <<>> /\ log' = Rewrite(log, "clip", c, fields)
      /\ UNCHANGED <<packet, acks, text, assembly, composerVars>>
  BY <1>1, <1>2, <1>4 DEF FollowsSend
<1>6. /\ status \in Statuses /\ Tail(v.line) \in Seq(Statuses)
      /\ 1 \in 1 .. Len(v.line) /\ status = v.line[1]
      /\ \A k \in 1 .. Len(Tail(v.line)) : \E j \in 1 .. Len(v.line) : Tail(v.line)[k] = v.line[j]
  <2>1. v.line \in Seq(Statuses) /\ "Sending" \in Statuses
    BY <1>1 DEF Voices, Statuses
  <2> QED
    BY <1>2, <1>5, <2>1, LineMoves
<1>7. PICK now : now = [v EXCEPT !.line = Tail(v.line), !.ear = ear]
  OBVIOUS
<1>8. /\ now \in Voices /\ now.stage = v.stage /\ now.burst = v.burst
      /\ now.line = Tail(v.line) /\ voice' = [voice EXCEPT ![c] = now]
  BY <1>1, <1>3, <1>6, <1>7 DEF TypeOK, Voices
<1>9. \A k \in 1 .. Len(v.line) : v.line[k] = "BurstComplete" => v.burst
  BY <1>1 DEF LinesInv
<1>10. /\ voice' \in [Clips -> Voices] /\ voice'[c] = now
       /\ \A d \in Clips : d # c => voice'[d] = voice[d]
  BY <1>8 DEF TypeOK, Voices
<1>11. LinesInv' /\ ClipsKept
  <2>1. ASSUME NEW d \in Clips
        PROVE  /\ \A k \in 1 .. Len(voice'[d].line) :
                     voice'[d].line[k] = "BurstComplete" => voice'[d].burst
               /\ voice'[d].stage = voice[d].stage /\ voice'[d].burst = voice[d].burst
    <3>1. CASE d = c
      <4>1. voice'[d].line = Tail(v.line) /\ voice'[d].burst = v.burst /\ voice'[d].stage = v.stage
        BY <1>8, <1>10, <3>1
      <4>2. \A k \in 1 .. Len(Tail(v.line)) : Tail(v.line)[k] = "BurstComplete" => v.burst
        BY <1>6, <1>9
      <4> QED
        BY <1>1, <3>1, <4>1, <4>2
    <3>2. CASE d # c
      BY <1>10, <3>2 DEF LinesInv
    <3> QED
      BY <3>1, <3>2
  <2> QED
    BY <2>1 DEF LinesInv, ClipsKept
<1>12. Fitting(fields) /\ ("voice" \in DOMAIN fields =>
                              fields["voice"] = "whole" /\ status = "BurstComplete")
  <2>1. CASE status = "Sending"
    BY <1>4, <2>1 DEF Reflected, Fitting, Fields, Labels
  <2>2. CASE status = "BurstComplete"
    BY <1>4, <2>2 DEF Reflected, Fitting, Fields, Labels
  <2>3. CASE status = "GaveUp"
    BY <1>4, <2>3 DEF Reflected, Fitting, Fields, Labels
  <2>4. CASE status = "Failed"
    BY <1>4, <2>4 DEF Reflected, Fitting, Fields, Labels
  <2>5. CASE status = "Complete"
    BY <1>4, <2>5 DEF Reflected, Fitting, Fields
  <2> QED
    BY <1>6, <2>1, <2>2, <2>3, <2>4, <2>5 DEF Statuses
<1>13. \A r \in Rows : RowOK(r) => RowOK(r)'
  BY <1>5, <1>11, RowsStay
<1>14. ASSUME NEW r \in Rows, NEW s \in Rows, RowOK(r), Same(r, "clip", c), s = With(fields, r)
       PROVE  RowOK(s)'
  <2>1. /\ s.kind = "clip" /\ s.key = c
        /\ s.voice = IF "voice" \in DOMAIN fields THEN fields["voice"] ELSE r.voice
    BY <1>12, <1>14, WithIs DEF Same
  <2>2. RowOK(r)' /\ r.kind = "clip" /\ r.key = c
    BY <1>13, <1>14 DEF Same
  <2>3. status = "BurstComplete" => voice'[c].burst
    BY <1>6, <1>8, <1>9, <1>10
  <2> QED
    BY <1>12, <2>1, <2>2, <2>3 DEF RowOK
<1>15. log' \in Seq(Rows) /\ LogInv' /\ Carries
  BY <1>5, <1>12, <1>13, <1>14, LogRewritten
<1>16. ComposerTypeOK' /\ ComposerTruthful'
  BY <1>5, SameComposer DEF TypeOK, ComposerTypeOK, composerVars
<1> QED
  BY <1>5, <1>10, <1>11, <1>15, <1>16, ClipMoves DEF Voices

\* The player and the recorder.
LEMMA ComposerMoves ==
    ASSUME ChatInv, UNCHANGED <<log, packet, acks, text, onAir, assembly, voice>>,
           ComposerTypeOK', ComposerTruthful'
    PROVE  ChatInv' /\ Carries
<1> USE DEF ChatInv
<1>1. LinesInv' /\ ClipsKept
  BY SameClips
<1>2. \A t \in Texts : TextKept(t)
  BY SameTexts DEF TextsOK
<1>3. log' \in Seq(Rows) /\ LogInv' /\ Carries
  BY <1>1, <1>2, LogKept
<1>4. voice' \in [Clips -> Voices]
  BY DEF TypeOK, Voices
<1> QED
  BY <1>1, <1>3, <1>4, ClipMoves DEF Voices

LEMMA PlayableRow ==
    ASSUME ChatInv, NEW i \in 1 .. Len(log), log[i].voice # None
    PROVE  <<log[i].kind, log[i].key>> \in Playables
<1>1. PICK r \in Rows : r = log[i]
  BY DEF ChatInv, TypeOK
<1>2. RowOK(r) /\ r.voice # None
  BY <1>1 DEF ChatInv, LogInv
<1>3. r.kind \in {"clip", "sound"}
  BY <1>2 DEF RowOK, Rows
<1>4. CASE r.kind = "clip"
  BY <1>1, <1>2, <1>4 DEF RowOK, Playables
<1>5. CASE r.kind = "sound"
  BY <1>1, <1>2, <1>5 DEF RowOK, Playables
<1> QED
  BY <1>3, <1>4, <1>5

LEMMA PlayerSteps ==
    ASSUME ChatInv, NEW i \in 1 .. Len(log), PlayRow(i) \/ StopRow(i)
    PROVE  ChatInv' /\ Carries
<1>1. UNCHANGED <<log, packet, acks, text, onAir, assembly, voice, compose, mic>>
      /\ log[i].voice # None
  BY DEF PlayRow, StopRow
<1>2. CASE StopPlaying
  <2>1. ComposerTypeOK' /\ ComposerTruthful'
    BY <1>1, <1>2, PlayerStops
  <2> QED
    BY <1>1, <2>1, ComposerMoves
<1>3. CASE ~ StopPlaying
  <2>1. PICK what : what = <<log[i].kind, log[i].key>>
    OBVIOUS
  <2>2. what \in Playables
    BY <1>1, <2>1, PlayableRow
  <2>3. playback' = [what |-> what, ended |-> FALSE] /\ source' = <<"LogEntry", i>>
    BY <1>3, <2>1 DEF PlayRow, StopRow, start_playback, LogEntry
  <2>4. playback' \in [what : Playables, ended : BOOLEAN] /\ playback' # None
    <3>1. playback' \in [what : Playables, ended : BOOLEAN]
      BY <2>2, <2>3
    <3> QED
      BY <3>1, NoneAssumption
  <2>5. source' \in {"LogEntry"} \X Nat /\ source' # None
    BY <2>3, NoneAssumption
  <2>6. source' # Preview
    BY <2>3 DEF Preview
  <2>7. ComposerTypeOK' /\ ComposerTruthful'
    BY <1>1, <2>4, <2>5, <2>6 DEF ChatInv, TypeOK, ComposerTypeOK, ComposerTruthful
  <2> QED
    BY <1>1, <2>7, ComposerMoves
<1> QED
  BY <1>2, <1>3

LEMMA ComposerSteps ==
    ASSUME ChatInv, Composes
    PROVE  ChatInv' /\ Carries
<1> USE DEF ChatInv, ComposerTypeOK, ComposerTruthful
<1>1. UNCHANGED <<log, packet, acks, text, onAir, assembly, voice>> /\ ComposerStep
  BY DEF Composes
<1>2. ComposerTypeOK /\ ComposerTruthful
  BY DEF TypeOK
<1>3. ComposerTypeOK' /\ ComposerTruthful'
  <2>1. CASE PlaybackEnds
    <3>1. PICK was \in [what : Playables, ended : BOOLEAN] : was = playback
      BY <1>2, <2>1 DEF PlaybackEnds
    <3>2. playback' = [was EXCEPT !.ended = TRUE] /\ UNCHANGED <<compose, mic, source>>
      BY <2>1, <3>1 DEF PlaybackEnds
    <3>3. playback' \in [what : Playables, ended : BOOLEAN] /\ playback'.what = playback.what
      BY <3>1, <3>2
    <3>4. playback' # None /\ playback # None
      BY <2>1, <3>3, NoneAssumption DEF PlaybackEnds
    <3> QED
      BY <1>2, <3>2, <3>3, <3>4 DEF Preview
  <2>2. CASE AutoClear \/ StopPreview \/ DeletePreview
    BY <2>2, PlayerStops DEF AutoClear, StopPreview, DeletePreview
  <2>3. CASE Record \/ CaptureEnds \/ FinishRecording \/ CancelRecording
    BY <1>2, <2>3 DEF Record, CaptureEnds, FinishRecording, CancelRecording, Preview
  <2>4. CASE PlayPreview /\ ~StopPlaying
    <3>1. /\ playback' = [what |-> Preview, ended |-> FALSE] /\ source' = Preview
          /\ compose = "Preview" /\ UNCHANGED <<compose, mic>>
      BY <2>4 DEF PlayPreview, start_playback
    <3>2. playback' \in [what : Playables, ended : BOOLEAN]
      BY <3>1 DEF Playables
    <3>3. playback' # None /\ source' # None
      BY <3>1, <3>2, NoneAssumption
    <3> QED
      BY <1>2, <3>1, <3>2, <3>3
  <2>5. CASE PlayPreview /\ StopPlaying
    BY <2>5, PlayerStops DEF PlayPreview
  <2> QED
    BY <1>1, <2>1, <2>2, <2>3, <2>4, <2>5 DEF ComposerStep
<1> QED
  BY <1>1, <1>3, ComposerMoves

-----------------------------------------------------------------------------
(* The theorems *)

LEMMA ChatInit ==
    ASSUME Init
    PROVE  ChatInv
<1>1. PICK M : M = 2 ^ IdWidth /\ M \in Nat \ {0, 1}
  BY IdAssumption
<1>2. /\ log = <<>> /\ packet \in PacketIds /\ acks = {} /\ ComposerInit
      /\ \A t \in Texts : text[t] = [at |-> "typed", id |-> 0, to |-> None,
                                     answer |-> None, first |-> None]
  BY SeedsAssumption DEF Init
<1>3. TypeOK
  <2>1. log \in Seq(Rows)
    BY <1>2
  <2>2. packet \in 0 .. 2 ^ IdWidth - 1
    BY <1>1, <1>2 DEF PacketIds
  <2>3. text \in [Texts -> TextState]
    BY DEF Init, TextState
  <2>4. voice \in [Clips -> Voices]
    <3>1. <<>> \in Seq(Statuses)
      OBVIOUS
    <3> QED
      BY <3>1 DEF Init, Voices, Stages
  <2>5. ComposerTypeOK
    BY <1>2 DEF ComposerInit, ComposerTypeOK
  <2> QED
    BY <1>2, <2>1, <2>2, <2>3, <2>4, <2>5 DEF Init, TypeOK, Voices
<1>4. IdsInv
  <2>1. Numbered = {}
    BY <1>2 DEF Numbered
  <2>2. Cardinality(Numbered) = 0
    BY <2>1, FS_EmptySet
  <2>3. packet \in 1 .. M - 1
    BY <1>1, <1>2 DEF PacketIds
  <2>4. next_id(packet) = NextOf(packet, 0)
    BY <1>1, <2>3 DEF next_id, NextOf
  <2> QED
    BY <1>2, <2>1, <2>2, <2>4 DEF IdsInv
<1>5. \A t \in Texts : TextInv(t)
  BY <1>2 DEF TextInv, Holds
<1>6. AcksInv
  BY <1>2 DEF AcksInv, SlotsAwaitAnswers
<1>7. LogInv
  <2>1. Len(log) = 0
    BY <1>2
  <2> QED
    BY <2>1 DEF LogInv, Unique
<1>8. LinesInv
  <2>1. ASSUME NEW c \in Clips
        PROVE  Len(voice[c].line) = 0
    BY DEF Init
  <2> QED
    BY <2>1 DEF LinesInv
<1>9. ComposerTruthful
  BY <1>2, NoneAssumption DEF ComposerInit, ComposerTruthful
<1> QED
  BY <1>3, <1>4, <1>5, <1>6, <1>7, <1>8, <1>9 DEF ChatInv

LEMMA ChatNext ==
    ASSUME ChatInv, [Next]_vars
    PROVE  ChatInv' /\ Carries
<1>1. ASSUME NEW t \in Texts, TextStep(t)
      PROVE  ChatInv' /\ Carries
  BY <1>1, ClicksSend, BeginsTheSend, WritesThePacket, ShowsItSent, HearsTheAnswer,
     TheWaitTimesOut DEF TextStep
<1>2. ASSUME NEW id \in PacketIds, NEW result \in Answers, AckOrNak(id, result)
      PROVE  ChatInv' /\ Carries
  BY <1>2, HearsVerdict
<1>3. CASE HearsText
  BY <1>3, HearsAText
<1>4. ASSUME NEW s \in Sounds, SoundStep(s)
      PROVE  ChatInv' /\ Carries
  BY <1>4, SoundSteps
<1>5. ASSUME NEW c \in Clips, ClipStep(c)
      PROVE  ChatInv' /\ Carries
  BY <1>5, SendsPreview, TheSenderTells, TaskSubscribes, FollowsTheSend DEF ClipStep
<1>6. ASSUME NEW i \in 1 .. Len(log), PlayRow(i) \/ StopRow(i)
      PROVE  ChatInv' /\ Carries
  BY <1>6, PlayerSteps
<1>7. CASE Composes
  BY <1>7, ComposerSteps
<1>8. CASE UNCHANGED vars
  <2>1. UNCHANGED <<log, packet, acks, text, onAir, assembly, voice, composerVars>>
    BY <1>8 DEF vars
  <2>2. ComposerTypeOK' /\ ComposerTruthful'
    BY <2>1, SameComposer DEF ChatInv, TypeOK, ComposerTypeOK, composerVars
  <2> QED
    BY <2>1, <2>2, ComposerMoves
<1> QED
  BY <1>1, <1>2, <1>3, <1>4, <1>5, <1>6, <1>7, <1>8 DEF Next

\* What the invariant says of the screen.
LEMMA ScreenRight ==
    ASSUME ChatInv
    PROVE  ScreenTruthful
<1> USE DEF ChatInv
<1>1. DeliveryTruthful
  <2> SUFFICES ASSUME NEW i \in 1 .. Len(log), NEW t \in Texts,
                      log[i].kind = "sent", log[i].key = text[t].id, Direct(t)
               PROVE  IF text[t].at = "over" THEN log[i].delivery = text[t].first
                      ELSE log[i].delivery = "Pending"
    BY DEF DeliveryTruthful
  <2>1. RowOK(log[i])
    BY DEF LogInv
  <2>2. PICK u \in Texts :
          /\ log[i].key = text[u].id /\ text[u].at \in {"waiting", "over"}
          /\ Direct(u) => log[i].delivery = IF text[u].at = "over" THEN text[u].first
                                            ELSE "Pending"
    BY <2>1 DEF RowOK
  <2>3. u \in Numbered /\ t \in Numbered
    BY <2>2 DEF TextInv, Numbered
  <2>4. u = t
    BY <2>2, <2>3 DEF IdsInv
  <2> QED
    BY <2>2, <2>4
<1>2. SendingTruthful
  BY DEF SendingTruthful, LogInv, RowOK
<1>3. SoundsTruthful
  <2> SUFFICES ASSUME NEW i \in 1 .. Len(log), NEW j \in 1 .. Len(log), log[i].kind = "sound"
               PROVE  /\ log[i].voice = "partial" =>
                             \E s \in Sounds : <<s.from, s.id>> = log[i].key /\ Conceals(s)
                      /\ log[i].kind = log[j].kind /\ log[i].key = log[j].key => i = j
    BY DEF SoundsTruthful
  <2>1. RowOK(log[i]) /\ Unique(log)
    BY DEF LogInv
  <2>2. PICK s \in Sounds : log[i].key = <<s.from, s.id>>
                            /\ (log[i].voice = "partial" => Conceals(s))
    BY <2>1 DEF RowOK
  <2> QED
    BY <2>1, <2>2 DEF Unique
<1> QED
  BY <1>1, <1>2, <1>3 DEF ScreenTruthful

\* Whatever arrives, in whatever order, the chat tab shows what is true of
\* its messages: a text's row the verdict of its own packet, a clip's row a
\* play button only once its burst is with the radio, one row per message
\* heard, and the player's controls what is played (ui/chat.rs, state.rs).
THEOREM ScreenCorrect == Spec => []ScreenTruthful
<1>1. Init => ChatInv
  BY ChatInit
<1>2. ChatInv /\ [Next]_vars => ChatInv'
  BY ChatNext
<1>3. ChatInv => ScreenTruthful
  BY ScreenRight
<1> QED
  BY <1>1, <1>2, <1>3, PTL DEF Spec

\* Neither a send that failed nor an answer that was served leaves a slot
\* behind (outbound.rs, discard_ack).
THEOREM SlotsCorrect == Spec => []SlotsAwaitAnswers
<1>1. Init => ChatInv
  BY ChatInit
<1>2. ChatInv /\ [Next]_vars => ChatInv'
  BY ChatNext
<1>3. ChatInv => SlotsAwaitAnswers
  BY DEF ChatInv, AcksInv
<1> QED
  BY <1>1, <1>2, <1>3, PTL DEF Spec

\* No step takes a play button away from a message that is still on the
\* screen, or a whole message for a partial one (watchers.rs,
\* push_voice_entry).
THEOREM PlayableCorrect == Spec => PlayableStays
<1>1. Init => ChatInv
  BY ChatInit
<1>2. ChatInv /\ [Next]_vars => ChatInv'
  BY ChatNext
<1>3. ChatInv /\ [Next]_vars => [Carries]_vars
  BY ChatNext
<1> QED
  BY <1>1, <1>2, <1>3, PTL DEF Spec, PlayableStays, Carries

=============================================================================
