-------------------------- MODULE VoiceLinkProofs --------------------------
(***************************************************************************)
(* Proofs about VoiceLink.tla: the reader of a radio's link hands on what  *)
(* the radio wrote (LinkTruthful), for any traffic, any number of console  *)
(* bytes, lost bytes, failed reads and pauses.                             *)
(*                                                                         *)
(* While a serial link is in step its bytes have one reading: each belongs *)
(* to the console or to a place in a frame that the radio wrote.  The      *)
(* invariant says that there is such a reading (a label for the byte read  *)
(* last and for each byte on the line) and that the reader stands where    *)
(* its first label says.  Over Bluetooth, what was written is what was     *)
(* heard, what a drain has read, and what the radio still queues.          *)
(*                                                                         *)
(* And of the clip that is sent over it: its framing loses nothing, for    *)
(* any length (FramesSurvive).  The parity resolved for a message fits the *)
(* coder, all chunks but the last are full, the parsers invert what builds *)
(* the frames, and the bits of a NACK tell its chunks apart.               *)
(*                                                                         *)
(* And however much of it arrives is heard in time (PartialsHeardInTime):  *)
(* the walk over an intact recording finds the frames that were encoded,   *)
(* by induction from the last to the first, and a frame of a partial one   *)
(* overlaps a gap exactly when a chunk that holds it is missing.           *)
(***************************************************************************)
EXTENDS VoiceLink, SequenceTheorems, FiniteSetTheorems, TLAPS

-----------------------------------------------------------------------------
(* Sequences of whatever *)

IsSeq(s) == Len(s) \in Nat /\ s = [i \in 1 .. Len(s) |-> s[i]]

\* It is a sequence of its elements, and of more.
LEMMA SeqOfElements ==
    ASSUME NEW s, IsSeq(s), NEW S, \A i \in 1 .. Len(s) : s[i] \in S
    PROVE  s \in Seq(S)
  BY DEF IsSeq

LEMMA SeqIs ==
    ASSUME NEW S, NEW s \in Seq(S)
    PROVE  IsSeq(s) /\ DOMAIN s = 1 .. Len(s)
  BY LenProperties DEF IsSeq

LEMMA EmptyIs ==
    /\ IsSeq(<<>>) /\ Len(<<>>) = 0
    /\ \A s : IsSeq(s) /\ Len(s) = 0 => s = <<>>
<1>1. <<>> \in Seq({}) /\ Len(<<>>) = 0
  BY EmptySeq
<1>2. ASSUME NEW s, IsSeq(s), Len(s) = 0
      PROVE  s = <<>>
  <2>1. s \in Seq({})
    BY <1>2, SeqOfElements
  <2> QED
    BY <1>2, <2>1, EmptySeq
<1> QED
  BY <1>1, <1>2, SeqIs

LEMMA Appended ==
    ASSUME NEW s, IsSeq(s), NEW x
    PROVE  /\ IsSeq(Append(s, x)) /\ Len(Append(s, x)) = Len(s) + 1
           /\ \A i \in 1 .. Len(s) : Append(s, x)[i] = s[i]
           /\ Append(s, x)[Len(s) + 1] = x
<1> DEFINE S == {s[i] : i \in 1 .. Len(s)} \cup {x}
<1>1. s \in Seq(S) /\ x \in S
  BY SeqOfElements
<1> HIDE DEF S
<1>2. /\ Append(s, x) \in Seq(S) /\ Len(Append(s, x)) = Len(s) + 1
      /\ \A i \in 1 .. Len(s) : Append(s, x)[i] = s[i]
      /\ Append(s, x)[Len(s) + 1] = x
  BY <1>1, AppendProperties
<1> QED
  BY <1>2, SeqIs

LEMMA Joined ==
    ASSUME NEW s, IsSeq(s), NEW t, IsSeq(t)
    PROVE  /\ IsSeq(s \o t) /\ Len(s \o t) = Len(s) + Len(t)
           /\ \A i \in 1 .. Len(s) : (s \o t)[i] = s[i]
           /\ \A i \in 1 .. Len(t) : (s \o t)[Len(s) + i] = t[i]
<1> DEFINE S == {s[i] : i \in 1 .. Len(s)} \cup {t[i] : i \in 1 .. Len(t)}
<1>1. s \in Seq(S) /\ t \in Seq(S)
  BY SeqOfElements
<1> HIDE DEF S
<1>2. /\ s \o t \in Seq(S) /\ Len(s \o t) = Len(s) + Len(t)
      /\ \A i \in 1 .. Len(s) + Len(t) : (s \o t)[i] = IF i <= Len(s) THEN s[i] ELSE t[i - Len(s)]
  BY <1>1, ConcatProperties
<1>3. Len(s) \in Nat /\ Len(t) \in Nat
  BY DEF IsSeq
<1>4. \A i \in 1 .. Len(s) : (s \o t)[i] = s[i]
  BY <1>2, <1>3
<1>5. ASSUME NEW i \in 1 .. Len(t)
      PROVE  (s \o t)[Len(s) + i] = t[i]
  <2>1. Len(s) + i \in 1 .. Len(s) + Len(t) /\ ~(Len(s) + i <= Len(s)) /\ Len(s) + i - Len(s) = i
    BY <1>3
  <2> QED
    BY <1>2, <2>1
<1> QED
  BY <1>2, <1>4, <1>5, SeqIs

\* Sequences are equal element by element.
LEMMA SameSeq ==
    ASSUME NEW s, IsSeq(s), NEW t, IsSeq(t), Len(s) = Len(t), \A i \in 1 .. Len(s) : s[i] = t[i]
    PROVE  s = t
  BY DEF IsSeq

LEMMA Rest ==
    ASSUME NEW s, IsSeq(s), s # <<>>
    PROVE  /\ IsSeq(Tail(s)) /\ Len(Tail(s)) = Len(s) - 1 /\ Len(s) \in Nat \ {0}
           /\ Head(s) = s[1] /\ \A i \in 1 .. Len(Tail(s)) : Tail(s)[i] = s[i + 1]
           /\ s = <<Head(s)>> \o Tail(s)
<1> DEFINE S == {s[i] : i \in 1 .. Len(s)}
<1>1. s \in Seq(S)
  BY SeqOfElements
<1> HIDE DEF S
<1>2. /\ Head(s) \in S /\ Tail(s) \in Seq(S) /\ Len(Tail(s)) = Len(s) - 1
      /\ \A i \in 1 .. Len(Tail(s)) : Tail(s)[i] = s[i + 1]
  BY <1>1, HeadTailProperties
<1>3. Len(s) \in Nat \ {0} /\ Head(s) = s[1]
  BY <1>1, EmptySeq
<1>4. s = <<Head(s)>> \o Tail(s)
  <2> DEFINE h == <<Head(s)>>
  <2>1. h \in Seq(S) /\ Len(h) = 1 /\ h[1] = Head(s)
    BY <1>2
  <2> HIDE DEF h
  <2>2. IsSeq(h) /\ IsSeq(Tail(s))
    BY <1>2, <2>1, SeqIs
  <2>3. /\ IsSeq(h \o Tail(s)) /\ Len(h \o Tail(s)) = 1 + Len(Tail(s))
        /\ (h \o Tail(s))[1] = h[1]
        /\ \A i \in 1 .. Len(Tail(s)) : (h \o Tail(s))[1 + i] = Tail(s)[i]
    <3> DEFINE T == Tail(s)
    <3>1. IsSeq(T) /\ Tail(s) = T
      BY <2>2
    <3> HIDE DEF T
    <3>2. /\ IsSeq(h \o T) /\ Len(h \o T) = Len(h) + Len(T)
          /\ \A i \in 1 .. Len(h) : (h \o T)[i] = h[i]
          /\ \A i \in 1 .. Len(T) : (h \o T)[Len(h) + i] = T[i]
      BY <2>2, <3>1, Joined
    <3>3. 1 \in 1 .. Len(h)
      BY <2>1
    <3> QED
      BY <2>1, <3>1, <3>2, <3>3
  <2>4. ASSUME NEW i \in 1 .. Len(s)
        PROVE  s[i] = (h \o Tail(s))[i]
    <3>1. CASE i = 1
      BY <1>2, <1>3, <2>1, <2>3, <3>1
    <3>2. CASE i # 1
      <4>1. i - 1 \in 1 .. Len(Tail(s)) /\ 1 + (i - 1) = i /\ (i - 1) + 1 = i
        BY <1>2, <1>3, <3>2
      <4> QED
        BY <1>2, <2>3, <4>1
    <3> QED
      BY <3>1, <3>2
  <2>5. Len(h \o Tail(s)) = Len(s)
    BY <1>2, <1>3, <2>3
  <2> QED
    BY <2>3, <2>4, <2>5, SameSeq DEF h
<1> QED
  BY <1>2, <1>3, <1>4, SeqIs

LEMMA Regrouped ==
    ASSUME NEW s, IsSeq(s), NEW t, IsSeq(t), NEW u, IsSeq(u)
    PROVE  (s \o t) \o u = s \o (t \o u)
<1> DEFINE S == {s[i] : i \in 1 .. Len(s)} \cup {t[i] : i \in 1 .. Len(t)} \cup {u[i] : i \in 1 .. Len(u)}
<1>1. s \in Seq(S) /\ t \in Seq(S) /\ u \in Seq(S)
  BY SeqOfElements
<1> QED
  BY <1>1, ConcatAssociative

LEMMA WithEmpty ==
    ASSUME NEW s, IsSeq(s)
    PROVE  s \o <<>> = s /\ <<>> \o s = s
<1>1. s \in Seq({s[i] : i \in 1 .. Len(s)})
  BY SeqOfElements
<1> QED
  BY <1>1, ConcatEmptySeq

LEMMA AppendJoins ==
    ASSUME NEW s, IsSeq(s), NEW x
    PROVE  Append(s, x) = s \o <<x>>
<1> DEFINE S == {s[i] : i \in 1 .. Len(s)} \cup {x}
<1>1. s \in Seq(S) /\ x \in S
  BY SeqOfElements
<1> HIDE DEF S
<1> QED
  BY <1>1, AppendIsConcat


-----------------------------------------------------------------------------
(* The reading of a serial line                                             *)

\* A label: the place in a frame (0: between frames), and the frame's number
\* among those written, or the number of frames before.
Label == [ph : 0 .. 6, k : Nat]

\* What a labelled byte is.
Fits(b, l) ==
    CASE l.ph = 0 -> b # START1
      [] l.ph = 1 -> b = START1
      [] l.ph = 2 -> b = START2
      [] l.ph = 3 -> b = 0
      [] l.ph = 4 -> b = 2
      [] l.ph = 5 -> b = START1
      [] l.ph = 6 -> written[l.k] = <<START1, b>>

\* Frames come whole and in order, console bytes between them.
Follows(l, m) ==
    IF l.ph \in {0, 6}
      THEN (m.ph = 0 /\ m.k = l.k) \/ (m.ph = 1 /\ m.k = l.k + 1)
      ELSE m.ph = l.ph + 1 /\ m.k = l.k

\* Where the reader stands after a labelled byte; a whole frame is handed on.
Standing(l) ==
    /\ l.ph # 6
    /\ l.k = Len(heard) + (IF l.ph = 0 THEN 0 ELSE 1)
    /\ reader.at = CASE l.ph = 0 -> "scan" [] l.ph = 1 -> "start2" [] l.ph = 2 -> "msb"
                     [] l.ph = 3 -> "lsb" [] l.ph \in {4, 5} -> "payload"
    /\ reader.len = IF l.ph \in {4, 5} THEN 2 ELSE 0
    /\ reader.got = IF l.ph = 5 THEN <<START1>> ELSE <<>>

\* lab[1] is of the byte read last, lab[i + 1] of the i-th byte on the line.
HasReading(lab) ==
    /\ Standing(lab[1])
    /\ \A i \in 1 .. Len(wire) : Follows(lab[i], lab[i + 1]) /\ Fits(wire[i], lab[i + 1])
    /\ \A i \in 1 .. Len(wire) + 1 :
          lab[i].k <= Len(written) /\ (lab[i].ph # 0 => lab[i].k > 0)
    /\ lab[Len(wire) + 1].ph \in {0, 6} /\ lab[Len(wire) + 1].k = Len(written)

Lists == IsSeq(wire) /\ IsSeq(written) /\ IsSeq(heard)

SerialInv ==
    transport = "serial" /\ clean /\ reader.at # "closed" =>
        /\ Lists
        /\ Len(heard) <= Len(written) /\ \A i \in 1 .. Len(heard) : heard[i] = written[i]
        /\ \E lab \in [1 .. Len(wire) + 1 -> Label] : HasReading(lab)

BleInv ==
    transport = "ble" /\ reader.at # "closed" =>
        /\ Lists /\ IsSeq(reader.got)
        /\ written = heard \o (reader.got \o wire)
        /\ reader.at \in {"open", "select"} => reader.got = <<>>
        /\ reader.at = "open" => heard = <<>> /\ wire = <<>>

SerialAts == {"scan", "start2", "msb", "lsb", "payload", "closed"}
BleAts == {"open", "select", "drain", "closed"}

ReaderInv ==
    /\ transport \in {"serial", "ble"} /\ clean \in BOOLEAN
    /\ reader = [at |-> reader.at, errors |-> reader.errors, len |-> reader.len, got |-> reader.got]
    /\ transport = "serial" => reader.at \in SerialAts
    /\ transport = "ble" => reader.at \in BleAts

LinkInv == ReaderInv /\ SerialInv /\ BleInv

\* The invariant says what is to be shown.
LEMMA LinkInvTells == LinkInv => LinkTruthful
<1> SUFFICES ASSUME LinkInv, clean, reader.at # "closed"
             PROVE  /\ Len(heard) <= Len(written) /\ heard = SubSeq(written, 1, Len(heard))
                    /\ wire = <<>> /\ reader.at \in {"scan", "select"} => heard = written
                    /\ wire = <<>> /\ transport = "serial" => reader.at = "scan"
  BY DEF LinkTruthful
<1>1. ASSUME Lists, Len(heard) <= Len(written), \A i \in 1 .. Len(heard) : heard[i] = written[i]
      PROVE  heard = SubSeq(written, 1, Len(heard))
  <2> DEFINE S == {written[i] : i \in 1 .. Len(written)}
             sub == SubSeq(written, 1, Len(heard))
  <2>1. Len(heard) \in Nat /\ Len(written) \in Nat
    BY <1>1 DEF Lists, IsSeq
  <2>2. \A i \in 1 .. Len(heard) : written[i] \in S
    BY <1>1, <2>1
  <2> HIDE DEF S
  <2>3. /\ sub \in Seq(S) /\ Len(sub) = Len(heard)
        /\ \A i \in 1 .. Len(heard) : sub[i] = written[i]
    <3>1. /\ sub \in Seq(S)
          /\ Len(sub) = IF 1 <= Len(heard) THEN Len(heard) - 1 + 1 ELSE 0
          /\ \A i \in 1 .. Len(heard) - 1 + 1 : sub[i] = written[1 + i - 1]
      BY <2>1, <2>2, SubSeqProperties
    <3> QED
      BY <2>1, <3>1
  <2> HIDE DEF sub
  <2> QED
    BY <1>1, <2>1, <2>3, SeqIs, SameSeq DEF Lists, sub
<1>2. CASE transport = "serial"
  <2>1. /\ Lists /\ Len(heard) <= Len(written) /\ \A i \in 1 .. Len(heard) : heard[i] = written[i]
    BY <1>2 DEF LinkInv, SerialInv
  <2>2. PICK lab \in [1 .. Len(wire) + 1 -> Label] : HasReading(lab)
    BY <1>2 DEF LinkInv, SerialInv
  <2>3. ASSUME wire = <<>>
        PROVE  reader.at = "scan" /\ heard = written
    <3>1. Len(wire) + 1 = 1
      BY <2>3, EmptyIs
    <3>2. lab[1].ph = 0 /\ lab[1].k = Len(written) /\ lab[1].k = Len(heard) /\ reader.at = "scan"
      <4>1. Standing(lab[1]) /\ lab[1].ph \in {0, 6} /\ lab[1].k = Len(written)
        BY <2>2, <3>1 DEF HasReading
      <4>2. lab[1].ph = 0
        BY <4>1 DEF Standing
      <4>3. lab[1].k = Len(heard) + 0
        BY <4>1, <4>2 DEF Standing
      <4>4. Len(heard) + 0 = Len(heard)
        BY <2>1 DEF Lists, IsSeq
      <4>5. reader.at = "scan"
        BY <4>1, <4>2 DEF Standing
      <4> QED
        BY <4>1, <4>2, <4>3, <4>4, <4>5
    <3> QED
      BY <2>1, <3>2, SameSeq DEF Lists
  <2> QED
    BY <1>1, <2>1, <2>3
<1>3. CASE transport = "ble"
  <2>1. /\ Lists /\ IsSeq(reader.got) /\ written = heard \o (reader.got \o wire)
        /\ reader.at \in {"open", "select"} => reader.got = <<>>
    BY <1>3 DEF LinkInv, BleInv
  <2>2. IsSeq(reader.got \o wire)
    BY <2>1, Joined DEF Lists
  <2>3. /\ Len(written) = Len(heard) + Len(reader.got \o wire)
        /\ \A i \in 1 .. Len(heard) : written[i] = heard[i]
    BY <2>1, <2>2, Joined DEF Lists
  <2>4. Len(heard) <= Len(written)
    BY <2>1, <2>2, <2>3 DEF Lists, IsSeq
  <2>5. wire = <<>> /\ reader.at \in {"scan", "select"} => heard = written
    <3>1. reader.at # "scan"
      BY <1>3 DEF LinkInv, ReaderInv, BleAts
    <3>2. ASSUME wire = <<>>, reader.at = "select"
          PROVE  heard = written
      <4>1. reader.got \o wire = <<>>
        BY <2>1, <3>2, EmptyIs, WithEmpty
      <4> QED
        BY <2>1, <4>1, WithEmpty DEF Lists
    <3> QED
      BY <3>1, <3>2
  <2> QED
    BY <1>1, <1>3, <2>1, <2>3, <2>4, <2>5
<1> QED
  BY <1>2, <1>3 DEF LinkInv, ReaderInv

LEMMA LinkStart == LinkInit => LinkInv
<1> SUFFICES ASSUME LinkInit
             PROVE  LinkInv
  OBVIOUS
<1>1. ReaderInv
  BY DEF LinkInit, Reader, ReaderInv, SerialAts, BleAts
<1>2. Lists /\ Len(wire) = 0 /\ Len(written) = 0 /\ Len(heard) = 0
  BY EmptyIs DEF LinkInit, Lists
<1>3. SerialInv
  <2> SUFFICES ASSUME transport = "serial"
               PROVE  \E lab \in [1 .. 0 + 1 -> Label] : HasReading(lab)
    BY <1>2 DEF SerialInv
  <2> DEFINE lab == [i \in 1 .. 0 + 1 |-> [ph |-> 0, k |-> 0]]
  <2>1. lab \in [1 .. 0 + 1 -> Label] /\ lab[1] = [ph |-> 0, k |-> 0]
    BY DEF Label
  <2>2. Standing(lab[1])
    BY <1>2, <2>1 DEF LinkInit, Standing, Reader
  <2>3. HasReading(lab)
    <3> HIDE DEF lab
    <3> QED
      BY <1>2, <2>1, <2>2 DEF HasReading
  <2> QED
    BY <2>1, <2>3
<1>4. BleInv
  BY <1>2, EmptyIs, WithEmpty DEF LinkInit, BleInv, Reader
<1> QED
  BY <1>1, <1>3, <1>4 DEF LinkInv

-----------------------------------------------------------------------------
(* The steps of a Bluetooth link *)

LEMMA SingleIs == ASSUME NEW x PROVE IsSeq(<<x>>) /\ Len(<<x>>) = 1 /\ <<x>>[1] = x
<1>1. <<x>> \in Seq({x})
  OBVIOUS
<1> QED
  BY <1>1, SeqIs

LEMMA OpensLinkKeeps == LinkInv /\ OpensLink => LinkInv'
<1> SUFFICES ASSUME LinkInv, OpensLink
             PROVE  LinkInv'
  OBVIOUS
<1>1. transport = "ble" /\ transport' = "ble" /\ clean' = clean /\ clean \in BOOLEAN
  BY DEF LinkInv, ReaderInv, SerialAts, OpensLink
<1>2. reader' = Reader("select", 0) /\ heard = <<>> /\ heard' = heard /\ written' = wire'
  BY <1>1 DEF LinkInv, BleInv, OpensLink
<1>3. IsSeq(wire')
  <2>1. CASE wire' = <<>>
    BY <2>1, EmptyIs
  <2>2. CASE \E n \in 1 .. MaxStale : wire' = [i \in 1 .. n |-> Payload(100 + i)]
    <3>1. PICK n \in 1 .. MaxStale : wire' = [i \in 1 .. n |-> Payload(100 + i)]
      BY <2>2
    <3> DEFINE S == {Payload(100 + i) : i \in 1 .. n}
    <3>2. n \in Nat /\ \A i \in 1 .. n : Payload(100 + i) \in S
      BY StaleAssumption
    <3> HIDE DEF S
    <3>3. wire' \in Seq(S)
      BY <3>1, <3>2
    <3> QED
      BY <3>3, SeqIs
  <2> QED
    BY <2>1, <2>2 DEF OpensLink
<1>4. written' = heard' \o (<<>> \o wire')
  BY <1>2, <1>3, WithEmpty
<1>5. BleInv'
  BY <1>1, <1>2, <1>3, <1>4, EmptyIs DEF BleInv, Lists, Reader
<1>6. ReaderInv' /\ SerialInv'
  BY <1>1, <1>2 DEF ReaderInv, SerialInv, BleAts, Reader
<1> QED
  BY <1>5, <1>6 DEF LinkInv

LEMMA QueuesFrameKeeps == ASSUME NEW n, LinkInv, QueuesFrame(n) PROVE LinkInv'
<1>1. /\ transport = "ble" /\ transport' = "ble" /\ clean' = clean
      /\ reader' = reader /\ heard' = heard /\ reader.at # "open"
      /\ wire' = Append(wire, Payload(n)) /\ written' = Append(written, Payload(n))
  BY DEF QueuesFrame
<1>2. ASSUME reader.at # "closed"
      PROVE  /\ Lists' /\ IsSeq(reader.got)
             /\ written' = heard \o (reader.got \o wire')
             /\ reader.at = "select" => reader.got = <<>>
  <2> DEFINE p == Payload(n)  one == <<p>>  got == reader.got
  <2> HIDE DEF p
  <2>1. /\ IsSeq(wire) /\ IsSeq(written) /\ IsSeq(heard) /\ IsSeq(got)
        /\ written = heard \o (got \o wire)
        /\ reader.at = "select" => got = <<>>
    BY <1>1, <1>2 DEF LinkInv, BleInv, Lists
  <2> HIDE DEF got
  <2>2. wire' = wire \o one /\ written' = written \o one /\ IsSeq(wire') /\ IsSeq(written')
    BY <1>1, <2>1, AppendJoins, Appended DEF p
  <2>3. IsSeq(one) /\ IsSeq(got \o wire)
    BY <2>1, Joined, SingleIs
  <2> HIDE DEF one
  <2>4. (heard \o (got \o wire)) \o one = heard \o ((got \o wire) \o one)
    <3>1. PICK rest : rest = got \o wire
      OBVIOUS
    <3>2. IsSeq(heard) /\ IsSeq(rest) /\ IsSeq(one)
      BY <2>1, <2>3, <3>1
    <3>3. (heard \o rest) \o one = heard \o (rest \o one)
      BY <3>2, Regrouped
    <3> QED
      BY <3>1, <3>3
  <2>5. (got \o wire) \o one = got \o (wire \o one)
    <3>1. IsSeq(got) /\ IsSeq(wire) /\ IsSeq(one)
      BY <2>1, <2>3
    <3> QED
      BY <3>1, Regrouped
  <2> QED
    BY <1>1, <2>1, <2>2, <2>4, <2>5 DEF Lists, got
<1>3. BleInv'
  BY <1>1, <1>2 DEF BleInv
<1>4. ReaderInv' /\ SerialInv'
  BY <1>1 DEF LinkInv, ReaderInv, SerialInv
<1> QED
  BY <1>3, <1>4 DEF LinkInv

LEMMA DrainsOneKeeps == LinkInv /\ DrainsOne => LinkInv'
<1> SUFFICES ASSUME LinkInv, DrainsOne
             PROVE  LinkInv'
  OBVIOUS
<1>1. /\ transport = "ble" /\ transport' = "ble" /\ clean' = clean /\ clean \in BOOLEAN
      /\ heard' = heard /\ written' = written /\ reader.at = "drain" /\ wire # <<>>
      /\ wire' = Tail(wire)
      /\ reader' = [at |-> "drain", errors |-> reader.errors, len |-> reader.len,
                    got |-> Append(reader.got, Head(wire))]
  BY DEF LinkInv, ReaderInv, SerialAts, DrainsOne
<1> DEFINE got == reader.got  h == Head(wire)  one == <<h>>
<1>2. /\ IsSeq(wire) /\ IsSeq(written) /\ IsSeq(heard) /\ IsSeq(got)
      /\ written = heard \o (got \o wire)
  BY <1>1 DEF LinkInv, BleInv, Lists
<1>3. /\ reader'.got = Append(got, h) /\ reader'.at = "drain"
  BY <1>1
<1> HIDE DEF got, h
<1>4. IsSeq(wire') /\ wire = one \o wire'
  BY <1>1, <1>2, Rest DEF h
<1>5. IsSeq(reader'.got) /\ reader'.got = got \o one /\ IsSeq(one)
  BY <1>2, <1>3, Appended, AppendJoins, SingleIs
<1> HIDE DEF one
<1>6. got \o (one \o wire') = (got \o one) \o wire'
  <2>1. IsSeq(got) /\ IsSeq(one) /\ IsSeq(wire')
    BY <1>2, <1>4, <1>5
  <2> QED
    BY <2>1, Regrouped
<1>7. written' = heard' \o (reader'.got \o wire')
  BY <1>1, <1>2, <1>4, <1>5, <1>6
<1>8. BleInv'
  BY <1>1, <1>2, <1>3, <1>4, <1>5, <1>7 DEF BleInv, Lists
<1>9. ReaderInv' /\ SerialInv'
  BY <1>1 DEF ReaderInv, SerialInv, BleAts
<1> QED
  BY <1>8, <1>9 DEF LinkInv

LEMMA HandsOnKeeps == LinkInv /\ HandsOn => LinkInv'
<1> SUFFICES ASSUME LinkInv, HandsOn
             PROVE  LinkInv'
  OBVIOUS
<1>1. /\ transport = "ble" /\ transport' = "ble" /\ clean' = clean /\ clean \in BOOLEAN
      /\ heard' = heard \o reader.got /\ written' = written /\ wire = <<>> /\ wire' = wire
      /\ reader.at = "drain" /\ reader' = Reader("select", 0)
  BY DEF LinkInv, ReaderInv, SerialAts, HandsOn
<1> DEFINE got == reader.got
<1>2. /\ IsSeq(wire) /\ IsSeq(written) /\ IsSeq(heard) /\ IsSeq(got)
      /\ written = heard \o (got \o wire) /\ heard' = heard \o got
  BY <1>1 DEF LinkInv, BleInv, Lists
<1> HIDE DEF got
<1>3. IsSeq(heard') /\ got \o wire = got
  BY <1>1, <1>2, Joined, WithEmpty
<1>4. written' = heard' /\ <<>> \o wire' = <<>>
  BY <1>1, <1>2, <1>3, EmptyIs, WithEmpty
<1>5. written' = heard' \o (<<>> \o wire')
  BY <1>3, <1>4, WithEmpty
<1>6. BleInv'
  BY <1>1, <1>2, <1>3, <1>5, EmptyIs DEF BleInv, Lists, Reader
<1>7. ReaderInv' /\ SerialInv'
  BY <1>1 DEF ReaderInv, SerialInv, BleAts, Reader
<1> QED
  BY <1>6, <1>7 DEF LinkInv

LEMMA DrainBeginsKeeps == LinkInv /\ (Notified \/ Polls) => LinkInv'
<1> SUFFICES ASSUME LinkInv, Notified \/ Polls
             PROVE  LinkInv'
  OBVIOUS
<1>1. /\ transport = "ble" /\ transport' = "ble" /\ clean' = clean /\ clean \in BOOLEAN
      /\ heard' = heard /\ written' = written /\ wire' = wire /\ reader.at = "select"
      /\ reader' = [at |-> "drain", errors |-> reader.errors, len |-> reader.len,
                    got |-> reader.got]
  BY DEF LinkInv, ReaderInv, SerialAts, Notified, Polls
<1>2. ReaderInv' /\ SerialInv'
  BY <1>1 DEF ReaderInv, SerialInv, BleAts
<1>3. BleInv'
  BY <1>1 DEF LinkInv, BleInv, Lists
<1> QED
  BY <1>2, <1>3 DEF LinkInv

-----------------------------------------------------------------------------
(* The steps of a serial link *)

\* A step that neither the console nor the radio takes part in, after which
\* the reader stands where it stood.
LEMMA SameLine ==
    ASSUME NEW lab \in [1 .. Len(wire) + 1 -> Label], HasReading(lab),
           wire' = wire, written' = written, heard' = heard,
           reader'.at = reader.at, reader'.len = reader.len, reader'.got = reader.got
    PROVE  HasReading(lab)'
<1>1. Standing(lab[1])'
  <2> DEFINE l == lab[1]
  <2>1. PICK m : m = lab[1]
    OBVIOUS
  <2>2. Standing(m)
    BY <2>1 DEF HasReading
  <2>3. Standing(m)'
    BY <2>2 DEF Standing
  <2> QED
    BY <2>1, <2>3
<1>2. \A i \in 1 .. Len(wire)' : (Follows(lab[i], lab[i + 1]) /\ Fits(wire[i], lab[i + 1]))'
  BY DEF HasReading, Follows, Fits
<1> QED
  BY <1>1, <1>2 DEF HasReading

LEMMA ReadFailsKeeps == LinkInv /\ ReadFails => LinkInv'
<1> SUFFICES ASSUME LinkInv, ReadFails
             PROVE  LinkInv'
  OBVIOUS
<1>1. /\ transport' = transport /\ wire' = wire /\ heard' = heard
      /\ reader' = IF reader.errors + 1 >= MaxReadErrors THEN Reader("closed", 0)
                   ELSE Reader(Between, reader.errors + 1)
  BY DEF ReadFails
<1>2. CASE transport = "ble"
  <2>1. /\ reader.at = "drain" /\ written' = heard \o wire /\ clean' = clean
        /\ clean \in BOOLEAN /\ Between = "select"
    BY <1>2 DEF LinkInv, ReaderInv, BleAts, ReadFails, Between
  <2>2. IsSeq(wire) /\ IsSeq(heard)
    BY <1>2, <2>1 DEF LinkInv, BleInv, Lists
  <2>3. IsSeq(written') /\ <<>> \o wire = wire
    BY <2>1, <2>2, Joined, WithEmpty
  <2>4. ReaderInv' /\ SerialInv'
    BY <1>1, <1>2, <2>1 DEF ReaderInv, SerialInv, BleAts, Reader
  <2>5. reader'.at # "closed" => reader'.at = "select" /\ reader'.got = <<>>
    BY <1>1, <2>1 DEF Reader
  <2>6. BleInv'
    BY <1>1, <1>2, <2>1, <2>2, <2>3, <2>5, EmptyIs DEF BleInv, Lists
  <2> QED
    BY <2>4, <2>6 DEF LinkInv
<1>3. CASE transport = "serial"
  <2>1. /\ written' = written /\ clean' = (clean /\ reader.at = "scan") /\ Between = "scan"
    BY <1>3 DEF ReadFails, Between
  <2>2. ReaderInv' /\ BleInv'
    BY <1>1, <1>3, <2>1 DEF LinkInv, ReaderInv, BleInv, SerialAts, Reader
  <2>3. ASSUME clean', reader'.at # "closed"
        PROVE  /\ Lists'
               /\ Len(heard') <= Len(written') /\ \A i \in 1 .. Len(heard') : heard'[i] = written'[i]
               /\ \E lab \in [1 .. Len(wire') + 1 -> Label] : HasReading(lab)'
    <3>1. /\ reader.at = "scan" /\ reader'.at = "scan"
          /\ reader'.len = 0 /\ reader'.got = <<>> /\ clean
      BY <1>1, <2>1, <2>3 DEF Reader
    <3>2. /\ Lists
          /\ Len(heard) <= Len(written) /\ \A i \in 1 .. Len(heard) : heard[i] = written[i]
      BY <1>3, <3>1 DEF LinkInv, SerialInv
    <3>3. PICK lab \in [1 .. Len(wire) + 1 -> Label] : HasReading(lab)
      BY <1>3, <3>1 DEF LinkInv, SerialInv
    <3>4. reader.len = 0 /\ reader.got = <<>>
      <4>1. Standing(lab[1])
        BY <3>3 DEF HasReading
      <4>2. lab[1].ph \in 0 .. 6
        <5>1. 1 \in 1 .. Len(wire) + 1
          BY <3>2 DEF Lists, IsSeq
        <5> QED
          BY <5>1 DEF Label
      <4> QED
        BY <3>1, <4>1, <4>2 DEF Standing
    <3>5. HasReading(lab)'
      BY <1>1, <2>1, <3>1, <3>3, <3>4, SameLine
    <3> QED
      BY <1>1, <2>1, <3>2, <3>5 DEF Lists
  <2>4. SerialInv'
    BY <1>1, <2>3 DEF SerialInv
  <2> QED
    BY <2>2, <2>4 DEF LinkInv
<1> QED
  BY <1>2, <1>3 DEF LinkInv, ReaderInv

LEMMA DisconnectKeeps == LinkInv /\ Disconnect => LinkInv'
  BY DEF LinkInv, Disconnect, ReaderInv, SerialInv, BleInv, SerialAts, BleAts, Reader

LEMMA SilenceKeeps == LinkInv /\ Silence => LinkInv'
<1> SUFFICES ASSUME LinkInv, Silence
             PROVE  LinkInv'
  OBVIOUS
<1>1. /\ transport = "serial" /\ transport' = transport /\ wire' = <<>> /\ clean' = TRUE
      /\ written' = <<>> /\ heard' = <<>> /\ reader' = Reader("scan", reader.errors)
  BY DEF Silence, TimedOut
<1>2. ReaderInv' /\ BleInv'
  BY <1>1 DEF ReaderInv, BleInv, SerialAts, Reader
<1>3. /\ Lists' /\ Len(wire') = 0 /\ Len(written') = 0 /\ Len(heard') = 0
  BY <1>1, EmptyIs DEF Lists
<1>4. \E lab \in [1 .. Len(wire') + 1 -> Label] : HasReading(lab)'
  <2> DEFINE lab == [i \in 1 .. 0 + 1 |-> [ph |-> 0, k |-> 0]]
  <2>1. lab \in [1 .. Len(wire') + 1 -> Label] /\ lab[1] = [ph |-> 0, k |-> 0]
    BY <1>3 DEF Label
  <2>2. Standing(lab[1])'
    BY <1>1, <1>3, <2>1 DEF Standing, Reader
  <2>3. HasReading(lab)'
    <3> HIDE DEF lab
    <3> QED
      BY <1>3, <2>1, <2>2 DEF HasReading
  <2> QED
    BY <2>1, <2>3
<1>5. SerialInv'
  BY <1>3, <1>4 DEF SerialInv
<1> QED
  BY <1>2, <1>5 DEF LinkInv

LEMMA FrameIs ==
    ASSUME NEW n
    PROVE  /\ IsSeq(Frame(n)) /\ Len(Frame(n)) = 6
           /\ Frame(n)[1] = START1 /\ Frame(n)[2] = START2 /\ Frame(n)[3] = 0
           /\ Frame(n)[4] = 2 /\ Frame(n)[5] = START1 /\ Frame(n)[6] = n
<1> DEFINE S == {START1, START2, 0, 2, n}
           head == <<START1, START2, 0, 2>>
           body == <<START1, n>>
<1>1. /\ head \in Seq(S) /\ Len(head) = 4 /\ head[1] = START1 /\ head[2] = START2
      /\ head[3] = 0 /\ head[4] = 2
  OBVIOUS
<1>2. body \in Seq(S) /\ Len(body) = 2 /\ body[1] = START1 /\ body[2] = n
  OBVIOUS
<1>3. Frame(n) = head \o body
  BY DEF Frame, Payload
<1> HIDE DEF S, head, body
<1>4. IsSeq(head) /\ IsSeq(body)
  BY <1>1, <1>2, SeqIs
<1>5. /\ IsSeq(head \o body) /\ Len(head \o body) = Len(head) + Len(body)
      /\ \A i \in 1 .. Len(head) : (head \o body)[i] = head[i]
      /\ \A i \in 1 .. Len(body) : (head \o body)[Len(head) + i] = body[i]
  BY <1>4, Joined
<1>6. /\ \A i \in 1 .. 4 : Frame(n)[i] = head[i]
      /\ \A i \in 1 .. 2 : Frame(n)[4 + i] = body[i]
  BY <1>1, <1>2, <1>3, <1>5
<1>7. Frame(n)[4 + 1] = body[1] /\ Frame(n)[4 + 2] = body[2]
  BY <1>6
<1>8. 4 + 1 = 5 /\ 4 + 2 = 6
  OBVIOUS
<1> QED
  BY <1>1, <1>2, <1>3, <1>5, <1>6, <1>7, <1>8

\* The bytes on the line keep their reading when more are written behind them.
LEMMA OldBytes ==
    ASSUME Lists, NEW lab \in [1 .. Len(wire) + 1 -> Label], HasReading(lab),
           \A i \in 1 .. Len(wire) : wire'[i] = wire[i],
           \A i \in 1 .. Len(written) : written'[i] = written[i],
           heard' = heard, reader' = reader
    PROVE  /\ Standing(lab[1])'
           /\ \A i \in 1 .. Len(wire) : Follows(lab[i], lab[i + 1]) /\ Fits(wire[i], lab[i + 1])'
<1>1. Standing(lab[1])'
  <2>1. PICK m : m = lab[1]
    OBVIOUS
  <2>2. Standing(m)
    BY <2>1 DEF HasReading
  <2>3. Standing(m)'
    BY <2>2 DEF Standing
  <2> QED
    BY <2>1, <2>3
<1>2. ASSUME NEW i \in 1 .. Len(wire)
      PROVE  Follows(lab[i], lab[i + 1]) /\ Fits(wire[i], lab[i + 1])'
  <2>1. /\ Follows(lab[i], lab[i + 1]) /\ Fits(wire[i], lab[i + 1])
        /\ i + 1 \in 1 .. Len(wire) + 1
    BY DEF HasReading, Lists, IsSeq
  <2>2. lab[i + 1] \in Label /\ lab[i + 1].k <= Len(written) /\ (lab[i + 1].ph # 0 => lab[i + 1].k > 0)
    BY <2>1 DEF HasReading
  <2>3. PICK m : m = lab[i + 1]
    OBVIOUS
  <2>4. m.ph \in 0 .. 6 /\ (m.ph = 6 => m.k \in 1 .. Len(written))
    BY <2>2, <2>3 DEF Label, Lists, IsSeq
  <2>5. Fits(wire[i], m)
    BY <2>1, <2>3
  <2>6. Fits(wire[i], m)'
    <3>1. wire'[i] = wire[i] /\ (m.ph = 6 => written'[m.k] = written[m.k])
      BY <2>4
    <3>2. CASE m.ph = 6
      BY <2>5, <3>1, <3>2 DEF Fits
    <3>3. CASE m.ph \in 0 .. 5
      <4>1. m.ph \in {0, 1, 2, 3, 4, 5}
        BY <3>3
      <4>2. CASE m.ph = 0
        BY <2>5, <3>1, <4>2 DEF Fits
      <4>3. CASE m.ph = 1
        BY <2>5, <3>1, <4>3 DEF Fits
      <4>4. CASE m.ph = 2
        BY <2>5, <3>1, <4>4 DEF Fits
      <4>5. CASE m.ph = 3
        BY <2>5, <3>1, <4>5 DEF Fits
      <4>6. CASE m.ph = 4
        BY <2>5, <3>1, <4>6 DEF Fits
      <4>7. CASE m.ph = 5
        BY <2>5, <3>1, <4>7 DEF Fits
      <4> QED
        BY <4>1, <4>2, <4>3, <4>4, <4>5, <4>6, <4>7
    <3> QED
      BY <2>4, <3>2, <3>3
  <2> QED
    BY <2>1, <2>3, <2>6
<1> QED
  BY <1>1, <1>2

LEMMA ConsoleKeeps == ASSUME NEW b, LinkInv, Console(b) PROVE LinkInv'
<1>1. /\ transport = "serial" /\ transport' = transport /\ wire' = Append(wire, b)
      /\ clean' = (clean /\ b # START1) /\ written' = written /\ heard' = heard
      /\ reader' = reader
  BY DEF Console
<1>2. ReaderInv' /\ BleInv'
  BY <1>1 DEF LinkInv, ReaderInv, BleInv
<1>3. ASSUME clean', reader'.at # "closed"
      PROVE  /\ Lists'
             /\ Len(heard') <= Len(written') /\ \A i \in 1 .. Len(heard') : heard'[i] = written'[i]
             /\ \E lab \in [1 .. Len(wire') + 1 -> Label] : HasReading(lab)'
  <2>1. clean /\ b # START1 /\ reader.at # "closed"
    BY <1>1, <1>3
  <2>2. /\ Lists
        /\ Len(heard) <= Len(written) /\ \A i \in 1 .. Len(heard) : heard[i] = written[i]
    BY <1>1, <2>1 DEF LinkInv, SerialInv
  <2>3. PICK lab \in [1 .. Len(wire) + 1 -> Label] : HasReading(lab)
    BY <1>1, <2>1 DEF LinkInv, SerialInv
  <2>4. PICK w, t : w = Len(wire) /\ t = Len(written) /\ w \in Nat /\ t \in Nat
    BY <2>2 DEF Lists, IsSeq
  <2>5. /\ IsSeq(wire') /\ Len(wire') = w + 1 /\ wire'[w + 1] = b
        /\ \A i \in 1 .. w : wire'[i] = wire[i]
    BY <1>1, <2>2, <2>4, Appended DEF Lists
  <2>6. /\ Standing(lab[1])'
        /\ \A i \in 1 .. w : Follows(lab[i], lab[i + 1]) /\ Fits(wire[i], lab[i + 1])'
    BY <1>1, <2>2, <2>3, <2>4, <2>5, OldBytes
  <2>7. PICK ext : ext = [i \in 1 .. w + 2 |-> IF i <= w + 1 THEN lab[i] ELSE [ph |-> 0, k |-> t]]
    OBVIOUS
  <2>8. /\ ext \in [1 .. (w + 1) + 1 -> Label]
        /\ \A i \in 1 .. w + 1 : ext[i] = lab[i]
        /\ ext[w + 2] = [ph |-> 0, k |-> t]
    BY <2>3, <2>4, <2>7 DEF Label
  <2>9. /\ lab[w + 1].ph \in {0, 6} /\ lab[w + 1].k = t
        /\ \A i \in 1 .. w + 1 : lab[i].k <= t /\ (lab[i].ph # 0 => lab[i].k > 0)
    BY <2>3, <2>4 DEF HasReading
  <2>10. Standing(ext[1])'
    <3>1. 1 \in 1 .. w + 1
      BY <2>4
    <3>2. ext[1] = lab[1]
      BY <2>8, <3>1
    <3> QED
      BY <2>6, <3>2
  <2>11. ASSUME NEW i \in 1 .. w + 1
         PROVE  Follows(ext[i], ext[i + 1]) /\ Fits(wire[i], ext[i + 1])'
    <3>1. CASE i \in 1 .. w
      <4>1. ext[i] = lab[i] /\ ext[i + 1] = lab[i + 1]
        BY <2>4, <2>8, <3>1
      <4> QED
        BY <2>6, <3>1, <4>1
    <3>2. CASE i = w + 1
      <4>1. ext[i] = lab[w + 1] /\ ext[i + 1] = [ph |-> 0, k |-> t] /\ wire'[i] = b
        BY <2>4, <2>5, <2>8, <3>2
      <4>2. Follows(ext[i], ext[i + 1])
        BY <2>9, <4>1 DEF Follows
      <4>3. PICK m : m = ext[i + 1]
        OBVIOUS
      <4>4. Fits(wire[i], m)'
        BY <2>1, <4>1, <4>3 DEF Fits
      <4> QED
        BY <4>2, <4>3, <4>4
    <3> QED
      BY <2>4, <3>1, <3>2
  <2>12. ASSUME NEW i \in 1 .. (w + 1) + 1
         PROVE  ext[i].k <= t /\ (ext[i].ph # 0 => ext[i].k > 0)
    <3>1. CASE i \in 1 .. w + 1
      BY <2>8, <2>9, <3>1
    <3>2. CASE i = w + 2
      BY <2>4, <2>8, <3>2
    <3> QED
      BY <2>4, <3>1, <3>2
  <2>13. ext[(w + 1) + 1].ph \in {0, 6} /\ ext[(w + 1) + 1].k = t
    <3>1. (w + 1) + 1 = w + 2
      BY <2>4
    <3> QED
      BY <2>8, <3>1
  <2>14. HasReading(ext)'
    <3>1. Len(wire') = w + 1 /\ Len(written') = t
      BY <1>1, <2>4, <2>5
    <3> QED
      BY <2>10, <2>11, <2>12, <2>13, <3>1 DEF HasReading, Follows
  <2> QED
    BY <1>1, <2>2, <2>5, <2>8, <2>14 DEF Lists
<1>4. SerialInv'
  BY <1>3 DEF SerialInv
<1> QED
  BY <1>2, <1>4 DEF LinkInv

LEMMA WritesFrameKeeps == ASSUME NEW n, LinkInv, WritesFrame(n) PROVE LinkInv'
<1>1. /\ transport = "serial" /\ transport' = transport /\ heard' = heard /\ reader' = reader
      /\ \/ clean' = FALSE
         \/ /\ wire' = wire \o Frame(n) /\ written' = Append(written, Payload(n))
            /\ clean' = clean
  BY DEF WritesFrame
<1>2. ReaderInv' /\ BleInv'
  BY <1>1 DEF LinkInv, ReaderInv, BleInv
<1>3. ASSUME clean', reader'.at # "closed"
      PROVE  /\ Lists'
             /\ Len(heard') <= Len(written') /\ \A i \in 1 .. Len(heard') : heard'[i] = written'[i]
             /\ \E lab \in [1 .. Len(wire') + 1 -> Label] : HasReading(lab)'
  <2>1. /\ clean /\ reader.at # "closed"
        /\ wire' = wire \o Frame(n) /\ written' = Append(written, Payload(n))
    BY <1>1, <1>3
  <2>2. /\ Lists
        /\ Len(heard) <= Len(written) /\ \A i \in 1 .. Len(heard) : heard[i] = written[i]
    BY <1>1, <2>1 DEF LinkInv, SerialInv
  <2>3. PICK lab \in [1 .. Len(wire) + 1 -> Label] : HasReading(lab)
    BY <1>1, <2>1 DEF LinkInv, SerialInv
  <2>4. PICK w, t, h : /\ w = Len(wire) /\ t = Len(written) /\ h = Len(heard)
                       /\ w \in Nat /\ t \in Nat /\ h \in Nat
    BY <2>2 DEF Lists, IsSeq
  <2>5. /\ IsSeq(wire') /\ Len(wire') = w + 6
        /\ \A i \in 1 .. w : wire'[i] = wire[i]
        /\ \A j \in 1 .. 6 : wire'[w + j] = Frame(n)[j]
    <3> DEFINE f == Frame(n)
    <3>1. IsSeq(f) /\ IsSeq(wire)
      BY <2>2, FrameIs DEF Lists
    <3> HIDE DEF f
    <3>2. /\ IsSeq(wire \o f) /\ Len(wire \o f) = Len(wire) + Len(f)
          /\ \A i \in 1 .. Len(wire) : (wire \o f)[i] = wire[i]
          /\ \A i \in 1 .. Len(f) : (wire \o f)[Len(wire) + i] = f[i]
      BY <3>1, Joined
    <3>3. wire' = wire \o f
      BY <2>1 DEF f
    <3>4. Len(f) = 6
      BY FrameIs DEF f
    <3> QED
      BY <2>4, <3>1, <3>2, <3>3, <3>4 DEF f
  <2>6. /\ IsSeq(written') /\ Len(written') = t + 1 /\ written'[t + 1] = <<START1, n>>
        /\ \A i \in 1 .. t : written'[i] = written[i]
    BY <2>1, <2>2, <2>4, Appended DEF Lists, Payload
  <2>7. /\ Standing(lab[1])'
        /\ \A i \in 1 .. w : Follows(lab[i], lab[i + 1]) /\ Fits(wire[i], lab[i + 1])'
    BY <1>1, <2>2, <2>3, <2>4, <2>5, <2>6, OldBytes
  <2>8. PICK ext : ext = [i \in 1 .. w + 7 |-> IF i <= w + 1 THEN lab[i]
                                               ELSE [ph |-> i - (w + 1), k |-> t + 1]]
    OBVIOUS
  <2>9. /\ \A i \in 1 .. w + 1 : ext[i] = lab[i]
        /\ \A j \in 1 .. 6 : ext[w + 1 + j] = [ph |-> j, k |-> t + 1]
    <3>1. \A i \in 1 .. w + 1 : i \in 1 .. w + 7 /\ i <= w + 1
      BY <2>4
    <3>2. ASSUME NEW j \in 1 .. 6
          PROVE  ext[w + 1 + j] = [ph |-> j, k |-> t + 1]
      <4>1. PICK i : i = w + 1 + j
        OBVIOUS
      <4>2. i \in 1 .. w + 7 /\ ~(i <= w + 1) /\ i - (w + 1) = j
        BY <2>4, <4>1
      <4>3. ext[i] = [ph |-> i - (w + 1), k |-> t + 1]
        BY <2>8, <4>2
      <4> QED
        BY <4>1, <4>2, <4>3
    <3> QED
      BY <2>8, <3>1, <3>2
  <2>10. ext \in [1 .. (w + 6) + 1 -> Label]
    <3>1. (w + 6) + 1 = w + 7
      BY <2>4
    <3> DEFINE Ext(i) == IF i <= w + 1 THEN lab[i] ELSE [ph |-> i - (w + 1), k |-> t + 1]
    <3>2. ASSUME NEW i \in 1 .. w + 7
          PROVE  Ext(i) \in Label
      <4>1. CASE i <= w + 1
        BY <2>3, <2>4, <4>1
      <4>2. CASE ~(i <= w + 1)
        <5>1. i - (w + 1) \in 0 .. 6 /\ t + 1 \in Nat
          BY <2>4, <4>2
        <5> QED
          BY <4>2, <5>1 DEF Label
      <4> QED
        BY <4>1, <4>2
    <3>3. ext = [i \in 1 .. (w + 6) + 1 |-> Ext(i)]
      BY <2>8, <3>1
    <3> HIDE DEF Ext
    <3> QED
      BY <3>1, <3>2, <3>3
  <2>11. /\ lab[w + 1].ph \in {0, 6} /\ lab[w + 1].k = t
         /\ \A i \in 1 .. w + 1 : lab[i].k <= t /\ (lab[i].ph # 0 => lab[i].k > 0)
    BY <2>3, <2>4 DEF HasReading
  <2>12. Standing(ext[1])'
    <3>1. 1 \in 1 .. w + 1
      BY <2>4
    <3>2. ext[1] = lab[1]
      BY <2>9, <3>1
    <3> QED
      BY <2>7, <3>2
  <2>13. ASSUME NEW j \in 1 .. 6
         PROVE  Fits(wire[w + j], ext[w + 1 + j])'
    <3>1. wire'[w + j] = Frame(n)[j]
      BY <2>5
    <3>2. PICK m : m = ext[w + 1 + j]
      OBVIOUS
    <3>3. m.ph = j /\ m.k = t + 1
      BY <2>9, <3>2
    <3>4. j \in {1, 2, 3, 4, 5, 6}
      OBVIOUS
    <3>5. Fits(wire[w + j], m)'
      <4>1. CASE j = 1
        BY <3>1, <3>3, <4>1, FrameIs DEF Fits
      <4>2. CASE j = 2
        BY <3>1, <3>3, <4>2, FrameIs DEF Fits
      <4>3. CASE j = 3
        BY <3>1, <3>3, <4>3, FrameIs DEF Fits
      <4>4. CASE j = 4
        BY <3>1, <3>3, <4>4, FrameIs DEF Fits
      <4>5. CASE j = 5
        BY <3>1, <3>3, <4>5, FrameIs DEF Fits
      <4>6. CASE j = 6
        <5>1. wire'[w + j] = n /\ written'[m.k] = <<START1, n>>
          BY <2>6, <3>1, <3>3, <4>6, FrameIs
        <5> QED
          BY <3>3, <4>6, <5>1 DEF Fits
      <4> QED
        BY <3>4, <4>1, <4>2, <4>3, <4>4, <4>5, <4>6
    <3> QED
      BY <3>2, <3>5
  <2>14. ASSUME NEW i \in 1 .. w + 6
         PROVE  Follows(ext[i], ext[i + 1]) /\ Fits(wire[i], ext[i + 1])'
    <3>1. CASE i \in 1 .. w
      <4>1. i \in 1 .. w + 1 /\ i + 1 \in 1 .. w + 1
        BY <2>4, <3>1
      <4>2. ext[i] = lab[i] /\ ext[i + 1] = lab[i + 1]
        BY <2>9, <4>1
      <4>3. Follows(lab[i], lab[i + 1]) /\ Fits(wire[i], lab[i + 1])'
        BY <2>7, <3>1
      <4> QED
        BY <4>2, <4>3
    <3>2. CASE i = w + 1
      <4>1. ext[i] = lab[w + 1]
        BY <2>4, <2>9, <3>2
      <4>2. ext[w + 1 + 1] = [ph |-> 1, k |-> t + 1] /\ Fits(wire[w + 1], ext[w + 1 + 1])'
        BY <2>9, <2>13
      <4>3. Follows(ext[i], ext[i + 1])
        BY <2>11, <3>2, <4>1, <4>2 DEF Follows
      <4> QED
        BY <3>2, <4>2, <4>3
    <3>3. CASE i \in w + 2 .. w + 6
      <4>1. PICK j \in 2 .. 6 : j = i - w
        BY <2>4, <3>3
      <4>2. j - 1 \in 1 .. 6 /\ j \in 1 .. 6 /\ i = w + j /\ i = w + 1 + (j - 1) /\ i + 1 = w + 1 + j
        BY <2>4, <4>1
      <4>3. /\ ext[i] = [ph |-> j - 1, k |-> t + 1] /\ ext[i + 1] = [ph |-> j, k |-> t + 1]
            /\ Fits(wire[w + j], ext[w + 1 + j])'
        BY <2>9, <2>13, <4>2
      <4>4. j - 1 \notin {0, 6} /\ j = (j - 1) + 1
        BY <4>1
      <4>5. Follows(ext[i], ext[i + 1])
        BY <4>3, <4>4 DEF Follows
      <4> QED
        BY <4>2, <4>3, <4>5
    <3> QED
      BY <2>4, <3>1, <3>2, <3>3
  <2>15. ASSUME NEW i \in 1 .. (w + 6) + 1
         PROVE  ext[i].k <= t + 1 /\ (ext[i].ph # 0 => ext[i].k > 0)
    <3>1. CASE i \in 1 .. w + 1
      <4>1. ext[i] = lab[i] /\ lab[i] \in Label
        BY <2>3, <2>4, <2>9, <3>1
      <4> QED
        BY <2>4, <2>11, <3>1, <4>1 DEF Label
    <3>2. CASE i \in w + 2 .. w + 7
      <4>1. PICK j \in 1 .. 6 : i = w + 1 + j
        <5>1. i - (w + 1) \in 1 .. 6 /\ i = w + 1 + (i - (w + 1))
          BY <2>4, <3>2
        <5> QED
          BY <5>1
      <4>2. ext[i].k = t + 1
        BY <2>9, <4>1
      <4> QED
        BY <2>4, <4>2
    <3> QED
      BY <2>4, <3>1, <3>2
  <2>16. ext[(w + 6) + 1].ph \in {0, 6} /\ ext[(w + 6) + 1].k = t + 1
    <3>1. (w + 6) + 1 = w + 1 + 6
      BY <2>4
    <3>2. ext[w + 1 + 6] = [ph |-> 6, k |-> t + 1]
      BY <2>9
    <3> QED
      BY <3>1, <3>2
  <2>17. HasReading(ext)'
    BY <2>5, <2>6, <2>12, <2>14, <2>15, <2>16 DEF HasReading, Follows
  <2>18. Len(heard') <= Len(written') /\ \A i \in 1 .. Len(heard') : heard'[i] = written'[i]
    BY <1>1, <2>2, <2>4, <2>6
  <2> QED
    BY <1>1, <2>2, <2>5, <2>6, <2>10, <2>17, <2>18 DEF Lists
<1>4. SerialInv'
  BY <1>3 DEF SerialInv
<1> QED
  BY <1>2, <1>4 DEF LinkInv

\* The reader after the byte b.
Whole(b) ==
    LET r == AfterByte(reader, b)
    IN  r.at = "payload" /\ Len(r.got) = r.len

LEMMA ReaderStays ==
    ASSUME ReaderInv, transport = "serial", ReadsByte
    PROVE  ReaderInv'
<1> DEFINE b == Head(wire)
           r == AfterByte(reader, b)
<1>1. /\ transport' = transport /\ clean' = clean
      /\ reader' = Reader("scan", 0) \/ reader' = r
      /\ reader.at \in {"scan", "start2", "msb", "lsb", "payload"}
      /\ reader = [at |-> reader.at, errors |-> reader.errors, len |-> reader.len, got |-> reader.got]
  BY DEF ReaderInv, SerialAts, ReadsByte
<1>2. CASE reader' = Reader("scan", 0)
  BY <1>1, <1>2 DEF ReaderInv, SerialAts, Reader
<1>3. CASE reader' = r
  <2> HIDE DEF b
  <2>1. \/ r = [reader EXCEPT !.at = IF b = START1 THEN "start2" ELSE "scan"]
        \/ r = [reader EXCEPT !.at = IF b = START2 THEN "msb" ELSE "scan"]
        \/ r = [reader EXCEPT !.at = "lsb", !.len = b]
        \/ r = [reader EXCEPT !.at = "payload", !.len = 256 * reader.len + b]
        \/ r = Reader("scan", reader.errors)
        \/ reader.at = "payload" /\ r = [reader EXCEPT !.got = Append(@, b)]
    <3>1. CASE reader.at = "scan"
      BY <3>1 DEF AfterByte
    <3>2. CASE reader.at = "start2"
      BY <3>2 DEF AfterByte
    <3>3. CASE reader.at = "msb"
      BY <3>3 DEF AfterByte
    <3>4. CASE reader.at = "lsb"
      BY <3>4 DEF AfterByte
    <3>5. CASE reader.at = "payload"
      BY <3>5 DEF AfterByte
    <3> QED
      BY <1>1, <3>1, <3>2, <3>3, <3>4, <3>5
  <2> HIDE DEF r
  <2>2. /\ r = [at |-> r.at, errors |-> r.errors, len |-> r.len, got |-> r.got]
        /\ r.at \in SerialAts
    <3>1. CASE r = [reader EXCEPT !.at = IF b = START1 THEN "start2" ELSE "scan"]
      BY <1>1, <3>1 DEF SerialAts
    <3>2. CASE r = [reader EXCEPT !.at = IF b = START2 THEN "msb" ELSE "scan"]
      BY <1>1, <3>2 DEF SerialAts
    <3>3. CASE r = [reader EXCEPT !.at = "lsb", !.len = b]
      BY <1>1, <3>3 DEF SerialAts
    <3>4. CASE r = [reader EXCEPT !.at = "payload", !.len = 256 * reader.len + b]
      BY <1>1, <3>4 DEF SerialAts
    <3>5. CASE r = Reader("scan", reader.errors)
      BY <3>5 DEF SerialAts, Reader
    <3>6. CASE reader.at = "payload" /\ r = [reader EXCEPT !.got = Append(@, b)]
      BY <1>1, <3>6 DEF SerialAts
    <3> QED
      BY <2>1, <3>1, <3>2, <3>3, <3>4, <3>5, <3>6
  <2> QED
    BY <1>1, <1>3, <2>2 DEF ReaderInv
<1> QED
  BY <1>1, <1>2, <1>3

\* The reader goes where the label of the byte it reads says; with the last
\* byte of a frame it hands the frame on and stands between frames.
LEMMA ReaderFollows ==
    ASSUME NEW b, NEW l \in Label, NEW m \in Label,
           ReaderInv, Len(heard) \in Nat, Standing(l), Follows(l, m), Fits(b, m)
    PROVE  LET r == AfterByte(reader, b)
           IN  /\ m.ph # 6 => /\ ~Whole(b) /\ m.k = Len(heard) + (IF m.ph = 0 THEN 0 ELSE 1)
                              /\ r.at = CASE m.ph = 0 -> "scan" [] m.ph = 1 -> "start2"
                                          [] m.ph = 2 -> "msb" [] m.ph = 3 -> "lsb"
                                          [] m.ph \in {4, 5} -> "payload"
                              /\ r.len = IF m.ph \in {4, 5} THEN 2 ELSE 0
                              /\ r.got = IF m.ph = 5 THEN <<START1>> ELSE <<>>
               /\ m.ph = 6 => /\ Whole(b) /\ r.got = <<START1, b>> /\ m.k = Len(heard) + 1
<1> DEFINE r == AfterByte(reader, b)
<1>1. reader = [at |-> reader.at, errors |-> reader.errors, len |-> reader.len, got |-> reader.got]
  BY DEF ReaderInv
<1>2. l.ph \in {0, 1, 2, 3, 4, 5}
  BY DEF Label, Standing
<1>3. CASE l.ph = 0
  <2>1. reader.at = "scan" /\ reader.len = 0 /\ reader.got = <<>> /\ l.k = Len(heard) + 0
    BY <1>3 DEF Standing
  <2>2. r = [reader EXCEPT !.at = IF b = START1 THEN "start2" ELSE "scan"]
    BY <2>1 DEF AfterByte
  <2>3. (m.ph = 0 /\ m.k = l.k) \/ (m.ph = 1 /\ m.k = l.k + 1)
    BY <1>3 DEF Follows
  <2>4. m.ph = 0 => b # START1 /\ r.at = "scan"
    BY <1>1, <2>2 DEF Fits
  <2>5. m.ph = 1 => b = START1 /\ r.at = "start2"
    BY <1>1, <2>2 DEF Fits
  <2>6. r.len = 0 /\ r.got = <<>>
    BY <1>1, <2>1, <2>2
  <2> QED
    BY <2>1, <2>3, <2>4, <2>5, <2>6 DEF Whole
<1>4. CASE l.ph = 1
  <2>1. reader.at = "start2" /\ reader.len = 0 /\ reader.got = <<>> /\ l.k = Len(heard) + 1
    BY <1>4 DEF Standing
  <2>2. m.ph = 2 /\ m.k = l.k
    BY <1>4 DEF Follows
  <2>3. b = START2
    BY <2>2 DEF Fits
  <2>4. r = [reader EXCEPT !.at = "msb"]
    BY <2>1, <2>3 DEF AfterByte
  <2>5. r.at = "msb" /\ r.len = 0 /\ r.got = <<>>
    BY <1>1, <2>1, <2>4
  <2> QED
    BY <2>1, <2>2, <2>5 DEF Whole
<1>5. CASE l.ph = 2
  <2>1. reader.at = "msb" /\ reader.len = 0 /\ reader.got = <<>> /\ l.k = Len(heard) + 1
    BY <1>5 DEF Standing
  <2>2. m.ph = 3 /\ m.k = l.k
    BY <1>5 DEF Follows
  <2>3. b = 0
    BY <2>2 DEF Fits
  <2>4. r = [reader EXCEPT !.at = "lsb", !.len = 0]
    BY <2>1, <2>3 DEF AfterByte
  <2>5. r.at = "lsb" /\ r.len = 0 /\ r.got = <<>>
    BY <1>1, <2>1, <2>4
  <2> QED
    BY <2>1, <2>2, <2>5 DEF Whole
<1>6. CASE l.ph = 3
  <2>1. reader.at = "lsb" /\ reader.len = 0 /\ reader.got = <<>> /\ l.k = Len(heard) + 1
    BY <1>6 DEF Standing
  <2>2. m.ph = 4 /\ m.k = l.k
    BY <1>6 DEF Follows
  <2>3. b = 2
    BY <2>2 DEF Fits
  <2>4. r = [reader EXCEPT !.at = "payload", !.len = 2]
    BY <2>1, <2>3 DEF AfterByte, MAX_PAYLOAD
  <2>5. r.at = "payload" /\ r.len = 2 /\ r.got = <<>>
    BY <1>1, <2>1, <2>4
  <2>6. Len(<<>>) # 2
    BY EmptyIs
  <2> QED
    BY <2>1, <2>2, <2>5, <2>6 DEF Whole
<1>7. CASE l.ph = 4
  <2>1. reader.at = "payload" /\ reader.len = 2 /\ reader.got = <<>> /\ l.k = Len(heard) + 1
    BY <1>7 DEF Standing
  <2>2. m.ph = 5 /\ m.k = l.k
    BY <1>7 DEF Follows
  <2>3. b = START1
    BY <2>2 DEF Fits
  <2>4. r = [reader EXCEPT !.got = Append(<<>>, START1)]
    BY <2>1, <2>3 DEF AfterByte
  <2>5. Append(<<>>, START1) = <<START1>> /\ Len(<<START1>>) # 2
    OBVIOUS
  <2>6. r.at = "payload" /\ r.len = 2 /\ r.got = <<START1>>
    BY <1>1, <2>1, <2>4, <2>5
  <2> QED
    BY <2>1, <2>2, <2>5, <2>6 DEF Whole
<1>8. CASE l.ph = 5
  <2>1. /\ reader.at = "payload" /\ reader.len = 2 /\ reader.got = <<START1>>
        /\ l.k = Len(heard) + 1
    BY <1>8 DEF Standing
  <2>2. m.ph = 6 /\ m.k = l.k
    BY <1>8 DEF Follows
  <2>3. r = [reader EXCEPT !.got = Append(<<START1>>, b)]
    BY <2>1 DEF AfterByte
  <2>4. Append(<<START1>>, b) = <<START1, b>> /\ Len(<<START1, b>>) = 2
    <3> DEFINE one == <<START1>>  two == <<START1, b>>
    <3>1. IsSeq(one) /\ Len(one) = 1 /\ one[1] = START1
      BY SingleIs
    <3>2. two \in Seq({START1, b}) /\ Len(two) = 2 /\ two[1] = START1 /\ two[2] = b
      OBVIOUS
    <3> HIDE DEF one, two
    <3>3. IsSeq(two)
      BY <3>2, SeqIs
    <3>4. /\ IsSeq(Append(one, b)) /\ Len(Append(one, b)) = 2
          /\ Append(one, b)[1] = START1 /\ Append(one, b)[2] = b
      <4>1. IsSeq(one)
        BY <3>1
      <4>2. /\ IsSeq(Append(one, b)) /\ Len(Append(one, b)) = Len(one) + 1
            /\ \A i \in 1 .. Len(one) : Append(one, b)[i] = one[i]
            /\ Append(one, b)[Len(one) + 1] = b
        BY <4>1, Appended
      <4> QED
        BY <3>1, <4>2
    <3>5. ASSUME NEW i \in 1 .. 2
          PROVE  Append(one, b)[i] = two[i]
      <4>1. i = 1 \/ i = 2
        OBVIOUS
      <4> QED
        BY <3>2, <3>4, <4>1
    <3>6. Append(one, b) = two
      BY <3>2, <3>3, <3>4, <3>5, SameSeq
    <3> QED
      BY <3>2, <3>6 DEF one, two
  <2>5. r.at = "payload" /\ r.len = 2 /\ r.got = <<START1, b>>
    BY <1>1, <2>1, <2>3, <2>4
  <2> QED
    BY <2>1, <2>2, <2>4, <2>5 DEF Whole
<1> QED
  BY <1>2, <1>3, <1>4, <1>5, <1>6, <1>7, <1>8

LEMMA ReadsByteKeeps == LinkInv /\ ReadsByte => LinkInv'
<1> SUFFICES ASSUME LinkInv, ReadsByte
             PROVE  LinkInv'
  OBVIOUS
<1>1. /\ transport = "serial" /\ transport' = transport /\ wire # <<>> /\ reader.at # "closed"
      /\ wire' = Tail(wire) /\ written' = written /\ clean' = clean
  BY DEF ReadsByte
<1>2. ReaderInv' /\ BleInv'
  BY <1>1, ReaderStays DEF LinkInv, BleInv
<1>3. ASSUME clean'
      PROVE  /\ Lists'
             /\ Len(heard') <= Len(written') /\ \A i \in 1 .. Len(heard') : heard'[i] = written'[i]
             /\ \E lab \in [1 .. Len(wire') + 1 -> Label] : HasReading(lab)'
  <2>1. /\ Lists
        /\ Len(heard) <= Len(written) /\ \A i \in 1 .. Len(heard) : heard[i] = written[i]
    BY <1>1, <1>3 DEF LinkInv, SerialInv
  <2>2. PICK lab \in [1 .. Len(wire) + 1 -> Label] : HasReading(lab)
    BY <1>1, <1>3 DEF LinkInv, SerialInv
  <2>3. PICK w, t, h : /\ w = Len(wire) /\ t = Len(written) /\ h = Len(heard)
                       /\ w \in Nat \ {0} /\ t \in Nat /\ h \in Nat
    BY <1>1, <2>1, EmptyIs DEF Lists, IsSeq
  <2>4. /\ IsSeq(wire') /\ Len(wire') = w - 1 /\ Head(wire) = wire[1]
        /\ \A i \in 1 .. w - 1 : wire'[i] = wire[i + 1]
    BY <1>1, <2>1, <2>3, Rest DEF Lists
  <2>5. /\ \A i \in 1 .. w : Follows(lab[i], lab[i + 1]) /\ Fits(wire[i], lab[i + 1])
        /\ \A i \in 1 .. w + 1 : /\ lab[i] \in Label
                                 /\ lab[i].k <= t /\ (lab[i].ph # 0 => lab[i].k > 0)
        /\ lab[w + 1].ph \in {0, 6} /\ lab[w + 1].k = t
        /\ Standing(lab[1])
    BY <2>2, <2>3 DEF HasReading
  <2> DEFINE b == wire[1]
             r == AfterByte(reader, b)
  <2>6. PICK l, m : l = lab[1] /\ m = lab[2]
    OBVIOUS
  <2>7. /\ 1 \in 1 .. w /\ 1 \in 1 .. w + 1 /\ 1 + 1 \in 1 .. w + 1 /\ 1 + 1 = 2
    BY <2>3
  <2>8. /\ l \in Label /\ m \in Label /\ Standing(l) /\ Follows(l, m) /\ Fits(b, m)
        /\ m.k <= t /\ (m.ph # 0 => m.k > 0)
    BY <2>5, <2>6, <2>7
  <2>9. /\ m.ph # 6 => /\ ~Whole(b) /\ m.k = h + (IF m.ph = 0 THEN 0 ELSE 1)
                       /\ r.at = CASE m.ph = 0 -> "scan" [] m.ph = 1 -> "start2"
                                   [] m.ph = 2 -> "msb" [] m.ph = 3 -> "lsb"
                                   [] m.ph \in {4, 5} -> "payload"
                       /\ r.len = IF m.ph \in {4, 5} THEN 2 ELSE 0
                       /\ r.got = IF m.ph = 5 THEN <<START1>> ELSE <<>>
        /\ m.ph = 6 => Whole(b) /\ r.got = <<START1, b>> /\ m.k = h + 1
    BY <2>3, <2>8, ReaderFollows DEF LinkInv
  <2>10. /\ Whole(b) => reader' = Reader("scan", 0) /\ heard' = Append(heard, r.got)
         /\ ~Whole(b) => reader' = r /\ heard' = heard
    BY <2>4 DEF ReadsByte, Whole
  <2> HIDE DEF b, r
  <2>11. PICK now : now = IF m.ph = 6 THEN [ph |-> 0, k |-> m.k] ELSE m
    OBVIOUS
  <2>12. now \in Label /\ now.k <= t /\ (now.ph # 0 => now.k > 0)
    BY <2>8, <2>11 DEF Label
  <2>13. /\ IsSeq(heard') /\ Len(heard') <= t /\ \A i \in 1 .. Len(heard') : heard'[i] = written[i]
         /\ Standing(now)'
    <3>1. CASE m.ph # 6
      <4>1. now = m /\ reader' = r /\ heard' = heard
        BY <2>9, <2>10, <2>11, <3>1
      <4>2. Len(heard') = h
        BY <2>3, <4>1
      <4>3. Standing(m)'
        <5>1. m.k = Len(heard') + (IF m.ph = 0 THEN 0 ELSE 1)
          BY <2>9, <3>1, <4>2
        <5>2. /\ reader'.at = CASE m.ph = 0 -> "scan" [] m.ph = 1 -> "start2" [] m.ph = 2 -> "msb"
                                [] m.ph = 3 -> "lsb" [] m.ph \in {4, 5} -> "payload"
              /\ reader'.len = IF m.ph \in {4, 5} THEN 2 ELSE 0
              /\ reader'.got = IF m.ph = 5 THEN <<START1>> ELSE <<>>
          BY <2>9, <3>1, <4>1
        <5> QED
          BY <3>1, <5>1, <5>2 DEF Standing
      <4> QED
        BY <2>1, <2>3, <4>1, <4>3 DEF Lists
    <3>2. CASE m.ph = 6
      <4>1. /\ now = [ph |-> 0, k |-> h + 1] /\ m.k = h + 1 /\ reader' = Reader("scan", 0)
            /\ heard' = Append(heard, <<START1, b>>)
        BY <2>9, <2>10, <2>11, <3>2
      <4>2. written[h + 1] = <<START1, b>>
        BY <2>8, <3>2, <4>1 DEF Fits
      <4> DEFINE p == <<START1, b>>
      <4> HIDE DEF p
      <4>3. /\ IsSeq(heard') /\ Len(heard') = h + 1 /\ heard'[h + 1] = p
            /\ \A i \in 1 .. h : heard'[i] = heard[i]
        BY <2>1, <2>3, <4>1, Appended DEF Lists, p
      <4>4. \A i \in 1 .. h + 1 : heard'[i] = written[i]
        BY <2>1, <2>3, <4>2, <4>3 DEF p
      <4>5. Standing(now)'
        <5>1. /\ now.ph = 0 /\ now.k = Len(heard') + 0
              /\ reader'.at = "scan" /\ reader'.len = 0 /\ reader'.got = <<>>
          BY <2>3, <4>1, <4>3 DEF Reader
        <5> QED
          BY <5>1 DEF Standing
      <4> QED
        BY <2>8, <4>1, <4>3, <4>4, <4>5
    <3> QED
      BY <3>1, <3>2
  <2>14. PICK ext : ext = [i \in 1 .. (w - 1) + 1 |-> IF i = 1 THEN now ELSE lab[i + 1]]
    OBVIOUS
  <2>15. (w - 1) + 1 = w
    BY <2>3
  <2>16. ext[1] = now /\ \A i \in 2 .. w : ext[i] = lab[i + 1] /\ i + 1 \in 1 .. w + 1
    BY <2>3, <2>14, <2>15
  <2>17. ext \in [1 .. (w - 1) + 1 -> Label]
    <3>1. \A i \in 1 .. w : i # 1 => i + 1 \in 1 .. w + 1
      BY <2>3
    <3>2. \A i \in 1 .. w : (IF i = 1 THEN now ELSE lab[i + 1]) \in Label
      BY <2>5, <2>12, <3>1
    <3> QED
      BY <2>14, <2>15, <3>2
  <2>18. ASSUME NEW i \in 1 .. w - 1
         PROVE  Follows(ext[i], ext[i + 1]) /\ Fits(wire[i], ext[i + 1])'
    <3>1. ext[i + 1] = lab[i + 2] /\ i + 1 \in 1 .. w /\ (i + 1) + 1 = i + 2
      <4>1. i + 1 \in 2 .. w /\ (i + 1) + 1 = i + 2
        BY <2>3
      <4> QED
        BY <2>16, <4>1
    <3>2. Follows(lab[i + 1], lab[i + 2]) /\ Fits(wire[i + 1], lab[i + 2])
      BY <2>5, <3>1
    <3>3. Follows(ext[i], ext[i + 1])
      <4>1. CASE i = 1
        <5>1. ext[i] = now /\ lab[i + 1] = m
          BY <2>6, <2>16, <4>1
        <5>2. Follows(m, lab[i + 2])
          BY <3>2, <5>1
        <5>3. Follows(now, lab[i + 2])
          BY <2>11, <5>2 DEF Follows
        <5> QED
          BY <3>1, <5>1, <5>3
      <4>2. CASE i # 1
        <5>1. i \in 2 .. w
          BY <2>3, <4>2
        <5> QED
          BY <2>16, <3>1, <3>2, <5>1
      <4> QED
        BY <4>1, <4>2
    <3>4. Fits(wire[i], ext[i + 1])'
      <4>1. PICK n : n = lab[i + 2]
        OBVIOUS
      <4>2. wire'[i] = wire[i + 1] /\ written' = written
        BY <1>1, <2>4
      <4>3. Fits(wire[i + 1], n)
        BY <3>2, <4>1
      <4>4. Fits(wire[i], n)'
        BY <4>2, <4>3 DEF Fits
      <4> QED
        BY <3>1, <4>1, <4>4
    <3> QED
      BY <3>3, <3>4
  <2>19. ASSUME NEW i \in 1 .. (w - 1) + 1
         PROVE  ext[i].k <= t /\ (ext[i].ph # 0 => ext[i].k > 0)
    <3>1. CASE i = 1
      BY <2>12, <2>16, <3>1
    <3>2. CASE i # 1
      <4>1. i \in 2 .. w
        BY <2>3, <3>2
      <4> QED
        BY <2>5, <2>16, <4>1
    <3> QED
      BY <3>1, <3>2
  <2>20. ext[(w - 1) + 1].ph \in {0, 6} /\ ext[(w - 1) + 1].k = t
    <3>1. CASE w = 1
      <4>1. m = lab[w + 1] /\ ext[(w - 1) + 1] = now
        BY <2>6, <2>15, <2>16, <3>1
      <4> QED
        BY <2>5, <2>11, <4>1
    <3>2. CASE w # 1
      <4>1. w \in 2 .. w
        BY <2>3, <3>2
      <4> QED
        BY <2>5, <2>15, <2>16, <4>1
    <3> QED
      BY <3>1, <3>2
  <2>21. Standing(ext[1])'
    BY <2>13, <2>16
  <2>22. HasReading(ext)'
    <3>1. Len(wire') = w - 1 /\ Len(written') = t
      BY <1>1, <2>3, <2>4
    <3> QED
      BY <2>18, <2>19, <2>20, <2>21, <3>1 DEF HasReading, Follows
  <2> QED
    BY <1>1, <2>1, <2>3, <2>4, <2>13, <2>17, <2>22 DEF Lists
<1>4. SerialInv'
  BY <1>3 DEF SerialInv
<1> QED
  BY <1>2, <1>4 DEF LinkInv

-----------------------------------------------------------------------------
(* The link *)

LEMMA LinkIdles ==
    ASSUME LinkInv,
           UNCHANGED <<transport, wire, notified, reader, written, heard, clean, silences>>
    PROVE  LinkInv'
<1>1. ReaderInv' /\ BleInv'
  BY DEF LinkInv, ReaderInv, BleInv, Lists
<1>2. ASSUME transport = "serial", clean, reader.at # "closed"
      PROVE  \E lab \in [1 .. Len(wire') + 1 -> Label] : HasReading(lab)'
  <2>1. PICK lab \in [1 .. Len(wire) + 1 -> Label] : HasReading(lab)
    BY <1>2 DEF LinkInv, SerialInv
  <2>2. HasReading(lab)'
    BY <2>1, SameLine
  <2> QED
    BY <2>1, <2>2
<1>3. SerialInv'
  BY <1>2 DEF LinkInv, SerialInv, Lists
<1> QED
  BY <1>1, <1>3 DEF LinkInv

LEMMA LinkStepKeeps == LinkInv /\ LinkStep => LinkInv'
<1> SUFFICES ASSUME LinkInv, LinkStep
             PROVE  LinkInv'
  OBVIOUS
<1>1. CASE \E b \in {0, START1} : Console(b)
  BY <1>1, ConsoleKeeps
<1>2. CASE Silence
  BY <1>2, SilenceKeeps
<1>3. CASE OpensLink
  BY <1>3, OpensLinkKeeps
<1>4. CASE Reads
  <2>1. CASE ReadsByte
    BY <2>1, ReadsByteKeeps
  <2>2. CASE Notified \/ Polls
    BY <2>2, DrainBeginsKeeps
  <2>3. CASE DrainsOne
    BY <2>3, DrainsOneKeeps
  <2>4. CASE HandsOn
    BY <2>4, HandsOnKeeps
  <2> QED
    BY <1>4, <2>1, <2>2, <2>3, <2>4 DEF Reads
<1>5. CASE ReadFails
  BY <1>5, ReadFailsKeeps
<1>6. CASE Disconnect
  BY <1>6, DisconnectKeeps
<1> QED
  BY <1>1, <1>2, <1>3, <1>4, <1>5, <1>6 DEF LinkStep

LEMMA LinkNextKeeps == LinkInv /\ [LinkNext]_lvars => LinkInv'
<1> SUFFICES ASSUME LinkInv, [LinkNext]_lvars
             PROVE  LinkInv'
  OBVIOUS
<1>1. CASE Begins \/ Drives \/ (\E f \in Frees : Reports(f)) \/ UNCHANGED lvars
  <2>1. UNCHANGED link
    BY <1>1 DEF Begins, Drives, Reports, lvars
  <2> QED
    BY <2>1, LinkIdles DEF link
<1>2. CASE AirCarries
  <2>1. CASE RadioSays(Head(air))
    BY <2>1, WritesFrameKeeps, QueuesFrameKeeps DEF RadioSays
  <2>2. CASE UNCHANGED <<transport, wire, notified, reader, written, heard, clean, silences>>
    BY <2>2, LinkIdles
  <2> QED
    BY <1>2, <2>1, <2>2 DEF AirCarries
<1>3. CASE Reading
  BY <1>3, LinkStepKeeps DEF Reading
<1> QED
  BY <1>1, <1>2, <1>3 DEF LinkNext

\* Whatever the radio writes and however often its line loses a byte, a read
\* fails or the console speaks: while the link is in step the host is handed
\* what the radio wrote, whole, once and in order (serial.rs, read_frame;
\* ble.rs, drain_from_radio).
THEOREM LinkCorrect == LinkSpec => []LinkTruthful
<1>1. LinkSpecInit => LinkInv
  BY LinkStart DEF LinkSpecInit
<1>2. LinkInv /\ [LinkNext]_lvars => LinkInv'
  BY LinkNextKeeps
<1>3. LinkInv => LinkTruthful
  BY LinkInvTells
<1> QED
  BY <1>1, <1>2, <1>3, PTL DEF LinkSpec

-----------------------------------------------------------------------------
(* Framing: for any length, preset, destination and FEC mode *)

ChunkSizes == {48, 96, 160, 199, 215}

LEMMA Sizes ==
    ASSUME NEW p
    PROVE  recommended_chunk_size(p) \in ChunkSizes
<1>1. CASE p \in {"ShortSlow", "MediumFast"}
  BY <1>1 DEF recommended_chunk_size, ChunkSizes
<1>2. CASE p = "MediumSlow"
  BY <1>2 DEF recommended_chunk_size, ChunkSizes
<1>3. CASE p = "LongFast"
  BY <1>3 DEF recommended_chunk_size, ChunkSizes, MAX_BODY_SIZE
<1>4. CASE p \in {"LongModerate", "LongSlow", "VeryLongSlow"}
  BY <1>4 DEF recommended_chunk_size, ChunkSizes
<1>5. CASE p \notin {"ShortSlow", "MediumFast", "MediumSlow", "LongFast",
                     "LongModerate", "LongSlow", "VeryLongSlow"}
  BY <1>5 DEF recommended_chunk_size, ChunkSizes, MAX_BODY_SIZE
<1> QED
  BY <1>1, <1>2, <1>3, <1>4, <1>5

\* The chunks of a payload: all full but the last, which is not empty.
LastBody(len, size, total) == len - size * (total - 1)

LEMMA Cuts ==
    ASSUME NEW len \in Nat, NEW size \in ChunkSizes
    PROVE  /\ div_ceil(len, size) \in Nat
           /\ div_ceil(len, size) = 0 <=> len = 0
           /\ len # 0 => LastBody(len, size, div_ceil(len, size)) \in 1 .. size
<1>1. CASE size = 48
  BY <1>1 DEF div_ceil, LastBody
<1>2. CASE size = 96
  BY <1>2 DEF div_ceil, LastBody
<1>3. CASE size = 160
  BY <1>3 DEF div_ceil, LastBody
<1>4. CASE size = 199
  BY <1>4 DEF div_ceil, LastBody
<1>5. CASE size = 215
  BY <1>5 DEF div_ceil, LastBody
<1> QED
  BY <1>1, <1>2, <1>3, <1>4, <1>5 DEF ChunkSizes

LEMMA SmallestOfFive ==
    ASSUME NEW a \in Nat, NEW b \in Nat, NEW c \in Nat, NEW d \in Nat, NEW e \in Nat,
           NEW s, s = Smallest({a, b, c, d, e})
    PROVE  s \in Nat /\ s <= a /\ s <= b /\ s <= c /\ s <= d /\ s <= e
<1>1. \E x \in {a, b, c, d, e} : \A y \in {a, b, c, d, e} : x <= y
  OBVIOUS
<1>2. s \in {a, b, c, d, e} /\ \A y \in {a, b, c, d, e} : s <= y
  BY <1>1 DEF Smallest
<1> QED
  BY <1>2

\* The parity resolved for a message never asks for more shards than the
\* coder has.
LEMMA ParityFits ==
    ASSUME NEW mode, NEW broadcast \in BOOLEAN, NEW p, NEW total \in Nat \ {0}
    PROVE  LET parity == resolve(mode, broadcast, p, total)
           IN  /\ parity \in 0 .. MAX_PARITY_PER_MESSAGE
               /\ total <= MAX_CHUNKS_PER_MESSAGE => total + parity <= MAX_TOTAL_SHARDS
<1> DEFINE percent == FecPercent(mode, broadcast, p)
<1>1. percent \in {0, 10, 20, 25, 33, 50}
  <2>1. CASE mode = "off"
    BY <2>1 DEF FecPercent
  <2>2. CASE mode = "light"
    BY <2>2 DEF FecPercent
  <2>3. CASE mode = "medium"
    BY <2>3 DEF FecPercent
  <2>4. CASE mode = "heavy" \/ (mode = "auto" /\ broadcast)
    BY <2>4 DEF FecPercent
  <2>5. CASE /\ mode \notin {"off", "light", "medium", "heavy"}
             /\ ~(mode = "auto" /\ broadcast)
    <3>1. CASE p \in {"LongFast", "LongModerate", "LongSlow", "VeryLongSlow"}
      BY <2>5, <3>1 DEF FecPercent
    <3>2. CASE p \in {"ShortTurbo", "ShortFast", "ShortSlow"}
      BY <2>5, <3>2 DEF FecPercent
    <3>3. CASE p \notin {"LongFast", "LongModerate", "LongSlow", "VeryLongSlow",
                         "ShortTurbo", "ShortFast", "ShortSlow"}
      BY <2>5, <3>3 DEF FecPercent
    <3> QED
      BY <3>1, <3>2, <3>3
  <2> QED
    BY <2>1, <2>2, <2>3, <2>4, <2>5
<1> HIDE DEF percent
<1>2. total * percent \in Nat
  BY <1>1 DEF MAX_CHUNKS_PER_MESSAGE
<1>3. PICK share : share = div_ceil(total * percent, 100)
  OBVIOUS
<1>4. share \in Nat
  BY <1>2, <1>3 DEF div_ceil
<1>5. PICK room : room = IF total < MAX_TOTAL_SHARDS THEN MAX_TOTAL_SHARDS - total ELSE 0
  OBVIOUS
<1>6. room \in Nat /\ (total <= MAX_CHUNKS_PER_MESSAGE => total + room = MAX_TOTAL_SHARDS)
  BY <1>5 DEF MAX_CHUNKS_PER_MESSAGE, MAX_TOTAL_SHARDS
<1>7. PICK parity : parity = resolve(mode, broadcast, p, total)
  OBVIOUS
<1>8. parity = Smallest({share, total, MAX_PARITY_PER_MESSAGE, 255, room})
  BY <1>3, <1>5, <1>7 DEF resolve, percent
<1>9. /\ total \in Nat /\ MAX_PARITY_PER_MESSAGE \in Nat /\ MAX_TOTAL_SHARDS \in Nat
  BY DEF MAX_CHUNKS_PER_MESSAGE, MAX_PARITY_PER_MESSAGE, MAX_TOTAL_SHARDS
<1>10. /\ parity \in Nat
       /\ parity <= MAX_PARITY_PER_MESSAGE /\ parity <= room
  BY <1>4, <1>6, <1>8, <1>9, SmallestOfFive
<1>11. total + parity <= total + room
  BY <1>6, <1>9, <1>10
<1> QED
  BY <1>6, <1>7, <1>9, <1>10, <1>11

-----------------------------------------------------------------------------
(* Parsing *)

\* Headers a parser takes.
Header(h) ==
    /\ h.type \in PacketType
    /\ h.id \in Nat \ {0} /\ h.total \in 1 .. MAX_CHUNKS_PER_MESSAGE
    /\ h.parity \in 0 .. MAX_PARITY_PER_MESSAGE /\ h.idx \in Nat
    /\ h.type = "data" => h.idx < h.total
    /\ h.type = "parity" => h.idx < h.parity
    /\ h.type = "nack" => h.idx = 0

LEMMA ParsesBack ==
    ASSUME NEW h, Header(h), NEW body \in 0 .. MAX_BODY_SIZE
    PROVE  parse(serialize(h, body)) =
               Ok([type |-> h.type, last |-> h.last, id |-> h.id, codec |-> h.codec,
                   param |-> h.param, seq |-> h.seq, idx |-> h.idx, total |-> h.total,
                   parity |-> h.parity, body |-> body])
<1>1. PICK l : l = write_logical(h)
  OBVIOUS
<1>2. /\ l.version = PROTOCOL_VERSION /\ l.reserved = 0 /\ l.last = h.last /\ l.id = h.id
      /\ l.codec = h.codec /\ l.param = h.param /\ l.seq = h.seq /\ l.idx = h.idx
      /\ l.total = h.total /\ l.parity = h.parity /\ l.bits = to_bits(h.type)
  BY <1>1 DEF write_logical
<1>3. PICK f : f = serialize(h, body)
  OBVIOUS
<1>4. f.logical = l /\ f.tag = l /\ f.len = HEADER_SIZE + body
  BY <1>1, <1>3 DEF serialize, compute_tag
<1>5. PICK type : type = CASE l.bits = 0 -> "data" [] l.bits = 1 -> "parity" [] l.bits = 2 -> "nack"
  OBVIOUS
<1>6. type = h.type
  <2>1. CASE h.type = "data"
    BY <1>2, <1>5, <2>1 DEF to_bits
  <2>2. CASE h.type = "parity"
    BY <1>2, <1>5, <2>2 DEF to_bits
  <2>3. CASE h.type = "nack"
    BY <1>2, <1>5, <2>3 DEF to_bits
  <2> QED
    BY <2>1, <2>2, <2>3 DEF Header, PacketType
<1>7. l.bits \in {0, 1, 2}
  <2>1. CASE h.type = "data"
    BY <1>2, <2>1 DEF to_bits
  <2>2. CASE h.type = "parity"
    BY <1>2, <2>2 DEF to_bits
  <2>3. CASE h.type = "nack"
    BY <1>2, <2>3 DEF to_bits
  <2> QED
    BY <2>1, <2>2, <2>3 DEF Header, PacketType
<1>8. /\ ~(f.len < HEADER_SIZE) /\ ~(f.len > MAX_PACKET_SIZE) /\ f.len - HEADER_SIZE = body
  BY <1>4 DEF HEADER_SIZE, MAX_PACKET_SIZE, MAX_BODY_SIZE
<1>9. /\ l.bits # 3 /\ l.id # 0 /\ l.total # 0 /\ ~(l.parity > MAX_PARITY_PER_MESSAGE)
      /\ ~(type = "nack" /\ l.idx # 0)
  BY <1>2, <1>6, <1>7 DEF Header, MAX_CHUNKS_PER_MESSAGE, MAX_PARITY_PER_MESSAGE
<1>10. ~BadIndex(type, l)
  <2>1. CASE type = "data"
    BY <1>2, <1>6, <2>1 DEF Header, BadIndex, MAX_CHUNKS_PER_MESSAGE
  <2>2. CASE type = "parity"
    BY <1>2, <1>6, <2>2 DEF Header, BadIndex, MAX_PARITY_PER_MESSAGE
  <2>3. CASE type \notin {"data", "parity"}
    BY <2>3 DEF BadIndex
  <2> QED
    BY <2>1, <2>2, <2>3
<1>11. f.tag = compute_tag(l)
  BY <1>4 DEF compute_tag
<1>12. parse(f) = Ok([type |-> type, last |-> l.last, id |-> l.id, codec |-> l.codec,
                      param |-> l.param, seq |-> l.seq, idx |-> l.idx,
                      total |-> l.total, parity |-> l.parity, body |-> f.len - HEADER_SIZE])
  BY <1>2, <1>4, <1>5, <1>8, <1>9, <1>10, <1>11 DEF parse
<1> QED
  BY <1>2, <1>3, <1>6, <1>8, <1>12

-----------------------------------------------------------------------------
(* NACKs *)

\* Each chunk has a bit of its own.
LEMMA BitsDiffer ==
    ASSUME NEW i \in Nat, NEW j \in Nat, BitOf(i) = BitOf(j)
    PROVE  i = j
<1>1. i \div 8 = j \div 8 /\ i % 8 = j % 8
  BY DEF BitOf
<1> QED
  BY <1>1

\* A sender reads from a NACK the chunks that its maker was missing.
DataHeader(first) ==
    [type |-> "data", last |-> first.last, id |-> first.id, codec |-> first.codec,
     param |-> first.param, seq |-> first.seq, idx |-> first.idx, total |-> first.total,
     parity |-> first.parity]

NackRead(h, missing) ==
    LET nack == build_nack(h, missing, FALSE)
        head == parse(nack.frame)
        back == parse_nack_body(head.value, nack)
    IN  head.ok /\ back.ok /\ back.value.missing = missing

LEMMA NackNames ==
    ASSUME NEW first, first.id \in Nat \ {0}, NEW total, total = first.total,
           total \in 1 .. MAX_CHUNKS_PER_MESSAGE,
           first.parity \in 0 .. MAX_PARITY_PER_MESSAGE, NEW missing \in SUBSET (0 .. total - 1)
    PROVE  NackRead(DataHeader(first), missing)
<1>1. PICK h : h = DataHeader(first)
  OBVIOUS
<1>2. PICK n : n = [h EXCEPT !.type = "nack", !.last = FALSE, !.idx = 0]
  OBVIOUS
<1>3. /\ n.type = "nack" /\ n.id = first.id /\ n.idx = 0 /\ n.total = total
      /\ n.parity = first.parity /\ h.total = total
  BY <1>1, <1>2 DEF DataHeader
<1>4. Header(n)
  BY <1>3 DEF Header, PacketType
<1>5. PICK body : body = 2 + bitmap_len(total)
  OBVIOUS
<1>6. body \in 0 .. MAX_BODY_SIZE
  BY <1>5 DEF bitmap_len, div_ceil, MAX_BODY_SIZE, MAX_CHUNKS_PER_MESSAGE
<1>7. PICK nack : nack = build_nack(h, missing, FALSE)
  OBVIOUS
<1>8. /\ nack.frame = serialize(n, body) /\ nack.version = 1
      /\ nack.bits = { BitOf(i) : i \in { j \in missing : j < total } }
  BY <1>2, <1>3, <1>5, <1>7 DEF build_nack
<1>9. PICK head : head = parse(nack.frame)
  OBVIOUS
<1>10. head = Ok([type |-> n.type, last |-> n.last, id |-> n.id, codec |-> n.codec,
                 param |-> n.param, seq |-> n.seq, idx |-> n.idx, total |-> n.total,
                 parity |-> n.parity, body |-> body])
  BY <1>4, <1>6, <1>8, <1>9, ParsesBack
<1>11. head.ok /\ head.value.body = body /\ head.value.total = total
  BY <1>3, <1>10 DEF Ok
<1>12. PICK back : back = parse_nack_body(head.value, nack)
  OBVIOUS
<1>13. /\ ~(head.value.body < 2 + bitmap_len(head.value.total))
       /\ ~(nack.version # 1)
  BY <1>5, <1>6, <1>8, <1>11 DEF MAX_BODY_SIZE
<1>14. back.ok /\ back.value.missing = { i \in 0 .. total - 1 : BitOf(i) \in nack.bits }
  BY <1>11, <1>12, <1>13 DEF parse_nack_body, Ok
<1>15. ASSUME NEW i \in 0 .. total - 1
       PROVE  BitOf(i) \in nack.bits <=> i \in missing
  <2>1. ASSUME i \in missing
        PROVE  BitOf(i) \in nack.bits
    BY <1>8, <2>1 DEF MAX_CHUNKS_PER_MESSAGE
  <2>2. ASSUME BitOf(i) \in nack.bits
        PROVE  i \in missing
    <3>1. PICK j \in missing : BitOf(i) = BitOf(j)
      BY <1>8, <2>2
    <3>2. i \in Nat /\ j \in Nat
      OBVIOUS
    <3>3. i = j
      BY <3>1, <3>2, BitsDiffer
    <3> QED
      BY <3>3
  <2> QED
    BY <2>1, <2>2
<1>16. { i \in 0 .. total - 1 : BitOf(i) \in nack.bits } = missing
  BY <1>15
<1> QED
  BY <1>1, <1>7, <1>9, <1>11, <1>12, <1>14, <1>16 DEF NackRead

-----------------------------------------------------------------------------
(* Messages *)

\* A parser takes each frame of a message for the chunk it is.
FrameRead(head, id, size, total, parity, tail, i) ==
    /\ head.ok /\ head.value.total = total /\ head.value.parity = parity /\ head.value.id = id
    /\ head.value.last <=> i = total + parity - 1
    /\ IF i < total
       THEN /\ head.value.type = "data" /\ head.value.idx = i
            /\ head.value.body = IF i < total - 1 THEN size ELSE tail
       ELSE /\ head.value.type = "parity" /\ head.value.idx = i - total
            /\ head.value.body = size

LEMMA FrameParses ==
    ASSUME NEW len \in Nat, NEW cfg, NEW size \in 1 .. MAX_BODY_SIZE, cfg.chunk_size = size,
           cfg.last = TRUE, cfg.id \in Nat \ {0}, NEW parity \in 0 .. MAX_PARITY_PER_MESSAGE,
           cfg.parity = parity, NEW total \in 1 .. MAX_CHUNKS_PER_MESSAGE,
           total + parity <= MAX_TOTAL_SHARDS, NEW tail \in 1 .. size,
           tail = LastBody(len, size, total), NEW i \in 0 .. total + parity - 1
    PROVE  FrameRead(parse(FrameOf(i, len, cfg, total)), cfg.id, size, total, parity, tail, i)
<1>1. i % 256 = i /\ i \in 0 .. 255
  BY DEF MAX_TOTAL_SHARDS, MAX_CHUNKS_PER_MESSAGE, MAX_PARITY_PER_MESSAGE
<1>2. PICK h : h = [type |-> IF i < total THEN "data" ELSE "parity",
                    last |-> cfg.last /\ i = total + cfg.parity - 1,
                    id |-> cfg.id, codec |-> cfg.codec, param |-> cfg.param, seq |-> cfg.seq,
                    idx |-> IF i < total THEN i ELSE i - total,
                    total |-> total, parity |-> cfg.parity]
  OBVIOUS
<1>3. PICK body : body = IF i = total - 1 THEN tail ELSE size
  OBVIOUS
<1>4. FrameOf(i, len, cfg, total) = serialize(h, body)
  <2>1. U8(i) = i
    BY <1>1 DEF U8
  <2>2. i < total => U8(i) = i
    BY <2>1
  <2>3. ~(i < total) => U8(i - total) = i - total
    BY <1>1 DEF U8, MAX_CHUNKS_PER_MESSAGE
  <2>4. U8(IF i < total THEN i ELSE i - total) = IF i < total THEN i ELSE i - total
    BY <2>2, <2>3
  <2> QED
    BY <1>2, <1>3, <2>1, <2>4 DEF FrameOf, LastBody
<1>5. /\ h.type = (IF i < total THEN "data" ELSE "parity") /\ h.id = cfg.id
      /\ h.last = (i = total + parity - 1) /\ h.total = total /\ h.parity = parity
      /\ h.idx = IF i < total THEN i ELSE i - total
  BY <1>2
<1>6. Header(h)
  BY <1>1, <1>5 DEF Header, PacketType, MAX_CHUNKS_PER_MESSAGE, MAX_PARITY_PER_MESSAGE
<1>7. body \in 0 .. MAX_BODY_SIZE
  BY <1>3 DEF MAX_BODY_SIZE
<1>8. PICK head : head = parse(FrameOf(i, len, cfg, total))
  OBVIOUS
<1>9. head = Ok([type |-> h.type, last |-> h.last, id |-> h.id, codec |-> h.codec,
                 param |-> h.param, seq |-> h.seq, idx |-> h.idx, total |-> h.total,
                 parity |-> h.parity, body |-> body])
  BY <1>4, <1>6, <1>7, <1>8, ParsesBack
<1>10. /\ head.ok /\ head.value.type = h.type /\ head.value.last = h.last
       /\ head.value.id = h.id /\ head.value.idx = h.idx /\ head.value.total = h.total
       /\ head.value.parity = h.parity /\ head.value.body = body
  BY <1>9 DEF Ok
<1>11. i < total /\ i # total - 1 <=> i < total - 1
  BY DEF MAX_CHUNKS_PER_MESSAGE
<1>12. IF i < total
       THEN /\ head.value.type = "data" /\ head.value.idx = i
            /\ head.value.body = IF i < total - 1 THEN size ELSE tail
       ELSE head.value.type = "parity" /\ head.value.idx = i - total /\ head.value.body = size
  <2>1. CASE i < total
    BY <1>3, <1>5, <1>10, <1>11, <2>1
  <2>2. CASE ~(i < total)
    <3>1. i # total - 1
      BY <2>2 DEF MAX_CHUNKS_PER_MESSAGE
    <3> QED
      BY <1>3, <1>5, <1>10, <2>2, <3>1
  <2> QED
    BY <2>1, <2>2
<1> QED
  BY <1>5, <1>8, <1>10, <1>12 DEF FrameRead

\* What prepare_voice_send makes of a payload.
Framed(value, r, cfg, size, chunks, parity) ==
    /\ cfg.chunk_size = size /\ cfg.last = TRUE /\ cfg.id \in Nat \ {0}
    /\ cfg.parity = parity /\ chunks + parity <= MAX_TOTAL_SHARDS
    /\ value = [total_data |-> chunks, parity_count |-> parity,
                frames |-> [i \in 1 .. chunks + parity |-> FrameOf(i - 1, r.len, cfg, chunks)]]

LEMMA Prepares ==
    ASSUME NEW r, r.len \in Nat, r.drawn \in Nat, r.broadcast \in BOOLEAN,
           NEW size, size = recommended_chunk_size(r.preset),
           NEW chunks, chunks = div_ceil(r.len, size)
    PROVE  /\ Prepared(r).ok <=> chunks \in 1 .. MAX_CHUNKS_PER_MESSAGE
           /\ chunks \in 1 .. MAX_CHUNKS_PER_MESSAGE =>
                \E parity \in 0 .. MAX_PARITY_PER_MESSAGE : \E cfg :
                    Framed(Prepared(r).value, r, cfg, size, chunks, parity)
<1>1. size \in ChunkSizes
  BY Sizes
<1>2. chunks \in Nat /\ (chunks = 0 <=> r.len = 0)
  BY <1>1, Cuts
<1>3. PICK parity : parity = resolve(r.mode, r.broadcast, r.preset, IF chunks = 0 THEN 1 ELSE chunks)
  OBVIOUS
<1>4. PICK cfg : cfg = [id |-> random_message_id(r.drawn), seq |-> 0, codec |-> 0, param |-> 0,
                        chunk_size |-> size, last |-> TRUE, parity |-> parity]
  OBVIOUS
<1>5. /\ cfg.chunk_size = size /\ cfg.last = TRUE /\ cfg.parity = parity
      /\ cfg.id \in Nat \ {0}
  BY <1>4 DEF random_message_id
<1>6. Prepared(r) = build_message(r.len, cfg)
  BY <1>3, <1>4 DEF Prepared, prepare_voice_send
<1>7. ~(cfg.chunk_size < MIN_CHUNK_SIZE) /\ ~(cfg.chunk_size > MAX_BODY_SIZE)
  BY <1>1, <1>5 DEF MIN_CHUNK_SIZE, MAX_BODY_SIZE, ChunkSizes
<1>8. PICK sent : sent = Prepared(r)
  OBVIOUS
<1>9. CASE chunks = 0
  <2>1. div_ceil(r.len, cfg.chunk_size) = chunks /\ r.len = 0
    BY <1>2, <1>5, <1>9
  <2>2. parity = resolve(r.mode, r.broadcast, r.preset, 1) /\ 1 \in Nat \ {0}
    BY <1>3, <1>9
  <2>3. parity \in 0 .. MAX_PARITY_PER_MESSAGE
    BY <2>2, ParityFits
  <2>4. ~(cfg.parity > MAX_PARITY_PER_MESSAGE) /\ ~(chunks + cfg.parity > MAX_TOTAL_SHARDS)
        /\ ~(chunks > MAX_CHUNKS_PER_MESSAGE)
    BY <1>5, <1>9, <2>3 DEF MAX_PARITY_PER_MESSAGE, MAX_TOTAL_SHARDS, MAX_CHUNKS_PER_MESSAGE
  <2>5. sent = Err("TooShort")
    BY <1>6, <1>7, <1>8, <2>1, <2>4 DEF build_message
  <2>6. chunks \notin 1 .. MAX_CHUNKS_PER_MESSAGE
    BY <1>9
  <2> QED
    BY <1>8, <2>5, <2>6 DEF Err
<1>10. CASE chunks > MAX_CHUNKS_PER_MESSAGE
  <2>1. div_ceil(r.len, cfg.chunk_size) = chunks /\ r.len # 0
    BY <1>2, <1>5, <1>10 DEF MAX_CHUNKS_PER_MESSAGE
  <2>2. sent \in {Err("AudioTooLarge"), Err("TooMuchParity"), Err("TooManyShards")}
    BY <1>6, <1>7, <1>8, <1>10, <2>1 DEF build_message
  <2>3. chunks \notin 1 .. MAX_CHUNKS_PER_MESSAGE
    BY <1>2, <1>10 DEF MAX_CHUNKS_PER_MESSAGE
  <2> QED
    BY <1>8, <2>2, <2>3 DEF Err
<1>11. CASE chunks \in 1 .. MAX_CHUNKS_PER_MESSAGE
  <2>1. chunks # 0 /\ ~(chunks > MAX_CHUNKS_PER_MESSAGE)
    BY <1>11 DEF MAX_CHUNKS_PER_MESSAGE
  <2>2. parity = resolve(r.mode, r.broadcast, r.preset, chunks)
    BY <1>3, <2>1
  <2>3. parity \in 0 .. MAX_PARITY_PER_MESSAGE /\ chunks + parity <= MAX_TOTAL_SHARDS
    <3>1. chunks \in Nat \ {0} /\ chunks <= MAX_CHUNKS_PER_MESSAGE
      BY <1>11 DEF MAX_CHUNKS_PER_MESSAGE
    <3> QED
      BY <2>2, <3>1, ParityFits
  <2>4. ~(cfg.parity > MAX_PARITY_PER_MESSAGE) /\ ~(chunks + cfg.parity > MAX_TOTAL_SHARDS)
    BY <1>2, <1>5, <2>3 DEF MAX_PARITY_PER_MESSAGE, MAX_TOTAL_SHARDS
  <2>5. div_ceil(r.len, cfg.chunk_size) = chunks /\ r.len # 0
    BY <1>2, <1>5, <2>1
  <2>6. sent = Ok([total_data |-> chunks, parity_count |-> cfg.parity,
                   frames |-> [i \in 1 .. chunks + cfg.parity |->
                                  FrameOf(i - 1, r.len, cfg, chunks)]])
    BY <1>6, <1>7, <1>8, <2>1, <2>4, <2>5 DEF build_message
  <2>7. /\ sent.ok
        /\ sent.value = [total_data |-> chunks, parity_count |-> cfg.parity,
                         frames |-> [i \in 1 .. chunks + cfg.parity |->
                                        FrameOf(i - 1, r.len, cfg, chunks)]]
    BY <2>6 DEF Ok
  <2>8. Framed(sent.value, r, cfg, size, chunks, parity)
    BY <1>5, <2>3, <2>7 DEF Framed
  <2> QED
    BY <1>8, <1>11, <2>3, <2>7, <2>8
<1> QED
  BY <1>2, <1>9, <1>10, <1>11 DEF MAX_CHUNKS_PER_MESSAGE

LEMMA ClipSurvives ==
    ASSUME NEW r, r.len \in Nat, r.drawn \in Nat, r.broadcast \in BOOLEAN
    PROVE  LET sent == Prepared(r)
               size == recommended_chunk_size(r.preset)
               chunks == div_ceil(r.len, size)
           IN  /\ sent.ok <=> chunks \in 1 .. MAX_CHUNKS_PER_MESSAGE
               /\ sent.ok => Survives(sent.value, r, size, chunks)
<1> DEFINE sent == Prepared(r)
           size == recommended_chunk_size(r.preset)
           chunks == div_ceil(r.len, size)
<1>1. size = recommended_chunk_size(r.preset)
  OBVIOUS
<1>2. chunks = div_ceil(r.len, size)
  OBVIOUS
<1>3. sent = Prepared(r)
  OBVIOUS
<1> HIDE DEF sent, size, chunks
<1>4. sent.ok <=> chunks \in 1 .. MAX_CHUNKS_PER_MESSAGE
  BY <1>1, <1>2, <1>3, Prepares
<1>5. ASSUME sent.ok
      PROVE  Survives(sent.value, r, size, chunks)
  <2>1. chunks \in 1 .. MAX_CHUNKS_PER_MESSAGE /\ chunks \in 1 .. 255
    BY <1>4, <1>5 DEF MAX_CHUNKS_PER_MESSAGE
  <2>0. PICK parity \in 0 .. MAX_PARITY_PER_MESSAGE : \E cfg :
          Framed(sent.value, r, cfg, size, chunks, parity)
    BY <1>1, <1>2, <1>3, <2>1, Prepares
  <2>2. PICK cfg : Framed(sent.value, r, cfg, size, chunks, parity)
    BY <2>0
  <2>3. PICK tail : tail = LastBody(r.len, size, chunks)
    OBVIOUS
  <2>4. size \in ChunkSizes /\ size \in 1 .. MAX_BODY_SIZE
    BY <1>1, Sizes DEF MAX_BODY_SIZE, ChunkSizes
  <2>5. tail \in 1 .. size
    <3>1. r.len # 0
      BY <1>2, <2>1, <2>4, Cuts
    <3> QED
      BY <1>2, <2>3, <2>4, <3>1, Cuts
  <2>6. PICK n : n = chunks + parity /\ n \in Nat
    BY <2>1 DEF MAX_PARITY_PER_MESSAGE
  <2>7. PICK heads : heads = [i \in 1 .. n |-> parse(sent.value.frames[i])]
    OBVIOUS
  <2>8. /\ DOMAIN sent.value.frames = 1 .. n
        /\ \A i \in 1 .. n : sent.value.frames[i] = FrameOf(i - 1, r.len, cfg, chunks)
    BY <2>2, <2>6 DEF Framed
  <2>9. heads = [i \in DOMAIN sent.value.frames |-> parse(sent.value.frames[i])]
    BY <2>7, <2>8
  <2>10. Len(heads) = n /\ DOMAIN heads = 1 .. n
    BY <2>6, <2>7
  <2>11. ASSUME NEW i \in 1 .. n
         PROVE  LET h == heads[i].value
                IN  /\ heads[i].ok /\ h.total = chunks /\ h.id # 0 /\ h.id = cfg.id
                    /\ h.parity = parity
                    /\ h.last <=> i = n
                    /\ IF i <= chunks
                       THEN /\ h.type = "data" /\ h.idx = i - 1
                            /\ h.body = IF i < chunks THEN size ELSE tail
                       ELSE h.type = "parity" /\ h.idx = i - 1 - chunks /\ h.body = size
    <3>1. PICK j : j = i - 1
      OBVIOUS
    <3>2. /\ j \in 0 .. chunks + parity - 1 /\ (j < chunks <=> i <= chunks)
          /\ (j < chunks - 1 <=> i < chunks) /\ j - chunks = i - 1 - chunks
          /\ (j = chunks + parity - 1 <=> i = n)
      BY <2>1, <2>6, <3>1 DEF MAX_PARITY_PER_MESSAGE
    <3>3. heads[i] = parse(FrameOf(j, r.len, cfg, chunks))
      BY <2>7, <2>8, <3>1
    <3>4. FrameRead(heads[i], cfg.id, size, chunks, parity, tail, j)
      <4>1. /\ cfg.chunk_size = size /\ cfg.last = TRUE /\ cfg.id \in Nat \ {0}
            /\ cfg.parity = parity /\ chunks + parity <= MAX_TOTAL_SHARDS
        BY <2>2 DEF Framed
      <4> QED
        BY <2>1, <2>3, <2>4, <2>5, <3>2, <3>3, <4>1, FrameParses
    <3> cfg.id # 0
      BY <2>2 DEF Framed
    <3>5. CASE i <= chunks
      BY <3>1, <3>2, <3>4, <3>5 DEF FrameRead
    <3>6. CASE ~(i <= chunks)
      BY <3>1, <3>2, <3>4, <3>6 DEF FrameRead
    <3> QED
      BY <3>5, <3>6
  <2>12. ASSUME NEW m \in Misses(chunks)
         PROVE  LET first == heads[1].value
                    nack == build_nack([type |-> "data", last |-> first.last,
                                id |-> first.id, codec |-> first.codec,
                                param |-> first.param, seq |-> first.seq,
                                idx |-> first.idx, total |-> first.total,
                                parity |-> first.parity], m, FALSE)
                    head == parse(nack.frame)
                    back == parse_nack_body(head.value, nack)
                IN  head.ok /\ back.ok /\ back.value.missing = m
    <3>1. m \in SUBSET (0 .. chunks - 1)
      BY <2>1 DEF Misses
    <3>2. PICK first : first = heads[1].value
      OBVIOUS
    <3>3. 1 \in 1 .. n
      BY <2>1, <2>6 DEF MAX_PARITY_PER_MESSAGE
    <3>4. first.total = chunks /\ first.id = cfg.id /\ first.parity = parity
      BY <2>11, <3>2, <3>3
    <3>5. /\ first.id \in Nat \ {0} /\ chunks = first.total
          /\ first.parity \in 0 .. MAX_PARITY_PER_MESSAGE
      BY <2>2, <3>4 DEF Framed
    <3>6. NackRead(DataHeader(first), m)
      BY <2>1, <3>1, <3>5, NackNames
    <3> QED
      BY <3>2, <3>6 DEF NackRead, DataHeader
  <2>13. sent.value.total_data = chunks
    BY <2>2 DEF Framed
  <2> QED
    BY <2>3, <2>9, <2>10, <2>11, <2>12, <2>13 DEF LastBody, Survives
<1> QED
  BY <1>4, <1>5 DEF sent, size, chunks

ClipInv == clip.at = "asked" => clip.request \in Requests

LEMMA ClipAsked == LinkSpec => []ClipInv
<1>1. LinkSpecInit => ClipInv
  BY DEF LinkSpecInit, ClipInv
<1>2. ClipInv /\ [LinkNext]_lvars => ClipInv'
  BY DEF ClipInv, LinkNext, Begins, Drives, Reports, AirCarries, Reading, lvars
<1> QED
  BY <1>1, <1>2, PTL DEF LinkSpec

\* Whatever is recorded, whatever the preset, the destination, the FEC mode
\* and the id drawn: a clip of up to 255 chunks is framed and a longer one
\* refused, the receiver's parser takes each frame for the chunk it is, and a
\* NACK names to the sender the chunks that were missing (send_prep.rs,
\* prepare_voice_send; settings/api.rs, resolve; header.rs, parse; nack.rs).
THEOREM FramesCorrect == LinkSpec => []FramesSurvive
<1>1. ClipInv => FramesSurvive
  BY RequestsAssumption, ClipSurvives DEF ClipInv, FramesSurvive
<1> QED
  BY <1>1, ClipAsked, PTL

-----------------------------------------------------------------------------
(* Induction *)

\* A nonempty set of naturals has a least element: the intervals below its
\* elements are finite sets, and these are well-founded.
LEMMA LeastOf ==
    ASSUME NEW T \in SUBSET Nat, T # {}
    PROVE  \E n \in T : \A m \in T : n <= m
<1> DEFINE Below(n) == 0 .. n - 1
           R == StrictSubsetOrdering(Nat)
           I == { Below(n) : n \in T }
<1>1. \A n \in T : Below(n) \in FiniteSubsetsOf(Nat)
  BY FS_Interval DEF FiniteSubsetsOf
<1>2. I \subseteq FiniteSubsetsOf(Nat) /\ I # {}
  BY <1>1
<1>3. IsWellFoundedOn(R, FiniteSubsetsOf(Nat))
  BY FS_StrictSubsetOrderingWellFounded
<1>4. PICK x \in I : \A y \in I : ~ (<<y, x>> \in R)
  <2> HIDE DEF I, R
  <2> QED
    BY <1>2, <1>3, WFMin
<1>5. PICK n \in T : x = Below(n)
  OBVIOUS
<1>6. ASSUME NEW m \in T, m < n
      PROVE  FALSE
  <2>1. Below(m) \subseteq Below(n) /\ Below(m) # Below(n)
    <3>1. m \in Below(n) /\ m \notin Below(m)
      BY <1>6
    <3> QED
      BY <1>6, <3>1
  <2>2. Below(m) \in SUBSET Nat /\ Below(n) \in SUBSET Nat
    OBVIOUS
  <2>3. <<Below(m), Below(n)>> \in R
    <3> HIDE DEF Below
    <3> QED
      BY <2>1, <2>2 DEF StrictSubsetOrdering
  <2> QED
    BY <1>4, <1>5, <2>3
<1> QED
  BY <1>6

\* So what holds of 0 and passes from each number to the next holds of all.
LEMMA Induction ==
    ASSUME NEW T, 0 \in T, \A n \in Nat : n \in T => n + 1 \in T
    PROVE  Nat \subseteq T
<1> SUFFICES ASSUME Nat \ T # {}
             PROVE  FALSE
  OBVIOUS
<1>1. PICK n \in Nat \ T : \A m \in Nat \ T : n <= m
  BY LeastOf
<1>2. n # 0 /\ n - 1 \in Nat /\ n - 1 \in T
  BY <1>1
<1> QED
  BY <1>1, <1>2

-----------------------------------------------------------------------------
(* Playback: frames, chunks and gaps, for a recording of any length *)

FrameSizes == {6, 7, 8, 13, 14, 16, 18, 20, 21, 27, 32}

LEMMA RecorderSizes ==
    ASSUME NEW speech, NEW c \in Recorders, speech.codec = c.codec, speech.param = c.param
    PROVE  /\ FrameBytes(speech) = FrameBytes(c) /\ FrameBytes(speech) \in FrameSizes
           /\ FrameMs(speech) \in Nat
           /\ speech.codec = "amrnb" => AMRNB_FRAME_BYTES[speech.param] = FrameBytes(speech)
<1>1. CASE c.codec = "amrnb"
  <2>1. speech.codec = "amrnb" /\ c.codec = "amrnb" /\ speech.param = c.param /\ c.param \in 0 .. 7
    BY <1>1 DEF Recorders
  <2>2. \A mode \in 0 .. 7 : AMRNB_FRAME_BYTES[mode] \in FrameSizes
    BY DEF AMRNB_FRAME_BYTES, FrameSizes
  <2> QED
    BY <2>1, <2>2 DEF FrameBytes, FrameMs
<1>2. CASE c.codec = "codec2"
  <2>1. speech.codec = "codec2" /\ c.codec = "codec2" /\ speech.param = c.param /\ c.param \in 0 .. 5
    BY <1>2 DEF Recorders
  <2>2. \A mode \in 0 .. 5 : CODEC2_BYTES_PER_FRAME[mode] \in FrameSizes
    BY DEF CODEC2_BYTES_PER_FRAME, FrameSizes
  <2>3. \A mode \in 0 .. 5 : CODEC2_SAMPLES_PER_FRAME[mode] \div 8 \in Nat
    BY DEF CODEC2_SAMPLES_PER_FRAME
  <2> QED
    BY <2>1, <2>2, <2>3 DEF FrameBytes, FrameMs
<1> QED
  BY <1>1, <1>2 DEF Recorders

\* A byte lies in one frame, at one offset.
LEMMA InFrame ==
    ASSUME NEW b \in FrameSizes, NEW f \in Nat, NEW k \in 0 .. b - 1
    PROVE  /\ (f * b + k) \div b = f /\ (f * b + k) % b = k
           /\ f * b \in Nat /\ (f + 1) * b = f * b + b
<1>1. CASE b = 6
  BY <1>1
<1>2. CASE b = 7
  BY <1>2
<1>3. CASE b = 8
  BY <1>3
<1>4. CASE b = 13
  BY <1>4
<1>5. CASE b = 14
  BY <1>5
<1>6. CASE b = 16
  BY <1>6
<1>7. CASE b = 18
  BY <1>7
<1>8. CASE b = 20
  BY <1>8
<1>9. CASE b = 21
  BY <1>9
<1>10. CASE b = 27
  BY <1>10
<1>11. CASE b = 32
  BY <1>11
<1> QED
  BY <1>1, <1>2, <1>3, <1>4, <1>5, <1>6, <1>7, <1>8, <1>9, <1>10, <1>11 DEF FrameSizes

\* And the frames are in order: as many begin as fit.
LEMMA FramesFit ==
    ASSUME NEW b \in FrameSizes, NEW len \in Nat
    PROVE  /\ len \div b \in Nat
           /\ \A f \in Nat : f < len \div b <=> f * b + b <= len
           /\ \A f \in Nat : (f * b) \div b = f /\ (f * b) % b = 0
           /\ len % b = 0 => (len \div b) * b = len
<1>1. CASE b = 6
  BY <1>1
<1>2. CASE b = 7
  BY <1>2
<1>3. CASE b = 8
  BY <1>3
<1>4. CASE b = 13
  BY <1>4
<1>5. CASE b = 14
  BY <1>5
<1>6. CASE b = 16
  BY <1>6
<1>7. CASE b = 18
  BY <1>7
<1>8. CASE b = 20
  BY <1>8
<1>9. CASE b = 21
  BY <1>9
<1>10. CASE b = 27
  BY <1>10
<1>11. CASE b = 32
  BY <1>11
<1> QED
  BY <1>1, <1>2, <1>3, <1>4, <1>5, <1>6, <1>7, <1>8, <1>9, <1>10, <1>11 DEF FrameSizes

\* A byte lies in one chunk.
LEMMA InChunk ==
    ASSUME NEW s \in ChunkSizes
    PROVE  \A p \in Nat, g \in Nat :
              /\ g * s \in Nat /\ (g + 1) * s = g * s + s /\ p \div s \in Nat
              /\ p \div s = g <=> g * s <= p /\ p < g * s + s
<1>1. CASE s = 48
  BY <1>1
<1>2. CASE s = 96
  BY <1>2
<1>3. CASE s = 160
  BY <1>3
<1>4. CASE s = 199
  BY <1>4
<1>5. CASE s = 215
  BY <1>5
<1> QED
  BY <1>1, <1>2, <1>3, <1>4, <1>5 DEF ChunkSizes

LEMMA ChunkOrder ==
    ASSUME NEW s \in ChunkSizes, NEW len \in Nat \ {0}
    PROVE  LET total == div_ceil(len, s)
           IN  /\ total \in Nat \ {0} /\ total * s \in Nat /\ (total - 1) * s \in Nat
               /\ (total - 1) * s < len /\ len <= total * s
               /\ total * s = (total - 1) * s + s
               /\ \A p \in Nat : /\ p < len => p \div s < total
                                 /\ p < total * s => p \div s < total
               /\ (len - 1) \div s = total - 1
<1>1. CASE s = 48
  BY <1>1 DEF div_ceil
<1>2. CASE s = 96
  BY <1>2 DEF div_ceil
<1>3. CASE s = 160
  BY <1>3 DEF div_ceil
<1>4. CASE s = 199
  BY <1>4 DEF div_ceil
<1>5. CASE s = 215
  BY <1>5 DEF div_ceil
<1> QED
  BY <1>1, <1>2, <1>3, <1>4, <1>5 DEF ChunkSizes

IsAmr(speech, b) ==
    speech.codec = "amrnb" /\ speech.param \in 0 .. 7 /\ AMRNB_FRAME_BYTES[speech.param] = b

\* Where a frame begins.
Begin(f, b) == f * b

\* One step of the walk of AmrnbFrames.
Walked(speech, audio, walk, pos) ==
    IF pos >= Len(audio) THEN <<>>
    ELSE LET size == AMRNB_FRAME_BYTES[ToC(speech, audio[pos + 1])]
         IN  IF size = Undefined \/ pos + size > Len(audio) THEN <<>>
             ELSE <<[at |-> pos, size |-> size]>> \o walk[pos + size]

Walks(speech, audio, walk) == walk = [pos \in Nat |-> Walked(speech, audio, walk, pos)]

\* The frames from one on.
FramesFrom(j, n, b) == [i \in 1 .. n - j |-> [at |-> Begin(j + i - 1, b), size |-> b]]

\* The bytes of so many frames.
Framewise(audio, n, b) ==
    /\ Len(audio) = n * b
    /\ \A f \in 0 .. n - 1, k \in 0 .. b - 1 :
          audio[f * b + k + 1] = [frame |-> f, offset |-> k]

\* The walk goes from frame to frame.
LEMMA WalksFrames ==
    ASSUME NEW speech, NEW b \in FrameSizes, IsAmr(speech, b),
           NEW n \in Nat, NEW audio, Framewise(audio, n, b), NEW walk, NEW j \in Nat
    PROVE  Walked(speech, audio, walk, Begin(j, b)) =
              IF j < n THEN <<[at |-> Begin(j, b), size |-> b]>> \o walk[Begin(j + 1, b)]
                       ELSE <<>>
<1>1. 0 \in 0 .. b - 1 /\ b \in Nat /\ b # Undefined
  BY DEF FrameSizes, Undefined
<1>2. /\ j * b \in Nat /\ n * b \in Nat /\ (j + 1) * b = j * b + b
      /\ (j < n <=> j * b + b <= n * b) /\ (j < n <=> j * b < n * b)
  <2>1. /\ j * b \in Nat /\ n * b \in Nat /\ (j + 1) * b = j * b + b
    BY <1>1, InFrame
  <2>2. (n * b) \div b = n
    BY <2>1, FramesFit
  <2>3. j < n <=> j * b + b <= n * b
    BY <2>1, <2>2, FramesFit
  <2>4. j - 1 \in Nat => (j - 1 < n <=> (j - 1) * b + b <= n * b) /\ (j - 1 + 1) * b = (j - 1) * b + b
                         /\ (j - 1) * b \in Nat
    BY <1>1, <2>1, <2>2, FramesFit, InFrame
  <2>5. n * b < n * b + b
    BY <1>1, <2>1
  <2>6. CASE j < n
    BY <1>1, <2>1, <2>3, <2>6
  <2>7. CASE n <= j
    <3>1. n < j + 1
      BY <2>7
    <3>2. ~(j * b + b <= n * b)
      BY <2>3, <2>7
    <3>3. CASE j = n
      BY <2>1, <2>3, <3>3
    <3>4. CASE j # n
      <4>1. j - 1 \in Nat /\ ~(j - 1 < n) /\ j - 1 + 1 = j
        BY <2>7, <3>4
      <4>2. PICK m : m = (j - 1) * b
        OBVIOUS
      <4>3. j * b = m + b /\ m \in Nat /\ ~(m + b <= n * b)
        BY <2>4, <4>1, <4>2
      <4>4. ~(j * b < n * b) /\ ~(j < n)
        BY <2>1, <2>7, <4>3
      <4> QED
        BY <2>1, <2>3, <4>4
    <3> QED
      BY <3>3, <3>4
  <2> QED
    BY <2>1, <2>3, <2>6, <2>7
<1>3. CASE j < n
  <2>1. audio[j * b + 1] = [frame |-> j, offset |-> 0]
    <3>1. audio[j * b + 0 + 1] = [frame |-> j, offset |-> 0]
      BY <1>1, <1>3 DEF Framewise
    <3> QED
      BY <1>2, <3>1
  <2>2. [frame |-> j, offset |-> 0] # Zero
    <3>1. [frame |-> j, offset |-> 0].frame # Zero.frame
      BY DEF Zero
    <3> QED
      BY <3>1
  <2>3. ToC(speech, audio[j * b + 1]) = speech.param
    BY <2>1, <2>2 DEF ToC, IsAmr
  <2>4. PICK pos : pos = j * b
    OBVIOUS
  <2>5. PICK next : next = (j + 1) * b
    OBVIOUS
  <2>6. next = pos + b /\ pos \in Nat /\ ~(pos >= Len(audio)) /\ ~(pos + b > Len(audio))
    BY <1>1, <1>2, <1>3, <2>4, <2>5 DEF Framewise
  <2>7. Walked(speech, audio, walk, pos) = <<[at |-> pos, size |-> b]>> \o walk[next]
    BY <1>1, <2>3, <2>4, <2>6 DEF Walked, IsAmr
  <2> QED
    BY <1>3, <2>4, <2>5, <2>7 DEF Begin
<1>4. CASE ~(j < n)
  BY <1>2, <1>4 DEF Walked, Framewise, Begin
<1> QED
  BY <1>3, <1>4

\* And it stops where no frame begins.
LEMMA WalkStops ==
    ASSUME NEW speech, NEW b \in FrameSizes, NEW n \in Nat, NEW audio, Framewise(audio, n, b),
           NEW walk, NEW pos \in Nat, pos % b # 0
    PROVE  Walked(speech, audio, walk, pos) = <<>>
<1>1. CASE pos >= Len(audio)
  BY <1>1 DEF Walked
<1>2. CASE ~(pos >= Len(audio))
  <2>1. PICK f : f = pos \div b
    OBVIOUS
  <2>2. PICK k : k = pos % b
    OBVIOUS
  <2>3. f \in Nat /\ k \in 1 .. b - 1 /\ pos = f * b + k
    <3> pos % b # 0
      OBVIOUS
    <3>1. CASE b = 6
      BY <2>1, <2>2, <3>1
    <3>2. CASE b = 7
      BY <2>1, <2>2, <3>2
    <3>3. CASE b = 8
      BY <2>1, <2>2, <3>3
    <3>4. CASE b = 13
      BY <2>1, <2>2, <3>4
    <3>5. CASE b = 14
      BY <2>1, <2>2, <3>5
    <3>6. CASE b = 16
      BY <2>1, <2>2, <3>6
    <3>7. CASE b = 18
      BY <2>1, <2>2, <3>7
    <3>8. CASE b = 20
      BY <2>1, <2>2, <3>8
    <3>9. CASE b = 21
      BY <2>1, <2>2, <3>9
    <3>10. CASE b = 27
      BY <2>1, <2>2, <3>10
    <3>11. CASE b = 32
      BY <2>1, <2>2, <3>11
    <3> QED
      BY <3>1, <3>2, <3>3, <3>4, <3>5, <3>6, <3>7, <3>8, <3>9, <3>10, <3>11 DEF FrameSizes
  <2>4. f \in 0 .. n - 1
    <3>1. n * b \in Nat /\ f * b \in Nat /\ pos < n * b /\ b \in Nat \ {0}
      BY <1>2, <2>3, InFrame DEF Framewise, FrameSizes
    <3>2. (n * b) \div b = n /\ pos \div b \in Nat
      BY <3>1, FramesFit
    <3>3. n < f + 1 => n \in Nat /\ n <= f
      BY <2>3
    <3>4. CASE n <= f
      <4>1. n * b <= f * b
        <5>1. CASE n = f
          BY <5>1, <3>1
        <5>2. CASE n < f
          <6>1. (f * b) \div b = f
            BY <2>3, FramesFit
          <6>2. n * b + b <= f * b
            BY <3>1, <5>2, <6>1, FramesFit
          <6> QED
            BY <3>1, <6>2
        <5> QED
          BY <2>3, <3>4, <5>1, <5>2
      <4> QED
        BY <2>3, <3>1, <4>1
    <3> QED
      BY <2>3, <3>4
  <2>5. audio[pos + 1] = [frame |-> f, offset |-> k]
    BY <2>3, <2>4 DEF Framewise
  <2>6. ToC(speech, audio[pos + 1]) = 9
    <3>1. [frame |-> f, offset |-> k].frame # Zero.frame
      BY <2>3 DEF Zero
    <3>2. audio[pos + 1] # Zero
      BY <2>5, <3>1
    <3> QED
      BY <2>3, <2>5, <3>2 DEF ToC
  <2>7. AMRNB_FRAME_BYTES[9] = Undefined
    BY DEF AMRNB_FRAME_BYTES
  <2> QED
    BY <1>2, <2>6, <2>7 DEF Walked
<1> QED
  BY <1>1, <1>2

\* The frames from one on are that one and those from the next.
LEMMA FramesGoOn ==
    ASSUME NEW n \in Nat, NEW b \in FrameSizes, NEW j \in Nat
    PROVE  /\ j < n => FramesFrom(j, n, b)
                          = <<[at |-> Begin(j, b), size |-> b]>> \o FramesFrom(j + 1, n, b)
           /\ ~(j < n) => FramesFrom(j, n, b) = <<>>
<1>1. ASSUME j < n
      PROVE  FramesFrom(j, n, b) = <<[at |-> Begin(j, b), size |-> b]>> \o FramesFrom(j + 1, n, b)
  <2> DEFINE FrameAt(i) == [at |-> Begin(j + i - 1, b), size |-> b]
             S == { FrameAt(i) : i \in 1 .. n - j }
  <2>1. FrameAt(1) = [at |-> Begin(j, b), size |-> b]
    BY <1>1
  <2>2. FramesFrom(j, n, b) = [i \in 1 .. n - j |-> FrameAt(i)]
    BY DEF FramesFrom
  <2>3. FramesFrom(j + 1, n, b) = [i \in 1 .. n - j - 1 |-> FrameAt(i + 1)]
    <3>1. n - (j + 1) = n - j - 1 /\ \A i \in 1 .. n - j - 1 : j + 1 + i - 1 = j + (i + 1) - 1
      BY <1>1
    <3> QED
      BY <3>1 DEF FramesFrom
  <2>4. PICK m \in Nat : n - j = m + 1
    <3>1. n - j - 1 \in Nat
      BY <1>1
    <3> QED
      BY <3>1
  <2>5. n - j - 1 = m
    BY <2>4, <1>1
  <2> HIDE DEF FrameAt
  <2>6. [i \in 1 .. m |-> FrameAt(i + 1)] \in Seq(S) /\ <<FrameAt(1)>> \in Seq(S)
    <3>1. FrameAt(1) \in S /\ \A i \in 1 .. m : FrameAt(i + 1) \in S
      BY <2>4
    <3> QED
      BY <2>4, <3>1
  <2> HIDE DEF S
  <2>7. [i \in 1 .. m + 1 |-> FrameAt(i)] = <<FrameAt(1)>> \o [i \in 1 .. m |-> FrameAt(i + 1)]
    BY <2>4, <2>6
  <2> QED
    BY <2>1, <2>2, <2>3, <2>4, <2>5, <2>7
<1>2. ASSUME ~(j < n)
      PROVE  FramesFrom(j, n, b) = <<>>
  <2>1. 1 .. n - j = {}
    BY <1>2
  <2> QED
    BY <2>1 DEF FramesFrom
<1> QED
  BY <1>1, <1>2

\* AmrnbFrames finds the very frames that were encoded: some function walks
\* so, and every one that does gives the frames from the first on.
LEMMA FramesFound ==
    ASSUME NEW speech, NEW b \in FrameSizes, IsAmr(speech, b),
           NEW n \in Nat, NEW audio, Framewise(audio, n, b)
    PROVE  AmrnbFrames(speech, audio) = FramesFrom(0, n, b)
<1> DEFINE g == [pos \in Nat |-> IF pos % b = 0 THEN FramesFrom(pos \div b, n, b) ELSE <<>>]
<1>1. \A j \in Nat : Begin(j, b) \in Nat /\ Begin(j, b) % b = 0 /\ Begin(j, b) \div b = j
  <2> TAKE j \in Nat
  <2>1. 0 \in 0 .. b - 1
    BY DEF FrameSizes
  <2>2. j * b \in Nat
    BY <2>1, InFrame
  <2> QED
    BY <2>2, FramesFit DEF Begin
<1>2. \A j \in Nat : g[Begin(j, b)] = FramesFrom(j, n, b)
  BY <1>1
<1>3. Walks(speech, audio, g)
  <2> SUFFICES ASSUME NEW pos \in Nat
               PROVE  g[pos] = Walked(speech, audio, g, pos)
    BY DEF Walks
  <2>1. CASE pos % b = 0
    <3>1. PICK j \in Nat : pos = Begin(j, b)
      <4>1. (pos \div b) * b = pos /\ pos \div b \in Nat
        BY <2>1, FramesFit
      <4> QED
        BY <4>1 DEF Begin
    <3>2. PICK next \in Nat : next = j + 1
      OBVIOUS
    <3>3. g[pos] = FramesFrom(j, n, b) /\ g[Begin(next, b)] = FramesFrom(next, n, b)
      BY <1>2, <3>1
    <3> HIDE DEF g
    <3>4. Walked(speech, audio, g, pos) =
            IF j < n THEN <<[at |-> Begin(j, b), size |-> b]>> \o g[Begin(j + 1, b)] ELSE <<>>
      BY <3>1, WalksFrames
    <3>5. FramesFrom(j, n, b) =
            IF j < n THEN <<[at |-> Begin(j, b), size |-> b]>> \o FramesFrom(j + 1, n, b) ELSE <<>>
      BY FramesGoOn
    <3> QED
      BY <3>2, <3>3, <3>4, <3>5
  <2>2. CASE pos % b # 0
    <3>1. g[pos] = <<>>
      BY <2>2
    <3> HIDE DEF g
    <3> QED
      BY <2>2, <3>1, WalkStops
  <2> QED
    BY <2>1, <2>2
<1>4. ASSUME NEW w, Walks(speech, audio, w)
      PROVE  w[0] = FramesFrom(0, n, b)
  <2> DEFINE T == { d \in Nat : d <= n => w[Begin(n - d, b)] = FramesFrom(n - d, n, b) }
  <2>1. \A j \in Nat : w[Begin(j, b)] =
          IF j < n THEN <<[at |-> Begin(j, b), size |-> b]>> \o w[Begin(j + 1, b)] ELSE <<>>
    <3> TAKE j \in Nat
    <3>1. w[Begin(j, b)] = Walked(speech, audio, w, Begin(j, b))
      BY <1>1, <1>4 DEF Walks
    <3>2. Walked(speech, audio, w, Begin(j, b)) =
            IF j < n THEN <<[at |-> Begin(j, b), size |-> b]>> \o w[Begin(j + 1, b)] ELSE <<>>
      BY WalksFrames
    <3> QED
      BY <3>1, <3>2
  <2>2. 0 \in T
    <3>1. n - 0 = n /\ ~(n < n)
      OBVIOUS
    <3>2. w[Begin(n, b)] = <<>>
      BY <2>1, <3>1
    <3>3. FramesFrom(n, n, b) = <<>>
      BY <3>1, FramesGoOn
    <3> QED
      BY <3>1, <3>2, <3>3
  <2>3. ASSUME NEW d \in Nat, d \in T
        PROVE  d + 1 \in T
    <3> SUFFICES ASSUME d + 1 <= n
                 PROVE  w[Begin(n - (d + 1), b)] = FramesFrom(n - (d + 1), n, b)
      OBVIOUS
    <3>1. PICK j \in Nat : j = n - (d + 1)
      OBVIOUS
    <3>2. j < n /\ j + 1 = n - d /\ d <= n
      BY <3>1
    <3>3. w[Begin(j + 1, b)] = FramesFrom(j + 1, n, b)
      BY <2>3, <3>2
    <3>4. w[Begin(j, b)] = <<[at |-> Begin(j, b), size |-> b]>> \o w[Begin(j + 1, b)]
      BY <2>1, <3>2
    <3>5. FramesFrom(j, n, b) = <<[at |-> Begin(j, b), size |-> b]>> \o FramesFrom(j + 1, n, b)
      BY <3>2, FramesGoOn
    <3> QED
      BY <3>1, <3>3, <3>4, <3>5
  <2>4. n \in T
    <3> HIDE DEF T
    <3> QED
      BY <2>2, <2>3, Induction
  <2>5. Begin(n - n, b) = 0 /\ n - n = 0
    BY DEF FrameSizes, Begin
  <2> QED
    BY <2>4, <2>5
<1>5. AmrnbFrames(speech, audio) = (CHOOSE w : Walks(speech, audio, w))[0]
  BY DEF AmrnbFrames, Walks, Walked
<1> HIDE DEF g
<1> QED
  BY <1>3, <1>4, <1>5

\* What an encoder makes of a recording.
LEMMA Encodes ==
    ASSUME NEW speech, NEW b \in FrameSizes, FrameBytes(speech) = b, speech.frames \in Nat
    PROVE  /\ Framewise(encoded(speech), speech.frames, b)
           /\ DOMAIN encoded(speech) = 1 .. speech.frames * b
<1>1. PICK n \in Nat : n = speech.frames
  OBVIOUS
<1>2. 0 \in 0 .. b - 1 /\ b \in Nat
  BY DEF FrameSizes
<1>3. PICK len \in Nat : len = n * b
  BY <1>2, InFrame
<1>4. encoded(speech) =
        [p \in 1 .. len |-> [frame |-> (p - 1) \div b, offset |-> (p - 1) % b]]
  BY <1>1, <1>3 DEF encoded
<1>5. ASSUME NEW f \in 0 .. n - 1, NEW k \in 0 .. b - 1
      PROVE  encoded(speech)[f * b + k + 1] = [frame |-> f, offset |-> k]
  <2>1. PICK at \in Nat : at = f * b
    BY <1>2, InFrame
  <2>2. at + b <= len
    <3>1. len \div b = n
      BY <1>3, FramesFit
    <3> QED
      BY <2>1, <3>1, FramesFit
  <2>3. at + k + 1 \in 1 .. len
    BY <1>2, <2>2
  <2>4. at + k + 1 - 1 = at + k
    BY <1>2
  <2>5. (at + k) \div b = f /\ (at + k) % b = k
    BY <2>1, InFrame
  <2> QED
    BY <1>4, <2>1, <2>3, <2>4, <2>5
<1>6. Len(encoded(speech)) = len /\ DOMAIN encoded(speech) = 1 .. len
  BY <1>4
<1> QED
  BY <1>1, <1>3, <1>5, <1>6 DEF Framewise

\* The chunks that hold bytes of a frame.
Holding(f, b, size) == { p \div size : p \in f * b .. (f + 1) * b - 1 }

\* A chunk holds bytes of a frame when the two overlap.
LEMMA HoldsWhenOverlaps ==
    ASSUME NEW b \in FrameSizes, NEW size \in ChunkSizes, NEW f \in Nat, NEW i \in Nat
    PROVE  i \in Holding(f, b, size) <=>
              f * b < (i + 1) * size /\ i * size < f * b + b
<1>1. 0 \in 0 .. b - 1 /\ b \in Nat \ {0} /\ size \in Nat \ {0}
  BY DEF FrameSizes, ChunkSizes
<1>2. PICK at \in Nat : at = f * b /\ (f + 1) * b = at + b
  BY <1>1, InFrame
<1>3. PICK lo \in Nat : lo = i * size /\ (i + 1) * size = lo + size
  BY <1>1, InChunk
<1>4. \A p \in Nat : p \div size = i <=> lo <= p /\ p < lo + size
  BY <1>3, InChunk
<1>5. i \in Holding(f, b, size) <=> \E p \in at .. at + b - 1 : p \div size = i
  <2>1. f * b .. (f + 1) * b - 1 = at .. at + b - 1
    BY <1>1, <1>2
  <2> QED
    BY <2>1 DEF Holding
<1>6. (\E p \in at .. at + b - 1 : p \div size = i) <=> at < lo + size /\ lo < at + b
  <2>1. ASSUME NEW p \in at .. at + b - 1, p \div size = i
        PROVE  at < lo + size /\ lo < at + b
    BY <1>1, <1>4, <2>1
  <2>2. ASSUME at < lo + size, lo < at + b
        PROVE  \E p \in at .. at + b - 1 : p \div size = i
    <3>1. CASE lo <= at
      <4>1. at \in at .. at + b - 1
        BY <1>1
      <4>2. at \div size = i
        BY <1>4, <2>2, <3>1
      <4> QED
        BY <4>1, <4>2
    <3>2. CASE at < lo
      <4>1. lo \in at .. at + b - 1
        BY <1>1, <2>2, <3>2
      <4>2. lo \div size = i
        BY <1>1, <1>4, <2>2, <3>2
      <4> QED
        BY <4>1, <4>2
    <3> QED
      BY <3>1, <3>2
  <2> QED
    BY <2>1, <2>2
<1> QED
  BY <1>2, <1>3, <1>5, <1>6

\* What arrived, frame by frame: its bytes when all chunks that hold it are
\* there, a gap otherwise, and nothing but gap after the recording.
ArrivedFramewise(m, n, b, size, total, arrived) ==
    /\ total \in Nat \ {0}
    /\ Len(m.audio) \in Nat /\ n * b \in Nat /\ Len(m.audio) >= n * b
    /\ total - 1 \in arrived => Len(m.audio) = n * b
    /\ m.gaps = {} <=> arrived = 0 .. total - 1
    /\ m.gaps = {} => Framewise(m.audio, n, b)
    /\ \A f \in Nat : f < n =>
          /\ frame_overlaps_gap(f * b, b, m.gaps) <=> ~(Holding(f, b, size) \subseteq arrived)
          /\ Holding(f, b, size) \subseteq arrived => Sounds(m.audio, f * b, b) = f
          /\ Holding(f, b, size) \subseteq 0 .. total - 1
    /\ \A f \in Nat : n <= f /\ f < Len(m.audio) \div b =>
          frame_overlaps_gap(f * b, b, m.gaps)

LEMMA ArrivesFramewise ==
    ASSUME NEW speech, NEW b \in FrameSizes, FrameBytes(speech) = b,
           NEW n \in Nat \ {0}, speech.frames = n, NEW size \in ChunkSizes,
           NEW total, total = div_ceil(n * b, size),
           NEW arrived \in SUBSET (0 .. total - 1)
    PROVE  ArrivedFramewise(finalize(encoded(speech), size, arrived), n, b, size, total, arrived)
<1>1. PICK m : m = finalize(encoded(speech), size, arrived)
  OBVIOUS
<1>2. 0 \in 0 .. b - 1 /\ b \in Nat \ {0} /\ size \in Nat \ {0}
  BY DEF FrameSizes, ChunkSizes
<1>3. PICK len \in Nat \ {0} : len = n * b
  <2>1. n * b \in Nat
    BY <1>2, InFrame
  <2>2. n * b # 0
    <3>1. (n * b) \div b = n
      BY FramesFit
    <3>2. 0 \div b = 0
      BY <1>2, FramesFit
    <3> QED
      BY <3>1, <3>2
  <2> QED
    BY <2>1, <2>2
<1>4. total = div_ceil(len, size)
  BY <1>3
<1>5. /\ total \in Nat \ {0} /\ total * size \in Nat /\ (total - 1) * size \in Nat
      /\ (total - 1) * size < len /\ len <= total * size
      /\ total * size = (total - 1) * size + size
      /\ \A p \in Nat : /\ p < len => p \div size < total
                        /\ p < total * size => p \div size < total
      /\ (len - 1) \div size = total - 1
  BY <1>4, ChunkOrder
<1> DEFINE bytes == encoded(speech)
           missing == (0 .. total - 1) \ arrived
           whole == IF total - 1 \in missing THEN total * size ELSE len
<1>6. Framewise(bytes, n, b) /\ Len(bytes) = len
  BY <1>3, Encodes DEF Framewise
<1>7. /\ m.audio = [p \in 1 .. whole |-> IF (p - 1) \div size \in missing THEN Zero ELSE bytes[p]]
      /\ m.gaps = { [start |-> i * size, end |-> (i + 1) * size] : i \in missing }
  BY <1>1, <1>4, <1>6 DEF finalize
<1> HIDE DEF bytes
<1>8. whole \in Nat /\ whole >= len /\ Len(m.audio) = whole
      /\ (total - 1 \in arrived => whole = len)
  <2>1. whole \in Nat /\ whole >= len /\ (total - 1 \in arrived => whole = len)
    BY <1>5
  <2> HIDE DEF whole
  <2> QED
    BY <1>7, <2>1
<1> HIDE DEF whole
<1> DEFINE Gap(i) == [start |-> i * size, end |-> (i + 1) * size]
<1>20. m.gaps = { Gap(i) : i \in missing }
  BY <1>7
<1>21. \A i : Gap(i).start = i * size /\ Gap(i).end = (i + 1) * size
  OBVIOUS
<1> HIDE DEF Gap
<1>9. m.gaps = {} <=> arrived = 0 .. total - 1
  <2>1. m.gaps = {} <=> missing = {}
    BY <1>20
  <2> QED
    BY <2>1
<1>10. ASSUME NEW at
       PROVE  frame_overlaps_gap(at, b, m.gaps) <=>
                 \E i \in missing : at < (i + 1) * size /\ i * size < at + b
  <2> HIDE DEF missing
  <2>1. frame_overlaps_gap(at, b, m.gaps)
           <=> \E i \in missing : at < Gap(i).end /\ Gap(i).start < at + b
    BY <1>20 DEF frame_overlaps_gap
  <2> QED
    BY <1>21, <2>1
<1>11. ASSUME NEW f \in Nat
       PROVE  /\ f * b \in Nat /\ (f + 1) * b = f * b + b /\ (f < n <=> f * b + b <= len)
              /\ frame_overlaps_gap(f * b, b, m.gaps)
                    <=> \E i \in missing : i \in Holding(f, b, size)
  <2>1. len \div b = n
    BY <1>3, FramesFit
  <2>2. f < n <=> f * b + b <= len
    BY <2>1, FramesFit
  <2>3. \A i \in missing : i \in Nat
    OBVIOUS
  <2> QED
    BY <1>2, <1>10, <2>2, <2>3, InFrame, HoldsWhenOverlaps
<1>12. ASSUME NEW f \in Nat, f < n
       PROVE  Holding(f, b, size) \subseteq 0 .. total - 1
  <2>1. ASSUME NEW p \in f * b .. (f + 1) * b - 1
        PROVE  p \div size \in 0 .. total - 1
    <3>1. p \in Nat /\ p < len
      <4>1. PICK at \in Nat : at = f * b
        BY <1>11
      <4>3. (f + 1) * b = at + b /\ at + b <= len
        BY <1>11, <1>12, <4>1
      <4>4. f * b .. (f + 1) * b - 1 = at .. at + b - 1
        BY <1>2, <4>1, <4>3
      <4>2. p \in at .. at + b - 1 /\ at + b <= len
        BY <2>1, <4>3, <4>4
      <4> QED
        BY <1>2, <4>2
    <3>2. p \div size < total
      BY <1>5, <3>1
    <3>3. p \div size \in Nat
      BY <3>1, InChunk
    <3> QED
      BY <1>5, <3>2, <3>3
  <2> QED
    BY <2>1 DEF Holding
<1>13. ASSUME NEW f \in Nat, f < n, Holding(f, b, size) \subseteq arrived, NEW k \in 0 .. b - 1
       PROVE  m.audio[f * b + k + 1] = [frame |-> f, offset |-> k]
  <2>7. PICK at \in Nat : at = f * b
    BY <1>11
  <2>1. PICK p \in Nat : p = at + k /\ p = f * b + k
    BY <1>2, <2>7
  <2>2. p \in f * b .. (f + 1) * b - 1 /\ p < len
    <3>1. (f + 1) * b = at + b /\ at + b <= len
      BY <1>11, <1>13, <2>7
    <3> QED
      BY <1>2, <2>1, <2>7, <3>1
  <2>3. p \div size \in arrived
    BY <1>13, <2>2 DEF Holding
  <2>4. p + 1 \in 1 .. whole /\ p + 1 - 1 = p
    BY <1>8, <2>2
  <2>5. m.audio[p + 1] = bytes[p + 1]
    BY <1>7, <2>3, <2>4
  <2>6. bytes[f * b + k + 1] = [frame |-> f, offset |-> k]
    BY <1>6, <1>13 DEF Framewise
  <2> QED
    BY <2>1, <2>5, <2>6
<1>14. ASSUME NEW f \in Nat, f < n, Holding(f, b, size) \subseteq arrived
       PROVE  Sounds(m.audio, f * b, b) = f
  <2>1. \A k \in 0 .. b - 1 : m.audio[f * b + k + 1] = [frame |-> f, offset |-> k]
    BY <1>13, <1>14
  <2>2. m.audio[f * b + 1] = [frame |-> f, offset |-> 0]
    <3>1. f * b + 0 + 1 = f * b + 1
      BY <1>11
    <3> QED
      BY <1>2, <2>1, <3>1
  <2>3. m.audio[f * b + 1].frame = f
    BY <2>2
  <2>4. b - 1 \in Int
    BY <1>2
  <2> QED
    BY <2>1, <2>3 DEF Sounds
<1>15. ASSUME NEW f \in Nat, f < n
       PROVE  frame_overlaps_gap(f * b, b, m.gaps)
                 <=> ~(Holding(f, b, size) \subseteq arrived)
  BY <1>11, <1>12, <1>15
<1>16. ASSUME m.gaps = {}
       PROVE  Framewise(m.audio, n, b)
  <2>1. whole = len
    BY <1>5, <1>8, <1>9, <1>16
  <2>2. ASSUME NEW f \in 0 .. n - 1
        PROVE  Holding(f, b, size) \subseteq arrived
    BY <1>9, <1>12, <1>16
  <2> QED
    BY <1>3, <1>8, <1>13, <2>1, <2>2 DEF Framewise
<1>17. ASSUME NEW f \in Nat, n <= f, f < Len(m.audio) \div b
       PROVE  frame_overlaps_gap(f * b, b, m.gaps)
  <2>1. f * b + b <= whole
    BY <1>8, <1>17, FramesFit
  <2>2. ~(f * b + b <= len)
    BY <1>11, <1>17
  <2>3. len <= f * b
    <3>1. CASE f = n
      BY <1>3, <3>1
    <3>2. CASE f # n
      <4>1. f - 1 \in Nat /\ ~(f - 1 < n) /\ f - 1 + 1 = f
        BY <1>17, <3>2
      <4>2. ~((f - 1) * b + b <= len) /\ f * b = (f - 1) * b + b /\ (f - 1) * b \in Nat
        BY <1>11, <4>1
      <4> QED
        BY <1>2, <4>2
    <3> QED
      BY <3>1, <3>2
  <2>4. total - 1 \in missing /\ whole = total * size
    <3>1. whole # len
      BY <1>11, <2>1, <2>2
    <3> QED
      BY <1>5, <1>8, <3>1 DEF whole
  <2>5. f * b < (total - 1 + 1) * size /\ (total - 1) * size < f * b + b
    <3>1. total - 1 + 1 = total
      BY <1>5
    <3>2. PICK at \in Nat : at = f * b
      BY <1>11
    <3>3. PICK end \in Nat : end = total * size
      BY <1>5
    <3>4. PICK last \in Nat : last = (total - 1) * size
      BY <1>5
    <3>5. at + b <= end /\ len <= at /\ last < len
      BY <1>5, <2>1, <2>3, <2>4, <3>2, <3>3, <3>4
    <3>6. at < end /\ last < at + b
      BY <1>2, <3>5
    <3> QED
      BY <3>1, <3>2, <3>3, <3>4, <3>6
  <2> QED
    BY <1>10, <2>4, <2>5
<1> QED
  BY <1>1, <1>3, <1>5, <1>8, <1>9, <1>12, <1>14, <1>15, <1>16, <1>17
  DEF ArrivedFramewise

\* Whatever arrived of a recording: every block of sound is in its place.
LEMMA AllHeardInTime ==
    ASSUME NEW c \in Recorders, NEW n \in Nat \ {0}, NEW speech,
           speech = [codec |-> c.codec, param |-> c.param, frames |-> n],
           NEW size \in ChunkSizes,
           NEW arrived \in SUBSET (0 .. div_ceil(n * FrameBytes(c), size) - 1)
    PROVE  HeardInTime(speech, size, arrived)
<1>1. speech.codec = c.codec /\ speech.param = c.param /\ speech.frames = n
  OBVIOUS
<1>2. PICK b \in FrameSizes : b = FrameBytes(speech) /\ b = FrameBytes(c)
  BY <1>1, RecorderSizes
<1>3. FrameMs(speech) \in Nat /\ (speech.codec = "amrnb" => IsAmr(speech, b))
  <2>1. /\ FrameMs(speech) \in Nat
        /\ speech.codec = "amrnb" => AMRNB_FRAME_BYTES[speech.param] = FrameBytes(speech)
    BY <1>1, RecorderSizes
  <2>2. speech.codec = "amrnb" => speech.param \in 0 .. 7
    BY <1>1 DEF Recorders
  <2> QED
    BY <1>2, <2>1, <2>2 DEF IsAmr
<1>4. PICK total : total = div_ceil(n * b, size)
  OBVIOUS
<1>5. PICK m : m = finalize(encoded(speech), size, arrived)
  OBVIOUS
<1>6. PICK whole \in Nat : whole = Len(m.audio)
  <2>1. Len(m.audio) \in Nat
    BY <1>1, <1>2, <1>4, <1>5, ArrivesFramewise DEF ArrivedFramewise
  <2> QED
    BY <2>1
<1>7. PICK len \in Nat : len = n * b
  BY <1>2, InFrame DEF FrameSizes
<1>8. /\ total \in Nat \ {0} /\ whole >= len
      /\ total - 1 \in arrived => whole = len
      /\ m.gaps = {} <=> arrived = 0 .. total - 1
      /\ m.gaps = {} => Framewise(m.audio, n, b)
      /\ \A f \in Nat : f < n =>
            /\ frame_overlaps_gap(f * b, b, m.gaps) <=> ~(Holding(f, b, size) \subseteq arrived)
            /\ Holding(f, b, size) \subseteq arrived => Sounds(m.audio, f * b, b) = f
            /\ Holding(f, b, size) \subseteq 0 .. total - 1
      /\ \A f \in Nat : n <= f /\ f < whole \div b => frame_overlaps_gap(f * b, b, m.gaps)
  <2>1. arrived \in SUBSET (0 .. total - 1)
    BY <1>2, <1>4
  <2>2. ArrivedFramewise(m, n, b, size, total, arrived)
    BY <1>1, <1>2, <1>4, <1>5, <2>1, ArrivesFramewise
  <2> QED
    BY <1>6, <1>7, <2>2 DEF ArrivedFramewise
<1>9. /\ len \div b = n /\ whole \div b \in Nat /\ n <= whole \div b
      /\ whole = len => whole \div b = n
  <2>1. len \div b = n
    BY <1>7, FramesFit
  <2>2. whole \div b \in Nat
    BY FramesFit
  <2>3. n - 1 \in Nat /\ n - 1 < len \div b
    BY <2>1
  <2>4. (n - 1) * b + b <= len
    BY <2>3, FramesFit
  <2>5. (n - 1) * b \in Nat /\ b \in Nat
    BY <2>3, InFrame DEF FrameSizes
  <2>6. (n - 1) * b + b <= whole
    BY <1>8, <2>4, <2>5
  <2>7. n - 1 < whole \div b
    BY <2>3, <2>6, FramesFit
  <2> QED
    BY <2>1, <2>2, <2>7
<1>10. PICK sound : sound = decode_with_gaps(speech, m)
  OBVIOUS
<1> DEFINE Right(i) == IF i <= n /\ Holding(i - 1, b, size) \subseteq arrived
                       THEN i - 1 ELSE Concealed
<1>11. /\ DOMAIN sound = 1 .. Len(sound)
       /\ \A i \in DOMAIN sound : sound[i] = Right(i)
       /\ Len(sound) \in Nat /\ Len(sound) >= n
       /\ total - 1 \in arrived => Len(sound) = n
       /\ payload_duration_ms(speech, m) = FrameMs(speech) * Len(sound)
  <2>1. CASE speech.codec = "amrnb" /\ m.gaps = {}
    <3>1. PICK frames : frames = AmrnbFrames(speech, m.audio)
      OBVIOUS
    <3>2. frames = FramesFrom(0, n, b)
      BY <1>3, <1>8, <2>1, <3>1, FramesFound
    <3>3. frames = [i \in 1 .. n |-> [at |-> (i - 1) * b, size |-> b]]
      <4>1. n - 0 = n /\ \A i \in 1 .. n : 0 + i - 1 = i - 1
        OBVIOUS
      <4> QED
        BY <3>2, <4>1 DEF FramesFrom, Begin
    <3>4. /\ Len(frames) = n /\ DOMAIN frames = 1 .. n /\ frames # <<>>
          /\ \A i \in 1 .. n : frames[i].at = (i - 1) * b /\ frames[i].size = b
      <4>1. Len(frames) = n /\ DOMAIN frames = 1 .. n
        BY <3>3
      <4>2. frames # <<>>
        BY <4>1
      <4>3. \A i \in 1 .. n : frames[i] = [at |-> (i - 1) * b, size |-> b]
        BY <3>3
      <4> QED
        BY <4>1, <4>2, <4>3
    <3>5. frames[Len(frames)].at + frames[Len(frames)].size = Len(m.audio)
      <4>1. n - 1 \in Nat /\ n - 1 + 1 = n /\ 0 \in 0 .. b - 1
        BY DEF FrameSizes
      <4>2. n * b = (n - 1) * b + b
        BY <4>1, InFrame
      <4>3. Len(m.audio) = n * b
        BY <1>8, <2>1 DEF Framewise
      <4> QED
        BY <3>4, <4>2, <4>3
    <3>6. sound = [i \in 1 .. n |-> Sounds(m.audio, (i - 1) * b, b)]
      <4>1. sound = [i \in DOMAIN frames |-> Sounds(m.audio, frames[i].at, frames[i].size)]
        BY <1>6, <1>10, <2>1, <3>1, <3>4, <3>5 DEF decode_with_gaps, decode_amrnb
      <4> QED
        BY <3>4, <4>1
    <3>7. ASSUME NEW i \in 1 .. n
          PROVE  Sounds(m.audio, (i - 1) * b, b) = Right(i)
      <4>1. i - 1 \in Nat /\ i - 1 < n /\ i <= n
        OBVIOUS
      <4>2. Holding(i - 1, b, size) \subseteq arrived
        BY <1>8, <2>1, <4>1
      <4> QED
        BY <1>8, <4>1, <4>2
    <3>8. DOMAIN sound = 1 .. n /\ Len(sound) = n
      BY <3>6
    <3>9. payload_duration_ms(speech, m) = FrameMs(speech) * n
      BY <2>1, <3>1, <3>4 DEF payload_duration_ms
    <3> QED
      BY <3>6, <3>7, <3>8, <3>9
  <2>2. CASE ~(speech.codec = "amrnb" /\ m.gaps = {})
    <3>1. sound = Strides(speech, m)
      BY <1>10, <2>2 DEF decode_with_gaps, decode_amrnb
    <3>2. PICK blocks \in Nat : blocks = whole \div b
      BY <1>9
    <3>3. sound = [i \in 1 .. blocks |->
                     IF frame_overlaps_gap((i - 1) * b, b, m.gaps) THEN Concealed
                     ELSE Sounds(m.audio, (i - 1) * b, b)]
      BY <1>2, <1>6, <3>1, <3>2 DEF Strides
    <3>4. ASSUME NEW i \in 1 .. blocks
          PROVE  sound[i] = Right(i)
      <4>1. PICK f \in Nat : f = i - 1
        OBVIOUS
      <4>2. sound[i] = IF frame_overlaps_gap(f * b, b, m.gaps) THEN Concealed
                       ELSE Sounds(m.audio, f * b, b)
        BY <3>3, <4>1
      <4>3. (i <= n <=> f < n) /\ f < blocks
        BY <4>1
      <4>4. CASE f < n
        BY <1>8, <4>1, <4>2, <4>3, <4>4
      <4>5. CASE ~(f < n)
        <5>1. frame_overlaps_gap(f * b, b, m.gaps)
          BY <1>8, <3>2, <4>3, <4>5
        <5> QED
          BY <4>2, <4>3, <4>5, <5>1
      <4> QED
        BY <4>4, <4>5
    <3>5. DOMAIN sound = 1 .. blocks /\ Len(sound) = blocks
      BY <3>3
    <3>6. payload_duration_ms(speech, m) = FrameMs(speech) * blocks
      BY <1>2, <1>6, <2>2, <3>2 DEF payload_duration_ms
    <3>7. blocks >= n /\ (total - 1 \in arrived => blocks = n)
      BY <1>8, <1>9, <3>2
    <3> QED
      BY <3>4, <3>5, <3>6, <3>7
  <2> QED
    BY <2>1, <2>2
<1>12. (Len(encoded(speech)) - 1) \div size = total - 1
  <2>1. Len(encoded(speech)) = len
    BY <1>1, <1>2, <1>7, Encodes DEF Framewise
  <2>2. len # 0
    <3>1. 0 \div b = 0
      BY DEF FrameSizes
    <3> QED
      BY <1>9, <3>1
  <2> QED
    BY <1>4, <1>7, <2>1, <2>2, ChunkOrder
<1> HIDE DEF Right
<1>13. \A i : Right(i) = IF i <= n /\ { p \div size : p \in (i - 1) * b .. (i - 1 + 1) * b - 1 }
                                          \subseteq arrived
                         THEN i - 1 ELSE Concealed
  BY DEF Right, Holding
<1> QED
  BY <1>1, <1>2, <1>5, <1>10, <1>11, <1>12, <1>13 DEF HeardInTime

\* A recording of any number of chunks, in every codec mode, is heard in time
\* whichever of its chunks arrived: what came whole sounds where it belongs,
\* the rest is concealed, and the duration shown is the one that plays
\* (codec/imp.rs, decode_amrnb and decode_codec2; codec/mod.rs,
\* payload_duration_ms_with_gaps; finalize.rs).
THEOREM PartialsCorrect == LinkSpec => []PartialsHeardInTime
<1>1. ClipInv => PartialsHeardInTime
  <2> SUFFICES ASSUME ClipInv, clip.at = "asked",
                      NEW r, r = clip.request,
                      NEW size, size = recommended_chunk_size(r.preset),
                      NEW chunks, chunks = div_ceil(r.len, size),
                      NEW c \in Recorders,
                      NEW speech, speech = [codec |-> c.codec, param |-> c.param,
                                            frames |-> r.len \div FrameBytes(c)],
                      chunks \in 1 .. MaxHeard, r.len % FrameBytes(c) = 0,
                      NEW arrived \in SUBSET (0 .. chunks - 1)
               PROVE  HeardInTime(speech, size, arrived)
    BY DEF PartialsHeardInTime
  <2>1. r.len \in Nat /\ size \in ChunkSizes
    BY RequestsAssumption, Sizes DEF ClipInv
  <2>2. PICK b \in FrameSizes : b = FrameBytes(c)
    BY RecorderSizes
  <2>3. PICK n : n = r.len \div b
    OBVIOUS
  <2>4. n \in Nat /\ n * b = r.len
    BY <2>1, <2>2, <2>3, FramesFit
  <2>5. n # 0
    <3>1. chunks # 0
      BY HeardAssumption
    <3>2. r.len # 0
      BY <2>1, <3>1, Cuts
    <3>3. 0 * b = 0
      BY DEF FrameSizes
    <3> QED
      BY <2>4, <3>2, <3>3
  <2> QED
    BY <2>1, <2>2, <2>3, <2>4, <2>5, AllHeardInTime
<1> QED
  BY <1>1, ClipAsked, PTL

=============================================================================
