------------------------ MODULE VoiceAssemblerProofs ------------------------
(***************************************************************************)
(* Proofs about VoiceAssembler, and about VoiceRuntime that reconfigures   *)
(* it, for every value of their constants.                                 *)
(*                                                                         *)
(* The inductive invariant is one fact about each slot (SlotOK: its        *)
(* counters, lengths and final-chunk length belong together) and one about *)
(* the table (TableOK).                                                    *)
(*                                                                         *)
(* The second part shows that the assembler implements SettledOnce.  The   *)
(* list of settled keys is read as a function from keys to times (At), as  *)
(* the refinement mapping does; what pruning and pushing do to it          *)
(* (Forgets, Follows) is all that a step of accept or tick needs.          *)
(*                                                                         *)
(* The last part is about the updaters: the round cap covers the timeout   *)
(* in every configuration one of them holds, in force or cloned, so that   *)
(* no store, however old its clone, breaks it.  It rests on the cap's own  *)
(* bound of 65535 rounds never being the smaller one.                      *)
(***************************************************************************)
EXTENDS VoiceRuntime, FiniteSetTheorems, SequenceTheorems, WellFoundedInduction, TLAPS

\* What holds of every slot between two calls.
SlotOK(e) ==
    /\ e \in SlotType
    /\ e.header.total <= MaxShards
    /\ CountsMatch(e)
    /\ LengthsFit(e)
    /\ e.chunk_size = NoLen => e.parity_shards = {}
    /\ e.last_data_len = e.data_shards[LastIdx(e)]

\* What the NACK rounds of a slot are counted in.
Timers(e) == <<e.started_at, e.last_chunk_at, e.last_data_at, e.nack_rounds>>

\* SilencePaid at a given time, so that it can be said of the next state.
SilencePaidAt(e, t) ==
    /\ e.started_at <= e.last_data_at /\ e.last_data_at <= t
    /\ e.started_at <= e.last_chunk_at /\ e.last_chunk_at <= t
    /\ \A w \in Windows :
          (\A v \in Windows : w <= v) => w * e.nack_rounds <= e.last_chunk_at - e.started_at

\* What holds of a slot that is in the table at time t.
SlotInv(e, t) ==
    SlotOK(e) /\ ~Complete(e) /\ ~CanRecover(e) /\ SilencePaidAt(e, t)

-----------------------------------------------------------------------------
(* Slots *)

\* What SlotOK says of a slot's fields, one by one.
LEMMA SlotFields ==
    ASSUME NEW e, SlotOK(e)
    PROVE  /\ e \in SlotType
           /\ e.header.total \in Nat \ {0} /\ e.header.parity \in Nat
           /\ e.header.total <= MaxShards
           /\ e.data_shards \in [Slots -> Nat \cup {NoLen}]
           /\ e.chunk_size \in Nat \cup {NoLen}
           /\ e.received_data \in Nat /\ e.received_parity \in Nat
           /\ LastIdx(e) \in Slots
           /\ LastIdx(e) = e.header.total - 1
           /\ e.last_data_len = e.data_shards[LastIdx(e)]
<1>1. e \in SlotType /\ e.header.total <= MaxShards
      /\ e.last_data_len = e.data_shards[LastIdx(e)]
    BY DEF SlotOK
<1>2. e.header \in HeaderType
    BY <1>1 DEF SlotType
<1>3. e.header.total \in Nat \ {0} /\ e.header.parity \in Nat
    BY <1>2 DEF HeaderType
<1>4. LastIdx(e) \in Slots /\ LastIdx(e) = e.header.total - 1
    BY <1>1, <1>3, ConstantsAssumption DEF LastIdx, Slots
<1> QED BY <1>1, <1>3, <1>4 DEF SlotType

\* Both shard sets of a slot are finite, and counted.
LEMMA SlotFinite ==
    ASSUME NEW e, SlotOK(e)
    PROVE  /\ IsFiniteSet(Slots)
           /\ IsFiniteSet(Stored(e)) /\ IsFiniteSet(e.parity_shards)
           /\ Cardinality(Stored(e)) = e.received_data
           /\ Cardinality(e.parity_shards) = e.received_parity
           /\ Stored(e) \in SUBSET Slots
           /\ Stored(e) \in SUBSET (0 .. LastIdx(e))
<1>2. IsFiniteSet(Slots)
    BY ConstantsAssumption, FS_Interval DEF Slots
<1>3. Stored(e) \in SUBSET Slots
    BY DEF Stored
<1>4. IsFiniteSet(Stored(e))
    BY <1>2, <1>3, FS_Subset
<1>5. e.parity_shards \in SUBSET (0 .. (e.header.parity - 1))
    BY DEF SlotOK, CountsMatch
<1>6. IsFiniteSet(0 .. (e.header.parity - 1))
    BY SlotFields, FS_Interval
<1>7. IsFiniteSet(e.parity_shards)
    BY <1>5, <1>6, FS_Subset
<1> QED BY <1>2, <1>3, <1>4, <1>7 DEF SlotOK, CountsMatch

\* pin_chunk_size leaves a sound slot sound, of a known chunk size.
LEMMA PinSound ==
    ASSUME NEW e, SlotOK(e), NEW len \in Nat, e.chunk_size \in {NoLen, len}
    PROVE  LET p == pin_chunk_size(e, len)
           IN  /\ SlotOK(p) /\ p.chunk_size = len
               /\ p.header = e.header /\ p.parity_shards = e.parity_shards
               /\ Timers(p) = Timers(e)
               /\ Stored(p) \in {Stored(e), Stored(e) \ {LastIdx(e)}}
<1> DEFINE last == LastIdx(e)
           p == pin_chunk_size(e, len)
<1> USE DEF NoLen
<1>f. /\ e \in SlotType
      /\ e.data_shards \in [Slots -> Nat \cup {NoLen}]
      /\ last \in Slots /\ last = e.header.total - 1
      /\ e.received_data \in Nat
      /\ e.last_data_len = e.data_shards[last]
    BY SlotFields
<1>1. CASE e.chunk_size # NoLen
    BY <1>1 DEF pin_chunk_size
<1>2. CASE e.chunk_size = NoLen /\ ~(e.data_shards[last] > len)
    <2>1. p = [e EXCEPT !.chunk_size = len]
        BY <1>2 DEF pin_chunk_size
    <2>2. /\ p \in SlotType /\ p.chunk_size = len /\ p.header = e.header
          /\ p.data_shards = e.data_shards /\ p.parity_shards = e.parity_shards
          /\ p.received_data = e.received_data
          /\ p.received_parity = e.received_parity
          /\ p.last_data_len = e.last_data_len /\ Timers(p) = Timers(e)
        BY <2>1, <1>f DEF SlotType, Timers
    <2>3. Stored(p) = Stored(e) /\ LastIdx(p) = last
        BY <2>2 DEF Stored, LastIdx
    <2>4. \A i \in Stored(e) : i = last /\ i \in Slots
        BY <1>2 DEF SlotOK, LengthsFit, Stored
    <2>5. LengthsFit(p)
        BY <1>2, <1>f, <2>2, <2>3, <2>4 DEF LengthsFit
    <2>6. CountsMatch(p)
        BY <2>2, <2>3 DEF SlotOK, CountsMatch
    <2> QED BY <1>f, <2>2, <2>3, <2>5, <2>6 DEF SlotOK
<1>3. CASE e.chunk_size = NoLen /\ e.data_shards[last] > len
    <2>1. p = [e EXCEPT !.chunk_size = len, !.data_shards[last] = NoLen,
                        !.received_data = @ - 1, !.last_data_len = NoLen]
        BY <1>3 DEF pin_chunk_size
    <2>2. last \in Stored(e)
        BY <1>3, <1>f DEF Stored
    <2>3. /\ Cardinality(Stored(e) \ {last}) = e.received_data - 1
          /\ e.received_data - 1 \in Nat
        <3>1. /\ Cardinality(Stored(e)) = e.received_data
              /\ IsFiniteSet(Stored(e))
            BY SlotFinite
        <3>2. Cardinality(Stored(e) \ {last}) = Cardinality(Stored(e)) - 1
            BY <2>2, <3>1, FS_RemoveElement
        <3>3. Cardinality(Stored(e) \ {last}) \in Nat
            BY <3>1, FS_RemoveElement, FS_CardinalityType
        <3> QED BY <3>1, <3>2, <3>3
    <2>d. [e.data_shards EXCEPT ![last] = NoLen] \in [Slots -> Nat \cup {NoLen}]
        BY <1>f
    <2>4. /\ p \in SlotType /\ p.chunk_size = len /\ p.header = e.header
          /\ p.data_shards = [e.data_shards EXCEPT ![last] = NoLen]
          /\ p.parity_shards = e.parity_shards
          /\ p.received_data = e.received_data - 1
          /\ p.received_parity = e.received_parity
          /\ p.last_data_len = NoLen /\ Timers(p) = Timers(e)
        BY <2>1, <2>3, <2>d, <1>f DEF SlotType, Timers
    <2>5. /\ \A i \in Slots : p.data_shards[i] =
                    IF i = last THEN NoLen ELSE e.data_shards[i]
          /\ Stored(p) = Stored(e) \ {last} /\ LastIdx(p) = last
        BY <1>f, <2>4 DEF Stored, LastIdx
    <2>6. Stored(p) = {}
        BY <1>3, <2>5 DEF SlotOK, LengthsFit
    <2>7. LengthsFit(p)
        BY <2>6 DEF LengthsFit
    <2>8. CountsMatch(p)
        BY <2>3, <2>4, <2>5, <2>6 DEF SlotOK, CountsMatch
    <2> QED BY <1>f, <2>4, <2>5, <2>7, <2>8 DEF SlotOK
<1> QED BY <1>1, <1>2, <1>3

\* A slot of a known chunk size after one more data chunk, and after the
\* final chunk of a slot whose chunk size is still unknown.
LEMMA StoreDataSound ==
    ASSUME NEW e, SlotOK(e), NEW i \in 0 .. LastIdx(e), i \notin Stored(e),
           NEW len \in Nat,
           IF i = LastIdx(e) THEN e.chunk_size = NoLen \/ len <= e.chunk_size
                             ELSE len = e.chunk_size,
           NEW r \in SlotType,
           r.header = e.header, r.chunk_size = e.chunk_size,
           r.parity_shards = e.parity_shards,
           r.received_parity = e.received_parity,
           r.data_shards = [e.data_shards EXCEPT ![i] = len],
           r.received_data = e.received_data + 1,
           r.last_data_len = IF i = LastIdx(e) THEN len ELSE e.last_data_len
    PROVE  SlotOK(r)
<1> USE DEF NoLen
<1>f. /\ e \in SlotType
      /\ e.data_shards \in [Slots -> Nat \cup {NoLen}]
      /\ LastIdx(e) \in Slots /\ LastIdx(e) = e.header.total - 1
      /\ e.received_data \in Nat
      /\ e.last_data_len = e.data_shards[LastIdx(e)]
    BY SlotFields
<1>i. i \in Slots
    BY <1>f, SlotFields, ConstantsAssumption DEF Slots
<1>2. /\ \A j \in Slots : r.data_shards[j] = IF j = i THEN len ELSE e.data_shards[j]
      /\ LastIdx(r) = LastIdx(e)
    BY <1>f DEF LastIdx
<1>3. Stored(r) = Stored(e) \cup {i}
    BY <1>2, <1>i DEF Stored
<1>4. Cardinality(Stored(r)) = e.received_data + 1
    <2>1. IsFiniteSet(Stored(e)) /\ Cardinality(Stored(e)) = e.received_data
        BY SlotFinite
    <2> QED BY <1>3, <2>1, FS_AddElement
<1>5. CountsMatch(r)
    BY <1>2, <1>3, <1>4 DEF SlotOK, CountsMatch
<1>6. LengthsFit(r)
    BY <1>2, <1>3, <1>i DEF SlotOK, LengthsFit, Stored
<1>7. r.last_data_len = r.data_shards[LastIdx(r)]
    BY <1>f, <1>2
<1> QED BY <1>5, <1>6, <1>7 DEF SlotOK

\* ingest_data and ingest_parity keep a slot sound when its checks let the
\* frame through.
LEMMA IngestDataSound ==
    ASSUME NEW e, SlotOK(e), NEW f, f.type = "data", f.len \in Nat,
           f.header.total = e.header.total, f.idx \in 0 .. LastIdx(e),
           ~IsDuplicate(e, f), LengthFits(e, f)
    PROVE  /\ SlotOK(ingest_data(e, f))
           /\ ingest_data(e, f).header = e.header
           /\ Timers(ingest_data(e, f)) = Timers(e)
<1>1. LastIdx(e) = f.header.total - 1 /\ f.idx \notin Stored(e)
    BY SlotFields DEF LastIdx, IsDuplicate
<1>2. CASE FixesChunkSize(f)
    <2>1. f.idx # LastIdx(e) /\ e.chunk_size \in {NoLen, f.len}
        BY <1>1, <1>2 DEF FixesChunkSize, LengthFits
    <2> DEFINE p == pin_chunk_size(e, f.len)
    <2>2. /\ SlotOK(p) /\ p.chunk_size = f.len /\ p.header = e.header
          /\ Timers(p) = Timers(e)
          /\ Stored(p) \in SUBSET Stored(e)
        BY <2>1, PinSound
    <2>3. LastIdx(p) = LastIdx(e) /\ f.idx \notin Stored(p)
        BY <1>1, <2>2 DEF LastIdx
    <2> HIDE DEF p
    <2> DEFINE r == [p EXCEPT !.data_shards[f.idx] = f.len, !.received_data = @ + 1]
    <2>4. /\ p \in SlotType /\ p.received_data + 1 \in Nat
          /\ p.data_shards \in [Slots -> Nat \cup {NoLen}]
        BY <2>2, SlotFields
    <2>d. [p.data_shards EXCEPT ![f.idx] = f.len] \in [Slots -> Nat \cup {NoLen}]
        BY <2>4
    <2>5. /\ r \in SlotType /\ r.header = p.header /\ r.chunk_size = p.chunk_size
          /\ r.parity_shards = p.parity_shards
          /\ r.received_parity = p.received_parity
          /\ r.data_shards = [p.data_shards EXCEPT ![f.idx] = f.len]
          /\ r.received_data = p.received_data + 1
          /\ r.last_data_len = p.last_data_len /\ Timers(r) = Timers(p)
        BY <2>4, <2>d DEF SlotType, Timers
    <2> HIDE DEF r
    <2>8. SlotOK(r)
        BY <2>1, <2>2, <2>3, <2>5, StoreDataSound
    <2>6. ingest_data(e, f) = r
        BY <1>2 DEF ingest_data, p, r
    <2> QED BY <2>2, <2>5, <2>6, <2>8
<1>3. CASE ~FixesChunkSize(f)
    <2>1. f.idx = LastIdx(e) /\ (e.chunk_size = NoLen \/ f.len <= e.chunk_size)
        BY <1>1, <1>3 DEF FixesChunkSize, LengthFits
    <2> DEFINE r == [e EXCEPT !.data_shards[f.idx] = f.len, !.received_data = @ + 1,
                              !.last_data_len = f.len]
    <2>2. /\ e \in SlotType /\ e.received_data + 1 \in Nat
          /\ e.data_shards \in [Slots -> Nat \cup {NoLen}]
        BY SlotFields
    <2>d. [e.data_shards EXCEPT ![f.idx] = f.len] \in [Slots -> Nat \cup {NoLen}]
        BY <2>2
    <2>3. /\ r \in SlotType /\ r.header = e.header /\ r.chunk_size = e.chunk_size
          /\ r.parity_shards = e.parity_shards
          /\ r.received_parity = e.received_parity
          /\ r.data_shards = [e.data_shards EXCEPT ![f.idx] = f.len]
          /\ r.received_data = e.received_data + 1
          /\ r.last_data_len = f.len /\ Timers(r) = Timers(e)
        BY <2>2, <2>d DEF SlotType, Timers
    <2> HIDE DEF r
    <2>5. SlotOK(r)
        BY <1>1, <2>1, <2>3, StoreDataSound
    <2>4. ingest_data(e, f) = r
        BY <1>3 DEF ingest_data, r
    <2> QED BY <2>3, <2>4, <2>5
<1> QED BY <1>2, <1>3

LEMMA IngestParitySound ==
    ASSUME NEW e, SlotOK(e), NEW f, f.type = "parity", f.len \in Nat,
           f.idx \in 0 .. (e.header.parity - 1),
           ~IsDuplicate(e, f), LengthFits(e, f)
    PROVE  /\ SlotOK(ingest_parity(e, f))
           /\ ingest_parity(e, f).header = e.header
           /\ Timers(ingest_parity(e, f)) = Timers(e)
<1> USE DEF NoLen
<1>1. f.idx \notin e.parity_shards /\ e.chunk_size \in {NoLen, f.len}
    BY DEF IsDuplicate, LengthFits, FixesChunkSize
<1> DEFINE p == pin_chunk_size(e, f.len)
<1>2. /\ SlotOK(p) /\ p.chunk_size = f.len /\ p.header = e.header
      /\ Timers(p) = Timers(e)
      /\ p.parity_shards = e.parity_shards
    BY <1>1, PinSound
<1> HIDE DEF p
<1> DEFINE r == [p EXCEPT !.parity_shards = @ \cup {f.idx}, !.received_parity = @ + 1]
<1>3. p \in SlotType /\ p.received_parity \in Nat /\ p.received_parity + 1 \in Nat
    BY <1>2, SlotFields
<1>4. p.parity_shards \cup {f.idx} \in SUBSET Nat
    BY <1>3, SlotFields DEF SlotType
<1>5. /\ r \in SlotType /\ r.header = p.header /\ r.chunk_size = p.chunk_size
      /\ r.data_shards = p.data_shards /\ r.last_data_len = p.last_data_len
      /\ r.parity_shards = p.parity_shards \cup {f.idx}
      /\ r.received_data = p.received_data
      /\ r.received_parity = p.received_parity + 1 /\ Timers(r) = Timers(p)
    BY <1>3, <1>4 DEF SlotType, Timers
<1> HIDE DEF r
<1>6. Stored(r) = Stored(p) /\ LastIdx(r) = LastIdx(p)
    BY <1>5 DEF Stored, LastIdx
<1>7. Cardinality(r.parity_shards) = p.received_parity + 1
    <2>1. /\ IsFiniteSet(p.parity_shards)
          /\ Cardinality(p.parity_shards) = p.received_parity
        BY <1>2, SlotFinite
    <2> QED BY <1>1, <1>2, <1>5, <2>1, FS_AddElement
<1>8. CountsMatch(r)
    BY <1>2, <1>5, <1>6, <1>7 DEF SlotOK, CountsMatch
<1>9. LengthsFit(r)
    BY <1>2, <1>5, <1>6 DEF SlotOK, LengthsFit
<1>10. SlotOK(r)
    BY <1>2, <1>5, <1>6, <1>8, <1>9 DEF SlotOK
<1> QED BY <1>2, <1>5, <1>10 DEF ingest_parity, p, r

\* Recovery leaves a sound slot sound, and whole if it could recover at all.
LEMMA RecoverSound ==
    ASSUME NEW e, SlotOK(e)
    PROVE  LET r == try_fec_recover(e)
           IN  /\ SlotOK(r) /\ r.header = e.header /\ Timers(r) = Timers(e)
               /\ CanRecover(e) => Complete(r)
               /\ ~CanRecover(e) => r = e
<1> DEFINE last == LastIdx(e)
           lost == missing_data_indices(e)
           r == try_fec_recover(e)
<1> USE DEF NoLen
<1>1. CASE ~CanRecover(e)
    BY <1>1 DEF try_fec_recover
<1>2. CASE CanRecover(e)
    <2>f. /\ e \in SlotType
          /\ e.data_shards \in [Slots -> Nat \cup {NoLen}]
          /\ last \in Slots /\ last = e.header.total - 1
          /\ e.header.total \in Nat \ {0} /\ e.header.total <= MaxShards
          /\ e.received_data \in Nat
          /\ e.last_data_len = e.data_shards[last]
        BY SlotFields
    <2>c. e.chunk_size \in Nat /\ e.chunk_size # NoLen
        BY <1>2, SlotFields DEF CanRecover
    <2>1. last \in Stored(e)
        BY <1>2, <2>f DEF CanRecover, Stored
    <2>2. /\ lost \in SUBSET Slots /\ last \notin lost
          /\ lost \cap Stored(e) = {}
          /\ lost \cup Stored(e) = 0 .. last
        <3>1. 0 .. last \subseteq Slots
            BY <2>f, ConstantsAssumption DEF Slots
        <3> QED BY <2>1, <3>1, SlotFinite DEF missing_data_indices
    <2>3. /\ Cardinality(lost) = e.header.total - e.received_data
          /\ Cardinality(lost) \in Nat
        <3>1. /\ IsFiniteSet(0 .. last) /\ Cardinality(0 .. last) = e.header.total
            <4>1. last \in Int /\ ~(0 > last) /\ last - 0 + 1 = e.header.total
                BY <2>f
            <4> HIDE DEF last
            <4>2. /\ IsFiniteSet(0 .. last)
                  /\ Cardinality(0 .. last) = IF 0 > last THEN 0 ELSE last - 0 + 1
                BY <4>1, FS_Interval
            <4> QED BY <4>1, <4>2
        <3>2. Stored(e) \in SUBSET (0 .. last) /\ Cardinality(Stored(e)) = e.received_data
            BY SlotFinite
        <3>3. (0 .. last) \cap Stored(e) = Stored(e)
            BY <3>2
        <3>4. /\ IsFiniteSet((0 .. last) \ Stored(e))
              /\ Cardinality((0 .. last) \ Stored(e)) =
                     Cardinality(0 .. last) - Cardinality((0 .. last) \cap Stored(e))
            BY <3>1, FS_Difference
        <3> QED BY <3>1, <3>2, <3>3, <3>4, FS_CardinalityType DEF missing_data_indices
    <2> DEFINE ds == [i \in Slots |->
                         IF i \notin lost THEN e.data_shards[i]
                         ELSE IF i = LastIdx(e) THEN e.last_data_len
                         ELSE e.chunk_size]
    <2>4. ds \in [Slots -> Nat \cup {NoLen}]
        BY <2>f, <2>c
    <2>5. r = [e EXCEPT !.data_shards = ds,
                        !.received_data = @ + Cardinality(lost),
                        !.recovered_via_fec = @ + Cardinality(lost)]
        BY <1>2 DEF try_fec_recover
    <2>6. /\ e.received_data + Cardinality(lost) = e.header.total
          /\ e.received_data + Cardinality(lost) \in Nat
          /\ e.recovered_via_fec + Cardinality(lost) \in Nat
        BY <2>3, <2>f DEF SlotType
    <2> HIDE DEF ds, r
    <2>7. /\ r \in SlotType /\ r.header = e.header /\ r.chunk_size = e.chunk_size
          /\ r.data_shards = ds /\ r.last_data_len = e.last_data_len
          /\ r.parity_shards = e.parity_shards
          /\ r.received_data = e.header.total
          /\ r.received_parity = e.received_parity
          /\ Timers(r) = Timers(e)
        BY <2>f, <2>4, <2>5, <2>6 DEF SlotType, Timers
    <2>8. /\ LastIdx(r) = last
          /\ \A i \in Slots : r.data_shards[i] =
                 IF i \in lost THEN e.chunk_size ELSE e.data_shards[i]
        BY <2>2, <2>7 DEF LastIdx, ds
    <2>9. Stored(r) = 0 .. last
        BY <2>2, <2>8, <2>c DEF Stored
    <2>10. Cardinality(0 .. last) = e.header.total
        BY <2>f, FS_Interval
    <2>11. CountsMatch(r)
        BY <2>7, <2>8, <2>9, <2>10 DEF SlotOK, CountsMatch
    <2>12. LengthsFit(r)
        <3>1. \A i \in Stored(e) : IF i = last THEN e.data_shards[i] <= e.chunk_size
                                   ELSE e.data_shards[i] = e.chunk_size
            BY <2>c DEF SlotOK, LengthsFit
        <3>2. \A i \in 0 .. last : i \in Slots /\ (i \in lost \/ i \in Stored(e))
            BY <2>2, SlotFinite
        <3>3. \A i \in 0 .. last :
                  IF i = last THEN r.data_shards[i] <= e.chunk_size
                              ELSE r.data_shards[i] = e.chunk_size
            BY <2>1, <2>2, <2>8, <3>1, <3>2
        <3> QED BY <2>7, <2>8, <2>9, <2>c, <3>3 DEF LengthsFit
    <2>13. r.data_shards[last] = e.data_shards[last]
        BY <2>2, <2>8, <2>f
    <2>14. SlotOK(r)
        BY <2>f, <2>c, <2>7, <2>8, <2>11, <2>12, <2>13 DEF SlotOK
    <2>15. Complete(r)
        BY <2>7 DEF Complete
    <2> QED BY <1>2, <2>7, <2>14, <2>15 DEF r
<1> QED BY <1>1, <1>2

\* The fields of a frame.
LEMMA FrameFields ==
    ASSUME NEW f \in Frames
    PROVE  /\ f.from \in Senders /\ f.id \in MessageIds /\ f.to \in Dests
           /\ f.header \in HeaderType /\ f.header.total \in Nat \ {0}
           /\ f.header.parity \in Nat
           /\ f.len \in Nat /\ f.idx \in Slots
           /\ f.type \in {"data", "parity"}
           /\ f.type = "data" => f.idx \in 0 .. (f.header.total - 1)
           /\ f.type = "parity" => f.idx \in 0 .. (f.header.parity - 1)
<1>1. f \in [from : Senders, id : MessageIds, to : Dests, header : Headers,
             type : {"data", "parity"}, idx : Slots, len : Lens]
    BY DEF Frames
<1>2. f.idx < (IF f.type = "data" THEN f.header.total ELSE f.header.parity)
    BY DEF Frames
<1>3. f.header \in HeaderType /\ f.len \in Nat /\ f.idx \in Slots
    BY <1>1, ConstantsAssumption
<1>4. f.header.total \in Nat \ {0} /\ f.header.parity \in Nat
    BY <1>3 DEF HeaderType
<1>5. f.idx \in Nat
    BY <1>3, ConstantsAssumption DEF Slots
<1> QED BY <1>1, <1>2, <1>3, <1>4, <1>5

\* Windows are natural numbers, and a slot that has just begun has paid for
\* its rounds.
LEMMA FreshPaid ==
    ASSUME NEW e, NEW t \in Nat, e.started_at \in Nat, e.started_at <= t,
           e.last_data_at \in Nat, e.started_at <= e.last_data_at, e.last_data_at <= t,
           e.last_chunk_at = t, e.nack_rounds = 0
    PROVE  SilencePaidAt(e, t)
<1>1. \A w \in Windows : w \in Nat
    BY ConstantsAssumption DEF Windows, clamped, ConfigType, AtLeast
<1>2. \A w \in Windows : w * e.nack_rounds = 0
    BY <1>1
<1> QED BY <1>2 DEF SilencePaidAt

\* A slot as accept creates it.
LEMMA NewSlotInv ==
    ASSUME NEW f \in Frames, now \in Nat,
           f.header.total + f.header.parity <= MaxShards
    PROVE  SlotInv(NewSlot(f, InitialChunkSize(f)), now)
<1> DEFINE e == NewSlot(f, InitialChunkSize(f))
<1> USE DEF NoLen
<1>1. InitialChunkSize(f) \in Nat \cup {NoLen}
    BY FrameFields DEF InitialChunkSize
<1>2. /\ e \in SlotType /\ e.header = f.header
      /\ e.data_shards = [i \in Slots |-> NoLen] /\ e.parity_shards = {}
      /\ e.received_data = 0 /\ e.received_parity = 0 /\ e.last_data_len = NoLen
    BY <1>1, FrameFields DEF NewSlot, SlotType
<1>3. /\ f.header.total \in Nat \ {0} /\ f.header.parity \in Nat
    BY FrameFields
<1>4. SilencePaidAt(e, now)
    <2>1. /\ e.started_at = now /\ e.last_data_at = now /\ e.last_chunk_at = now
          /\ e.nack_rounds = 0
        BY DEF NewSlot
    <2> HIDE DEF e
    <2> QED BY <2>1, FreshPaid
<1> HIDE DEF e
<1>5. LastIdx(e) \in Slots /\ LastIdx(e) = f.header.total - 1
    <2>1. LastIdx(e) = f.header.total - 1
        BY <1>2 DEF LastIdx
    <2>2. f.header.total <= MaxShards /\ MaxShards \in Nat
        BY <1>3, ConstantsAssumption
    <2>3. f.header.total - 1 \in 0 .. (MaxShards - 1)
        BY <2>2, <1>3
    <2> QED BY <2>1, <2>3 DEF Slots
<1>6. Stored(e) = {}
    BY <1>2 DEF Stored
<1>7. CountsMatch(e)
    BY <1>2, <1>6, FS_EmptySet DEF CountsMatch
<1>8. LengthsFit(e)
    BY <1>6 DEF LengthsFit
<1>9. SlotOK(e)
    BY <1>2, <1>3, <1>5, <1>7, <1>8, ConstantsAssumption DEF SlotOK
<1>10. ~Complete(e) /\ ~CanRecover(e)
    BY <1>2, <1>3 DEF Complete, CanRecover
<1> QED BY <1>4, <1>9, <1>10 DEF SlotInv, e

\* A frame that agrees with the template leaves the slot as it was, but for
\* more parity announced, which alone makes nothing recoverable.
LEMMA TouchedInv ==
    ASSUME NEW e, SlotInv(e, now), now \in Nat, NEW f \in Frames,
           validate_template(e, f)
    PROVE  LET r == Touched(e, f)
           IN  /\ SlotInv(r, now) /\ r.header = f.header
               /\ Stored(r) = Stored(e) /\ r.parity_shards = e.parity_shards
               /\ r.received_data = e.received_data /\ r.chunk_size = e.chunk_size
<1> DEFINE r == Touched(e, f)
<1> USE DEF NoLen
<1>f. e \in SlotType /\ e.header \in HeaderType /\ SlotOK(e)
    BY DEF SlotInv, SlotOK, SlotType
<1>1. f.header.total = e.header.total /\ f.header.parity >= e.header.parity
      /\ f.header.codec = e.header.codec /\ f.header.stream = e.header.stream
    BY DEF validate_template
<1>2. [e.header EXCEPT !.parity = f.header.parity] = f.header
    BY <1>f, <1>1, FrameFields DEF HeaderType
<1>3. r = [e EXCEPT !.header = f.header, !.last_data_at = now]
    BY <1>2 DEF Touched
<1>4. /\ r \in SlotType /\ r.header = f.header /\ r.chunk_size = e.chunk_size
      /\ r.data_shards = e.data_shards /\ r.parity_shards = e.parity_shards
      /\ r.received_data = e.received_data
      /\ r.received_parity = e.received_parity
      /\ r.last_data_len = e.last_data_len /\ r.last_data_at = now
      /\ r.started_at = e.started_at /\ r.last_chunk_at = e.last_chunk_at
      /\ r.nack_rounds = e.nack_rounds
    BY <1>f, <1>3, FrameFields DEF SlotType
<1> HIDE DEF r
<1>5. Stored(r) = Stored(e) /\ LastIdx(r) = LastIdx(e)
    BY <1>1, <1>4 DEF Stored, LastIdx
<1>6. CountsMatch(r)
    <2>1. e.parity_shards \subseteq 0 .. (f.header.parity - 1)
        BY <1>1, <1>f, SlotFields, FrameFields DEF SlotOK, CountsMatch
    <2> QED BY <2>1, <1>f, <1>4, <1>5 DEF SlotOK, CountsMatch
<1>7. LengthsFit(r)
    BY <1>f, <1>4, <1>5 DEF SlotOK, LengthsFit
<1>8. SlotOK(r)
    BY <1>1, <1>f, <1>4, <1>5, <1>6, <1>7 DEF SlotOK
<1>9. ~Complete(r)
    BY <1>1, <1>4 DEF SlotInv, Complete
<1>10. ~CanRecover(r)
    <2>1. CASE e.header.parity > 0
        BY <2>1, <1>1, <1>4, <1>5 DEF SlotInv, CanRecover
    <2>2. CASE ~(e.header.parity > 0)
        <3>1. e.header.parity = 0 /\ e.header.total \in Nat \ {0}
            BY <2>2, <1>f, SlotFields
        <3>2. e.parity_shards = {}
            BY <1>f, <3>1 DEF SlotOK, CountsMatch
        <3>3. e.received_parity = 0
            BY <3>2, <1>f, FS_EmptySet DEF SlotOK, CountsMatch
        <3>4. Cardinality(Stored(e)) <= e.header.total /\ e.received_data \in Nat
            <4>0. LastIdx(e) \in Nat /\ LastIdx(e) - 0 + 1 = e.header.total
                BY <3>1, <1>f, SlotFields
            <4>1. /\ IsFiniteSet(0 .. LastIdx(e))
                  /\ Cardinality(0 .. LastIdx(e)) = e.header.total
                BY <4>0, FS_Interval
            <4>2. Stored(e) \in SUBSET (0 .. LastIdx(e))
                BY <1>f, SlotFinite
            <4>3. Cardinality(Stored(e)) <= Cardinality(0 .. LastIdx(e))
                BY <4>1, <4>2, FS_Subset
            <4> QED BY <4>1, <4>3, <1>f, SlotFields
        <3>5. e.received_data = Cardinality(Stored(e)) /\ e.received_data # e.header.total
            BY <1>f DEF SlotOK, CountsMatch, SlotInv, Complete
        <3>6. e.received_data + e.received_parity < e.header.total
            BY <3>1, <3>3, <3>4, <3>5
        <3> QED BY <3>6, <3>1, <3>3, <3>4, <1>1, <1>4 DEF CanRecover
    <2> QED BY <2>1, <2>2
<1>11. SilencePaidAt(r, now)
    BY <1>f, <1>4 DEF SlotInv, SilencePaidAt, SlotType
<1> QED BY <1>4, <1>5, <1>8, <1>9, <1>10, <1>11 DEF SlotInv, r

\* A slot after a new shard: sound, and still worth waiting for unless it is
\* complete.
LEMMA IngestedInv ==
    ASSUME NEW e, SlotInv(e, now), now \in Nat, NEW f \in Frames,
           validate_template(e, f), ~IsDuplicate(e, f), LengthFits(e, f)
    PROVE  LET r == Ingested(e, f)
           IN  SlotOK(r) /\ (~Complete(r) => SlotInv(r, now))
<1> DEFINE g == Touched(e, f)
           h == IF f.type = "data" THEN ingest_data(g, f) ELSE ingest_parity(g, f)
           k == try_fec_recover(h)
           r == ResetBackoff(e, k)
<1>1. /\ SlotInv(g, now) /\ SlotOK(g) /\ g.header = f.header
      /\ Stored(g) = Stored(e) /\ g.parity_shards = e.parity_shards
      /\ g.chunk_size = e.chunk_size
    BY TouchedInv DEF SlotInv
<1>2. ~IsDuplicate(g, f) /\ LengthFits(g, f)
    <2>1. \A i : e.data_shards[i] = e.data_shards[i]
        OBVIOUS
    <2> QED BY <1>1 DEF IsDuplicate, LengthFits
<1> HIDE DEF g
<1>3. f.type \in {"data", "parity"} /\ f.len \in Nat
    BY FrameFields
<1>4. SlotOK(h) /\ h.header = g.header /\ Timers(h) = Timers(g)
    <2>1. CASE f.type = "data"
        <3>1. f.idx \in 0 .. LastIdx(g)
            BY <2>1, <1>1, FrameFields DEF LastIdx
        <3> QED BY <2>1, <3>1, <1>1, <1>2, <1>3, IngestDataSound
    <2>2. CASE f.type = "parity"
        <3>1. f.idx \in 0 .. (g.header.parity - 1)
            BY <2>2, <1>1, FrameFields
        <3> QED BY <2>2, <3>1, <1>1, <1>2, <1>3, IngestParitySound
    <2> QED BY <1>3, <2>1, <2>2
<1> HIDE DEF h
<1>5. /\ SlotOK(k) /\ Timers(k) = Timers(g)
      /\ CanRecover(h) => Complete(k)
      /\ ~CanRecover(h) => k = h
    BY <1>4, RecoverSound
<1> HIDE DEF k
<1>6. ~Complete(k) => ~CanRecover(k)
    BY <1>5
<1>7. SilencePaidAt(k, now)
    BY <1>1, <1>5 DEF SlotInv, SilencePaidAt, Timers
<1>8. k \in SlotType
    BY <1>5 DEF SlotOK
<1>9. /\ SlotOK(r) /\ SilencePaidAt(r, now)
      /\ Complete(r) <=> Complete(k)
      /\ CanRecover(r) <=> CanRecover(k)
    <2>1. CASE k.received_data > e.received_data
        <3>1. r = [k EXCEPT !.nack_rounds = 0, !.last_chunk_at = now]
            BY <2>1 DEF ResetBackoff
        <3>2. /\ r \in SlotType /\ r.header = k.header /\ r.chunk_size = k.chunk_size
              /\ r.data_shards = k.data_shards /\ r.parity_shards = k.parity_shards
              /\ r.received_data = k.received_data
              /\ r.received_parity = k.received_parity
              /\ r.last_data_len = k.last_data_len
              /\ r.last_data_at = k.last_data_at /\ r.started_at = k.started_at
              /\ r.last_chunk_at = now /\ r.nack_rounds = 0
            <4> HIDE DEF r
            <4> QED BY <3>1, <1>8 DEF SlotType
        <3> HIDE DEF r
        <3>3. Stored(r) = Stored(k) /\ LastIdx(r) = LastIdx(k)
            BY <3>2 DEF Stored, LastIdx
        <3>4. SlotOK(r)
            BY <1>5, <3>2, <3>3 DEF SlotOK, CountsMatch, LengthsFit
        <3>5. (Complete(r) <=> Complete(k)) /\ (CanRecover(r) <=> CanRecover(k))
            BY <3>2, <3>3 DEF Complete, CanRecover
        <3>6. /\ r.started_at \in Nat /\ r.started_at <= now /\ r.last_data_at \in Nat
              /\ r.started_at <= r.last_data_at /\ r.last_data_at <= now
            BY <1>7, <1>8, <3>2 DEF SilencePaidAt, SlotType
        <3> QED BY <3>2, <3>4, <3>5, <3>6, FreshPaid
    <2>2. CASE ~(k.received_data > e.received_data)
        BY <2>2, <1>5, <1>7 DEF ResetBackoff
    <2> QED BY <2>1, <2>2
<1> QED BY <1>6, <1>9 DEF Ingested, SlotInv, g, h, k, r

\* A strike, and a NACK round of a slot whose window has passed in silence,
\* leave the slot otherwise as it was.
LEMMA StruckInv ==
    ASSUME NEW e, NEW t, SlotInv(e, t)
    PROVE  SlotInv([e EXCEPT !.validation_strikes = @ + 1], t)
<1> DEFINE r == [e EXCEPT !.validation_strikes = @ + 1]
<1>1. e \in SlotType /\ e.validation_strikes + 1 \in Nat
    BY DEF SlotInv, SlotOK, SlotType
<1>2. /\ r \in SlotType /\ r.header = e.header /\ r.chunk_size = e.chunk_size
      /\ r.data_shards = e.data_shards /\ r.parity_shards = e.parity_shards
      /\ r.received_data = e.received_data
      /\ r.received_parity = e.received_parity
      /\ r.last_data_len = e.last_data_len
      /\ r.last_data_at = e.last_data_at /\ r.started_at = e.started_at
      /\ r.last_chunk_at = e.last_chunk_at /\ r.nack_rounds = e.nack_rounds
    BY <1>1 DEF SlotType
<1> HIDE DEF r
<1>3. Stored(r) = Stored(e) /\ LastIdx(r) = LastIdx(e)
    BY <1>2 DEF Stored, LastIdx
<1>4. SlotOK(r)
    BY <1>2, <1>3 DEF SlotInv, SlotOK, CountsMatch, LengthsFit
<1>5. ~Complete(r) /\ ~CanRecover(r)
    BY <1>2, <1>3 DEF SlotInv, Complete, CanRecover
<1>6. SilencePaidAt(r, t)
    BY <1>2 DEF SlotInv, SilencePaidAt
<1> QED BY <1>4, <1>5, <1>6 DEF SlotInv, r

\* The quiet timer moves by at least one NACK window a round.
LEMMA WindowGrows ==
    ASSUME NEW e, e.nack_rounds \in Nat, cfg \in ConfigType,
           cfg.nack_backoff_base # 0
    PROVE  /\ effective_window(e) \in Nat
           /\ cfg.nack_window <= effective_window(e)
<1> DEFINE b == cfg.nack_backoff_base
           factors == <<1, b, b * b, b * b * b, b * b * b * b>>
           n == AtMost(e.nack_rounds, 4) + 1
<1>1. b \in Nat \ {0} /\ cfg.nack_window \in Nat
    BY DEF ConfigType
<1>2. n \in 1 .. 5
    BY DEF AtMost
<1> HIDE DEF b
<1>3. b * b \in Nat \ {0}
    BY <1>1
<1>4. b * b * b \in Nat \ {0}
    BY <1>1, <1>3
<1>5. b * b * b * b \in Nat \ {0}
    BY <1>1, <1>4
<1> HIDE DEF n
<1>6. factors[n] \in Nat \ {0}
    BY <1>1, <1>2, <1>3, <1>4, <1>5
<1> HIDE DEF factors
<1>7. \A m \in Nat \ {0}, w \in Nat : w * m \in Nat /\ w <= w * m
    OBVIOUS
<1>8. effective_window(e) = cfg.nack_window * factors[n]
    BY DEF effective_window, factors, n, b
<1> QED BY <1>1, <1>6, <1>7, <1>8

LEMMA AfterNackInv ==
    ASSUME NEW e, SlotInv(e, now), now \in Nat, cfg \in ConfigType,
           cfg.nack_window \in Windows, NackDue(e)
    PROVE  SlotInv(AfterNack(e), now)
<1> DEFINE r == AfterNack(e)
           win == effective_window(e)
<1>1. /\ e \in SlotType /\ e.nack_rounds \in Nat /\ e.last_chunk_at \in Nat
      /\ e.started_at \in Nat
    BY DEF SlotInv, SlotOK, SlotType
<1>2. /\ win \in Nat /\ cfg.nack_window <= win
      /\ now - e.last_chunk_at >= win
    BY <1>1, WindowGrows DEF NackDue, nack_enabled
<1> HIDE DEF win
<1>3. r = [e EXCEPT !.nack_rounds = @ + 1, !.last_chunk_at = @ + win]
    BY DEF AfterNack, win
<1>4. e.nack_rounds + 1 \in Nat /\ e.last_chunk_at + win \in Nat
    BY <1>1, <1>2
<1> HIDE DEF r
<1>5. /\ r \in SlotType /\ r.header = e.header /\ r.chunk_size = e.chunk_size
      /\ r.data_shards = e.data_shards /\ r.parity_shards = e.parity_shards
      /\ r.received_data = e.received_data
      /\ r.received_parity = e.received_parity
      /\ r.last_data_len = e.last_data_len
      /\ r.last_data_at = e.last_data_at /\ r.started_at = e.started_at
      /\ r.last_chunk_at = e.last_chunk_at + win
      /\ r.nack_rounds = e.nack_rounds + 1
    BY <1>1, <1>3, <1>4 DEF SlotType
<1>6. Stored(r) = Stored(e) /\ LastIdx(r) = LastIdx(e)
    BY <1>5 DEF Stored, LastIdx
<1>7. SlotOK(r)
    BY <1>5, <1>6 DEF SlotInv, SlotOK, CountsMatch, LengthsFit
<1>8. ~Complete(r) /\ ~CanRecover(r)
    BY <1>5, <1>6 DEF SlotInv, Complete, CanRecover
<1>9. SilencePaidAt(r, now)
    <2>1. /\ e.started_at <= r.last_chunk_at /\ r.last_chunk_at <= now
          /\ e.started_at <= e.last_data_at /\ e.last_data_at <= now
        BY <1>1, <1>2, <1>5 DEF SlotInv, SilencePaidAt
    <2>2. ASSUME NEW w \in Windows, \A v \in Windows : w <= v
          PROVE  w * r.nack_rounds <= r.last_chunk_at - r.started_at
        <3>1. w \in Nat
            BY ConstantsAssumption DEF Windows, clamped, ConfigType, AtLeast
        <3>2. w <= win
            BY <2>2, <3>1, <1>2 DEF ConfigType
        <3>3. w * e.nack_rounds <= e.last_chunk_at - e.started_at
            BY <2>2 DEF SlotInv, SilencePaidAt
        <3>4. w * (e.nack_rounds + 1) = w * e.nack_rounds + w
            BY <3>1, <1>1
        <3>5. w * e.nack_rounds \in Nat
            BY <3>1, <1>1
        <3> QED BY <1>1, <1>2, <1>5, <3>1, <3>2, <3>3, <3>4, <3>5
    <2> QED BY <1>5, <2>1, <2>2 DEF SilencePaidAt
<1> QED BY <1>7, <1>8, <1>9 DEF SlotInv, r

-----------------------------------------------------------------------------
(* The per-sender counts *)

Of(D, s) == { k \in D : k[1] = s }
CountIn(cnt, s) == IF s \in DOMAIN cnt THEN cnt[s] ELSE 0

\* cnt counts the keys D by sender, without zero entries.
Counted(D, cnt) ==
    /\ DOMAIN cnt \subseteq Senders
    /\ cnt \in [DOMAIN cnt -> Nat \ {0}]
    /\ \A s \in Senders : CountIn(cnt, s) = Cardinality(Of(D, s))

\* per_sender_dec keeps the counts right when the slots of R are removed, and
\* raises none.
LEMMA DecCounted ==
    ASSUME NEW D, IsFiniteSet(D), NEW cnt, Counted(D, cnt), NEW R \in SUBSET D
    PROVE  LET c == per_sender_dec(cnt, R)
           IN  /\ Counted(D \ R, c)
               /\ \A s \in DOMAIN c : s \in DOMAIN cnt /\ c[s] <= cnt[s]
<1> DEFINE gone(s) == Cardinality({ k \in R : k[1] = s })
           kept == { s \in DOMAIN cnt : gone(s) = 0 \/ cnt[s] > gone(s) }
           c == per_sender_dec(cnt, R)
<1>1. c = [s \in kept |-> cnt[s] - gone(s)]
    BY DEF per_sender_dec
<1>2. ASSUME NEW s
      PROVE  /\ gone(s) \in Nat /\ Cardinality(Of(D, s)) \in Nat
             /\ Cardinality(Of(D \ R, s)) = Cardinality(Of(D, s)) - gone(s)
             /\ gone(s) <= Cardinality(Of(D, s))
    <2>1. IsFiniteSet(Of(D, s)) /\ Cardinality(Of(D, s)) \in Nat
        <3>1. Of(D, s) \in SUBSET D
            BY DEF Of
        <3>2. IsFiniteSet(Of(D, s))
            BY <3>1, FS_Subset
        <3> QED BY <3>2, FS_CardinalityType
    <2>2. Of(R, s) \in SUBSET Of(D, s)
        BY DEF Of
    <2>3. IsFiniteSet(Of(R, s)) /\ Cardinality(Of(R, s)) <= Cardinality(Of(D, s))
        BY <2>1, <2>2, FS_Subset
    <2>4. Cardinality(Of(R, s)) \in Nat
        BY <2>3, FS_CardinalityType
    <2>5. Of(D \ R, s) = Of(D, s) \ Of(R, s) /\ Of(D, s) \cap Of(R, s) = Of(R, s)
        BY DEF Of
    <2>6. Cardinality(Of(D, s) \ Of(R, s)) =
              Cardinality(Of(D, s)) - Cardinality(Of(D, s) \cap Of(R, s))
        BY <2>1, FS_Difference
    <2>7. gone(s) = Cardinality(Of(R, s))
        BY DEF Of
    <2> QED BY <2>1, <2>3, <2>4, <2>5, <2>6, <2>7
<1> HIDE DEF gone
<1>3. /\ DOMAIN c = kept
      /\ \A s \in kept : c[s] = cnt[s] - gone(s)
    BY <1>1
<1>4. \A s \in DOMAIN cnt : /\ s \in Senders /\ cnt[s] \in Nat \ {0}
                            /\ cnt[s] = Cardinality(Of(D, s))
    BY DEF Counted, CountIn
<1>5. \A s \in kept : cnt[s] - gone(s) \in Nat \ {0} /\ cnt[s] - gone(s) <= cnt[s]
    BY <1>2, <1>4
<1>6. c \in [DOMAIN c -> Nat \ {0}] /\ DOMAIN c \subseteq Senders
    BY <1>1, <1>3, <1>4, <1>5
<1>7. ASSUME NEW s \in Senders PROVE CountIn(c, s) = Cardinality(Of(D \ R, s))
    <2>1. CASE s \in kept
        BY <2>1, <1>2, <1>3, <1>4 DEF CountIn
    <2>2. CASE s \notin kept /\ s \in DOMAIN cnt
        BY <2>2, <1>2, <1>3, <1>4 DEF CountIn
    <2>3. CASE s \notin DOMAIN cnt
        <3>1. Cardinality(Of(D, s)) = 0
            BY <2>3 DEF Counted, CountIn
        <3> QED BY <2>3, <3>1, <1>2, <1>3 DEF CountIn
    <2> QED BY <2>1, <2>2, <2>3
<1> HIDE DEF c
<1> QED BY <1>3, <1>5, <1>6, <1>7 DEF Counted, c

\* per_sender_inc counts one more slot.
LEMMA IncCounted ==
    ASSUME NEW D \in SUBSET Keys, IsFiniteSet(D), NEW cnt, Counted(D, cnt),
           NEW k \in Keys, k \notin D,
           NEW c, c = per_sender_inc(cnt, k[1])
    PROVE  Counted(D \cup {k}, c)
<1>1. k[1] \in Senders
    BY DEF Keys
<1>2. /\ DOMAIN c = DOMAIN cnt \cup {k[1]}
      /\ c = [x \in DOMAIN c |-> c[x]]
      /\ \A s \in DOMAIN c : c[s] = IF s = k[1] THEN CountIn(cnt, s) + 1 ELSE cnt[s]
    BY DEF per_sender_inc, CountIn
<1>3. \A s \in DOMAIN cnt : cnt[s] \in Nat \ {0} /\ s \in Senders
    BY DEF Counted
<1>4. \A s \in Senders : CountIn(cnt, s) \in Nat
    BY <1>3 DEF CountIn
<1>5. \A s \in DOMAIN c : c[s] \in Nat \ {0}
    BY <1>1, <1>2, <1>3, <1>4
<1>6. DOMAIN c \subseteq Senders /\ c \in [DOMAIN c -> Nat \ {0}]
    BY <1>1, <1>2, <1>3, <1>5
<1>7. ASSUME NEW s \in Senders PROVE CountIn(c, s) = Cardinality(Of(D \cup {k}, s))
    <2>1. IsFiniteSet(Of(D, s))
        <3>1. Of(D, s) \in SUBSET D
            BY DEF Of
        <3> QED BY <3>1, FS_Subset
    <2>2. CountIn(cnt, s) = Cardinality(Of(D, s))
        BY DEF Counted
    <2>3. CASE s = k[1]
        <3>1. Of(D \cup {k}, s) = Of(D, s) \cup {k} /\ k \notin Of(D, s)
            BY <2>3 DEF Of
        <3>2. Cardinality(Of(D, s) \cup {k}) = Cardinality(Of(D, s)) + 1
            BY <2>1, <3>1, FS_AddElement
        <3>3. CountIn(c, s) = CountIn(cnt, s) + 1
            BY <1>2, <2>3 DEF CountIn
        <3> QED BY <2>2, <3>1, <3>2, <3>3
    <2>4. CASE s # k[1]
        <3>1. Of(D \cup {k}, s) = Of(D, s)
            BY <2>4 DEF Of
        <3>2. CountIn(c, s) = CountIn(cnt, s)
            BY <1>2, <2>4 DEF CountIn
        <3> QED BY <2>2, <3>1, <3>2
    <2> QED BY <2>3, <2>4
<1> QED BY <1>6, <1>7 DEF Counted

-----------------------------------------------------------------------------
(* The blacklist *)

Entry == [key : Keys, at : Nat]

\* A list of settled keys at time t: no key twice, oldest first, none from
\* the future.
Settled(bl, t) ==
    /\ bl \in Seq(Entry)
    /\ \A i, j \in DOMAIN bl : bl[i].key = bl[j].key => i = j
    /\ \A i, j \in DOMAIN bl : i <= j => bl[i].at <= bl[j].at /\ bl[j].at <= t

\* Forgetting a prefix of the list keeps it in order.
LEMMA DrainSettled ==
    ASSUME NEW bl, NEW t \in Nat, Settled(bl, t), NEW m \in Nat
    PROVE  LET r == SubSeq(bl, m + 1, Len(bl))
           IN  /\ Settled(r, t)
               /\ Len(r) = IF m <= Len(bl) THEN Len(bl) - m ELSE 0
               /\ Blacklisted(r) \subseteq Blacklisted(bl)
               /\ \A i \in DOMAIN r : r[i] = bl[m + i] /\ m + i \in DOMAIN bl
               /\ \A i \in DOMAIN bl : i > m => i - m \in DOMAIN r /\ r[i - m] = bl[i]
<1> DEFINE r == SubSeq(bl, m + 1, Len(bl))
<1>1. /\ bl \in Seq(Entry) /\ Len(bl) \in Nat /\ DOMAIN bl = 1 .. Len(bl)
      /\ \A i \in 1 .. Len(bl) : bl[i] \in Entry
    BY LenProperties, ElementOfSeq DEF Settled
<1>2. \A i \in (m + 1) .. Len(bl) : bl[i] \in Entry
    BY <1>1
<1>3. /\ r \in Seq(Entry)
      /\ Len(r) = IF m + 1 <= Len(bl) THEN Len(bl) - (m + 1) + 1 ELSE 0
      /\ \A i \in 1 .. Len(bl) - (m + 1) + 1 : r[i] = bl[(m + 1) + i - 1]
    BY <1>1, <1>2, SubSeqProperties
<1> HIDE DEF r
<1>4. /\ Len(r) = (IF m <= Len(bl) THEN Len(bl) - m ELSE 0)
      /\ Len(r) \in Nat /\ DOMAIN r = 1 .. Len(r)
    <2>1. r \in Seq(Entry)
        BY <1>3
    <2>2. Len(r) \in Nat /\ DOMAIN r = 1 .. Len(r)
        BY <2>1, LenProperties
    <2>3. /\ Len(r) = IF m + 1 <= Len(bl) THEN Len(bl) - (m + 1) + 1 ELSE 0
          /\ Len(bl) \in Nat
        BY <1>1, <1>3
    <2>4. Len(r) = IF m <= Len(bl) THEN Len(bl) - m ELSE 0
        BY <2>3
    <2> QED BY <2>2, <2>4
<1>5. \A i \in DOMAIN r : r[i] = bl[m + i] /\ m + i \in DOMAIN bl /\ i \in Nat
    <2>1. SUFFICES ASSUME NEW i \in DOMAIN r
                   PROVE  r[i] = bl[m + i] /\ m + i \in DOMAIN bl /\ i \in Nat
        OBVIOUS
    <2>2. /\ i \in 1 .. Len(r) /\ Len(bl) \in Nat
          /\ Len(r) = IF m <= Len(bl) THEN Len(bl) - m ELSE 0
        BY <1>1, <1>4
    <2>3. /\ i \in 1 .. Len(bl) - (m + 1) + 1 /\ (m + 1) + i - 1 = m + i
          /\ m + i \in 1 .. Len(bl) /\ i \in Nat
        BY <2>2
    <2>4. r[i] = bl[(m + 1) + i - 1]
        BY <1>3, <2>3
    <2> QED BY <1>1, <2>3, <2>4
<1>6. \A i, j \in DOMAIN r : r[i].key = r[j].key => i = j
    <2>1. SUFFICES ASSUME NEW i \in DOMAIN r, NEW j \in DOMAIN r, r[i].key = r[j].key
                   PROVE  i = j
        OBVIOUS
    <2>2. m + i = m + j
        BY <1>5, <2>1 DEF Settled
    <2> QED BY <1>5, <2>2
<1>7. \A i, j \in DOMAIN r : i <= j => r[i].at <= r[j].at /\ r[j].at <= t
    <2>1. SUFFICES ASSUME NEW i \in DOMAIN r, NEW j \in DOMAIN r, i <= j
                   PROVE  r[i].at <= r[j].at /\ r[j].at <= t
        OBVIOUS
    <2>2. m + i <= m + j
        BY <1>5, <2>1
    <2> QED BY <1>5, <2>2 DEF Settled
<1>8. Blacklisted(r) \subseteq Blacklisted(bl)
    BY <1>5 DEF Blacklisted
<1>9. ASSUME NEW i \in DOMAIN bl, i > m
      PROVE  i - m \in DOMAIN r /\ r[i - m] = bl[i]
    <2>1. i \in 1 .. Len(bl) /\ Len(bl) \in Nat
        BY <1>1
    <2>2. i - m \in 1 .. Len(r) /\ m + (i - m) = i
        <3>1. Len(r) = Len(bl) - m
            BY <1>4, <1>9, <2>1
        <3> QED BY <2>1, <3>1, <1>9
    <2> QED BY <2>2, <1>4, <1>5
<1> QED BY <1>3, <1>4, <1>5, <1>6, <1>7, <1>8, <1>9 DEF Settled, r

\* What push_blacklist does: the new keys follow the list in some order, and
\* what is over the bound is drained from the front.
Extends(pushed, bl, K) ==
    /\ Len(bl) \in Nat /\ Len(bl) <= Len(pushed)
    /\ \A i \in DOMAIN bl : i \in DOMAIN pushed /\ pushed[i] = bl[i]
    /\ \A i \in DOMAIN pushed \ DOMAIN bl :
          pushed[i].key \in K \ Blacklisted(bl) /\ pushed[i].at = now
    /\ \A k \in K \ Blacklisted(bl) :
          \E i \in DOMAIN pushed : pushed[i].key = k /\ pushed[i].at = now

LEMMA PushShape ==
    ASSUME now \in Nat, NEW bl, Settled(bl, now),
           NEW K \in SUBSET Keys, IsFiniteSet(K), NEW r \in push_blacklist(bl, K)
    PROVE  \E pushed : \E m \in Nat :
              /\ Settled(pushed, now) /\ Extends(pushed, bl, K)
              /\ r = SubSeq(pushed, m + 1, Len(pushed))
              /\ Len(pushed) - m <= BlacklistMax
              /\ m > 0 => Len(pushed) - m = BlacklistMax
<1> DEFINE S == K \ Blacklisted(bl)
           n == Cardinality(S)
<1>1. IsFiniteSet(S) /\ n \in Nat
    BY FS_Difference, FS_CardinalityType
<1>2. PICK ks \in Orders(S) :
          LET pushed == bl \o [i \in 1 .. Len(ks) |-> [key |-> ks[i], at |-> now]]
              excess == AtLeast(Len(pushed) - BlacklistMax, 0)
          IN  r = SubSeq(pushed, excess + 1, Len(pushed))
    BY DEF push_blacklist
<1> DEFINE new == [i \in 1 .. Len(ks) |-> [key |-> ks[i], at |-> now]]
           pushed == bl \o new
           excess == AtLeast(Len(pushed) - BlacklistMax, 0)
<1>3. /\ ks \in [1 .. n -> S] /\ RangeOf(ks) = S
    BY <1>2 DEF Orders
<1> HIDE DEF n
<1>4. ks \in Seq(S) /\ Len(ks) = n /\ DOMAIN ks = 1 .. n
    BY <1>1, <1>3
<1>5. \A i, j \in 1 .. n : ks[i] = ks[j] => i = j
    <2>1. ks \in Surjection(1 .. n, S)
        BY <1>3 DEF Surjection, RangeOf
    <2>2. IsFiniteSet(1 .. n) /\ Cardinality(1 .. n) = n
        BY <1>1, FS_Interval
    <2>3. Cardinality(1 .. n) = Cardinality(S)
        BY <2>2 DEF n
    <2>4. ks \in Injection(1 .. n, S)
        BY <2>1, <2>2, <2>3, FS_SurjSameCardinalityImpliesInj
    <2> QED BY <2>4 DEF Injection, IsInjective
<1>6. \A i \in 1 .. n : ks[i] \in K /\ ks[i] \notin Blacklisted(bl)
    BY <1>3
<1>7. /\ bl \in Seq(Entry) /\ Len(bl) \in Nat /\ DOMAIN bl = 1 .. Len(bl)
    BY LenProperties DEF Settled
<1>8. /\ new \in Seq(Entry) /\ Len(new) = n
      /\ \A i \in 1 .. n : new[i] = [key |-> ks[i], at |-> now]
    <2>1. new \in [1 .. n -> Entry]
        BY <1>4, <1>6 DEF Entry
    <2> QED BY <2>1, <1>1, <1>4
<1> HIDE DEF new
<1>9. /\ pushed \in Seq(Entry) /\ Len(pushed) = Len(bl) + n
      /\ \A i \in 1 .. Len(bl) + n :
            pushed[i] = IF i <= Len(bl) THEN bl[i] ELSE new[i - Len(bl)]
    BY <1>7, <1>8, ConcatProperties
<1> HIDE DEF pushed
<1>10. DOMAIN pushed = 1 .. Len(bl) + n
    BY <1>9, LenProperties
<1>11. ASSUME NEW i \in DOMAIN pushed
       PROVE  \/ i \in DOMAIN bl /\ pushed[i] = bl[i]
              \/ /\ i \notin DOMAIN bl /\ i > Len(bl)
                 /\ i - Len(bl) \in 1 .. n
                 /\ pushed[i].key = ks[i - Len(bl)] /\ pushed[i].at = now
    <2>1. i \in 1 .. Len(bl) + n
        BY <1>10
    <2>2. CASE i <= Len(bl)
        BY <2>1, <2>2, <1>1, <1>7, <1>9
    <2>3. CASE ~(i <= Len(bl))
        <3>1. i > Len(bl) /\ i - Len(bl) \in 1 .. n /\ i \notin DOMAIN bl
            BY <2>1, <2>3, <1>1, <1>7
        <3>2. pushed[i] = [key |-> ks[i - Len(bl)], at |-> now]
            BY <2>1, <2>3, <3>1, <1>8, <1>9
        <3> QED BY <3>1, <3>2
    <2> QED BY <2>2, <2>3
<1>12. \A i \in DOMAIN bl : bl[i].key \in Blacklisted(bl) /\ bl[i].at \in Nat
    <2>1. \A i \in DOMAIN bl : bl[i] \in Entry
        BY <1>7, ElementOfSeq
    <2> QED BY <2>1 DEF Blacklisted, Entry
<1>13. \A i, j \in DOMAIN pushed : pushed[i].key = pushed[j].key => i = j
    <2>1. SUFFICES ASSUME NEW i \in DOMAIN pushed, NEW j \in DOMAIN pushed,
                          pushed[i].key = pushed[j].key
                   PROVE  i = j
        OBVIOUS
    <2>2. CASE i \in DOMAIN bl /\ j \in DOMAIN bl
        BY <2>1, <2>2, <1>11 DEF Settled
    <2>3. CASE i \notin DOMAIN bl /\ j \notin DOMAIN bl
        <3>1. i - Len(bl) = j - Len(bl)
            BY <2>1, <2>3, <1>11, <1>5
        <3> QED BY <3>1, <1>7, <1>10, <1>1
    <2>4. CASE i \in DOMAIN bl /\ j \notin DOMAIN bl
        BY <2>1, <2>4, <1>6, <1>11, <1>12
    <2>5. CASE i \notin DOMAIN bl /\ j \in DOMAIN bl
        BY <2>1, <2>5, <1>6, <1>11, <1>12
    <2> QED BY <2>2, <2>3, <2>4, <2>5
<1>14. \A i, j \in DOMAIN pushed :
           i <= j => pushed[i].at <= pushed[j].at /\ pushed[j].at <= now
    <2>1. SUFFICES ASSUME NEW i \in DOMAIN pushed, NEW j \in DOMAIN pushed, i <= j
                   PROVE  pushed[i].at <= pushed[j].at /\ pushed[j].at <= now
        OBVIOUS
    <2>2. CASE i \in DOMAIN bl /\ j \in DOMAIN bl
        BY <2>1, <2>2, <1>11 DEF Settled
    <2>3. CASE i \in DOMAIN bl /\ j \notin DOMAIN bl
        <3>1. pushed[i].at <= now
            BY <2>3, <1>7, <1>11 DEF Settled
        <3> QED BY <3>1, <2>3, <1>11
    <2>4. CASE i \notin DOMAIN bl
        <3>1. j \notin DOMAIN bl
            BY <2>1, <2>4, <1>7, <1>10, <1>1
        <3> QED BY <3>1, <2>4, <1>11
    <2> QED BY <2>2, <2>3, <2>4
<1>15. Settled(pushed, now)
    BY <1>9, <1>13, <1>14 DEF Settled
<1>16. Extends(pushed, bl, K)
    <2>1. ASSUME NEW i \in DOMAIN bl PROVE i \in DOMAIN pushed /\ pushed[i] = bl[i]
        <3>1. i \in DOMAIN pushed
            BY <1>1, <1>7, <1>10
        <3> QED BY <3>1, <1>11
    <2>2. ASSUME NEW i \in DOMAIN pushed \ DOMAIN bl
          PROVE  pushed[i].key \in K \ Blacklisted(bl) /\ pushed[i].at = now
        BY <1>6, <1>11
    <2>3. ASSUME NEW k \in K \ Blacklisted(bl)
          PROVE  \E i \in DOMAIN pushed : pushed[i].key = k /\ pushed[i].at = now
        <3>1. PICK j \in 1 .. n : ks[j] = k
            BY <1>3, <1>4 DEF RangeOf
        <3>2. /\ Len(bl) + j \in DOMAIN pushed /\ Len(bl) + j \notin DOMAIN bl
              /\ (Len(bl) + j) - Len(bl) = j
            BY <1>1, <1>7, <1>10
        <3> QED BY <3>1, <3>2, <1>11
    <2>4. Len(bl) \in Nat /\ Len(bl) <= Len(pushed)
        BY <1>1, <1>7, <1>9
    <2> QED BY <2>1, <2>2, <2>3, <2>4 DEF Extends
<1>17. /\ excess \in Nat /\ Len(pushed) - excess <= BlacklistMax
       /\ excess > 0 => Len(pushed) - excess = BlacklistMax
    BY <1>1, <1>7, <1>9, ConstantsAssumption DEF AtLeast
<1>18. r = SubSeq(pushed, excess + 1, Len(pushed))
    BY <1>2 DEF pushed, new
<1> HIDE DEF excess
<1> QED BY <1>15, <1>16, <1>17, <1>18

\* push_blacklist keeps the list in order and within its bound, and adds
\* nothing but the keys pushed.
LEMMA PushSettled ==
    ASSUME now \in Nat, NEW bl, Settled(bl, now),
           NEW K \in SUBSET Keys, IsFiniteSet(K), NEW r \in push_blacklist(bl, K)
    PROVE  /\ Settled(r, now) /\ Len(r) <= BlacklistMax
           /\ Blacklisted(r) \subseteq Blacklisted(bl) \cup K
<1>1. PICK pushed : \E m \in Nat :
          /\ Settled(pushed, now) /\ Extends(pushed, bl, K)
          /\ r = SubSeq(pushed, m + 1, Len(pushed))
          /\ Len(pushed) - m <= BlacklistMax
    BY PushShape
<1>2. PICK m \in Nat : /\ r = SubSeq(pushed, m + 1, Len(pushed))
                       /\ Len(pushed) - m <= BlacklistMax
    BY <1>1
<1>3. /\ Settled(r, now) /\ Blacklisted(r) \subseteq Blacklisted(pushed)
      /\ Len(r) = IF m <= Len(pushed) THEN Len(pushed) - m ELSE 0
    BY <1>1, <1>2, DrainSettled
<1>4. Blacklisted(pushed) \subseteq Blacklisted(bl) \cup K
    BY <1>1 DEF Blacklisted, Extends
<1>5. Len(r) <= BlacklistMax
    BY <1>2, <1>3, ConstantsAssumption
<1> QED BY <1>3, <1>4, <1>5

-----------------------------------------------------------------------------
(* The table *)

TableOK(tab, cnt, bl, t) ==
    /\ DOMAIN tab \in SUBSET Keys /\ IsFiniteSet(DOMAIN tab)
    /\ tab = [k \in DOMAIN tab |-> tab[k]]
    /\ \A k \in DOMAIN tab : SlotInv(tab[k], t)
    /\ Cardinality(DOMAIN tab) <= MaxGlobal
    /\ Counted(DOMAIN tab, cnt)
    /\ \A s \in DOMAIN cnt : cnt[s] <= MaxPerSender
    /\ Settled(bl, t) /\ Len(bl) <= BlacklistMax
    /\ DOMAIN tab \cap Blacklisted(bl) = {}

\* The inductive invariant.
Inv ==
    /\ now \in Nat
    /\ cfg \in ConfigType /\ cfg.nack_window \in Windows
    /\ TableOK(in_progress, per_sender, blacklist, now)

\* Slots that are removed, counted out and listed as settled leave the table
\* in order.
LEMMA RemoveSlots ==
    ASSUME now \in Nat, NEW tab, NEW cnt, NEW bl, TableOK(tab, cnt, bl, now),
           NEW R \in SUBSET DOMAIN tab, NEW b \in push_blacklist(bl, R)
    PROVE  TableOK(Without(tab, R), per_sender_dec(cnt, R), b, now)
<1> DEFINE D == DOMAIN tab
           new == Without(tab, R)
           c == per_sender_dec(cnt, R)
<1>1. /\ D \in SUBSET Keys /\ IsFiniteSet(D) /\ Cardinality(D) <= MaxGlobal
      /\ Counted(D, cnt) /\ Settled(bl, now)
      /\ \A s \in DOMAIN cnt : cnt[s] <= MaxPerSender
      /\ \A k \in D : SlotInv(tab[k], now)
      /\ D \cap Blacklisted(bl) = {}
    BY DEF TableOK
<1>2. /\ DOMAIN new = D \ R /\ new = [k \in DOMAIN new |-> new[k]]
      /\ \A k \in DOMAIN new : new[k] = tab[k]
    BY DEF Without
<1> HIDE DEF new, D
<1>3. /\ R \in SUBSET D /\ R \in SUBSET Keys /\ IsFiniteSet(R) /\ D \ R \in SUBSET D
    BY <1>1, FS_Subset DEF D
<1>4. /\ IsFiniteSet(D \ R) /\ Cardinality(D \ R) <= Cardinality(D)
    BY <1>1, <1>3, FS_Subset
<1>5. Cardinality(D \ R) \in Nat /\ Cardinality(D) \in Nat
    BY <1>1, <1>4, FS_CardinalityType
<1>6. /\ Counted(D \ R, c)
      /\ \A s \in DOMAIN c : s \in DOMAIN cnt /\ c[s] <= cnt[s]
    BY <1>1, <1>3, DecCounted
<1> HIDE DEF c
<1>7. \A s \in DOMAIN c : c[s] <= MaxPerSender
    <2>1. \A s \in DOMAIN c : c[s] \in Nat /\ cnt[s] \in Nat
        BY <1>1, <1>6 DEF Counted
    <2> QED BY <1>1, <1>6, <2>1, ConstantsAssumption
<1>8. /\ Settled(b, now) /\ Len(b) <= BlacklistMax
      /\ Blacklisted(b) \subseteq Blacklisted(bl) \cup R
    BY <1>1, <1>3, PushSettled
<1>9. (D \ R) \cap Blacklisted(b) = {}
    BY <1>1, <1>8
<1>10. \A k \in DOMAIN new : SlotInv(new[k], now)
    BY <1>1, <1>2
<1>11. DOMAIN new \in SUBSET Keys /\ Cardinality(D \ R) <= MaxGlobal
    BY <1>1, <1>2, <1>4, <1>5, ConstantsAssumption
<1>12. IsFiniteSet(DOMAIN new) /\ Cardinality(DOMAIN new) <= MaxGlobal
       /\ Counted(DOMAIN new, c) /\ DOMAIN new \cap Blacklisted(b) = {}
    BY <1>2, <1>4, <1>6, <1>9, <1>11
<1> QED BY <1>2, <1>7, <1>8, <1>10, <1>11, <1>12 DEF TableOK, c, new

\* Slots that change in place.
LEMMA ReplaceSlots ==
    ASSUME NEW t, NEW tab, NEW cnt, NEW bl, TableOK(tab, cnt, bl, t),
           NEW new, DOMAIN new = DOMAIN tab, new = [k \in DOMAIN new |-> new[k]],
           \A k \in DOMAIN new : SlotInv(new[k], t)
    PROVE  TableOK(new, cnt, bl, t)
BY DEF TableOK

\* A slot that is opened within the caps.
LEMMA OpenSlot ==
    ASSUME NEW t, NEW tab, NEW cnt, NEW bl, TableOK(tab, cnt, bl, t),
           NEW k \in Keys, k \notin DOMAIN tab, k \notin Blacklisted(bl),
           Cardinality(DOMAIN tab) < MaxGlobal, CountIn(cnt, k[1]) < MaxPerSender,
           NEW e, SlotInv(e, t)
    PROVE  TableOK(With(tab, k, e), per_sender_inc(cnt, k[1]), bl, t)
<1> DEFINE D == DOMAIN tab
           new == With(tab, k, e)
           c == per_sender_inc(cnt, k[1])
<1>1. /\ D \in SUBSET Keys /\ IsFiniteSet(D) /\ Counted(D, cnt)
      /\ \A s \in DOMAIN cnt : cnt[s] <= MaxPerSender
      /\ \A j \in D : SlotInv(tab[j], t)
      /\ D \cap Blacklisted(bl) = {}
      /\ Settled(bl, t) /\ Len(bl) <= BlacklistMax
    BY DEF TableOK
<1>2. /\ DOMAIN new = D \cup {k} /\ new = [j \in DOMAIN new |-> new[j]]
      /\ \A j \in DOMAIN new : new[j] = IF j = k THEN e ELSE tab[j]
    BY DEF With
<1>3. /\ Counted(D \cup {k}, c) /\ DOMAIN c = DOMAIN cnt \cup {k[1]}
      /\ \A s \in DOMAIN c : c[s] = IF s = k[1] THEN CountIn(cnt, s) + 1 ELSE cnt[s]
    <2>1. D \in SUBSET Keys /\ IsFiniteSet(D) /\ Counted(D, cnt) /\ k \notin D
        BY <1>1
    <2>2. c = per_sender_inc(cnt, k[1])
        OBVIOUS
    <2> HIDE DEF D, new, c
    <2>3. Counted(D \cup {k}, c)
        BY <2>1, <2>2, IncCounted
    <2>4. /\ DOMAIN c = DOMAIN cnt \cup {k[1]}
          /\ \A s \in DOMAIN c : c[s] = IF s = k[1] THEN CountIn(cnt, s) + 1 ELSE cnt[s]
        BY <2>2 DEF per_sender_inc, CountIn
    <2> QED BY <2>3, <2>4
<1> HIDE DEF c, new
<1>4. \A s \in DOMAIN c : c[s] <= MaxPerSender
    <2>1. CountIn(cnt, k[1]) \in Nat
        BY <1>1 DEF Counted, CountIn
    <2>2. CountIn(cnt, k[1]) + 1 <= MaxPerSender
        BY <2>1, ConstantsAssumption
    <2> QED BY <1>1, <1>3, <2>2
<1>5. /\ IsFiniteSet(D \cup {k}) /\ Cardinality(D \cup {k}) = Cardinality(D) + 1
      /\ Cardinality(D) \in Nat
    BY <1>1, FS_AddElement, FS_CardinalityType
<1>6. Cardinality(D \cup {k}) <= MaxGlobal
    BY <1>5, ConstantsAssumption
<1>7. \A j \in DOMAIN new : SlotInv(new[j], t)
    BY <1>1, <1>2
<1>8. D \cup {k} \in SUBSET Keys /\ (D \cup {k}) \cap Blacklisted(bl) = {}
    BY <1>1
<1> QED BY <1>1, <1>2, <1>3, <1>4, <1>5, <1>6, <1>7, <1>8 DEF TableOK, c, new

\* Pruning only forgets settled keys.
LEMMA PruneTable ==
    ASSUME Inv
    PROVE  TableOK(in_progress, per_sender, Pruned, now)
<1> DEFINE expired == { i \in DOMAIN blacklist :
                          now - blacklist[i].at >= cfg.completion_memory }
           m == Cardinality(expired)
<1>1. /\ Settled(blacklist, now) /\ Len(blacklist) <= BlacklistMax /\ now \in Nat
      /\ blacklist \in Seq(Entry)
      /\ DOMAIN in_progress \cap Blacklisted(blacklist) = {}
    BY DEF Inv, TableOK, Settled
<1>2. DOMAIN blacklist = 1 .. Len(blacklist) /\ Len(blacklist) \in Nat
    BY <1>1, LenProperties
<1>3. IsFiniteSet(1 .. Len(blacklist)) /\ expired \in SUBSET (1 .. Len(blacklist))
    BY <1>2, FS_Interval
<1>4. m \in Nat
    BY <1>3, FS_Subset, FS_CardinalityType
<1>5. Pruned = SubSeq(blacklist, m + 1, Len(blacklist))
    BY DEF Pruned
<1> HIDE DEF m
<1>6. /\ Settled(Pruned, now) /\ Blacklisted(Pruned) \subseteq Blacklisted(blacklist)
      /\ Len(Pruned) = IF m <= Len(blacklist) THEN Len(blacklist) - m ELSE 0
    BY <1>1, <1>4, <1>5, DrainSettled
<1>7. Len(Pruned) <= BlacklistMax
    <2>1. /\ Len(blacklist) \in Nat /\ Len(blacklist) <= BlacklistMax
          /\ Len(Pruned) = IF m <= Len(blacklist) THEN Len(blacklist) - m ELSE 0
        BY <1>1, <1>2, <1>6
    <2> QED BY <2>1, <1>4, ConstantsAssumption
<1> QED BY <1>1, <1>6, <1>7 DEF Inv, TableOK

-----------------------------------------------------------------------------
(* The steps of accept *)

\* The slot a frame meets or opens.
LEMMA SlotForInv ==
    ASSUME Inv, NEW f \in Frames, Admitted(f)
    PROVE  SlotInv(SlotFor(f), now) /\ Key(f) \in Keys
<1>1. CASE IsKnown(f)
    BY <1>1, FrameFields DEF IsKnown, SlotFor, Inv, TableOK, Key, Keys
<1>2. CASE ~IsKnown(f)
    <2>1. f.header.total + f.header.parity <= MaxShards
        BY DEF Admitted
    <2>2. SlotInv(NewSlot(f, InitialChunkSize(f)), now)
        BY <2>1, NewSlotInv DEF Inv
    <2> QED BY <1>2, <2>2, FrameFields DEF SlotFor, Key, Keys
<1> QED BY <1>1, <1>2

\* A slot kept for a frame, after whatever was evicted to make room.
LEMMA KeptTable ==
    ASSUME Inv, NEW f \in Frames, Admitted(f), NEW e, SlotInv(e, now),
           NEW evicted \in Evictions(f), NEW b \in push_blacklist(Pruned, evicted)
    PROVE  TableOK(With(Without(in_progress, evicted), Key(f), e),
                   OpenedCounts(f, evicted), b, now)
<1> DEFINE tab == Without(in_progress, evicted)
           D == DOMAIN in_progress
<1>1. /\ TableOK(in_progress, per_sender, Pruned, now) /\ now \in Nat
      /\ Key(f) \notin Blacklisted(Pruned) /\ Key(f) \in Keys
    BY PruneTable, SlotForInv DEF Admitted, Inv
<1>2. evicted \in SUBSET D
    BY DEF Evictions
<1>3. TableOK(tab, per_sender_dec(per_sender, evicted), b, now)
    BY <1>1, <1>2, RemoveSlots
<1>4. DOMAIN tab = D \ evicted /\ \A k \in DOMAIN tab : tab[k] = in_progress[k]
    BY DEF Without
<1>5. CASE IsKnown(f)
    <2>1. evicted = {} /\ Key(f) \in D
        BY <1>5 DEF Evictions, IsKnown
    <2>2. per_sender_dec(per_sender, evicted) = per_sender
        <3>1. ASSUME NEW s PROVE Cardinality({ k \in evicted : k[1] = s }) = 0
            <4>1. { k \in evicted : k[1] = s } = {}
                BY <2>1
            <4>2. Cardinality({}) = 0
                BY FS_EmptySet
            <4> QED BY <4>1, <4>2
        <3>2. /\ per_sender = [s \in DOMAIN per_sender |-> per_sender[s]]
              /\ \A s \in DOMAIN per_sender : per_sender[s] \in Nat
            BY <1>1 DEF TableOK, Counted
        <3>3. \A s \in DOMAIN per_sender : per_sender[s] - 0 = per_sender[s]
            BY <3>2
        <3> DEFINE gone(s) == Cardinality({ k \in evicted : k[1] = s })
                   kept == { s \in DOMAIN per_sender :
                               gone(s) = 0 \/ per_sender[s] > gone(s) }
        <3>4. per_sender_dec(per_sender, evicted) = [s \in kept |-> per_sender[s] - gone(s)]
            BY DEF per_sender_dec
        <3>5. \A s : gone(s) = 0
            BY <3>1
        <3> HIDE DEF gone
        <3>6. kept = DOMAIN per_sender
            BY <3>5
        <3> HIDE DEF kept
        <3>7. [s \in kept |-> per_sender[s] - gone(s)] = [s \in kept |-> per_sender[s]]
            BY <3>3, <3>5, <3>6
        <3> QED BY <3>2, <3>4, <3>6, <3>7
    <2> DEFINE new == With(tab, Key(f), e)
    <2>3. /\ DOMAIN new = DOMAIN tab /\ new = [k \in DOMAIN new |-> new[k]]
          /\ \A k \in DOMAIN new : new[k] = IF k = Key(f) THEN e ELSE tab[k]
        BY <1>4, <2>1 DEF With
    <2>4. \A k \in DOMAIN tab : SlotInv(tab[k], now)
        BY <1>3 DEF TableOK
    <2> HIDE DEF new, tab
    <2>5. \A k \in DOMAIN new : SlotInv(new[k], now)
        BY <2>3, <2>4
    <2>6. TableOK(new, per_sender_dec(per_sender, evicted), b, now)
        BY <1>3, <2>3, <2>5, ReplaceSlots
    <2> QED BY <1>5, <2>2, <2>6 DEF OpenedCounts, new, tab
<1>6. CASE ~IsKnown(f)
    <2>1. Key(f) \notin DOMAIN tab
        BY <1>4, <1>6 DEF IsKnown
    <2>2. Key(f) \notin Blacklisted(b)
        <3>1. evicted \in SUBSET Keys /\ IsFiniteSet(evicted)
            BY <1>1, <1>2, FS_Subset DEF TableOK
        <3>2. Settled(Pruned, now)
            BY <1>1 DEF TableOK
        <3>3. Blacklisted(b) \subseteq Blacklisted(Pruned) \cup evicted
            BY <1>1, <3>1, <3>2, PushSettled
        <3> QED BY <1>1, <1>2, <1>6, <3>3 DEF IsKnown
    <2>3. Cardinality(DOMAIN tab) < MaxGlobal
        <3>1. IsFiniteSet(D) /\ Cardinality(D) <= MaxGlobal /\ Cardinality(D) \in Nat
            BY <1>1, FS_CardinalityType DEF TableOK
        <3>2. CASE Cardinality(D) < MaxGlobal
            <4>1. evicted = {}
                BY <1>6, <3>2 DEF Evictions
            <4> QED BY <3>2, <4>1, <1>4
        <3>3. CASE ~(Cardinality(D) < MaxGlobal)
            <4>1. PICK k \in D : evicted = {k}
                BY <1>6, <3>3 DEF Evictions
            <4>2. Cardinality(D \ {k}) = Cardinality(D) - 1
                BY <3>1, FS_RemoveElement
            <4> QED BY <3>1, <4>1, <4>2, <1>4, ConstantsAssumption
        <3> QED BY <3>2, <3>3
    <2>4. CountIn(per_sender_dec(per_sender, evicted), f.from) < MaxPerSender
        <3> DEFINE c == per_sender_dec(per_sender, evicted)
        <3>1. SenderCount(f.from) < MaxPerSender
            BY <1>6 DEF Admitted
        <3>2. /\ Counted(D \ evicted, c)
              /\ \A s \in DOMAIN c : s \in DOMAIN per_sender /\ c[s] <= per_sender[s]
            BY <1>1, <1>2, DecCounted DEF TableOK
        <3>3. \A s \in DOMAIN c : c[s] \in Nat /\ per_sender[s] \in Nat
            BY <1>1, <3>2 DEF Counted, TableOK
        <3> HIDE DEF c
        <3>4. CountIn(c, f.from) < MaxPerSender
            BY <3>1, <3>2, <3>3, ConstantsAssumption DEF CountIn, SenderCount
        <3> QED BY <3>4 DEF c
    <2>5. Key(f)[1] = f.from
        BY DEF Key
    <2> HIDE DEF tab
    <2>6. TableOK(With(tab, Key(f), e),
                  per_sender_inc(per_sender_dec(per_sender, evicted), f.from), b, now)
        BY <1>1, <1>3, <2>1, <2>2, <2>3, <2>4, <2>5, OpenSlot
    <2> QED BY <1>6, <2>6 DEF OpenedCounts, tab
<1> QED BY <1>5, <1>6

\* A frame that leaves its slot open.
LEMMA KeepSlotInv ==
    ASSUME Inv, NEW f \in Frames, Admitted(f), NEW e, SlotInv(e, now),
           NEW event, KeepSlot(f, e, event)
    PROVE  Inv'
<1>1. PICK evicted \in Evictions(f) :
          /\ in_progress' = With(Without(in_progress, evicted), Key(f), e)
          /\ per_sender' = OpenedCounts(f, evicted)
          /\ blacklist' \in push_blacklist(Pruned, evicted)
          /\ UNCHANGED <<now, cfg>>
    BY DEF KeepSlot
<1>2. TableOK(in_progress', per_sender', blacklist', now)
    BY <1>1, KeptTable
<1> QED BY <1>1, <1>2 DEF Inv

\* accept preserves the invariant.
LEMMA AcceptInv ==
    ASSUME Inv, NEW f \in Frames, accept(f)
    PROVE  Inv'
<1>1. CASE RejectFrame(f)
    BY <1>1, PruneTable DEF RejectFrame, Inv, table
<1>2. CASE StrikeSlot(f)
    <2> DEFINE e == [in_progress[Key(f)] EXCEPT !.validation_strikes = @ + 1]
               new == With(in_progress, Key(f), e)
    <2>1. /\ Key(f) \in DOMAIN in_progress
          /\ in_progress' = new /\ blacklist' = Pruned
          /\ UNCHANGED <<now, cfg, per_sender>>
        BY <1>2 DEF StrikeSlot, IsKnown
    <2>2. SlotInv(e, now)
        BY <2>1, StruckInv DEF Inv, TableOK
    <2> HIDE DEF e
    <2>3. /\ DOMAIN new = DOMAIN in_progress /\ new = [k \in DOMAIN new |-> new[k]]
          /\ \A k \in DOMAIN new : new[k] = IF k = Key(f) THEN e ELSE in_progress[k]
        BY <2>1 DEF With
    <2> HIDE DEF new
    <2>4. \A k \in DOMAIN new : SlotInv(new[k], now)
        BY <2>2, <2>3 DEF Inv, TableOK
    <2>5. TableOK(new, per_sender, Pruned, now)
        BY <2>3, <2>4, PruneTable, ReplaceSlots
    <2> QED BY <2>1, <2>5 DEF Inv
<1>3. CASE StrikeOut(f)
    <2>1. /\ Key(f) \in DOMAIN in_progress
          /\ in_progress' = Without(in_progress, {Key(f)})
          /\ per_sender' = per_sender_dec(per_sender, {Key(f)})
          /\ blacklist' \in push_blacklist(Pruned, {Key(f)})
          /\ UNCHANGED <<now, cfg>>
        BY <1>3 DEF StrikeOut, IsKnown
    <2>2. {Key(f)} \in SUBSET DOMAIN in_progress /\ now \in Nat
        BY <2>1 DEF Inv
    <2>3. TableOK(in_progress', per_sender', blacklist', now)
        BY <2>1, <2>2, PruneTable, RemoveSlots
    <2> QED BY <2>1, <2>3 DEF Inv
<1> DEFINE s == SlotFor(f)
<1>4. Agrees(f) => /\ Admitted(f) /\ SlotInv(s, now) /\ now \in Nat
                   /\ validate_template(s, f)
    BY SlotForInv DEF Agrees, Inv
<1> HIDE DEF s
<1>5. CASE DuplicateShard(f) \/ MisfitShard(f)
    <2>1. Agrees(f) /\ \E event : KeepSlot(f, Touched(s, f), event)
        BY <1>5 DEF DuplicateShard, MisfitShard, s
    <2>2. SlotInv(Touched(s, f), now)
        BY <2>1, <1>4, TouchedInv
    <2> QED BY <2>1, <2>2, <1>4, KeepSlotInv
<1>6. CASE StoreShard(f)
    <2>1. /\ Agrees(f) /\ ~IsDuplicate(s, f) /\ LengthFits(s, f)
          /\ ~Complete(Ingested(s, f)) /\ KeepSlot(f, Ingested(s, f), "Pending")
        BY <1>6 DEF StoreShard, TakesShard, s
    <2>2. SlotInv(Ingested(s, f), now)
        BY <2>1, <1>4, IngestedInv
    <2> QED BY <2>1, <2>2, <1>4, KeepSlotInv
<1>7. CASE CompleteMessage(f)
    <2>1. Agrees(f) /\ UNCHANGED <<now, cfg>>
        BY <1>7 DEF CompleteMessage, TakesShard
    <2>2. PICK evicted \in Evictions(f) :
              /\ in_progress' = Without(in_progress, evicted \cup {Key(f)})
              /\ per_sender' = per_sender_dec(OpenedCounts(f, evicted), {Key(f)})
              /\ \E bl \in push_blacklist(Pruned, evicted) :
                    blacklist' \in push_blacklist(bl, {Key(f)})
        BY <1>7 DEF CompleteMessage
    <2>3. PICK bl \in push_blacklist(Pruned, evicted) :
              blacklist' \in push_blacklist(bl, {Key(f)})
        BY <2>2
    <2> DEFINE tab == With(Without(in_progress, evicted), Key(f), s)
    <2>4. TableOK(tab, OpenedCounts(f, evicted), bl, now)
        BY <2>1, <1>4, KeptTable
    <2>5. {Key(f)} \in SUBSET DOMAIN tab
        BY DEF With
    <2>6. TableOK(Without(tab, {Key(f)}), per_sender', blacklist', now)
        <3> HIDE DEF tab
        <3> QED BY <2>1, <2>2, <2>3, <2>4, <2>5, <1>4, RemoveSlots
    <2>7. Without(tab, {Key(f)}) = in_progress'
        BY <2>2 DEF With, Without
    <2> QED BY <2>1, <2>6, <2>7 DEF Inv
<1> QED BY <1>1, <1>2, <1>3, <1>5, <1>6, <1>7 DEF accept

-----------------------------------------------------------------------------
(* The steps of tick, the clock and the host *)

LEMMA TickInv ==
    ASSUME Inv, tick
    PROVE  Inv'
<1> DEFINE over == { k \in DOMAIN in_progress : GivesUp(in_progress[k]) }
           due == { k \in DOMAIN in_progress \ over : NackDue(in_progress[k]) }
           kept == Without(in_progress, over)
           new == [k \in DOMAIN in_progress \ over |->
                     IF k \in due THEN AfterNack(in_progress[k]) ELSE in_progress[k]]
<1>1. /\ in_progress' = new
      /\ per_sender' = per_sender_dec(per_sender, over)
      /\ blacklist' \in push_blacklist(Pruned, over)
      /\ UNCHANGED <<now, cfg>>
    BY DEF tick
<1>2. over \in SUBSET DOMAIN in_progress /\ now \in Nat
    BY DEF Inv
<1>3. TableOK(kept, per_sender', blacklist', now)
    <2> HIDE DEF over
    <2> QED BY <1>1, <1>2, PruneTable, RemoveSlots
<1>4. DOMAIN new = DOMAIN kept /\ new = [k \in DOMAIN new |-> new[k]]
    BY DEF Without
<1>5. ASSUME NEW k \in DOMAIN new PROVE SlotInv(new[k], now)
    <2>1. SlotInv(in_progress[k], now) /\ k \in DOMAIN in_progress
        BY DEF Inv, TableOK
    <2>2. CASE k \in due
        <3>1. NackDue(in_progress[k]) /\ new[k] = AfterNack(in_progress[k])
            BY <2>2
        <3>2. now \in Nat /\ cfg \in ConfigType /\ cfg.nack_window \in Windows
            BY DEF Inv
        <3> HIDE DEF new, due
        <3> QED BY <2>1, <3>1, <3>2, AfterNackInv
    <2>3. CASE k \notin due
        BY <2>1, <2>3
    <2> QED BY <2>2, <2>3
<1> HIDE DEF new, kept, over
<1>6. TableOK(new, per_sender', blacklist', now)
    BY <1>3, <1>4, <1>5, ReplaceSlots
<1> QED BY <1>1, <1>6 DEF Inv

LEMMA AdvanceClockInv ==
    ASSUME Inv, AdvanceClock
    PROVE  Inv'
<1>1. /\ now' = now + 1 /\ now \in Nat /\ now' \in Nat
      /\ UNCHANGED <<cfg, in_progress, per_sender, blacklist>>
    BY DEF AdvanceClock, Inv, table
<1>2. ASSUME NEW k \in DOMAIN in_progress PROVE SlotInv(in_progress[k], now')
    <2>1. SlotInv(in_progress[k], now)
        BY DEF Inv, TableOK
    <2>2. in_progress[k].last_data_at \in Nat /\ in_progress[k].last_chunk_at \in Nat
        BY <2>1 DEF SlotInv, SlotOK, SlotType
    <2> QED BY <1>1, <2>1, <2>2 DEF SlotInv, SilencePaidAt
<1>3. Settled(blacklist, now')
    <2>1. Settled(blacklist, now)
        BY DEF Inv, TableOK
    <2>2. \A i \in DOMAIN blacklist : blacklist[i].at \in Nat
        <3>1. \A i \in DOMAIN blacklist : blacklist[i] \in Entry
            BY <2>1, LenProperties, ElementOfSeq DEF Settled
        <3> QED BY <3>1 DEF Entry
    <2>3. \A i, j \in DOMAIN blacklist :
              i <= j => blacklist[i].at <= blacklist[j].at /\ blacklist[j].at <= now'
        BY <1>1, <2>1, <2>2 DEF Settled
    <2> QED BY <2>1, <2>3 DEF Settled
<1>4. TableOK(in_progress', per_sender', blacklist', now')
    BY <1>1, <1>2, <1>3 DEF Inv, TableOK
<1> QED BY <1>1, <1>4 DEF Inv

LEMMA SetConfigInv ==
    ASSUME Inv, NEW c \in Configs, set_config(c)
    PROVE  Inv'
<1>1. /\ c \in ConfigType /\ c.nack_window \in Nat /\ c.nack_window > 0
      /\ cfg' = c /\ UNCHANGED <<now, in_progress, per_sender, blacklist>>
    BY ConstantsAssumption DEF set_config, validate, table, ConfigType
<1>2. clamped(c).nack_window = c.nack_window
    BY <1>1 DEF clamped, AtLeast, ConfigType
<1>3. c.nack_window \in Windows
    BY <1>2 DEF Windows
<1> QED BY <1>1, <1>3 DEF Inv

LEMMA InitInv ==
    ASSUME Init
    PROVE  Inv
<1>1. PICK c \in Configs : cfg = clamped(c)
    BY DEF Init
<1>2. c \in ConfigType
    BY ConstantsAssumption
<1>3. cfg \in ConfigType /\ cfg.nack_window \in Windows
    <2>1. clamped(c) \in ConfigType
        BY <1>2 DEF clamped, ConfigType, AtLeast, AtMost
    <2> QED BY <1>1, <2>1 DEF Windows
<1>4. /\ now = 0 /\ in_progress = [k \in {} |-> 0] /\ per_sender = [s \in {} |-> 0]
      /\ blacklist = <<>>
    BY DEF Init
<1>5. DOMAIN in_progress = {} /\ DOMAIN per_sender = {}
    BY <1>4
<1>6. Counted({}, per_sender)
    <2>1. \A s : Of({}, s) = {}
        BY DEF Of
    <2>2. Cardinality({}) = 0
        BY FS_EmptySet
    <2>3. per_sender \in [DOMAIN per_sender -> Nat \ {0}]
        BY <1>4, <1>5
    <2> QED BY <1>5, <2>1, <2>2, <2>3 DEF Counted, CountIn
<1>7. Settled(blacklist, now) /\ Len(blacklist) = 0
    BY <1>4, EmptySeq DEF Settled
<1>8. TableOK(in_progress, per_sender, blacklist, now)
    BY <1>4, <1>5, <1>6, <1>7, FS_EmptySet, ConstantsAssumption DEF TableOK
<1> QED BY <1>3, <1>4, <1>8 DEF Inv

LEMMA NextInv ==
    ASSUME Inv, [Next]_vars
    PROVE  Inv'
<1>1. CASE \E f \in Frames : accept(f)
    BY <1>1, AcceptInv
<1>2. CASE \E c \in Configs : set_config(c)
    BY <1>2, SetConfigInv
<1>3. CASE tick
    BY <1>3, TickInv
<1>4. CASE AdvanceClock
    BY <1>4, AdvanceClockInv
<1>5. CASE UNCHANGED vars
    BY <1>5 DEF vars, Inv, table
<1> QED BY <1>1, <1>2, <1>3, <1>4, <1>5 DEF Next

-----------------------------------------------------------------------------
(* The theorems *)

\* The inductive invariant holds of every behaviour of the assembler.
THEOREM Invariance == Spec => []Inv
<1>1. Init => Inv
    BY InitInv
<1>2. Inv /\ [Next]_vars => Inv'
    BY NextInv
<1> QED BY <1>1, <1>2, PTL DEF Spec

\* The assembler's state keeps its types: AssemblerInner holds well-formed
\* slots of known keys, and counts of senders that are never zero.
THEOREM TypeCorrect == Spec => []TypeOK
<1>1. Inv => TypeOK
    <2>1. SUFFICES ASSUME Inv PROVE TypeOK
        OBVIOUS
    <2>2. in_progress \in [DOMAIN in_progress -> SlotType]
        BY <2>1 DEF Inv, TableOK, SlotInv, SlotOK
    <2>3. DOMAIN per_sender \subseteq Senders /\ per_sender \in [DOMAIN per_sender -> Nat \ {0}]
        BY <2>1 DEF Inv, TableOK, Counted
    <2>4. blacklist \in Seq([key : Keys, at : Nat])
        BY <2>1 DEF Inv, TableOK, Settled, Entry
    <2> QED BY <2>1, <2>2, <2>3, <2>4 DEF Inv, TableOK, TypeOK
<1> QED BY <1>1, Invariance, PTL

\* The shard counters of accept agree with the shard vectors, and no shard is
\* stored outside them.
THEOREM CountsCorrect == Spec => []ShardCountsMatch
<1>1. Inv => ShardCountsMatch
    BY DEF Inv, TableOK, SlotInv, SlotOK, ShardCountsMatch
<1> QED BY <1>1, Invariance, PTL

\* The lengths of a slot's shards are ones the Reed-Solomon coder accepts.
THEOREM LengthsCorrect == Spec => []ShardLengthsFit
<1>1. Inv => ShardLengthsFit
    BY DEF Inv, TableOK, SlotInv, SlotOK, ShardLengthsFit
<1> QED BY <1>1, Invariance, PTL

\* The remembered length of the final chunk is never stale.
THEOREM LastLenCorrect == Spec => []LastLenTracksLastChunk
<1>1. Inv => LastLenTracksLastChunk
    BY DEF Inv, TableOK, SlotInv, SlotOK, LastLenTracksLastChunk
<1> QED BY <1>1, Invariance, PTL

\* What recovery and completion count on holds in every slot.
THEOREM ShardsCorrect == Spec => []ShardsConsistent
<1>1. ShardCountsMatch /\ ShardLengthsFit /\ LastLenTracksLastChunk => ShardsConsistent
    BY DEF ShardsConsistent
<1> QED BY <1>1, CountsCorrect, LengthsCorrect, LastLenCorrect, PTL

\* accept never leaves a message waiting that it could hand out.
THEOREM NothingWaits == Spec => []NothingRecoverableWaits
<1>1. Inv => NothingRecoverableWaits
    BY DEF Inv, TableOK, SlotInv, NothingRecoverableWaits
<1> QED BY <1>1, Invariance, PTL

\* The per-sender counts are those of the table, and within the caps.
THEOREM SenderCountsCorrect == Spec => []PerSenderCounts
<1>1. Inv => PerSenderCounts
    <2>1. SUFFICES ASSUME Inv PROVE PerSenderCounts
        OBVIOUS
    <2>2. \A s \in Senders : SenderCount(s) = Cardinality(SlotsOf(s))
        BY <2>1 DEF Inv, TableOK, Counted, CountIn, SenderCount, SlotsOf, Of
    <2>3. \A s \in DOMAIN per_sender : per_sender[s] \in Nat \ {0}
        BY <2>1 DEF Inv, TableOK, Counted
    <2>4. \A s \in DOMAIN per_sender : per_sender[s] \in 1 .. MaxPerSender
        BY <2>1, <2>3, ConstantsAssumption DEF Inv, TableOK
    <2> QED BY <2>1, <2>2, <2>4 DEF Inv, TableOK, PerSenderCounts
<1> QED BY <1>1, Invariance, PTL

\* A settled key has no slot, and is listed once.
THEOREM SettledCorrect == Spec => []SettledIsClosed
<1>1. Inv => SettledIsClosed
    BY DEF Inv, TableOK, Settled, SettledIsClosed
<1> QED BY <1>1, Invariance, PTL

\* The blacklist is in the order of its times and within its bound.
THEOREM BlacklistCorrect == Spec => []BlacklistInOrder
<1>1. Inv => BlacklistInOrder
    BY DEF Inv, TableOK, Settled, BlacklistInOrder
<1> QED BY <1>1, Invariance, PTL

\* tick spends NACK rounds on silence only.
THEOREM RoundsCorrect == Spec => []RoundsMeasureSilence
<1>1. Inv => RoundsMeasureSilence
    BY DEF Inv, TableOK, SlotInv, SilencePaidAt, SilencePaid, RoundsMeasureSilence
<1> QED BY <1>1, Invariance, PTL

-----------------------------------------------------------------------------
(* What accept and tick hand out *)

\* FinalizedAudioAligned, of one message.
Aligned(m) ==
    /\ m.is_complete <=> m.received = m.total
    /\ m.is_complete => m.gaps = {} /\ DOMAIN m.audio = 0 .. (m.total - 1)
    /\ \A i \in DOMAIN m.audio \ {m.total - 1} :
          m.chunk_size # NoLen /\ m.audio[i] = m.chunk_size

\* A sound slot misses a chunk unless its counter says it is complete.
LEMMA MissesUnlessComplete ==
    ASSUME NEW e, SlotOK(e)
    PROVE  Complete(e) <=> missing_data_indices(e) = {}
<1>1. /\ Stored(e) \in SUBSET (0 .. LastIdx(e)) /\ IsFiniteSet(0 .. LastIdx(e))
      /\ Cardinality(Stored(e)) = e.received_data
    <2>1. Stored(e) \in SUBSET (0 .. LastIdx(e)) /\ Cardinality(Stored(e)) = e.received_data
        BY SlotFinite
    <2>2. LastIdx(e) \in Int /\ 0 \in Int
        BY SlotFields
    <2> QED BY <2>1, <2>2, FS_Interval
<1>2. Cardinality(0 .. LastIdx(e)) = e.header.total
    <2>1. LastIdx(e) = e.header.total - 1 /\ e.header.total \in Nat \ {0}
        BY SlotFields
    <2>2. LastIdx(e) \in Int /\ 0 \in Int /\ ~(0 > LastIdx(e))
        BY <2>1
    <2>3. Cardinality(0 .. LastIdx(e)) = LastIdx(e) - 0 + 1
        BY <2>2, FS_Interval
    <2> QED BY <2>1, <2>3
<1>3. Cardinality(Stored(e)) = Cardinality(0 .. LastIdx(e)) => Stored(e) = 0 .. LastIdx(e)
    BY <1>1, FS_Subset
<1> QED BY <1>1, <1>2, <1>3 DEF Complete, missing_data_indices

\* finalize lays the audio of a sound slot out in its order.
LEMMA FinalizeAligned ==
    ASSUME NEW k, NEW e, SlotOK(e), NEW complete \in BOOLEAN, complete <=> Complete(e)
    PROVE  Aligned(finalize(k, e, complete))
<1> DEFINE m == finalize(k, e, complete)
           sized == e.chunk_size # NoLen
           laid_out == IF sized THEN 0 .. LastIdx(e) ELSE Stored(e)
<1>1. /\ m.is_complete = complete /\ m.total = e.header.total
      /\ m.received = e.received_data /\ m.chunk_size = e.chunk_size
      /\ m.audio = [i \in laid_out |->
                       IF i \in Stored(e) THEN e.data_shards[i] ELSE e.chunk_size]
      /\ m.gaps = IF sized THEN missing_data_indices(e) ELSE {}
    BY DEF finalize
<1> HIDE DEF m
<1>2. LastIdx(e) = m.total - 1 /\ m.total \in Nat \ {0}
    BY <1>1, SlotFields
<1>3. LengthsFit(e) /\ Stored(e) \subseteq 0 .. LastIdx(e)
    BY DEF SlotOK, CountsMatch
<1>4. complete => Stored(e) = 0 .. LastIdx(e)
    BY <1>3, MissesUnlessComplete DEF missing_data_indices
<1>5. m.is_complete => m.gaps = {} /\ DOMAIN m.audio = 0 .. (m.total - 1)
    BY <1>1, <1>2, <1>4 DEF missing_data_indices
<1>6. ASSUME NEW i \in DOMAIN m.audio \ {m.total - 1}
      PROVE  m.chunk_size # NoLen /\ m.audio[i] = m.chunk_size
    <2>1. i \in laid_out /\ i # LastIdx(e)
        BY <1>1, <1>2
    <2>2. i \in Stored(e) => e.chunk_size # NoLen /\ e.data_shards[i] = e.chunk_size
        BY <2>1, <1>3 DEF LengthsFit
    <2>3. ~sized => i \in Stored(e)
        BY <2>1
    <2> QED BY <1>1, <2>1, <2>2, <2>3
<1> QED BY <1>1, <1>5, <1>6 DEF Aligned, Complete, m

\* What a step hands to the player is aligned, as was what the last one did.
LEMMA HandsOutAligned ==
    ASSUME Inv, FinalizedAudioAligned, [Next]_vars
    PROVE  FinalizedAudioAligned'
<1>0. FinalizedAudioAligned' <=> \A m \in out'.finalized : Aligned(m)
    BY DEF FinalizedAudioAligned, Aligned
<1>1. (\E event : out' = Returned(event)) => FinalizedAudioAligned'
    BY <1>0 DEF Returned
<1>2. CASE \E f \in Frames : accept(f)
    <2>1. PICK f \in Frames : accept(f)
        BY <1>2
    <2>2. CASE RejectFrame(f) \/ StrikeSlot(f) \/ StrikeOut(f)
        BY <2>2, <1>1 DEF RejectFrame, StrikeSlot, StrikeOut
    <2>3. CASE DuplicateShard(f) \/ MisfitShard(f) \/ StoreShard(f)
        BY <2>3, <1>1 DEF DuplicateShard, MisfitShard, StoreShard, KeepSlot
    <2>4. CASE CompleteMessage(f)
        <3> DEFINE e == Ingested(SlotFor(f), f)
        <3>1. /\ TakesShard(f) /\ Complete(e)
              /\ out'.finalized = {finalize(Key(f), e, TRUE)}
            BY <2>4 DEF CompleteMessage
        <3>2. SlotInv(SlotFor(f), now) /\ now \in Nat
            BY <3>1, SlotForInv DEF TakesShard, Agrees, Inv
        <3>3. SlotOK(e)
            BY <3>1, <3>2, IngestedInv DEF TakesShard, Agrees
        <3> HIDE DEF e
        <3>4. Aligned(finalize(Key(f), e, TRUE))
            BY <3>1, <3>3, FinalizeAligned
        <3> QED BY <3>1, <3>4, <1>0
    <2> QED BY <2>1, <2>2, <2>3, <2>4 DEF accept
<1>3. CASE \E c \in Configs : set_config(c)
    BY <1>3, <1>1 DEF set_config
<1>4. CASE tick
    <2>1. \A m \in out'.finalized :
              \E k \in DOMAIN in_progress : m = finalize(k, in_progress[k], FALSE)
        BY <1>4 DEF tick
    <2>2. \A k \in DOMAIN in_progress : SlotOK(in_progress[k]) /\ ~Complete(in_progress[k])
        BY DEF Inv, TableOK, SlotInv
    <2>3. \A k \in DOMAIN in_progress : Aligned(finalize(k, in_progress[k], FALSE))
        BY <2>2, FinalizeAligned
    <2> QED BY <2>1, <2>3, <1>0
<1>5. CASE AdvanceClock
    BY <1>5, <1>1 DEF AdvanceClock
<1>6. CASE UNCHANGED vars
    BY <1>6, <1>0 DEF vars, FinalizedAudioAligned, Aligned
<1> QED BY <1>2, <1>3, <1>4, <1>5, <1>6 DEF Next

\* Every message that finalize builds, for accept or for tick, is flagged
\* complete only when it is, and has its chunks at their offsets.
THEOREM AudioCorrect == Spec => []FinalizedAudioAligned
<1>1. Init => FinalizedAudioAligned
    BY DEF Init, Returned, FinalizedAudioAligned
<1>2. Inv /\ FinalizedAudioAligned /\ [Next]_vars => FinalizedAudioAligned'
    BY HandsOutAligned
<1> QED BY <1>1, <1>2, Invariance, PTL DEF Spec

\* What a step asks its senders for.
LEMMA AsksForMissing ==
    ASSUME Inv, NacksNameMissing, [Next]_vars
    PROVE  NacksNameMissing'
<1>1. (\E event : out' = Returned(event)) => NacksNameMissing'
    BY DEF Returned, NacksNameMissing
<1>2. CASE \E f \in Frames : accept(f)
    <2>1. PICK f \in Frames : accept(f)
        BY <1>2
    <2>2. CASE RejectFrame(f) \/ StrikeSlot(f) \/ StrikeOut(f)
        BY <2>2, <1>1 DEF RejectFrame, StrikeSlot, StrikeOut
    <2>3. CASE DuplicateShard(f) \/ MisfitShard(f) \/ StoreShard(f)
        BY <2>3, <1>1 DEF DuplicateShard, MisfitShard, StoreShard, KeepSlot
    <2>4. CASE CompleteMessage(f)
        <3>1. out'.nacks = {}
            BY <2>4 DEF CompleteMessage
        <3> QED BY <3>1 DEF NacksNameMissing
    <2> QED BY <2>1, <2>2, <2>3, <2>4 DEF accept
<1>3. CASE \E c \in Configs : set_config(c)
    BY <1>3, <1>1 DEF set_config
<1>4. CASE tick
    <2> DEFINE over == { k \in DOMAIN in_progress : GivesUp(in_progress[k]) }
               due == { k \in DOMAIN in_progress \ over : NackDue(in_progress[k]) }
               told == { k \in over : nack_enabled(in_progress[k]) }
    <2>1. /\ out'.nacks = { Nack(k, FALSE) : k \in due } \cup { Nack(k, TRUE) : k \in told }
          /\ DOMAIN in_progress' = DOMAIN in_progress \ over
        BY <1>4 DEF tick
    <2>2. ASSUME NEW k \in DOMAIN in_progress
          PROVE  missing_data_indices(in_progress[k]) # {}
        <3>1. SlotOK(in_progress[k]) /\ ~Complete(in_progress[k])
            BY DEF Inv, TableOK, SlotInv
        <3> QED BY <3>1, MissesUnlessComplete
    <2>3. due \subseteq DOMAIN in_progress \ over /\ told \subseteq over
          /\ over \subseteq DOMAIN in_progress
        OBVIOUS
    <2> HIDE DEF over, due, told
    <2>4. ASSUME NEW k \in DOMAIN in_progress, NEW give_up \in BOOLEAN
          PROVE  /\ Nack(k, give_up).missing # {} /\ Nack(k, give_up).key = k
                 /\ Nack(k, give_up).give_up = give_up
        BY <2>2 DEF Nack
    <2>5. ASSUME NEW n \in out'.nacks
          PROVE  n.missing # {} /\ (n.give_up <=> n.key \notin DOMAIN in_progress')
        <3>1. CASE \E k \in due : n = Nack(k, FALSE)
            <4>1. PICK k \in due : n = Nack(k, FALSE)
                BY <3>1
            <4>2. k \in DOMAIN in_progress /\ (k \in over <=> FALSE)
                BY <2>3
            <4>3. n.missing # {} /\ n.key = k /\ n.give_up = FALSE
                BY <4>1, <4>2, <2>4
            <4> QED BY <4>2, <4>3, <2>1
        <3>2. CASE \E k \in told : n = Nack(k, TRUE)
            <4>1. PICK k \in told : n = Nack(k, TRUE)
                BY <3>2
            <4>2. k \in DOMAIN in_progress /\ (k \in over <=> TRUE)
                BY <2>3
            <4>3. n.missing # {} /\ n.key = k /\ n.give_up = TRUE
                BY <4>1, <4>2, <2>4
            <4> QED BY <4>2, <4>3, <2>1
        <3> QED BY <2>1, <3>1, <3>2
    <2> QED BY <2>5 DEF NacksNameMissing
<1>5. CASE AdvanceClock
    BY <1>5, <1>1 DEF AdvanceClock
<1>6. CASE UNCHANGED vars
    BY <1>6 DEF vars, table, NacksNameMissing
<1> QED BY <1>2, <1>3, <1>4, <1>5, <1>6 DEF Next

\* tick never sends an empty request, and says give_up of exactly the slots
\* it frees.
THEOREM NacksCorrect == Spec => []NacksNameMissing
<1>1. Init => NacksNameMissing
    BY DEF Init, Returned, NacksNameMissing
<1>2. Inv /\ NacksNameMissing /\ [Next]_vars => NacksNameMissing'
    BY AsksForMissing
<1> QED BY <1>1, <1>2, Invariance, PTL DEF Spec

-----------------------------------------------------------------------------
(* The assembler implements SettledOnce                                     *)

\* The mapping of the blacklist, for any list.
At(bl) ==
    [k \in Blacklisted(bl) |-> bl[CHOOSE i \in DOMAIN bl : bl[i].key = k].at]

\* What the mapping gives for a list without duplicates.
LEMMA AtFields ==
    ASSUME NEW bl, NEW t, Settled(bl, t)
    PROVE  /\ DOMAIN At(bl) = Blacklisted(bl)
           /\ \A i \in DOMAIN bl : /\ bl[i].key \in Blacklisted(bl)
                                   /\ At(bl)[bl[i].key] = bl[i].at
                                   /\ bl[i].at \in Nat /\ bl[i].at <= t
           /\ \A k \in Blacklisted(bl) : \E i \in DOMAIN bl : bl[i].key = k
<1>1. /\ \A i, j \in DOMAIN bl : bl[i].key = bl[j].key => i = j
      /\ \A i, j \in DOMAIN bl : i <= j => bl[i].at <= bl[j].at /\ bl[j].at <= t
      /\ bl \in Seq(Entry)
    BY DEF Settled
<1>2. \A i \in DOMAIN bl : i \in Nat /\ bl[i] \in Entry
    <2>1. DOMAIN bl = 1 .. Len(bl) /\ Len(bl) \in Nat
        BY <1>1, LenProperties
    <2>2. \A i \in 1 .. Len(bl) : bl[i] \in Entry
        BY <1>1, ElementOfSeq
    <2> QED BY <2>1, <2>2
<1>3. ASSUME NEW i \in DOMAIN bl
      PROVE  /\ bl[i].key \in Blacklisted(bl) /\ At(bl)[bl[i].key] = bl[i].at
             /\ bl[i].at \in Nat /\ bl[i].at <= t
    <2> DEFINE k == bl[i].key
               c == CHOOSE j \in DOMAIN bl : bl[j].key = k
    <2>1. k \in Blacklisted(bl)
        BY DEF Blacklisted
    <2>2. c \in DOMAIN bl /\ bl[c].key = k
        OBVIOUS
    <2>3. At(bl)[k] = bl[c].at
        BY <2>1 DEF At
    <2> HIDE DEF c
    <2>4. c = i
        BY <1>1, <2>2
    <2>5. bl[i].at \in Nat /\ i <= i
        BY <1>2 DEF Entry
    <2> QED BY <1>1, <2>1, <2>3, <2>4, <2>5
<1> QED BY <1>3 DEF At, Blacklisted

\* A list names as many keys as it is long.
LEMMA KeysCounted ==
    ASSUME NEW bl, NEW t, Settled(bl, t)
    PROVE  Cardinality(Blacklisted(bl)) = Len(bl)
<1>1. bl \in Seq(Entry) /\ \A i, j \in DOMAIN bl : bl[i].key = bl[j].key => i = j
    BY DEF Settled
<1>2. DOMAIN bl = 1 .. Len(bl) /\ Len(bl) \in Nat
    BY <1>1, LenProperties
<1> DEFINE f == [i \in 1 .. Len(bl) |-> bl[i].key]
<1>3. f \in Bijection(1 .. Len(bl), Blacklisted(bl))
    <2>1. f \in [1 .. Len(bl) -> Blacklisted(bl)]
        BY <1>2 DEF Blacklisted
    <2>2. \A i, j \in 1 .. Len(bl) : f[i] = f[j] => i = j
        BY <1>1, <1>2
    <2>3. \A k \in Blacklisted(bl) : \E i \in 1 .. Len(bl) : f[i] = k
        BY <1>2 DEF Blacklisted
    <2> HIDE DEF f
    <2> QED BY <2>1, <2>2, <2>3 DEF Bijection, Injection, Surjection, IsInjective
<1>4. ExistsBijection(1 .. Len(bl), Blacklisted(bl))
    BY <1>3 DEF ExistsBijection
<1> QED BY <1>2, <1>4, FS_CountingElements

-----------------------------------------------------------------------------
(* What happens to the list *)

\* b is the list bl after the keys of K were settled, one push or several:
\* a key of K has the present time, another keeps its time, and what is lost
\* was the oldest of a full list.
Since(bl, K, k) == IF k \in K THEN now ELSE At(bl)[k]
Follows(b, bl, K) ==
    /\ Settled(b, now)
    /\ Blacklisted(b) \subseteq Blacklisted(bl) \cup K
    /\ \A k \in Blacklisted(b) : At(b)[k] = Since(bl, K, k)
    /\ \A k \in (Blacklisted(bl) \cup K) \ Blacklisted(b) :
          /\ Len(b) = BlacklistMax
          /\ \A j \in Blacklisted(b) : Since(bl, K, k) <= At(b)[j]
    /\ Len(bl) = BlacklistMax => Len(b) = BlacklistMax

\* DrainSettled, of a list that is what is left after draining m entries.
LEMMA DrainIs ==
    ASSUME NEW list, NEW t \in Nat, Settled(list, t), NEW m \in Nat,
           NEW r, r = SubSeq(list, m + 1, Len(list))
    PROVE  /\ Settled(r, t)
           /\ Len(r) = IF m <= Len(list) THEN Len(list) - m ELSE 0
<1>1. Settled(r, t)
    BY DrainSettled
<1>2. Len(r) = IF m <= Len(list) THEN Len(list) - m ELSE 0
    BY DrainSettled
<1> QED BY <1>1, <1>2

\* Where what is left came from.
LEMMA DrainFrom ==
    ASSUME NEW list, NEW t \in Nat, Settled(list, t), NEW m \in Nat,
           NEW r, r = SubSeq(list, m + 1, Len(list)),
           NEW i \in DOMAIN r
    PROVE  r[i] = list[m + i] /\ m + i \in DOMAIN list
BY DrainSettled

LEMMA PushFollows ==
    ASSUME now \in Nat, NEW bl, Settled(bl, now),
           NEW K \in SUBSET Keys, IsFiniteSet(K), K \cap Blacklisted(bl) = {},
           NEW b \in push_blacklist(bl, K)
    PROVE  Follows(b, bl, K)
<1>1. PICK pushed : \E m \in Nat :
          /\ Settled(pushed, now) /\ Extends(pushed, bl, K)
          /\ b = SubSeq(pushed, m + 1, Len(pushed))
          /\ Len(pushed) - m <= BlacklistMax
          /\ m > 0 => Len(pushed) - m = BlacklistMax
    BY PushShape
<1>2. PICK m \in Nat :
          /\ b = SubSeq(pushed, m + 1, Len(pushed))
          /\ Len(pushed) - m <= BlacklistMax
          /\ m > 0 => Len(pushed) - m = BlacklistMax
    BY <1>1
<1>3. /\ Settled(b, now)
      /\ Len(b) = IF m <= Len(pushed) THEN Len(pushed) - m ELSE 0
      /\ \A i \in DOMAIN b : b[i] = pushed[m + i] /\ m + i \in DOMAIN pushed
      /\ \A i \in DOMAIN pushed : i > m => i - m \in DOMAIN b /\ b[i - m] = pushed[i]
    <2>1. Settled(pushed, now)
        BY <1>1
    <2>2. b = SubSeq(pushed, m + 1, Len(pushed))
        BY <1>2
    <2>3. Settled(b, now)
        BY <2>1, <2>2, DrainIs
    <2>4. Len(b) = IF m <= Len(pushed) THEN Len(pushed) - m ELSE 0
        BY <2>1, <2>2, DrainIs
    <2>5. ASSUME NEW i \in DOMAIN b
          PROVE  b[i] = pushed[m + i] /\ m + i \in DOMAIN pushed
        BY <2>1, <2>2, DrainFrom
    <2>6. \A i \in DOMAIN pushed : i > m => i - m \in DOMAIN b /\ b[i - m] = pushed[i]
        BY <2>1, <2>2, DrainSettled
    <2> QED BY <2>3, <2>4, <2>5, <2>6
<1>4. DOMAIN pushed = 1 .. Len(pushed) /\ Len(pushed) \in Nat
    BY <1>1, LenProperties DEF Settled
<1>5. /\ DOMAIN b = 1 .. Len(b) /\ Len(b) \in Nat
      /\ DOMAIN bl = 1 .. Len(bl) /\ Len(bl) \in Nat
    BY <1>3, LenProperties DEF Settled
\* Where a key stands in the list with everything pushed.
<1>6. ASSUME NEW i \in DOMAIN pushed
      PROVE  /\ pushed[i].key \in Blacklisted(bl) \cup K
             /\ pushed[i].at = Since(bl, K, pushed[i].key)
    <2>1. CASE i \in DOMAIN bl
        <3>1. pushed[i] = bl[i]
            BY <1>1, <2>1 DEF Extends
        <3>2. bl[i].key \in Blacklisted(bl) /\ At(bl)[bl[i].key] = bl[i].at
            BY <2>1, AtFields
        <3> QED BY <3>1, <3>2 DEF Since
    <2>2. CASE i \notin DOMAIN bl
        BY <1>1, <2>2 DEF Extends, Since
    <2> QED BY <2>1, <2>2
<1>7. ASSUME NEW k \in Blacklisted(bl) \cup K
      PROVE  \E i \in DOMAIN pushed : pushed[i].key = k /\ pushed[i].at = Since(bl, K, k)
    <2>1. CASE k \in K
        <3>1. k \in K \ Blacklisted(bl)
            BY <2>1
        <3> QED BY <3>1, <1>1 DEF Extends, Since
    <2>2. CASE k \in Blacklisted(bl)
        <3>1. PICK i \in DOMAIN bl : bl[i].key = k
            BY <2>2, AtFields
        <3>2. i \in DOMAIN pushed /\ pushed[i] = bl[i]
            BY <1>1 DEF Extends
        <3> QED BY <3>1, <3>2, <1>6
    <2> QED BY <2>1, <2>2
<1>8. ASSUME NEW k \in Blacklisted(b)
      PROVE  \E i \in DOMAIN pushed : /\ i > m /\ pushed[i].key = k
                                      /\ At(b)[k] = pushed[i].at
    <2>1. PICK j \in DOMAIN b : b[j].key = k
        BY <1>3, AtFields
    <2>2. At(b)[k] = b[j].at
        BY <1>3, <2>1, AtFields
    <2>3. b[j] = pushed[m + j] /\ m + j \in DOMAIN pushed
        BY <1>3
    <2>4. m + j > m
        BY <1>5
    <2> QED BY <2>1, <2>2, <2>3, <2>4
<1>9. /\ Blacklisted(b) \subseteq Blacklisted(bl) \cup K
      /\ \A k \in Blacklisted(b) : At(b)[k] = Since(bl, K, k)
    BY <1>6, <1>8
<1>10. ASSUME NEW k \in (Blacklisted(bl) \cup K) \ Blacklisted(b)
       PROVE  /\ Len(b) = BlacklistMax
              /\ \A j \in Blacklisted(b) : Since(bl, K, k) <= At(b)[j]
    <2>1. PICK i \in DOMAIN pushed : pushed[i].key = k /\ pushed[i].at = Since(bl, K, k)
        BY <1>7
    <2>2. ~(i > m)
        <3>1. SUFFICES ASSUME i > m PROVE FALSE
            OBVIOUS
        <3>2. i - m \in DOMAIN b /\ b[i - m].key = k
            BY <1>3, <2>1, <3>1
        <3> QED BY <3>2, <1>3, AtFields
    <2>3. i \in Nat /\ 1 <= i /\ i <= Len(pushed) /\ i <= m
        BY <1>4, <2>2
    <2>4. Len(b) = BlacklistMax
        <3>1. Len(pushed) - m = BlacklistMax
            BY <1>2, <2>3
        <3>2. m <= Len(pushed)
            BY <3>1, <1>4, ConstantsAssumption
        <3> QED BY <3>1, <3>2, <1>3
    <2>5. ASSUME NEW j \in Blacklisted(b) PROVE Since(bl, K, k) <= At(b)[j]
        <3>1. PICK p \in DOMAIN pushed : p > m /\ At(b)[j] = pushed[p].at
            BY <1>8
        <3>2. i <= p
            BY <1>4, <2>3, <3>1
        <3>3. pushed[i].at <= pushed[p].at
            BY <1>1, <3>2 DEF Settled
        <3> QED BY <2>1, <3>1, <3>3
    <2> QED BY <2>4, <2>5
<1>11. Len(bl) = BlacklistMax => Len(b) = BlacklistMax
    <2>1. SUFFICES ASSUME Len(bl) = BlacklistMax PROVE Len(b) = BlacklistMax
        OBVIOUS
    <2> DEFINE len == Len(pushed)
    <2>2. BlacklistMax <= len /\ BlacklistMax \in Nat /\ len \in Nat
        BY <1>1, <1>4, <2>1, ConstantsAssumption DEF Extends
    <2>3. len - m = BlacklistMax
        <3>1. len - m <= BlacklistMax /\ (m > 0 => len - m = BlacklistMax)
            BY <1>2
        <3> HIDE DEF len
        <3>2. CASE m = 0
            BY <2>2, <3>1, <3>2
        <3>3. CASE m > 0
            BY <3>1, <3>3
        <3> QED BY <3>2, <3>3
    <2>4. m <= Len(pushed)
        BY <2>2, <2>3, <1>4
    <2> QED BY <2>3, <2>4, <1>3
<1> QED BY <1>3, <1>9, <1>10, <1>11 DEF Follows

\* Settling nothing, and settling some keys after others.
LEMMA NothingFollows ==
    ASSUME NEW bl, Settled(bl, now)
    PROVE  Follows(bl, bl, {})
BY DEF Follows, Since

LEMMA FollowsTwice ==
    ASSUME now \in Nat, NEW bl, Settled(bl, now), NEW K, NEW L, NEW a, NEW b,
           Follows(a, bl, K), Follows(b, a, L)
    PROVE  Follows(b, bl, K \cup L)
<1> DEFINE since(k) == Since(bl, K \cup L, k)
<1>1. \A k \in Blacklisted(a) : Since(a, L, k) = since(k)
    BY DEF Follows, Since
<1>2. ASSUME NEW k \in Blacklisted(bl) \cup K \cup L
      PROVE  since(k) <= now
    <2>1. k \in Blacklisted(bl) => At(bl)[k] \in Nat /\ At(bl)[k] <= now
        BY AtFields
    <2> QED BY <2>1 DEF Since
<1>3. Blacklisted(b) \subseteq Blacklisted(bl) \cup (K \cup L)
    BY DEF Follows
<1>4. \A k \in Blacklisted(b) : At(b)[k] = since(k)
    BY <1>1 DEF Follows, Since
<1>5. ASSUME NEW k \in (Blacklisted(bl) \cup (K \cup L)) \ Blacklisted(b)
      PROVE  /\ Len(b) = BlacklistMax
             /\ \A j \in Blacklisted(b) : since(k) <= At(b)[j]
    <2>1. CASE k \in Blacklisted(a) \cup L
        <3>1. k \in (Blacklisted(a) \cup L) \ Blacklisted(b)
            BY <2>1
        <3>2. Since(a, L, k) = since(k)
            BY <2>1, <1>1 DEF Since
        <3> QED BY <3>1, <3>2 DEF Follows
    <2>2. CASE k \notin Blacklisted(a) \cup L
        <3>1. k \in (Blacklisted(bl) \cup K) \ Blacklisted(a)
            BY <2>2
        <3>2. /\ Len(a) = BlacklistMax
              /\ \A j \in Blacklisted(a) : Since(bl, K, k) <= At(a)[j]
            BY <3>1 DEF Follows
        <3>3. Since(bl, K, k) = since(k)
            BY <2>2 DEF Since
        <3>4. Len(b) = BlacklistMax
            BY <3>2 DEF Follows
        <3>5. ASSUME NEW j \in Blacklisted(b) PROVE since(k) <= At(b)[j]
            <4>1. At(b)[j] = Since(a, L, j)
                BY DEF Follows
            <4>2. CASE j \in L
                BY <4>1, <4>2, <1>2 DEF Since
            <4>3. CASE j \notin L
                <5>1. j \in Blacklisted(a)
                    BY <4>3 DEF Follows
                <5> QED BY <4>1, <4>3, <5>1, <3>2, <3>3 DEF Since
            <4> QED BY <4>2, <4>3
        <3> QED BY <3>4, <3>5
    <2> QED BY <2>1, <2>2
<1>6. Settled(b, now) /\ (Len(bl) = BlacklistMax => Len(b) = BlacklistMax)
    BY DEF Follows
<1> HIDE DEF since
<1> QED BY <1>3, <1>4, <1>5, <1>6 DEF Follows, since

\* Pruning forgets exactly what is over its time in memory: the entries are
\* in the order of their times, so the expired ones are the first.
LEMMA Forgets ==
    ASSUME Inv
    PROVE  /\ Settled(Pruned, now)
           /\ Blacklisted(Pruned) \subseteq Blacklisted(blacklist)
           /\ \A k \in Blacklisted(Pruned) : At(Pruned)[k] = At(blacklist)[k]
           /\ \A k \in Blacklisted(blacklist) \ Blacklisted(Pruned) :
                 now - At(blacklist)[k] >= cfg.completion_memory
<1> DEFINE expired == { i \in DOMAIN blacklist :
                          now - blacklist[i].at >= cfg.completion_memory }
           m == Cardinality(expired)
<1>1. Settled(blacklist, now) /\ now \in Nat /\ cfg.completion_memory \in Nat
    BY DEF Inv, TableOK, ConfigType
<1>2. DOMAIN blacklist = 1 .. Len(blacklist) /\ Len(blacklist) \in Nat
    BY <1>1, LenProperties DEF Settled
<1>3. IsFiniteSet(expired) /\ m \in Nat
    <2>1. IsFiniteSet(DOMAIN blacklist)
        BY <1>2, FS_Interval
    <2>2. expired \subseteq DOMAIN blacklist
        OBVIOUS
    <2> HIDE DEF expired
    <2> QED BY <2>1, <2>2, FS_Subset, FS_CardinalityType
<1>4. \A i \in DOMAIN blacklist : blacklist[i].at \in Nat
    BY <1>1, AtFields
<1>5. ASSUME NEW i \in DOMAIN blacklist, i <= m
      PROVE  now - blacklist[i].at >= cfg.completion_memory
    <2>1. SUFFICES ASSUME ~(now - blacklist[i].at >= cfg.completion_memory) PROVE FALSE
        OBVIOUS
    <2>2. ASSUME NEW j \in expired PROVE j \in 1 .. (i - 1)
        <3>1. j \in DOMAIN blacklist /\ now - blacklist[j].at >= cfg.completion_memory
            OBVIOUS
        <3>2. ~(i <= j)
            <4>1. SUFFICES ASSUME i <= j PROVE FALSE
                OBVIOUS
            <4>2. blacklist[i].at <= blacklist[j].at
                BY <4>1, <3>1, <1>1 DEF Settled
            <4>3. blacklist[i].at \in Nat /\ blacklist[j].at \in Nat
                BY <3>1, <1>4
            <4> QED BY <1>1, <2>1, <3>1, <4>2, <4>3
        <3> QED BY <3>1, <3>2, <1>2
    <2>3. i \in Nat /\ 1 <= i
        BY <1>2
    <2>4. IsFiniteSet(1 .. (i - 1)) /\ Cardinality(1 .. (i - 1)) = i - 1
        <3>1. i - 1 \in Int /\ 1 \in Int /\ (1 > i - 1 => i - 1 = 0)
            BY <2>3
        <3>2. /\ IsFiniteSet(1 .. (i - 1))
              /\ Cardinality(1 .. (i - 1)) = IF 1 > i - 1 THEN 0 ELSE (i - 1) - 1 + 1
            BY <3>1, FS_Interval
        <3> QED BY <2>3, <3>1, <3>2
    <2>5. m <= i - 1
        <3>1. expired \subseteq 1 .. (i - 1)
            BY <2>2
        <3> HIDE DEF expired
        <3> QED BY <2>4, <3>1, FS_Subset
    <2> HIDE DEF m
    <2> QED BY <2>3, <2>5, <1>3, <1>5
<1>6. Pruned = SubSeq(blacklist, m + 1, Len(blacklist))
    BY DEF Pruned
<1> HIDE DEF m, expired
<1>7. /\ Settled(Pruned, now) /\ Blacklisted(Pruned) \subseteq Blacklisted(blacklist)
      /\ \A i \in DOMAIN Pruned : /\ Pruned[i] = blacklist[m + i]
                                  /\ m + i \in DOMAIN blacklist
      /\ \A i \in DOMAIN blacklist :
            i > m => i - m \in DOMAIN Pruned /\ Pruned[i - m] = blacklist[i]
    BY <1>1, <1>3, <1>6, DrainSettled
<1>8. ASSUME NEW k \in Blacklisted(Pruned)
      PROVE  At(Pruned)[k] = At(blacklist)[k]
    <2>1. PICK i \in DOMAIN Pruned : Pruned[i].key = k
        BY <1>7, AtFields
    <2>2. At(Pruned)[k] = Pruned[i].at
        BY <2>1, <1>7, AtFields
    <2>3. Pruned[i] = blacklist[m + i] /\ m + i \in DOMAIN blacklist
        BY <1>7
    <2>4. At(blacklist)[blacklist[m + i].key] = blacklist[m + i].at
        BY <2>3, <1>1, AtFields
    <2> QED BY <2>1, <2>2, <2>3, <2>4
<1>9. ASSUME NEW k \in Blacklisted(blacklist) \ Blacklisted(Pruned)
      PROVE  now - At(blacklist)[k] >= cfg.completion_memory
    <2>1. PICK i \in DOMAIN blacklist : blacklist[i].key = k
        BY <1>1, AtFields
    <2>2. At(blacklist)[k] = blacklist[i].at
        BY <2>1, <1>1, AtFields
    <2>3. ~(i > m)
        <3>1. SUFFICES ASSUME i > m PROVE FALSE
            OBVIOUS
        <3>2. i - m \in DOMAIN Pruned /\ Pruned[i - m].key = k
            BY <3>1, <2>1, <1>7
        <3> QED BY <3>2, <1>7, AtFields
    <2>4. i <= m
        BY <2>3, <1>2, <1>3
    <2> QED BY <2>2, <2>4, <1>5
<1> QED BY <1>7, <1>8, <1>9

-----------------------------------------------------------------------------
(* The steps *)

\* The memory SettledOnce counts on, and what the assembler has in force.
LeastMemory == CHOOSE m \in Memories : \A n \in Memories : m <= n
Remembers == cfg.completion_memory \in Memories

LEMMA MemoryLeast ==
    ASSUME NEW c \in Memories
    PROVE  LeastMemory \in Nat /\ LeastMemory <= c
<1> DEFINE R == { ss \in Nat \X Nat : ss[1] < ss[2] }
<1>1. Memories \subseteq Nat /\ Memories # {}
    BY ConstantsAssumption DEF Memories, clamped, ConfigType, AtLeast
<1>2. OpToRel(<, Nat) = R
    BY Zenon DEF OpToRel
<1>3. IsWellFoundedOn(R, Nat)
    BY <1>2, NatLessThanWellFounded, Zenon
<1>4. PICK i \in Memories : \A j \in Memories : ~(<<j, i>> \in R)
    <2> HIDE DEF R
    <2> QED BY <1>1, <1>3, WFMin
<1>5. \A j \in Memories : i <= j
    <2>1. SUFFICES ASSUME NEW j \in Memories, ~(i <= j) PROVE <<j, i>> \in R
        BY <1>4
    <2>2. i \in Nat /\ j \in Nat /\ j < i
        BY <1>1, <2>1
    <2> DEFINE ss == <<j, i>>
    <2>3. ss \in Nat \X Nat /\ ss[1] = j /\ ss[2] = i
        BY <2>2
    <2> HIDE DEF ss
    <2>4. ss \in R
        BY <2>2, <2>3
    <2> QED BY <2>4 DEF ss
<1>6. LeastMemory \in Memories /\ \A n \in Memories : LeastMemory <= n
    BY <1>5 DEF LeastMemory
<1> QED BY <1>1, <1>6

\* The keys whose message a step hands out.
Handed == { m.key : m \in out.finalized }

\* SettledOnce counts as the assembler does.
LEMMA SameCount ==
    ASSUME NEW S
    PROVE  Once!Cardinality(S) = Cardinality(S)
BY DEF Cardinality, Once!Cardinality

\* A step that settles the keys of C, in SettledOnce's words.
LEMMA AssemblesOnce ==
    ASSUME Inv, Remembers, now' = now,
           NEW C, C = (DOMAIN in_progress \ DOMAIN in_progress') \cup Handed',
           DOMAIN in_progress' \cap C = {},
           ((DOMAIN in_progress' \cup C) \ DOMAIN in_progress) \cap Blacklisted(Pruned) = {},
           Follows(blacklist', Pruned, C)
    PROVE  Once!Assemble
<1> DEFINE S == At(blacklist)
           T == At(blacklist')
           open == DOMAIN in_progress
           aged == { k \in DOMAIN S : now - S[k] >= LeastMemory }
           since(k) == IF k \in C THEN now ELSE S[k]
           lost == (DOMAIN S \cup C) \ DOMAIN T
<1>1. /\ Settled(blacklist, now) /\ Settled(Pruned, now) /\ Settled(blacklist', now)
      /\ now \in Nat
    BY Forgets DEF Inv, TableOK, Follows
<1>2. DOMAIN S = Blacklisted(blacklist) /\ DOMAIN T = Blacklisted(blacklist')
    BY <1>1, AtFields
<1>3. \A k \in DOMAIN S : S[k] \in Nat
    BY <1>1, <1>2, AtFields
<1>4. /\ LeastMemory \in Nat /\ LeastMemory <= cfg.completion_memory
      /\ cfg.completion_memory \in Nat
    BY MemoryLeast DEF Remembers, Inv, ConfigType
<1>5. /\ Blacklisted(Pruned) \subseteq DOMAIN S
      /\ \A k \in Blacklisted(Pruned) : At(Pruned)[k] = S[k]
      /\ \A k \in DOMAIN S \ Blacklisted(Pruned) : now - S[k] >= cfg.completion_memory
    BY <1>2, Forgets
<1>6. /\ Blacklisted(blacklist') \subseteq Blacklisted(Pruned) \cup C
      /\ \A k \in Blacklisted(blacklist') : T[k] = Since(Pruned, C, k)
      /\ \A k \in (Blacklisted(Pruned) \cup C) \ Blacklisted(blacklist') :
            /\ Len(blacklist') = BlacklistMax
            /\ \A j \in Blacklisted(blacklist') : Since(Pruned, C, k) <= T[j]
    BY DEF Follows
<1>7. \A k \in Blacklisted(Pruned) \cup C : Since(Pruned, C, k) = since(k)
    BY <1>5 DEF Since
<1>8. Cardinality(DOMAIN T) = Len(blacklist')
    BY <1>1, <1>2, KeysCounted
<1> HIDE DEF S, T
<1>9. \A k \in DOMAIN S \ Blacklisted(Pruned) : k \in aged
    <2>1. SUFFICES ASSUME NEW k \in DOMAIN S \ Blacklisted(Pruned) PROVE k \in aged
        OBVIOUS
    <2>2. S[k] \in Nat /\ now - S[k] >= cfg.completion_memory
        BY <1>3, <1>5
    <2>3. now - S[k] >= LeastMemory
        BY <2>2, <1>1, <1>4
    <2> QED BY <2>3
<1> HIDE DEF aged, since
<1>10. (((open' \cup C) \ open) \cap DOMAIN S) \subseteq aged
    BY <1>9
<1>11. DOMAIN T \subseteq DOMAIN S \cup C /\ \A k \in DOMAIN T : T[k] = since(k)
    BY <1>2, <1>5, <1>6, <1>7
<1>12. ASSUME NEW k \in lost
       PROVE  \/ k \in aged \ C
              \/ /\ Cardinality(DOMAIN T) = BlacklistMax
                 /\ \A j \in DOMAIN T : since(k) <= since(j)
    <2>1. CASE k \in Blacklisted(Pruned) \cup C
        <3>1. k \in (Blacklisted(Pruned) \cup C) \ Blacklisted(blacklist')
            BY <2>1, <1>2
        <3>2. /\ Len(blacklist') = BlacklistMax
              /\ \A j \in DOMAIN T : Since(Pruned, C, k) <= T[j]
            BY <3>1, <1>2, <1>6
        <3>3. Since(Pruned, C, k) = since(k)
            BY <2>1, <1>7
        <3> QED BY <3>2, <3>3, <1>8, <1>11
    <2>2. CASE k \notin Blacklisted(Pruned) \cup C
        BY <2>2, <1>9
    <2> QED BY <2>1, <2>2
<1>13. C = (open \ open') \cup Handed'
    OBVIOUS
<1>14. open' \cap C = {}
    OBVIOUS
<1> HIDE DEF lost, open
<1>15. /\ ((open' \cup C) \ open) \cap DOMAIN S \subseteq aged
       /\ open' \cap C = {}
       /\ DOMAIN T \subseteq DOMAIN S \cup C
       /\ \A k \in DOMAIN T : T[k] = since(k)
       /\ \A k \in lost : \/ k \in aged \ C
                          \/ /\ Cardinality(DOMAIN T) = BlacklistMax
                             /\ \A j \in DOMAIN T : since(k) <= since(j)
       /\ now' = now
    BY <1>10, <1>11, <1>12, <1>14
<1>16. Once!Cardinality(DOMAIN T) = Cardinality(DOMAIN T)
    BY SameCount
<1>17. Once!Assemble <=>
        LET closed == (open \ open') \cup Handed'
            snc(k) == IF k \in closed THEN now ELSE S[k]
            lst == (DOMAIN S \cup closed) \ DOMAIN T
        IN  /\ ((open' \cup closed) \ open) \cap DOMAIN S \subseteq aged
            /\ open' \cap closed = {}
            /\ DOMAIN T \subseteq DOMAIN S \cup closed
            /\ \A k \in DOMAIN T : T[k] = snc(k)
            /\ \A k \in lst : \/ k \in aged \ closed
                             \/ /\ Once!Cardinality(DOMAIN T) = BlacklistMax
                                /\ \A j \in DOMAIN T : snc(k) <= snc(j)
            /\ now' = now
    BY DEF Once!Assemble, S, T, open, aged, At, Handed, LeastMemory
<1> QED BY <1>13, <1>15, <1>16, <1>17 DEF since, lost

\* What a step settles has been open, or is about to be, and is not settled.
LEMMA Closing ==
    ASSUME Inv, NEW K \in SUBSET DOMAIN in_progress
    PROVE  /\ K \in SUBSET Keys /\ IsFiniteSet(K)
           /\ DOMAIN in_progress \cap Blacklisted(Pruned) = {}
           /\ K \cap Blacklisted(Pruned) = {}
           /\ Settled(Pruned, now) /\ now \in Nat
<1>1. TableOK(in_progress, per_sender, Pruned, now) /\ now \in Nat
    BY PruneTable DEF Inv
<1> QED BY <1>1, FS_Subset DEF TableOK

\* Room made for a frame never costs its own slot.
LEMMA EvictionsSpare ==
    ASSUME NEW f, NEW evicted \in Evictions(f)
    PROVE  evicted \in SUBSET DOMAIN in_progress /\ Key(f) \notin evicted
<1>1. CASE IsKnown(f)
    BY <1>1 DEF Evictions
<1>2. CASE ~IsKnown(f)
    BY <1>2 DEF Evictions, IsKnown
<1> QED BY <1>1, <1>2

LEMMA KeptAssembles ==
    ASSUME Inv, Remembers, NEW f \in Frames, Admitted(f), NEW e, NEW event,
           KeepSlot(f, e, event)
    PROVE  Once!Assemble
<1>1. PICK evicted \in Evictions(f) :
          /\ in_progress' = With(Without(in_progress, evicted), Key(f), e)
          /\ blacklist' \in push_blacklist(Pruned, evicted)
          /\ out' = Returned(event) /\ now' = now
    BY DEF KeepSlot
<1>2. evicted \in SUBSET DOMAIN in_progress /\ Key(f) \notin evicted
    BY EvictionsSpare
<1>3. Follows(blacklist', Pruned, evicted)
    BY <1>1, <1>2, Closing, PushFollows
<1>4. DOMAIN in_progress' = (DOMAIN in_progress \ evicted) \cup {Key(f)}
    BY <1>1 DEF With, Without
<1>5. Handed' = {}
    BY <1>1 DEF Handed, Returned
<1>6. evicted = (DOMAIN in_progress \ DOMAIN in_progress') \cup Handed'
    BY <1>2, <1>4, <1>5
<1>7. Key(f) \notin Blacklisted(Pruned)
    BY DEF Admitted
<1>8. ((DOMAIN in_progress' \cup evicted) \ DOMAIN in_progress) \cap Blacklisted(Pruned) = {}
    BY <1>2, <1>4, <1>7
<1>9. DOMAIN in_progress' \cap evicted = {}
    BY <1>2, <1>4
<1> QED BY <1>1, <1>3, <1>6, <1>8, <1>9, AssemblesOnce

LEMMA AcceptAssembles ==
    ASSUME Inv, Remembers, NEW f \in Frames, accept(f)
    PROVE  Once!Assemble
<1>1. Follows(Pruned, Pruned, {})
    BY Forgets, NothingFollows
<1>2. CASE RejectFrame(f)
    <2>1. /\ in_progress' = in_progress /\ blacklist' = Pruned /\ now' = now
          /\ out' = Returned("Rejected")
        BY <1>2 DEF RejectFrame, table
    <2>2. Handed' = {}
        BY <2>1 DEF Handed, Returned
    <2>3. /\ {} = (DOMAIN in_progress \ DOMAIN in_progress') \cup Handed'
          /\ DOMAIN in_progress' \cap {} = {}
          /\ ((DOMAIN in_progress' \cup {}) \ DOMAIN in_progress) \cap Blacklisted(Pruned) = {}
        BY <2>1, <2>2
    <2>4. Follows(blacklist', Pruned, {})
        BY <1>1, <2>1
    <2> QED BY <2>1, <2>3, <2>4, AssemblesOnce
<1>3. CASE StrikeSlot(f)
    <2>1. /\ DOMAIN in_progress' = DOMAIN in_progress /\ blacklist' = Pruned
          /\ now' = now /\ out' = Returned("Rejected")
        BY <1>3 DEF StrikeSlot, IsKnown, With
    <2>2. Handed' = {}
        BY <2>1 DEF Handed, Returned
    <2>3. /\ {} = (DOMAIN in_progress \ DOMAIN in_progress') \cup Handed'
          /\ DOMAIN in_progress' \cap {} = {}
          /\ ((DOMAIN in_progress' \cup {}) \ DOMAIN in_progress) \cap Blacklisted(Pruned) = {}
        BY <2>1, <2>2
    <2>4. Follows(blacklist', Pruned, {})
        BY <1>1, <2>1
    <2> QED BY <2>1, <2>3, <2>4, AssemblesOnce
<1>4. CASE StrikeOut(f)
    <2> DEFINE C == {Key(f)}
    <2>1. /\ C \in SUBSET DOMAIN in_progress
          /\ DOMAIN in_progress' = DOMAIN in_progress \ C
          /\ blacklist' \in push_blacklist(Pruned, C)
          /\ now' = now /\ out' = Returned("Rejected")
        BY <1>4 DEF StrikeOut, IsKnown, Without
    <2>2. Handed' = {}
        BY <2>1 DEF Handed, Returned
    <2>3. /\ C = (DOMAIN in_progress \ DOMAIN in_progress') \cup Handed'
          /\ DOMAIN in_progress' \cap C = {}
          /\ ((DOMAIN in_progress' \cup C) \ DOMAIN in_progress) \cap Blacklisted(Pruned) = {}
        BY <2>1, <2>2
    <2> HIDE DEF C
    <2>4. Follows(blacklist', Pruned, C)
        BY <2>1, Closing, PushFollows
    <2> QED BY <2>1, <2>3, <2>4, AssemblesOnce
<1>5. CASE DuplicateShard(f) \/ MisfitShard(f) \/ StoreShard(f)
    <2>1. Admitted(f) /\ \E e, event : KeepSlot(f, e, event)
        BY <1>5 DEF DuplicateShard, MisfitShard, StoreShard, TakesShard, Agrees
    <2> QED BY <2>1, KeptAssembles
<1>6. CASE CompleteMessage(f)
    <2>1. /\ Admitted(f) /\ now' = now
          /\ \E e : out'.finalized = {finalize(Key(f), e, TRUE)}
        BY <1>6 DEF CompleteMessage, TakesShard, Agrees
    <2>2. PICK evicted \in Evictions(f) :
              /\ in_progress' = Without(in_progress, evicted \cup {Key(f)})
              /\ \E bl \in push_blacklist(Pruned, evicted) :
                    blacklist' \in push_blacklist(bl, {Key(f)})
        BY <1>6 DEF CompleteMessage
    <2>3. PICK bl \in push_blacklist(Pruned, evicted) :
              blacklist' \in push_blacklist(bl, {Key(f)})
        BY <2>2
    <2>4. evicted \in SUBSET DOMAIN in_progress /\ Key(f) \notin evicted
        BY EvictionsSpare
    <2>5. Follows(bl, Pruned, evicted)
        BY <2>4, Closing, PushFollows
    <2>6. Key(f) \notin Blacklisted(Pruned) /\ Key(f) \in Keys
        BY <2>1, FrameFields DEF Admitted, Key, Keys
    <2>7. Follows(blacklist', bl, {Key(f)})
        <3>1. {Key(f)} \cap Blacklisted(bl) = {}
            BY <2>4, <2>5, <2>6 DEF Follows
        <3>2. IsFiniteSet({Key(f)}) /\ {Key(f)} \in SUBSET Keys
            BY <2>6, FS_Singleton
        <3>3. Settled(bl, now) /\ now \in Nat
            BY <2>5 DEF Follows, Inv
        <3> QED BY <2>3, <3>1, <3>2, <3>3, PushFollows
    <2> DEFINE C == evicted \cup {Key(f)}
    <2>8. Follows(blacklist', Pruned, C)
        <3>1. Settled(Pruned, now) /\ now \in Nat
            BY Forgets DEF Inv
        <3> QED BY <3>1, <2>5, <2>7, FollowsTwice
    <2>9. Handed' = {Key(f)}
        BY <2>1 DEF Handed, finalize
    <2>10. DOMAIN in_progress' = DOMAIN in_progress \ C
        BY <2>2 DEF Without
    <2>11. /\ C = (DOMAIN in_progress \ DOMAIN in_progress') \cup Handed'
           /\ DOMAIN in_progress' \cap C = {}
           /\ ((DOMAIN in_progress' \cup C) \ DOMAIN in_progress) \cap Blacklisted(Pruned) = {}
        BY <2>4, <2>6, <2>9, <2>10
    <2> HIDE DEF C
    <2> QED BY <2>1, <2>8, <2>11, AssemblesOnce
<1> QED BY <1>2, <1>3, <1>4, <1>5, <1>6 DEF accept

LEMMA TickAssembles ==
    ASSUME Inv, Remembers, tick
    PROVE  Once!Assemble
<1> DEFINE over == { k \in DOMAIN in_progress : GivesUp(in_progress[k]) }
<1>1. /\ DOMAIN in_progress' = DOMAIN in_progress \ over
      /\ blacklist' \in push_blacklist(Pruned, over) /\ now' = now
      /\ \A m \in out'.finalized : \E k \in over : m = finalize(k, in_progress[k], FALSE)
    BY DEF tick
<1>2. over \in SUBSET DOMAIN in_progress
    OBVIOUS
<1> HIDE DEF over
<1>3. Handed' \subseteq over
    BY <1>1 DEF Handed, finalize
<1>4. Follows(blacklist', Pruned, over)
    BY <1>1, <1>2, Closing, PushFollows
<1>5. /\ over = (DOMAIN in_progress \ DOMAIN in_progress') \cup Handed'
      /\ DOMAIN in_progress' \cap over = {}
      /\ ((DOMAIN in_progress' \cup over) \ DOMAIN in_progress) \cap Blacklisted(Pruned) = {}
    BY <1>1, <1>2, <1>3
<1> QED BY <1>1, <1>4, <1>5, AssemblesOnce

-----------------------------------------------------------------------------
(* The theorem *)

LEMMA StepRefines ==
    ASSUME Inv, Remembers, [Next]_vars
    PROVE  [Once!Next]_(Once!vars)
<1>1. CASE \E f \in Frames : accept(f)
    BY <1>1, AcceptAssembles DEF Once!Next
<1>2. CASE \E c \in Configs : set_config(c)
    <2>1. /\ now' = now /\ in_progress' = in_progress /\ blacklist' = blacklist
          /\ out'.finalized = {} /\ now \in Nat
        BY <1>2 DEF set_config, table, Returned, Inv
    <2> QED BY <2>1 DEF Once!Next, Once!TimePasses
<1>3. CASE tick
    BY <1>3, TickAssembles DEF Once!Next
<1>4. CASE AdvanceClock
    <2>1. /\ now' = now + 1 /\ in_progress' = in_progress /\ blacklist' = blacklist
          /\ out'.finalized = {} /\ now \in Nat
        BY <1>4 DEF AdvanceClock, table, Returned, Inv
    <2>2. now' >= now
        BY <2>1
    <2> QED BY <2>1, <2>2 DEF Once!Next, Once!TimePasses
<1>5. CASE UNCHANGED vars
    BY <1>5 DEF vars, Once!vars
<1> QED BY <1>1, <1>2, <1>3, <1>4, <1>5 DEF Next

LEMMA MemoryKept ==
    ASSUME Remembers, [Next]_vars
    PROVE  Remembers'
<1>1. CASE \E c \in Configs : set_config(c)
    <2>1. PICK c \in Configs : set_config(c)
        BY <1>1
    <2>2. c \in ConfigType /\ cfg' = c /\ c.completion_memory >= c.message_timeout
          /\ c.message_timeout > 0
        BY <2>1, ConstantsAssumption DEF set_config, validate
    <2>3. clamped(c).completion_memory = c.completion_memory
        BY <2>2 DEF clamped, AtLeast, ConfigType
    <2>4. c.completion_memory \in Memories
        BY <2>3 DEF Memories
    <2> QED BY <2>2, <2>4 DEF Remembers
<1>2. CASE cfg' = cfg
    BY <1>2 DEF Remembers
<1>3. (\E f \in Frames : accept(f)) => cfg' = cfg
    BY DEF accept, RejectFrame, StrikeSlot, StrikeOut, DuplicateShard, MisfitShard,
           StoreShard, CompleteMessage, KeepSlot
<1>4. (tick \/ AdvanceClock \/ UNCHANGED vars) => cfg' = cfg
    BY DEF tick, AdvanceClock, vars
<1> QED BY <1>1, <1>2, <1>3, <1>4 DEF Next

\* No frame opens a settled key again, and no message is handed out twice,
\* while its key is remembered: accept, tick, the clock and the host's
\* configurations only take steps SettledOnce allows.
THEOREM SettledOnceCorrect == Spec => ImplementsSettledOnce
<1>1. Init => Once!Init
    BY DEF Init, Once!Init, Returned, Blacklisted
<1>2. Init => Remembers
    BY DEF Init, Remembers, Memories
<1>3. Remembers /\ [Next]_vars => Remembers'
    BY MemoryKept
<1>4. Inv /\ Remembers /\ [Next]_vars => [Once!Next]_(Once!vars)
    BY StepRefines
<1> QED BY <1>1, <1>2, <1>3, <1>4, Invariance, PTL DEF Spec, ImplementsSettledOnce, Once!Spec

-----------------------------------------------------------------------------
(* Durations *)

\* Rounding up covers what is rounded, and keeps its order.
LEMMA CeilCovers ==
    ASSUME NEW a \in Nat, NEW w \in Nat \ {0}
    PROVE  /\ (a + w - 1) \div w \in Nat
           /\ ((a + w - 1) \div w) * w >= a
           /\ ((a + w - 1) \div w) * w <= a + w - 1
<1> DEFINE n == a + w - 1
           q == n \div w
<1>1. n \in Nat
    OBVIOUS
<1>2. q \in Nat /\ w * q <= n /\ n < w * q + w
    <2> HIDE DEF n
    <2>1. q \in Nat
        BY <1>1
    <2>2. w * q <= n
        BY <1>1
    <2>3. n < w * q + w
        BY <1>1
    <2> QED BY <2>1, <2>2, <2>3
<1> HIDE DEF q
<1>3. w * q \in Int /\ q * w = w * q
    BY <1>2
<1>4. q * w >= a /\ q * w <= n
    BY <1>2, <1>3
<1> QED BY <1>2, <1>4 DEF q

\* More steps of w than the fewest that cover a cover it as well.
LEMMA CeilLeast ==
    ASSUME NEW a \in Nat, NEW w \in Nat \ {0}, NEW n \in Nat, n * w >= a
    PROVE  (a + w - 1) \div w <= n
<1> DEFINE q == (a + w - 1) \div w
<1>1. q \in Nat /\ q * w <= a + w - 1
    BY CeilCovers
<1> HIDE DEF q
<1>2. SUFFICES ASSUME q >= n + 1 PROVE FALSE
    BY <1>1 DEF q
<1>3. q * w >= (n + 1) * w
    BY <1>1, <1>2
<1>4. (n + 1) * w = n * w + w
    OBVIOUS
<1> QED BY <1>1, <1>3, <1>4

LEMMA StepsOf ==
    ASSUME NEW ms \in Nat
    PROVE  Steps(ms) \in Nat /\ Steps(ms) * Unit >= ms
BY CeilCovers, RuntimeAssumption DEF Steps

LEMMA StepsGrow ==
    ASSUME NEW a \in Nat, NEW b \in Nat, a <= b
    PROVE  Steps(a) <= Steps(b)
<1>1. Steps(b) \in Nat /\ Steps(b) * Unit >= b /\ Unit \in Nat \ {0}
    BY StepsOf, RuntimeAssumption
<1>2. Steps(b) * Unit >= a
    BY <1>1
<1> QED BY <1>1, <1>2, CeilLeast DEF Steps

\* The longest timeout is within the bound of the cap, for the shortest
\* window: 65535 rounds of 1.5 s are more than an hour, in any unit.
Shortest == Steps(1500)
Longest == Seconds(3600)
LEMMA CapSuffices ==
    /\ Shortest \in Nat \ {0} /\ Longest \in Nat
    /\ Longest <= 65535 * Shortest
<1>1. Steps(1500) \in Nat /\ Steps(1500) * Unit >= 1500 /\ Unit \in Nat \ {0}
    BY StepsOf, RuntimeAssumption
<1>2. Longest = Steps(3600000) /\ Longest \in Nat
    BY StepsOf DEF Longest, Seconds
<1>3. Steps(1500) # 0
    BY <1>1
<1>4. (65535 * Steps(1500)) * Unit >= 3600000
    <2>1. (65535 * Steps(1500)) * Unit = 65535 * (Steps(1500) * Unit)
        BY <1>1
    <2> QED BY <1>1, <2>1
<1>5. Steps(3600000) <= 65535 * Steps(1500)
    BY <1>1, <1>4, CeilLeast DEF Steps
<1> QED BY <1>1, <1>2, <1>3, <1>5 DEF Shortest

-----------------------------------------------------------------------------
(* Configurations *)

\* What holds of every configuration that is in force or about to be.
Sane(c) ==
    /\ c \in ConfigType
    /\ c.message_timeout <= Longest /\ c.nack_window >= Shortest
    /\ c.nack_backoff_base # 0 => c.max_nack_rounds * c.nack_window >= c.message_timeout

\* The edits the settings and the policies ask for.
EditOK(e) ==
    \/ /\ e.key = "timeout" /\ e.value \in Nat /\ e.value <= Longest
    \/ /\ e.key = "partial" /\ e.value \in BOOLEAN
    \/ /\ e.key = "nack"
       /\ e.value.nack_window \in Nat /\ e.value.nack_window >= Shortest
       /\ e.value.backoff_base \in Nat /\ e.value.max_nack_rounds \in Nat

LEMMA TimeoutsFit ==
    ASSUME NEW s \in Timeouts
    PROVE  Seconds(s) \in Nat /\ Seconds(s) <= Longest
<1>1. s \in Nat /\ 1000 * s \in Nat /\ 1000 * s <= 1000 * 3600 /\ 1000 * 3600 \in Nat
    BY RuntimeAssumption
<1> QED BY <1>1, StepsOf, StepsGrow DEF Seconds, Longest

\* sync_nack_cap_to_timeout makes the cap cover the timeout.
LEMMA SyncSane ==
    ASSUME NEW c \in ConfigType, c.message_timeout <= Longest, c.nack_window >= Shortest
    PROVE  Sane(sync_nack_cap_to_timeout(c))
<1> DEFINE t == c.message_timeout
           w == c.nack_window
           q == (t + w - 1) \div w
           s == sync_nack_cap_to_timeout(c)
<1>1. /\ t \in Nat /\ w \in Nat \ {0} /\ t <= Longest /\ w >= Shortest
      /\ c.completion_memory \in Nat
    BY CapSuffices DEF ConfigType
<1>2. q \in Nat /\ q * w >= t
    BY <1>1, CeilCovers
<1>3. 65535 * w >= t
    <2>1. 65535 * w >= 65535 * Shortest
        BY <1>1, CapSuffices
    <2> QED BY <1>1, <2>1, CapSuffices
<1>4. s = [c EXCEPT !.max_nack_rounds = AtMost(q, 65535),
                    !.completion_memory = AtLeast(@, t)]
    BY DEF sync_nack_cap_to_timeout
<1> HIDE DEF q
<1>5. AtMost(q, 65535) \in Nat /\ AtMost(q, 65535) * w >= t
    BY <1>2, <1>3 DEF AtMost
<1>6. AtLeast(c.completion_memory, t) \in Nat
    BY <1>1 DEF AtLeast
<1>7. /\ s \in ConfigType /\ s.message_timeout = t /\ s.nack_window = w
      /\ s.max_nack_rounds = AtMost(q, 65535)
    <2> DEFINE x == AtMost(q, 65535)
               y == AtLeast(c.completion_memory, t)
    <2>1. s = [c EXCEPT !.max_nack_rounds = x, !.completion_memory = y]
        BY <1>4
    <2>2. x \in Nat /\ y \in Nat
        BY <1>5, <1>6
    <2> HIDE DEF s, x, y
    <2>3. s \in ConfigType
        BY <2>1, <2>2 DEF ConfigType
    <2>4. s.message_timeout = t /\ s.nack_window = w /\ s.max_nack_rounds = x
        BY <2>1 DEF ConfigType
    <2> QED BY <2>3, <2>4 DEF x
<1> HIDE DEF s
<1> QED BY <1>1, <1>5, <1>7 DEF Sane, s

\* An update keeps a configuration sane.
LEMMA EditedSane ==
    ASSUME NEW c, Sane(c), NEW e, EditOK(e)
    PROVE  Sane(Edited(c, e))
<1>1. /\ c \in ConfigType /\ c.message_timeout \in Nat /\ c.nack_window \in Nat
      /\ c.message_timeout <= Longest /\ c.nack_window >= Shortest
    BY DEF Sane, ConfigType
<1>2. CASE e.key = "timeout"
    <2> DEFINE d == [c EXCEPT !.message_timeout = e.value]
    <2>1. e.value \in Nat /\ e.value <= Longest
        BY <1>2 DEF EditOK
    <2>2. d \in ConfigType /\ d.message_timeout = e.value /\ d.nack_window = c.nack_window
        BY <1>1, <2>1 DEF ConfigType
    <2> HIDE DEF d
    <2>3. Sane(sync_nack_cap_to_timeout(d))
        BY <1>1, <2>1, <2>2, SyncSane
    <2> QED BY <1>2, <2>3 DEF Edited, d
<1>3. CASE e.key = "partial"
    <2> DEFINE d == [c EXCEPT !.partial_play = e.value]
    <2>1. e.value \in BOOLEAN
        BY <1>3 DEF EditOK
    <2>2. /\ d \in ConfigType /\ d.message_timeout = c.message_timeout
          /\ d.nack_window = c.nack_window /\ d.max_nack_rounds = c.max_nack_rounds
          /\ d.nack_backoff_base = c.nack_backoff_base
        BY <1>1, <2>1 DEF ConfigType
    <2> HIDE DEF d
    <2>3. Sane(d)
        BY <2>2 DEF Sane
    <2> QED BY <1>3, <2>3 DEF Edited, d
<1>4. CASE e.key = "nack"
    <2> DEFINE d == [c EXCEPT !.nack_window = e.value.nack_window,
                              !.nack_backoff_base = e.value.backoff_base,
                              !.max_nack_rounds = e.value.max_nack_rounds]
    <2>1. /\ e.value.nack_window \in Nat /\ e.value.nack_window >= Shortest
          /\ e.value.backoff_base \in Nat /\ e.value.max_nack_rounds \in Nat
        BY <1>4 DEF EditOK
    <2>2. /\ d \in ConfigType /\ d.message_timeout = c.message_timeout
          /\ d.nack_window = e.value.nack_window
          /\ d.nack_backoff_base = e.value.backoff_base
        BY <1>1, <2>1 DEF ConfigType
    <2>3. Edited(c, e) = IF e.value.backoff_base # 0 THEN sync_nack_cap_to_timeout(d) ELSE d
        BY <1>4 DEF Edited
    <2> HIDE DEF d
    <2>4. Sane(sync_nack_cap_to_timeout(d))
        BY <1>1, <2>1, <2>2, SyncSane
    <2>5. e.value.backoff_base = 0 => Sane(d)
        BY <1>1, <2>1, <2>2 DEF Sane
    <2> QED BY <2>3, <2>4, <2>5
<1> QED BY <1>2, <1>3, <1>4 DEF EditOK

\* The policies ask for windows of a second and a half at least.
LEMMA ResolvedOK ==
    ASSUME NEW mode \in Modes, NEW p
    PROVE  EditOK(Edit("nack", resolve(mode, p)))
<1> DEFINE r == resolve(mode, p)
<1>1. pacing(p) \in Nat
    BY DEF pacing
<1>2. AtLeast(4 * pacing(p), 4000) \in Nat /\ AtLeast(4 * pacing(p), 4000) >= 4000
    BY <1>1 DEF AtLeast
<1>3. \E window, base, rounds \in Nat :
          window >= 1500 /\ r = NackParams(window, base, rounds)
    <2>1. r \in {disabled, Fast, Slow(p), NackParams(3000, 2, 400)}
        BY DEF resolve
    <2> HIDE DEF r
    <2>2. CASE r = disabled
        BY <2>2 DEF disabled
    <2>3. CASE r = Fast
        BY <2>3 DEF Fast
    <2>4. CASE r = NackParams(3000, 2, 400)
        BY <2>4
    <2>5. CASE r = Slow(p)
        BY <2>5, <1>2 DEF Slow
    <2> QED BY <2>1, <2>2, <2>3, <2>4, <2>5
<1>4. PICK window, base, rounds \in Nat :
          window >= 1500 /\ r = NackParams(window, base, rounds)
    BY <1>3
<1>5. Steps(window) \in Nat /\ Steps(window) >= Shortest
    BY <1>4, StepsOf, StepsGrow, CapSuffices DEF Shortest
<1>6. /\ r.nack_window = Steps(window) /\ r.backoff_base = base
      /\ r.max_nack_rounds = rounds
    BY <1>4 DEF NackParams
<1> HIDE DEF r
<1> QED BY <1>4, <1>5, <1>6 DEF EditOK, Edit, r

-----------------------------------------------------------------------------
(* The runtime *)

\* The inductive invariant: what is in force, what is cloned and what is
\* asked for.
WorkOK(w) ==
    \/ w = Idle
    \/ w.at = "resolved" /\ EditOK(w.edit)
    \/ w.at = "cloned" /\ Sane(w.cfg)
RuntimeInv ==
    /\ settings.mode \in Modes
    /\ Sane(cfg)
    /\ DOMAIN work = Updaters
    /\ \A u \in Updaters : WorkOK(work[u])

LEMMA StartSane ==
    ASSUME RuntimeInit
    PROVE  RuntimeInv
<1>1. /\ settings \in [timeout : Timeouts, mode : Modes, partial : BOOLEAN]
      /\ cfg = Started(settings) /\ work = [u \in Updaters |-> Idle]
    BY RuntimeAssumption DEF RuntimeInit
<1> DEFINE d == [Default EXCEPT !.message_timeout = Seconds(settings.timeout),
                                !.partial_play = settings.partial]
           s == sync_nack_cap_to_timeout(d)
<1>2. Seconds(settings.timeout) \in Nat /\ Seconds(settings.timeout) <= Longest
    BY <1>1, TimeoutsFit
<1>3. d \in ConfigType /\ d.message_timeout = Seconds(settings.timeout)
      /\ d.nack_window = Steps(3000)
    <2>1. /\ Seconds(1200) \in Nat /\ Seconds(120) \in Nat /\ Steps(3000) \in Nat
        BY StepsOf DEF Seconds
    <2>2. settings.partial \in BOOLEAN /\ KnownCodecs \in SUBSET Codecs
        BY <1>1, RuntimeAssumption
    <2>3. Default \in ConfigType /\ Default.nack_window = Steps(3000)
        BY <2>1, <2>2 DEF Default, ConfigType
    <2> DEFINE x == Seconds(settings.timeout)
               y == settings.partial
               started(c) == [c EXCEPT !.message_timeout = x, !.partial_play = y]
    <2>4. x \in Nat /\ y \in BOOLEAN
        BY <1>2, <2>2
    <2>5. d = started(Default)
        OBVIOUS
    <2> HIDE DEF d, x, y
    <2>6. ASSUME NEW c \in ConfigType
          PROVE  /\ started(c) \in ConfigType /\ started(c).message_timeout = x
                 /\ started(c).nack_window = c.nack_window
        BY <2>4 DEF ConfigType
    <2> HIDE DEF started
    <2> QED BY <2>3, <2>5, <2>6 DEF x
<1>4. Steps(3000) >= Shortest
    BY StepsOf, StepsGrow DEF Shortest
<1> HIDE DEF d
<1>5. Sane(s)
    BY <1>2, <1>3, <1>4, SyncSane
<1>6. s.message_timeout = d.message_timeout /\ s.nack_window = d.nack_window
    BY <1>3 DEF sync_nack_cap_to_timeout, ConfigType
<1>7. cfg = clamped(s)
    BY <1>1 DEF Started, d
<1> HIDE DEF s
<1>8. s \in ConfigType /\ s.nack_window >= 1 /\ s.message_timeout >= 1
    <2>1. s \in ConfigType /\ s.nack_window \in Nat /\ s.nack_window >= Shortest
        BY <1>5 DEF Sane, ConfigType
    <2>2. s.nack_window >= 1
        BY <2>1, CapSuffices
    <2>3. Seconds(settings.timeout) # 0
        <3>1. settings.timeout \in Nat /\ settings.timeout >= 10
            <4>1. \A t \in Timeouts : t \in Nat /\ t >= 10
                BY RuntimeAssumption
            <4>2. settings.timeout \in Timeouts
                BY <1>1
            <4> QED BY <4>1, <4>2
        <3>2. /\ Steps(1000 * settings.timeout) \in Nat /\ Unit \in Nat
              /\ Steps(1000 * settings.timeout) * Unit >= 1000 * settings.timeout
            <4>1. 1000 * settings.timeout \in Nat /\ Unit \in Nat
                BY <3>1, RuntimeAssumption
            <4> QED BY <4>1, StepsOf
        <3> QED BY <3>1, <3>2 DEF Seconds
    <2> QED BY <2>1, <2>2, <2>3, <1>2, <1>3, <1>6
<1>9. /\ cfg \in ConfigType /\ cfg.message_timeout = s.message_timeout
      /\ cfg.nack_window = s.nack_window /\ cfg.max_nack_rounds = s.max_nack_rounds
      /\ cfg.nack_backoff_base = s.nack_backoff_base
    BY <1>7, <1>8 DEF clamped, AtLeast, AtMost, ConfigType
<1>10. Sane(cfg)
    BY <1>5, <1>9 DEF Sane
<1> QED BY <1>1, <1>10 DEF RuntimeInv, WorkOK

\* One updater's work changes.
LEMMA WorkStep ==
    ASSUME RuntimeInv, NEW u \in Updaters, NEW w, WorkOK(w),
           work' = [work EXCEPT ![u] = w], Sane(cfg'), settings'.mode \in Modes
    PROVE  RuntimeInv'
<1>1. DOMAIN work' = Updaters /\ \A v \in Updaters : work'[v] = IF v = u THEN w ELSE work[v]
    BY DEF RuntimeInv
<1>2. \A v \in Updaters : WorkOK(work'[v])
    BY <1>1 DEF RuntimeInv
<1> QED BY <1>1, <1>2 DEF RuntimeInv

LEMMA UserSetsInv ==
    ASSUME RuntimeInv, NEW key, NEW value, UserSets(key, value),
           \/ key = "timeout" /\ value \in Timeouts
           \/ key = "mode" /\ value \in Modes
           \/ key = "partial" /\ value \in BOOLEAN
    PROVE  RuntimeInv'
<1> DEFINE e == CASE key = "timeout" -> Edit("timeout", Seconds(value))
                  [] key = "partial" -> Edit("partial", value)
                  [] key = "mode" -> Edit("nack", resolve(value, preset))
           w == [at |-> "resolved", edit |-> e]
<1>1. /\ settings' = [settings EXCEPT ![key] = value]
      /\ work' = [work EXCEPT !["window"] = w] /\ cfg' = cfg
    BY DEF UserSets, vars
<1>2. EditOK(e)
    <2>1. CASE key = "timeout" /\ value \in Timeouts
        <3>1. e = Edit("timeout", Seconds(value))
            BY <2>1
        <3> QED BY <2>1, <3>1, TimeoutsFit DEF EditOK, Edit
    <2>2. CASE key = "mode" /\ value \in Modes
        <3>1. e = Edit("nack", resolve(value, preset))
            BY <2>2
        <3> QED BY <2>2, <3>1, ResolvedOK
    <2>3. CASE key = "partial" /\ value \in BOOLEAN
        <3>1. e = Edit("partial", value)
            BY <2>3
        <3> QED BY <2>3, <3>1 DEF EditOK, Edit
    <2> QED BY <2>1, <2>2, <2>3
<1> HIDE DEF e
<1>3. WorkOK(w)
    BY <1>2 DEF WorkOK
<1>4. settings'.mode \in Modes
    BY <1>1 DEF RuntimeInv
<1>5. "window" \in Updaters /\ Sane(cfg')
    BY <1>1 DEF Updaters, RuntimeInv
<1> HIDE DEF w
<1> QED BY <1>1, <1>3, <1>4, <1>5, WorkStep

LEMMA WatcherInv ==
    ASSUME RuntimeInv, apply_lora_to_assembler
    PROVE  RuntimeInv'
<1> DEFINE w == [at |-> "resolved", edit |-> Edit("nack", resolve(settings.mode, preset))]
<1>1. /\ work' = [work EXCEPT !["watcher"] = w]
      /\ settings' = settings /\ cfg' = cfg
    BY DEF apply_lora_to_assembler, vars
<1>2. WorkOK(w)
    BY ResolvedOK DEF WorkOK, RuntimeInv
<1>3. "watcher" \in Updaters /\ Sane(cfg') /\ settings'.mode \in Modes
    BY <1>1 DEF Updaters, RuntimeInv
<1> HIDE DEF w
<1> QED BY <1>1, <1>2, <1>3, WorkStep

\* A clone is edited from the configuration in force, and stored whatever was
\* stored in between.
LEMMA ClonesInv ==
    ASSUME RuntimeInv, NEW u \in Updaters, Clones(u)
    PROVE  RuntimeInv'
<1> DEFINE e == work[u].edit
           w == [at |-> "cloned", edit |-> e, cfg |-> Edited(cfg, e)]
<1>1. /\ work' = [work EXCEPT ![u] = w] \/ work' = [work EXCEPT ![u] = Idle]
      /\ settings' = settings /\ cfg' = cfg /\ work[u].at = "resolved"
    BY DEF Clones, vars
<1>2. WorkOK(w)
    <2>1. EditOK(e)
        BY <1>1 DEF RuntimeInv, WorkOK, Idle
    <2>2. Sane(Edited(cfg, e))
        BY <2>1, EditedSane DEF RuntimeInv
    <2> QED BY <2>2 DEF WorkOK
<1>3. WorkOK(Idle) /\ Sane(cfg') /\ settings'.mode \in Modes
    BY <1>1 DEF WorkOK, RuntimeInv
<1> HIDE DEF w
<1> QED BY <1>1, <1>2, <1>3, WorkStep

LEMMA StoresInv ==
    ASSUME RuntimeInv, NEW u \in Updaters, Stores(u)
    PROVE  RuntimeInv'
<1>1. /\ work' = [work EXCEPT ![u] = Idle] /\ settings' = settings
      /\ cfg' = work[u].cfg /\ work[u].at = "cloned"
    BY DEF Stores
<1>2. Sane(cfg')
    BY <1>1 DEF RuntimeInv, WorkOK, Idle
<1>3. WorkOK(Idle) /\ settings'.mode \in Modes
    BY <1>1 DEF WorkOK, RuntimeInv
<1> QED BY <1>1, <1>2, <1>3, WorkStep

LEMMA RuntimeStep ==
    ASSUME RuntimeInv, [Reconfigures \/ Assembles]_rvars
    PROVE  RuntimeInv'
<1>1. CASE \E t \in Timeouts : UserSets("timeout", t)
    BY <1>1, UserSetsInv
<1>2. CASE \E m \in Modes : UserSets("mode", m)
    BY <1>2, UserSetsInv
<1>3. CASE \E on \in BOOLEAN : UserSets("partial", on)
    BY <1>3, UserSetsInv
<1>4. CASE \E p \in Presets : RadioReports(p)
    BY <1>4 DEF RadioReports, vars, RuntimeInv
<1>5. CASE apply_lora_to_assembler
    BY <1>5, WatcherInv
<1>6. CASE \E u \in Updaters : Clones(u) \/ Stores(u)
    BY <1>6, ClonesInv, StoresInv
<1>7. CASE Assembles
    <2>1. cfg' = cfg /\ work' = work /\ settings' = settings
        BY <1>7 DEF Assembles, runtime, accept, RejectFrame, StrikeSlot, StrikeOut,
              DuplicateShard, MisfitShard, StoreShard, CompleteMessage, KeepSlot,
              tick, AdvanceClock
    <2> QED BY <2>1 DEF RuntimeInv
<1>8. CASE UNCHANGED rvars
    BY <1>8 DEF rvars, vars, runtime, RuntimeInv
<1> QED BY <1>1, <1>2, <1>3, <1>4, <1>5, <1>6, <1>7, <1>8 DEF Reconfigures

\* Whichever updater stored last, and whatever it had cloned, the user's
\* timeout ends a message before the round cap could.
THEOREM CapCorrect == RuntimeSpec => []CapCoversTimeout
<1>1. RuntimeInit => RuntimeInv
    BY StartSane
<1>2. RuntimeInv /\ [Reconfigures \/ Assembles]_rvars => RuntimeInv'
    BY RuntimeStep
<1>3. RuntimeInv => CapCoversTimeout
    BY DEF RuntimeInv, Sane, CapCoversTimeout
<1> QED BY <1>1, <1>2, <1>3, PTL DEF RuntimeSpec

=============================================================================
