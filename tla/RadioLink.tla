----------------------------- MODULE RadioLink -----------------------------
(***************************************************************************)
(* How a host reads its radio (voicetastic-core/src/meshtastic/serial.rs   *)
(* and ble.rs, subscribe_inbound).                                         *)
(*                                                                         *)
(* Over USB serial frames stand between the bytes of the radio's debug     *)
(* console: read_frame scans for START1 START2, reads a length and that    *)
(* many bytes, and scans again when a byte of a frame stays out for        *)
(* FRAME_BYTE_TIMEOUT.  Over Bluetooth the radio queues frames and         *)
(* notifies; one task drains the queue on a notification or on a poll.     *)
(*                                                                         *)
(* A payload is the two bytes Payload(n), of which the first is START1.    *)
(* `written`, `heard` and `clean` are history: what the radio has written  *)
(* and the host has been handed since the link last was in step, and       *)
(* whether it still is.                                                    *)
(***************************************************************************)
EXTENDS Integers, Sequences

CONSTANTS
    MaxReadErrors,  \* consecutive errors after which a reader gives up
    MaxNoise,       \* bound: console bytes, lost bytes, failed reads
    MaxSilences,    \* bound: pauses longer than FRAME_BYTE_TIMEOUT
    MaxStale        \* bound: frames of an earlier session, in the radio

ASSUME StaleAssumption == MaxStale \in Nat

VARIABLES
    transport, \* "serial" or "ble"
    wire,      \* bytes on the line, or frames in the radio's queue
    notified,  \* a FROMNUM notification waits
    reader,    \* where the reading task stands
    written, heard, clean,
    noise, silences

link == <<transport, wire, notified, reader, written, heard, clean, noise, silences>>

START1 == 148
START2 == 195
MAX_PAYLOAD == 512

Payload(n) == <<START1, n>>
Frame(n) == <<START1, START2, 0, 2>> \o Payload(n)

\* The task between frames; `errors` counts consecutive failures.
Reader(at, errors) == [at |-> at, errors |-> errors, len |-> 0, got |-> <<>>]
Between == IF transport = "serial" THEN "scan" ELSE "select"
Noise == noise < MaxNoise /\ noise' = noise + 1

LinkInit ==
    /\ transport \in {"serial", "ble"}
    /\ wire = <<>>
    /\ reader = Reader(IF transport = "serial" THEN "scan" ELSE "open", 0)
    /\ notified = FALSE
    /\ written = <<>> /\ heard = <<>> /\ clean = TRUE
    /\ noise = 0 /\ silences = 0

-----------------------------------------------------------------------------
(* Serial *)

\* The radio writes a frame, of which the line may lose a byte.
WritesFrame(n) ==
    /\ transport = "serial"
    /\ \/ /\ wire' = wire \o Frame(n)
          /\ written' = Append(written, Payload(n))
          /\ UNCHANGED <<clean, noise>>
       \/ /\ Noise
          /\ \E i \in 1 .. Len(Frame(n)) :
                wire' = wire \o SubSeq(Frame(n), 1, i - 1)
                             \o SubSeq(Frame(n), i + 1, Len(Frame(n)))
          /\ clean' = FALSE
          /\ UNCHANGED written
    /\ UNCHANGED <<transport, notified, reader, heard, silences>>

\* The debug console writes a byte; one that looks like START1 may cost the
\* frame behind it.
Console(b) ==
    /\ transport = "serial" /\ Noise
    /\ wire' = Append(wire, b)
    /\ clean' = (clean /\ b # START1)
    /\ UNCHANGED <<transport, notified, reader, written, heard, silences>>

\* The bytes of read_frame, one at a time.
AfterByte(r, b) ==
    CASE r.at = "scan" -> [r EXCEPT !.at = IF b = START1 THEN "start2" ELSE "scan"]
      [] r.at = "start2" -> [r EXCEPT !.at = IF b = START2 THEN "msb" ELSE "scan"]
      [] r.at = "msb" -> [r EXCEPT !.at = "lsb", !.len = b]
      [] r.at = "lsb" ->
            LET len == 256 * r.len + b
            IN  IF len \in 1 .. MAX_PAYLOAD
                THEN [r EXCEPT !.at = "payload", !.len = len]
                ELSE Reader("scan", r.errors)
      [] r.at = "payload" -> [r EXCEPT !.got = Append(@, b)]

ReadsByte ==
    /\ transport = "serial" /\ wire # <<>> /\ reader.at # "closed"
    /\ LET r == AfterByte(reader, Head(wire))
           whole == r.at = "payload" /\ Len(r.got) = r.len
       IN  /\ reader' = IF whole THEN Reader("scan", 0) ELSE r
           /\ heard' = IF whole THEN Append(heard, r.got) ELSE heard
    /\ wire' = Tail(wire)
    /\ UNCHANGED <<transport, notified, written, clean, noise, silences>>

\* A slip: the wait for the payload has no limit.
TimedOut_Header(r) == IF r.at = "payload" THEN r ELSE Reader("scan", r.errors)

\* Every read after START1 is bounded.
TimedOut(r) == Reader("scan", r.errors)

\* Nothing comes for longer than FRAME_BYTE_TIMEOUT.
Silence ==
    /\ transport = "serial" /\ wire = <<>> /\ reader.at # "closed"
    /\ silences < MaxSilences
    /\ silences' = silences + 1
    /\ reader' = TimedOut(reader)
    /\ written' = <<>> /\ heard' = <<>> /\ clean' = TRUE
    /\ UNCHANGED <<transport, wire, notified, noise>>

-----------------------------------------------------------------------------
(* Bluetooth *)

\* Connection::open drains what an earlier session left in the radio; a
\* failing read ends the drain and leaves the rest to the new session.
OpensLink ==
    /\ reader.at = "open"
    /\ \/ wire' = <<>> /\ UNCHANGED noise
       \/ Noise /\ \E n \in 1 .. MaxStale : wire' = [i \in 1 .. n |-> Payload(100 + i)]
    /\ written' = wire'
    /\ reader' = Reader("select", 0)
    /\ UNCHANGED <<transport, notified, heard, clean, silences>>

\* The radio queues a frame; its notification may be lost.
QueuesFrame(n) ==
    /\ transport = "ble" /\ reader.at # "open"
    /\ wire' = Append(wire, Payload(n))
    /\ written' = Append(written, Payload(n))
    /\ \/ notified' = TRUE /\ UNCHANGED noise
       \/ Noise /\ UNCHANGED notified
    /\ UNCHANGED <<transport, reader, heard, clean, silences>>

\* The task's select: a notification, or the poll.
Notified ==
    /\ reader.at = "select" /\ notified
    /\ notified' = FALSE
    /\ reader' = [reader EXCEPT !.at = "drain"]
    /\ UNCHANGED <<transport, wire, written, heard, clean, noise, silences>>

Polls ==
    /\ reader.at = "select"
    /\ reader' = [reader EXCEPT !.at = "drain"]
    /\ UNCHANGED <<transport, wire, notified, written, heard, clean, noise, silences>>

\* drain_from_radio reads until the queue is empty, then hands everything on.
DrainsOne ==
    /\ reader.at = "drain" /\ wire # <<>>
    /\ reader' = [reader EXCEPT !.got = Append(@, Head(wire))]
    /\ wire' = Tail(wire)
    /\ UNCHANGED <<transport, notified, written, heard, clean, noise, silences>>

HandsOn ==
    /\ reader.at = "drain" /\ wire = <<>>
    /\ heard' = heard \o reader.got
    /\ reader' = Reader("select", 0)
    /\ UNCHANGED <<transport, wire, notified, written, clean, noise, silences>>

-----------------------------------------------------------------------------
(* Both *)

\* A read fails: the task begins anew, and what it had read of a frame, or in
\* a drain, is gone.  It gives up after too many failures in a row.
ReadFails ==
    /\ reader.at \in {"scan", "start2", "msb", "lsb", "payload", "drain"} /\ Noise
    /\ reader' = IF reader.errors + 1 >= MaxReadErrors THEN Reader("closed", 0)
                 ELSE Reader(Between, reader.errors + 1)
    /\ \/ transport = "ble" /\ written' = heard \o wire /\ UNCHANGED clean
       \/ transport = "serial" /\ clean' = (clean /\ reader.at = "scan") /\ UNCHANGED written
    /\ UNCHANGED <<transport, wire, notified, heard, silences>>

\* disconnect: a serial read is dropped where it stands, a drain is finished.
Disconnect ==
    /\ reader.at \notin {"drain", "open", "closed"}
    /\ reader' = Reader("closed", 0)
    /\ UNCHANGED <<transport, wire, notified, written, heard, clean, noise, silences>>

RadioSays(n) == WritesFrame(n) \/ QueuesFrame(n)
Reads == ReadsByte \/ Notified \/ Polls \/ DrainsOne \/ HandsOn
LinkStep ==
    \/ \E b \in {0, START1} : Console(b)
    \/ Silence
    \/ OpensLink
    \/ Reads
    \/ ReadFails
    \/ Disconnect

-----------------------------------------------------------------------------

\* While the link is in step the host is handed what the radio wrote, whole,
\* once and in order, and nothing else; and a pause of FRAME_BYTE_TIMEOUT
\* brings it back in step, whatever bytes were lost or looked like a frame
\* before (serial.rs, read_frame).  Over Bluetooth only a failing read costs
\* frames, the ones its drain had read.
LinkTruthful ==
    (clean /\ reader.at # "closed") =>
        /\ Len(heard) <= Len(written) /\ heard = SubSeq(written, 1, Len(heard))
        /\ wire = <<>> /\ reader.at \in {"scan", "select"} => heard = written
        /\ wire = <<>> /\ transport = "serial" => reader.at = "scan"
=============================================================================
