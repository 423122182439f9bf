---------------------------- MODULE PacketFraming ----------------------------
(***************************************************************************)
(* decode_packet_stream and decode_semantic_packet_stream of               *)
(* src/protocol.py: cut a byte stream into framed packets, stop at the     *)
(* first boundary that cannot be trusted, then decode each payload.        *)
(*                                                                         *)
(* The bytes are abstract: a header is the length it declares, a payload   *)
(* is what the semantic decoder makes of it.  Both are arbitrary, so the   *)
(* model covers every stream of at most MaxBytes bytes.                    *)
(***************************************************************************)
EXTENDS Naturals, Sequences

CONSTANTS
  HeaderSize,    \* u16 id, u8 compression, u32 length
  MaxPayload,    \* max_payload_size
  MaxCount,      \* max_packet_count
  MaxBytes,      \* bound on the size of the stream
  MaxDeclared    \* bound on the length a header may declare

ASSUME SizesAssumption ==
  /\ HeaderSize \in Nat /\ HeaderSize > 3
  /\ MaxPayload \in Nat /\ MaxCount \in Nat
  /\ MaxBytes \in Nat /\ MaxDeclared \in Nat

VARIABLES
  pc,            \* "frame", then "decode", then "done"
  size,          \* length of the data
  offset,        \* first byte not yet framed
  packets,       \* the packets framed so far
  diagnostics,   \* what went wrong, in the order it was noted
  normalized     \* the packets decoded so far: "payload" or "payload_hex"

framingVars == <<pc, size, offset, packets, diagnostics, normalized>>

\* A payload is compressed, has no decoder, is consumed exactly by its decoder,
\* or makes it raise.
Payloads == {"compressed", "opaque", "semantic", "broken"}

Packet == [offset : 0 .. MaxBytes, length : 0 .. MaxPayload, payload : Payloads]

FramingErrors == {"packet_count_limit", "truncated_header",
                  "payload_too_large", "truncated_payload"}

\* `index' counts from 0, as packet_index does.
Diagnostic == [error : FramingErrors \cup {"payload_error", "unsupported_compression"},
               offset : Nat, index : 0 .. MaxCount, severity : {"error", "warning"}]

FramingTypeOK ==
  /\ pc \in {"frame", "decode", "done"}
  /\ size \in 0 .. MaxBytes
  /\ offset \in Nat
  /\ packets \in Seq(Packet)
  /\ diagnostics \in Seq(Diagnostic)
  /\ normalized \in Seq({"payload", "payload_hex"})

FramingInit ==
  /\ pc = "frame"
  /\ size \in 0 .. MaxBytes
  /\ offset = 0
  /\ packets = <<>>
  /\ diagnostics = <<>>
  /\ normalized = <<>>

-----------------------------------------------------------------------------
(* decode_packet_stream: one action per way through its loop. *)

\* Mutant: the index is counted from one.
NoteFromOne(error, at, index, severity) ==
  diagnostics' = Append(diagnostics,
    [error |-> error, offset |-> at, index |-> index + 1, severity |-> severity])

Note(error, at, index, severity) ==
  diagnostics' = Append(diagnostics,
    [error |-> error, offset |-> at, index |-> index, severity |-> severity])

\* The framing of the next packet stops here.
Stop(error, at) ==
  /\ Note(error, at, Len(packets), "error")
  /\ pc' = "decode"
  /\ UNCHANGED <<size, offset, packets, normalized>>

More == pc = "frame" /\ offset < size

HasHeader == More /\ Len(packets) < MaxCount /\ size - offset >= HeaderSize

PayloadAt  == offset + HeaderSize
Available  == size - PayloadAt

CountLimit ==
  /\ More
  /\ Len(packets) >= MaxCount
  /\ Stop("packet_count_limit", offset)

\* Mutant: a header cut short is not seen.
TruncatedHeaderUnseen ==
  /\ More
  /\ Len(packets) < MaxCount
  /\ size = offset
  /\ Stop("truncated_header", offset)

TruncatedHeader ==
  /\ More
  /\ Len(packets) < MaxCount
  /\ size - offset < HeaderSize
  /\ Stop("truncated_header", offset)

\* The declared length is past the limit, whatever is available.
PayloadTooLarge ==
  /\ HasHeader
  /\ \E declared \in 0 .. MaxDeclared : declared > MaxPayload
  /\ Stop("payload_too_large", offset + 3)

\* Mutant: the error is placed where the payload should have ended.
TruncatedPayloadBeyond ==
  /\ HasHeader
  /\ \E declared \in 0 .. MaxDeclared :
       /\ declared <= MaxPayload /\ Available < declared
       /\ Stop("truncated_payload", PayloadAt + declared)

\* Mutant: a payload cut short silently ends the stream.
TruncatedPayloadSilent ==
  /\ HasHeader
  /\ \E declared \in 0 .. MaxDeclared : declared <= MaxPayload /\ Available < declared
  /\ pc' = "decode"
  /\ UNCHANGED <<size, offset, packets, diagnostics, normalized>>

TruncatedPayload ==
  /\ HasHeader
  /\ \E declared \in 0 .. MaxDeclared : declared <= MaxPayload /\ Available < declared
  /\ Stop("truncated_payload", PayloadAt + Available)

\* Mutant: the next packet is looked for behind the payload's length only.
FramePacketShort ==
  /\ HasHeader
  /\ \E declared \in 0 .. MaxDeclared, payload \in Payloads :
       /\ declared <= MaxPayload /\ Available >= declared
       /\ packets' = Append(packets,
            [offset |-> offset, length |-> declared, payload |-> payload])
       /\ offset' = offset + declared + 1
  /\ UNCHANGED <<pc, size, diagnostics, normalized>>

FramePacket ==
  /\ HasHeader
  /\ \E declared \in 0 .. MaxDeclared, payload \in Payloads :
       /\ declared <= MaxPayload /\ Available >= declared
       /\ packets' = Append(packets,
            [offset |-> offset, length |-> declared, payload |-> payload])
       /\ offset' = PayloadAt + declared
  /\ UNCHANGED <<pc, size, diagnostics, normalized>>

EndOfData ==
  /\ pc = "frame"
  /\ offset >= size
  /\ pc' = "decode"
  /\ UNCHANGED <<size, offset, packets, diagnostics, normalized>>

-----------------------------------------------------------------------------
(* decode_semantic_packet_stream: the payloads, in order. *)

\* The packet whose payload is decoded next.
Index == Len(normalized) + 1
Todo  == pc = "decode" /\ Index <= Len(packets)

PayloadEntry(body) ==
  /\ normalized' = Append(normalized, body)
  /\ UNCHANGED <<pc, size, offset, packets>>

\* Mutant: a payload that does not decode only leaves its bytes.
DecodeBrokenSilent ==
  /\ Todo
  /\ packets[Index].payload = "broken"
  /\ PayloadEntry("payload_hex")
  /\ UNCHANGED diagnostics

\* PayloadDecodeError at some offset of the payload, its end included: the
\* bytes are kept and the stream is not complete.
DecodeBroken ==
  /\ Todo
  /\ LET packet == packets[Index] IN
       /\ packet.payload = "broken"
       /\ \E at \in 0 .. packet.length :
            Note("payload_error", packet.offset + HeaderSize + at, Index - 1, "error")
  /\ PayloadEntry("payload_hex")

\* A compression byte is left opaque, with a warning.
DecodeCompressed ==
  /\ Todo
  /\ packets[Index].payload = "compressed"
  /\ Note("unsupported_compression", packets[Index].offset + 2, Index - 1, "warning")
  /\ PayloadEntry("payload_hex")

DecodeOpaque ==
  /\ Todo
  /\ packets[Index].payload = "opaque"
  /\ PayloadEntry("payload_hex")
  /\ UNCHANGED diagnostics

DecodeSemantic ==
  /\ Todo
  /\ packets[Index].payload = "semantic"
  /\ PayloadEntry("payload")
  /\ UNCHANGED diagnostics

Finish ==
  /\ pc = "decode"
  /\ Index > Len(packets)
  /\ pc' = "done"
  /\ UNCHANGED <<size, offset, packets, diagnostics, normalized>>

FramingNext ==
  \/ CountLimit \/ TruncatedHeader \/ PayloadTooLarge \/ TruncatedPayload
  \/ FramePacket \/ EndOfData
  \/ DecodeBroken \/ DecodeCompressed \/ DecodeOpaque \/ DecodeSemantic
  \/ Finish

\* A sequential function: it runs until it returns.
FramingSpec == FramingInit /\ [][FramingNext]_framingVars /\ WF_framingVars(FramingNext)

-----------------------------------------------------------------------------
(* Properties *)

EndOf(packet) == packet.offset + HeaderSize + packet.length

\* The framed packets tile the stream from its first byte up to the remainder:
\* no byte is in two packets, none is between two, and none beyond the data.
Tiling ==
  /\ offset <= size
  /\ offset = IF packets = <<>> THEN 0 ELSE EndOf(packets[Len(packets)])
  /\ \A i \in DOMAIN packets :
       packets[i].offset = IF i = 1 THEN 0 ELSE EndOf(packets[i - 1])

\* DecodeResult.complete: no diagnostic of severity error.
Complete == \A i \in DOMAIN diagnostics : diagnostics[i].severity # "error"

\* A body reported complete is whole: every byte is in a packet, every packet
\* has its entry, and none of the payloads failed to decode.
CompleteIsWhole ==
  pc = "done" /\ Complete =>
    /\ offset = size
    /\ Len(normalized) = Len(packets)
    /\ \A i \in DOMAIN packets : packets[i].payload # "broken"

\* A diagnostic can be looked up: a framing error points into the remainder,
\* or just behind the data, a payload error into its own packet.
DiagnosticsPoint ==
  \A i \in DOMAIN diagnostics :
    LET d == diagnostics[i] IN
      IF d.error \in FramingErrors
        THEN i = 1 /\ d.index = Len(packets) /\ offset <= d.offset /\ d.offset <= size
        ELSE /\ d.index + 1 \in 1 .. Len(normalized)
             /\ packets[d.index + 1].offset < d.offset
             /\ d.offset <= EndOf(packets[d.index + 1])

\* The decoder returns on every stream.
Returns == <>(pc = "done")
=============================================================================
