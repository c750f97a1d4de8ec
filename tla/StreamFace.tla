----------------------------- MODULE StreamFace -----------------------------
(***************************************************************************)
(* One StreamFace (daemon/face/stream-face.hpp; TCP, Unix) on the          *)
(* io_service: the send queue with its asynchronous writes, the input      *)
(* buffer with its asynchronous reads, and the shutdown in two steps that  *)
(* is to let the handlers under way find the face they were bound to.      *)
(*                                                                         *)
(* Of Boost.Asio: an operation completes at any time, which queues its     *)
(* handler; cancel() ends the operations that have not completed, not the  *)
(* handlers that are queued; an operation on a socket that is shut down    *)
(* completes at once, with an error.  The peer's octets are a sequence of  *)
(* TLV elements, of which only matters where each of them ends.            *)
(***************************************************************************)
EXTENDS Integers, SequencesExt, FiniteSetsExt

CONSTANTS BufferSize,   \* MAX_NDN_PACKET_SIZE
          Inputs,       \* what the peer may send: the offsets at which elements end
          MaxSends      \* packets sent on the face

ASSUME StreamFaceAssumption ==
  /\ BufferSize \in Nat \ {0} /\ MaxSends \in Nat
  /\ \A ends \in Inputs : /\ ends \in Seq(Nat \ {0})
                         /\ \A k, l \in DOMAIN ends : k < l => ends[k] < ends[l]

VARIABLES
  socket,     \* "open", "shut" or "closed"
  failed,     \* m_isFailed; the face table and the channel let go of the face
  held,       \* someone else holds a reference: a PIT record
  freed,      \* the face has been destroyed
  sendQueue,  \* m_sendQueue: [packet, part]
  writing,    \* an async_write has not completed
  reading,    \* an async_receive has not completed
  handlers,   \* the io_service: handlers to run, [of, result, octets]
  wire,       \* blocks written
  accepted,   \* blocks of the packets that were sent, in order
  input,      \* of Inputs
  taken,      \* octets received
  buffered,   \* m_inputBufferSize
  dispatched, \* elements handed to decodeAndDispatchInput
  oversize    \* the face failed with the reason that a packet is too large

sendVars == <<sendQueue, writing, wire, accepted>>
inputVars == <<input, taken, buffered, dispatched, oversize>>
sfVars == <<socket, failed, held, freed, sendVars, reading, handlers, inputVars>>

SfInit ==
  /\ socket = "open" /\ failed = FALSE /\ held \in BOOLEAN /\ freed = FALSE
  /\ sendQueue = <<>> /\ writing = FALSE /\ reading = TRUE
  /\ handlers = <<>> /\ wire = <<>> /\ accepted = <<>>
  /\ input \in Inputs /\ taken = 0 /\ buffered = 0 /\ dispatched = 0 /\ oversize = FALSE

-----------------------------------------------------------------------------
Handler(of, result, octets) == [of |-> of, result |-> result, octets |-> octets]

(* Starting an operation: on a socket that is not open it is over at once. *)
sendFromQueue(queued) ==
  IF socket' = "open" THEN writing' = TRUE /\ handlers' = queued
  ELSE writing' = FALSE /\ handlers' = Append(queued, Handler("send", "error", 0))

asyncReceive(queued) ==
  IF socket = "open" THEN reading' = TRUE /\ handlers' = queued
  ELSE reading' = FALSE /\ handlers' = Append(queued, Handler("receive", "eof", 0))

(* StreamFaceSenderImpl::send: of a LocalFace, the LocalControlHeader goes    *)
(* before the packet.  Only a face of the table is sent to.                   *)
SfSend(parts) ==
  /\ ~ failed /\ Cardinality({b.packet : b \in ToSet(accepted)}) < MaxSends
  /\ LET n == Cardinality({b.packet : b \in ToSet(accepted)})
         blocks == [k \in 1 .. parts |-> [packet |-> n, part |-> k]]
     IN  /\ sendQueue' = sendQueue \o blocks
         /\ accepted' = accepted \o blocks
  /\ socket' = socket
  /\ IF sendQueue = <<>> THEN sendFromQueue(handlers) ELSE UNCHANGED <<writing, handlers>>
  /\ UNCHANGED <<failed, held, freed, reading, wire, inputVars>>

WriteCompletes ==
  /\ writing /\ writing' = FALSE
  /\ \/ /\ wire' = Append(wire, Head(sendQueue))
        /\ handlers' = Append(handlers, Handler("send", "ok", 0))
     \/ /\ wire' = wire
        /\ handlers' = Append(handlers, Handler("send", "error", 0))
  /\ UNCHANGED <<socket, failed, held, freed, sendQueue, accepted, reading, inputVars>>

(* Octets of the first k elements, and of all. *)
End(k) == IF k = 0 THEN 0 ELSE input[k]
Octets == End(Len(input))

ReadCompletes ==
  /\ reading /\ reading' = FALSE
  /\ \/ \E n \in 1 .. Min({BufferSize - buffered, Octets - taken}) :
          /\ taken' = taken + n
          /\ handlers' = Append(handlers, Handler("receive", "ok", n))
     \/ \E r \in {"eof", "error"} :
          taken' = taken /\ handlers' = Append(handlers, Handler("receive", r, 0))
  /\ UNCHANGED <<socket, failed, held, freed, sendVars, input, buffered, dispatched, oversize>>

-----------------------------------------------------------------------------
(* Mutant: the queue is cleared at once. *)
shutdownAtOnce(queued) ==
  /\ socket' = "shut" /\ reading' = FALSE /\ writing' = FALSE /\ sendQueue' = <<>>
  /\ handlers' = Append(queued
       \o (IF reading THEN <<Handler("receive", "aborted", 0)>> ELSE <<>>)
       \o (IF writing THEN <<Handler("send", "aborted", 0)>> ELSE <<>>),
       Handler("deferredClose", "ok", 0))

(* cancel(), shutdown() and the post of deferredClose. *)
shutdownSocket(queued) ==
  /\ socket' = "shut" /\ reading' = FALSE /\ writing' = FALSE /\ sendQueue' = sendQueue
  /\ handlers' = Append(queued
       \o (IF reading THEN <<Handler("receive", "aborted", 0)>> ELSE <<>>)
       \o (IF writing THEN <<Handler("send", "aborted", 0)>> ELSE <<>>),
       Handler("deferredClose", "ok", 0))

(* close(): by the face manager, or the end of the daemon. *)
SfClose ==
  /\ ~ failed /\ socket # "closed"
  /\ shutdownSocket(handlers)
  /\ failed' = TRUE
  /\ UNCHANGED <<held, freed, wire, accepted, inputVars>>

(* processErrorCode, with the rest of the queued handlers. *)
processErrorCode(result, rest) ==
  IF result = "aborted"
  THEN handlers' = rest /\ UNCHANGED <<socket, failed, sendQueue, writing, reading>>
  ELSE /\ failed' = TRUE
       /\ IF socket = "closed" THEN handlers' = rest /\ UNCHANGED <<socket, sendQueue, writing, reading>>
          ELSE shutdownSocket(rest)

handleSend(h, rest) ==
  /\ h.of = "send" /\ ~ freed
  /\ UNCHANGED <<held, freed, wire, accepted, inputVars>>
  /\ IF h.result # "ok" THEN processErrorCode(h.result, rest)
     ELSE /\ sendQueue' = Tail(sendQueue)
          /\ UNCHANGED <<socket, failed, reading>>
          /\ IF sendQueue' # <<>> THEN sendFromQueue(rest) ELSE writing' = FALSE /\ handlers' = rest

(* Octets of the elements before the k-th one after those dispatched. *)
Parsed(k) == End(dispatched + k) - End(dispatched)

(* Mutant: what is left over in the buffer is dropped. *)
leftoverDropped(size, offset) == IF offset > 0 THEN 0 ELSE size

leftover(size, offset) == size - offset

(* Mutant: a buffer that is full fails the face, whatever was taken from it. *)
isFull(size, offset) == size = BufferSize

isTooLarge(size, offset) == size = BufferSize /\ offset = 0

handleReceive(h, rest) ==
  LET size == buffered + h.octets
      n == Max({k \in 0 .. Len(input) - dispatched : Parsed(k) =< size})
      offset == Parsed(n)
  IN  /\ h.of = "receive" /\ ~ freed
      /\ UNCHANGED <<held, freed, wire, accepted, input, taken>>
      /\ IF h.result # "ok" THEN processErrorCode(h.result, rest) /\ UNCHANGED <<buffered, dispatched, oversize>>
         ELSE /\ dispatched' = dispatched + n
              /\ IF isTooLarge(size, offset)
                 THEN /\ shutdownSocket(rest) /\ failed' = TRUE
                      /\ buffered' = size /\ oversize' = (oversize \/ ~ failed)
                 ELSE /\ buffered' = leftover(size, offset)
                      /\ asyncReceive(rest)
                      /\ UNCHANGED <<socket, failed, sendQueue, writing, oversize>>

deferredClose(h, rest) ==
  /\ h.of = "deferredClose" /\ ~ freed
  /\ sendQueue' = <<>> /\ socket' = "closed" /\ handlers' = rest
  /\ freed' = (~ held /\ \A k \in DOMAIN rest : rest[k].of # "deferredClose")
  /\ UNCHANGED <<failed, held, writing, wire, accepted, reading, inputVars>>

(* A handler that outlived the face, which the code does not exclude. *)
RunsOnFreed(h, rest) ==
  /\ freed /\ handlers' = rest
  /\ UNCHANGED <<socket, failed, held, freed, sendVars, reading, inputVars>>

RunHandler ==
  /\ handlers # <<>>
  /\ LET h == Head(handlers)
         rest == Tail(handlers)
     IN  handleSend(h, rest) \/ handleReceive(h, rest) \/ deferredClose(h, rest) \/ RunsOnFreed(h, rest)

SfNext ==
  \/ \E parts \in 1 .. 2 : SfSend(parts)
  \/ WriteCompletes \/ ReadCompletes \/ SfClose \/ RunHandler

SfSpec == SfInit /\ [][SfNext]_sfVars

-----------------------------------------------------------------------------
(* The assertion of handleSend (stream-face.hpp:242): a write that succeeded  *)
(* finds its block at the front of the queue, also when the face has been     *)
(* shut down since; at most one write is under way, of the front.  A closed   *)
(* socket, whose queue deferredClose has cleared, is exempt: deferredClose is *)
(* posted behind the handler of every write that had completed.  Blocks then  *)
(* go out in the order they were sent, none twice and none left out: the peer *)
(* finds every LocalControlHeader in front of its packet.                     *)
SendQueueHeld ==
  LET done == {k \in DOMAIN handlers : handlers[k].of = "send"}
  IN  /\ Cardinality(done) + (IF writing THEN 1 ELSE 0) =< 1
      /\ ~ freed /\ socket # "closed" /\ (writing \/ \E k \in done : handlers[k].result = "ok")
         => sendQueue # <<>>
      /\ IsPrefix(wire, accepted)

(* However the octets are cut up, the elements that have arrived are          *)
(* dispatched, each once, as long as the face has not failed; and it fails    *)
(* with the reason that a packet is too large (stream-face.hpp:284) only if   *)
(* the next element is longer than the buffer, never for one that would have  *)
(* fitted in once what was dispatched is moved out.                           *)
ElementsDispatched ==
  LET queued == {k \in DOMAIN handlers : handlers[k].of = "receive" /\ handlers[k].result = "ok"}
  IN  /\ ~ failed /\ queued = {} =>
           /\ buffered = taken - End(dispatched)
           /\ dispatched < Len(input) => buffered < Min({BufferSize, Parsed(1)})
      /\ oversize => dispatched < Len(input) /\ Parsed(1) > BufferSize

=============================================================================
