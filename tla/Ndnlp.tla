-------------------------------- MODULE Ndnlp --------------------------------
(***************************************************************************)
(* Fragmentation and reassembly (daemon/face/ndnlp-*.cpp) between the      *)
(* Ethernet faces (ethernet-face.cpp) of several senders and one receiver  *)
(* of a multicast group, over a link that loses, duplicates and reorders   *)
(* frames.                                                                 *)
(*                                                                         *)
(* What a payload holds is abstracted to the piece of the network packet   *)
(* that it is; sizes are those of the TLV encoding, as the MTU is about    *)
(* them.                                                                   *)
(***************************************************************************)
EXTENDS Integers, SequencesExt, FiniteSetsExt

CONSTANTS Senders,       \* source addresses
          Links,         \* [mtu, sizes]: the MTU and the sizes of packets that are sent
          MaxPackets,    \* packets sent
          MaxCopies,     \* frames that the link duplicates
          SeqBits,       \* width of the uint64_t sequence number
          MaxRestarts,
          RestartsQuickly, \* a sender may restart while its old fragments are around
          NoPayload        \* an empty Block

ASSUME NdnlpAssumption ==
  /\ MaxPackets \in Nat /\ MaxCopies \in Nat /\ MaxRestarts \in Nat /\ SeqBits \in Nat
  /\ RestartsQuickly \in BOOLEAN

-----------------------------------------------------------------------------
(* Sizes of a TLV-TYPE or TLV-LENGTH and of a NonNegativeInteger. *)
VarNumber(n) == IF n < 253 THEN 1 ELSE IF n =< 65535 THEN 3 ELSE 5
NonNegativeInteger(n) == IF n =< 255 THEN 1 ELSE IF n =< 65535 THEN 2 ELSE 4
Tlv(length) == 1 + VarNumber(length) + length

(* encodeFragment, as far as the size of the fragment goes. *)
encodeFragment(fragIndex, fragCount, payloadSize) ==
  Tlv(Tlv(payloadSize) + Tlv(8)
      + IF fragCount > 1
        THEN Tlv(NonNegativeInteger(fragCount)) + Tlv(NonNegativeInteger(fragIndex)) ELSE 0)

(* Mutant: the estimation takes the numbers to be small. *)
maxPayloadSmall(mtu) == mtu - encodeFragment(0, 2, 0)

(* estimateOverhead: what remains of the MTU with all fields at their largest. *)
maxPayload(mtu) == mtu - (encodeFragment(65534, 65535, mtu) - mtu)

(* The MTU of an interface (an int) leaves room for a payload. *)
ASSUME LinkAssumption ==
  \A l \in Links : l.mtu \in Nat /\ maxPayload(l.mtu) > 0 /\ l.sizes \subseteq Nat

(* The number of fragments; fragCount is a uint16_t. *)
Uint16(n) == n % 65536
MaxFragments == 65535
Pieces(mtu, size) == size \div maxPayload(mtu) + IF size % maxPayload(mtu) = 0 THEN 0 ELSE 1
fragCount(mtu, size) == Uint16(Pieces(mtu, size))

(* A packet, of at most MAX_NDN_PACKET_SIZE octets, has fewer fragments than  *)
(* that, and there are more sequence numbers than fragments to send.          *)
ASSUME TransferAssumption ==
  /\ \A l \in Links : \A size \in l.sizes : Pieces(l.mtu, size) =< MaxFragments
  /\ 2 ^ SeqBits \in Nat /\ MaxPackets * MaxFragments < 2 ^ SeqBits
  /\ NoPayload \notin [packet : [sender : Senders, id : Nat, size : Nat], from : Nat, size : Nat]

payloadOf(mtu, packet, fragIndex) ==
  LET payloadOffset == fragIndex * maxPayload(mtu)
  IN  [packet |-> packet, from |-> payloadOffset,
       size |-> Min({maxPayload(mtu), packet.size - payloadOffset})]

(* Slicer::slice of a packet: its fragments, with sequence numbers from start. *)
slice(mtu, packet, start) ==
  LET n == fragCount(mtu, packet.size)
  IN  [k \in 1 .. n |->
         [seq |-> (start + k - 1) % 2 ^ SeqBits, fragIndex |-> k - 1, fragCount |-> n,
          payload |-> payloadOf(mtu, packet, k - 1)]]

(* A fragment on the wire, sent by s: FragIndex and FragCount go only with    *)
(* one of several.                                                            *)
sendPacket(s, f) ==
  [sender |-> s, seq |-> f.seq, payload |-> f.payload, copy |-> 0,
   fields |-> IF f.fragCount > 1 THEN <<f.fragIndex, f.fragCount>> ELSE <<>>]

(* NdnlpData::fromBlock of what a Slicer sent. *)
fromBlock(frame) ==
  [seq |-> frame.seq, payload |-> frame.payload,
   fragIndex |-> IF frame.fields = <<>> THEN 0 ELSE frame.fields[1],
   fragCount |-> IF frame.fields = <<>> THEN 1 ELSE frame.fields[2]]

frameSize(frame) ==
  LET f == fromBlock(frame) IN encodeFragment(f.fragIndex, f.fragCount, f.payload.size)

-----------------------------------------------------------------------------
VARIABLES
  link,       \* of Links
  next,       \* sender |-> m_next of its SequenceGenerator
  nSent,      \* packets sent
  frames,     \* frames on the link
  copies,     \* frames duplicated so far
  stores,     \* m_reassemblers: sender |-> its PartialMessageStore
  cleanupTimers,   \* scheduled PartialMessageStore::cleanup events: <<sender, message identifier>>
  arrived,    \* payload |-> how often it arrived
  delivered,  \* what was handed to decodeAndDispatchInput |-> how often
  restarts

lpVars == <<link, next, nSent, frames, copies, stores, cleanupTimers, arrived, delivered, restarts>>

LpInit ==
  /\ link \in Links
  /\ next = [s \in Senders |-> 0] /\ nSent = 0
  /\ frames = {} /\ copies = 0 /\ cleanupTimers = {}
  /\ stores = [s \in {} |-> 0]
  /\ arrived = [p \in {} |-> 0] /\ delivered = [p \in {} |-> 0] /\ restarts = 0

(* sendInterest and sendData: all fragments go out; a frame keeps the order   *)
(* neither with other frames nor with its copies.                             *)
Send(s, size) ==
  /\ nSent < MaxPackets
  /\ LET packet == [sender |-> s, id |-> nSent, size |-> size]
         pa == slice(link.mtu, packet, next[s])
     IN  /\ next' = [next EXCEPT ![s] = (@ + Len(pa)) % 2 ^ SeqBits]
         /\ frames' = frames \cup {sendPacket(s, f) : f \in ToSet(pa)}
  /\ nSent' = nSent + 1
  /\ UNCHANGED <<link, copies, stores, cleanupTimers, arrived, delivered, restarts>>

Lose(f) ==
  /\ frames' = frames \ {f}
  /\ UNCHANGED <<link, next, nSent, copies, stores, cleanupTimers, arrived, delivered, restarts>>

Duplicate(f) ==
  /\ copies < MaxCopies
  /\ copies' = copies + 1
  /\ frames' = frames \cup {[f EXCEPT !.copy = copies + 1]}
  /\ UNCHANGED <<link, next, nSent, stores, cleanupTimers, arrived, delivered, restarts>>

-----------------------------------------------------------------------------
OneMore(count, new) ==
  [y \in DOMAIN count \cup new |->
     (IF y \in DOMAIN count THEN count[y] ELSE 0) + IF y \in new THEN 1 ELSE 0]

PartialMessage(count, received, payloads) ==
  [fragCount |-> count, received |-> received, payloads |-> payloads]
NewPartialMessage == PartialMessage(0, 0, <<>>)

(* The first packet of a message decides over their number. *)
Sized(pm, f) ==
  IF pm.received = 0 THEN PartialMessage(f.fragCount, 0, [k \in 1 .. f.fragCount |-> NoPayload])
  ELSE pm

Stowed(pm, f) ==
  PartialMessage(pm.fragCount, pm.received + 1, [pm.payloads EXCEPT ![f.fragIndex + 1] = f.payload])

(* Mutant: a duplicate counts. *)
addDuplicates(pm, f) ==
  LET p == Sized(pm, f) IN IF p.fragCount # f.fragCount THEN p ELSE Stowed(p, f)

(* PartialMessage::add. *)
addFragment(pm, f) ==
  LET p == Sized(pm, f)
  IN  IF p.fragCount # f.fragCount \/ f.fragIndex >= p.fragCount \/ p.payloads[f.fragIndex + 1] # NoPayload
      THEN p ELSE Stowed(p, f)

isComplete(pm) == pm.received = pm.fragCount

messageIdentifier(f) == (f.seq - f.fragIndex) % 2 ^ SeqBits

(* The expiry of a PartialMessage is a ScopedEventId: one event for each, and *)
(* none for a message that was erased.                                        *)
Scoped(after) == UNION {{<<s, id>> : id \in DOMAIN after[s]} : s \in DOMAIN after}

(* PartialMessageStore::receive: what stays in the store, and what is delivered. *)
receive(store, f) ==
  LET id == messageIdentifier(f)
      pm == addFragment(IF id \in DOMAIN store THEN store[id] ELSE NewPartialMessage, f)
  IN  CASE f.fragCount = 1 -> <<store, {<<f.payload>>}>>
        [] f.fragCount # 1 /\ isComplete(pm) -> <<[i \in DOMAIN store \ {id} |-> store[i]], {pm.payloads}>>
        [] OTHER -> <<[i \in DOMAIN store \cup {id} |-> IF i = id THEN pm ELSE store[i]], {}>>

(* handleRead and processIncomingPacket. *)
Receive(frame) ==
  LET s == frame.sender
      result == receive(IF s \in DOMAIN stores THEN stores[s] ELSE [id \in {} |-> 0], fromBlock(frame))
  IN  /\ frames' = frames \ {frame}
      /\ arrived' = OneMore(arrived, {frame.payload})
      /\ stores' = [r \in DOMAIN stores \cup {s} |-> IF r = s THEN result[1] ELSE stores[r]]
      /\ cleanupTimers' = Scoped(stores')
      /\ delivered' = OneMore(delivered, result[2])
      /\ UNCHANGED <<link, next, nSent, copies, restarts>>

(* PartialMessageStore::cleanup, when no fragment came for the idle duration. *)
cleanup(e) ==
  /\ stores' = [stores EXCEPT ![e[1]] = [i \in DOMAIN @ \ {e[2]} |-> @[i]]]
  /\ cleanupTimers' = Scoped(stores') \ {e}
  /\ UNCHANGED <<link, next, nSent, frames, copies, arrived, delivered, restarts>>

(* A Reassembler that heard nothing from its sender for REASSEMBLER_LIFETIME. *)
ReassemblerExpires(s) ==
  /\ stores' = [r \in DOMAIN stores \ {s} |-> stores[r]]
  /\ cleanupTimers' = Scoped(stores')
  /\ UNCHANGED <<link, next, nSent, frames, copies, arrived, delivered, restarts>>

(* The sender closes its face and creates it again, with a new Slicer. *)
SenderRestarts(s) ==
  /\ restarts < MaxRestarts /\ next[s] # 0
  /\ RestartsQuickly \/ /\ \A f \in frames : f.sender # s
                        /\ s \in DOMAIN stores => DOMAIN stores[s] = {}
  /\ restarts' = restarts + 1
  /\ next' = [next EXCEPT ![s] = 0]
  /\ UNCHANGED <<link, nSent, frames, copies, stores, cleanupTimers, arrived, delivered>>

LpNext ==
  \/ \E s \in Senders, size \in link.sizes : Send(s, size)
  \/ \E f \in frames : Lose(f) \/ Duplicate(f) \/ Receive(f)
  \/ \E e \in cleanupTimers : cleanup(e)
  \/ \E s \in DOMAIN stores : ReassemblerExpires(s)
  \/ \E s \in Senders : SenderRestarts(s)

LpSpec == LpInit /\ [][LpNext]_lpVars

-----------------------------------------------------------------------------
(* Fragments fit the MTU (the BOOST_VERIFY of ndnlp-slicer.cpp:126), whatever *)
(* the packet, and also where a length takes another number of octets.        *)
SlicesFit == \A f \in frames : frameSize(f) =< link.mtu

Whole(pieces) ==
  LET packet == pieces[1].packet
  IN  /\ \A k \in DOMAIN pieces :
           /\ pieces[k] # NoPayload /\ pieces[k].packet = packet
           /\ pieces[k].from = IF k = 1 THEN 0 ELSE pieces[k - 1].from + pieces[k - 1].size
      /\ Last(pieces).from + Last(pieces).size = packet.size

(* What is delivered is one packet that was sent, with nothing missing and    *)
(* nothing of another packet, however frames were lost, duplicated and        *)
(* reordered, and no more often than every fragment of it arrived.            *)
DeliveredWhole ==
  \A pieces \in DOMAIN delivered :
    /\ Whole(pieces)
    /\ \A k \in DOMAIN pieces : delivered[pieces] =< arrived[pieces[k]]

=============================================================================
