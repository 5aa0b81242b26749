------------------------------- MODULE Packet -------------------------------
(* How a handshake packet is rewritten on its way (enforcer/utils/packet): the
   sender's handler moves the sequence numbers back and attaches an option and
   a token, the receiver's handler checks the option, moves the numbers forward
   and detaches both.  Headers carry two checksums: the IP one is only ever
   adjusted incrementally, the TCP one is adjusted and then recomputed.

   The arithmetic is the code's at any width: a byte has H values, a word is two
   bytes, a sequence number two words, and every sum wraps and folds where the
   code's does.  The header words no operation touches enter only through their
   sum, rest.                                                                  *)
EXTENDS Integers, Sequences

CONSTANTS
    H,        \* number of values of a byte (256 in the code)
    Rests,    \* sums of the untouched header words
    Numbers,  \* sequence and acknowledgment numbers
    Offsets,  \* data offsets (header length in 32-bit words) of the stack's packets
    Payloads, \* data the stack put in the packet itself
    Tokens,   \* the signed tokens, as byte strings
    AckSize,  \* length of the token of an Ack (secrets.AckSize)
    Pads      \* trailing bytes the queue hands over after the packet

B == H * H
Words == 0..(B - 1)
Bytes == 0..(H - 1)
Kinds == {"Syn", "SynAck", "Ack"}

ASSUME WidthAssumption ==
    H \in Nat /\ H >= 16 /\ H % 4 = 0
ASSUME InputsAssumption ==
    /\ Rests \subseteq Words /\ Numbers \subseteq 0..(B * B - 1)
    /\ Offsets \subseteq 5..15 /\ AckSize \in Nat \ {0}
    /\ \A s \in Payloads \cup Tokens \cup Pads : s \in Seq(Bytes)

(* The data offset is kept in the four high bits of its word. *)
OffsetUnit == B \div 16

IPHeader  == 20                    \* minIPHdrSize, bytes
TCPHeader == 20                    \* the fixed part of the TCP header, bytes
BaseLen   == 4                     \* TCPAuthenticationOptionBaseLen

(* A packet with its token is an IP packet: its length is a word. *)
ASSUME SizeAssumption ==
    \A d \in Payloads, t \in Tokens : IPHeader + 15 * 4 + BaseLen + Len(d) + Len(t) < B
(* Tokens are signed: no stack sends one as its own data. *)
ASSUME TokenAssumption == Payloads \cap Tokens = {}

VARIABLES
    at,      \* "app", "wire", "net", "delivered" or "dropped"
    kind,    \* which handshake packet this is
    rest,    \* sum of the header words that never change
    sent,    \* the packet as the sending stack made it
    token,   \* the token its handler attaches
    p        \* the *Packet now

vars == <<at, kind, rest, sent, token, p>>

-----------------------------------------------------------------------------
(* helpers.go *)

Not(x) == B - 1 - x
Neg(x) == (B - x) % B

(* for (a >> 16) != 0 { a = (a & 0xffff) + (a >> 16) } *)
Fold[a \in Nat] == IF a < B THEN a ELSE Fold[(a % B) + (a \div B)]

(* A last byte without a partner is the high byte of its word. *)
Word(bytes, i) == bytes[2 * i - 1] * H + (IF 2 * i <= Len(bytes) THEN bytes[2 * i] ELSE 0)

(* The sum after each turn of the loop over the words. *)
Sums(bytes) ==
    LET sum[i \in 0..((Len(bytes) + 1) \div 2)] == IF i = 0 THEN 0 ELSE sum[i - 1] + Word(bytes, i)
    IN  sum

checksumDelta(bytes) == Fold[Sums(bytes)[(Len(bytes) + 1) \div 2]]

(* A slip in incCsum16: the carry out of the sum is lost. *)
incCsum16NoCarry(start, old, new) == Not((Not(start) + Not(old) + new) % B)

incCsum16(start, old, new) == Not(Fold[Not(start) + Not(old) + new])

Halves(x) == (x % B) + (x \div B)

uint32Delta(new, old) == Fold[Halves(new) + Halves(B * B - 1 - old)]

(* The words of the headers that operations change, the checksums left out. *)
IPSum(q)  == rest + q.len
TCPSum(q) ==
    LET size == TCPHeader + Len(q.buf) + Len(q.opts) + Len(q.data)
    IN  rest + Halves(q.seq) + Halves(q.ack) + (q.off % 16) * OffsetUnit + size
          + checksumDelta(q.buf \o q.opts \o q.data)

computeIPChecksum(q)  == Not(Fold[IPSum(q)])
computeTCPChecksum(q) == Not(Fold[TCPSum(q)])

UpdateTCPChecksum(q) == [q EXCEPT !.csum = computeTCPChecksum(q)]

-----------------------------------------------------------------------------
(* packet.go *)

FixTCPCsum(q, old, new) ==
    [q EXCEPT !.csum = Neg(Fold[Neg(q.csum) + uint32Delta(new, old)])]

MoveSeq(q, by) ==
    LET new == (q.seq + by) % (B * B) IN FixTCPCsum([q EXCEPT !.seq = new], q.seq, new)
MoveAck(q, by) ==
    LET new == (q.ack + by) % (B * B) IN FixTCPCsum([q EXCEPT !.ack = new], q.ack, new)

(* IPTotalLength and the IP checksum follow the length. *)
FixupIPHdrOnDataModify(q, new) ==
    [q EXCEPT !.ipCsum = incCsum16(q.ipCsum, q.len, new), !.len = new]

computeTCPChecksumDelta(options, data) ==
    LET d1 == checksumDelta(options \o data)
        d2 == Halves(d1 + Len(options) + Len(data))
    IN  Fold[d2 + (Len(options) \div 4) * OffsetUnit]

(* A slip in the adjustment: the carry is not folded back. *)
AdjustedNoFold(csum, delta) == Neg((Neg(csum) + delta) % B)

(* a = a + (a >> 16) on 32 bits, then -uint16(a): one fold, not a loop. *)
Adjusted(csum, delta) ==
    LET a == (Neg(csum) + delta) % (B * B) IN Neg((a + a \div B) % B)

TCPDataStartBytes(q) == IPHeader + q.off * 4

(* Bytes from..to-1 of the packet; the fixed headers are not part of buf. *)
Slice(q, from, to) ==
    SubSeq(q.buf, from - (IPHeader + TCPHeader) + 1, to - (IPHeader + TCPHeader))

ReadTCPData(q) == Slice(q, TCPDataStartBytes(q), q.len)

(* A slip in the check: it looks behind the option. *)
CheckOptionLate(q) == H - 1 = q.buf[TCPDataStartBytes(q) - (IPHeader + TCPHeader) + 1]

(* Buffer[TCPDataStartBytes - 4] is option 255.  Without options that byte is
   the high byte of the TCP checksum.                                          *)
CheckTCPAuthenticationOption(q) ==
    LET at4 == TCPDataStartBytes(q) - BaseLen
    IN  H - 1 = IF q.off = 5 THEN q.csum \div H
                ELSE q.buf[at4 - (IPHeader + TCPHeader) + 1]

(* An error ("Cannot insert options with existing data") changes nothing. *)
TCPDataAttach(q, options, data) ==
    IF TCPDataStartBytes(q) # q.len THEN q
    ELSE FixupIPHdrOnDataModify(
            [q EXCEPT !.opts = options, !.data = data,
                      !.csum = Adjusted(q.csum, computeTCPChecksumDelta(options, data)),
                      !.off  = (q.off + Len(options) \div 4) % 256],
            q.len + Len(options) + Len(data))

TCPDataDetach(q) ==
    LET start   == TCPDataStartBytes(q)
        options == Slice(q, start - BaseLen, start)
        data    == ReadTCPData(q)
    IN  FixupIPHdrOnDataModify(
            [q EXCEPT !.buf  = Slice(q, IPHeader + TCPHeader, start - BaseLen),
                      !.opts = options, !.data = data,
                      !.csum = Adjusted(q.csum, - computeTCPChecksumDelta(options, data)),
                      !.off  = (q.off - BaseLen \div 4) % 256],
            q.len - (BaseLen + Len(data)))

DropDetachedBytes(q) == [q EXCEPT !.opts = <<>>, !.data = <<>>]

GetBytes(q) == q.buf \o q.opts \o q.data

(* New on what the queue hands over: surplus bytes are cut off, and the offset
   is read back from the four bits it was written to.                          *)
New(q, bytes) ==
    [q EXCEPT !.buf  = SubSeq(bytes, 1, q.len - (IPHeader + TCPHeader)),
              !.off  = q.off % 16, !.opts = <<>>, !.data = <<>>]

-----------------------------------------------------------------------------
(* createTCPAuthenticationOption: {255, 4, 0, 0}. *)
Option == <<H - 1, BaseLen, 0, 0>>

(* What the three handlers take off the numbers, and put back: the receiver
   knows the length of the token from the packet.                              *)
SeqShift(n) ==
    CASE kind = "Syn"    -> (n - 1) + AckSize
      [] kind = "SynAck" -> n - 1
      [] kind = "Ack"    -> AckSize
AckShift == IF kind = "SynAck" THEN AckSize ELSE 0

Shift(q, seq, ack) ==
    IF kind = "SynAck" THEN MoveAck(MoveSeq(q, seq), ack) ELSE MoveSeq(q, seq)

(* The packet as the stack sends it: some options, some data, checksums right. *)
Raw(n, m, off, data) ==
    [len |-> IPHeader + off * 4 + Len(data), ipCsum |-> 0, csum |-> 0,
     seq |-> n, ack |-> m, off |-> off,
     buf |-> [i \in 1..(off * 4 - TCPHeader) |-> 1] \o data,
     opts |-> <<>>, data |-> <<>>]

Summed(q) == UpdateTCPChecksum([q EXCEPT !.ipCsum = computeIPChecksum(q)])

StackPackets == {Summed(Raw(n, m, off, data)) : n \in Numbers, m \in Numbers,
                                                off \in Offsets, data \in Payloads}

Init ==
    /\ at = "app"
    /\ kind \in Kinds
    /\ rest \in Rests
    /\ token \in {t \in Tokens : kind = "Ack" => Len(t) = AckSize}
    /\ sent \in StackPackets
    /\ p = sent

(* processApplicationSyn/SynAck/AckPacket: the error of TCPDataAttach is
   ignored, and the packet goes out with its numbers moved.                    *)
ProcessApplication ==
    /\ at = "app"
    /\ p' = UpdateTCPChecksum(
              TCPDataAttach(Shift(p, - SeqShift(Len(token)), - AckShift), Option, token))
    /\ at' = "wire"
    /\ UNCHANGED <<kind, rest, sent, token>>

(* SetVerdict sends Buffer, options and data; the other side's queue delivers
   them, maybe with padding, and New parses them.                              *)
Transfer ==
    /\ at = "wire"
    /\ \E pad \in Pads : p' = New(p, GetBytes(p) \o pad)
    /\ at' = "net"
    /\ UNCHANGED <<kind, rest, sent, token>>

(* The token is read and verified before anything is changed: a packet without
   the option or with other bytes in the token's place is dropped.             *)
Genuine(q) ==
    /\ q.off >= 5
    /\ ReadTCPData(q) = token
    /\ CheckTCPAuthenticationOption(q)

(* A slip in the SynAck handler: the acknowledgment number stays moved. *)
ProcessNetworkSeqOnly ==
    /\ at = "net"
    /\ Genuine(p)
    /\ LET n == p.len - TCPDataStartBytes(p)
       IN  p' = UpdateTCPChecksum(DropDetachedBytes(TCPDataDetach(MoveSeq(p, SeqShift(n)))))
    /\ at' = "delivered"
    /\ UNCHANGED <<kind, rest, sent, token>>

(* processNetworkSyn/SynAck/AckPacket. *)
ProcessNetwork ==
    /\ at = "net"
    /\ Genuine(p)
    /\ LET n == p.len - TCPDataStartBytes(p)
       IN  p' = UpdateTCPChecksum(DropDetachedBytes(
                    TCPDataDetach(Shift(p, SeqShift(n), AckShift))))
    /\ at' = "delivered"
    /\ UNCHANGED <<kind, rest, sent, token>>

DropNetwork ==
    /\ at = "net"
    /\ ~Genuine(p)
    /\ at' = "dropped"
    /\ UNCHANGED <<kind, rest, sent, token, p>>

Next == ProcessApplication \/ Transfer \/ ProcessNetwork \/ DropNetwork

Spec == Init /\ [][Next]_vars

-----------------------------------------------------------------------------
(* PROPERTIES *)

(* What a receiver of the packet verifies: the words of a header and its
   checksum add up to all ones.                                                *)
IPVerifies(q)  == Fold[IPSum(q) + q.ipCsum] = B - 1
TCPVerifies(q) == Fold[TCPSum(q) + q.csum] = B - 1

(* Whatever the headers and the token add up to, every packet that leaves a
   handler states its own length and verifies against both checksums, although
   the IP checksum is never recomputed (packet.go:269, helpers.go:131) and the
   length changes twice.                                                       *)
WireValid ==
    /\ p.len = IPHeader + TCPHeader + Len(GetBytes(p))
    /\ IPVerifies(p)
    /\ TCPVerifies(p)

(* The receiving stack gets the packet the sending stack made: numbers, options
   and data, for numbers that wrap as well ("when our component gets out of the
   way, the sequence numbers between the TCP stacks automatically match",
   datapath_tcp.go:201).                                                       *)
RoundTrip == at = "delivered" => p = sent

(* A packet the stack sent without data arrives (the token is genuine here).  A
   header that is already 15 words long has no room for the option: its offset
   wraps to 0 and the receiver drops it.                                       *)
Arrives == at = "dropped" => sent.len # TCPDataStartBytes(sent)

(* The incremental adjustments of attaching, detaching and moving a number are
   right on their own, except from a stored checksum of 0 and, for a detach,
   when the adjustment comes out at 0: the code negates where one's complement
   inverts (packet.go:287, 364, 457).                                          *)
IncrementalIsExact ==
    /\ at = "app" /\ p.csum # 0 =>
          /\ TCPVerifies(MoveSeq(p, - AckSize)) /\ TCPVerifies(MoveAck(p, AckSize))
          /\ TCPVerifies(TCPDataAttach(p, Option, token))
    /\ at = "net" /\ Genuine(p) /\ p.csum # 0 =>
          LET q == TCPDataDetach(p) IN q.csum # 0 => TCPVerifies(DropDetachedBytes(q))

(* The same without the exceptions: "Updates TCP header (checksums)"
   (packet.go:417).                                                            *)
IncrementalAlwaysExact ==
    at = "app" => TCPVerifies(TCPDataAttach(p, Option, token))
=============================================================================
