------------------------------- MODULE Packets -------------------------------
(***************************************************************************)
(* The packets on the tun device (tcpip/): what KONE reads and writes of a *)
(* packet, and its two checksums.  A packet is a record; the words that    *)
(* the code never looks at are there as their sum, "head" for those of the *)
(* IP header and "rest" for those of the payload, data included.           *)
(***************************************************************************)
EXTENDS Naturals

CONSTANT Byte   \* the number of values of a byte

ASSUME ByteAssumption == Byte \in Nat /\ Byte > 8

Short == Byte * Byte   \* and of the 16-bit words that the checksums add up

ICMP == 1
TCP  == 6
ICMPEcho    == 0
ICMPRequest == 8
-----------------------------------------------------------------------------
(* Mutation: the carry of the first folding is dropped. *)
ChecksumOfFoldedOnce(sum) ==
  LET once == (sum \div Short) + (sum % Short)
  IN  Short - 1 - (once % Short)

(* The complement of the ones' complement sum: the carries are added to    *)
(* the low word twice, since adding them may give one more.                *)
ChecksumOf(sum) ==
  LET once  == (sum \div Short) + (sum % Short)
      twice == once + (once \div Short)
  IN  Short - 1 - (twice % Short)

(* Sum of an address, as Sum gives it. *)
AddrSum(ip) == (ip \div Short) + (ip % Short)

PseudoSum(p) == AddrSum(p.src) + AddrSum(p.dst) + p.proto + p.len

SegmentSum(p) ==
  IF p.proto = ICMP THEN p.type * Byte + p.code + p.rest
                    ELSE PseudoSum(p) + p.sport + p.dport + p.rest

HeaderSum(p) == p.head + AddrSum(p.src) + AddrSum(p.dst)

(* ResetChecksum of the segment, with the pseudo header if it has one, and *)
(* of the IP header: either is zero while it is computed.                  *)
ResetChecksum(p) ==
  [p EXCEPT !.check = ChecksumOf(SegmentSum(p)),
            !.ipcheck = ChecksumOf(HeaderSum(p))]

(* The filters of the relays: the packet gets new ends, then its sums.     *)
Rewritten(p, from, to) ==
  ResetChecksum([p EXCEPT !.src = from.ip, !.sport = from.port,
                          !.dst = to.ip, !.dport = to.port])

(* icmpFilterFunc: the answer to an echo request.                          *)
IsEchoRequest(p) == p.proto = ICMP /\ p.type = ICMPRequest /\ p.code = 0

EchoReply(p) ==
  ResetChecksum([p EXCEPT !.type = ICMPEcho, !.src = p.dst, !.dst = p.src])

(* A receiver adds up all words and finds the complement to be zero, as    *)
(* TestChecksum does with a header.                                        *)
Verifies(p) ==
  /\ ChecksumOf(SegmentSum(p) + p.check) = 0
  /\ ChecksumOf(HeaderSum(p) + p.ipcheck) = 0
=============================================================================
