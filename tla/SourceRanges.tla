----------------------------- MODULE SourceRanges -----------------------------
(***************************************************************************)
(* The ranges a provider's postbacks must come from: ip-range.ts,          *)
(* normalizeIpRanges and isPostbackSourceAllowed, with an administrator    *)
(* who sets the ranges of a row and requests that are held against them.   *)
(*                                                                         *)
(* Addresses keep their structure and lose their size: bytes of ByteBits   *)
(* bits, Short of them in an IPv4 address and Long in an IPv6 one, of      *)
(* which the first Long - Short say that the rest is an IPv4 address when  *)
(* all are zero but the last, all ones (two of ff in the code).  A byte is *)
(* the sequence of its bits, the highest first, as the masks of the code   *)
(* see it.  The spelling of addresses is left out, but for its notation.   *)
(***************************************************************************)
EXTENDS Integers, Sequences

CONSTANTS ByteBits, Short, Long, NoSource

ASSUME SourceRangesAssumption ==
    /\ {ByteBits, Short, Long} \subseteq Nat \ {0}
    /\ Short < Long

VARIABLES
    ranges,     \* postback_ip_ranges of the provider's row
    refused     \* whether the last request to set them was refused

sourceVars == <<ranges, refused>>

-----------------------------------------------------------------------------
Byte == [1..ByteBits -> {0, 1}]
Zeros == [b \in 1..ByteBits |-> 0]
Ones == [b \in 1..ByteBits |-> 1]
Fixed == Long - Short

Width(version) == ByteBits * (IF version = 4 THEN Short ELSE Long)

\* An address as it is written, and a range: no prefix is -1.
Spelling == [version : {4}, bytes : [1..Short -> Byte]] \cup [version : {6}, bytes : [1..Long -> Byte]]
RangesOf(written) == {[network |-> written, prefix |-> p] : p \in -1 .. (Width(6) + 1)}

\* An address that is not known is none.
ASSUME NoSourceAssumption == NoSource \notin Spelling

\* isIpv4Mapped
Mapped(bytes) == /\ \A i \in 1 .. (Fixed - 1) : bytes[i] = Zeros
                 /\ bytes[Fixed] = Ones

\* parseAddress
ParseAddress(written) ==
    IF written.version = 6 /\ Mapped(written.bytes)
    THEN [version |-> 4, bytes |-> SubSeq(written.bytes, Fixed + 1, Long), unwrapped |-> TRUE]
    ELSE [version |-> written.version, bytes |-> written.bytes, unwrapped |-> FALSE]

\* isValidIpRange
IsValidIpRange(range) == range.prefix = -1 \/ range.prefix <= Width(range.network.version)

\* The leading bits of one byte, as the mask leaves them.
Masked(byte, bits) == [b \in 1..ByteBits |-> IF b <= bits THEN byte[b] ELSE 0]

\* sharesPrefix
SharesPrefix(left, right, bits) ==
    LET whole == bits \div ByteBits
        remainder == bits % ByteBits IN
    /\ \A i \in 1 .. whole : left[i] = right[i]
    /\ remainder # 0 => Masked(left[whole + 1], remainder) = Masked(right[whole + 1], remainder)

\* Mutant of WrittenWidth: the width of what the network turned out to be.
NormalizedWidth(range) == Width(ParseAddress(range.network).version)

\* The prefix counts the bits of the notation the range is written in.
WrittenWidth(range) == Width(range.network.version)

IpMatchesRange(source, range) ==
    LET target == ParseAddress(source)
        network == ParseAddress(range.network)
        bits == IF range.prefix = -1 THEN WrittenWidth(range) ELSE range.prefix
        left == IF network.unwrapped THEN bits - ByteBits * Fixed ELSE bits IN
    /\ network.version = target.version
    /\ bits <= WrittenWidth(range)
    /\ left >= 0
    /\ SharesPrefix(target.bytes, network.bytes, left)

\* isPostbackSourceAllowed: no range is no check.
IsPostbackSourceAllowed(source) ==
    \/ ranges = {}
    \/ source # NoSource /\ \E range \in ranges : IpMatchesRange(source, range)

-----------------------------------------------------------------------------
\* normalizeIpRanges, of create and update: one invalid range refuses the request.
SetRanges(set) ==
    IF \A range \in set : IsValidIpRange(range)
    THEN ranges' = set /\ refused' = FALSE
    ELSE UNCHANGED ranges /\ refused' = TRUE

SourcesInit == ranges = {} /\ refused = FALSE

SourcesNext ==
    \/ SetRanges({})
    \/ \E written \in Spelling : \E range \in RangesOf(written) : SetRanges({range})

SourcesSpec == SourcesInit /\ [][SourcesNext]_sourceVars

-----------------------------------------------------------------------------
(* Properties *)

\* An address as IPv6 has it, an IPv4 one where it is mapped to, and its bits, from 0.
AsLong(written) ==
    IF written.version = 6 THEN written.bytes
    ELSE [i \in 1..Long |-> IF i < Fixed THEN Zeros ELSE IF i = Fixed THEN Ones
                            ELSE written.bytes[i - Fixed]]
Bit(bytes, k) == bytes[(k \div ByteBits) + 1][(k % ByteBits) + 1]

\* The block of the range: the addresses that agree with it but in its host bits.
Hosts(range) == Width(range.network.version)
                    - (IF range.prefix = -1 THEN Width(range.network.version) ELSE range.prefix)
InBlock(source, range) ==
    \A k \in 0 .. (Width(6) - Hosts(range) - 1) :
        Bit(AsLong(source), k) = Bit(AsLong(range.network), k)

\* An IPv4 address, however it is written.
OfShort(written) == \A i \in 1..Fixed : AsLong(written)[i] = IF i = Fixed THEN Ones ELSE Zeros

\* A block of IPv6 that holds the IPv4 addresses and more.
HoldsBoth(range) == Hosts(range) > ByteBits * Short

\* The ranges an operator could save let through exactly the addresses of their
\* blocks, however source and range are written (ipMatchesRange), and a block
\* of IPv6 that holds all of IPv4 lets none of IPv4 through: an allowlist that
\* errs, errs closed.  A source that is not known passes no list.
RangesAgree ==
    /\ ranges # {} => ~IsPostbackSourceAllowed(NoSource)
    /\ \A source \in Spelling, range \in ranges :
          IsPostbackSourceAllowed(source) =
              /\ InBlock(source, range)
              /\ HoldsBoth(range) => ~OfShort(source) /\ ~OfShort(range.network)
=============================================================================
