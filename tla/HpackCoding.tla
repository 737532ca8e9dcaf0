---------------------------- MODULE HpackCoding ----------------------------
(***************************************************************************)
(* The octets of header compression (src/src/viriatum/http/hpack.c):       *)
(* integers in a prefix and groups of continuation, strings in a canonical *)
(* Huffman code.  An octet has OctetBits bits (8 in the code) and the      *)
(* accumulator of the encoder AccumulatorBits (32), so that every octet    *)
(* string of a few octets can be tried.                                    *)
(*                                                                         *)
(* Something is encoded into a buffer of a certain room, may lose its last *)
(* octets, and is decoded.                                                 *)
(***************************************************************************)
EXTENDS Integers, Sequences, FiniteSets, SequencesExt, FiniteSetsExt

CONSTANTS
    OctetBits,        \* the bits of an octet
    AccumulatorBits,  \* the bits of the accumulator of encode_huffman_hpack
    Symbols,          \* the symbols in the order of their codes, the last is the end of string
    Lengths,          \* hpack_huffman_lengths, the length of the code of each symbol
    PrefixSizes,         \* the prefixes that integers are written in
    Integer,          \* the integers that are encoded
    MostSymbols,      \* bound: the symbols of a text
    MostRoom          \* bound: the room of a buffer

VARIABLES
    stage,            \* "given", "encoded", "decoded"
    given,            \* what is encoded: an integer, a text, or octets as they are
    octets,           \* the octets written, or Failed
    result            \* what they are decoded to, or Failed

codingVars == <<stage, given, octets, result>>

Failed == <<-1>>
Octet == 0..(2^OctetBits - 1)
EndOfString == Symbols[Len(Symbols)]

-----------------------------------------------------------------------------
(* Integers. *)

GroupBits == OctetBits - 1
MostShift == 3 * GroupBits          \* shift > 21
MaxInteger == 2^(4 * GroupBits) - 1 \* HPACK_MAX_INTEGER
Mask(prefix) == 2^prefix - 1

RECURSIVE Groups(_)
Groups(n) == IF n < 2^GroupBits THEN <<n>>
             ELSE <<(n % 2^GroupBits) + 2^GroupBits>> \o Groups(n \div 2^GroupBits)

EncodeInteger(n, prefix) ==
    IF n < Mask(prefix) THEN <<n>> ELSE <<Mask(prefix)>> \o Groups(n - Mask(prefix))
\* The value that the octets from p on add up to, shift bits to the left.
RECURSIVE Continue(_, _, _, _)
Continue(data, p, n, shift) ==
    IF p > Len(data) \/ shift > MostShift THEN Failed
    ELSE LET sum == n + (data[p] % 2^GroupBits) * 2^shift
         IN  IF sum > MaxInteger THEN Failed
             ELSE IF data[p] >= 2^GroupBits
                  THEN Continue(data, p + 1, sum, shift + GroupBits)
                  ELSE <<sum, p + 1>>

\* The integer and the position behind it.
DecodeInteger(data, p, prefix) ==
    IF p > Len(data) THEN Failed
    ELSE LET n == data[p] % 2^prefix
         IN  IF n < Mask(prefix) THEN <<n, p + 1>> ELSE Continue(data, p + 1, n, 0)

-----------------------------------------------------------------------------
(* The canonical code: the codes of a length follow each other, and the     *)
(* first of the next length follows the last of this one, moved by a bit.   *)

MaxBits == Lengths[EndOfString]
CodesOf(length) == {i \in DOMAIN Symbols : Lengths[Symbols[i]] = length}

FirstCode[length \in 0..MaxBits] ==
    IF length = 0 THEN 0
    ELSE 2 * (FirstCode[length - 1] + Cardinality(CodesOf(length - 1)))
FirstIndex(length) == Min(CodesOf(length))

IndexOfSymbol(s) == CHOOSE i \in DOMAIN Symbols : Symbols[i] = s
CodeOf(s) == FirstCode[Lengths[s]] + IndexOfSymbol(s) - FirstIndex(Lengths[s])

-----------------------------------------------------------------------------
(* The encoder gathers the bits of the codes in its accumulator. *)

\* The octets that are complete leave the accumulator, see the inner loop.
RECURSIVE FlushOctets(_)
FlushOctets(a) ==
    IF a.count < OctetBits THEN a
    ELSE FlushOctets([a EXCEPT !.count = @ - OctetBits,
                               !.out = Append(@, (a.bits \div 2^(a.count - OctetBits)) % 2^OctetBits)])

\* A code is pushed in as many steps as the accumulator asks for.
RECURSIVE PushCodeAtOnce(_, _, _)
PushCodeAtOnce(a, code, length) ==
    IF length = 0 THEN a
    ELSE LET part == code % 2^length
         IN  PushCodeAtOnce(FlushOctets([a EXCEPT !.bits = (@ * 2^length + part) % 2^AccumulatorBits,
                                              !.count = @ + length]),
                        code, 0)
RECURSIVE PushCode(_, _, _)
PushCode(a, code, length) ==
    IF length = 0 THEN a
    ELSE LET take == Min({AccumulatorBits - a.count, length})
             part == (code \div 2^(length - take)) % 2^take
         IN  PushCode(FlushOctets([a EXCEPT !.bits = (@ * 2^take + part) % 2^AccumulatorBits,
                                        !.count = @ + take]),
                  code, length - take)

\* The last octet is filled with ones.
Pad(a) ==
    IF a.count = 0 THEN a.out
    ELSE LET free == OctetBits - a.count
         IN  Append(a.out, (a.bits * 2^free + 2^free - 1) % 2^OctetBits)

EncodeHuffman(text) ==
    Pad(FoldLeft(LAMBDA a, s : PushCode(a, CodeOf(s), Lengths[s]),
                 [bits |-> 0, count |-> 0, out |-> <<>>], text))

\* size_huffman_hpack
HuffmanSize(text) ==
    (FoldLeft(LAMBDA n, s : n + Lengths[s], 0, text) + OctetBits - 1) \div OctetBits

-----------------------------------------------------------------------------
(* The decoder takes the bits one by one. *)

BitOf(data, b) == (data[b \div OctetBits + 1] \div 2^(OctetBits - 1 - (b % OctetBits))) % 2

\* One bit: it completes a code, or is gathered with the ones before it.
Bit(d, bit) ==
    LET code == 2 * d.code + bit
        bits == d.bits + 1
        offset == code - FirstCode[bits]
        complete == offset \in 0..(Cardinality(CodesOf(bits)) - 1)
        symbol == Symbols[FirstIndex(bits) + offset]
    IN  IF d.failed \/ bits > MaxBits THEN [d EXCEPT !.failed = TRUE]
        ELSE IF ~complete THEN [d EXCEPT !.code = code, !.bits = bits]
        ELSE IF symbol = EndOfString \/ Len(d.text) = MostRoom THEN [d EXCEPT !.failed = TRUE]
        ELSE [d EXCEPT !.code = 0, !.bits = 0, !.text = Append(@, symbol)]

\* What remains is less than an octet, and all ones.
EndsPadded(d) == d.bits < OctetBits /\ (d.bits = 0 \/ d.code = 2^d.bits - 1)

DecodeHuffman(data) ==
    LET end == FoldLeft(LAMBDA d, b : Bit(d, BitOf(data, b - 1)),
                        [code |-> 0, bits |-> 0, text |-> <<>>, failed |-> FALSE],
                        [b \in 1..(Len(data) * OctetBits) |-> b])
    IN  IF end.failed \/ ~EndsPadded(end) THEN Failed ELSE end.text

-----------------------------------------------------------------------------
(* A string: a flag and a length, then the shorter of the two forms, the     *)
(* symbols being octets themselves.                                          *)

StringPrefix == OctetBits - 1

EncodeString(text) ==
    LET coded == HuffmanSize(text) < Len(text)
        data == IF coded THEN EncodeHuffman(text) ELSE text
        length == EncodeInteger(Len(data), StringPrefix)
    IN  <<Head(length) + (IF coded THEN 2^StringPrefix ELSE 0)>> \o Tail(length) \o data

DecodeString(data) ==
    LET length == DecodeInteger(data, 1, StringPrefix)
        body == SubSeq(data, length[2], length[2] + length[1] - 1)
    IN  IF length = Failed THEN Failed
        ELSE IF length[1] > Len(data) - length[2] + 1 THEN Failed
        ELSE IF data[1] >= 2^StringPrefix THEN DecodeHuffman(body)
        ELSE IF Len(body) > MostRoom THEN Failed
        ELSE body

-----------------------------------------------------------------------------
(* The steps. *)

Text == UNION {[1..n -> ToSet(Symbols) \ {EndOfString}] : n \in 0..MostSymbols}

Given ==
    [kind : {"integer"}, number : Integer, prefix : PrefixSizes]
    \cup [kind : {"string"}, text : Text]
    \cup [kind : {"octets"}, data : UNION {[1..n -> Octet] : n \in 0..3}]

CodingInit ==
    /\ stage = "given" /\ given \in Given
    /\ octets = <<>> /\ result = <<>>

Written == CASE given.kind = "integer" -> EncodeInteger(given.number, given.prefix)
             [] given.kind = "string" -> EncodeString(given.text)
             [] given.kind = "octets" -> given.data

\* A buffer that is too small is refused, it is never written in part.
EncodeOctets ==
    /\ stage = "given" /\ stage' = "encoded"
    /\ \E room \in 0..MostRoom :
          octets' = IF given.kind # "octets" /\ Len(Written) > room THEN Failed ELSE Written
    /\ UNCHANGED <<given, result>>

\* The buffer ends before what was encoded does.
CutOctets ==
    /\ stage = "encoded" /\ octets \notin {Failed, <<>>} /\ given.kind # "octets"
    /\ octets' = Front(octets)
    /\ UNCHANGED <<stage, given, result>>

DecodeOctets ==
    /\ stage = "encoded" /\ octets # Failed /\ stage' = "decoded"
    /\ result' = CASE given.kind = "integer" -> DecodeInteger(octets, 1, given.prefix)
                   [] given.kind = "string" -> DecodeString(octets)
                   [] given.kind = "octets" -> DecodeHuffman(octets)
    /\ UNCHANGED <<given, octets>>

CodingNext == EncodeOctets \/ CutOctets \/ DecodeOctets

CodingSpec == CodingInit /\ [][CodingNext]_codingVars

-----------------------------------------------------------------------------
(* Properties. *)

Whole == stage = "decoded" /\ octets = Written

\* An integer is read back as it was written, of every size up to the one
\* the decoder accepts, and refused above it instead of wrapping around.
IntegersRoundTrip ==
    (Whole /\ given.kind = "integer") =>
        IF given.number <= MaxInteger THEN result = <<given.number, Len(octets) + 1>>
                                      ELSE result = Failed

\* A string is read back as it was written, in the shorter of the two forms;
\* the size announced before encoding is the one that encoding takes.
StringsRoundTrip ==
    given.kind = "string" =>
        /\ Whole => result = given.text
        /\ stage = "given" => Len(EncodeHuffman(given.text)) = HuffmanSize(given.text)

\* What lost an octet is refused and not taken for something shorter.
CutIsRefused ==
    (stage = "decoded" /\ octets # Written) => result = Failed

\* No two codings are taken for one text: octets that are accepted are those
\* that encoding the text would give, padding included.
CodingIsUnique ==
    (stage = "decoded" /\ given.kind = "octets" /\ result # Failed) =>
        EncodeHuffman(result) = octets

\* What is encoded is what is decoded, and nothing else is.
CodingRoundTrips ==
    IntegersRoundTrip /\ StringsRoundTrip /\ CutIsRefused /\ CodingIsUnique
=============================================================================
