------------------------------- MODULE Hpack -------------------------------
(***************************************************************************)
(* The header compression of one direction of a connection                 *)
(* (src/src/viriatum/http/hpack.c): an encoder and a decoder, each with a  *)
(* dynamic table kept in a ring, that have to stay in step over the blocks *)
(* of many messages.  A field is a name and a value;                       *)
(* a block is a sequence of representations, see HpackCoding for the       *)
(* octets they are written in.                                             *)
(*                                                                         *)
(* The encoder is the code's own (encode_hpack, as the tests drive it and  *)
(* as the sessions use it with indexing off).  A peer that is not honest   *)
(* sends any representation at all.                                        *)
(***************************************************************************)
EXTENDS Naturals, Sequences, FiniteSets, FiniteSetsExt, Lists

CONSTANTS
    NameSize,     \* the size of each name, a function
    ValueSize,    \* the size of each value, a function
    Static,       \* the static table, a sequence of fields
    TableSize,    \* HPACK_TABLE_SIZE
    Overhead,     \* HPACK_ENTRY_OVERHEAD
    ListLimit,    \* HPACK_MAX_HEADER_LIST_SIZE
    BlockLimit    \* bound: the representations of one block

\* A name that an entry of its own holds is not the one of an empty entry, and an entry
\* fits in the table.
ASSUME HpackAssumption ==
    /\ NameSize \in [DOMAIN NameSize -> Nat] /\ ValueSize \in [DOMAIN ValueSize -> Nat]
    /\ "NULL" \notin DOMAIN NameSize
    /\ Static \in Seq([name : DOMAIN NameSize, value : DOMAIN ValueSize])
    /\ Overhead \in Nat \ {0} /\ TableSize \in Nat /\ TableSize >= Overhead
    /\ ListLimit \in Nat /\ BlockLimit \in Nat

VARIABLES
    encoder,      \* the table of the end that encodes
    decoder,      \* the table of the end that decodes
    block,        \* the representations not yet decoded
    expected,     \* the fields that were encoded into the block
    decoded,      \* the fields that reached the callback
    field,        \* a field of the block was decoded: no more size updates
    honest,       \* the peer runs the encoder, and not something else
    refused       \* the decoder gave up: the connection is torn down

hpackVars == <<encoder, decoder, block, expected, decoded, field, honest, refused>>

-----------------------------------------------------------------------------
(* The ring. *)

Entries == TableSize \div Overhead
HpackField == [name : DOMAIN NameSize, value : DOMAIN ValueSize]
NoField == [name |-> "NULL", value |-> "NULL"]
EntrySize(f) == Overhead + IF f = NoField THEN 0 ELSE NameSize[f.name] + ValueSize[f.value]

NewTable ==
    [entries |-> [p \in 0..(Entries - 1) |-> NoField],
     head |-> Entries - 1, count |-> 0, size |-> 0, max |-> TableSize]

\* The place of the entry of an index, 1 being the newest.
Position(t, i) == (t.head + Entries - (i - 1)) % Entries

EvictOldest(t) ==
    LET oldest == Position(t, t.count)
    IN  [t EXCEPT !.entries[oldest] = NoField, !.count = @ - 1,
                  !.size = @ - EntrySize(t.entries[oldest])]

\* The table after each number of evictions.
Evictions(t) ==
    LET after[n \in 0..t.count] == IF n = 0 THEN t ELSE EvictOldest(after[n - 1])
    IN  after

\* The oldest go until what is to come fits, or none is left.
MakeRoom(t, size) ==
    LET after == Evictions(t)
    IN  after[Min({n \in 0..t.count : n = t.count \/ after[n].size + size <= t.max})]

Resize(t, n) == MakeRoom([t EXCEPT !.max = n], 0)

InsertAnyway(t, f) ==
    LET room == MakeRoom(t, EntrySize(f))
        head == (room.head + 1) % Entries
    IN  [room EXCEPT !.head = head, !.entries[head] = f,
                     !.count = @ + 1, !.size = @ + EntrySize(f)]
Insert(t, f) ==
    LET room == MakeRoom(t, EntrySize(f))
        head == (room.head + 1) % Entries
    IN  IF EntrySize(f) > t.max
        THEN room
        ELSE [room EXCEPT !.head = head, !.entries[head] = f,
                          !.count = @ + 1, !.size = @ + EntrySize(f)]

Contents(t) == [i \in 1..t.count |-> t.entries[Position(t, i)]]

-----------------------------------------------------------------------------
(* Indexes: the static table first, then the dynamic one from the newest. *)

Addressable(t) == 1..(Len(Static) + t.count)

GetHpack(t, i) ==
    IF i <= Len(Static) THEN Static[i] ELSE t.entries[Position(t, i - Len(Static))]

\* find_hpack_table: the whole field if it is there, else its name, else 0.
Find(t, f) ==
    LET whole == {i \in Addressable(t) : GetHpack(t, i) = f}
        named == {i \in Addressable(t) : GetHpack(t, i).name = f.name}
    IN  [whole |-> whole # {},
         index |-> IF whole # {} THEN Min(whole)
                   ELSE IF named # {} THEN Min(named)
                   ELSE 0]

-----------------------------------------------------------------------------
(* Representations. *)

Indexed(i) == [kind |-> "indexed", index |-> i]
SizeUpdate(n) == [kind |-> "update", max |-> n]
Literal(i, f, indexing) == [kind |-> "literal", index |-> i, field |-> f, indexing |-> indexing]

HpackInit ==
    /\ encoder = NewTable /\ decoder = NewTable
    /\ block = <<>> /\ expected = <<>> /\ decoded = <<>>
    /\ field = FALSE
    /\ honest \in BOOLEAN
    /\ refused = FALSE

Room == Len(expected) < BlockLimit /\ ~refused

EncodeHpackWithoutTable(f, indexing) ==
    LET found == Find(encoder, f)
    IN  IF found.whole
        THEN block' = Append(block, Indexed(found.index)) /\ UNCHANGED encoder
        ELSE /\ block' = Append(block, Literal(found.index, f, indexing))
             /\ UNCHANGED encoder
EncodeHpack(f, indexing) ==
    LET found == Find(encoder, f)
    IN  IF found.whole
        THEN block' = Append(block, Indexed(found.index)) /\ UNCHANGED encoder
        ELSE /\ block' = Append(block, Literal(found.index, f, indexing))
             /\ encoder' = IF indexing THEN Insert(encoder, f) ELSE encoder

SendField(f, indexing) ==
    /\ honest /\ Room
    /\ EncodeHpack(f, indexing)
    /\ expected' = Append(expected, f)
    /\ UNCHANGED <<decoder, decoded, field, honest, refused>>

\* The peer changes the size of its table, which it says before any field.
SendUpdate(n) ==
    /\ honest /\ ~refused
    /\ expected = <<>> /\ block = <<>>
    /\ encoder' = Resize(encoder, n)
    /\ block' = Append(block, SizeUpdate(n))
    /\ UNCHANGED <<decoder, expected, decoded, field, honest, refused>>

\* A peer that makes its blocks up.
SendAnything(r) ==
    /\ ~honest /\ ~refused /\ block = <<>>
    /\ block' = <<r>>
    /\ UNCHANGED <<encoder, decoder, expected, decoded, field, honest, refused>>

-----------------------------------------------------------------------------
(* decode_hpack, one turn of its loop at a time. *)

RefuseBlock ==
    /\ refused' = TRUE
    /\ UNCHANGED <<encoder, decoder, block, expected, decoded, field, honest>>

ListSize(fields) == SumOf([i \in 1..Len(fields) |-> EntrySize(fields[i])])

\* The field joins the list, unless the list is too long by now.
HandOver(f, table) ==
    /\ decoder' = table
    /\ field' = TRUE
    /\ IF ListSize(Append(decoded, f)) > ListLimit
       THEN refused' = TRUE /\ UNCHANGED decoded
       ELSE decoded' = Append(decoded, f) /\ UNCHANGED refused

DecodeUpdate(r) ==
    /\ r.kind = "update"
    /\ IF field \/ r.max > TableSize
       THEN RefuseBlock
       ELSE /\ decoder' = Resize(decoder, r.max)
            /\ block' = Tail(block)
            /\ UNCHANGED <<encoder, expected, decoded, field, honest, refused>>

DecodeIndexed(r) ==
    /\ r.kind = "indexed"
    /\ IF r.index \notin Addressable(decoder)
       THEN RefuseBlock
       ELSE /\ HandOver(GetHpack(decoder, r.index), decoder)
            /\ block' = Tail(block)
            /\ UNCHANGED <<encoder, expected, honest>>

\* The name is copied before the insertion, which may evict its entry.
NameOf(r, table) ==
    IF r.index = 0 THEN r.field.name ELSE GetHpack(decoder, r.index).name

DecodeLiteral(r) ==
    /\ r.kind = "literal"
    /\ IF r.index \notin Addressable(decoder) \cup {0}
       THEN RefuseBlock
       ELSE LET f == [r.field EXCEPT !.name = NameOf(r, decoder)]
            IN  /\ HandOver(f, IF r.indexing THEN Insert(decoder, f) ELSE decoder)
                /\ block' = Tail(block)
                /\ UNCHANGED <<encoder, expected, honest>>

Decode ==
    /\ block # <<>> /\ ~refused
    /\ LET r == Head(block) IN DecodeUpdate(r) \/ DecodeIndexed(r) \/ DecodeLiteral(r)

\* The block is over and the next one begins.
EndOfBlock ==
    /\ block = <<>> /\ decoded # <<>> /\ ~refused
    /\ expected' = <<>> /\ decoded' = <<>> /\ field' = FALSE
    /\ UNCHANGED <<encoder, decoder, block, honest, refused>>

Anything ==
    {Indexed(i) : i \in 0..(Len(Static) + Entries + 1)}
    \cup {SizeUpdate(n) : n \in 0..(TableSize + 1)}
    \cup {Literal(i, f, b) : i \in 0..(Len(Static) + Entries + 1), f \in HpackField, b \in BOOLEAN}

HpackNext ==
    \/ \E f \in HpackField, indexing \in BOOLEAN : SendField(f, indexing)
    \/ \E n \in 0..TableSize : SendUpdate(n)
    \/ \E r \in Anything : SendAnything(r)
    \/ Decode
    \/ EndOfBlock

HpackSpec == HpackInit /\ [][HpackNext]_hpackVars

-----------------------------------------------------------------------------
(* Properties. *)

\* Type invariant.
HpackTypeOK ==
    /\ \A t \in {encoder, decoder} :
          /\ t.entries \in [0..(Entries - 1) -> HpackField \cup {NoField}]
          /\ t.head \in 0..(Entries - 1) /\ t.count \in 0..Entries
          /\ t.size \in 0..TableSize /\ t.max \in 0..TableSize
    /\ expected \in Seq(HpackField) /\ decoded \in Seq(HpackField \cup {NoField})
    /\ field \in BOOLEAN /\ honest \in BOOLEAN /\ refused \in BOOLEAN

\* What the two ends hold agrees whenever a block has been decoded to its
\* end, whatever was evicted, resized or referred to on the way: the index
\* written by find_hpack_table is the one read by get_hpack_table.
TablesInStep ==
    (honest /\ block = <<>> /\ ~refused) =>
        /\ decoded = expected
        /\ Contents(decoder) = Contents(encoder)
        /\ decoder.size = encoder.size /\ decoder.max = encoder.max

\* The ring is as large as it has to be and no larger: the entries that
\* count says are held are the only ones that own memory, none is written
\* over before it is evicted, and size is the sum of theirs.
RingIsSound ==
    \A t \in {encoder, decoder} :
        /\ \A i, j \in 1..t.count : Position(t, i) = Position(t, j) => i = j
        /\ \A p \in DOMAIN t.entries :
              t.entries[p] # NoField <=> \E i \in 1..t.count : p = Position(t, i)
        /\ t.size = ListSize(Contents(t))
        /\ t.size <= t.max

\* No index of any peer reaches an entry that was evicted or never written
\* (get_hpack_table), nor does the name that an insertion evicts.
OnlyWhatIsHeld == \A i \in DOMAIN decoded : decoded[i] \in HpackField

\* The decoder gives up on an honest peer for one reason only, a list of
\* fields above HPACK_MAX_HEADER_LIST_SIZE.
HonestIsUnderstood ==
    (honest /\ refused) => ListSize(expected) > ListLimit

\* The table is a queue that holds as many of the newest fields as fit its
\* limit, through every insertion and every update of the size.
Queue == INSTANCE HpackQueue WITH Field <- HpackField, SizeOf <- EntrySize,
                                  queue <- Contents(decoder), limit <- decoder.max
TableIsAQueue == Queue!QueueSpec

\* Each end keeps a sound ring whatever the other sends, and two honest ends keep the
\* same fields.
TablesAgree ==
    HpackTypeOK /\ RingIsSound /\ TablesInStep /\ OnlyWhatIsHeld /\ HonestIsUnderstood
=============================================================================
