------------------------------ MODULE Inflate ------------------------------
(***************************************************************************)
(* src/git/inflate-raw.ts: the zlib streams of a pack, one after the other    *)
(* with nothing to tell where one ends, so that what is inflated is half of   *)
(* the result and what it took of the buffer the other half.                 *)
(*                                                                         *)
(* A buffer is the sequence of its bits, the lowest of each byte first, and   *)
(* a place in it the number of bits before it.  A reader that failed has      *)
(* ok = FALSE.  The second half of the module states, apart from the code,    *)
(* what a stream is: the bits that an encoder makes of blocks of literals     *)
(* and copies.                                                              *)
(***************************************************************************)
EXTENDS Integers, Sequences, SequencesExt, FiniteSetsExt

MAX_BITS == 15
LENGTH_BASE == <<3, 4, 5, 6, 7, 8, 9, 10, 11, 13, 15, 17, 19, 23, 27, 31, 35, 43, 51, 59, 67, 83, 99, 115, 131, 163, 195, 227, 258>>
LENGTH_EXTRA == <<0, 0, 0, 0, 0, 0, 0, 0, 1, 1, 1, 1, 2, 2, 2, 2, 3, 3, 3, 3, 4, 4, 4, 4, 5, 5, 5, 5, 0>>
DIST_BASE == <<1, 2, 3, 4, 5, 7, 9, 13, 17, 25, 33, 49, 65, 97, 129, 193, 257, 385, 513, 769, 1025, 1537, 2049, 3073, 4097, 6145,
               8193, 12289, 16385, 24577>>
DIST_EXTRA == <<0, 0, 0, 0, 1, 1, 2, 2, 3, 3, 4, 4, 5, 5, 6, 6, 7, 7, 8, 8, 9, 9, 10, 10, 11, 11, 12, 12, 13, 13>>
CLEN_ORDER == <<16, 17, 18, 0, 8, 7, 9, 6, 10, 5, 11, 4, 12, 3, 13, 2, 14, 1, 15>>

RECURSIVE Number(_)
Number(bin) == IF bin = <<>> THEN 0 ELSE Head(bin) + 2 * Number(Tail(bin))

(***************************************************************************)
(* Reading.  A reader is [ok, pos, val, out]: where it is, what it read last  *)
(* and what it has put out.                                                  *)
(***************************************************************************)
Fail(r) == [r EXCEPT !.ok = FALSE]

\* BitReader.bits: n bits, the lowest first.
bits(buf, r, n) ==
    IF ~r.ok \/ r.pos + n > Len(buf) THEN Fail(r)
    ELSE [r EXCEPT !.pos = @ + n, !.val = Number(SubSeq(buf, r.pos + 1, r.pos + n))]

\* BitReader.alignToByte; whole bytes are never held back by bits.
alignToByte(r) == [r EXCEPT !.pos = 8 * ((@ + 7) \div 8)]

\* lengths[i] is the length of the code of symbol i - 1, 0 for a symbol without one.
buildHuffman(lengths) ==
    [counts |-> [len \in 1..MAX_BITS |-> Quantify(DOMAIN lengths, LAMBDA i : lengths[i] = len)],
     symbols |-> FoldLeft(LAMBDA s, len : s \o SelectSeq([i \in DOMAIN lengths |-> IF lengths[i] = len THEN i - 1 ELSE -1],
                                                          LAMBDA i : i >= 0),
                          <<>>, [len \in 1..MAX_BITS |-> len])]

\* BitReader.decode: bit by bit, until the code read so far is one of the codes of its length.
RECURSIVE Walk(_, _, _, _, _, _, _)
Walk(buf, read, h, len, code, first, index) ==
    IF ~read.ok \/ len > MAX_BITS THEN Fail(read)
    ELSE IF code + read.val - h.counts[len] < first THEN [read EXCEPT !.val = h.symbols[index + code + @ - first + 1]]
    ELSE Walk(buf, bits(buf, read, 1), h, len + 1, 2 * (code + read.val), 2 * (first + h.counts[len]), index + h.counts[len])
decode(buf, r, h) == Walk(buf, bits(buf, r, 1), h, 1, 0, 0, 0)

\* OutBuffer: what is put out, within the limit.
push(r, byte, limit) == IF ~r.ok \/ Len(r.out) + 1 > limit THEN Fail(r) ELSE [r EXCEPT !.out = Append(@, byte)]

\* Byte for byte: a copy may reach into what it has just put out.
Repeat(out, dist, len) ==
    LET data[i \in 1..(Len(out) + len)] == IF i <= Len(out) THEN out[i] ELSE data[i - dist]
    IN [i \in 1..(Len(out) + len) |-> data[i]]
copyBack(r, dist, len, limit) ==
    IF ~r.ok \/ dist <= 0 \/ dist > Len(r.out) \/ Len(r.out) + len > limit THEN Fail(r)
    ELSE [r EXCEPT !.out = Repeat(@, dist, len)]

Far(r, base, len, limit) == copyBack(r, base + r.val, len, limit)
Copied(buf, r, len, limit) ==
    IF ~r.ok \/ r.val >= Len(DIST_BASE) THEN Fail(r)
    ELSE Far(bits(buf, r, DIST_EXTRA[r.val + 1]), DIST_BASE[r.val + 1], len, limit)
Matched(buf, r, base, distance, limit) == Copied(buf, decode(buf, r, distance), base + r.val, limit)

\* inflateBlockData, from the symbol `r.val` that was just read on.
RECURSIVE BlockData(_, _, _, _, _)
BlockData(buf, r, lit, distance, limit) ==
    IF ~r.ok \/ r.val = 256 THEN r
    ELSE IF r.val - 257 >= Len(LENGTH_BASE) THEN Fail(r)
    ELSE LET next == IF r.val < 256 THEN push(r, r.val, limit)
                     ELSE Matched(buf, bits(buf, r, LENGTH_EXTRA[r.val - 256]), LENGTH_BASE[r.val - 256], distance, limit)
         IN BlockData(buf, decode(buf, next, lit), lit, distance, limit)
inflateBlockData(buf, t, limit) == IF t.r.ok THEN BlockData(buf, decode(buf, t.r, t.lit), t.lit, t.distance, limit) ELSE t.r

FIXED_LIT == buildHuffman([i \in 1..288 |-> IF i <= 144 THEN 8 ELSE IF i <= 256 THEN 9 ELSE IF i <= 280 THEN 7 ELSE 8])
FIXED_DIST == buildHuffman([i \in 1..30 |-> 5])

\* inflateDynamicTables: the lengths of both codes are one list, written with runs.
Some(n, total, lengths, value) == lengths \o [i \in 1..Min({n, total - Len(lengths)}) |-> value]
Extended(lengths, sym, more, total) ==
    CASE sym < 16 -> Append(lengths, sym)
      [] sym = 16 -> Some(more + 3, total, lengths, lengths[Len(lengths)])
      [] sym = 17 -> Some(more + 3, total, lengths, 0)
      [] sym = 18 -> Some(more + 11, total, lengths, 0)
ExtraBits(sym) == CASE sym < 16 -> 0 [] sym = 16 -> 2 [] sym = 17 -> 3 [] sym = 18 -> 7
RECURSIVE CodeLengths(_, _, _, _, _), MoreLengths(_, _, _, _, _, _)
CodeLengths(buf, r, h, lengths, total) ==       \* r.val is a symbol
    IF ~r.ok \/ Len(lengths) >= total THEN [r |-> r, lengths |-> lengths]
    ELSE IF r.val = 16 /\ lengths = <<>> THEN [r |-> Fail(r), lengths |-> lengths]
    ELSE MoreLengths(buf, bits(buf, r, ExtraBits(r.val)), r.val, h, lengths, total)
MoreLengths(buf, r, sym, h, lengths, total) ==  \* r.val is how much longer its run is
    LET longer == Extended(lengths, sym, r.val, total)
    IN IF ~r.ok THEN [r |-> r, lengths |-> lengths]
       ELSE CodeLengths(buf, IF Len(longer) < total THEN decode(buf, r, h) ELSE r, h, longer, total)

Codes(read, lits) ==
    IF ~read.r.ok THEN [r |-> read.r, lit |-> FIXED_LIT, distance |-> FIXED_DIST]
    ELSE [r |-> read.r, lit |-> buildHuffman(SubSeq(read.lengths, 1, lits)),
          distance |-> buildHuffman(SubSeq(read.lengths, lits + 1, Len(read.lengths)))]

\* r.val holds the three counts that begin the header; the lengths of the code of the lengths follow.
Tables(buf, r) ==
    LET lits == (r.val % 32) + 257
        dists == ((r.val \div 32) % 32) + 1
        n == r.val \div 1024 + 4
        Place(sym) == CHOOSE i \in DOMAIN CLEN_ORDER : CLEN_ORDER[i] = sym
        clen == [s \in 1..19 |-> IF Place(s - 1) > n THEN 0
                                 ELSE Number(SubSeq(buf, r.pos + 3 * Place(s - 1) - 2, r.pos + 3 * Place(s - 1)))]
        From(h) == Codes(CodeLengths(buf, decode(buf, [r EXCEPT !.pos = @ + 3 * n], h), h, <<>>, lits + dists), lits)
    IN IF ~r.ok \/ lits > 286 \/ dists > 30 \/ r.pos + 3 * n > Len(buf) THEN Codes([r |-> Fail(r), lengths |-> <<>>], lits)
       ELSE From(buildHuffman(clen))
inflateDynamicTables(buf, r) == Tables(buf, bits(buf, r, 14))

\* A stored block: its length, the length's complement, its bytes.
StoredBytes(buf, r, len, limit) ==
    IF ~r.ok \/ r.val # 65535 - len \/ r.pos + 8 * len > Len(buf) \/ Len(r.out) + len > limit THEN Fail(r)
    ELSE [r EXCEPT !.out = @ \o [i \in 1..len |-> Number(SubSeq(buf, r.pos + 8 * i - 7, r.pos + 8 * i))], !.pos = @ + 8 * len]
Stored(buf, r, limit) == StoredBytes(buf, bits(buf, r, 16), r.val, limit)

\* r.val is the bit that says whether the block is the last, and two bits of its type.
RECURSIVE Blocks(_, _, _), After(_, _, _, _)
Blocks(buf, r, limit) ==
    IF ~r.ok \/ r.val >= 6 THEN Fail(r)
    ELSE After(buf, IF r.val < 2 THEN Stored(buf, bits(buf, alignToByte(r), 16), limit)
                    ELSE inflateBlockData(buf, IF r.val < 4 THEN [r |-> r, lit |-> FIXED_LIT, distance |-> FIXED_DIST]
                                               ELSE inflateDynamicTables(buf, r), limit),
               r.val % 2 = 1, limit)
After(buf, r, final, limit) == IF r.ok /\ ~final THEN Blocks(buf, bits(buf, r, 3), limit) ELSE r

Result(r, offset) == [ok |-> r.ok, out |-> r.out, consumed |-> (r.pos + 7) \div 8 - offset]

\* Offsets are in bytes.
inflateRawAt(buf, offset, limit) ==
    Result(After(buf, [ok |-> TRUE, pos |-> 8 * offset, val |-> 0, out |-> <<>>], FALSE, limit), offset)

\* Four bytes more, which are not compared.
WithTrailer(raw, header, room) ==
    [raw EXCEPT !.ok = @ /\ header + raw.consumed + 4 <= room, !.consumed = header + @ + 4]

\* The header, a dictionary's id where it says so, and the blocks.
inflateZlibAt(buf, offset, limit) ==
    LET Byte(i) == Number(SubSeq(buf, 8 * (offset + i) + 1, 8 * (offset + i) + 8))
        header == IF (Byte(1) \div 32) % 2 = 1 THEN 6 ELSE 2
    IN IF \/ 8 * (offset + 2) > Len(buf) \/ Byte(0) % 16 # 8 \/ (256 * Byte(0) + Byte(1)) % 31 # 0
          \/ 8 * (offset + header) > Len(buf)
       THEN [ok |-> FALSE, out |-> <<>>, consumed |-> 0]
       ELSE WithTrailer(inflateRawAt(buf, offset + header, limit), header, Len(buf) \div 8 - offset)

(***************************************************************************)
(* What a stream is (RFC 1950, RFC 1951).  A block is [type, bytes, runs,     *)
(* lits, dists, tokens]; `runs` is how a dynamic block writes the lengths     *)
(* `lits` and `dists` of its codes.                                          *)
(***************************************************************************)
Bits(n, width) == [i \in 1..width |-> (n \div 2^(i - 1)) % 2]
Bytes(s) == FlattenSeq([i \in DOMAIN s |-> Bits(s[i], 8)])
Pad(b) == b \o [i \in 1..((8 - (Len(b) % 8)) % 8) |-> 1]

\* The code of a symbol: after those of the shorter ones and of the smaller ones of its length,
\* each taking the share of the codes that its length leaves it.
Code(lengths, sym) ==
    LET len == lengths[sym + 1]
        Before(l) == Cardinality({i \in DOMAIN lengths : lengths[i] = l /\ (l < len \/ i < sym + 1)})
        value == FoldLeft(LAMBDA v, l : v + 2^(len - l) * Before(l), 0, [l \in 1..len |-> l])
    IN [k \in 1..len |-> (value \div 2^(len - k)) % 2]

FixedLits == [i \in 1..288 |-> CASE i <= 144 -> 8 [] i \in 145..256 -> 9 [] i \in 257..280 -> 7 [] i > 280 -> 8]
FixedDists == [i \in 1..30 |-> 5]

\* The least length, the least distance and the number of extra bits of a symbol.
LengthOf(sym) == IF sym = 285 THEN 258 ELSE IF sym < 265 THEN sym - 254 ELSE 3 + (4 + ((sym - 265) % 4)) * 2^((sym - 261) \div 4)
LengthBits(sym) == IF sym = 285 \/ sym < 265 THEN 0 ELSE (sym - 261) \div 4
DistOf(sym) == IF sym < 4 THEN sym + 1 ELSE 1 + (2 + (sym % 2)) * 2^(sym \div 2 - 1)
DistBits(sym) == IF sym < 4 THEN 0 ELSE sym \div 2 - 1

\* A literal byte is [sym, 0, 0, 0], a copy [sym, more, dsym, dmore].
Token(lits, dists, t) ==
    Code(lits, t[1]) \o IF t[1] < 257 THEN <<>>
                        ELSE Bits(t[2], LengthBits(t[1])) \o Code(dists, t[3]) \o Bits(t[4], DistBits(t[3]))
Tokens(lits, dists, tokens) ==
    FlattenSeq([i \in DOMAIN tokens |-> Token(lits, dists, tokens[i])]) \o Code(lits, 256)

\* The header of a dynamic block: the code lengths are written in a code of five bits.
RunBits(sym) == IF sym = 16 THEN 2 ELSE IF sym = 17 THEN 3 ELSE IF sym = 18 THEN 7 ELSE 0
Header(b) ==
    LET five == [i \in 1..19 |-> 5]
    IN Bits(Len(b.lits) - 257, 5) \o Bits(Len(b.dists) - 1, 5) \o Bits(15, 4)
       \o FlattenSeq([i \in 1..19 |-> Bits(5, 3)])
       \o FlattenSeq([i \in DOMAIN b.runs |-> Code(five, b.runs[i][1]) \o Bits(b.runs[i][2], RunBits(b.runs[i][1]))])

\* The bits of a block, after `at` bits of the stream.
BlockBits(b, at, final) ==
    LET head == <<IF final THEN 1 ELSE 0>>
        skip == [i \in 1..((8 - ((at + 3) % 8)) % 8) |-> 1]
    IN CASE b.type = "stored" -> head \o <<0, 0>> \o skip \o Bits(Len(b.bytes), 16) \o Bits(65535 - Len(b.bytes), 16) \o Bytes(b.bytes)
         [] b.type = "fixed" -> head \o <<1, 0>> \o Tokens(FixedLits, FixedDists, b.tokens)
         [] b.type = "dynamic" -> head \o <<0, 1>> \o Header(b) \o Tokens(b.lits, b.dists, b.tokens)

Stream(blocks) ==
    Pad(FoldLeft(LAMBDA s, i : s \o BlockBits(blocks[i], Len(s), i = Len(blocks)), <<>>, [i \in DOMAIN blocks |-> i]))
Zlib(blocks) == Bytes(<<120, 156>>) \o Stream(blocks) \o Bytes(<<1, 2, 3, 4>>)

\* The bytes that tokens stand for: a copy repeats the last bytes, as many as its distance.
Meaning(out, t) ==
    LET dist == DistOf(t[3]) + t[4]
    IN IF t[1] < 256 THEN Append(out, t[1])
       ELSE out \o [k \in 1..(LengthOf(t[1]) + t[2]) |-> out[Len(out) - dist + 1 + ((k - 1) % dist)]]
Plain(blocks) == FoldLeft(LAMBDA o, b : IF b.type = "stored" THEN o \o b.bytes ELSE FoldLeft(Meaning, o, b.tokens), <<>>, blocks)

(***************************************************************************)
(* inflate-raw.ts:5: a stream becomes the bytes it stands for and is as long   *)
(* as it is, whatever stands before and after it; cut short, or for less      *)
(* than it stands for, it is refused.                                        *)
(***************************************************************************)
InflateIsExact(blocks, before, after, cut) ==
    \A zlib \in {Zlib(blocks)}, plain \in {Plain(blocks)} :
    LET whole == inflateZlibAt(Bytes(before) \o zlib \o Bytes(after), Len(before), Len(plain))
        short == inflateZlibAt(SubSeq(zlib, 1, Len(zlib) - 8 * cut), 0, Len(plain))
    IN /\ whole = [ok |-> TRUE, out |-> plain, consumed |-> Len(zlib) \div 8]
       /\ cut > 0 => ~short.ok
       /\ plain # <<>> => ~inflateZlibAt(zlib, 0, Len(plain) - 1).ok

\* The tables are those of the format.
TablesAreRight ==
    /\ \A s \in 257..285 : LENGTH_BASE[s - 256] = LengthOf(s) /\ LENGTH_EXTRA[s - 256] = LengthBits(s)
    /\ \A s \in 0..29 : DIST_BASE[s + 1] = DistOf(s) /\ DIST_EXTRA[s + 1] = DistBits(s)
    /\ \A s \in 0..18 : \E i \in 1..19 : CLEN_ORDER[i] = s
=============================================================================
