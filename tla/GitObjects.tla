----------------------------- MODULE GitObjects -----------------------------
(***************************************************************************)
(* The bytes of git objects (src/git/object.ts, and the tags of               *)
(* features/releases/git-tags.ts).  A text is the sequence of its characters, *)
(* a character its code point, and the bytes of a text its characters again:   *)
(* UTF-8 has no byte of a NUL or a space but for those, and keeps the order.   *)
(* A commit or a tag is the sequence of its lines, a line what it begins with  *)
(* and the rest of it.  An object id has ShaBytes bytes, of whatever value.    *)
(***************************************************************************)
EXTENDS Integers, Sequences, SequencesExt, FiniteSetsExt, TLC

CONSTANT ShaBytes

NUL == 0
SP == 32
SLASH == 47
ZERO == 48
LT == 60
GT == 62
Directory == <<52, 48, 48, 48, 48>>                  \* "40000"
Types == [blob |-> 98, tree |-> 116, commit |-> 99, tag |-> 103]

indexOf(s, c, from) ==
    LET at == {i \in from..Len(s) : s[i] = c} IN IF at = {} THEN 0 ELSE Min(at)
lastIndexOf(s, c, to) ==
    LET at == {i \in 1..to : s[i] = c} IN IF at = {} THEN 0 ELSE Max(at)
Decimal(n) == IF n < 10 THEN <<ZERO + n>> ELSE <<ZERO + n \div 10, ZERO + (n % 10)>>

\* The first place where two sequences differ decides; a prefix comes first.
Precedes(a, b) ==
    \E n \in 0..Len(a) :
        /\ n <= Len(b) /\ SubSeq(a, 1, n) = SubSeq(b, 1, n)
        /\ n < Len(b) /\ (n = Len(a) \/ a[n + 1] < b[n + 1])

(***************************************************************************)
(* Objects: type, size, NUL, content.                                        *)
(***************************************************************************)
encodeObject(type, content) == <<Types[type], SP>> \o Decimal(Len(content)) \o <<NUL>> \o content

Invalid == [ok |-> FALSE, type |-> "blob", content |-> <<>>]
decodeObject(raw) ==
    LET null == indexOf(raw, NUL, 1)
        header == SubSeq(raw, 1, null - 1)
        space == indexOf(header, SP, 1)
        type == {t \in DOMAIN Types : SubSeq(header, 1, space - 1) = <<Types[t]>>}
        size == SubSeq(header, space + 1, Len(header))
        content == SubSeq(raw, null + 1, Len(raw))
    IN IF null = 0 \/ space = 0 \/ type = {} \/ size # Decimal(Len(content)) THEN Invalid
       ELSE [ok |-> TRUE, type |-> CHOOSE t \in type : TRUE, content |-> content]

(***************************************************************************)
(* Trees: entries of mode, name and id, in the order of the names, where a    *)
(* directory's ends in "/".                                                  *)
(***************************************************************************)
WithoutZeros(mode) == LET from == Min({i \in DOMAIN mode : mode[i] # ZERO}) IN SubSeq(mode, from, Len(mode))
padStart(mode) == [i \in 1..(6 - Len(mode)) |-> ZERO] \o mode
isDirectory(mode) == WithoutZeros(mode) = Directory /\ Len(mode) <= 6
SortName(e) == IF isDirectory(e.mode) THEN Append(e.name, SLASH) ELSE e.name

\* The units that strings are compared by: a character beyond 16 bits is two of them.
Units(s) == FlattenSeq([i \in DOMAIN s |->
    IF s[i] < 65536 THEN <<s[i]>> ELSE <<55296 + (s[i] - 65536) \div 1024, 56320 + ((s[i] - 65536) % 1024)>>])

encodeTreeContent(entries) ==
    LET sorted == SortSeq(entries, LAMBDA a, b : Precedes(Units(SortName(a)), Units(SortName(b))))
    IN FlattenSeq([i \in DOMAIN sorted |-> WithoutZeros(sorted[i].mode) \o <<SP>> \o sorted[i].name \o <<NUL>> \o sorted[i].sha])

\* An entry that is not complete ends the list.
RECURSIVE Entries(_, _)
Entries(content, offset) ==
    LET space == indexOf(content, SP, offset)
        null == indexOf(content, NUL, space + 1)
        sha == SubSeq(content, null + 1, null + ShaBytes)
    IN IF space = 0 \/ null = 0 \/ null + ShaBytes > Len(content) THEN <<>>
       ELSE <<[mode |-> padStart(SubSeq(content, offset, space - 1)), name |-> SubSeq(content, space + 1, null - 1), sha |-> sha]>>
            \o Entries(content, null + ShaBytes + 1)
decodeTree(content) == Entries(content, 1)

(***************************************************************************)
(* Signatures: name <email> time zone.                                       *)
(***************************************************************************)
formatSignature(s) == s.name \o <<SP, LT>> \o s.email \o <<GT, SP>> \o s.time \o <<SP>> \o s.zone

trim(s) ==
    LET seen == {i \in DOMAIN s : s[i] # SP} IN IF seen = {} THEN <<>> ELSE SubSeq(s, Min(seen), Max(seen))

NoSignature == [name |-> <<>>, email |-> <<>>, time |-> <<>>, zone |-> <<>>]
parseSignature(raw) ==
    LET end == lastIndexOf(raw, GT, Len(raw))
        start == lastIndexOf(raw, LT, end)
        rest == trim(SubSeq(raw, end + 1, Len(raw)))
        space == indexOf(rest, SP, 1)
    IN IF end = 0 \/ start = 0 THEN NoSignature
       ELSE [name |-> trim(SubSeq(raw, 1, start - 1)), email |-> SubSeq(raw, start + 1, end - 1),
             time |-> SubSeq(rest, 1, space - 1), zone |-> SubSeq(rest, space + 1, Len(rest))]

(***************************************************************************)
(* Commits and tags: a line is [key, rest]; Blank is the empty one.           *)
(***************************************************************************)
Line(key, rest) == [key |-> key, rest |-> rest]
Blank == Line("", <<>>)

\* text.indexOf("\n\n"): the first empty line with one before it and one behind it.
BlankLine(lines) ==
    LET at == {i \in 2..(Len(lines) - 1) : lines[i] = Blank} IN IF at = {} THEN 0 ELSE Min(at)
HeaderOf(lines) == IF BlankLine(lines) = 0 THEN lines ELSE SubSeq(lines, 1, BlankLine(lines) - 1)
MessageOf(lines) == IF BlankLine(lines) = 0 THEN <<Blank>> ELSE SubSeq(lines, BlankLine(lines) + 1, Len(lines))
\* The last of the lines with a key.
Field(lines, key) ==
    LET at == {i \in DOMAIN lines : lines[i].key = key} IN IF at = {} THEN <<>> ELSE lines[Max(at)].rest

encodeCommitContent(c) ==
    <<Line("tree", c.tree)>> \o [i \in DOMAIN c.parents |-> Line("parent", c.parents[i])]
    \o <<Line("author", formatSignature(c.author)), Line("committer", formatSignature(c.committer)), Blank>> \o c.message

decodeCommit(lines) ==
    LET header == HeaderOf(lines)
        parents == SelectSeq(header, LAMBDA l : l.key = "parent")
    IN [tree |-> Field(header, "tree"), parents |-> [i \in DOMAIN parents |-> parents[i].rest],
        author |-> parseSignature(Field(header, "author")), committer |-> parseSignature(Field(header, "committer")),
        message |-> MessageOf(lines)]

\* A tag's message ends in a newline, which is an empty line at the end.
encodeTagContent(t) ==
    <<Line("object", t.object), Line("type", t.type), Line("tag", t.tag), Line("tagger", formatSignature(t.tagger)), Blank>>
    \o IF t.message[Len(t.message)] = Blank THEN t.message ELSE Append(t.message, Blank)

parseTagObject(lines) ==
    LET header == HeaderOf(lines)
    IN [object |-> Field(header, "object"), type |-> Field(header, "type"), tag |-> Field(header, "tag"),
        tagger |-> parseSignature(Field(header, "tagger")), message |-> MessageOf(lines)]

(***************************************************************************)
(* What the encodings promise.                                               *)
(***************************************************************************)
\* An object reads back, and one whose size is not the one declared is refused.
ObjectReadsBack(type, content) ==
    LET raw == encodeObject(type, content)
    IN /\ decodeObject(raw) = [ok |-> TRUE, type |-> type, content |-> content]
       /\ \A n \in 0..(Len(raw) - 1) : ~decodeObject(SubSeq(raw, 1, n)).ok
       /\ \A b \in {NUL, SP, ZERO} : ~decodeObject(Append(raw, b)).ok

\* The entries of a tree read back, whatever bytes their ids have; and a tree has one encoding,
\* in whatever order its entries are given and however the mode of a directory is spelled.
TreeReadsBack(entries) ==
    LET read == decodeTree(encodeTreeContent(entries))
    IN /\ ToSet(read) = {[e EXCEPT !.mode = padStart(WithoutZeros(@))] : e \in ToSet(entries)}
       /\ Len(read) = Len(entries)
       /\ encodeTreeContent(Reverse(read)) = encodeTreeContent(entries)

\* object.ts:29 "git sorts by treating directory names as if they end with '/'": by their bytes.
TreeIsSorted(entries) ==
    LET read == decodeTree(encodeTreeContent(entries))
    IN \A i, j \in DOMAIN read : i < j => Precedes(SortName(read[i]), SortName(read[j]))

\* A commit reads back, whatever lines its message has and whatever other header it was signed with.
CommitReadsBack(c, more) ==
    LET lines == encodeCommitContent(c)
        header == Len(c.parents) + 3
    IN /\ decodeCommit(lines) = c
       /\ decodeCommit(SubSeq(lines, 1, header) \o more \o SubSeq(lines, header + 1, Len(lines))) = c

\* A tag reads back, but for the newline at its end.
TagReadsBack(t) ==
    LET read == parseTagObject(encodeTagContent(t))
    IN [read EXCEPT !.message = t.message] = t /\ read.message \in {t.message, Append(t.message, Blank)}
=============================================================================
