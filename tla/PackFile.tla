------------------------------ MODULE PackFile ------------------------------
(***************************************************************************)
(* Packs as they are read and written (src/git/pack-reader.ts,              *)
(* src/git/pack.ts) and the sizes the object store takes                     *)
(* (src/git/object-store.ts).  Content is a sequence of bytes, an object its *)
(* type and content, and an object id is the object it names.  The encoding  *)
(* of headers, offsets and zlib streams is left out; an offset is the number *)
(* of entries it goes back, 0 for one that meets no entry.                    *)
(***************************************************************************)
EXTENDS Integers, Sequences, SequencesExt, FiniteSetsExt

CONSTANTS
    MaxObjectBytes,     \* MAX_GIT_OBJECT_BYTES
    MaxTagBytes,        \* MAX_TAG_OBJECT_BYTES
    MaxInflatedBytes,   \* MAX_PACK_INFLATED_BYTES
    MaxPackObjects,     \* MAX_PACK_OBJECTS
    MaxDeltaDepth       \* MAX_DELTA_DEPTH

Bad == [ok |-> FALSE, content |-> <<>>]
Object(type, content) == [type |-> type, content |-> content]
NoObject == Object("none", <<>>)
Total(sizes) == FoldLeft(+, 0, sizes)
MaxBytes(type) == IF type = "tag" THEN MaxTagBytes ELSE MaxObjectBytes

\* What putObject takes; whatever was put can be read back by getObject.
putObjectAllowed(o) == Len(o.content) <= MaxBytes(o.type)
getObjectAllowed(o) == Len(o.content) <= MaxObjectBytes

(***************************************************************************)
(* applyDelta.  A delta names the sizes of its base and target, and copies   *)
(* ranges of the base (from is counted from 0) and inserts literal bytes.     *)
(***************************************************************************)
DeltaBytes(delta) == 2 + Total([i \in DOMAIN delta.ops |-> IF delta.ops[i].op = "copy" THEN 3
                                                            ELSE 1 + Len(delta.ops[i].bytes)])

DeltaStep(base, out, op) ==
    CASE ~out.ok -> Bad
      [] out.ok /\ op.op = "copy" ->
            IF op.from + op.size > Len(base) THEN Bad
            ELSE [out EXCEPT !.content = @ \o SubSeq(base, op.from + 1, op.from + op.size)]
      [] out.ok /\ op.op = "insert" ->
            IF op.bytes = <<>> THEN Bad ELSE [out EXCEPT !.content = @ \o op.bytes]

applyDelta(base, delta, maxTargetBytes) ==
    LET out == FoldLeft(LAMBDA o, op : DeltaStep(base, o, op), [ok |-> TRUE, content |-> <<>>], delta.ops)
    IN IF delta.src # Len(base) \/ delta.tgt > maxTargetBytes \/ ~out.ok \/ Len(out.content) # delta.tgt
       THEN Bad ELSE out

(***************************************************************************)
(* readPack.  An entry is a plain object, or a delta on the entry so many     *)
(* places back ("ofs"), or on the object with an id ("ref").                  *)
(***************************************************************************)
Payload(e) == IF e.kind = "base" THEN Len(e.object.content) ELSE DeltaBytes(e.delta)

\* The first pass: what is refused before any delta is looked at.
Parses(pack) ==
    /\ Len(pack) <= MaxPackObjects
    /\ Total([i \in DOMAIN pack |-> Payload(pack[i])]) <= MaxInflatedBytes
    /\ \A i \in DOMAIN pack :
          /\ Payload(pack[i]) <= IF pack[i].kind = "base" THEN MaxBytes(pack[i].object.type) ELSE MaxObjectBytes
          /\ pack[i].kind = "ofs" => pack[i].back \in 1..(i - 1)

Plain(pack) == {i \in DOMAIN pack : pack[i].kind = "base"}

\* Mutant: a resolved delta is not made available to the deltas that follow.
IndexOfPlain(pack, done, object) ==
    LET plain == {i \in Plain(pack) : pack[i].object = object}
    IN IF plain # {} THEN Min(plain) ELSE 0

\* The entry a ref-delta finds its base in: a plain one anywhere in the pack, or else one
\* that has been resolved already.  0 when the pack has none.
shaToIndex(pack, done, object) ==
    LET plain == {i \in Plain(pack) : pack[i].object = object}
        earlier == {i \in DOMAIN done.objects : done.objects[i] = object}
    IN IF plain # {} THEN Min(plain) ELSE IF earlier # {} THEN Min(earlier) ELSE 0

\* A plain entry has depth 0, also before its turn has come.
DepthOf(pack, done, i) == IF i \in Plain(pack) THEN 0 ELSE done.depth[i]

Refuse(done) == [done EXCEPT !.ok = FALSE]

\* A delta on base, depth deep; fetched is what a base outside the pack adds to the budget.
Reconstruct(done, base, delta, depth, fetched) ==
    LET target == applyDelta(base.content, delta, MaxBytes(base.type))
        retained == done.retained + fetched + Len(target.content)
    IN IF base = NoObject \/ depth > MaxDeltaDepth \/ ~target.ok \/ retained > MaxInflatedBytes
       THEN Refuse(done)
       ELSE [done EXCEPT !.objects = Append(@, Object(base.type, target.content)),
                         !.depth = Append(@, depth), !.retained = retained,
                         !.fetched = IF fetched = 0 THEN @ ELSE @ \cup {base}]

\* resolveEntry, for the next entry in the order of the file.
resolveEntry(pack, external, done, e) ==
    LET found == shaToIndex(pack, done, e.base)
        at == Len(done.objects) + 1 - e.back
        ObjectOf(i) == IF i \in Plain(pack) THEN pack[i].object ELSE done.objects[i]
        outside == IF e.base \in external THEN e.base ELSE NoObject
    IN CASE ~done.ok -> done
         [] done.ok /\ e.kind = "base" ->
                [done EXCEPT !.objects = Append(@, e.object), !.depth = Append(@, 0)]
         [] done.ok /\ e.kind = "ofs" ->
                Reconstruct(done, done.objects[at], e.delta, done.depth[at] + 1, 0)
         [] done.ok /\ e.kind = "ref" /\ found # 0 ->
                Reconstruct(done, ObjectOf(found), e.delta, DepthOf(pack, done, found) + 1, 0)
         [] done.ok /\ e.kind = "ref" /\ found = 0 ->
                Reconstruct(done, outside, e.delta, 1,
                            IF e.base \in done.fetched THEN 0 ELSE Len(outside.content))

readPack(pack, external) ==
    LET parsed == [ok |-> Parses(pack), objects |-> <<>>, depth |-> <<>>, fetched |-> {},
                   retained |-> Total([i \in DOMAIN pack |-> Payload(pack[i])])]
    IN FoldLeft(LAMBDA done, e : resolveEntry(pack, external, done, e), parsed, pack)

(***************************************************************************)
(* pack.ts: the objects as plain entries; one the store misses is left out.   *)
(***************************************************************************)
PlainEntry(o) == [kind |-> "base", object |-> o, back |-> 0, base |-> NoObject,
                  delta |-> [src |-> 0, tgt |-> 0, ops |-> <<>>]]

writePackFromShas(store, objects) ==
    LET there == SelectSeq(objects, LAMBDA o : o \in store)
    IN [ok |-> /\ Len(objects) <= MaxPackObjects
               /\ \A o \in ToSet(there) : Len(o.content) <= MaxBytes(o.type)
               /\ Total([i \in DOMAIN there |-> Len(there[i].content)]) <= MaxInflatedBytes,
        pack |-> [i \in DOMAIN there |-> PlainEntry(there[i])],
        missing |-> ToSet(objects) \ store]

(***************************************************************************)
(* What reading promises.                                                    *)
(***************************************************************************)
\* The object e stands for when its base is base; NoObject when it stands for none.
Meant(e, base) ==
    LET target == applyDelta(base.content, e.delta, MaxBytes(base.type))
    IN IF target.ok /\ base # NoObject THEN Object(base.type, target.content) ELSE NoObject

\* What the server packs (pack.ts) it can read back, object for object.
PackReadsBack(objects) ==
    LET written == writePackFromShas(ToSet(objects), objects)
    IN written.ok => readPack(written.pack, {}).ok /\ readPack(written.pack, {}).objects = objects

\* A pack that is taken (pack-reader.ts) becomes the objects its entries mean, whichever
\* deltas they hang on, each within the limits the store has; and a pack is refused only
\* for an entry that means nothing, that is too deep or too large, or whose base comes
\* neither before it nor plain nor from the store.
PackIsFaithful(pack, external) ==
    \A read \in {readPack(pack, external)} :
    LET BaseAt(i, objects) == IF pack[i].kind = "ofs" THEN objects[i - pack[i].back] ELSE pack[i].base
        plain == {pack[i].object : i \in Plain(pack)}
        \* the entries read before the one that was refused
        next == Len(read.objects) + 1
        refused == pack[next]
        before == ToSet(read.objects)
        Fetched == IF refused.kind = "ref" /\ refused.base \notin before \cup plain \cup read.fetched
                   THEN Len(refused.base.content) ELSE 0
    IN IF read.ok
       THEN /\ \A i \in DOMAIN pack :
                  IF pack[i].kind = "base" THEN read.objects[i] = pack[i].object
                  ELSE /\ read.objects[i] = Meant(pack[i], BaseAt(i, read.objects))
                       /\ BaseAt(i, read.objects) \in before \cup external
            /\ \A o \in before : putObjectAllowed(o) /\ getObjectAllowed(o)
            /\ Total([i \in DOMAIN pack |-> IF i \in Plain(pack) THEN 0 ELSE Len(read.objects[i].content)])
                  <= MaxInflatedBytes
            /\ PackReadsBack(read.objects)
       ELSE Parses(pack) =>
              /\ refused.kind # "base"
              /\ \/ refused.kind = "ref" /\ refused.base \notin before \cup plain \cup external
                 \/ Meant(refused, BaseAt(next, read.objects)) = NoObject
                 \/ read.retained + refused.delta.tgt + Fetched > MaxInflatedBytes
                 \/ \E j \in DOMAIN read.objects :
                       read.objects[j] = BaseAt(next, read.objects) /\ read.depth[j] = MaxDeltaDepth

\* A delta's base may stand anywhere in its pack ("resolving OFS_DELTA / REF_DELTA objects
\* - including delta-on-delta chains"): the order of the entries decides nothing.
OrderIsFree(pack, external) ==
    (\A i \in DOMAIN pack : pack[i].kind # "ofs") => readPack(pack, external).ok = readPack(Reverse(pack), external).ok
=============================================================================
