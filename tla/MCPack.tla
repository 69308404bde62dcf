------------------------------- MODULE MCPack -------------------------------
(***************************************************************************)
(* Calls of pack for TLC: a file of ten bytes with two streams.            *)
(***************************************************************************)
EXTENDS Pack

FileLen == 10

Field(offset, measures, adjust) == [offset |-> offset, measures |-> measures, adjust |-> adjust]

Entry(id, offset, fields) ==
  [id |-> id, offset |-> offset, size |-> 2, decompressed |-> 3, fields |-> fields]

(* Streams at 3..4 and 6..7.  Their fields are: none; a directory in front  *)
(* of the first that tells where it is, counted from a base, and how long;  *)
(* a directory for both; a local header right before the second; a field    *)
(* that holds zero after the first, or after the second; two in one place;  *)
(* one inside a stream.                                                     *)
Layouts ==
  {{Entry(1, 3, f[1]), Entry(2, 6, f[2])} : f \in {
     <<{}, {}>>,
     <<{Field(0, "Offset", 7), Field(1, "Compressed", 0)}, {}>>,
     <<{Field(0, "Offset", 0), Field(1, "Compressed", 0)},
       {Field(8, "Offset", 0), Field(9, "Compressed", 0)}>>,
     <<{Field(0, "Compressed", 0)}, {Field(1, "Offset", -6), Field(5, "Compressed", 1)}>>,
     <<{Field(5, "Compressed", -2), Field(0, "Offset", 0)}, {Field(1, "Decompressed", 0)}>>,
     <<{Field(9, "Compressed", 0)}, {Field(8, "Decompressed", -3), Field(0, "Offset", -3)}>>,
     <<{Field(0, "Offset", 0)}, {Field(0, "Offset", -3)}>>,
     <<{Field(6, "Compressed", 0)}, {}>>}}

(* The bytes of the file: streams, fields, zeros at some of the places that *)
(* are left, and one byte that is not what the manifest says.               *)
ByteAt(streams, zeros, damaged, p) ==
  IF p \in damaged THEN Other
  ELSE IF \E e \in streams : e.offset <= p /\ p < End(e)
       THEN LET e == CHOOSE e \in streams : e.offset <= p /\ p < End(e)
            IN  Byte("Original", e.id, p - e.offset)
  ELSE IF \E x \in FieldsOf(streams) : x.field.offset = p
       THEN LET x == CHOOSE x \in FieldsOf(streams) : x.field.offset = p
            IN  Num(StoredValue(x.field, CHOOSE e \in streams : e.id = x.of))
  ELSE IF p \in zeros THEN Zero ELSE Other

Bytes(streams, zeros, damaged) ==
  [i \in 1 .. FileLen |-> ByteAt(streams, zeros, damaged, i - 1)]

Edits ==
  {[first |-> n, strongest |-> m, decompressed |-> d] :
     <<n, m, d>> \in {<<1, 1, 3>>, <<2, 2, 4>>, <<3, 2, 4>>, <<3, 3, 3>>, <<4, 4, 4>>}}

Calls(layouts, aligns, damages) ==
  {[streams |-> l, bytes |-> Bytes(l, z, d), sourceMatches |-> d = {}, verifySource |-> v,
    edits |-> e, useZeroSlack |-> s, relocate |-> r, align |-> a, dryRun |-> FALSE] :
     l \in layouts, z \in {{}, {5}, {8}, {5, 8, 9}}, d \in damages, v \in BOOLEAN,
     e \in [1 .. 2 -> Edits \cup {None}], s \in BOOLEAN, r \in BOOLEAN, a \in aligns}

AllCalls ==
  {c \in Calls(Layouts, {1, 4}, {{}, {3}}) : c.sourceMatches => c.verifySource}
    \cup {[c EXCEPT !.dryRun = TRUE] : c \in Calls({CHOOSE l \in Layouts : TRUE}, {1}, {{}})}
=============================================================================
