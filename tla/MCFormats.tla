----------------------------- MODULE MCFormats ------------------------------
(***************************************************************************)
(* The parts of zscan-core that depend on nothing but their own state, side *)
(* by side for TLC: each behaviour is one of one of them.                   *)
(***************************************************************************)
EXTENDS MCFields, Codecs, Inflater, ZlibSettings, OodleLibrary

VARIABLE machine

vars == <<machine, fieldsVars, codecVars, inflaterVars, zlibVars, oodleVars>>

FieldsOff == input = <<>> /\ left = {} /\ found = {} /\ fields = {} /\ step = "ready" /\ rounds = 0
CodecOff ==
  /\ codec = [format |-> "gzip", fields |-> <<>>, max |-> 1, begin |-> 0, minSize |-> 0, rawMin |-> 0]
  /\ data = <<>> /\ decided = 0
InflaterOff == ctx = [max |-> 1, buf |-> 0] /\ inflating = {} /\ attempts = 0 /\ last = {}
ZlibOff == made = [header |-> 0] /\ phase = "made" /\ settings = {} /\ encoder = {}

Init ==
  \/ machine = "fields" /\ FieldsInit /\ CodecOff /\ InflaterOff /\ ZlibOff /\ OodleInit
  \/ machine = "codec" /\ FieldsOff /\ CodecInit /\ InflaterOff /\ ZlibOff /\ OodleInit
  \/ machine = "inflater" /\ FieldsOff /\ CodecOff /\ InflaterInit /\ ZlibOff /\ OodleInit
  \/ machine = "zlib" /\ FieldsOff /\ CodecOff /\ InflaterOff /\ ZlibInit /\ OodleInit
  \/ machine = "oodle" /\ FieldsOff /\ CodecOff /\ InflaterOff /\ ZlibOff /\ OodleInit

Next ==
  /\ UNCHANGED machine
  /\ \/ machine = "fields" /\ FieldsNext /\ UNCHANGED <<codecVars, inflaterVars, zlibVars, oodleVars>>
     \/ machine = "codec" /\ CodecNext /\ UNCHANGED <<fieldsVars, inflaterVars, zlibVars, oodleVars>>
     \/ machine = "inflater" /\ InflaterNext /\ UNCHANGED <<fieldsVars, codecVars, zlibVars, oodleVars>>
     \/ machine = "zlib" /\ ZlibNext /\ UNCHANGED <<fieldsVars, codecVars, inflaterVars, oodleVars>>
     \/ machine = "oodle" /\ OodleNext /\ UNCHANGED <<fieldsVars, codecVars, inflaterVars, zlibVars>>

Spec == Init /\ [][Next]_vars

-----------------------------------------------------------------------------
(* How streams begin, and what may follow: as few bytes as take every       *)
(* branch of each decoder.                                                  *)
BeginningsOf ==
  [gzip |-> {<<9, f, 0>> : f \in {0, 2, 4, 8, 16, 14, 22, 28, 30, 32}}, zlib |-> {<<7>>, <<8>>, <<15>>}, lz4 |-> {<<9, f>> : f \in 0 .. 7},
   lzo |-> {<<>>, <<18, 1>>, <<1, 0, 0>>}, oodle |-> {<<h>> : h \in {0, 1, 3, 5, 9}}]

BytesOf ==
  [gzip |-> 0 .. 3, zlib |-> 0 .. 3, lz4 |-> {0, 1, 2, 3, 5}, lzo |-> {0, 1, 17, 33, 64},
   oodle |-> {0, 1, 2, 4, 6}]

MoreOf == [gzip |-> 7, zlib |-> 4, lz4 |-> 7, lzo |-> 6, oodle |-> 4]

SizesInFront == {<<>>, <<3, 5>>, <<5, 3>>, <<8>>, <<4, 7>>}

AllButTheEmpty == {[minSize |-> 1, rawMin |-> 1]}

(* Every strategy with low, middle and high levels, windows and memory.     *)
SomeSettings ==
  {Setting(l, w, m, s) : l \in {0, 2, 6}, w \in {9, 12, 15}, m \in {1, 5, 9}, s \in Strategies}

(* Around the capacity of the smallest buffer, and the windows' margins,    *)
(* and enough for the largest buffer.                                       *)
SomeSizes == {0, 126, 127, 250, 251, 400, 513, 3834, 3835, 4000, 40000}

(* Nothing, and one less than fills each of three buffers, and as many.     *)
SomeLengths == {0, 1, 126, 127, 2046, 2047, 32766, 32767}

TwoRecorded == {Setting(6, 15, 8, "default"), Setting(1, 9, 9, "fixed")}
=============================================================================
