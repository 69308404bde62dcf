---------------------------- MODULE ZlibSettings ----------------------------
(***************************************************************************)
(* Settings for the deflate family (deflater.rs, codecs/deflate.rs,         *)
(* codecs/zlib.rs): the search for those that made a stream, which does not *)
(* try what cannot matter, and those that pack encodes an edit with.        *)
(*                                                                         *)
(* zlib is external: Output says which settings give the same bytes, as the *)
(* comments of find_params know it, and FirstBlocks how a stream may begin. *)
(***************************************************************************)
EXTENDS Integers, Sequences

CONSTANTS
  MadeWith,   (* the settings that the streams considered were made with    *)
  DataSizes,  (* the lengths of what they hold                              *)
  BlockLengths,   (* the numbers of symbols that a last block may have      *)
  Recorded    (* settings that a manifest edited by hand may give           *)

Strategies == {"default", "filtered", "huffman", "rle", "fixed"}
Setting(l, w, m, s) == [level |-> l, window |-> w, mem |-> m, strategy |-> s]

(* DeflateParams::is_valid.                                                 *)
IsValid(p) == p.level \in 0 .. 9 /\ p.window \in 9 .. 15 /\ p.mem \in 1 .. 9

ValidSettings == [level : 0 .. 9, window : 9 .. 15, mem : 1 .. 9, strategy : Strategies]

ASSUME ZlibAssumption ==
  DataSizes \cup BlockLengths \subseteq Nat /\ MadeWith \cup Recorded \subseteq ValidSettings

VARIABLES
  made,       (* the stream: its settings, data length, first block, header *)
  phase,      (* "made", "searched", "encoded"                              *)
  settings,   (* the settings found, if any                                 *)
  encoder     (* the settings an edit is encoded with                       *)

zlibVars == <<made, phase, settings, encoder>>

Margin == 262                     (* zlib's MIN_LOOKAHEAD                    *)
Capacity(m) == 2 ^ (m + 6) - 1

(* External: the lazy matcher, zlib's deflate_slow, holds one literal back.  *)
Lazy(p) == p.level \in 4 .. 9 /\ p.strategy \notin {"huffman", "rle"}

(* External: zlib ends a block when its symbols fill the buffer.  A last    *)
(* block that fills it goes out as one that is not, and an empty one comes  *)
(* after it; but the lazy matcher adds the literal it holds back without    *)
(* looking, so its last block may be full.                                  *)
FirstBlocks(p, size) ==
  {[stored |-> TRUE, last |-> FALSE, symbols |-> 0]} \cup
  IF p.level = 0 THEN {}
  ELSE {[stored |-> FALSE, last |-> TRUE, symbols |-> n] :
          n \in {k \in BlockLengths :
                   k <= size /\ (k < Capacity(p.mem) \/ (Lazy(p) /\ k = Capacity(p.mem)))}} \cup
       {[stored |-> FALSE, last |-> FALSE, symbols |-> n] : n \in {k \in {Capacity(p.mem)} : k <= size}}

Way(p) ==
  CASE p.level = 0 -> <<"stored">>
    [] p.level # 0 /\ p.strategy \in {"huffman", "rle"} -> <<p.strategy>>
    [] p.level \in 1 .. 3 /\ p.strategy = "filtered" -> <<p.level, "default">>
    [] OTHER -> <<p.level, p.strategy>>

Output(p, size) ==
  <<Way(p), p.mem, IF size <= 2 ^ p.window - Margin THEN 15 ELSE p.window>>

ZlibInit ==
  /\ \E p \in MadeWith, size \in DataSizes, zlib \in BOOLEAN :
       \E block \in FirstBlocks(p, size) :
         \E header \in IF zlib THEN {p.window} \cup (IF p.window = 9 THEN {8} ELSE {}) ELSE {0} :
           made = [params |-> p, size |-> size, block |-> block, header |-> header]
  /\ phase = "made"
  /\ settings = {} /\ encoder = {}

-----------------------------------------------------------------------------
(* find_params.                                                             *)

(* In the order of the loops: memory levels, windows, then levels with      *)
(* their strategies.                                                        *)
MemLevels == <<8, 9, 7, 6, 5, 4, 3, 2, 1>>
Windows == <<15, 14, 13, 12, 11, 10, 9>>
Levels == <<6, 9, 1, 5, 4, 7, 8, 2, 3>>
EachLevel == <<"default", "filtered", "fixed">>
AfterLevels == <<"rle", "huffman">>

(* What the first block tells of the memory level.                          *)
MemLevelsFor(block) ==
  {m \in 1 .. 9 :
     block.stored \/ IF block.last THEN Capacity(m) > block.symbols ELSE Capacity(m) = block.symbols}

(* Mutant: without the margin.                                              *)
WindowsBelowSize(header, size) ==
  IF header \in 9 .. 15 THEN {header} ELSE {w \in 9 .. 15 : w = 15 \/ 2 ^ w < size}

(* A window that the input fits in gives what 15 gives.                     *)
WindowsFor(header, size) ==
  IF header \in 9 .. 15 THEN {header} ELSE {w \in 9 .. 15 : w = 15 \/ 2 ^ w - Margin < size}

(* Filtered differs from level 4 on; rle and huffman go without a level.    *)
Ways ==
  {<<l, s>> : l \in 1 .. 9, s \in {"default", "fixed"}} \cup {<<l, "filtered">> : l \in 4 .. 9}
    \cup {<<6, "rle">>, <<6, "huffman">>, <<0, "default">>}

Tried ==
  {Setting(w[1], b, m, w[2]) :
     w \in Ways, b \in WindowsFor(made.header, made.size), m \in MemLevelsFor(made.block)}

Place(s, x) == CHOOSE k \in DOMAIN s : s[k] = x

WayPlace(p) ==
  CASE p.level = 0 -> 99
    [] p.level # 0 /\ p.strategy \in {"rle", "huffman"} -> 90 + Place(AfterLevels, p.strategy)
    [] OTHER -> 4 * Place(Levels, p.level) + Place(EachLevel, p.strategy)

Turn(p) == 10000 * Place(MemLevels, p.mem) + 100 * Place(Windows, p.window) + WayPlace(p)

Reproduces(p) == Output(p, made.size) = Output(made.params, made.size)

Find ==
  LET good == {p \in Tried : Reproduces(p)} IN
  /\ phase = "made"
  /\ phase' = "searched"
  /\ settings' = {p \in good : \A q \in good : Turn(p) <= Turn(q)}
  /\ UNCHANGED <<made, encoder>>

-----------------------------------------------------------------------------
(* What pack encodes with: recorded settings as the header allows, those it *)
(* tells of itself, or stronger ones.                                       *)

HeaderWindow == IF made.header = 0 THEN 15 ELSE IF made.header < 9 THEN 9 ELSE made.header

(* Mutant: what is recorded is used as it is.                               *)
AsRecorded(p) == p

Adapted(p) == [p EXCEPT !.window = IF @ < HeaderWindow THEN @ ELSE HeaderWindow]

DefaultParams == Setting(6, HeaderWindow, 8, "default")

Stronger(base) ==
  {Setting(9, base.window, m, s) : m \in {8, 9}, s \in {"default", "filtered"}} \ {base}

(* A manifest may be edited by hand: any settings that zlib accepts.        *)
Encode ==
  /\ phase = "searched"
  /\ phase' = "encoded"
  /\ \E base \in {Adapted(p) : p \in settings \cup Recorded} \cup {DefaultParams} :
       \E p \in {base} \cup Stronger(base) : encoder' = {p}
  /\ UNCHANGED <<made, settings>>

ZlibNext == Find \/ Encode

ZlibSpec == ZlibInit /\ [][ZlibNext]_zlibVars

-----------------------------------------------------------------------------
(* Properties.                                                              *)

(* The only block of the stream, and it filled the buffer of its settings.  *)
FillsBuffer ==
  made.block.last /\ ~made.block.stored /\ made.block.symbols = Capacity(made.params.mem)

(* The search leaves settings out, by the first block, by the length of the *)
(* data and by what a strategy ignores, and still finds settings for every  *)
(* stream that zlib made, with one exception: of a last block the hint      *)
(* takes it that the buffer was larger.  If it was full it drops the memory *)
(* level it was made with; and of the largest buffer, every one, so that    *)
(* the stream never has settings.                                           *)
SearchFindsSettings ==
  phase # "made" =>
    /\ settings = {} => FillsBuffer
    /\ FillsBuffer /\ made.params.mem = 9 => settings = {}

(* zlib reaches back 2^window - Margin at most.  What it encodes never      *)
(* reaches further than the stream's header lets a reader assume, although  *)
(* a header may declare 8 bits and zlib encodes with no less than 9.        *)
FitsDeclaredWindow ==
  made.header # 0 =>
    \A p \in encoder : IsValid(p) /\ 2 ^ p.window - Margin <= 2 ^ made.header

(* The inductive invariant behind the two: what is known of the stream is   *)
(* true of the settings it was made with.                                   *)
MadeFits ==
  /\ made.params \in MadeWith /\ made.size \in DataSizes
  /\ made.block \in FirstBlocks(made.params, made.size)
  /\ made.header \in {0, made.params.window} \/ (made.header = 8 /\ made.params.window = 9)

ZlibInv == MadeFits /\ settings \subseteq Tried /\ SearchFindsSettings /\ FitsDeclaredWindow
=============================================================================
