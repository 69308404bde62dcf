-------------------------- MODULE GuiPreviewProofs --------------------------
(***************************************************************************)
(* Proofs about GuiPreview, for any streams, replacement files and number   *)
(* of actions.                                                              *)
(***************************************************************************)
EXTENDS GuiPreview, FiniteSetTheorems, TLAPS

(* A new channel is one that no thread has.                                 *)
LEMMA ChannelIsNew ==
  ASSUME IsFiniteSet(loads)
  PROVE  NewChannel \in Nat /\ NewChannel \notin Channels
<1> DEFINE n == Cardinality(loads)
           f == [l \in loads |-> l.rx]
<1>1. n \in Nat
  BY FS_CardinalityType
<1>2. f \in Surjection(loads, Channels)
  BY DEF Channels, Surjection
<1>3. IsFiniteSet(Channels) /\ Cardinality(Channels) <= n
  BY <1>2, FS_Surjection
<1>4. Cardinality(1 .. n + 1) = n + 1
  BY <1>1, FS_Interval
<1>5. ~ (1 .. n + 1 \subseteq Channels)
  <2>1. Cardinality(Channels) \in Nat
    BY <1>3, FS_CardinalityType
  <2>2. ASSUME 1 .. n + 1 \in SUBSET Channels
        PROVE  Cardinality(1 .. n + 1) <= Cardinality(Channels)
    BY <1>3, <2>2, FS_Subset
  <2>3. QED BY <1>1, <1>3, <1>4, <2>1, <2>2
<1>6. \E c \in 1 .. n + 1 : c \notin Channels
  BY <1>5
<1>7. NewChannel \in 1 .. n + 1 /\ NewChannel \notin Channels
  BY <1>6 DEF NewChannel
<1>8. QED BY <1>1, <1>7

(* What a thread will decode for the key of a stream fits that key.         *)
LEMMA ContentFits ==
  ASSUME TypeOK, NEW id \in Ids, id \in Ids => edits[id] \in Contents \cup {None}
  PROVE  /\ Content(id) \in ContentOf /\ KeyOf(id) \in Key
         /\ Fits(KeyOf(id), Content(id))
BY DEF TypeOK, Content, KeyOf, Shown, ContentOf, Key, Fits

(* One thread for the channel listened to, in the words of TypeOK.          *)
LEMMA OneListened ==
  ASSUME NEW L, NEW c, \A l, m \in L : l.rx = m.rx => l = m, \E l \in L : l.rx = c
  PROVE  Cardinality({l \in L : l.rx = c}) = 1
<1>1. PICK l \in L : l.rx = c
  OBVIOUS
<1>2. {m \in L : m.rx = c} = {l}
  BY <1>1
<1>3. QED BY <1>2, FS_Singleton

(* A step that leaves the generation and the entries alone lets every key   *)
(* fit what it fitted.                                                      *)
LEMMA FitsKept ==
  ASSUME UNCHANGED <<generation, entry>>, NEW k, NEW content
  PROVE  Fits(k, content)' <=> Fits(k, content)
BY DEF Fits

(* What is pending or kept stays so while nothing it depends on changes.    *)
LEMMA KeptIfUntouched ==
  ASSUME IInv, UNCHANGED <<generation, entry, key, current, texture, drawn>>
  PROVE  KeptAsKeyed' /\ DrawnAsAsked' /\ (key # None => key.generation <= generation)'
<1>1. \A k, content : Fits(k, content)' <=> Fits(k, content)
  BY DEF Fits
<1>2. KeptAsKeyed'
  BY <1>1 DEF IInv, KeptAsKeyed
<1>3. QED BY <1>2 DEF IInv, KeysAreOld, DrawnAsAsked

LEMMA LoadEndsKeeps ==
  ASSUME IInv, LoadEnds
  PROVE  IInv'
<1>1. PICK l \in loads, status \in {"Sent", "Disconnected"} :
        loads' = (loads \ {l}) \cup
          IF pending # None /\ pending.rx = l.rx THEN {[l EXCEPT !.status = status]} ELSE {}
  BY DEF LoadEnds
<1>2. PICK m \in Load :
        /\ m.rx = l.rx /\ m.content = l.content
        /\ loads' = (loads \ {l}) \cup IF pending # None /\ pending.rx = l.rx THEN {m} ELSE {}
  <2>1. l \in Load
    BY DEF IInv, TypeOK
  <2>2. [l EXCEPT !.status = status] \in Load
    BY <2>1 DEF Load
  <2>3. /\ [l EXCEPT !.status = status].rx = l.rx
        /\ [l EXCEPT !.status = status].content = l.content
    BY <2>1 DEF Load
  <2>4. QED BY <1>1, <2>2, <2>3
<1>3. UNCHANGED <<session, selected, showEdit, previewer, drawn>>
  BY DEF LoadEnds
<1>4. OneThreadEach'
  <2>1. \A k, content : Fits(k, content)' <=> Fits(k, content)
    BY <1>3 DEF Fits, session
  <2>2. IsFiniteSet(loads')
    <3>1. IsFiniteSet((loads \ {l}) \cup {m})
      BY FS_RemoveElement, FS_AddElement DEF IInv, OneThreadEach
    <3>2. QED BY <1>2, <3>1, FS_Subset
  <2>3. \A k, n \in loads' : k.rx = n.rx => k = n
    BY <1>2 DEF IInv, OneThreadEach
  <2>4. pending # None => \E k \in loads' : k.rx = pending.rx /\ Fits(pending.key, k.content)
    BY <1>2 DEF IInv, OneThreadEach
  <2>5. QED BY <1>3, <2>1, <2>2, <2>3, <2>4 DEF OneThreadEach, previewer
<1>5. TypeOK'
  <2>1. loads' \subseteq Load
    BY <1>2 DEF IInv, TypeOK
  <2>2. pending' # None => Cardinality({k \in loads' : k.rx = pending'.rx}) = 1
    BY <1>4, OneListened DEF OneThreadEach
  <2>3. QED BY <1>3, <2>1, <2>2 DEF IInv, TypeOK, session, previewer
<1>6. KeptAsKeyed' /\ DrawnAsAsked' /\ KeysAreOld'
  BY <1>3, KeptIfUntouched DEF IInv, KeysAreOld, session, previewer
<1>7. QED BY <1>4, <1>5, <1>6 DEF IInv

(* The one thread on the channel listened to decoded for the pending key.   *)
LEMMA PollKeeps ==
  ASSUME IInv, Poll
  PROVE  IInv'
<1>1. PICK l \in loads :
        /\ l.rx = pending.rx /\ l.status # "Running"
        /\ \/ l.status = "Sent" /\ current' = l.content /\ texture' = None
           \/ l.status = "Disconnected" /\ current' = Failed /\ UNCHANGED texture
        /\ loads' = loads \ {l}
  BY DEF Poll
<1>2. /\ pending # None /\ key' = pending.key /\ pending' = None
      /\ UNCHANGED <<session, selected, showEdit, drawn>>
  BY DEF Poll
<1>3. Fits(pending.key, l.content) /\ l.content \in ContentOf /\ pending.key \in Key
  BY <1>1, <1>2 DEF IInv, OneThreadEach, TypeOK, Load
<1>4. OneThreadEach'
  BY <1>1, <1>2, FS_RemoveElement DEF IInv, OneThreadEach
<1>5. TypeOK'
  BY <1>1, <1>2, <1>3 DEF IInv, TypeOK, session
<1>6. KeptAsKeyed'
  <2>1. \A k, content : Fits(k, content)' <=> Fits(k, content)
    BY <1>2 DEF Fits, session
  <2>2. QED BY <1>1, <1>2, <1>3, <2>1 DEF IInv, KeptAsKeyed
<1>7. KeysAreOld' /\ DrawnAsAsked'
  BY <1>2 DEF IInv, KeysAreOld, DrawnAsAsked, session
<1>8. QED BY <1>4, <1>5, <1>6, <1>7 DEF IInv

(* A request has a new channel and a thread of its own.                     *)
LEMMA RequestKeeps ==
  ASSUME IInv, NEW id \in Ids, Request(id), UNCHANGED <<generation, entry>>
  PROVE  /\ OneThreadEach'
         /\ loads' \subseteq Load
         /\ pending' # None => pending'.key \in Key /\ pending'.key.generation <= generation
<1>1. \A k, content : Fits(k, content)' <=> Fits(k, content)
  BY DEF Fits
<1>2. CASE UNCHANGED <<pending, loads>>
  BY <1>1, <1>2 DEF IInv, OneThreadEach, TypeOK, KeysAreOld
<1>3. CASE /\ pending' = [key |-> KeyOf(id), rx |-> NewChannel]
           /\ loads' = {l \in loads : l.status = "Running"}
                \cup {[rx |-> NewChannel, content |-> Content(id), status |-> "Running"]}
  <2>1. NewChannel \in Nat /\ NewChannel \notin Channels
    BY ChannelIsNew DEF IInv, OneThreadEach
  <2>2. Content(id) \in ContentOf /\ KeyOf(id) \in Key /\ Fits(KeyOf(id), Content(id))
    BY ContentFits DEF IInv, TypeOK
  <2>3. IsFiniteSet(loads')
    <3>1. IsFiniteSet({l \in loads : l.status = "Running"})
      BY FS_Subset DEF IInv, OneThreadEach
    <3>2. QED BY <1>3, <3>1, FS_AddElement
  <2>4. \A l, m \in loads' : l.rx = m.rx => l = m
    BY <1>3, <2>1 DEF IInv, OneThreadEach, Channels
  <2>5. \E l \in loads' : l.rx = pending'.rx /\ Fits(pending'.key, l.content)
    <3>1. pending'.rx = NewChannel /\ pending'.key = KeyOf(id)
      BY <1>3
    <3> DEFINE n == [rx |-> NewChannel, content |-> Content(id), status |-> "Running"]
    <3>2. n \in loads' /\ n.rx = NewChannel /\ n.content = Content(id)
      BY <1>3
    <3> HIDE DEF n
    <3>3. QED BY <2>2, <3>1, <3>2
  <2>6. KeyOf(id).generation <= generation
    BY DEF KeyOf, IInv, TypeOK
  <2>7. QED BY <1>1, <1>3, <2>1, <2>2, <2>3, <2>4, <2>5, <2>6 DEF OneThreadEach, IInv, TypeOK, Load
<1>4. QED BY <1>2, <1>3 DEF Request

(* Under the key of what was asked for lies what was asked for, or an       *)
(* error; a texture is drawn only when there is no error.                   *)
LEMMA DrawKeeps ==
  ASSUME IInv, Draw
  PROVE  IInv'
<1>1. selected \in Ids /\ Request(selected)
  BY DEF Draw, IInv, TypeOK
<1>2. UNCHANGED <<session, selected, showEdit, key, current>>
  BY DEF Draw
<1>3. PICK shows \in {Decoding, current, texture} :
        /\ drawn' = [asked |-> Content(selected), shows |-> shows]
        /\ IF key # KeyOf(selected)
           THEN shows = Decoding /\ UNCHANGED texture
           ELSE \/ shows = current /\ UNCHANGED texture
                \/ /\ current # Failed
                   /\ texture' = IF texture = None THEN current ELSE texture
                   /\ shows = texture'
  BY DEF Draw
<1>4. /\ OneThreadEach'
      /\ loads' \subseteq Load
      /\ pending' # None => pending'.key \in Key /\ pending'.key.generation <= generation
  BY <1>1, <1>2, RequestKeeps DEF session
<1>5. TypeOK'
  <2>1. pending' # None => Cardinality({k \in loads' : k.rx = pending'.rx}) = 1
    BY <1>4, OneListened DEF OneThreadEach
  <2>2. QED BY <1>2, <1>4, <2>1 DEF IInv, TypeOK, session
<1>6. KeptAsKeyed'
  <2>1. \A k, content : Fits(k, content)' <=> Fits(k, content)
    BY <1>2 DEF Fits, session
  <2>2. QED BY <1>2, <1>3, <2>1 DEF IInv, KeptAsKeyed
<1>7. KeysAreOld'
  BY <1>2, <1>4 DEF IInv, KeysAreOld, session
<1>8. DrawnAsAsked'
  <2>1. CASE key # KeyOf(selected)
    BY <1>3, <2>1 DEF DrawnAsAsked
  <2>2. CASE key = KeyOf(selected) /\ key # None /\ current # Failed
    <3>1. current \in ContentOf /\ Fits(KeyOf(selected), current)
      BY <2>2 DEF IInv, KeptAsKeyed
    <3>2. current = Content(selected)
      BY <3>1 DEF Fits, KeyOf, Content, ContentOf
    <3>3. shows = current
      BY <1>3, <2>2 DEF IInv, KeptAsKeyed
    <3>4. QED BY <1>3, <3>2, <3>3 DEF DrawnAsAsked
  <2>3. CASE key = KeyOf(selected) /\ current = Failed
    BY <1>3, <2>3 DEF DrawnAsAsked
  <2>4. KeyOf(selected) # None
    BY PreviewAssumption, ContentFits, <1>1 DEF Key, IInv, TypeOK
  <2>5. QED BY <2>1, <2>2, <2>3, <2>4
<1>9. QED BY <1>4, <1>5, <1>6, <1>7, <1>8 DEF IInv

(* Selecting a stream and choosing what to show of it touch no key.         *)
LEMMA SelectKeeps ==
  ASSUME IInv, Select \/ ToggleEdit
  PROVE  IInv'
<1>1. UNCHANGED <<session, loads, previewer, drawn>>
  BY DEF Select, ToggleEdit
<1>2. \A k, content : Fits(k, content)' <=> Fits(k, content)
  BY <1>1 DEF Fits, session
<1>3. OneThreadEach'
  BY <1>1, <1>2 DEF IInv, OneThreadEach, previewer
<1>4. TypeOK'
  <2>1. selected' \in Ids \cup {None} /\ showEdit' \in BOOLEAN
    BY DEF Select, ToggleEdit, IInv, TypeOK
  <2>2. QED BY <1>1, <2>1 DEF IInv, TypeOK, session, previewer
<1>5. KeptAsKeyed' /\ DrawnAsAsked' /\ KeysAreOld'
  BY <1>1, KeptIfUntouched DEF IInv, KeysAreOld, session, previewer
<1>6. QED BY <1>3, <1>4, <1>5 DEF IInv

(* An edit begins a new generation: what keys older ones named is not asked *)
(* of the entries any more.                                                 *)
LEMMA EditKeeps ==
  ASSUME IInv, Edit
  PROVE  IInv'
<1>1. generation' = generation + 1 /\ UNCHANGED <<entry, selected, loads, previewer, drawn>>
  BY DEF Edit
<1>2. edits' \in [Ids -> Contents \cup {None}] /\ showEdit' \in BOOLEAN
  BY DEF Edit, IInv, TypeOK
<1>3. ASSUME NEW k \in Key, NEW content, Fits(k, content), k.generation <= generation
      PROVE  Fits(k, content)'
  BY <1>1, <1>3 DEF Fits, Key, IInv, TypeOK
<1>4. TypeOK'
  BY <1>1, <1>2 DEF IInv, TypeOK, previewer
<1>5. OneThreadEach'
  BY <1>1, <1>3 DEF IInv, TypeOK, OneThreadEach, KeysAreOld, previewer
<1>6. KeptAsKeyed'
  BY <1>1, <1>3 DEF IInv, TypeOK, KeptAsKeyed, KeysAreOld, previewer
<1>7. KeysAreOld' /\ DrawnAsAsked'
  BY <1>1 DEF IInv, TypeOK, Key, KeysAreOld, DrawnAsAsked, previewer
<1>8. QED BY <1>4, <1>5, <1>6, <1>7 DEF IInv

(* A job's result clears the previewer; threads that still run have nobody  *)
(* to answer to.                                                            *)
LEMMA ApplyJobKeeps ==
  ASSUME IInv, ApplyJob
  PROVE  IInv'
<1>1. /\ generation' = generation + 1 /\ UNCHANGED <<selected, showEdit, loads, drawn>>
      /\ pending' = None /\ key' = None /\ texture' = None
  BY DEF ApplyJob, Clear
<1>2. edits' \in [Ids -> Contents \cup {None}] /\ entry' \in [Ids -> Nat]
  BY DEF ApplyJob, IInv, TypeOK
<1>3. TypeOK'
  BY <1>1, <1>2 DEF IInv, TypeOK
<1>4. OneThreadEach' /\ KeptAsKeyed' /\ KeysAreOld' /\ DrawnAsAsked'
  BY <1>1 DEF IInv, OneThreadEach, KeptAsKeyed, KeysAreOld, DrawnAsAsked
<1>5. QED BY <1>3, <1>4 DEF IInv

-----------------------------------------------------------------------------
(* However threads, redrawing and the user's actions interleave, a channel  *)
(* belongs to one thread, and what is pending, kept or drawn belongs to the *)
(* key it goes by (Previewer::request and poll).                            *)
THEOREM PreviewInvariant == Spec => []IInv
<1>1. Init => IInv
  <2> SUFFICES ASSUME Init PROVE IInv
    OBVIOUS
  <2>1. TypeOK
    BY DEF Init, TypeOK
  <2>2. OneThreadEach
    BY FS_EmptySet DEF Init, OneThreadEach
  <2>3. KeptAsKeyed /\ KeysAreOld /\ DrawnAsAsked
    BY DEF Init, KeptAsKeyed, KeysAreOld, DrawnAsAsked
  <2>4. QED BY <2>1, <2>2, <2>3 DEF IInv
<1>2. ASSUME IInv, [Next]_vars
      PROVE  IInv'
  <2>1. CASE LoadEnds
    BY <2>1, <1>2, LoadEndsKeeps
  <2>2. CASE Poll
    BY <2>2, <1>2, PollKeeps
  <2>3. CASE Draw
    BY <2>3, <1>2, DrawKeeps
  <2>4. CASE Select \/ ToggleEdit
    BY <2>4, <1>2, SelectKeeps
  <2>5. CASE Edit
    BY <2>5, <1>2, EditKeeps
  <2>6. CASE ApplyJob
    BY <2>6, <1>2, ApplyJobKeeps
  <2>7. CASE UNCHANGED vars
    <3>1. UNCHANGED <<generation, entry, edits, selected, showEdit, loads>>
      BY <2>7 DEF vars, session
    <3>2. UNCHANGED <<pending, key, current, texture, drawn>>
      BY <2>7 DEF vars, previewer
    <3>3. UNCHANGED TypeOK /\ UNCHANGED OneThreadEach /\ UNCHANGED KeptAsKeyed
      BY <3>1, <3>2 DEF TypeOK, OneThreadEach, KeptAsKeyed, Fits
    <3>4. UNCHANGED KeysAreOld /\ UNCHANGED DrawnAsAsked
      BY <3>1, <3>2 DEF KeysAreOld, DrawnAsAsked
    <3>5. QED BY <1>2, <3>3, <3>4 DEF IInv
  <2>8. QED BY <1>2, <2>1, <2>2, <2>3, <2>4, <2>5, <2>6, <2>7 DEF Next, User
<1>3. QED BY <1>1, <1>2, PTL DEF Spec

(* The pane never shows another stream, another edit or an entry that is    *)
(* gone, whatever order threads end in (Previewer::poll, App::details).     *)
THEOREM PreviewDrawnAsAsked == Spec => []DrawnAsAsked
<1>1. IInv => DrawnAsAsked
  BY DEF IInv
<1>2. QED BY <1>1, PreviewInvariant, PTL

-----------------------------------------------------------------------------
(* The pane comes closer to the selected stream.                            *)

(* The threads and answers that are there can be counted.                   *)
LEMMA OutstandingCounted ==
  ASSUME IInv
  PROVE  /\ IsFiniteSet(loads) /\ IsFiniteSet({l \in loads : l.status = "Running"})
         /\ Cardinality(loads) \in Nat /\ Cardinality({l \in loads : l.status = "Running"}) \in Nat
<1>1. IsFiniteSet(loads)
  BY DEF IInv, OneThreadEach
<1>2. IsFiniteSet({l \in loads : l.status = "Running"})
  BY <1>1, FS_Subset
<1>3. QED BY <1>1, <1>2, FS_CardinalityType

(* A thread ends once, and then no longer runs.                             *)
LEMMA LoadEndsCloser ==
  ASSUME IInv, LoadEnds
  PROVE  Closer
<1> DEFINE R == {l \in loads : l.status = "Running"}
<1>1. PICK l \in loads, status \in {"Sent", "Disconnected"} :
        /\ l.status = "Running"
        /\ loads' = (loads \ {l}) \cup
             IF pending # None /\ pending.rx = l.rx THEN {[l EXCEPT !.status = status]} ELSE {}
  BY DEF LoadEnds
<1>2. [l EXCEPT !.status = status].status = status
  BY <1>1 DEF IInv, TypeOK, Load
<1>3. R' = R \ {l} /\ l \in R
  BY <1>1, <1>2
<1>4. PICK m : loads' \subseteq (loads \ {l}) \cup {m}
  BY <1>1
<1>5. Cardinality(loads') <= Cardinality(loads) /\ Cardinality(loads') \in Nat
  <2>1. Cardinality(loads \ {l}) = Cardinality(loads) - 1 /\ IsFiniteSet(loads \ {l})
    BY <1>1, OutstandingCounted, FS_RemoveElement
  <2>2. /\ IsFiniteSet((loads \ {l}) \cup {m})
        /\ \/ Cardinality((loads \ {l}) \cup {m}) = Cardinality(loads \ {l})
           \/ Cardinality((loads \ {l}) \cup {m}) = Cardinality(loads \ {l}) + 1
    BY <2>1, FS_AddElement
  <2>3. IsFiniteSet(loads') /\ Cardinality(loads') <= Cardinality((loads \ {l}) \cup {m})
    BY <1>4, <2>2, FS_Subset
  <2>4. Cardinality(loads') \in Nat
    BY <2>3, FS_CardinalityType
  <2>5. QED BY <2>1, <2>2, <2>3, <2>4, OutstandingCounted
<1>6. Cardinality(R') = Cardinality(R) - 1
  BY <1>3, OutstandingCounted, FS_RemoveElement
<1>7. Outstanding' < Outstanding
  <2> HIDE DEF R
  <2>1. Cardinality(R) \in Nat
    BY OutstandingCounted DEF R
  <2>2. QED BY <1>5, <1>6, <2>1, OutstandingCounted DEF Outstanding, R
<1>8. Distance' = Distance
  BY DEF LoadEnds, Distance, KeyOf, Shown, session, previewer
<1>9. QED BY <1>7, <1>8 DEF Closer

(* An answer is taken once; if it is for another stream than the selected   *)
(* one, there is none left that is.                                         *)
LEMMA PollCloser ==
  ASSUME IInv, Poll
  PROVE  Closer
<1> DEFINE R == {l \in loads : l.status = "Running"}
<1>1. PICK l \in loads : l.status # "Running" /\ loads' = loads \ {l}
  BY DEF Poll
<1>2. /\ pending # None /\ pending' = None /\ key' = pending.key
      /\ UNCHANGED <<session, selected, showEdit>>
  BY DEF Poll
<1>3. R' = R
  BY <1>1
<1>4. Cardinality(loads') = Cardinality(loads) - 1
  BY <1>1, OutstandingCounted, FS_RemoveElement
<1>5. Outstanding' < Outstanding
  <2> HIDE DEF R
  <2>1. Cardinality(R') = Cardinality(R) /\ Cardinality(R) \in Nat
    BY <1>3, OutstandingCounted DEF R
  <2>2. QED BY <1>4, <2>1, OutstandingCounted DEF Outstanding, R
<1>6. KeyOf(selected)' = KeyOf(selected)
  BY <1>2 DEF KeyOf, Shown, session
<1>7. Distance' < Distance \/ Distance' = Distance
  BY <1>2, <1>6 DEF Distance
<1>8. QED BY <1>5, <1>7 DEF Closer

(* A redraw asks for the stream or draws it.                                *)
LEMMA DrawCloser ==
  ASSUME IInv, Draw
  PROVE  Closer \/ UNCHANGED vars
<1>1. selected \in Ids /\ selected # None /\ Request(selected)
  BY DEF Draw, IInv, TypeOK
<1>2. UNCHANGED <<generation, entry, edits, selected, showEdit, key, current, actions>>
  BY DEF Draw, session
<1>3. /\ KeyOf(selected)' = KeyOf(selected) /\ Content(selected)' = Content(selected)
      /\ ToDraw' = ToDraw
  BY <1>2 DEF KeyOf, Content, Shown, ToDraw
<1>4. CASE ~ (key = KeyOf(selected) \/ (pending # None /\ pending.key = KeyOf(selected)))
  <2>1. pending' = [key |-> KeyOf(selected), rx |-> NewChannel]
    BY <1>1, <1>4 DEF Request
  <2>2. NewChannel \in Nat /\ KeyOf(selected) \in Key
    BY <1>1, ChannelIsNew, ContentFits DEF IInv, OneThreadEach, TypeOK, KeyOf, Shown, Key
  <2>3. pending' # None /\ pending'.key = KeyOf(selected)
    BY <2>1, <2>2, PreviewAssumption
  <2>4. Distance' = 1 /\ Distance = 2
    BY <1>1, <1>2, <1>3, <1>4, <2>3 DEF Distance
  <2>5. QED BY <2>4 DEF Closer
<1>5. CASE key = KeyOf(selected) \/ (pending # None /\ pending.key = KeyOf(selected))
  <2>1. UNCHANGED <<pending, loads>>
    BY <1>1, <1>5 DEF Request
  <2>2. Distance' = Distance /\ Outstanding' = Outstanding
    BY <1>2, <1>3, <2>1 DEF Distance, Outstanding
  <2>3. drawn' = ToDraw /\ (texture' # texture => texture = None /\ texture' # None)
    <3>1. PICK shows \in {Decoding, current, texture} :
            /\ drawn' = [asked |-> Content(selected), shows |-> shows]
            /\ IF key # KeyOf(selected)
               THEN shows = Decoding /\ UNCHANGED texture
               ELSE \/ shows = current /\ UNCHANGED texture
                    \/ /\ current # Failed
                       /\ texture' = IF texture = None THEN current ELSE texture
                       /\ shows = texture'
      BY DEF Draw
    <3>2. key = KeyOf(selected) /\ current # Failed /\ texture # None => texture = current
      BY DEF IInv, KeptAsKeyed
    <3>3. shows = IF key = KeyOf(selected) THEN current ELSE Decoding
      BY <3>1, <3>2
    <3>4. texture' # texture => texture = None /\ texture' # None
      BY <3>1
    <3>5. QED BY <3>1, <3>3, <3>4 DEF ToDraw
  <2>4. CASE drawn = ToDraw /\ texture' = texture
    BY <1>2, <2>1, <2>3, <2>4 DEF vars, session, previewer
  <2>5. CASE drawn # ToDraw \/ texture' # texture
    <3>1. drawn' = ToDraw'
      BY <1>3, <2>3
    <3>2. Undrawn' < Undrawn
      BY <1>1, <1>2, <2>3, <2>5, <3>1 DEF Undrawn
    <3>3. QED BY <2>2, <3>2 DEF Closer
  <2>6. QED BY <2>4, <2>5
<1>6. QED BY <1>4, <1>5

(* While the user leaves it alone each step lowers three natural numbers in *)
(* their order (Previewer::request and poll, App::details): threads ending  *)
(* and redraws in any order cannot go on without the pane getting there.    *)
THEOREM PreviewComesCloser == Spec => [](Distance \in Nat /\ Outstanding \in Nat /\ Undrawn \in Nat)
                                       /\ ComesCloser
<1>1. IInv => Distance \in Nat /\ Outstanding \in Nat /\ Undrawn \in Nat
  BY OutstandingCounted DEF Distance, Outstanding, Undrawn
<1>2. IInv /\ [Next]_vars => [~ User => Closer]_vars
  BY LoadEndsCloser, PollCloser, DrawCloser DEF Next
<1>3. QED BY <1>1, <1>2, PreviewInvariant, PTL DEF Spec, ComesCloser

(* And it cannot stop before: until the pane shows the selected stream, or  *)
(* the error its thread ended with, there is something to wait for that     *)
(* will come, or a redraw that does something.                              *)
THEOREM PreviewNeverStuck == Spec => []NeverStuck
<1>1. IInv => NeverStuck
  <2> SUFFICES ASSUME IInv, selected # None, drawn = ToDraw, Distance # 2,
                      ~ \E l \in loads : pending # None /\ l.rx = pending.rx
               PROVE  Settled
    BY DEF NeverStuck
  <2>1. pending = None
    BY DEF IInv, OneThreadEach
  <2>2. key = KeyOf(selected)
    BY <2>1 DEF Distance
  <2>3. selected \in Ids /\ Content(selected) \in ContentOf /\ KeyOf(selected) \in Key
    BY ContentFits DEF IInv, TypeOK
  <2>4. key # None
    BY <2>2, <2>3, PreviewAssumption
  <2>5. current = Failed \/ (current \in ContentOf /\ Fits(KeyOf(selected), current))
    BY <2>2, <2>4 DEF IInv, KeptAsKeyed
  <2>6. current \in {Failed, Content(selected)}
    BY <2>3, <2>5 DEF Fits, KeyOf, Content, ContentOf
  <2>7. QED BY <2>2, <2>3, <2>6, PreviewAssumption DEF Settled, ToDraw
<1>2. QED BY <1>1, PreviewInvariant, PTL
=============================================================================
