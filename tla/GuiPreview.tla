----------------------------- MODULE GuiPreview -----------------------------
(***************************************************************************)
(* The preview pane of crates/zscan-gui: Previewer of preview.rs and its   *)
(* use in App::details.  Each request decodes on a thread of its own that  *)
(* answers on a channel of its own; the UI thread draws the pane from what *)
(* arrived, while streams are selected, edited and replaced.               *)
(*                                                                         *)
(* What a stream decodes to is abstracted to the generation that gave the  *)
(* stream its entry, together with the file of its edit if that is shown.  *)
(* Textures, made once from a decoded image, are kept; everything has one. *)
(***************************************************************************)
EXTENDS Integers, FiniteSets

CONSTANTS
  Ids,         (* stream ids                                               *)
  Contents,    (* files that may replace a stream                          *)
  MaxActions,  (* bound on what the user does                              *)
  Failed,      (* an error in the place of decoded contents                *)
  Decoding,    (* drawn while there is nothing to show                     *)
  None

Key == [id : Ids, edited : Contents \cup {None}, generation : Nat]

ContentOf == [id : Ids, entry : Nat, edit : Contents \cup {None}]

ASSUME PreviewAssumption ==
  /\ None \notin Ids \cup Contents \cup Key
  /\ None \notin [key : Key, rx : Nat]
  /\ None \notin [asked : ContentOf, shows : ContentOf \cup {Failed, Decoding}]
  /\ MaxActions \in Nat

VARIABLES
  generation,  (* Session::generation                                      *)
  entry,       (* the entry of each stream: the generation it came with    *)
  edits,       (* the edit of each stream                                  *)
  selected,    (* App::selected                                            *)
  showEdit,    (* App::show_edit                                           *)
  loads,       (* decoding threads, and what they sent                     *)
  pending,     (* Previewer::pending: the key and the channel listened to  *)
  key,         (* Previewer::key                                           *)
  current,     (* Previewer::current                                       *)
  texture,     (* Previewer::texture                                       *)
  drawn,       (* history: what the pane was last to show, and what it did *)
  actions      (* how often the user acted                                 *)

session == <<generation, entry, edits>>
previewer == <<pending, key, current, texture>>
vars == <<session, selected, showEdit, loads, previewer, drawn, actions>>

(* What load decodes: the stream, or its edit.                              *)
Shown(id) == IF showEdit THEN edits[id] ELSE None

Content(id) == [id |-> id, entry |-> entry[id], edit |-> Shown(id)]

(* Mutant: the stream and its edit go by the same key.                      *)
KeyOfStream(id) == [id |-> id, edited |-> None, generation |-> generation]

KeyOf(id) == [id |-> id, edited |-> Shown(id), generation |-> generation]

Init ==
  /\ generation = 0
  /\ entry = [i \in Ids |-> 0]
  /\ edits = [i \in Ids |-> None]
  /\ selected = None
  /\ showEdit = TRUE
  /\ loads = {}
  /\ pending = None /\ key = None /\ current = None /\ texture = None
  /\ drawn = None
  /\ actions = 0

-----------------------------------------------------------------------------
(* Decoding threads.                                                        *)

Channels == {l.rx : l \in loads}

(* Mutant: all threads answer on one channel.                               *)
SharedChannel == 1

NewChannel == CHOOSE n \in 1 .. Cardinality(loads) + 1 : n \notin Channels

(* A thread sends its result, or panics and drops its end.  Nobody hears of *)
(* it when the other end is gone.                                           *)
LoadEnds ==
  /\ \E l \in loads, status \in {"Sent", "Disconnected"} :
       /\ l.status = "Running"
       /\ loads' = (loads \ {l}) \cup
            IF pending # None /\ pending.rx = l.rx THEN {[l EXCEPT !.status = status]} ELSE {}
  /\ UNCHANGED <<session, selected, showEdit, previewer, drawn, actions>>

-----------------------------------------------------------------------------
(* The UI thread.                                                           *)

(* Mutant: a thread that panicked is waited for.                            *)
PollForSent ==
  /\ pending # None
  /\ \E l \in loads :
       /\ l.rx = pending.rx /\ l.status = "Sent"
       /\ key' = pending.key
       /\ pending' = None
       /\ current' = l.content /\ texture' = None
       /\ loads' = loads \ {l}
  /\ UNCHANGED <<session, selected, showEdit, drawn, actions>>

(* Previewer::poll.  A thread that panicked leaves the texture as it was.   *)
Poll ==
  /\ pending # None
  /\ \E l \in loads :
       /\ l.rx = pending.rx /\ l.status # "Running"
       /\ key' = pending.key
       /\ pending' = None
       /\ \/ l.status = "Sent" /\ current' = l.content /\ texture' = None
          \/ l.status = "Disconnected" /\ current' = Failed /\ UNCHANGED texture
       /\ loads' = loads \ {l}
  /\ UNCHANGED <<session, selected, showEdit, drawn, actions>>

(* Previewer::request: nothing to do for what is shown or on its way; else  *)
(* the new request takes the place of the old one.                          *)
Request(id) ==
  IF key = KeyOf(id) \/ (pending # None /\ pending.key = KeyOf(id))
  THEN UNCHANGED <<pending, loads>>
  ELSE /\ pending' = [key |-> KeyOf(id), rx |-> NewChannel]
       /\ loads' = {l \in loads : l.status = "Running"}
            \cup {[rx |-> NewChannel, content |-> Content(id), status |-> "Running"]}

(* App::details: ask for the contents, and draw them once they are there;   *)
(* as an image, by way of the texture.                                      *)
Draw ==
  /\ selected # None
  /\ Request(selected)
  /\ \E shows \in {Decoding, current, texture} :
       /\ drawn' = [asked |-> Content(selected), shows |-> shows]
       /\ IF key # KeyOf(selected)
          THEN shows = Decoding /\ UNCHANGED texture
          ELSE \/ shows = current /\ UNCHANGED texture
               \/ /\ current # Failed
                  /\ texture' = IF texture = None THEN current ELSE texture
                  /\ shows = texture'
  /\ UNCHANGED <<session, selected, showEdit, key, current, actions>>

Clear == pending' = None /\ key' = None /\ current' = None /\ texture' = None

Act == actions < MaxActions /\ actions' = actions + 1

Select ==
  /\ Act
  /\ \E id \in Ids : id # selected /\ selected' = id
  /\ UNCHANGED <<session, showEdit, loads, previewer, drawn>>

ToggleEdit ==
  /\ Act
  /\ selected # None /\ edits[selected] # None
  /\ showEdit' = ~ showEdit
  /\ UNCHANGED <<session, selected, loads, previewer, drawn>>

(* Session::set_edit and revert, through App::replace_stream.               *)
Edit ==
  /\ Act
  /\ \E id \in Ids :
       \/ \E path \in Contents : edits' = [edits EXCEPT ![id] = path] /\ showEdit' = TRUE
       \/ edits[id] # None /\ edits' = [edits EXCEPT ![id] = None] /\ UNCHANGED showEdit
  /\ generation' = generation + 1
  /\ UNCHANGED <<entry, selected, loads, previewer, drawn>>

(* A job's result gave some streams, or all, new entries and edits.  The    *)
(* previewer is cleared when the job is done (App::show).                   *)
ApplyJob ==
  /\ Act
  /\ \E changed \in SUBSET Ids :
       /\ entry' = [i \in Ids |-> IF i \in changed THEN generation + 1 ELSE entry[i]]
       /\ edits' = [i \in Ids |-> IF i \in changed THEN None ELSE edits[i]]
  /\ generation' = generation + 1
  /\ Clear
  /\ UNCHANGED <<selected, showEdit, loads, drawn>>

User == Select \/ ToggleEdit \/ Edit \/ ApplyJob

(* Everything the user wanted is drawn; only redrawing is left.             *)
Next == LoadEnds \/ Poll \/ Draw \/ User

(* Threads end, and the pane is redrawn while something is loading and when *)
(* a thread wakes the UI.                                                   *)
Fairness == WF_vars(LoadEnds) /\ WF_vars(Poll) /\ WF_vars(Draw)

Spec == Init /\ [][Next]_vars /\ Fairness

-----------------------------------------------------------------------------
Load == [rx : Nat, content : ContentOf, status : {"Running", "Sent", "Disconnected"}]

(* The shape of the state; the channel listened to has a thread at its      *)
(* other end, or what it sent, and no other thread has sent to it.          *)
TypeOK ==
  /\ generation \in Nat /\ entry \in [Ids -> Nat] /\ edits \in [Ids -> Contents \cup {None}]
  /\ selected \in Ids \cup {None} /\ showEdit \in BOOLEAN
  /\ loads \subseteq Load
  /\ pending # None => pending.key \in Key /\ Cardinality({l \in loads : l.rx = pending.rx}) = 1
  /\ key # None => key \in Key

(* The pane never shows what belongs to another stream, to another edit or  *)
(* to a manifest that is gone: a stale result is dropped (preview.rs), even *)
(* when threads answer out of order, and an image is not drawn with the     *)
(* texture of the one before.                                               *)
DrawnAsAsked == drawn # None => drawn.shows \in {Decoding, Failed, drawn.asked}

Settled ==
  /\ drawn # None
  /\ drawn.asked = Content(selected)
  /\ drawn.shows \in {drawn.asked, Failed}

(* Whatever happened on the way, the pane comes to show the selected stream *)
(* once the user leaves it alone, or the error its thread ended with.       *)
ComesToShow == <>[](selected # None => Settled)

-----------------------------------------------------------------------------
(* The inductive invariant behind DrawnAsAsked.                             *)

(* What was decoded for a key is the stream or edit that the key names; the *)
(* entry, which the key does not hold, is the present one while the         *)
(* generation is.                                                           *)
Fits(k, content) ==
  /\ content.id = k.id /\ content.edit = k.edited
  /\ k.generation = generation => content.entry = entry[k.id]

(* No channel is used for two threads, and what comes on the one listened   *)
(* to was decoded for the pending key.                                      *)
OneThreadEach ==
  /\ IsFiniteSet(loads)
  /\ \A l, m \in loads : l.rx = m.rx => l = m
  /\ pending # None => \E l \in loads : l.rx = pending.rx /\ Fits(pending.key, l.content)

(* What is kept belongs to its key, and the texture to what is kept unless  *)
(* that is an error, which is drawn without one.                            *)
KeptAsKeyed ==
  /\ key # None /\ current # Failed => current \in ContentOf /\ Fits(key, current)
  /\ texture # None /\ current # Failed => texture = current

(* Generations only grow, so a key of an older one never fits again.        *)
KeysAreOld ==
  /\ pending # None => pending.key.generation <= generation
  /\ key # None => key.generation <= generation

IInv == TypeOK /\ OneThreadEach /\ KeptAsKeyed /\ KeysAreOld /\ DrawnAsAsked

-----------------------------------------------------------------------------
(* The variant behind ComesToShow.                                          *)

(* How far the previewer is from having the selected stream: it has it, is  *)
(* waiting for it, has to ask for it, or has it and will lose it to an      *)
(* answer still expected for another one.                                   *)
Distance ==
  IF selected = None THEN 0
  ELSE IF key = KeyOf(selected) THEN IF pending = None THEN 0 ELSE 3
  ELSE IF pending # None /\ pending.key = KeyOf(selected) THEN 1 ELSE 2

(* Threads that run, and threads and answers that are there.                *)
Outstanding == Cardinality(loads) + Cardinality({l \in loads : l.status = "Running"})

ToDraw == [asked |-> Content(selected), shows |-> IF key = KeyOf(selected) THEN current ELSE Decoding]

Undrawn ==
  (IF texture = None THEN 1 ELSE 0) + (IF selected # None /\ drawn = ToDraw THEN 0 ELSE 1)

Closer ==
  \/ Distance' < Distance
  \/ Distance' = Distance /\ Outstanding' < Outstanding
  \/ Distance' = Distance /\ Outstanding' = Outstanding /\ Undrawn' < Undrawn

(* Every step but the user's brings the pane closer to the selected stream: *)
(* no request is made twice, and threads that answer what nobody waits for  *)
(* any more do not keep it from getting there.                              *)
ComesCloser == [][~ User => Closer]_vars

(* As long as the pane does not show it, a thread runs, an answer is there  *)
(* to be taken, or the next redraw changes the pane or asks for the stream. *)
NeverStuck ==
  selected # None =>
    \/ Settled
    \/ \E l \in loads : l.status = "Running" \/ (pending # None /\ l.rx = pending.rx)
    \/ drawn # ToDraw
    \/ Distance = 2
=============================================================================
