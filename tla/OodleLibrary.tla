---------------------------- MODULE OodleLibrary ----------------------------
(***************************************************************************)
(* The user's Oodle library (plugins.rs, codecs/oodle.rs): threads that     *)
(* decode ask for the codec of the configured path, which the front end may *)
(* change at any moment (App::apply_oodle_dll, App::load_settings,          *)
(* --oodle-dll).  A library is loaded on first use, kept for the life of    *)
(* the process, and may fail to load.                                       *)
(*                                                                         *)
(* A thread that panics with the lock (the library's own initialisation     *)
(* runs there) lets go of it and leaves it poisoned, which no one minds.    *)
(***************************************************************************)
EXTENDS Naturals, Sequences

CONSTANTS
  Threads,
  Paths,      (* the files that may be configured                           *)
  Environment,(* what ZSCAN_OODLE_DLL says, or NoPath                       *)
  NoPath, Nobody,
  MaxUses,    (* bound: uses of all threads                                 *)
  MaxSets     (* bound: changes of the configured path                      *)

ASSUME OodleAssumption == Nobody \notin Threads

VARIABLES
  configured, (* OODLE_DLL: the path set, or NoPath                         *)
  loaded,     (* LOADED: the paths of the libraries, as they came           *)
  lock,       (* who holds LOADED's lock: a thread, or Nobody               *)
  use,        (* thread |-> what its use of the codec has come to           *)
  uses, sets  (* how many there were                                        *)

oodleVars == <<configured, loaded, lock, use, uses, sets>>

(* at: where the use is; path: what it looks for; seen: the paths that were *)
(* in force since it began.                                                 *)
Idle == [at |-> "idle", path |-> NoPath, seen |-> {}]

DllPath == IF configured # NoPath THEN configured ELSE Environment

OodleInit ==
  /\ configured = NoPath /\ loaded = <<>>
  /\ lock = Nobody
  /\ use = [t \in Threads |-> Idle]
  /\ uses = 0 /\ sets = 0

InUse(t) == use[t].at \in {"asked", "inside", "loading"}

(* set_oodle_dll; with None the environment counts again.                   *)
SetDll ==
  /\ sets < MaxSets /\ sets' = sets + 1
  /\ \E p \in Paths \cup {NoPath} :
       LET now == IF p # NoPath THEN p ELSE Environment IN
       /\ configured' = p
       /\ use' = [t \in Threads |-> IF InUse(t) THEN [use[t] EXCEPT !.seen = @ \cup {now}] ELSE use[t]]
  /\ UNCHANGED <<loaded, lock, uses>>

(* codec(), up to the lock: without a path there is nothing to load.        *)
Ask(t) ==
  /\ use[t].at = "idle"
  /\ uses < MaxUses /\ uses' = uses + 1
  /\ use' = [use EXCEPT ![t] = [at |-> IF DllPath = NoPath THEN "unavailable" ELSE "asked",
                                path |-> DllPath, seen |-> {DllPath}]]
  /\ UNCHANGED <<configured, loaded, lock, sets>>

Enter(t) ==
  /\ use[t].at = "asked" /\ lock = Nobody
  /\ lock' = t
  /\ use' = [use EXCEPT ![t].at = "inside"]
  /\ UNCHANGED <<configured, loaded, uses, sets>>

IsLoaded(path) == \E k \in DOMAIN loaded : loaded[k] = path

(* Mutant: one library is enough.                                           *)
LookUpAny(t) ==
  /\ use[t].at = "inside"
  /\ IF loaded # <<>>
     THEN lock' = Nobody /\ use' = [use EXCEPT ![t].at = "has", ![t].path = loaded[1]]
     ELSE lock' = lock /\ use' = [use EXCEPT ![t].at = "loading"]
  /\ UNCHANGED <<configured, loaded, uses, sets>>

(* Mutant: the lock is let go while the library is loaded.                  *)
LookUpThenLetGo(t) ==
  /\ use[t].at = "inside"
  /\ lock' = Nobody
  /\ use' = [use EXCEPT ![t].at = IF IsLoaded(use[t].path) THEN "has" ELSE "loading"]
  /\ UNCHANGED <<configured, loaded, uses, sets>>

LookUp(t) ==
  /\ use[t].at = "inside"
  /\ IF IsLoaded(use[t].path)
     THEN lock' = Nobody /\ use' = [use EXCEPT ![t].at = "has"]
     ELSE lock' = lock /\ use' = [use EXCEPT ![t].at = "loading"]
  /\ UNCHANGED <<configured, loaded, uses, sets>>

(* load: the library comes, cannot be loaded, or panics.                    *)
Load(t) ==
  /\ use[t].at = "loading"
  /\ lock' = Nobody
  /\ \E outcome \in {"has", "failed", "panicked"} :
       /\ loaded' = IF outcome = "has" THEN Append(loaded, use[t].path) ELSE loaded
       /\ use' = [use EXCEPT ![t].at = outcome]
  /\ UNCHANGED <<configured, uses, sets>>

(* The decode with the codec is over; a thread that panicked is.            *)
Return(t) ==
  /\ use[t].at \in {"has", "failed", "unavailable"}
  /\ use' = [use EXCEPT ![t] = Idle]
  /\ UNCHANGED <<configured, loaded, lock, uses, sets>>

OodleNext == SetDll \/ \E t \in Threads : Ask(t) \/ Enter(t) \/ LookUp(t) \/ Load(t) \/ Return(t)

OodleSpec == OodleInit /\ [][OodleNext]_oodleVars

-----------------------------------------------------------------------------
(* Properties.                                                              *)

(* However many threads meet at the first use, each library is loaded once: *)
(* a loaded library is leaked on purpose, and its initialisation runs.      *)
LoadedOnce == \A j, k \in DOMAIN loaded : loaded[j] = loaded[k] => j = k

(* A use works with a library that was the configured one at some moment    *)
(* since it began, never with one from before; it is told that there is     *)
(* none only if none was configured then.                                   *)
UsesWhatIsConfigured ==
  \A t \in Threads :
    /\ use[t].at = "has" => use[t].path \in use[t].seen /\ IsLoaded(use[t].path)
    /\ use[t].at = "unavailable" => NoPath \in use[t].seen

-----------------------------------------------------------------------------
(* The inductive invariant behind the two.                                  *)

AnyPath == Paths \cup {Environment, NoPath}

Stages == {"idle", "asked", "unavailable", "inside", "loading", "has", "failed", "panicked"}

OodleTypes ==
  /\ configured \in Paths \cup {NoPath}
  /\ loaded \in Seq(AnyPath)
  /\ lock \in Threads \cup {Nobody}
  /\ use \in [Threads -> [at : Stages, path : AnyPath, seen : SUBSET AnyPath]]

(* Only the thread that holds the lock looks at the table or loads.         *)
OneInside == \A t \in Threads : use[t].at \in {"inside", "loading"} => lock = t

(* What a thread found out holds until it uses it: nobody else can load the *)
(* library it found missing, and none is ever taken out.                    *)
LookUpsHold ==
  \A t \in Threads :
    /\ use[t].at = "loading" => ~ IsLoaded(use[t].path)
    /\ use[t].at \in {"asked", "inside", "loading", "has"} => use[t].path \in use[t].seen

OodleInv == OodleTypes /\ OneInside /\ LookUpsHold /\ LoadedOnce /\ UsesWhatIsConfigured
=============================================================================
