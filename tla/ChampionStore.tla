--------------------------- MODULE ChampionStore ---------------------------
(***************************************************************************)
(* learning/lifecycle.py, ChampionStore: the append-only champion history  *)
(* and the file that points to the current version.  activate writes the   *)
(* history and then the pointer, and a process that dies leaves either of  *)
(* them cut.  A ChampionRecord is its version and its parent; the          *)
(* promotion decision activate asks for is a parameter.                    *)
(***************************************************************************)
EXTENDS Naturals, Sequences

CONSTANTS Versions,     \* versions that may be activated
          Base,         \* the version in use before the store
          NoVersion,
          MaxChampions, \* bound: lines of the history
          MaxDeaths     \* bound: processes that die in activate

ASSUME ChampionAssumption ==
  /\ {MaxChampions, MaxDeaths} \subseteq Nat
  /\ NoVersion \notin Versions \cup {Base}

VARIABLES
  history,    \* the lines of the history: [version, parent]
  torn,       \* its last line is cut
  pointer,    \* the pointer's content, or NoVersion
  pointing,   \* activate has written the line and not the pointer
  deaths      \* processes that died in activate so far

championVars == <<history, torn, pointer, pointing, deaths>>

ChampionInit ==
  history = <<>> /\ torn = FALSE /\ pointer = NoVersion /\ pointing = FALSE /\ deaths = 0

Newest == IF history = <<>> THEN NoVersion ELSE history[Len(history)].version

(* history and current raise otherwise.                                    *)
Chained ==
  \A i \in DOMAIN history :
    history[i].parent = IF i = 1 THEN NoVersion ELSE history[i - 1].version
Readable == ~torn /\ Chained /\ pointer = Newest

ActivateAnyParent(version, parent) ==  \* mutant: the parent is not compared
  /\ ~pointing /\ Readable /\ Len(history) < MaxChampions
  /\ version # pointer
  /\ history # <<>> => parent # NoVersion
  /\ history' = Append(history, [version |-> version, parent |-> parent])
  /\ pointing' = TRUE
  /\ UNCHANGED <<torn, pointer, deaths>>
(* A successor names the current champion; the first record's parent is    *)
(* not looked at.                                                          *)
Activate(version, parent) ==
  /\ ~pointing /\ Readable /\ Len(history) < MaxChampions
  /\ version # pointer
  /\ history # <<>> => parent = Newest
  /\ history' = Append(history, [version |-> version, parent |-> parent])
  /\ pointing' = TRUE
  /\ UNCHANGED <<torn, pointer, deaths>>

WritePointer ==
  /\ pointing /\ pointing' = FALSE
  /\ pointer' = Newest
  /\ UNCHANGED <<history, torn, deaths>>

(* The process dies in the line, before the pointer, or in the pointer,    *)
(* which is emptied before it is written.                                  *)
Dies ==
  /\ pointing /\ pointing' = FALSE
  /\ deaths < MaxDeaths /\ deaths' = deaths + 1
  /\ torn' \in BOOLEAN
  /\ pointer' \in {pointer, NoVersion}
  /\ UNCHANGED history
=============================================================================
