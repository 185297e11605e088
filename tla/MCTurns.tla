------------------------------ MODULE MCTurns ------------------------------
(***************************************************************************)
(* A session's turns: the loop of requests and tool batches (TurnLoop),    *)
(* the history it cuts to the budget of its model and the texts that       *)
(* replace a history (ContextWindow), each checked on its own; "part" says *)
(* which of them moves.  For the history there is a model with a window of *)
(* 20 tokens and a backup with one of 12.                                  *)
(***************************************************************************)
EXTENDS TurnLoop

CONSTANTS Overhead, MinUseful, ManualTarget, MaxMessages, MaxCrashes,
          MaxEvents, MaxFolds, Kept

VARIABLES part,
  strategy, model, messages, turnStart, floor, age, structural, used, place, pending,
  interrupted, said, turnBase, stray, crashes,
  history, events, folds, clear, straight

Windows == [primary |-> 20, backup |-> 12]
Ceiling == [primary |-> 4, backup |-> 0]
Ladder == [primary |-> [reduce |-> 10, compact |-> 12, checkpoint |-> 15, recent |-> 6],
           backup |-> [reduce |-> 5, compact |-> 6, checkpoint |-> 9, recent |-> 3]]
Sizes == {1, 5}
SummarySizes == {3}
Tails == {"none", "plain", "bullet", "completed", "current_state"}
Strategies == {{}, {"summarize", "auto"}}

Live == INSTANCE ContextWindow WITH Window <- Windows, active <- model, at <- place

liveVars == <<strategy, model, messages, turnStart, floor, age, structural, used, place,
              pending, interrupted, said, turnBase, stray, crashes>>
textVars == <<history, events, folds, clear, straight>>
turnsVars == <<part, vars, liveVars, textVars>>

TurnsInit ==
  /\ part \in {"loop", "live", "texts"}
  /\ Init /\ Live!Init /\ Live!TextInit
  /\ part # "loop" => config = CHOOSE c \in Configs : TRUE
  /\ part # "live" => strategy = {}

TurnsNext ==
  /\ UNCHANGED part
  /\ \/ part = "loop" /\ Next /\ UNCHANGED <<liveVars, textVars>>
     \/ part = "live" /\ Live!Next /\ UNCHANGED <<vars, textVars>>
     \/ part = "texts" /\ Live!TextNext /\ UNCHANGED <<vars, liveVars>>

\* The loop goes on, see TurnLoop's FairSpec.
Going == part = "loop" /\ Step /\ UNCHANGED <<part, liveVars, textVars>>

TurnsSpec == TurnsInit /\ [][TurnsNext]_turnsVars /\ WF_turnsVars(Going)

\* The properties of ContextWindow, in groups: each is stated and explained there.

\* After every step, whatever order reductions, recoveries, takeovers and compactions come in, the
\* history keeps calls and results together, its floor and its order, and a request is
\* refused only where nothing is left to leave out,
Held ==
  part = "live" =>
    /\ Live!TypeOK /\ Live!PairedHistory /\ Live!FloorKept /\ Live!Chronology
    /\ Live!RefusedOnlyWhenStuck
\* and no step takes an interrupted call or the running turn out of it.
HistoryHolds == [][Held' /\ Live!UnknownStays /\ Live!TurnStays]_turnsVars

\* The text that replaces a history never says of work that it is done, or nothing
\* of work that is open or done.
CapsuleHolds ==
  part = "texts" => Live!NoFalseCompletion /\ Live!OpenStaysOpen /\ Live!DoneIsAccounted
=============================================================================
