------------------------------- MODULE MCAgents -------------------------------
(***************************************************************************)
(* The agents side by side, as the mode of a request selects them: the     *)
(* research agent (ResearchLoop), the simulate agent (SimulateRun), the    *)
(* analytics chat (AnalyticsChat), and a call of the LLM client that all   *)
(* of them make (LlmClient). Requests share no variable, so that only one  *)
(* of them moves in a behaviour: interleaving them would add no behaviour  *)
(* to any.                                                                 *)
(***************************************************************************)
EXTENDS ResearchLoop

CONSTANTS
  SimPersonas, PersonaLimit, VariantCounts, Intensities, SimFaults,
  MaxTokens, MaxLength, MaxMatching, MaxRows, ShownRows, MaxContent, ChunkSize, ChatFaults,
  MaxRetries

VARIABLES
  mode,                                                          \* of the request
  simPc, personas, drafts, reactions, records, usage, ranking, winner, simRow,
  chatPc, loaded, sql, sql_valid, status, row, matching, executed, response,
  told, content, sent,
  callPc, max_retries, attempt, responses, delay, recorded

Sim == INSTANCE SimulateRun WITH
  Personas <- SimPersonas, Faults <- SimFaults, pc <- simPc, row <- simRow
Chat == INSTANCE AnalyticsChat WITH Faults <- ChatFaults, pc <- chatPc
Llm == INSTANCE LlmClient WITH pc <- callPc, usage <- recorded

ASSUME ComponentAssumptions ==
  Sim!SimulateAssumption /\ Chat!AnalyticsAssumption /\ Llm!LlmClientAssumption

simVars == <<simPc, personas, drafts, reactions, records, usage, ranking, winner, simRow>>
chatVars == <<chatPc, loaded, sql, sql_valid, status, row, matching, executed, response,
              told, content, sent>>
callVars == <<callPc, max_retries, attempt, responses, delay, recorded>>
agentVars == <<mode, vars, simVars, chatVars, callVars>>

AgentsInit ==
  /\ mode \in {"research", "simulate", "analytics", "llm"}
  /\ Init /\ Sim!Init /\ Chat!Init /\ Llm!Init
  /\ mode # "llm" => max_retries = 0

ResearchStep == mode = "research" /\ Next /\ UNCHANGED <<mode, simVars, chatVars, callVars>>
SimulateNode == mode = "simulate" /\ Sim!Node /\ UNCHANGED <<mode, vars, chatVars, callVars>>
SimulateCall == mode = "simulate" /\ Sim!Call /\ UNCHANGED <<mode, vars, chatVars, callVars>>
SimulatePrompt ==
  mode = "simulate" /\ Sim!ReactionPromptRaises /\ UNCHANGED <<mode, vars, chatVars, callVars>>
ChatStep == mode = "analytics" /\ Chat!Next /\ UNCHANGED <<mode, vars, simVars, callVars>>
CallStep == mode = "llm" /\ Llm!Next /\ UNCHANGED <<mode, vars, simVars, chatVars>>

AgentsNext ==
  ResearchStep \/ SimulateNode \/ SimulateCall \/ SimulatePrompt \/ ChatStep \/ CallStep

(* The fairness of each component, for the one that moves. *)
AgentsSpec ==
  /\ AgentsInit /\ [][AgentsNext]_agentVars
  /\ WF_agentVars(ResearchStep)
  /\ WF_agentVars(SimulateNode) /\ WF_agentVars(SimulateCall)
  /\ WF_agentVars(CallStep)

-----------------------------------------------------------------------------
(* The properties of the components, where they are stated, of the composition. *)
RowCountsCalls == Sim!RowCountsCalls
LateAnswersChangeNothing == Sim!LateAnswersChangeNothing
GuardsAgree == Chat!GuardsAgree

(* The winner of a simulation is beaten by no other draft, nor by a unanimous one. *)
WinnerIsUnbeaten == Sim!BeatenNeverWins /\ Sim!UnanimityWins

(* What an analytics chat answers was run on record, and tells of the rows what
   the client fetched. *)
AnswerIsAccountedFor == Chat!RunOnRecord /\ Chat!AnswerTellsTheRows

(* The LLM client keeps the promise of LlmCall, its end included. *)
KeepsPromise == Llm!Call!Safe /\ (mode = "llm" => Llm!Call!Live)

(* Every run of the research and of the simulate agent ends: when a peer, a draft
   or a reaction fails, and however late the calls of a failed run answer. *)
AgentsEnd ==
  /\ mode = "research" => Terminates
  /\ mode = "simulate" => Sim!RunEnds
=============================================================================
