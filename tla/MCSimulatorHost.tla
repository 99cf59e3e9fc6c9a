---------------------------- MODULE MCSimulatorHost ----------------------------
(***************************************************************************)
(* The Simulator with two calm nodes, whose calls are never cancelled and  *)
(* whose Python workers never fail (the module extended); in scenarios of  *)
(* their own, the Simulator with one node where both may happen, and one   *)
(* owner goroutine with the callers that the Simulator lets through.       *)
(***************************************************************************)
EXTENDS SimulatorHost

CONSTANTS Callers

VARIABLES
  scenario,
  fOp, fCommand, fCore, fBroken, fRegistry, fMatches, fByID, fNextMatchID, fRound,
  fRoundNow, fRoundActive, fClosed, fCalls, fSuspect, fIssued,
  pc, serial, cancelled, result, reading, open, loop, ready, closer, retired, executed

faultyVars ==
  <<fOp, fCommand, fCore, fBroken, fRegistry, fMatches, fByID, fNextMatchID, fRound,
    fRoundNow, fRoundActive, fClosed, fCalls, fSuspect, fIssued>>
workerVars ==
  <<pc, serial, cancelled, result, reading, open, loop, ready, closer, retired, executed>>
mcVars == <<scenario, vars, faultyVars, workerVars>>

Faulty == INSTANCE SimulatorHost WITH
  NodeCount <- 1, LastMatchID <- 2, Faults <- {"cancel", "provider"},
  MaxRounds <- 1, MaxReplacements <- 0,
  op <- fOp, command <- fCommand, core <- fCore, broken <- fBroken,
  registry <- fRegistry, matches <- fMatches, byID <- fByID,
  nextMatchID <- fNextMatchID, round <- fRound, roundNow <- fRoundNow,
  roundActive <- fRoundActive, closed <- fClosed, calls <- fCalls,
  suspect <- fSuspect, issued <- fIssued

Worker == INSTANCE NodeWorker WITH MaxCalls <- 2, Hosted <- TRUE

ASSUME Bounds == Faulty!HostAssumption /\ Worker!WorkerAssumption

MCInit ==
  /\ scenario \in {"calm", "faulty", "worker"}
  /\ Init /\ Faulty!Init /\ Worker!Init

MCNext ==
  \/ scenario = "calm" /\ Next /\ UNCHANGED <<scenario, faultyVars, workerVars>>
  \/ scenario = "faulty" /\ Faulty!Next /\ UNCHANGED <<scenario, vars, workerVars>>
  \/ scenario = "worker" /\ Worker!Next /\ UNCHANGED <<scenario, vars, faultyVars>>

(* The fairness of each of the three, in its scenario.                     *)
MCFairness ==
  /\ WF_vars(scenario = "calm" /\ Continue)
  /\ WF_faultyVars(scenario = "faulty" /\ Faulty!Continue)
  /\ \A n \in Nodes : WF_vars(scenario = "calm" /\ Goroutine(n))
  /\ WF_faultyVars(scenario = "faulty" /\ Faulty!Goroutine(1))
  /\ \A c \in Callers :
       /\ WF_workerVars(scenario = "worker" /\ Worker!Step(c))
       /\ SF_workerVars(scenario = "worker" /\ Worker!HandOver(c))
  /\ WF_workerVars(scenario = "worker" /\ Worker!Loop)
  /\ WF_workerVars(scenario = "worker" /\ Worker!CloseStep)

MCSpec == MCInit /\ [][MCNext]_mcVars /\ MCFairness

-------------------------------------------------------------------------------
(* With cancelled calls and failing workers, registry and core disagree    *)
(* about a ticket only while its operation is on its way back, or after it *)
(* failed between the two, and a RemoveTicket that succeeds heals that; a  *)
(* caller of an owner goroutine is answered by the command of this very    *)
(* call, nobody sends on the channel that close() has closed, and no       *)
(* command runs after close().                                             *)
LeaversAreHarmless ==
  /\ [](TypeOK /\ Faulty!TypeOK /\ Faulty!DriftAccounted)
  /\ [](Worker!TypeOK /\ Worker!NoSendOnClosed /\ Worker!AnswerIsOwn)
  /\ Faulty!RemoveHeals
  /\ Worker!NothingRunsAfterClose

(* Every operation releases Simulator.mu; every call of an owner goroutine *)
(* returns and so does close(), whatever callers abandon.                  *)
EverybodyReturns ==
  /\ MutexReleased
  /\ Faulty!MutexReleased
  /\ Worker!CallsReturn
  /\ Worker!CloseReturns
===============================================================================
