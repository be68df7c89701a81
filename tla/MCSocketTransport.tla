-------------------------- MODULE MCSocketTransport --------------------------
(***************************************************************************)
(* SocketTransport and ToolWait, two parts that share no state, one of the *)
(* two running in a behaviour.  A channel of one slot makes a sender wait  *)
(* for room; two connections let the first one fail.  The commands are the *)
(* results the tool call waits for, and a worker attempt may outlast the   *)
(* queue time it allows.                                                   *)
(***************************************************************************)
EXTENDS SocketTransport, TLC

CONSTANTS
  QueueTime,   \* queue time the tool call allows
  Budgets      \* processing time an attempt may be given

VARIABLES
  running,   \* the component that runs
  parent, jobs, hearing, streams, wait, idle

toolVars == <<parent, jobs, hearing, streams, wait, idle>>

Tool == INSTANCE ToolWait WITH Jobs <- Commands, Timeout <- QueueTime

ASSUME ConstantsAreSound == Tool!ConstantsAreSound

Symmetry == Permutations(Commands)

MCInit == running \in {"socket", "tool"} /\ Init /\ Tool!Init

MCNext ==
  /\ \/ running = "socket" /\ Next /\ UNCHANGED toolVars
     \/ running = "tool" /\ Tool!Next /\ UNCHANGED vars
  /\ UNCHANGED running

MCSpec == MCInit /\ [][MCNext]_<<running, vars, toolVars>>

(* A tool call waits for its project as long as it allows, and no longer (wait.rs) *)
WaitsAsAllowed == Tool!WaitsAsAllowed
==============================================================================
