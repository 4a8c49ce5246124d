--------------------------- MODULE ServerRuntime ---------------------------
(***************************************************************************)
(* The local OPC UA server: ServerRuntimeController                         *)
(* (src/qmlapi/serverruntimecontroller.cpp) and the process it supervises   *)
(* (runtime/main.cpp).  They share the merged output stream, standard       *)
(* input, and the diagnostics socket.                                       *)
(*                                                                         *)
(* stop() and kill() block the GUI's event loop.  While they wait, only the   *)
(* output and the end of the process reach the controller.                  *)
(***************************************************************************)
EXTENDS Naturals, Sequences, SequencesExt

VARIABLES
  ctl,        \* the controller: [state, endpoint, stopRequested, control, counts]
  call,       \* the blocking wait under way: "idle", "graceful" or "kill"
  proc,       \* "none", "starting", "loading", "serving", "closing", or "dead" until
              \* finished() is emitted
  exit,       \* how the process ended: "clean" or "crash"
  out,        \* lines the process wrote that were not read yet
  stopWritten,\* STOP and the end of its input reached the process
  killed,     \* the process was killed
  installed   \* the runtime executable exists

runtimeVars == <<ctl, call, proc, exit, out, stopWritten, killed, installed>>
processVars == <<proc, exit, out, stopWritten, killed, installed>>

States == {"Stopped", "Starting", "Running", "Stopping", "Crashed"}

(* The member variables of a controller without a process.  An endpoint or a  *)
(* set of counters is known or not.                                         *)
Ended(state) ==
  [state |-> state, endpoint |-> FALSE, stopRequested |-> FALSE, control |-> FALSE, counts |-> FALSE]

-----------------------------------------------------------------------------
(* Output of the process.                                                  *)

(* drainProcessOutput() of "lines", which a process writes once each.         *)
Drain(c, lines) ==
  LET ready   == Contains(lines, "READY")
      control == Contains(lines, "CONTROL")
  IN [c EXCEPT !.state    = IF ready THEN "Running" ELSE @,
               !.endpoint = @ \/ ready,
               !.control  = @ \/ control,
               !.counts   = @ /\ ~(control /\ c.control)]

(* handleFinished(): what the process still wrote is read first.             *)
HandleFinished_DrainsLast(c) ==   \* mutant: the output is read last
  Drain(Ended(IF c.stopRequested \/ exit = "clean" THEN "Stopped" ELSE "Crashed"), out)

HandleFinished(c) == Ended(IF Drain(c, out).stopRequested \/ exit = "clean" THEN "Stopped" ELSE "Crashed")

DrainProcessOutput ==
  /\ proc # "none"
  /\ \E n \in 1..Len(out) :
       /\ ctl' = Drain(ctl, SubSeq(out, 1, n))
       /\ out' = SubSeq(out, n + 1, Len(out))
  /\ UNCHANGED <<call, proc, exit, stopWritten, killed, installed>>

Finished ==
  /\ proc = "dead"
  /\ ctl' = HandleFinished(ctl)
  /\ proc' = "none"
  /\ out' = <<>>
  /\ UNCHANGED <<call, exit, stopWritten, killed, installed>>

(* errorOccurred(FailedToStart): finished() is not emitted.                  *)
FailsToStart ==
  /\ proc = "starting"
  /\ ctl' = [ctl EXCEPT !.state = "Crashed"]
  /\ proc' = "none"
  /\ UNCHANGED <<call, exit, out, stopWritten, killed, installed>>

(* A diagnostics line over the local socket.                                 *)
ControlReadyRead ==
  /\ call = "idle" /\ ctl.control /\ proc = "serving"
  /\ ctl' = [ctl EXCEPT !.counts = TRUE]
  /\ UNCHANGED <<call, processVars>>

(* The socket of a process that is gone.                                     *)
ControlDisconnected ==
  /\ call = "idle" /\ ctl.control /\ proc # "serving"
  /\ ctl' = [ctl EXCEPT !.control = FALSE, !.counts = FALSE]
  /\ UNCHANGED <<call, processVars>>

-----------------------------------------------------------------------------
(* Calls of the controller.                                                *)

(* start(): the state alone says whether a process runs.  QProcess refuses to *)
(* start while the last process still lives.                                *)
StartAccepted == ctl.state \notin {"Starting", "Running"}

StartRuntime ==
  IF ~StartAccepted THEN UNCHANGED <<ctl, processVars>>
  ELSE IF ~installed
  THEN ctl' = [ctl EXCEPT !.state = "Crashed"] /\ UNCHANGED processVars
  ELSE /\ ctl' = [ctl EXCEPT !.state = "Starting", !.endpoint = FALSE, !.stopRequested = FALSE,
                             !.counts = FALSE]
       /\ IF proc # "none" THEN UNCHANGED processVars
          ELSE /\ proc' = "starting"
               /\ out' = <<>> /\ stopWritten' = FALSE /\ killed' = FALSE
               /\ UNCHANGED <<exit, installed>>

Spawns == StartAccepted /\ installed /\ proc = "none"

(* stop() up to the wait for the process to end.                             *)
StopRuntime ==
  /\ ctl' = [ctl EXCEPT !.stopRequested = TRUE, !.state = "Stopping"]
  /\ stopWritten' = TRUE
  /\ call' = "graceful"
  /\ UNCHANGED <<proc, exit, out, killed, installed>>

(* kill() up to the wait.                                                   *)
KillRuntime ==
  /\ ctl' = [ctl EXCEPT !.stopRequested = TRUE]
  /\ killed' = TRUE
  /\ call' = "kill"
  /\ UNCHANGED <<proc, exit, out, stopWritten, installed>>

(* The wait of stop() times out: the process is killed.                      *)
GracefulTimeout_GivesUp ==   \* mutant: a process that does not stop is left alone
  /\ call = "graceful" /\ proc # "none"
  /\ call' = "kill"
  /\ UNCHANGED <<ctl, processVars>>

GracefulTimeout ==
  /\ call = "graceful" /\ proc # "none"
  /\ killed' = TRUE
  /\ call' = "kill"
  /\ UNCHANGED <<ctl, proc, exit, out, stopWritten, installed>>

(* stop() and kill() return when the process has ended, and after a second   *)
(* even when a killed process has not.                                      *)
Returns ==
  /\ call = "kill" \/ (call = "graceful" /\ proc = "none")
  /\ call' = "idle"

-----------------------------------------------------------------------------
(* The process, main() of runtime/main.cpp.                                 *)

Alive == proc \in {"starting", "loading", "serving", "closing"}

Becomes(phase) ==
  /\ proc' = phase
  /\ UNCHANGED <<ctl, call, exit, stopWritten, killed, installed>>

Spawned == proc = "starting" /\ ~killed /\ Becomes("loading") /\ UNCHANGED out

(* The endpoint listens; the diagnostics socket may fail to.                 *)
Serve ==
  /\ proc = "loading" /\ ~killed
  /\ Becomes("serving")
  /\ \/ out' = out \o <<"READY", "CONTROL">>
     \/ out' = Append(out, "READY")

(* Standard input is watched once the server listens.                        *)
ReadStop == proc = "serving" /\ stopWritten /\ ~killed /\ Becomes("closing") /\ UNCHANGED out

Exit(how) ==
  /\ proc' = "dead" /\ exit' = how
  /\ UNCHANGED <<ctl, call, out, stopWritten, killed, installed>>

ExitClean == proc = "closing" /\ ~killed /\ Exit("clean")

(* A project that cannot be loaded or served, a crash, or a kill.            *)
ExitCrash == Alive /\ proc # "starting" /\ Exit("crash")

KilledExit == killed /\ proc = "starting" /\ Exit("crash")

ProcessStep == Spawned \/ ReadStop \/ ExitClean \/ ExitCrash \/ KilledExit

ControllerStep ==
  \/ DrainProcessOutput
  \/ Finished
  \/ FailsToStart
  \/ ControlReadyRead
  \/ ControlDisconnected
  \/ GracefulTimeout

RuntimeInit ==
  /\ ctl = Ended("Stopped")
  /\ call = "idle"
  /\ proc = "none" /\ exit = "clean" /\ out = <<>>
  /\ stopWritten = FALSE /\ killed = FALSE
  /\ installed \in BOOLEAN

(* The event loop and the waits go on, and a killed process ends.            *)
RuntimeFairness ==
  /\ WF_runtimeVars(Finished)
  /\ WF_runtimeVars(GracefulTimeout)
  /\ WF_runtimeVars(killed /\ (ExitCrash \/ KilledExit))
=============================================================================
