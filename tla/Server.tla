------------------------------- MODULE Server -------------------------------
(***************************************************************************)
(* cmd/rr-dnsd/main.go: Application.Run, with main around it, owning one   *)
(* UdpTransport.  Run starts the transport, waits for its context (which   *)
(* the goroutine of main that waits for a signal cancels), stops the       *)
(* transport and returns; main then exits, and with it the process and all *)
(* goroutines that are still at work.  Daemon composes these steps with    *)
(* the goroutines.                                                         *)
(***************************************************************************)
EXTENDS UdpTransport

VARIABLES
  run,     \* where Run is
  signal   \* SIGINT or SIGTERM: "none", "pending" in sigChan, or "handled"

serverVars == <<vars, run, signal>>

\* The process has not exited.
Alive == run \notin {"completed", "timeout", "failed"} /\ ~ panicked

ServerInit == Init /\ run = "start" /\ signal = "none"

RunStarts ==
  /\ run = "start"
  /\ Start
  /\ run' = "serving"
  /\ UNCHANGED signal

\* Start returns an error, and main exits with it.
RunFails ==
  /\ run = "start"
  /\ run' = "failed"
  /\ UNCHANGED <<vars, signal>>

\* The operating system queues a signal in sigChan, whose buffer holds one.
Signal ==
  /\ signal = "none"
  /\ signal' = "pending"
  /\ UNCHANGED <<vars, run>>

\* The signal goroutine of main calls cancel, maybe before Start was called: the
\* context given to Start is then cancelled already.
HandleSignal ==
  /\ signal = "pending"
  /\ signal' = "handled"
  /\ cancelled' = 1..1
  /\ UNCHANGED <<running, stopped, conn, sockets, started, loops, packets, panicked, run>>

\* Seeded bug: Run drains the queries in flight before it stops the transport.
RunDrainsBug ==
  /\ run = "serving" /\ signal = "handled"
  /\ \A q \in Queries : packet[q] \notin {"arrived", "received", "answered"}
  /\ Stop
  /\ run' = "waiting"
  /\ UNCHANGED signal

\* ctx.Done: Run stops the transport.
RunStops ==
  /\ run = "serving" /\ signal = "handled"
  /\ Stop
  /\ run' = "waiting"
  /\ UNCHANGED signal

\* A goroutine closes done as soon as it runs; only if it is not scheduled for
\* the whole of defaultShutdownTimeout does the other case win.
RunReturns ==
  /\ run = "waiting"
  /\ run' \in {"completed", "timeout"}
  /\ UNCHANGED <<vars, signal>>

Run == RunStarts \/ RunFails \/ RunStops \/ RunReturns

=============================================================================
