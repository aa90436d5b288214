---------------------------- MODULE UdpTransport ----------------------------
(***************************************************************************)
(* gateways/transport/udp_transport.go: one UDPTransport over its life.    *)
(*                                                                         *)
(* Its owner calls Start and Stop; each Start that succeeds opens a socket *)
(* and spawns a listenLoop; each packet a loop reads gets a handlePacket   *)
(* goroutine.  Start and Stop hold the write lock throughout and wait for  *)
(* nobody, so each is one action; the loops and the packet goroutines read *)
(* t.conn without the lock, at steps of their own.  ReadFromUDP blocks     *)
(* until a packet comes or its socket is closed.                           *)
(*                                                                         *)
(* A packet is the query it carries; what the codec and the handler do     *)
(* with it is reduced to success or failure.  UDP may lose a packet: the   *)
(* client then simply never sends it here.                                 *)
(***************************************************************************)
EXTENDS Naturals, FiniteSets

CONSTANTS
  Queries,   \* the packets clients may send
  MaxStarts  \* bound: how many times Start succeeds

ASSUME TransportAssumption == IsFiniteSet(Queries) /\ MaxStarts \in Nat \ {0}

\* The n-th successful Start opens socket n and spawns loop n.
Starts == 1..MaxStarts
NoSocket == 0

VARIABLES
  running,   \* t.running
  stopped,   \* t.stopCh is closed; it is made once, by NewUDPTransport
  conn,      \* t.conn
  sockets,   \* the sockets that are open
  started,   \* how many Starts have succeeded
  cancelled, \* the Starts whose context is cancelled
  loop,      \* loop[l]: where listenLoop l is
  reads,     \* reads[l]: the socket listenLoop l reads
  packet,    \* packet[q]: where the query is
  buffer,    \* buffer[q]: the socket that received q
  panicked   \* close of the closed stopCh: the process has died

loops == <<loop, reads>>
packets == <<packet, buffer>>
vars == <<running, stopped, conn, sockets, started, cancelled, loops, packets,
          panicked>>

Init ==
  /\ running = FALSE
  /\ stopped = FALSE
  /\ conn = NoSocket
  /\ sockets = {}
  /\ started = 0
  /\ cancelled = {}
  /\ loop = [l \in Starts |-> "none"]
  /\ reads = [l \in Starts |-> NoSocket]
  /\ packet = [q \in Queries |-> "unsent"]
  /\ buffer = [q \in Queries |-> NoSocket]
  /\ panicked = FALSE

-----------------------------------------------------------------------------
(* Start and Stop.                                                         *)

\* Seeded bug: a running transport can be started again.
StartAgainBug ==
  /\ started < MaxStarts
  /\ started' = started + 1
  /\ conn' = started'
  /\ sockets' = sockets \cup {conn'}
  /\ running' = TRUE
  /\ loop' = [loop EXCEPT ![started'] = "select"]
  /\ UNCHANGED <<stopped, cancelled, reads, packets, panicked>>

\* Seeded bug: the new socket is kept in a shadowing variable.
StartShadowBug ==
  /\ ~ running
  /\ started < MaxStarts
  /\ started' = started + 1
  /\ sockets' = sockets \cup {started'}
  /\ running' = TRUE
  /\ loop' = [loop EXCEPT ![started'] = "select"]
  /\ UNCHANGED <<stopped, conn, cancelled, reads, packets, panicked>>

\* A Start of a running transport, or one that cannot bind its address, returns
\* an error and changes nothing; this is the Start that succeeds.
Start ==
  /\ ~ running
  /\ started < MaxStarts
  /\ started' = started + 1
  /\ conn' = started'
  /\ sockets' = sockets \cup {conn'}
  /\ running' = TRUE
  /\ loop' = [loop EXCEPT ![started'] = "select"]
  /\ UNCHANGED <<stopped, cancelled, reads, packets, panicked>>

\* The packets in the buffer of a socket that is closed are gone.
LostWith(s) ==
  packet' = [q \in Queries |->
               IF packet[q] = "arrived" /\ buffer[q] = s THEN "lost" ELSE packet[q]]

\* Seeded bug: the socket is left open.
StopOpenBug ==
  /\ running
  /\ stopped' = TRUE
  /\ running' = FALSE
  /\ UNCHANGED <<conn, sockets, started, cancelled, loops, packets, panicked>>

\* Stop of a transport that is not running does nothing; this is the other Stop.
\* Closing a closed channel panics, and nothing recovers.
Stop ==
  /\ running
  /\ IF stopped
     THEN /\ panicked' = TRUE
          /\ UNCHANGED <<running, stopped, sockets, packet>>
     ELSE /\ stopped' = TRUE
          /\ sockets' = sockets \ {conn}
          /\ LostWith(conn)
          /\ running' = FALSE
          /\ UNCHANGED panicked
  /\ UNCHANGED <<conn, started, cancelled, loops, buffer>>

\* The owner cancels the context it gave to the last Start.
Cancel ==
  /\ started > 0 /\ started \notin cancelled
  /\ cancelled' = cancelled \cup {started}
  /\ UNCHANGED <<running, stopped, conn, sockets, started, loops, packets, panicked>>

-----------------------------------------------------------------------------
(* listenLoop.                                                             *)

LoopTo(l, s) == loop' = [loop EXCEPT ![l] = s]

Unlooped == <<running, stopped, conn, sockets, started, cancelled, panicked>>

\* The select has a default, so it never waits.
LoopEnds(l) ==
  /\ loop[l] = "select"
  /\ l \in cancelled \/ stopped
  /\ LoopTo(l, "ended")
  /\ UNCHANGED <<Unlooped, reads, packets>>

LoopGoesOn(l) ==
  /\ loop[l] = "select"
  /\ l \notin cancelled /\ ~ stopped
  /\ LoopTo(l, "next")
  /\ UNCHANGED <<Unlooped, reads, packets>>

\* t.conn is read here, and the read begins.
ReadBegins(l) ==
  /\ loop[l] = "next"
  /\ reads' = [reads EXCEPT ![l] = conn]
  /\ LoopTo(l, "read")
  /\ UNCHANGED <<Unlooped, packets>>

\* A packet is copied and given to a goroutine.
ReadPacket(l, q) ==
  /\ loop[l] = "read"
  /\ packet[q] = "arrived" /\ buffer[q] = reads[l]
  /\ packet' = [packet EXCEPT ![q] = "received"]
  /\ LoopTo(l, "select")
  /\ UNCHANGED <<Unlooped, reads, buffer>>

\* The read fails because the socket is closed.
ReadFails(l) ==
  /\ loop[l] = "read"
  /\ reads[l] \notin sockets
  /\ LoopTo(l, "failed")
  /\ UNCHANGED <<Unlooped, reads, packets>>

\* The read of an open socket fails.
ReadError(l) ==
  /\ loop[l] = "read"
  /\ reads[l] \in sockets
  /\ LoopTo(l, "failed")
  /\ UNCHANGED <<Unlooped, reads, packets>>

\* Seeded bug: any error of a read ends the loop.
EndOnErrorBug(l) ==
  /\ loop[l] = "failed"
  /\ LoopTo(l, "ended")
  /\ UNCHANGED <<Unlooped, reads, packets>>

\* Under the read lock: is this a normal shutdown?
CheckRunning(l) ==
  /\ loop[l] = "failed"
  /\ LoopTo(l, IF running THEN "select" ELSE "ended")
  /\ UNCHANGED <<Unlooped, reads, packets>>

LoopStep(l) ==
  \/ LoopEnds(l) \/ LoopGoesOn(l) \/ ReadBegins(l)
  \/ (\E q \in Queries : ReadPacket(l, q)) \/ ReadFails(l) \/ CheckRunning(l)

-----------------------------------------------------------------------------
(* Clients and handlePacket.                                               *)

PacketTo(q, s) == packet' = [packet EXCEPT ![q] = s]

\* A client's packet reaches the socket.
Arrive(q) ==
  /\ packet[q] = "unsent"
  /\ \E s \in sockets : buffer' = [buffer EXCEPT ![q] = s]
  /\ PacketTo(q, "arrived")
  /\ UNCHANGED <<Unlooped, loops>>

\* DecodeQuery, HandleQuery or EncodeResponse fails: no reply is sent.
Reject(q) ==
  /\ packet[q] = "received"
  /\ PacketTo(q, "rejected")
  /\ UNCHANGED <<Unlooped, loops, buffer>>

\* HandleQuery has returned a response, and it is encoded.
Answer(q) ==
  /\ packet[q] = "received"
  /\ PacketTo(q, "answered")
  /\ UNCHANGED <<Unlooped, loops, buffer>>

\* WriteToUDP on the current t.conn: it fails if that is closed.
Reply(q) ==
  /\ packet[q] = "answered"
  /\ PacketTo(q, IF conn \in sockets THEN "replied" ELSE "unreplied")
  /\ UNCHANGED <<Unlooped, loops, buffer>>

PacketStep(q) == Reject(q) \/ Answer(q) \/ Reply(q)

Next ==
  /\ ~ panicked
  /\ \/ Start \/ Stop \/ Cancel
     \/ \E l \in Starts : LoopStep(l) \/ ReadError(l)
     \/ \E q \in Queries : Arrive(q) \/ PacketStep(q)

\* Goroutines are scheduled, and the reads of a socket that holds a packet do
\* not fail for ever.
Fairness ==
  /\ \A l \in Starts :
       /\ WF_vars(~ panicked /\ LoopStep(l))
       /\ SF_vars(~ panicked /\ \E q \in Queries : ReadPacket(l, q))
  /\ \A q \in Queries : WF_vars(~ panicked /\ PacketStep(q))

Spec == Init /\ [][Next]_vars
LiveSpec == Spec /\ Fairness

-----------------------------------------------------------------------------
(* Properties.                                                             *)

\* Type correctness; a loop or a socket that was never started is not in use.
TypeOK ==
  /\ running \in BOOLEAN /\ stopped \in BOOLEAN /\ panicked \in BOOLEAN
  /\ started \in 0..MaxStarts
  /\ conn = started
  /\ sockets \subseteq 1..started /\ cancelled \subseteq Starts
  /\ loop \in [Starts -> {"none", "select", "next", "read", "failed", "ended"}]
  /\ \A l \in Starts : loop[l] = "none" <=> l > started
  /\ reads \in [Starts -> 0..started]
  /\ packet \in [Queries -> {"unsent", "arrived", "lost", "received", "rejected",
                             "answered", "replied", "unreplied"}]
  /\ buffer \in [Queries -> 0..started]

\* The socket t.conn is open just while the transport runs, and no other is, so
\* that the address is free to be bound again after a Stop; and no query waits
\* in the buffer of a socket that nobody can read any more.
OneOpenSocket ==
  /\ sockets = IF running THEN {conn} ELSE {}
  /\ \A q \in Queries : packet[q] = "arrived" => buffer[q] \in sockets

\* A second loop never reads a socket together with the loop Start gave it to,
\* so restarting does not hand one transport's packets to two loops.
OneReader ==
  \A l, m \in Starts :
    loop[l] = "read" /\ loop[m] = "read" /\ reads[l] = reads[m]
      /\ reads[l] \in sockets => l = m

\* After the last Stop every listenLoop ends: closing the socket wakes the one
\* that is blocked in its read, whatever else it is doing.
LoopsEnd ==
  <>[](~ running) => <>[](\A l \in Starts : loop[l] \in {"none", "ended"})

\* From the first Start to the first Stop, while its context is live, no packet
\* stays in the socket: each is read, and then rejected or answered.
EveryPacketRead ==
  \A q \in Queries :
    packet[q] = "arrived" ~>
      packet[q] \in {"replied", "rejected"} \/ cancelled # {} \/ stopped

\* While the transport runs and its context is live, its loop is at work.
StartedListens ==
  running /\ started \notin cancelled => loop[started] # "ended"

-----------------------------------------------------------------------------
(* What the comments say, and the code does not do.                        *)

\* udp_transport.go: "Stop gracefully shuts down the UDP transport".
StopIsGraceful == ~ panicked
=============================================================================
