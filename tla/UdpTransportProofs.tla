------------------------- MODULE UdpTransportProofs -------------------------
(***************************************************************************)
(* Proofs about UdpTransport for any packets and any number of starts:     *)
(* type correctness, and that restarting it neither leaks a socket nor     *)
(* lets two loops read one.                                                *)
(***************************************************************************)
EXTENDS UdpTransport, TLAPS

\* stopCh is closed once and for all: the loops of later Starts see it closed in
\* their first select and never come to read.
RestartInv ==
  /\ ~ stopped => started <= 1 /\ (started = 1 => running)
  /\ \A l \in Starts : l # 1 => loop[l] \in {"none", "select", "ended"}

TransportInv == TypeOK /\ RestartInv /\ OneOpenSocket

\* A new transport has no socket and no loop.
LEMMA TransportInit == Init => TransportInv
<1>. SUFFICES ASSUME Init PROVE TransportInv  OBVIOUS
<1>1. \A l \in Starts : l > 0  BY TransportAssumption DEF Starts
<1>2. TypeOK
  <2>1. started \in 0..MaxStarts /\ conn = started /\ sockets \subseteq 1..started
    BY TransportAssumption DEF Init, NoSocket
  <2>2. reads \in [Starts -> 0..started] /\ buffer \in [Queries -> 0..started]
    BY DEF Init, NoSocket
  <2>. QED  BY <1>1, <2>1, <2>2 DEF Init, TypeOK
<1>. QED  BY <1>2 DEF Init, TransportInv, RestartInv, OneOpenSocket

\* A step of a loop or of a packet moves it, or reads from the socket, no more.
LEMMA LoopKeeps ==
  ASSUME TransportInv, NEW l \in Starts, loop[l] # "none",
         NEW s \in {"select", "next", "read", "failed", "ended"},
         loop' = [loop EXCEPT ![l] = s],
         l # 1 => s \in {"select", "ended"},
         reads' = reads \/ reads' = [reads EXCEPT ![l] = conn],
         UNCHANGED <<running, stopped, conn, sockets, started, cancelled, panicked,
                     packet, buffer>>
  PROVE  TransportInv'
<1>. USE DEF TransportInv
<1>1. TypeOK'
  <2>1. loop' \in [Starts -> {"none", "select", "next", "read", "failed", "ended"}]
        /\ \A m \in Starts : loop'[m] = "none" <=> loop[m] = "none"
    BY DEF TypeOK
  <2>2. conn \in 0..started  BY TransportAssumption DEF TypeOK
  <2>3. reads' \in [Starts -> 0..started]  BY <2>2 DEF TypeOK
  <2>. QED  BY <2>1, <2>3 DEF TypeOK
<1>2. RestartInv'  BY DEF RestartInv, TypeOK
<1>3. OneOpenSocket'  BY DEF OneOpenSocket
<1>. QED  BY <1>1, <1>2, <1>3

\* The handlers of packets do not touch sockets or loops.
LEMMA PacketKeeps ==
  ASSUME TransportInv, NEW q \in Queries,
         NEW s \in {"arrived", "received", "rejected", "answered", "replied",
                    "unreplied"},
         packet' = [packet EXCEPT ![q] = s],
         \/ s # "arrived" /\ UNCHANGED buffer
         \/ \E c \in sockets : buffer' = [buffer EXCEPT ![q] = c],
         UNCHANGED <<running, stopped, conn, sockets, started, cancelled, panicked, loop,
                     reads>>
  PROVE  TransportInv'
<1>. USE DEF TransportInv
<1>1. buffer' \in [Queries -> 0..started]
  BY TransportAssumption DEF TypeOK
<1>2. TypeOK'  BY <1>1 DEF TypeOK
<1>3. RestartInv'  BY DEF RestartInv
<1>4. OneOpenSocket'  BY DEF OneOpenSocket, TypeOK
<1>. QED  BY <1>2, <1>3, <1>4

\* Every step keeps the invariant.
LEMMA TransportNext == TransportInv /\ [Next]_vars => TransportInv'
<1>. SUFFICES ASSUME TransportInv, [Next]_vars PROVE TransportInv'  OBVIOUS
<1>. USE DEF TransportInv
<1>1. CASE Start
  <2>1. /\ ~ running /\ started < MaxStarts /\ started' = started + 1
        /\ conn' = started + 1 /\ sockets' = {started + 1} /\ running'
        /\ loop' = [loop EXCEPT ![started + 1] = "select"]
        /\ UNCHANGED <<stopped, cancelled, reads, packet, buffer, panicked>>
    BY <1>1 DEF Start, packets, OneOpenSocket
  <2>2. /\ started \in Nat /\ started + 1 \in Starts
        /\ 0..started \subseteq 0..(started + 1)
    BY <2>1, TransportAssumption DEF TypeOK, Starts
  <2>3. TypeOK'
    <3>1. \A l \in Starts : loop'[l] = "none" <=> l > started + 1
      BY <2>1, <2>2 DEF TypeOK, Starts
    <3>2. /\ loop' \in [Starts -> {"none", "select", "next", "read", "failed", "ended"}]
          /\ started' \in 0..MaxStarts /\ sockets' \subseteq 1..started'
      BY <2>1, <2>2 DEF TypeOK, Starts
    <3>3. reads' \in [Starts -> 0..started'] /\ buffer' \in [Queries -> 0..started']
      BY <2>1, <2>2 DEF TypeOK
    <3>4. running' \in BOOLEAN  BY <1>1 DEF Start
    <3>. QED  BY <2>1, <3>1, <3>2, <3>3, <3>4 DEF TypeOK
  <2>4. RestartInv'
    <3>1. ~ stopped => started = 0
      BY <2>1, <2>2 DEF RestartInv
    <3>. QED  BY <2>1, <2>2, <3>1 DEF RestartInv, TypeOK
  <2>5. OneOpenSocket'  BY <2>1 DEF OneOpenSocket
  <2>. QED  BY <2>3, <2>4, <2>5
<1>2. CASE Stop
  <2>1. CASE stopped
    BY <1>2, <2>1 DEF Stop, loops, TypeOK, RestartInv, OneOpenSocket
  <2>2. CASE ~ stopped
    <3>1. /\ running /\ stopped' /\ ~ running' /\ sockets' = {}
          /\ packet' = [q \in Queries |->
                          IF packet[q] = "arrived" /\ buffer[q] = conn
                          THEN "lost" ELSE packet[q]]
          /\ stopped' \in BOOLEAN /\ running' \in BOOLEAN
          /\ UNCHANGED <<conn, started, cancelled, loop, reads, buffer, panicked>>
      BY <1>2, <2>2 DEF Stop, LostWith, loops, OneOpenSocket
    <3>2. \A q \in Queries : packet'[q] # "arrived"
      BY <3>1 DEF OneOpenSocket
    <3>3. TypeOK'  BY <3>1 DEF TypeOK
    <3>. QED  BY <3>1, <3>2, <3>3 DEF RestartInv, OneOpenSocket
  <2>. QED  BY <2>1, <2>2
<1>3. CASE Cancel
  <2>1. cancelled' \subseteq Starts
    BY <1>3, TransportAssumption DEF Cancel, TypeOK, Starts
  <2>. QED
    BY <1>3, <2>1 DEF Cancel, loops, packets, TypeOK, RestartInv, OneOpenSocket
<1>4. ASSUME NEW l \in Starts, LoopStep(l) \/ ReadError(l) PROVE TransportInv'
  <2>. USE DEF LoopTo, Unlooped, packets
  <2>1. CASE LoopEnds(l) \/ CheckRunning(l)
    BY <2>1, LoopKeeps DEF LoopEnds, CheckRunning
  <2>2. CASE LoopGoesOn(l)
    <3>1. l = 1
      BY <2>2, TransportAssumption DEF LoopGoesOn, RestartInv, TypeOK, Starts
    <3>. QED  BY <2>2, <3>1, LoopKeeps DEF LoopGoesOn
  <2>3. CASE ReadBegins(l) \/ ReadFails(l) \/ ReadError(l)
    <3>1. l = 1 /\ loop[l] # "none"
      BY <2>3 DEF ReadBegins, ReadFails, ReadError, RestartInv
    <3>. QED  BY <2>3, <3>1, LoopKeeps DEF ReadBegins, ReadFails, ReadError
  <2>4. ASSUME NEW q \in Queries, ReadPacket(l, q) PROVE TransportInv'
    <3>1. /\ loop[l] = "read" /\ loop' = [loop EXCEPT ![l] = "select"]
          /\ packet' = [packet EXCEPT ![q] = "received"]
          /\ UNCHANGED <<running, stopped, conn, sockets, started, cancelled, panicked,
                         reads, buffer>>
      BY <2>4 DEF ReadPacket
    <3>2. TypeOK'  BY <3>1 DEF TypeOK
    <3>. QED  BY <3>1, <3>2 DEF RestartInv, OneOpenSocket, TypeOK
  <2>. QED  BY <1>4, <2>1, <2>2, <2>3, <2>4 DEF LoopStep
<1>5. ASSUME NEW q \in Queries, Arrive(q) \/ PacketStep(q) PROVE TransportInv'
  BY <1>5, PacketKeeps
  DEF Arrive, PacketStep, Reject, Answer, Reply, PacketTo, Unlooped, loops
<1>6. CASE UNCHANGED vars
  BY <1>6 DEF vars, loops, packets, TypeOK, RestartInv, OneOpenSocket
<1>. QED  BY <1>1, <1>2, <1>3, <1>4, <1>5, <1>6 DEF Next

\* Loops and sockets are numbered by the Starts that made them.
THEOREM TypeCorrect == Spec => []TypeOK
BY TransportInit, TransportNext, PTL DEF Spec, TransportInv

\* However often the transport is started and stopped, the socket of the last
\* Start is open just while it runs, no other is, and no query is stranded.
THEOREM OneOpenSocketCorrect == Spec => []OneOpenSocket
BY TransportInit, TransportNext, PTL DEF Spec, TransportInv

\* Two loops never read one open socket, although a loop that outlives its Stop
\* goes on to read the socket of the next Start.
THEOREM OneReaderCorrect == Spec => []OneReader
<1>1. TransportInv => OneReader  BY DEF TransportInv, RestartInv, OneReader
<1>. QED  BY <1>1, TransportInit, TransportNext, PTL DEF Spec
=============================================================================
