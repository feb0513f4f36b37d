--------------------------- MODULE GatewayProofs ----------------------------
(***************************************************************************)
(* A relayed connection has one exit, the exit check tells the truth, and  *)
(* the relay is kept as it is by itself, for any nodes, connections,       *)
(* addresses and sockets.                                                  *)
(***************************************************************************)
EXTENDS Gateway, TLAPS

Early == {"none", "first", "request", "head", "resolve"}
Open == {"reply", "rest", "relay"}

ShapeOK ==
  /\ phase \in [Conns -> Early \cup Open \cup {"dial", "closed"}]
  /\ sock \in [Conns -> {"none", "new", "ready", "up"}]
  /\ bound \in [Conns -> BOOLEAN]
  /\ via \in [Conns -> Ids \cup {None, Gone}]
  /\ exits \in [Conns -> SUBSET (Ids \cup {Direct})]

(* A socket is bound in a dial and nowhere else, through the device of the *)
(* moment, and it is the only way out.                                     *)
SocketOK ==
  \A c \in Conns :
    /\ phase[c] \in Early => sock[c] = "none"
    /\ phase[c] \in Early \cup {"dial"} /\ sock[c] \in {"none", "new"} => ~bound[c]
    /\ phase[c] \in Open => sock[c] = "up"
    /\ sock[c] \in {"ready", "up"} <=> via[c] # None
    /\ sock[c] \in {"ready", "up"} => bound[c]

(* A device that is there is that of the session.                          *)
DeviceOK ==
  /\ device => stage # "down" /\ node \in Ids
  /\ checking => stage \in {"down", "reported"}
  /\ \A c \in Conns : via[c] \in Ids => device /\ via[c] = node

(* What upstream has seen of a connection is the exit of its socket.       *)
SeenOK ==
  \A c \in Conns :
    /\ phase[c] \in Early \cup {"dial"} => exits[c] = {}
    /\ via[c] \in Ids => exits[c] \subseteq {via[c]}
    /\ Direct \notin exits[c] /\ \A m, n \in exits[c] : m = n

PathInv == ShapeOK /\ SocketOK /\ DeviceOK /\ SeenOK

(* No connection, no exit. *)
LEMMA PathInit == Init => PathInv
<1> SUFFICES ASSUME Init PROVE PathInv
  OBVIOUS
<1>1. /\ phase = [c \in Conns |-> "none"] /\ sock = [c \in Conns |-> "none"]
      /\ bound = [c \in Conns |-> FALSE] /\ device = FALSE
  BY DEF Init, Proxy!Init
<1>2. via = [c \in Conns |-> None] /\ exits = [c \in Conns |-> {}] /\ checking = FALSE
  BY DEF Init
<1>3. QED
  BY <1>1, <1>2, GatewayAssumption
     DEF PathInv, ShapeOK, SocketOK, DeviceOK, SeenOK, Early, Open, GatewayAssumption

-----------------------------------------------------------------------------
(* The session. *)

(* Whatever the session does, a device that goes takes all sockets along.  *)
LEMMA PathSession ==
  ASSUME PathInv, SessionStep
  PROVE  PathInv'
<1> USE GatewayAssumption DEF PathInv, ShapeOK, GatewayAssumption
<1>1. /\ UNCHANGED <<phase, sock, bound, exits, checking>>
      /\ via' = IF device /\ ~device'
                THEN [c \in Conns |-> IF via[c] = None THEN None ELSE Gone] ELSE via
  BY DEF SessionStep, relayVars, checkVars
<1>2. ShapeOK' /\ SocketOK' /\ SeenOK'
  BY <1>1 DEF SocketOK, SeenOK
<1>3. DeviceOK'
  <2>1. CASE Session!Lose
    BY <1>1, <2>1 DEF Session!Lose, DeviceOK
  <2>2. CASE Control
    <3>1. CASE \E n \in Ids : Session!Rise(n)
      BY <1>1, <2>2, <3>1 DEF Session!Rise, DeviceOK, Control
    <3>2. CASE Session!Ready \/ Session!GiveUp \/ Session!Report \/ Session!Withdraw
      BY <1>1, <2>2, <3>2
         DEF Session!Ready, Session!GiveUp, Session!Report, Session!Withdraw, DeviceOK, Control
    <3>3. QED
      BY <2>2, <3>1, <3>2 DEF Control, ControlUngated
  <2>3. QED
    BY <2>1, <2>2 DEF SessionStep
<1>4. QED
  BY <1>2, <1>3

-----------------------------------------------------------------------------
(* The relay: the moves of one connection, as far as its socket goes.      *)

Sets(c, p, s, b) ==
  /\ phase' = [phase EXCEPT ![c] = p] /\ sock' = [sock EXCEPT ![c] = s]
  /\ bound' = [bound EXCEPT ![c] = b]

Rests(c) == UNCHANGED <<phase, sock, bound>> /\ wire'[c] = wire[c]
Shakes(c) ==
  /\ phase[c] \in Early /\ wire'[c] = wire[c]
  /\ \E p \in Early \cup {"dial"} : Sets(c, p, sock[c], bound[c])
Closes(c) == wire'[c] = wire[c] /\ Sets(c, "closed", "none", bound[c])
Dials(c) ==
  /\ phase[c] = "dial" /\ wire'[c] = wire[c]
  /\ \/ sock[c] = "none" /\ Sets(c, "dial", "new", bound[c])
     \/ Sets(c, "dial", "none", FALSE)
     \/ device /\ sock[c] = "new" /\ Sets(c, "dial", "ready", TRUE)
     \/ sock[c] = "ready" /\ Sets(c, "reply", "up", bound[c])
Writes(c) == phase[c] \in Open /\ \E p \in Open : Sets(c, p, sock[c], bound[c])

(* Every step of the relay is one of these. *)
LEMMA RelayMoves ==
  ASSUME ShapeOK, NEW c \in Conns, RelayStep(c)
  PROVE  UNCHANGED device /\ (Rests(c) \/ Shakes(c) \/ Closes(c) \/ Dials(c) \/ Writes(c))
<1> USE DEF ShapeOK, Sets, Rests, Shakes, Closes, Dials, Writes, Early, Open,
        Proxy!At, Proxy!Goto, Proxy!Close, Proxy!dialVars, Proxy!outVars, Proxy!inputVars
<1>1. CASE Proxy!Accept(c) \/ Proxy!Send(c) \/ Proxy!EndInput(c)
  BY <1>1 DEF Proxy!Accept, Proxy!Send, Proxy!EndInput
<1>2. CASE Proxy!Handshake(c)
  <2>1. CASE Proxy!ReadGreeting(c) \/ Proxy!ReadRequest(c)
    BY <2>1 DEF Proxy!ReadGreeting, Proxy!ReadRequest, Proxy!Target
  <2>2. CASE Proxy!RefuseCommand(c) \/ Proxy!EarlyEnd(c)
    BY <2>2 DEF Proxy!RefuseCommand, Proxy!EarlyEnd
  <2>3. CASE Proxy!ReadHead(c)
    <3>1. /\ UNCHANGED <<device, sock, bound, wire>> /\ phase[c] \in Early
          /\ \E p \in {"head", "resolve", "dial"} : phase' = [phase EXCEPT ![c] = p]
      BY <2>3 DEF Proxy!ReadHead, Proxy!Target
    <3>2. QED
      BY <3>1
  <2>4. QED
    BY <1>2, <2>1, <2>2, <2>3 DEF Proxy!Handshake
<1>3. CASE Proxy!Dial(c)
  <2> USE DEF Proxy!NextAddress
  <2>0. CASE Proxy!Resolve(c)
    BY <2>0 DEF Proxy!Resolve
  <2>1. CASE Proxy!Socket(c)
    BY <2>1 DEF Proxy!Socket
  <2>2. CASE Proxy!Bind(c)
    BY <2>2 DEF Proxy!Bind
  <2>3. CASE Proxy!Connect(c)
    BY <2>3 DEF Proxy!Connect
  <2>4. CASE Proxy!DialFails(c)
    BY <2>4 DEF Proxy!DialFails
  <2>5. QED
    BY <1>3, <2>0, <2>1, <2>2, <2>3, <2>4 DEF Proxy!Dial
<1>4. CASE Proxy!Transfer(c)
  <2>1. CASE Proxy!Reply(c) \/ Proxy!WriteRest(c) \/ Proxy!Copy(c)
    BY <2>1 DEF Proxy!Reply, Proxy!WriteRest, Proxy!Copy
  <2>2. CASE Proxy!Finish(c) \/ Proxy!Break(c)
    BY <2>2 DEF Proxy!Finish, Proxy!Break
  <2>3. QED
    BY <1>4, <2>1, <2>2 DEF Proxy!Transfer
<1>5. QED
  BY <1>1, <1>2, <1>3, <1>4 DEF RelayStep

(* A connection leaves by the socket it has bound in its dial. *)
LEMMA PathRelay ==
  ASSUME PathInv, NEW c \in Conns, RelayStep(c)
  PROVE  PathInv'
<1> USE GatewayAssumption DEF GatewayAssumption, PathInv, ShapeOK, SocketOK, DeviceOK, SeenOK,
        Early, Open
<1>1. /\ via' = [via EXCEPT ![c] = IF sock'[c] = "none" THEN None
                                   ELSE IF ~bound[c] /\ bound'[c] THEN node ELSE @]
      /\ exits' = [exits EXCEPT ![c] = IF Reaches(c) THEN @ \cup ({Carrier(c)} \ {Gone}) ELSE @]
      /\ sock'[c] = "up" /\ sock[c] # "up" => Carrier(c) # Gone
      /\ UNCHANGED <<stage, node, checking>>
  BY DEF RelayStep, Path, sessionVars, checkVars
<1>2. UNCHANGED device /\ (Rests(c) \/ Shakes(c) \/ Closes(c) \/ Dials(c) \/ Writes(c))
  BY RelayMoves
<1>3. CASE Rests(c)
  BY <1>1, <1>2, <1>3 DEF Rests, Reaches
<1>4. CASE Shakes(c)
  BY <1>1, <1>2, <1>4 DEF Shakes, Sets, Reaches
<1>5. CASE Closes(c)
  BY <1>1, <1>2, <1>5 DEF Closes, Sets, Reaches
<1>6. CASE Dials(c)
  <2>1. CASE sock[c] = "none" /\ Sets(c, "dial", "new", bound[c])
    BY <1>1, <1>2, <1>6, <2>1 DEF Dials, Sets, Reaches
  <2>2. CASE Sets(c, "dial", "none", FALSE)
    BY <1>1, <1>2, <1>6, <2>2 DEF Dials, Sets, Reaches
  <2>3. CASE device /\ sock[c] = "new" /\ Sets(c, "dial", "ready", TRUE)
    BY <1>1, <1>2, <1>6, <2>3 DEF Dials, Sets, Reaches
  <2>4. CASE sock[c] = "ready" /\ Sets(c, "reply", "up", bound[c])
    <3>1. Carrier(c) = via[c] /\ via[c] \in Ids
      BY <1>1, <2>4 DEF Sets, Carrier
    <3>2. exits[c] = {} /\ sock'[c] = "up" /\ sock[c] # "up"
      BY <1>6, <2>4 DEF Dials, Sets
    <3>3. exits' = [exits EXCEPT ![c] = {via[c]}]
      <4>1. exits[c] \cup ({Carrier(c)} \ {Gone}) = {via[c]}
        BY <3>1, <3>2
      <4>2. exits' = [exits EXCEPT ![c] = exits[c] \cup ({Carrier(c)} \ {Gone})]
        BY <1>1, <3>2 DEF Reaches
      <4>3. QED
        BY <4>1, <4>2
    <3>4. via' = via
      BY <1>1, <2>4 DEF Sets
    <3>5. ShapeOK' /\ SocketOK'
      BY <1>1, <2>4, <3>1, <3>3, <3>4 DEF Sets
    <3>6. DeviceOK'
      BY <1>1, <1>2, <3>4
    <3>7. SeenOK'
      <4>1. phase'[c] = "reply" /\ exits'[c] = {via[c]} /\ Direct # via[c]
        BY <2>4, <3>1, <3>3 DEF Sets
      <4>2. \A d \in Conns \ {c} : exits'[d] = exits[d] /\ phase'[d] = phase[d]
        BY <2>4, <3>3 DEF Sets
      <4>3. QED
        BY <3>4, <4>1, <4>2
    <3>8. QED
      BY <3>5, <3>6, <3>7
  <2>5. QED
    BY <1>6, <2>1, <2>2, <2>3, <2>4 DEF Dials
<1>7. CASE Writes(c)
  <2>1. Carrier(c) = via[c] /\ via[c] \in Ids \cup {Gone} /\ via' = via
    BY <1>1, <1>7 DEF Writes, Sets, Carrier
  <2>2. exits'[c] \subseteq exits[c] \cup ({via[c]} \ {Gone})
    BY <1>1, <2>1
  <2>3. \A d \in Conns : d # c => exits'[d] = exits[d]
    BY <1>1
  <2>4. QED
    BY <1>1, <1>2, <1>7, <2>1, <2>2, <2>3 DEF Writes, Sets
<1>8. QED
  BY <1>2, <1>3, <1>4, <1>5, <1>6, <1>7

-----------------------------------------------------------------------------
(* One step of any kind keeps the invariant. *)
LEMMA PathNext ==
  ASSUME PathInv, [Next]_vars
  PROVE  PathInv'
<1> USE DEF PathInv, ShapeOK, SocketOK, DeviceOK, SeenOK, sessionVars, relayVars, pathVars,
        checkVars
<1>1. CASE RelayEnds
  BY <1>1 DEF RelayEnds, Proxy!AcceptFails, Proxy!dialVars
<1>2. CASE StartCheck
  BY <1>2 DEF StartCheck
<1>3. CASE CheckAnswers \/ CheckFails
  BY <1>3 DEF CheckAnswers, CheckFails, EndCheck
<1>4. CASE UNCHANGED vars
  BY <1>4 DEF vars
<1>5. QED
  BY <1>1, <1>2, <1>3, <1>4, PathSession, PathRelay DEF Next

(* The invariant holds of every state. *)
LEMMA PathInvariant == Spec => []PathInv
<1>1. PathInv /\ [Next]_vars => PathInv'
  BY PathNext
<1>2. QED
  BY <1>1, PathInit, PTL DEF Spec

(* Upstream sees one exit of a connection, never the host, through every   *)
(* loss of the tunnel and every new session.                               *)
THEOREM OneExitHolds == Spec => []OneExit
<1>1. PathInv => OneExit
  BY DEF PathInv, SeenOK, OneExit
<1>2. QED
  BY <1>1, PathInvariant, PTL

(* The exit IP shown is that of the node reported when it is shown. *)
THEOREM ExitHonestHolds == Spec => ExitHonest
<1>1. ASSUME PathInv, [Next]_vars, answer' # answer
      PROVE  stage = "reported" /\ answer' = node
  <2>1. CheckAnswers
    BY <1>1 DEF Next, vars, SessionStep, RelayStep, RelayEnds, StartCheck, CheckFails, checkVars
  <2>2. via[Check] \in Ids /\ answer' = via[Check]
    BY <1>1, <2>1, GatewayAssumption
       DEF CheckAnswers, Carrier, PathInv, ShapeOK, SocketOK, Conns, GatewayAssumption
  <2>3. QED
    BY <1>1, <2>1, <2>2 DEF CheckAnswers, PathInv, DeviceOK, Conns
<1>2. PathInv /\ [Next]_vars => [answer' # answer => stage = "reported" /\ answer' = node]_vars
  BY <1>1
<1>3. QED
  BY <1>2, PathInvariant, PTL DEF Spec, ExitHonest

-----------------------------------------------------------------------------
(* The relay inside the gateway and the relay that RelayProofs is about.   *)
Alone == INSTANCE RelayProofs

(* The parameters of the gateway fit the relay. *)
LEMMA RelayFits == Alone!RelayAssumption
BY GatewayAssumption DEF GatewayAssumption, Alone!RelayAssumption

(* They have the same steps. *)
LEMMA SameNext == [Proxy!Next]_Proxy!vars <=> [Alone!Next]_Alone!vars
<1>1. Proxy!Fds = Alone!Fds
  <2>1. Proxy!Live = Alone!Live
    BY DEF Proxy!Live, Alone!Live
  <2>2. \A S : Proxy!Cardinality(S) = Alone!Cardinality(S)
    BY DEF Proxy!Cardinality, Alone!Cardinality, Proxy!IsFiniteSet, Alone!IsFiniteSet
  <2>3. QED
    BY <2>1, <2>2 DEF Proxy!Fds, Alone!Fds
<1> USE DEF Proxy!vars, Alone!vars, Proxy!inputVars, Alone!inputVars, Proxy!dialVars,
            Alone!dialVars, Proxy!outVars, Alone!outVars, Proxy!End, Alone!End, Proxy!Socks,
            Alone!Socks, Proxy!Units, Alone!Units, Proxy!Live, Alone!Live, Proxy!At, Alone!At,
            Proxy!Goto, Alone!Goto, Proxy!Tell, Alone!Tell, Proxy!Close, Alone!Close,
            Proxy!Unread, Alone!Unread, Proxy!Target, Alone!Target, Proxy!NextAddress,
            Alone!NextAddress
<1>2. \A c \in Conns : Proxy!Accept(c) <=> Alone!Accept(c)
  BY <1>1 DEF Proxy!Accept, Alone!Accept
<1>3. \A c \in Conns : Proxy!ReadGreeting(c) <=> Alone!ReadGreeting(c)
  BY <1>1 DEF Proxy!ReadGreeting, Alone!ReadGreeting
<1>4. \A c \in Conns : Proxy!ReadRequest(c) <=> Alone!ReadRequest(c)
  BY <1>1 DEF Proxy!ReadRequest, Alone!ReadRequest
<1>5. \A c \in Conns : Proxy!RefuseCommand(c) <=> Alone!RefuseCommand(c)
  BY <1>1 DEF Proxy!RefuseCommand, Alone!RefuseCommand
<1>6. \A c \in Conns : Proxy!ReadHead(c) <=> Alone!ReadHead(c)
  BY <1>1 DEF Proxy!ReadHead, Alone!ReadHead
<1>7. \A c \in Conns : Proxy!EarlyEnd(c) <=> Alone!EarlyEnd(c)
  BY <1>1 DEF Proxy!EarlyEnd, Alone!EarlyEnd
<1>0. \A c \in Conns : Proxy!Resolve(c) <=> Alone!Resolve(c)
  BY <1>1 DEF Proxy!Resolve, Alone!Resolve
<1>8. \A c \in Conns : Proxy!Socket(c) <=> Alone!Socket(c)
  BY <1>1 DEF Proxy!Socket, Alone!Socket
<1>9. \A c \in Conns : Proxy!Bind(c) <=> Alone!Bind(c)
  BY <1>1 DEF Proxy!Bind, Alone!Bind
<1>10. \A c \in Conns : Proxy!Connect(c) <=> Alone!Connect(c)
  BY <1>1 DEF Proxy!Connect, Alone!Connect
<1>11. \A c \in Conns : Proxy!DialFails(c) <=> Alone!DialFails(c)
  BY <1>1 DEF Proxy!DialFails, Alone!DialFails
<1>12. \A c \in Conns : Proxy!Reply(c) <=> Alone!Reply(c)
  BY <1>1 DEF Proxy!Reply, Alone!Reply
<1>13. \A c \in Conns : Proxy!WriteRest(c) <=> Alone!WriteRest(c)
  BY <1>1 DEF Proxy!WriteRest, Alone!WriteRest
<1>14. \A c \in Conns : Proxy!Copy(c) <=> Alone!Copy(c)
  BY <1>1 DEF Proxy!Copy, Alone!Copy
<1>15. \A c \in Conns : Proxy!Finish(c) <=> Alone!Finish(c)
  BY <1>1 DEF Proxy!Finish, Alone!Finish
<1>16. \A c \in Conns : Proxy!Break(c) <=> Alone!Break(c)
  BY <1>1 DEF Proxy!Break, Alone!Break
<1>17. \A c \in Conns : Proxy!Send(c) <=> Alone!Send(c)
  BY <1>1 DEF Proxy!Send, Alone!Send
<1>18. \A c \in Conns : Proxy!EndInput(c) <=> Alone!EndInput(c)
  BY <1>1 DEF Proxy!EndInput, Alone!EndInput
<1>19. Proxy!AcceptFails <=> Alone!AcceptFails
  BY DEF Proxy!AcceptFails, Alone!AcceptFails
<1>20. Proxy!TunnelChanges <=> Alone!TunnelChanges
  BY DEF Proxy!TunnelChanges, Alone!TunnelChanges
<1>21. Proxy!vars = Alone!vars
  OBVIOUS
<1>22. Proxy!Next <=> Alone!Next
  BY <1>0, <1>2, <1>3, <1>4, <1>5, <1>6, <1>7, <1>8, <1>9, <1>10, <1>11, <1>12, <1>13, <1>14, <1>15,
     <1>16, <1>17, <1>18, <1>19, <1>20
     DEF Proxy!Next, Alone!Next, Proxy!Handshake, Alone!Handshake, Proxy!Dial, Alone!Dial,
         Proxy!Transfer, Alone!Transfer
<1>23. QED
  BY <1>21, <1>22

(* And the same first states and promises. *)
LEMMA SameRelay ==
  /\ Proxy!Init <=> Alone!Init
  /\ Proxy!TypeOK <=> Alone!TypeOK
<1> USE DEF Proxy!End, Alone!End, Proxy!Phases, Alone!Phases
<1>1. Proxy!Init <=> Alone!Init
  BY DEF Proxy!Init, Alone!Init
<1>2. Proxy!TypeOK <=> Alone!TypeOK
  BY DEF Proxy!TypeOK, Alone!TypeOK
<1>3. QED
  BY <1>1, <1>2

-----------------------------------------------------------------------------
(* The gateway implements the relay. *)

(* Where the handlers of accepted connections stand. *)
Moved == (Early \ {"none"}) \cup Open \cup {"dial", "closed"}

(* The check's connection has not ended before its client is dropped. *)
CheckOK ==
  /\ device \in BOOLEAN /\ gone \in [Conns -> BOOLEAN]
  /\ checking \/ phase[Check] = "none" => ~gone[Check]

(* Every step of the gateway is a step of the relay, or none of it.        *)
LEMMA RelayNext ==
  ASSUME ShapeOK, CheckOK, [Next]_vars
  PROVE  [Proxy!Next]_Proxy!vars /\ CheckOK'
<1> USE DEF CheckOK, Conns, Proxy!vars, Proxy!inputVars, Proxy!dialVars, Proxy!outVars, relayVars, sessionVars,
        pathVars, checkVars
<1>1. CASE SessionStep
  <2>1. UNCHANGED <<relayVars, checking>> /\ device' \in BOOLEAN
    BY <1>1 DEF SessionStep, Control, ControlUngated, Session!Rise, Session!Ready,
          Session!GiveUp, Session!Report, Session!Withdraw, Session!Lose
  <2>2. device' = device \/ Proxy!TunnelChanges
    BY <2>1 DEF Proxy!TunnelChanges
  <2>3. QED
    BY <2>1, <2>2 DEF Proxy!Next
<1>2. ASSUME NEW c \in Conns, RelayStep(c)
      PROVE  Proxy!Next /\ CheckOK'
  <2>1. Proxy!Next
    BY <1>2 DEF RelayStep, Proxy!Next
  <2>2. UNCHANGED checking
    BY <1>2 DEF RelayStep
  <2>3. CASE Proxy!EndInput(c) /\ c # Check
    <3>1. UNCHANGED <<device, phase>> /\ gone' = [gone EXCEPT ![c] = TRUE]
      BY <2>3 DEF Proxy!EndInput
    <3>2. gone'[Check] = gone[Check]
      BY <2>3, <3>1
    <3>3. QED
      BY <2>1, <2>2, <3>1, <3>2
  <2>4. CASE \/ Proxy!Accept(c) \/ Proxy!Send(c)
             \/ Proxy!Handshake(c) \/ Proxy!Dial(c) \/ Proxy!Transfer(c)
    <3>1. UNCHANGED gone /\ (phase' = phase \/ \E p \in Moved : phase' = [phase EXCEPT ![c] = p])
      <4> USE DEF Proxy!At, Proxy!Goto, Proxy!Close, Moved, Early, Open
      <4>1. CASE Proxy!Accept(c) \/ Proxy!Send(c)
        BY <4>1 DEF Proxy!Accept, Proxy!Send
      <4>2. CASE Proxy!Handshake(c)
        <5>1. CASE Proxy!ReadHead(c)
          BY <5>1 DEF Proxy!ReadHead, Proxy!Target
        <5>2. QED
          BY <4>2, <5>1 DEF Proxy!Handshake, Proxy!ReadGreeting, Proxy!ReadRequest,
                Proxy!Target, Proxy!RefuseCommand, Proxy!EarlyEnd
      <4>3. CASE Proxy!Dial(c)
        BY <4>3 DEF Proxy!Dial, Proxy!Resolve, Proxy!Socket, Proxy!Bind, Proxy!Connect,
              Proxy!DialFails
      <4>4. CASE Proxy!Transfer(c)
        BY <4>4 DEF Proxy!Transfer, Proxy!Reply, Proxy!WriteRest, Proxy!Copy, Proxy!Finish,
              Proxy!Break
      <4>5. QED
        BY <2>4, <4>1, <4>2, <4>3, <4>4
    <3>2. phase'[Check] = "none" => phase[Check] = "none"
      BY <3>1 DEF Moved, Early, Open, ShapeOK
    <3>3. device' = device
      BY <1>2, RelayMoves
    <3>4. QED
      BY <2>1, <2>2, <3>1, <3>2, <3>3
  <2>5. QED
    BY <1>2, <2>1, <2>3, <2>4 DEF RelayStep
<1>3. CASE RelayEnds
  BY <1>3 DEF RelayEnds, Proxy!Next, Proxy!AcceptFails
<1>4. CASE StartCheck
  BY <1>4 DEF StartCheck
<1>5. CASE CheckAnswers \/ CheckFails
  <2>1. checking /\ EndCheck
    BY <1>5 DEF CheckAnswers, CheckFails
  <2>2. CASE Check \in Proxy!Live
    BY <2>1, <2>2 DEF EndCheck, Proxy!EndInput, Proxy!Next, Proxy!Live
  <2>3. CASE Check \notin Proxy!Live
    BY <2>1, <2>3 DEF EndCheck
  <2>4. QED
    BY <2>2, <2>3
<1>6. CASE UNCHANGED vars
  BY <1>6 DEF vars
<1>7. QED
  BY <1>1, <1>2, <1>3, <1>4, <1>5, <1>6 DEF Next

(* The first states of the gateway are first states of the relay.          *)
LEMMA RelayInit == Init => Proxy!Init /\ CheckOK
<1> SUFFICES ASSUME Init PROVE Proxy!Init /\ CheckOK
  OBVIOUS
<1>1. Check \in Conns
  BY DEF Conns
<1>2. Proxy!Init /\ gone = [c \in Conns |-> FALSE] /\ device = FALSE
  BY DEF Init, Proxy!Init
<1>3. QED
  BY <1>1, <1>2 DEF CheckOK

(* What the gateway adds to the relay takes nothing away from it: the      *)
(* sessions and the exit check only make the device come and go and send   *)
(* what any client may send.                                               *)
LEMMA RelayKept == Spec => Proxy!Spec
<1>1. PathInv /\ CheckOK /\ [Next]_vars => [Proxy!Next]_Proxy!vars /\ CheckOK'
  BY RelayNext DEF PathInv
<1>2. QED
  BY <1>1, RelayInit, PathInvariant, PTL DEF Spec, Proxy!Spec

(* So an execution of the gateway is one of the relay in RelayProofs.      *)
LEMMA AloneKept == Spec => Alone!Spec
<1>1. [Proxy!Next]_Proxy!vars => [Alone!Next]_Alone!vars
  BY SameNext
<1>2. Proxy!Init => Alone!Init
  BY SameRelay
<1>3. QED
  BY <1>1, <1>2, RelayKept, PTL DEF Proxy!Spec, Alone!Spec

(* What is proved of the relay by itself holds of it here: connections are *)
(* made through the tunnel, streams arrive whole, a client gets one verdict.    *)
THEOREM RelayPromises ==
  Spec => [](Proxy!FailClosed /\ Proxy!StreamIntact /\ Proxy!OneVerdict)
<1>1. Alone!Spec => [](Alone!FailClosed /\ Alone!StreamIntact /\ Alone!OneVerdict)
  BY RelayFits, Alone!FailClosedHolds, Alone!StreamIntactHolds, Alone!OneVerdictHolds, PTL
<1>2. Alone!FailClosed => Proxy!FailClosed
  BY DEF Alone!FailClosed, Proxy!FailClosed
<1>3. Alone!StreamIntact => Proxy!StreamIntact
  BY DEF Alone!StreamIntact, Proxy!StreamIntact, Alone!IsPrefix, Proxy!IsPrefix,
         Alone!Expected, Proxy!Expected, Alone!Units, Proxy!Units, Alone!At, Proxy!At
<1>4. Alone!OneVerdict => Proxy!OneVerdict
  BY DEF Alone!OneVerdict, Proxy!OneVerdict, Alone!At, Proxy!At
<1>5. QED
  BY <1>1, <1>2, <1>3, <1>4, AloneKept, PTL

-----------------------------------------------------------------------------
(* Types. *)

SessionTypes ==
  /\ stage \in {"down", "risen", "ready", "reported"} /\ node \in Ids \cup {None}
  /\ checking \in BOOLEAN /\ answer \in Ids \cup {None, Direct}

(* What the session and the exit check keep stays in its type.             *)
LEMMA SessionTypesNext ==
  ASSUME PathInv, SessionTypes, [Next]_vars
  PROVE  SessionTypes'
<1> USE DEF SessionTypes, sessionVars, checkVars
<1>1. CASE SessionStep
  BY <1>1 DEF SessionStep, Control, ControlUngated, Session!Rise, Session!Ready,
        Session!GiveUp, Session!Report, Session!Withdraw, Session!Lose
<1>2. CASE (\E c \in Conns : RelayStep(c)) \/ RelayEnds
  BY <1>2 DEF RelayStep, RelayEnds
<1>3. CASE StartCheck \/ CheckFails
  BY <1>3 DEF StartCheck, CheckFails, EndCheck
<1>4. CASE CheckAnswers
  <2>1. Carrier(Check) \in Ids \cup {Direct}
    BY <1>4 DEF CheckAnswers, Carrier, PathInv, ShapeOK, SocketOK, Conns
  <2>2. QED
    BY <1>4, <2>1 DEF CheckAnswers, EndCheck
<1>5. CASE UNCHANGED vars
  BY <1>5 DEF vars
<1>6. QED
  BY <1>1, <1>2, <1>3, <1>4, <1>5 DEF Next

(* Every variable of the gateway keeps its type, those of the relay        *)
(* because it is kept as it is.                                            *)
THEOREM TypeCorrect == Spec => []TypeOK
<1>1. Init => SessionTypes
  BY DEF Init, Session!Init, SessionTypes
<1>2. PathInv /\ SessionTypes /\ [Next]_vars => SessionTypes'
  BY SessionTypesNext
<1>3. Alone!Spec => []Alone!TypeOK
  BY RelayFits, Alone!TypeCorrect
<1>4. PathInv /\ SessionTypes /\ Alone!TypeOK => TypeOK
  BY SameRelay DEF PathInv, ShapeOK, SessionTypes, TypeOK
<1>5. QED
  BY <1>1, <1>2, <1>3, <1>4, PathInvariant, AloneKept, PTL DEF Spec
=============================================================================
