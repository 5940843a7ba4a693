---------------------------- MODULE ClientProofs ----------------------------
(***************************************************************************)
(* What module Client promises, proved for every number of connections,    *)
(* requests, faults and upgrades: the types, that the daemon's session is  *)
(* bound to the connection the client has, that a request which is waited  *)
(* for is on its way, and that a start starts one task.                    *)
(*                                                                         *)
(* The types are not inductive alone: that connect() finds no socket it    *)
(* would leak needs FlowOk, what onClose, connectFlow and reconnectLoop    *)
(* leave of the socket.  PendingInFlight rests on FlowOk and WaitingOk:    *)
(* while there is no connection the only promises left are those that      *)
(* reconnectLoop will send again, and it sends every one of them.          *)
(***************************************************************************)
EXTENDS Client, TLAPS

(* The types, in three parts: where the client stands, the requests and    *)
(* frames, and the daemon.                                                 *)
FlowTypes ==
  /\ cstate \in {"disconnected", "connected", "unavailable"}
  /\ flow \in {"none", "connect", "reconnect"}
  /\ at \in {"off", "dial", "hello", "pause"}
  /\ (flow = "none") <=> (at = "off")
  /\ try \in 1..3
  /\ sock \in Conn \cup {None}
  /\ at = "dial" => sock = None
  /\ intentional \in BOOLEAN /\ rebound \in BOOLEAN

WireTypes ==
  /\ st \in [Req -> {"new", "pending", "queued", "resolved", "rejected"}]
  /\ link \in [Conn -> {"free", "hello", "open", "refused", "rebound", "shut"}]
  /\ frames \subseteq Frame
  /\ tasks \in [Start -> 0..2]

DaemonTypes ==
  /\ mode \in {"down", "up", "parking", "handing", "stopping"}
  /\ quit \in BOOLEAN /\ hold \in BOOLEAN
  /\ sess \in Conn \cup {None, Other}
  /\ timer \in {"off", "armed", "fired"}
  /\ lastUpgrade \in {"none", "ok", "failed"}
  /\ faults \in 0..MaxFaults /\ upgrades \in 0..MaxUpgrades

LEMMA TypeParts == TypeOK <=> FlowTypes /\ WireTypes /\ DaemonTypes
BY DEF TypeOK, FlowTypes, WireTypes, DaemonTypes

LEMMA Bounds == /\ MaxConn \in Nat /\ MaxFaults \in Nat /\ MaxUpgrades \in Nat
                /\ Start \subseteq Req
BY ClientAssumption DEF ClientAssumption, Req

(* Where the client stands, by its flow. *)
FlowOk ==
  /\ cstate = "connected" => flow = "none" /\ sock # None
  /\ sock # None => at \in {"off", "hello"}
  /\ at = "hello" => sock # None
  /\ sock # None /\ at = "off" => cstate = "connected" /\ link[sock] \in {"open", "rebound", "shut"}

LEMMA SentFrames ==
  ASSUME sock \in Conn, NEW rs \in SUBSET Req
  PROVE  Sent(rs) \subseteq Frame
BY DEF Sent, Frame, FrameAt

LEMMA InitTypeOK == Init => TypeOK
<1> SUFFICES ASSUME Init PROVE FlowTypes /\ WireTypes /\ DaemonTypes
  BY TypeParts
<1> USE DEF Init
<1>1. intentional \in BOOLEAN /\ rebound \in BOOLEAN /\ quit \in BOOLEAN /\ hold \in BOOLEAN
  BY Zenon
<1>2. FlowTypes
  BY <1>1 DEF FlowTypes
<1>3. WireTypes
  BY DEF WireTypes, Frame
<1>4. DaemonTypes
  BY <1>1, Bounds DEF DaemonTypes
<1>5. QED
  BY <1>2, <1>3, <1>4

LEMMA StepFlowTypes == TypeOK /\ FlowOk /\ [Next]_vars => FlowTypes'
<1> SUFFICES ASSUME FlowTypes, WireTypes, DaemonTypes, FlowOk, [Next]_vars PROVE FlowTypes'
  BY TypeParts
<1> USE Bounds
<1> USE DEF vars, flowVars, clientVars, daemonVars, upgradeVars, Fault,
        FlowTypes, FlowOk, Conn
<1>1. CASE Next
  <2>1. ASSUME Connect PROVE FlowTypes'
    <3>1. intentional' \in BOOLEAN
      BY <2>1, Zenon DEF Connect
    <3>2. QED
      BY <2>1, <3>1 DEF Connect
  <2>2. ASSUME NEW r \in Req, Request(r) PROVE FlowTypes'
    BY <2>2 DEF Request, Sent
  <2>3. ASSUME NEW r \in Req, TimeOut(r) PROVE FlowTypes'
    BY <2>3 DEF TimeOut, Unsettled
  <2>4. ASSUME Dial PROVE FlowTypes'
    BY <2>4 DEF Dial, FreeConns
  <2>5. ASSUME SpawnManager PROVE FlowTypes'
    BY <2>5 DEF SpawnManager, Thrown
  <2>6. ASSUME DialFails PROVE FlowTypes'
    BY <2>6 DEF DialFails, Thrown
  <2>7. ASSUME HelloAnswered PROVE FlowTypes'
    BY <2>7 DEF HelloAnswered, ResendPending, Resendable, Unsettled, Sent
  <2>8. ASSUME SocketCloses PROVE FlowTypes'
    <3>1. CASE rebound' = TRUE /\ UNCHANGED <<cstate, flowVars, sock, intentional>>
      <4>1. rebound' \in BOOLEAN
        BY <3>1, Zenon
      <4>2. QED
        BY <3>1, <4>1
    <3>2. CASE OnClose /\ UNCHANGED rebound
      BY <3>2 DEF OnClose, HelloFailed, Thrown
    <3>3. QED
      BY <2>8, <3>1, <3>2 DEF SocketCloses
  <2>9. ASSUME ReconnectLoop PROVE FlowTypes'
    <3>1. sock = None \/ sock \in Conn
      OBVIOUS
    <3>2. QED
      BY <2>9 DEF ReconnectLoop
  <2>10. ASSUME HelloRefused PROVE FlowTypes'
    BY <2>10 DEF HelloRefused, HelloFailed, Thrown
  <2>11. ASSUME NEW f \in frames, Settle(f) PROVE FlowTypes'
    BY <2>11 DEF Settle
  <2>12. ASSUME ProtocolError PROVE FlowTypes'
    BY <2>12 DEF ProtocolError, OnClose, HelloFailed, Thrown, SurvivesClose
  <2>13. ASSUME Close PROVE FlowTypes'
    BY <2>13 DEF Close, HelloFailed, Thrown, AllFailed, Unsettled
  <2>14. ASSUME NEW c \in Conn, Register(c) PROVE FlowTypes'
    BY <2>14 DEF Register
  <2>15. ASSUME NEW c \in Conn, ReaderEnds(c) PROVE FlowTypes'
    BY <2>15 DEF ReaderEnds, Unbound, ArmIdle
  <2>16. ASSUME NEW f \in frames, Handle(f) PROVE FlowTypes'
    BY <2>16 DEF Handle, Answered
  <2>17. ASSUME NEW f \in frames, StartInserted(f) PROVE FlowTypes'
    BY <2>17 DEF StartInserted, Answered
  <2>18. ASSUME NEW f \in frames, HandlerEnds(f) PROVE FlowTypes'
    BY <2>18 DEF HandlerEnds, Answered
  <2>19. ASSUME CloseAllConnections PROVE FlowTypes'
    BY <2>19 DEF CloseAllConnections
  <2>20. ASSUME Exec PROVE FlowTypes'
    BY <2>20 DEF Exec, LinksLost
  <2>21. ASSUME HoldEnds PROVE FlowTypes'
    BY <2>21 DEF HoldEnds, ArmIdle
  <2>22. ASSUME IdleFires PROVE FlowTypes'
    BY <2>22 DEF IdleFires
  <2>23. ASSUME BeginShutdown PROVE FlowTypes'
    BY <2>23 DEF BeginShutdown
  <2>24. ASSUME Exits PROVE FlowTypes'
    BY <2>24 DEF Exits, LinksLost
  <2>25. ASSUME Takeover PROVE FlowTypes'
    BY <2>25 DEF Takeover
  <2>26. ASSUME OtherLeaves PROVE FlowTypes'
    BY <2>26 DEF OtherLeaves, ArmIdle
  <2>27. ASSUME BeginUpgrade PROVE FlowTypes'
    BY <2>27 DEF BeginUpgrade
  <2>28. ASSUME UpgradeFails PROVE FlowTypes'
    BY <2>28 DEF UpgradeFails, ArmIdle
  <2>29. QED
    BY <1>1, <2>1, <2>2, <2>3, <2>4, <2>5, <2>6, <2>7, <2>8, <2>9, <2>10,
       <2>11, <2>12, <2>13, <2>14, <2>15, <2>16, <2>17, <2>18, <2>19, <2>20,
       <2>21, <2>22, <2>23, <2>24, <2>25, <2>26, <2>27, <2>28
       DEF Next, ClientStep, DaemonStep
<1>2. CASE UNCHANGED vars
  BY <1>2
<1>3. QED
  BY <1>1, <1>2

LEMMA StepWireTypes == TypeOK /\ FlowOk /\ [Next]_vars => WireTypes'
<1> SUFFICES ASSUME FlowTypes, WireTypes, DaemonTypes, FlowOk, [Next]_vars PROVE WireTypes'
  BY TypeParts
<1> USE Bounds
<1> USE DEF vars, flowVars, clientVars, daemonVars, upgradeVars, Fault,
        WireTypes, Frame, FrameAt
<1>1. CASE Next
  <2>1. ASSUME Connect PROVE WireTypes'
    BY <2>1 DEF Connect
  <2>2. ASSUME NEW r \in Req, Request(r) PROVE WireTypes'
    <3>1. sock # None => Sent({r}) \subseteq Frame
      BY SentFrames DEF FlowTypes
    <3>2. QED
      BY <2>2, <3>1 DEF Request
  <2>3. ASSUME NEW r \in Req, TimeOut(r) PROVE WireTypes'
    BY <2>3 DEF TimeOut, Unsettled
  <2>4. ASSUME Dial PROVE WireTypes'
    BY <2>4 DEF Dial, FreeConns
  <2>5. ASSUME SpawnManager PROVE WireTypes'
    BY <2>5 DEF SpawnManager, Thrown
  <2>6. ASSUME DialFails PROVE WireTypes'
    BY <2>6 DEF DialFails, Thrown
  <2>7. ASSUME HelloAnswered PROVE WireTypes'
    <3>1. Sent(Resendable) \subseteq Frame
      BY <2>7, SentFrames DEF HelloAnswered, Resendable, FlowTypes, FlowOk
    <3>2. QED
      BY <2>7, <3>1 DEF HelloAnswered, ResendPending
  <2>8. ASSUME SocketCloses PROVE WireTypes'
    BY <2>8 DEF SocketCloses, OnClose, HelloFailed, Thrown, SurvivesClose
  <2>9. ASSUME ReconnectLoop PROVE WireTypes'
    BY <2>9 DEF ReconnectLoop, AllFailed, Unsettled
  <2>10. ASSUME HelloRefused PROVE WireTypes'
    BY <2>10 DEF HelloRefused, HelloFailed, Thrown
  <2>11. ASSUME NEW f \in frames, Settle(f) PROVE WireTypes'
    BY <2>11 DEF Settle
  <2>12. ASSUME ProtocolError PROVE WireTypes'
    BY <2>12 DEF ProtocolError, OnClose, HelloFailed, Thrown, SurvivesClose
  <2>13. ASSUME Close PROVE WireTypes'
    BY <2>13 DEF Close, HelloFailed, Thrown, AllFailed, Unsettled
  <2>14. ASSUME NEW c \in Conn, Register(c) PROVE WireTypes'
    BY <2>14 DEF Register
  <2>15. ASSUME NEW c \in Conn, ReaderEnds(c) PROVE WireTypes'
    BY <2>15 DEF ReaderEnds, Unbound, ArmIdle
  <2>16. ASSUME NEW f \in frames, Handle(f) PROVE WireTypes'
    BY <2>16 DEF Handle, Answered
  <2>17. ASSUME NEW f \in frames, StartInserted(f) PROVE WireTypes'
    <3>1. tasks' \in [Start -> 0..2]
      <4>1. tasks' = [tasks EXCEPT ![f.req] = IF @ = 2 THEN 2 ELSE @ + 1]
        BY <2>17 DEF StartInserted
      <4>2. ASSUME NEW s \in Start PROVE tasks'[s] \in 0..2
        BY <4>1
      <4>3. QED
        BY <4>1, <4>2
    <3>2. QED
      BY <2>17, <3>1 DEF StartInserted, Answered
  <2>18. ASSUME NEW f \in frames, HandlerEnds(f) PROVE WireTypes'
    BY <2>18 DEF HandlerEnds, Answered
  <2>19. ASSUME CloseAllConnections PROVE WireTypes'
    BY <2>19 DEF CloseAllConnections
  <2>20. ASSUME Exec PROVE WireTypes'
    BY <2>20 DEF Exec, LinksLost
  <2>21. ASSUME HoldEnds PROVE WireTypes'
    BY <2>21 DEF HoldEnds, ArmIdle
  <2>22. ASSUME IdleFires PROVE WireTypes'
    BY <2>22 DEF IdleFires
  <2>23. ASSUME BeginShutdown PROVE WireTypes'
    BY <2>23 DEF BeginShutdown
  <2>24. ASSUME Exits PROVE WireTypes'
    BY <2>24 DEF Exits, LinksLost
  <2>25. ASSUME Takeover PROVE WireTypes'
    BY <2>25 DEF Takeover
  <2>26. ASSUME OtherLeaves PROVE WireTypes'
    BY <2>26 DEF OtherLeaves, ArmIdle
  <2>27. ASSUME BeginUpgrade PROVE WireTypes'
    BY <2>27 DEF BeginUpgrade
  <2>28. ASSUME UpgradeFails PROVE WireTypes'
    BY <2>28 DEF UpgradeFails, ArmIdle
  <2>29. QED
    BY <1>1, <2>1, <2>2, <2>3, <2>4, <2>5, <2>6, <2>7, <2>8, <2>9, <2>10,
       <2>11, <2>12, <2>13, <2>14, <2>15, <2>16, <2>17, <2>18, <2>19, <2>20,
       <2>21, <2>22, <2>23, <2>24, <2>25, <2>26, <2>27, <2>28
       DEF Next, ClientStep, DaemonStep
<1>2. CASE UNCHANGED vars
  BY <1>2
<1>3. QED
  BY <1>1, <1>2

LEMMA StepDaemonTypes == TypeOK /\ FlowOk /\ [Next]_vars => DaemonTypes'
<1> SUFFICES ASSUME FlowTypes, WireTypes, DaemonTypes, FlowOk, [Next]_vars PROVE DaemonTypes'
  BY TypeParts
<1> USE Bounds
<1> USE DEF vars, flowVars, clientVars, daemonVars, upgradeVars, Fault,
        DaemonTypes, Conn, Other
<1>1. CASE Next
  <2>1. ASSUME Connect PROVE DaemonTypes'
    BY <2>1 DEF Connect
  <2>2. ASSUME NEW r \in Req, Request(r) PROVE DaemonTypes'
    BY <2>2 DEF Request, Sent
  <2>3. ASSUME NEW r \in Req, TimeOut(r) PROVE DaemonTypes'
    BY <2>3 DEF TimeOut, Unsettled
  <2>4. ASSUME Dial PROVE DaemonTypes'
    BY <2>4 DEF Dial, FreeConns
  <2>5. ASSUME SpawnManager PROVE DaemonTypes'
    <3>1. quit' \in BOOLEAN /\ hold' \in BOOLEAN
      BY <2>5, Zenon DEF SpawnManager, Thrown
    <3>2. QED
      BY <2>5, <3>1 DEF SpawnManager, Thrown
  <2>6. ASSUME DialFails PROVE DaemonTypes'
    BY <2>6 DEF DialFails, Thrown
  <2>7. ASSUME HelloAnswered PROVE DaemonTypes'
    BY <2>7 DEF HelloAnswered, ResendPending, Resendable, Unsettled, Sent
  <2>8. ASSUME SocketCloses PROVE DaemonTypes'
    BY <2>8 DEF SocketCloses, OnClose, HelloFailed, Thrown, SurvivesClose
  <2>9. ASSUME ReconnectLoop PROVE DaemonTypes'
    BY <2>9 DEF ReconnectLoop, AllFailed, Unsettled
  <2>10. ASSUME HelloRefused PROVE DaemonTypes'
    BY <2>10 DEF HelloRefused, HelloFailed, Thrown
  <2>11. ASSUME NEW f \in frames, Settle(f) PROVE DaemonTypes'
    BY <2>11 DEF Settle
  <2>12. ASSUME ProtocolError PROVE DaemonTypes'
    BY <2>12 DEF ProtocolError, OnClose, HelloFailed, Thrown, SurvivesClose
  <2>13. ASSUME Close PROVE DaemonTypes'
    BY <2>13 DEF Close, HelloFailed, Thrown, AllFailed, Unsettled
  <2>14. ASSUME NEW c \in Conn, Register(c) PROVE DaemonTypes'
    BY <2>14 DEF Register
  <2>15. ASSUME NEW c \in Conn, ReaderEnds(c) PROVE DaemonTypes'
    BY <2>15 DEF ReaderEnds, Unbound, ArmIdle
  <2>16. ASSUME NEW f \in frames, Handle(f) PROVE DaemonTypes'
    BY <2>16 DEF Handle, Answered
  <2>17. ASSUME NEW f \in frames, StartInserted(f) PROVE DaemonTypes'
    BY <2>17 DEF StartInserted, Answered
  <2>18. ASSUME NEW f \in frames, HandlerEnds(f) PROVE DaemonTypes'
    BY <2>18 DEF HandlerEnds, Answered
  <2>19. ASSUME CloseAllConnections PROVE DaemonTypes'
    BY <2>19 DEF CloseAllConnections
  <2>20. ASSUME Exec PROVE DaemonTypes'
    BY <2>20 DEF Exec, LinksLost
  <2>21. ASSUME HoldEnds PROVE DaemonTypes'
    BY <2>21 DEF HoldEnds, ArmIdle
  <2>22. ASSUME IdleFires PROVE DaemonTypes'
    BY <2>22 DEF IdleFires
  <2>23. ASSUME BeginShutdown PROVE DaemonTypes'
    BY <2>23 DEF BeginShutdown
  <2>24. ASSUME Exits PROVE DaemonTypes'
    <3>1. quit' \in BOOLEAN /\ hold' \in BOOLEAN
      BY <2>24, Zenon DEF Exits, LinksLost
    <3>2. QED
      BY <2>24, <3>1 DEF Exits, LinksLost
  <2>25. ASSUME Takeover PROVE DaemonTypes'
    BY <2>25 DEF Takeover
  <2>26. ASSUME OtherLeaves PROVE DaemonTypes'
    BY <2>26 DEF OtherLeaves, ArmIdle
  <2>27. ASSUME BeginUpgrade PROVE DaemonTypes'
    BY <2>27 DEF BeginUpgrade
  <2>28. ASSUME UpgradeFails PROVE DaemonTypes'
    BY <2>28 DEF UpgradeFails, ArmIdle
  <2>29. QED
    BY <1>1, <2>1, <2>2, <2>3, <2>4, <2>5, <2>6, <2>7, <2>8, <2>9, <2>10,
       <2>11, <2>12, <2>13, <2>14, <2>15, <2>16, <2>17, <2>18, <2>19, <2>20,
       <2>21, <2>22, <2>23, <2>24, <2>25, <2>26, <2>27, <2>28
       DEF Next, ClientStep, DaemonStep
<1>2. CASE UNCHANGED vars
  BY <1>2
<1>3. QED
  BY <1>1, <1>2

LEMMA StepTypeOK == TypeOK /\ FlowOk /\ [Next]_vars => TypeOK'
<1> SUFFICES ASSUME TypeOK, FlowOk, [Next]_vars PROVE FlowTypes' /\ WireTypes' /\ DaemonTypes'
  BY DEF TypeOK, FlowTypes, WireTypes, DaemonTypes
<1>1. QED
  BY StepFlowTypes, StepWireTypes, StepDaemonTypes

LEMMA StepFlowOk == TypeOK /\ FlowOk /\ [Next]_vars => FlowOk'
<1> SUFFICES ASSUME FlowTypes, WireTypes, FlowOk, [Next]_vars PROVE FlowOk'
  BY TypeParts
<1> USE DEF vars, flowVars, clientVars, daemonVars, upgradeVars, Fault,
        FlowTypes, WireTypes, FlowOk, Conn, None
<1>1. CASE Next
  <2>1. ASSUME Connect PROVE FlowOk'
    BY <2>1 DEF Connect
  <2>2. ASSUME NEW r \in Req, Request(r) PROVE FlowOk'
    BY <2>2 DEF Request, Sent
  <2>3. ASSUME NEW r \in Req, TimeOut(r) PROVE FlowOk'
    BY <2>3 DEF TimeOut, Unsettled
  <2>4. ASSUME Dial PROVE FlowOk'
    BY <2>4 DEF Dial, FreeConns
  <2>5. ASSUME SpawnManager PROVE FlowOk'
    BY <2>5 DEF SpawnManager, Thrown
  <2>6. ASSUME DialFails PROVE FlowOk'
    BY <2>6 DEF DialFails, Thrown
  <2>7. ASSUME HelloAnswered PROVE FlowOk'
    BY <2>7 DEF HelloAnswered, ResendPending, Resendable, Unsettled, Sent
  <2>8. ASSUME SocketCloses PROVE FlowOk'
    BY <2>8 DEF SocketCloses, OnClose, HelloFailed, Thrown, SurvivesClose
  <2>9. ASSUME ReconnectLoop PROVE FlowOk'
    BY <2>9 DEF ReconnectLoop, AllFailed, Unsettled
  <2>10. ASSUME HelloRefused PROVE FlowOk'
    BY <2>10 DEF HelloRefused, HelloFailed, Thrown
  <2>11. ASSUME NEW f \in frames, Settle(f) PROVE FlowOk'
    BY <2>11 DEF Settle
  <2>12. ASSUME ProtocolError PROVE FlowOk'
    BY <2>12 DEF ProtocolError, OnClose, HelloFailed, Thrown, SurvivesClose
  <2>13. ASSUME Close PROVE FlowOk'
    BY <2>13 DEF Close, HelloFailed, Thrown, AllFailed, Unsettled
  <2>14. ASSUME NEW c \in Conn, Register(c) PROVE FlowOk'
    BY <2>14 DEF Register
  <2>15. ASSUME NEW c \in Conn, ReaderEnds(c) PROVE FlowOk'
    BY <2>15 DEF ReaderEnds, Unbound, ArmIdle
  <2>16. ASSUME NEW f \in frames, Handle(f) PROVE FlowOk'
    BY <2>16 DEF Handle, Answered
  <2>17. ASSUME NEW f \in frames, StartInserted(f) PROVE FlowOk'
    BY <2>17 DEF StartInserted, Answered
  <2>18. ASSUME NEW f \in frames, HandlerEnds(f) PROVE FlowOk'
    BY <2>18 DEF HandlerEnds, Answered
  <2>19. ASSUME CloseAllConnections PROVE FlowOk'
    BY <2>19 DEF CloseAllConnections
  <2>20. ASSUME Exec PROVE FlowOk'
    BY <2>20 DEF Exec, LinksLost
  <2>21. ASSUME HoldEnds PROVE FlowOk'
    BY <2>21 DEF HoldEnds, ArmIdle
  <2>22. ASSUME IdleFires PROVE FlowOk'
    BY <2>22 DEF IdleFires
  <2>23. ASSUME BeginShutdown PROVE FlowOk'
    BY <2>23 DEF BeginShutdown
  <2>24. ASSUME Exits PROVE FlowOk'
    BY <2>24 DEF Exits, LinksLost
  <2>25. ASSUME Takeover PROVE FlowOk'
    BY <2>25 DEF Takeover
  <2>26. ASSUME OtherLeaves PROVE FlowOk'
    BY <2>26 DEF OtherLeaves, ArmIdle
  <2>27. ASSUME BeginUpgrade PROVE FlowOk'
    BY <2>27 DEF BeginUpgrade
  <2>28. ASSUME UpgradeFails PROVE FlowOk'
    BY <2>28 DEF UpgradeFails, ArmIdle
  <2>29. QED
    BY <1>1, <2>1, <2>2, <2>3, <2>4, <2>5, <2>6, <2>7, <2>8, <2>9, <2>10,
       <2>11, <2>12, <2>13, <2>14, <2>15, <2>16, <2>17, <2>18, <2>19, <2>20,
       <2>21, <2>22, <2>23, <2>24, <2>25, <2>26, <2>27, <2>28
       DEF Next, ClientStep, DaemonStep
<1>2. CASE UNCHANGED vars
  BY <1>2
<1>3. QED
  BY <1>1, <1>2

(* Of the connections that have said hello only the session's is open.     *)
OneOpen == \A c \in Conn : link[c] = "open" => sess = c

LEMMA StepOneOpen == TypeOK /\ OneOpen /\ [Next]_vars => OneOpen'
<1> SUFFICES ASSUME FlowTypes, WireTypes, DaemonTypes, OneOpen, [Next]_vars PROVE OneOpen'
  BY TypeParts
<1> USE Bounds
<1> USE DEF vars, flowVars, clientVars, daemonVars, upgradeVars, Fault,
        FlowTypes, WireTypes, DaemonTypes, OneOpen, Conn, None, Other
<1>1. CASE Next
  <2>1. ASSUME Connect PROVE OneOpen'
    BY <2>1 DEF Connect
  <2>2. ASSUME NEW r \in Req, Request(r) PROVE OneOpen'
    BY <2>2 DEF Request, Sent
  <2>3. ASSUME NEW r \in Req, TimeOut(r) PROVE OneOpen'
    BY <2>3 DEF TimeOut, Unsettled
  <2>4. ASSUME Dial PROVE OneOpen'
    BY <2>4 DEF Dial, FreeConns
  <2>5. ASSUME SpawnManager PROVE OneOpen'
    BY <2>5 DEF SpawnManager, Thrown
  <2>6. ASSUME DialFails PROVE OneOpen'
    BY <2>6 DEF DialFails, Thrown
  <2>7. ASSUME HelloAnswered PROVE OneOpen'
    BY <2>7 DEF HelloAnswered, ResendPending, Resendable, Unsettled, Sent
  <2>8. ASSUME SocketCloses PROVE OneOpen'
    BY <2>8 DEF SocketCloses, OnClose, HelloFailed, Thrown, SurvivesClose
  <2>9. ASSUME ReconnectLoop PROVE OneOpen'
    BY <2>9 DEF ReconnectLoop, AllFailed, Unsettled
  <2>10. ASSUME HelloRefused PROVE OneOpen'
    BY <2>10 DEF HelloRefused, HelloFailed, Thrown
  <2>11. ASSUME NEW f \in frames, Settle(f) PROVE OneOpen'
    BY <2>11 DEF Settle
  <2>12. ASSUME ProtocolError PROVE OneOpen'
    BY <2>12 DEF ProtocolError, OnClose, HelloFailed, Thrown, SurvivesClose
  <2>13. ASSUME Close PROVE OneOpen'
    BY <2>13 DEF Close, HelloFailed, Thrown, AllFailed, Unsettled
  <2>14. ASSUME NEW c \in Conn, Register(c) PROVE OneOpen'
    BY <2>14 DEF Register
  <2>15. ASSUME NEW c \in Conn, ReaderEnds(c) PROVE OneOpen'
    BY <2>15 DEF ReaderEnds, Unbound, ArmIdle
  <2>16. ASSUME NEW f \in frames, Handle(f) PROVE OneOpen'
    BY <2>16 DEF Handle, Answered
  <2>17. ASSUME NEW f \in frames, StartInserted(f) PROVE OneOpen'
    BY <2>17 DEF StartInserted, Answered
  <2>18. ASSUME NEW f \in frames, HandlerEnds(f) PROVE OneOpen'
    BY <2>18 DEF HandlerEnds, Answered
  <2>19. ASSUME CloseAllConnections PROVE OneOpen'
    BY <2>19 DEF CloseAllConnections
  <2>20. ASSUME Exec PROVE OneOpen'
    BY <2>20 DEF Exec, LinksLost
  <2>21. ASSUME HoldEnds PROVE OneOpen'
    BY <2>21 DEF HoldEnds, ArmIdle
  <2>22. ASSUME IdleFires PROVE OneOpen'
    BY <2>22 DEF IdleFires
  <2>23. ASSUME BeginShutdown PROVE OneOpen'
    BY <2>23 DEF BeginShutdown
  <2>24. ASSUME Exits PROVE OneOpen'
    BY <2>24 DEF Exits, LinksLost
  <2>25. ASSUME Takeover PROVE OneOpen'
    BY <2>25 DEF Takeover
  <2>26. ASSUME OtherLeaves PROVE OneOpen'
    BY <2>26 DEF OtherLeaves, ArmIdle
  <2>27. ASSUME BeginUpgrade PROVE OneOpen'
    BY <2>27 DEF BeginUpgrade
  <2>28. ASSUME UpgradeFails PROVE OneOpen'
    BY <2>28 DEF UpgradeFails, ArmIdle
  <2>29. QED
    BY <1>1, <2>1, <2>2, <2>3, <2>4, <2>5, <2>6, <2>7, <2>8, <2>9, <2>10,
       <2>11, <2>12, <2>13, <2>14, <2>15, <2>16, <2>17, <2>18, <2>19, <2>20,
       <2>21, <2>22, <2>23, <2>24, <2>25, <2>26, <2>27, <2>28
       DEF Next, ClientStep, DaemonStep
<1>2. CASE UNCHANGED vars
  BY <1>2
<1>3. QED
  BY <1>1, <1>2

(* A key is being spawned for at most once, and only while it has no task. *)
OneSpawn ==
  /\ \A f \in frames : f.stage = "spawning" => f.req \in Start /\ tasks[f.req] = 0
  /\ \A f, g \in frames : f.stage = "spawning" /\ g.stage = "spawning" /\ f.req = g.req => f = g

StartsOk == OneSpawn /\ StartedOnce

LEMMA StepStartsOk ==
  ASSUME "straddle" \notin Ops
  PROVE  TypeOK /\ StartsOk /\ [Next]_vars => StartsOk'
<1> SUFFICES ASSUME WireTypes, StartsOk, [Next]_vars PROVE StartsOk'
  BY TypeParts
<1> USE DEF vars, flowVars, clientVars, daemonVars, upgradeVars, Fault,
        WireTypes, Frame, FrameAt, StartsOk, OneSpawn, StartedOnce
<1>1. CASE Next
  <2>1. ASSUME Connect PROVE StartsOk'
    BY <2>1 DEF Connect
  <2>2. ASSUME NEW r \in Req, Request(r) PROVE StartsOk'
    BY <2>2 DEF Request, Sent
  <2>3. ASSUME NEW r \in Req, TimeOut(r) PROVE StartsOk'
    BY <2>3 DEF TimeOut, Unsettled
  <2>4. ASSUME Dial PROVE StartsOk'
    BY <2>4 DEF Dial, FreeConns
  <2>5. ASSUME SpawnManager PROVE StartsOk'
    BY <2>5 DEF SpawnManager, Thrown
  <2>6. ASSUME DialFails PROVE StartsOk'
    BY <2>6 DEF DialFails, Thrown
  <2>7. ASSUME HelloAnswered PROVE StartsOk'
    BY <2>7 DEF HelloAnswered, ResendPending, Resendable, Unsettled, Sent
  <2>8. ASSUME SocketCloses PROVE StartsOk'
    BY <2>8 DEF SocketCloses, OnClose, HelloFailed, Thrown, SurvivesClose
  <2>9. ASSUME ReconnectLoop PROVE StartsOk'
    BY <2>9 DEF ReconnectLoop, AllFailed, Unsettled
  <2>10. ASSUME HelloRefused PROVE StartsOk'
    BY <2>10 DEF HelloRefused, HelloFailed, Thrown
  <2>11. ASSUME NEW f \in frames, Settle(f) PROVE StartsOk'
    BY <2>11 DEF Settle
  <2>12. ASSUME ProtocolError PROVE StartsOk'
    BY <2>12 DEF ProtocolError, OnClose, HelloFailed, Thrown, SurvivesClose
  <2>13. ASSUME Close PROVE StartsOk'
    BY <2>13 DEF Close, HelloFailed, Thrown, AllFailed, Unsettled
  <2>14. ASSUME NEW c \in Conn, Register(c) PROVE StartsOk'
    BY <2>14 DEF Register
  <2>15. ASSUME NEW c \in Conn, ReaderEnds(c) PROVE StartsOk'
    BY <2>15 DEF ReaderEnds, Unbound, ArmIdle
  <2>16. ASSUME NEW f \in frames, Handle(f) PROVE StartsOk'
    BY <2>16 DEF Handle, Answered
  <2>17. ASSUME NEW f \in frames, StartInserted(f) PROVE StartsOk'
    BY <2>17 DEF StartInserted, Answered
  <2>18. ASSUME NEW f \in frames, HandlerEnds(f) PROVE StartsOk'
    BY <2>18 DEF HandlerEnds, Answered
  <2>19. ASSUME CloseAllConnections PROVE StartsOk'
    BY <2>19 DEF CloseAllConnections
  <2>20. ASSUME Exec PROVE StartsOk'
    BY <2>20 DEF Exec, LinksLost
  <2>21. ASSUME HoldEnds PROVE StartsOk'
    BY <2>21 DEF HoldEnds, ArmIdle
  <2>22. ASSUME IdleFires PROVE StartsOk'
    BY <2>22 DEF IdleFires
  <2>23. ASSUME BeginShutdown PROVE StartsOk'
    BY <2>23 DEF BeginShutdown
  <2>24. ASSUME Exits PROVE StartsOk'
    BY <2>24 DEF Exits, LinksLost
  <2>25. ASSUME Takeover PROVE StartsOk'
    BY <2>25 DEF Takeover
  <2>26. ASSUME OtherLeaves PROVE StartsOk'
    BY <2>26 DEF OtherLeaves, ArmIdle
  <2>27. ASSUME BeginUpgrade PROVE StartsOk'
    BY <2>27 DEF BeginUpgrade
  <2>28. ASSUME UpgradeFails PROVE StartsOk'
    BY <2>28 DEF UpgradeFails, ArmIdle
  <2>29. QED
    BY <1>1, <2>1, <2>2, <2>3, <2>4, <2>5, <2>6, <2>7, <2>8, <2>9, <2>10,
       <2>11, <2>12, <2>13, <2>14, <2>15, <2>16, <2>17, <2>18, <2>19, <2>20,
       <2>21, <2>22, <2>23, <2>24, <2>25, <2>26, <2>27, <2>28
       DEF Next, ClientStep, DaemonStep
<1>2. CASE UNCHANGED vars
  BY <1>2
<1>3. QED
  BY <1>1, <1>2

(* Who waits for an answer without a connection is one to be sent again.   *)
Heeded(r) ==
  \/ cstate = "connected"
  \/ flow = "reconnect" /\ Retryable(r) /\ ~intentional /\ ~rebound

WaitingOk ==
  \A r \in Req : st[r] = "pending" => Heeded(r)

LEMMA StepWaitingOk == TypeOK /\ FlowOk /\ WaitingOk /\ [Next]_vars => WaitingOk'
<1> SUFFICES ASSUME FlowTypes, WireTypes, FlowOk, WaitingOk, [Next]_vars,
                    NEW r \in Req, st'[r] = "pending"
             PROVE  Heeded(r)'
  BY TypeParts DEF WaitingOk
<1> USE DEF vars, flowVars, clientVars, daemonVars, upgradeVars, Fault,
        FlowTypes, WireTypes, FlowOk, WaitingOk, Heeded, Retryable, Conn, None
<1>1. CASE Next
  <2>1. ASSUME Connect PROVE Heeded(r)'
    BY <2>1 DEF Connect
  <2>2. ASSUME NEW q \in Req, Request(q) PROVE Heeded(r)'
    BY <2>2 DEF Request, Sent
  <2>3. ASSUME NEW q \in Req, TimeOut(q) PROVE Heeded(r)'
    BY <2>3 DEF TimeOut, Unsettled
  <2>4. ASSUME Dial PROVE Heeded(r)'
    BY <2>4 DEF Dial, FreeConns
  <2>5. ASSUME SpawnManager PROVE Heeded(r)'
    BY <2>5 DEF SpawnManager, Thrown
  <2>6. ASSUME DialFails PROVE Heeded(r)'
    BY <2>6 DEF DialFails, Thrown
  <2>7. ASSUME HelloAnswered PROVE Heeded(r)'
    BY <2>7 DEF HelloAnswered, ResendPending, Resendable, Unsettled, Sent
  <2>8. ASSUME SocketCloses PROVE Heeded(r)'
    BY <2>8 DEF SocketCloses, OnClose, HelloFailed, Thrown, SurvivesClose
  <2>9. ASSUME ReconnectLoop PROVE Heeded(r)'
    BY <2>9 DEF ReconnectLoop, AllFailed, Unsettled
  <2>10. ASSUME HelloRefused PROVE Heeded(r)'
    BY <2>10 DEF HelloRefused, HelloFailed, Thrown
  <2>11. ASSUME NEW f \in frames, Settle(f) PROVE Heeded(r)'
    BY <2>11 DEF Settle
  <2>12. ASSUME ProtocolError PROVE Heeded(r)'
    BY <2>12 DEF ProtocolError, OnClose, HelloFailed, Thrown, SurvivesClose
  <2>13. ASSUME Close PROVE Heeded(r)'
    BY <2>13 DEF Close, HelloFailed, Thrown, AllFailed, Unsettled
  <2>14. ASSUME NEW c \in Conn, Register(c) PROVE Heeded(r)'
    BY <2>14 DEF Register
  <2>15. ASSUME NEW c \in Conn, ReaderEnds(c) PROVE Heeded(r)'
    BY <2>15 DEF ReaderEnds, Unbound, ArmIdle
  <2>16. ASSUME NEW f \in frames, Handle(f) PROVE Heeded(r)'
    BY <2>16 DEF Handle, Answered
  <2>17. ASSUME NEW f \in frames, StartInserted(f) PROVE Heeded(r)'
    BY <2>17 DEF StartInserted, Answered
  <2>18. ASSUME NEW f \in frames, HandlerEnds(f) PROVE Heeded(r)'
    BY <2>18 DEF HandlerEnds, Answered
  <2>19. ASSUME CloseAllConnections PROVE Heeded(r)'
    BY <2>19 DEF CloseAllConnections
  <2>20. ASSUME Exec PROVE Heeded(r)'
    BY <2>20 DEF Exec, LinksLost
  <2>21. ASSUME HoldEnds PROVE Heeded(r)'
    BY <2>21 DEF HoldEnds, ArmIdle
  <2>22. ASSUME IdleFires PROVE Heeded(r)'
    BY <2>22 DEF IdleFires
  <2>23. ASSUME BeginShutdown PROVE Heeded(r)'
    BY <2>23 DEF BeginShutdown
  <2>24. ASSUME Exits PROVE Heeded(r)'
    BY <2>24 DEF Exits, LinksLost
  <2>25. ASSUME Takeover PROVE Heeded(r)'
    BY <2>25 DEF Takeover
  <2>26. ASSUME OtherLeaves PROVE Heeded(r)'
    BY <2>26 DEF OtherLeaves, ArmIdle
  <2>27. ASSUME BeginUpgrade PROVE Heeded(r)'
    BY <2>27 DEF BeginUpgrade
  <2>28. ASSUME UpgradeFails PROVE Heeded(r)'
    BY <2>28 DEF UpgradeFails, ArmIdle
  <2>29. QED
    BY <1>1, <2>1, <2>2, <2>3, <2>4, <2>5, <2>6, <2>7, <2>8, <2>9, <2>10,
       <2>11, <2>12, <2>13, <2>14, <2>15, <2>16, <2>17, <2>18, <2>19, <2>20,
       <2>21, <2>22, <2>23, <2>24, <2>25, <2>26, <2>27, <2>28
       DEF Next, ClientStep, DaemonStep
<1>2. CASE UNCHANGED vars
  BY <1>2
<1>3. QED
  BY <1>1, <1>2

(* A request that is waited for is on its way. *)
Waited(r) ==
  /\ cstate = "connected" /\ st[r] = "pending"
  /\ link[sock] = "open" /\ mode \in {"up", "stopping"} /\ lastUpgrade # "failed"

OnItsWay(r) == \E f \in frames : f.req = r /\ f.conn = sock

LEMMA SentOnTheirWay ==
  ASSUME NEW rs, NEW r \in rs
  PROVE  \E f \in Sent(rs) : f.req = r /\ f.conn = sock
<1>1. [req |-> r, conn |-> sock, stage |-> "wire"] \in Sent(rs)
  BY DEF Sent
<1>2. QED
  BY <1>1

(* A handler that goes on, or answers on an open connection, keeps what    *)
(* its frame stands for.                                                   *)
LEMMA HandledOnItsWay ==
  ASSUME frames \subseteq Frame, NEW r, NEW f \in frames, NEW how, OnItsWay(r),
         link[sock] = "open", sock' = sock,
         \/ frames' = Answered(f, how)
         \/ frames' = (frames \ {f}) \cup {[f EXCEPT !.stage = how]}
  PROVE  OnItsWay(r)'
<1>1. PICK g \in frames : g.req = r /\ g.conn = sock
  BY DEF OnItsWay
<1>2. CASE g # f
  BY <1>1, <1>2 DEF OnItsWay, Answered
<1>3. CASE g = f
  <2>1. [f EXCEPT !.stage = how] \in frames'
    BY <1>1, <1>3 DEF Answered
  <2>2. [f EXCEPT !.stage = how].req = r /\ [f EXCEPT !.stage = how].conn = sock
    BY <1>1, <1>3 DEF Frame
  <2>3. QED
    BY <2>1, <2>2 DEF OnItsWay
<1>4. QED
  BY <1>2, <1>3

LEMMA StepInFlight == TypeOK /\ FlowOk /\ WaitingOk /\ PendingInFlight /\ [Next]_vars
                        => PendingInFlight'
<1> SUFFICES ASSUME FlowTypes, WireTypes, FlowOk, WaitingOk, PendingInFlight, [Next]_vars,
                    NEW r \in Req, Waited(r)'
             PROVE  OnItsWay(r)'
  BY TypeParts DEF PendingInFlight, UpgradeKeepsRequests, Waited, OnItsWay
<1>0. Waited(r) => OnItsWay(r)
  BY DEF PendingInFlight, UpgradeKeepsRequests, Waited, OnItsWay
<1> USE DEF vars, flowVars, clientVars, daemonVars, upgradeVars, Fault,
        FlowTypes, WireTypes, Frame, FrameAt, FlowOk, WaitingOk, Heeded, Conn,
        None, Waited, OnItsWay
<1>1. CASE Next
  <2>1. ASSUME Connect PROVE OnItsWay(r)'
    BY <2>1, <1>0 DEF Connect
  <2>2. ASSUME NEW q \in Req, Request(q) PROVE OnItsWay(r)'
    <3>1. CASE st' = [st EXCEPT ![q] = "pending"] /\ frames' = frames \cup Sent({q}) /\ cstate = "connected"
      <4>1. \E f \in Sent({q}) : f.req = q /\ f.conn = sock
        BY SentOnTheirWay
      <4>2. QED
        BY <2>2, <3>1, <4>1, <1>0 DEF Request
    <3>2. CASE UNCHANGED frames /\ cstate # "connected"
      BY <2>2, <3>2 DEF Request
    <3>3. QED
      BY <2>2, <3>1, <3>2, <1>0 DEF Request
  <2>3. ASSUME NEW q \in Req, TimeOut(q) PROVE OnItsWay(r)'
    BY <2>3, <1>0 DEF TimeOut, Unsettled
  <2>4. ASSUME Dial PROVE OnItsWay(r)'
    BY <2>4, <1>0 DEF Dial, FreeConns
  <2>5. ASSUME SpawnManager PROVE OnItsWay(r)'
    BY <2>5, <1>0 DEF SpawnManager, Thrown
  <2>6. ASSUME DialFails PROVE OnItsWay(r)'
    BY <2>6, <1>0 DEF DialFails, Thrown
  <2>7. ASSUME HelloAnswered PROVE OnItsWay(r)'
    <3>1. r \in Resendable /\ ResendPending
      BY <2>7 DEF HelloAnswered, ResendPending, Resendable, Unsettled
    <3>2. \E f \in Sent(Resendable) : f.req = r /\ f.conn = sock
      BY <3>1, SentOnTheirWay
    <3>3. QED
      BY <2>7, <3>1, <3>2 DEF HelloAnswered, ResendPending
  <2>8. ASSUME SocketCloses PROVE OnItsWay(r)'
    BY <2>8, <1>0 DEF SocketCloses, OnClose, HelloFailed, Thrown, SurvivesClose
  <2>9. ASSUME ReconnectLoop PROVE OnItsWay(r)'
    BY <2>9, <1>0 DEF ReconnectLoop, AllFailed, Unsettled
  <2>10. ASSUME HelloRefused PROVE OnItsWay(r)'
    BY <2>10, <1>0 DEF HelloRefused, HelloFailed, Thrown
  <2>11. ASSUME NEW f \in frames, Settle(f) PROVE OnItsWay(r)'
    BY <2>11, <1>0 DEF Settle
  <2>12. ASSUME ProtocolError PROVE OnItsWay(r)'
    BY <2>12, <1>0 DEF ProtocolError, OnClose, HelloFailed, Thrown,
       SurvivesClose
  <2>13. ASSUME Close PROVE OnItsWay(r)'
    BY <2>13, <1>0 DEF Close, HelloFailed, Thrown, AllFailed, Unsettled
  <2>14. ASSUME NEW c \in Conn, Register(c) PROVE OnItsWay(r)'
    BY <2>14, <1>0 DEF Register
  <2>15. ASSUME NEW c \in Conn, ReaderEnds(c) PROVE OnItsWay(r)'
    BY <2>15, <1>0 DEF ReaderEnds, Unbound, ArmIdle
  <2>16. ASSUME NEW f \in frames, Handle(f) PROVE OnItsWay(r)'
    <3>1. OnItsWay(r) /\ link[sock] = "open" /\ sock' = sock /\ mode \in {"up", "stopping"}
      BY <2>16, <1>0 DEF Handle
    <3>2. PICK how : \/ frames' = Answered(f, how)
                     \/ frames' = (frames \ {f}) \cup {[f EXCEPT !.stage = how]}
      BY <2>16, <3>1 DEF Handle
    <3>3. QED
      <4>1. CASE frames' = Answered(f, how)
        BY <3>1, <4>1, HandledOnItsWay DEF WireTypes
      <4>2. CASE frames' = (frames \ {f}) \cup {[f EXCEPT !.stage = how]}
        BY <3>1, <4>2, HandledOnItsWay DEF WireTypes
      <4>3. QED
        BY <3>2, <4>1, <4>2
  <2>17. ASSUME NEW f \in frames, StartInserted(f) PROVE OnItsWay(r)'
    <3>1. OnItsWay(r) /\ link[sock] = "open" /\ sock' = sock /\ frames' = Answered(f, "answer")
      BY <2>17, <1>0 DEF StartInserted
    <3>2. QED
      BY <3>1, HandledOnItsWay DEF WireTypes
  <2>18. ASSUME NEW f \in frames, HandlerEnds(f) PROVE OnItsWay(r)'
    <3>1. OnItsWay(r) /\ link[sock] = "open" /\ sock' = sock /\ frames' = Answered(f, "answer")
      BY <2>18, <1>0 DEF HandlerEnds
    <3>2. QED
      BY <3>1, HandledOnItsWay DEF WireTypes
  <2>19. ASSUME CloseAllConnections PROVE OnItsWay(r)'
    BY <2>19, <1>0 DEF CloseAllConnections
  <2>20. ASSUME Exec PROVE OnItsWay(r)'
    BY <2>20, <1>0 DEF Exec, LinksLost
  <2>21. ASSUME HoldEnds PROVE OnItsWay(r)'
    BY <2>21, <1>0 DEF HoldEnds, ArmIdle
  <2>22. ASSUME IdleFires PROVE OnItsWay(r)'
    BY <2>22, <1>0 DEF IdleFires
  <2>23. ASSUME BeginShutdown PROVE OnItsWay(r)'
    BY <2>23, <1>0 DEF BeginShutdown
  <2>24. ASSUME Exits PROVE OnItsWay(r)'
    BY <2>24, <1>0 DEF Exits, LinksLost
  <2>25. ASSUME Takeover PROVE OnItsWay(r)'
    BY <2>25, <1>0 DEF Takeover
  <2>26. ASSUME OtherLeaves PROVE OnItsWay(r)'
    BY <2>26, <1>0 DEF OtherLeaves, ArmIdle
  <2>27. ASSUME BeginUpgrade PROVE OnItsWay(r)'
    BY <2>27, <1>0 DEF BeginUpgrade
  <2>28. ASSUME UpgradeFails PROVE OnItsWay(r)'
    BY <2>28, <1>0 DEF UpgradeFails, ArmIdle
  <2>29. QED
    BY <1>1, <2>1, <2>2, <2>3, <2>4, <2>5, <2>6, <2>7, <2>8, <2>9, <2>10,
       <2>11, <2>12, <2>13, <2>14, <2>15, <2>16, <2>17, <2>18, <2>19, <2>20,
       <2>21, <2>22, <2>23, <2>24, <2>25, <2>26, <2>27, <2>28
       DEF Next, ClientStep, DaemonStep
<1>2. CASE UNCHANGED vars
  BY <1>2, <1>0
<1>3. QED
  BY <1>1, <1>2

-----------------------------------------------------------------------------
(* What holds of every client, for any numbers of connections, requests,   *)
(* faults and upgrades.                                                    *)

LinkInv == TypeOK /\ FlowOk /\ OneOpen /\ WaitingOk /\ PendingInFlight

LEMMA InitLinkInv == Init => LinkInv
<1> SUFFICES ASSUME Init PROVE LinkInv
  OBVIOUS
<1>1. TypeOK
  BY InitTypeOK
<1>2. FlowOk /\ OneOpen /\ WaitingOk /\ PendingInFlight
  BY DEF Init, FlowOk, OneOpen, WaitingOk, PendingInFlight, UpgradeKeepsRequests
<1>3. QED
  BY <1>1, <1>2 DEF LinkInv

LEMMA LinkInvariant == Spec => []LinkInv
<1>1. LinkInv /\ [Next]_vars => LinkInv'
  BY StepTypeOK, StepFlowOk, StepOneOpen, StepWaitingOk, StepInFlight
     DEF LinkInv
<1>2. QED
  BY InitLinkInv, <1>1, PTL DEF Spec

(* Every variable of the two sides keeps its type, and connect() starts a  *)
(* dial only while the client holds no socket.                             *)
THEOREM ClientTypes == Spec => []TypeOK
<1>1. LinkInv => TypeOK
  BY DEF LinkInv
<1>2. QED
  BY <1>1, LinkInvariant, PTL

(* While the client believes it is connected over a connection the daemon  *)
(* still serves, the daemon sends the session's events to that connection: *)
(* register_conn and remove_conn never leave the session with another one, *)
(* however late an older connection's end is noticed.                      *)
THEOREM SessionAlwaysBound == Spec => []SessionBound
<1>1. LinkInv => SessionBound
  BY DEF LinkInv, SessionBound, OneOpen, TypeOK, None
<1>2. QED
  BY <1>1, LinkInvariant, PTL

(* Unless an upgrade has failed, a request that a connected client waits   *)
(* for is on the wire, in a handler or answered, on the connection the     *)
(* client has now: onClose, close() and reconnectLoop() reject or send     *)
(* again every promise, so that none is left to its timer alone.           *)
THEOREM PendingAlwaysInFlight == Spec => []PendingInFlight
<1>1. LinkInv => PendingInFlight
  BY DEF LinkInv
<1>2. QED
  BY <1>1, LinkInvariant, PTL

(* A start that resendPending sends again, over any number of drops and    *)
(* upgrades, leaves one task: start_keys answers with the first.  The one  *)
(* exception is the assumption, a start that is looked up while its twin   *)
(* is still being spawned.                                                 *)
THEOREM StartedOnceAlways ==
  ASSUME "straddle" \notin Ops
  PROVE  Spec => []StartedOnce
<1>1. Init => StartsOk
  BY DEF Init, StartsOk, OneSpawn, StartedOnce
<1>2. LinkInv /\ StartsOk /\ [Next]_vars => StartsOk'
  BY StepStartsOk DEF LinkInv
<1>3. StartsOk => StartedOnce
  BY DEF StartsOk
<1>4. QED
  BY <1>1, <1>2, <1>3, LinkInvariant, PTL DEF Spec
=============================================================================
