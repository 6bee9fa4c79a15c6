--------------------------- MODULE SessionProofs ---------------------------
(***************************************************************************)
(* What the two transfers guarantee each other when the programs run one   *)
(* after the other.                                                        *)
(***************************************************************************)
EXTENDS Session, UDPRefinementProofs, TCPTransferProofs

\* The order the programs keep takes nothing from what was proved about each
\* transfer: a session is a UDP transfer, with pauses.
THEOREM SessionIsUDPTransfer == SessionSpec => Spec
<1>1. SessionInit => Init
  BY DEF SessionInit
<1>2. [SessionNext]_sessionVars => [Next]_vars
  BY DEF SessionNext, InTCP, InUDP, sessionVars
<1> QED
  BY <1>1, <1>2, PTL DEF SessionSpec, Spec

\* And it is a TCP transfer, with pauses.
THEOREM SessionIsTCPTransfer == SessionSpec => TCPSpec
<1>1. SessionInit => TCPInit
  BY DEF SessionInit
<1>2. [SessionNext]_sessionVars => [TCPNext]_tcpVars
  BY DEF SessionNext, InTCP, InUDP, sessionVars
<1> QED
  BY <1>1, <1>2, PTL DEF SessionSpec, TCPSpec

\* The two files of a session are each transferred as their abstract
\* specifications say, for all files and whatever happens to the other one.
THEOREM SessionImplementsBoth ==
  SessionSpec => ImplementsFileTransfer /\ ImplementsStreamTransfer
  BY SessionIsUDPTransfer, SessionIsTCPTransfer, ImplementsAbstractTransfer,
     ImplementsStream, PTL

\* The UDP server has run only when the TCP file was written.
InOrder == server_state # "INIT" => TCPFileWritten

\* A TCP file that was written stays written.
LEMMA WrittenStaysWritten ==
  ASSUME TCPFileWritten, [TCPNext]_tcpVars
  PROVE  TCPFileWritten'
<1>1. tcp_server_state \in {"SAVED", "SAVED_CUT"}
  BY DEF TCPFileWritten
<1>2. CASE UNCHANGED tcpServerVars
  BY <1>1, <1>2 DEF TCPFileWritten, tcpServerVars
<1>3. ~TCPServerStep /\ ~TCPServerLosesLink
  BY <1>1
  DEF TCPServerStep, TCPServerListens, TCPServerStartFails, TCPServerAccepts,
      TCPServerReceives, TCPServerGetsRequest, TCPServerAckFails,
      TCPServerGetsNoRequest, TCPServerGetsData, TCPServerGetsFin,
      TCPServerGetsMisfit, TCPServerLosesLink, TCPServerCloses, TCPFileIsWritten
<1> QED
  BY <1>2, <1>3 DEF TCPNext, TCPClientActs, TCPServerActs, tcpVars

\* The first answer the UDP client gets confirms the TCP file, for all files.
THEOREM UDPAnswerAlwaysConfirmsTCP == SessionSpec => []UDPAnswerConfirmsTCP
<1>1. SessionInit => InOrder
  BY DEF SessionInit, Init, ServerInit, InOrder
<1>2. InOrder /\ [SessionNext]_sessionVars => InOrder'
  <2> SUFFICES ASSUME InOrder, [SessionNext]_sessionVars PROVE InOrder'
    OBVIOUS
  <2>1. CASE InTCP(TCPNext)
    BY <2>1, WrittenStaysWritten DEF InTCP, InOrder, vars, serverVars
  <2>2. CASE InUDP(Next)
    <3>1. /\ UNCHANGED tcp_server_state
          /\ server_state = "INIT" /\ server_state' # "INIT" => TCPFileWritten
      BY <2>2 DEF InUDP, tcpVars, tcpServerVars
    <3> QED
      BY <3>1 DEF InOrder, TCPFileWritten
  <2>3. CASE UNCHANGED sessionVars
    BY <2>3 DEF sessionVars, vars, serverVars, tcpVars, tcpServerVars, InOrder, TCPFileWritten
  <2> QED
    BY <2>1, <2>2, <2>3 DEF SessionNext
<1>3. InOrder /\ IInv /\ FinishedIsWhole => UDPAnswerConfirmsTCP
  <2> SUFFICES ASSUME InOrder, IInv, FinishedIsWhole,
                      client_state \in {"RAPID_SEND", "RAPID_RECV", "FIN", "RETURNED"}
               PROVE  TCPFileWritten
    BY DEF UDPAnswerConfirmsTCP
  <2>1. request = CreqPacket
    BY DEF IInv, ClientTruth
  <2>2. server_state # "INIT"
    BY <2>1, RequestFacts DEF IInv, ServerOrder
  <2> QED
    BY <2>2 DEF InOrder
<1> QED
  BY <1>1, <1>2, <1>3, SessionIsUDPTransfer, SessionIsTCPTransfer, InvariantHolds,
     FinishedIsAlwaysWhole, PTL DEF SessionSpec
=============================================================================
