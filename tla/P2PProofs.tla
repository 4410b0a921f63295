------------------------------ MODULE P2PProofs ------------------------------
(***************************************************************************)
(* Proofs about the P2P mode: its variables keep their types, and the     *)
(* server's JoinSignals holds only answers, one per join attempt at most, *)
(* in attempt order (AnswersInOrder), for every MaxAttempts.              *)
(*                                                                         *)
(* AnswersInOrder alone is not inductive: a JoinAnswer step appends the   *)
(* current attempt's answer, which keeps the order only if that attempt   *)
(* has not stored one yet. Fresh says so: while runP2PJoin waits for the  *)
(* offer or makes its answer, every stored answer is from an older        *)
(* attempt. JoinStart makes a new attempt, and JoinAnswer leaves the two  *)
(* states, so Fresh is preserved.                                        *)
(*                                                                         *)
(* MailboxRefined: the server's session refines SignalMailbox. The host's *)
(* steps do not test Serving, so the step mapping needs ServerByPhase     *)
(* (the server serves the session from CreateSession to cancel()) and     *)
(* AnswersInOrder (the host never reads an offer and returns at once).    *)
(***************************************************************************)
EXTENDS P2P, TLAPS

Fresh ==
    jp \in {"waitoffer", "answer"} =>
        /\ attempt \in 1..MaxAttempts
        /\ \A i \in 1..Len(joinSignals) : joinSignals[i].by < attempt

P2PInv == TypeOK /\ AnswersInOrder /\ Fresh

\* TypeOK in two parts: the control state, and the two signal lists with
\* their read indexes.
CtlOK ==
    /\ hp \in HostPCs
    /\ jp \in JoinPCs
    /\ attempt \in 0..MaxAttempts
    /\ late \in [Peers -> BOOLEAN]
    /\ serverUp \in BOOLEAN
    /\ session \in BOOLEAN
    /\ answerOf \in 0..MaxAttempts
    /\ connected \in [Peers -> BOOLEAN]
    /\ closed \in [Peers -> BOOLEAN]
    /\ game \in [Peers -> {"none", "starting", "listening", "exited"}]
    /\ bridge \in [Peers -> {"none", "probe", "copy", "done"}]
    /\ copying \in [Peers -> SUBSET Loops]

SigOK ==
    /\ hostSignals \in Seq(Signals)
    /\ joinSignals \in Seq(Signals)
    /\ hostIndex \in 0..Len(joinSignals)
    /\ joinIndex \in 0..Len(hostSignals)

LEMMA TypeParts == TypeOK <=> CtlOK /\ SigOK
  BY DEF TypeOK, CtlOK, SigOK

LEMMA SigFrame ==
  ASSUME SigOK, UNCHANGED <<hostSignals, joinSignals, hostIndex, joinIndex>>
  PROVE  SigOK'
  BY DEF SigOK

LEMMA InitP2PInv == Init => P2PInv
  <1> SUFFICES ASSUME Init PROVE P2PInv
    OBVIOUS
  <1>1. SigOK
    BY DEF Init, SigOK
  <1>2. CtlOK
    <2>1. attempt \in 0..MaxAttempts /\ answerOf \in 0..MaxAttempts
      BY P2PAssumption DEF Init
    <2>2. QED
      BY <2>1 DEF Init, CtlOK, HostPCs, JoinPCs, Peers
  <1>3. AnswersInOrder /\ Fresh
    BY DEF Init, AnswersInOrder, Fresh
  <1>4. QED
    BY <1>1, <1>2, <1>3, TypeParts DEF P2PInv

\* A step that leaves the stored answers and the attempt alone and does
\* not enter the joiner's waiting or answering states from another.
LEMMA QuietStep ==
  ASSUME P2PInv, CtlOK', SigOK',
         UNCHANGED <<joinSignals, attempt>>,
         jp' \in {"waitoffer", "answer"} => jp \in {"waitoffer", "answer"}
  PROVE  P2PInv'
  BY DEF P2PInv, TypeOK, CtlOK, SigOK, AnswersInOrder, Fresh

LEMMA NextP2PInv == P2PInv /\ [Next]_vars => P2PInv'
  <1> SUFFICES ASSUME P2PInv, CtlOK, SigOK, [Next]_vars PROVE P2PInv'
    BY TypeParts DEF P2PInv
  <1>1. CASE HostCreate
    <2>1. CtlOK'
      BY <1>1 DEF HostCreate, HostReturns, CtlOK, HostPCs, Peers
    <2>2. QED
      BY <1>1, <2>1, SigFrame, QuietStep DEF HostCreate
  <1>2. CASE HostOffer
    <2>1. CtlOK'
      BY <1>2 DEF HostOffer, HostReturns, CtlOK, HostPCs, Peers
    <2>2. SigOK'
      <3>1. [type |-> "offer", by |-> 0] \in Signals
        BY P2PAssumption DEF Signals
      <3>2. CASE UNCHANGED hostSignals
        BY <1>2, <3>2 DEF HostOffer, SigOK
      <3>3. CASE hostSignals' = Append(hostSignals, [type |-> "offer", by |-> 0])
        BY <1>2, <3>1, <3>3 DEF HostOffer, SigOK
      <3>4. QED
        BY <1>2, <3>2, <3>3 DEF HostOffer, HostReturns, AddSignal
    <2>3. QED
      BY <1>2, <2>1, <2>2, QuietStep DEF HostOffer
  <1>3. CASE HostPoll
    <2>1. /\ hostIndex < Len(joinSignals)
          /\ joinSignals[hostIndex + 1].by \in 0..MaxAttempts
      <3>1. hostIndex < Len(joinSignals)
        BY <1>3 DEF HostPoll
      <3>2. hostIndex + 1 \in 1..Len(joinSignals)
        BY <3>1 DEF SigOK
      <3>3. joinSignals[hostIndex + 1] \in Signals
        BY <3>2 DEF SigOK
      <3>4. QED
        BY <3>1, <3>3 DEF Signals
    <2>2. CtlOK'
      BY <1>3, <2>1 DEF HostPoll, HostReturns, CtlOK, HostPCs, Peers
    <2>3. SigOK'
      BY <1>3, <2>1 DEF HostPoll, SigOK
    <2>4. QED
      BY <1>3, <2>2, <2>3, QuietStep DEF HostPoll
  <1>4. CASE HostGiveUp
    <2>1. CtlOK'
      BY <1>4 DEF HostGiveUp, HostReturns, CtlOK, HostPCs, Peers
    <2>2. QED
      BY <1>4, <2>1, SigFrame, QuietStep DEF HostGiveUp
  <1>5. CASE HostLaunch
    <2>1. CtlOK'
      BY <1>5 DEF HostLaunch, HostReturns, CtlOK, HostPCs, Peers
    <2>2. QED
      BY <1>5, <2>1, SigFrame, QuietStep DEF HostLaunch
  <1>6. CASE HostGameExit
    <2>1. CtlOK'
      BY <1>6 DEF HostGameExit, CtlOK, HostPCs, Peers
    <2>2. QED
      BY <1>6, <2>1, SigFrame, QuietStep DEF HostGameExit
  <1>7. CASE HostDrain
    <2>1. CtlOK'
      BY <1>7 DEF HostDrain, CtlOK, HostPCs
    <2>2. QED
      BY <1>7, <2>1, SigFrame, QuietStep DEF HostDrain
  <1>8. CASE JoinStart
    <2>1. attempt < MaxAttempts /\ attempt' = attempt + 1
          /\ UNCHANGED joinSignals
      BY <1>8 DEF JoinStart
    <2>2. attempt' \in 1..MaxAttempts
      BY <2>1, P2PAssumption DEF CtlOK
    <2>3. attempt' \in 0..MaxAttempts
      BY <2>2
    <2>9. CtlOK'
      <3>1. UNCHANGED <<hp, serverUp, session, answerOf, game, bridge, copying>>
        BY <1>8 DEF JoinStart
      <3>2. CASE UNCHANGED <<jp, late, closed, connected>>
        BY <2>3, <3>1, <3>2 DEF CtlOK
      <3>3. CASE /\ jp' = "waitoffer"
                 /\ late' = [late EXCEPT !["joiner"] = FALSE]
                 /\ closed' = [closed EXCEPT !["joiner"] = FALSE]
                 /\ connected' = [connected EXCEPT !["joiner"] = FALSE]
        BY <2>3, <3>1, <3>3 DEF CtlOK, JoinPCs
      <3>4. QED
        BY <1>8, <3>2, <3>3 DEF JoinStart
    <2>4. SigOK'
      BY <1>8, SigFrame DEF JoinStart
    <2>5. \A i \in 1..Len(joinSignals) :
            joinSignals[i].by \in 1..attempt /\ joinSignals[i].by < attempt'
      BY <2>1 DEF P2PInv, AnswersInOrder, CtlOK
    <2>6. AnswersInOrder'
      <3>1. \A i \in 1..Len(joinSignals) : joinSignals[i].by \in 1..attempt'
        BY <2>1, <2>5 DEF CtlOK
      <3>2. QED
        BY <2>1, <3>1 DEF P2PInv, AnswersInOrder
    <2>7. Fresh'
      BY <2>1, <2>2, <2>5 DEF Fresh
    <2>8. QED
      BY <2>9, <2>4, <2>6, <2>7 DEF P2PInv, TypeOK, CtlOK, SigOK
  <1>9. CASE JoinPoll
    <2>1. joinIndex < Len(hostSignals) /\ joinIndex' = joinIndex + 1
      BY <1>9 DEF JoinPoll
    <2>2. /\ jp' \in {jp, "answer", "menu"}
          /\ closed' \in {closed, [closed EXCEPT !["joiner"] = TRUE]}
      BY <1>9, Zenon DEF JoinPoll, JoinReturns
    <2>3. CtlOK'
      BY <1>9, <2>2 DEF JoinPoll, CtlOK, JoinPCs, Peers
    <2>4. SigOK'
      BY <1>9, <2>1 DEF JoinPoll, SigOK
    <2>5. QED
      BY <1>9, <2>2, <2>3, <2>4, QuietStep DEF JoinPoll
  <1>10. CASE JoinAnswer
    <2>1. jp = "answer" /\ jp' \in {"connect", "menu"} /\ UNCHANGED attempt
      BY <1>10 DEF JoinAnswer, JoinReturns
    <2>2. CtlOK'
      BY <1>10 DEF JoinAnswer, JoinReturns, CtlOK, JoinPCs, Peers
    <2>3. attempt \in 1..MaxAttempts
      BY <2>1 DEF P2PInv, Fresh
    <2>4. CASE UNCHANGED joinSignals
      BY <1>10, <2>1, <2>2, <2>4, SigFrame, QuietStep DEF JoinAnswer
    <2>5. CASE joinSignals' = Append(joinSignals,
                                     [type |-> "answer", by |-> attempt])
      <3> DEFINE new == [type |-> "answer", by |-> attempt]
      <3>1. joinSignals \in Seq(Signals) /\ new \in Signals
        BY <2>3 DEF SigOK, Signals
      <3>2. /\ joinSignals' \in Seq(Signals)
            /\ Len(joinSignals') = Len(joinSignals) + 1
            /\ \A i \in 1..Len(joinSignals) : joinSignals'[i] = joinSignals[i]
            /\ joinSignals'[Len(joinSignals) + 1] = new
        BY <2>5, <3>1
      <3>3. SigOK'
        BY <1>10, <3>2 DEF JoinAnswer, SigOK
      <3>4. \A i \in 1..Len(joinSignals) : joinSignals[i].by < attempt
        BY <2>1 DEF P2PInv, Fresh
      <3>5. AnswersInOrder'
        BY <2>1, <2>3, <3>2, <3>4 DEF P2PInv, AnswersInOrder
      <3>6. Fresh'
        BY <2>1 DEF Fresh
      <3>7. QED
        BY <2>2, <3>3, <3>5, <3>6 DEF P2PInv, TypeOK, CtlOK, SigOK
    <2>6. QED
      BY <1>10, <2>4, <2>5 DEF JoinAnswer, JoinReturns, AddSignal
  <1>11. CASE JoinGiveUp
    <2>1. CtlOK'
      BY <1>11 DEF JoinGiveUp, JoinReturns, CtlOK, JoinPCs, Peers
    <2>2. QED
      BY <1>11, <2>1, SigFrame, QuietStep DEF JoinGiveUp, JoinReturns
  <1>12. CASE JoinLaunch
    <2>1. CtlOK'
      BY <1>12 DEF JoinLaunch, JoinReturns, CtlOK, JoinPCs, Peers
    <2>2. QED
      BY <1>12, <2>1, SigFrame, QuietStep DEF JoinLaunch, JoinReturns
  <1>13. CASE JoinGameExit
    <2>1. CtlOK'
      BY <1>13 DEF JoinGameExit, CtlOK, JoinPCs, Peers
    <2>2. QED
      BY <1>13, <2>1, SigFrame, QuietStep DEF JoinGameExit
  <1>14. CASE JoinDrain
    <2>1. CtlOK'
      BY <1>14 DEF JoinDrain, CtlOK, JoinPCs, Peers
    <2>2. QED
      BY <1>14, <2>1, SigFrame, QuietStep DEF JoinDrain
  <1>15. ASSUME NEW p \in Peers, Bridge(p) PROVE P2PInv'
    <2>1. ASSUME BridgeDial(p) PROVE CtlOK'
      BY <1>15, <2>1 DEF Bridge, BridgeDial, CtlOK
    <2>2. ASSUME NEW l \in Loops, CopyEnds(p, l) PROVE CtlOK'
      <3>1. /\ copying' \in [Peers -> SUBSET Loops]
            /\ bridge' \in [Peers -> {"none", "probe", "copy", "done"}]
        BY <2>2 DEF CopyEnds, CtlOK
      <3>2. QED
        BY <1>15, <3>1 DEF Bridge, CtlOK
    <2>3. CtlOK'
      BY <1>15, <2>1, <2>2 DEF Bridge
    <2>4. QED
      BY <1>15, <2>3, SigFrame, QuietStep DEF Bridge
  <1>16. CASE IceConnects
    <2>1. CtlOK'
      BY <1>16 DEF IceConnects, CtlOK
    <2>2. QED
      BY <1>16, <2>1, SigFrame, QuietStep DEF IceConnects
  <1>17. ASSUME NEW p \in Peers, DataChannelCloses(p) PROVE P2PInv'
    <2>1. CtlOK'
      BY <1>17 DEF DataChannelCloses, CtlOK
    <2>2. QED
      BY <1>17, <2>1, SigFrame, QuietStep DEF DataChannelCloses
  <1>18. ASSUME NEW p \in Peers, TimePasses(p) PROVE P2PInv'
    <2>1. CtlOK'
      BY <1>18 DEF TimePasses, CtlOK
    <2>2. QED
      BY <1>18, <2>1, SigFrame, QuietStep DEF TimePasses
  <1>19. ASSUME NEW p \in Peers, GameListens(p) PROVE P2PInv'
    <2>1. CtlOK'
      BY <1>19 DEF GameListens, CtlOK
    <2>2. QED
      BY <1>19, <2>1, SigFrame, QuietStep DEF GameListens
  <1>20. ASSUME NEW p \in Peers, GameExits(p) PROVE P2PInv'
    <2>1. CtlOK'
      BY <1>20 DEF GameExits, CtlOK
    <2>2. QED
      BY <1>20, <2>1, SigFrame, QuietStep DEF GameExits
  <1>21. CASE UNCHANGED vars
    BY <1>21 DEF vars, P2PInv, TypeOK, AnswersInOrder, Fresh
  <1>22. QED
    BY <1>1, <1>2, <1>3, <1>4, <1>5, <1>6, <1>7, <1>8, <1>9, <1>10, <1>11,
       <1>12, <1>13, <1>14, <1>15, <1>16, <1>17, <1>18, <1>19, <1>20, <1>21
       DEF Next, Host, Joiner, Environment

\* The variables of both helpers, the signal server and the games always
\* have their types.
THEOREM P2PTypeCorrect == Spec => []TypeOK
  <1>1. P2PInv => TypeOK
    BY DEF P2PInv
  <1>2. QED
    BY InitP2PInv, NextP2PInv, <1>1, PTL DEF Spec

\* The signal server's JoinSignals never holds an offer, a duplicate answer
\* or an answer out of attempt order, however the joiner's requests and
\* responses are lost and the user retries (AddSignal, exchangeAsJoiner,
\* runP2PJoin), for every number of attempts.
THEOREM AnswersInOrderHolds == Spec => []AnswersInOrder
  <1>1. P2PInv => AnswersInOrder
    BY DEF P2PInv
  <1>2. QED
    BY InitP2PInv, NextP2PInv, <1>1, PTL DEF Spec


-----------------------------------------------------------------------------
(* The signal server as SignalMailbox. runP2PHost's own steps never check *)
(* that the server serves: they rely on ServerByPhase, that it does from  *)
(* CreateSession until the deferred cancel(), which runs on every return  *)
(* and after the game exits; and on AnswersInOrder, so that every signal  *)
(* the host reads is an answer and no poll reads and returns at once.     *)

ServerByPhase ==
    /\ hp \in {"offer", "wait", "connect", "play"} => serverUp /\ session
    /\ hp = "create" => ~session

LEMMA InitServerByPhase == Init => ServerByPhase
  BY DEF Init, ServerByPhase

LEMMA NextServerByPhase ==
  ServerByPhase /\ [Next]_vars => ServerByPhase'
  <1> SUFFICES ASSUME ServerByPhase, [Next]_vars PROVE ServerByPhase'
    OBVIOUS
  <1>1. CASE Host
    BY <1>1 DEF Host, HostCreate, HostOffer, HostPoll, HostGiveUp, HostLaunch,
                HostGameExit, HostDrain, HostReturns, ServerByPhase
  <1>2. CASE Joiner
    BY <1>2 DEF Joiner, JoinPoll, JoinAnswer, JoinGiveUp, JoinLaunch,
                JoinGameExit, JoinDrain, ServerByPhase
  <1>3. CASE \E p \in Peers : Bridge(p)
    BY <1>3 DEF Bridge, ServerByPhase
  <1>4. CASE Environment \/ UNCHANGED vars
    BY <1>4 DEF Environment, IceConnects, JoinStart, DataChannelCloses,
                TimePasses, GameListens, GameExits, ServerByPhase, vars
  <1>5. QED
    BY <1>1, <1>2, <1>3, <1>4 DEF Next

LEMMA InitMailbox == Init => Mailbox!Init
  BY DEF Init, Mailbox!Init, Serving

LEMMA NextMailbox ==
  P2PInv /\ ServerByPhase /\ [Next]_vars => [Mailbox!Next]_Mailbox!vars
  <1> SUFFICES ASSUME P2PInv, ServerByPhase, [Next]_vars
               PROVE  [Mailbox!Next]_Mailbox!vars
    OBVIOUS
  <1> DEFINE Quiet == UNCHANGED <<serverUp, session, hostSignals, joinSignals,
                                 hostIndex, joinIndex>>
  <1>0. Quiet => [Mailbox!Next]_Mailbox!vars
    BY DEF Mailbox!vars, Serving
  \* A return of runP2PHost while the server serves: its cancel().
  <1>1. ASSUME hp \in {"offer", "wait", "connect", "play"},
               serverUp' = FALSE,
               UNCHANGED <<session, hostSignals, joinSignals, hostIndex,
                           joinIndex>>
        PROVE  [Mailbox!Next]_Mailbox!vars
    <2>1. Mailbox!Shutdown
      BY <1>1 DEF ServerByPhase, Serving, Mailbox!Shutdown
    <2>2. QED
      BY <2>1 DEF Mailbox!Next
  <1>2. CASE HostCreate
    <2>1. ~session
      BY <1>2 DEF HostCreate, ServerByPhase
    <2>2. CASE hp' = "offer"
      <3>1. Mailbox!Create
        BY <1>2, <2>1, <2>2 DEF HostCreate, HostReturns, Serving,
                                Mailbox!Create
      <3>2. QED
        BY <3>1 DEF Mailbox!Next
    <2>3. CASE hp' # "offer"
      BY <1>2, <2>1, <2>3 DEF HostCreate, HostReturns, Mailbox!vars, Serving
    <2>4. QED
      BY <2>2, <2>3
  <1>3. CASE HostOffer
    <2>1. CASE hp' = "wait"
      <3> DEFINE offer == [type |-> "offer", by |-> 0]
      <3>1. offer \in Signals
        BY P2PAssumption DEF Signals
      <3>2. Mailbox!SendHost(offer)
        BY <1>3, <2>1 DEF HostOffer, HostReturns, AddSignal, ServerByPhase,
                          Serving, Mailbox!SendHost
      <3>3. QED
        BY <3>1, <3>2 DEF Mailbox!Next
    <2>2. CASE hp' # "wait"
      BY <1>1, <1>3, <2>2 DEF HostOffer, HostReturns
    <2>3. QED
      BY <2>1, <2>2
  <1>4. CASE HostPoll
    <2>1. joinSignals[hostIndex + 1].type = "answer"
      <3>1. hostIndex + 1 \in 1..Len(joinSignals)
        BY <1>4 DEF HostPoll, P2PInv, TypeOK
      <3>2. QED
        BY <3>1 DEF P2PInv, AnswersInOrder
    <2>2. Mailbox!ReceiveHost
      BY <1>4, <2>1 DEF HostPoll, ServerByPhase, Serving, Mailbox!ReceiveHost
    <2>3. QED
      BY <2>2 DEF Mailbox!Next
  <1>5. CASE HostGiveUp
    BY <1>1, <1>5 DEF HostGiveUp, HostReturns
  <1>6. CASE HostLaunch
    <2>1. CASE hp' = "play"
      BY <1>0, <1>6, <2>1 DEF HostLaunch, HostReturns
    <2>2. CASE hp' # "play"
      BY <1>1, <1>6, <2>2 DEF HostLaunch, HostReturns
    <2>3. QED
      BY <2>1, <2>2
  <1>7. CASE HostGameExit
    BY <1>1, <1>7 DEF HostGameExit
  <1>8. CASE JoinPoll
    <2>1. Mailbox!ReceiveJoin
      BY <1>8 DEF JoinPoll, JoinReturns, Mailbox!ReceiveJoin, Serving
    <2>2. QED
      BY <2>1 DEF Mailbox!Next
  <1>9. CASE JoinAnswer
    <2>1. CASE UNCHANGED joinSignals
      BY <1>0, <1>9, <2>1 DEF JoinAnswer, JoinReturns
    <2>2. CASE joinSignals' # joinSignals
      <3> DEFINE answer == [type |-> "answer", by |-> attempt]
      <3>1. answer \in Signals
        BY DEF P2PInv, TypeOK, Signals
      <3>2. Mailbox!SendJoin(answer)
        BY <1>9, <2>2 DEF JoinAnswer, JoinReturns, AddSignal,
                          Mailbox!SendJoin, Serving
      <3>3. QED
        BY <3>1, <3>2 DEF Mailbox!Next
    <2>3. QED
      BY <2>1, <2>2
  <1>10. CASE HostDrain \/ JoinGiveUp \/ JoinLaunch \/ JoinGameExit \/ JoinDrain
    BY <1>0, <1>10 DEF HostDrain, JoinGiveUp, JoinLaunch, JoinGameExit,
                       JoinDrain, JoinReturns
  <1>11. CASE (\E p \in Peers : Bridge(p)) \/ Environment \/ UNCHANGED vars
    BY <1>0, <1>11 DEF Bridge, Environment, IceConnects, JoinStart,
                       DataChannelCloses, TimePasses, GameListens, GameExits,
                       vars
  <1>12. QED
    BY <1>2, <1>3, <1>4, <1>5, <1>6, <1>7, <1>8, <1>9, <1>10, <1>11
       DEF Next, Host, Joiner

\* The signal server's session behaves as SignalMailbox (MailboxSpec,
\* checked by TLC on p2p_pass), for every MaxAttempts: AddSignal only
\* appends, GetSignal hands each side the other's signals in order and
\* each once, nothing changes unless RunSignalServer serves the session,
\* and after runP2PHost's cancel() the session is never served again.
THEOREM MailboxRefined == Spec => MailboxSpec
  <1>1. Spec => [](P2PInv /\ ServerByPhase)
    BY InitP2PInv, NextP2PInv, InitServerByPhase, NextServerByPhase,
       PTL DEF Spec
  <1>2. QED
    BY <1>1, InitMailbox, NextMailbox, PTL DEF Spec, MailboxSpec, Mailbox!Spec

=============================================================================
