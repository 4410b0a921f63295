--------------------------- MODULE RendezvousProofs ---------------------------
(***************************************************************************)
(* Proofs about the rendezvous server: the store's variables keep their    *)
(* types and the code index never dangles (CodeIndexSound), for any sets  *)
(* of ids and codes, and the server refines the abstract session life     *)
(* cycle (LifecycleRefined): created once, joined at most once while it   *)
(* lives, never answered 200 once dead.                                   *)
(***************************************************************************)
EXTENDS Rendezvous, TLAPS

StoreInv == TypeOK /\ CodeIndexSound

LEMMA InitStoreInv == Init => StoreInv
  BY RendezvousAssumption
     DEF Init, StoreInv, TypeOK, CodeIndexSound, Resp, Ops,
         Statuses

LEMMA NextStoreInv == StoreInv /\ [Next]_vars => StoreInv'
  <1> SUFFICES ASSUME StoreInv, [Next]_vars PROVE StoreInv'
    OBVIOUS
  <1> USE RendezvousAssumption DEF StoreInv, TypeOK, Resp, Ops, Statuses,
                                   Answer
  <1>1. CASE RateLimited
    BY <1>1 DEF RateLimited, CodeIndexSound
  <1>2. CASE HandleCreate
    <2>1. PICK id \in Ids \ used, k \in Codes :
            /\ live' = live \cup {id}
            /\ used' = used \cup {id}
            /\ code' = [code EXCEPT ![id] = k]
            /\ byCodes' = [byCodes EXCEPT ![k] = id]
            /\ resp' = [op |-> "create", status |-> 200, id |-> id]
            /\ UNCHANGED <<joined, hostConn, joinConn, expired>>
      BY <1>2 DEF HandleCreate
    <2>2. TypeOK'
      BY <2>1
    <2>3. CodeIndexSound'
      <3> SUFFICES ASSUME NEW j \in Codes, byCodes'[j] # NoId
                   PROVE  byCodes'[j] \in live' /\ code'[byCodes'[j]] = j
        BY DEF CodeIndexSound
      <3>1. CASE j = k
        BY <2>1, <3>1
      <3>2. CASE j # k
        <4>1. byCodes'[j] = byCodes[j] /\ byCodes[j] \in live
              /\ code[byCodes[j]] = j
          BY <2>1, <3>2 DEF CodeIndexSound
        <4>2. byCodes[j] # id
          BY <2>1, <4>1
        <4>3. QED
          BY <2>1, <4>1, <4>2
      <3>3. QED
        BY <3>1, <3>2
    <2>4. QED
      BY <2>2, <2>3
  <1>3. ASSUME NEW k \in Codes, HandleJoin(k) PROVE StoreInv'
    <2> DEFINE id == byCodes[k]
    <2>1. UNCHANGED <<live, used, code, hostConn, joinConn, expired, byCodes>>
      BY <1>3 DEF HandleJoin
    <2>2. CASE id = NoId \/ ~Valid(id) \/ joined[id]
      <3>1. UNCHANGED joined /\ resp' \in Resp
        BY <1>3, <2>2 DEF HandleJoin, Join
      <3>2. QED
        BY <2>1, <3>1 DEF CodeIndexSound
    <2>3. CASE ~(id = NoId \/ ~Valid(id) \/ joined[id])
      <3>1. /\ id \in live /\ ~joined[id]
            /\ joined' = [joined EXCEPT ![id] = TRUE]
            /\ resp' = [op |-> "join", status |-> 200, id |-> id]
        BY <1>3, <2>3 DEF HandleJoin, Join, Valid, CodeIndexSound
      <3>2. QED
        BY <2>1, <3>1 DEF CodeIndexSound
    <2>4. QED
      BY <2>2, <2>3
  <1>4. ASSUME NEW id \in Ids, HandleStatus(id) PROVE StoreInv'
    BY <1>4 DEF HandleStatus, CodeIndexSound
  <1>5. ASSUME NEW id \in Ids, NEW role \in {"host", "joiner"},
               NEW b \in BOOLEAN, HandleConnect(id, role, b)
        PROVE  StoreInv'
    BY <1>5 DEF HandleConnect, CodeIndexSound
  <1>6. ASSUME NEW id \in Ids, NEW tok \in {"none", "host", "other"},
               HandleDelete(id, tok)
        PROVE  StoreInv'
    <2>1. UNCHANGED <<used, code, joined, hostConn, joinConn, expired>>
      BY <1>6 DEF HandleDelete
    <2>2. CASE tok = "host" /\ Valid(id)
      <3>1. /\ live' = live \ {id}
            /\ byCodes' = [byCodes EXCEPT ![code[id]] = NoId]
            /\ resp' = [op |-> "delete", status |-> 200, id |-> id]
        BY <1>6, <2>2 DEF HandleDelete, Delete
      <3>2. CodeIndexSound'
        <4> SUFFICES ASSUME NEW j \in Codes, byCodes'[j] # NoId
                     PROVE  byCodes'[j] \in live' /\ code'[byCodes'[j]] = j
          BY DEF CodeIndexSound
        <4>1. j # code[id] /\ byCodes'[j] = byCodes[j]
          BY <3>1
        <4>2. byCodes[j] \in live /\ code[byCodes[j]] = j
          BY <4>1 DEF CodeIndexSound
        <4>3. QED
          BY <2>1, <3>1, <4>1, <4>2
      <3>3. QED
        BY <2>1, <3>1, <3>2
    <2>3. CASE ~(tok = "host" /\ Valid(id))
      <3>1. UNCHANGED <<live, byCodes>> /\ resp' \in Resp
        BY <1>6, <2>3 DEF HandleDelete
      <3>2. QED
        BY <2>1, <3>1 DEF CodeIndexSound
    <2>4. QED
      BY <2>2, <2>3
  <1>7. ASSUME NEW id \in Ids, Expire(id) PROVE StoreInv'
    BY <1>7 DEF Expire, CodeIndexSound
  <1>8. CASE Cleanup
    <2> DEFINE gone == {i \in live : expired[i]}
    <2>1. /\ live' = live \ gone
          /\ byCodes' = [j \in Codes |->
                           IF \E i \in gone : code[i] = j THEN NoId
                           ELSE byCodes[j]]
          /\ UNCHANGED <<used, code, joined, hostConn, joinConn,
                         expired, resp>>
      BY <1>8 DEF Cleanup
    <2>2. CodeIndexSound'
      <3> SUFFICES ASSUME NEW j \in Codes, byCodes'[j] # NoId
                   PROVE  byCodes'[j] \in live' /\ code'[byCodes'[j]] = j
        BY DEF CodeIndexSound
      <3>1. (~\E i \in gone : code[i] = j) /\ byCodes'[j] = byCodes[j]
        BY <2>1
      <3>2. byCodes[j] \in live /\ code[byCodes[j]] = j
        BY <3>1 DEF CodeIndexSound
      <3>3. byCodes[j] \notin gone
        BY <3>1, <3>2
      <3>4. QED
        BY <2>1, <3>1, <3>2, <3>3
    <2>3. QED
      BY <2>1, <2>2
  <1>9. CASE UNCHANGED vars
    BY <1>9 DEF vars, CodeIndexSound
  <1>10. QED
    BY <1>1, <1>2, <1>3, <1>4, <1>5, <1>6, <1>7, <1>8, <1>9 DEF Next

\* The store's variables always have their types.
THEOREM StoreTypeCorrect == Spec => []TypeOK
  <1>1. StoreInv => TypeOK
    BY DEF StoreInv
  <1>2. QED
    BY InitStoreInv, NextStoreInv, <1>1, PTL DEF Spec

\* Store.Delete and the janitor never leave an entry of s.byCodes naming a
\* removed record or a record with another code (CodeIndexSound).
THEOREM CodeIndexSoundHolds == Spec => []CodeIndexSound
  <1>1. StoreInv => CodeIndexSound
    BY DEF StoreInv
  <1>2. QED
    BY InitStoreInv, NextStoreInv, <1>1, PTL DEF Spec

-----------------------------------------------------------------------------
(***************************************************************************)
(* The store refines SessionLifecycle under Phase and Last.               *)
(***************************************************************************)

\* An id never drawn has no join token and has not expired, so Create
\* makes it "open".
Fresh == \A id \in Ids \ used : ~joined[id] /\ ~expired[id]

LEMMA InitFresh == Init => Fresh
  BY DEF Init, Fresh

LEMMA NextFresh == StoreInv /\ Fresh /\ [Next]_vars => Fresh'
  <1> SUFFICES ASSUME StoreInv, Fresh, [Next]_vars PROVE Fresh'
    OBVIOUS
  <1> USE DEF StoreInv, TypeOK
  <1>1. CASE HandleCreate
    BY <1>1 DEF HandleCreate, Fresh
  <1>2. ASSUME NEW k \in Codes, HandleJoin(k) PROVE Fresh'
    BY <1>2 DEF HandleJoin, Join, Valid, Fresh
  <1>3. ASSUME NEW id \in Ids, Expire(id) PROVE Fresh'
    BY <1>3 DEF Expire, Fresh
  <1>4. CASE Cleanup
    BY <1>4 DEF Cleanup, Fresh
  <1>5. ASSUME NEW id \in Ids, NEW tok \in {"none", "host", "other"},
               HandleDelete(id, tok)
        PROVE  Fresh'
    BY <1>5 DEF HandleDelete, Fresh
  <1>6. CASE RateLimited \/ UNCHANGED vars
        \/ \E i \in Ids : HandleStatus(i)
        \/ \E j \in Ids, role \in {"host", "joiner"}, b \in BOOLEAN :
              HandleConnect(j, role, b)
    BY <1>6 DEF RateLimited, vars, HandleStatus, HandleConnect, Fresh
  <1>7. QED
    BY <1>1, <1>2, <1>3, <1>4, <1>5, <1>6 DEF Next

LEMMA InitLifecycle == Init => Lifecycle!Init
  BY DEF Init, Lifecycle!Init, Lifecycle!None, Phase, Last

\* A refused request: the phases stay, and no success is left behind.
LEMMA RefusedStep ==
  ASSUME UNCHANGED <<live, used, joined, expired>>, resp'.status # 200
  PROVE  Lifecycle!Refuse
  BY DEF Lifecycle!Refuse, Lifecycle!None, Phase, Last, Valid

LEMMA NextLifecycle ==
  StoreInv /\ Fresh /\ [Next]_vars => [Lifecycle!Next]_Lifecycle!vars
  <1> SUFFICES ASSUME StoreInv, Fresh, [Next]_vars
               PROVE  [Lifecycle!Next]_Lifecycle!vars
    OBVIOUS
  <1> USE DEF StoreInv, TypeOK
  <1>1. CASE RateLimited
    <2>1. Lifecycle!Refuse
      BY <1>1, RefusedStep DEF RateLimited, Answer
    <2>2. QED
      BY <2>1 DEF Lifecycle!Next
  <1>2. CASE HandleCreate
    <2>1. PICK id \in Ids \ used, k \in Codes :
            /\ live' = live \cup {id}
            /\ used' = used \cup {id}
            /\ resp' = [op |-> "create", status |-> 200, id |-> id]
            /\ UNCHANGED <<joined, expired>>
      BY <1>2 DEF HandleCreate, Answer
    <2>2. Phase[id] = "unused" /\ ~joined[id] /\ ~expired[id]
      BY <2>1 DEF Phase, Fresh
    <2>3. Phase' = [Phase EXCEPT ![id] = "open"]
      BY <2>1, <2>2 DEF Phase, Valid
    <2>4. Last' = [op |-> "create", id |-> id]
      BY <2>1 DEF Last
    <2>5. QED
      BY <2>2, <2>3, <2>4
         DEF Lifecycle!Next, Lifecycle!Create, Lifecycle!Succeed
  <1>3. ASSUME NEW k \in Codes, HandleJoin(k)
        PROVE  [Lifecycle!Next]_Lifecycle!vars
    <2> DEFINE id == byCodes[k]
    <2>1. UNCHANGED <<live, used, expired>>
      BY <1>3 DEF HandleJoin
    <2>2. CASE id = NoId \/ ~Valid(id) \/ joined[id]
      <3>1. UNCHANGED joined /\ resp'.status # 200
        BY <1>3, <2>2 DEF HandleJoin, Join, Answer
      <3>2. QED
        BY <2>1, <3>1, RefusedStep DEF Lifecycle!Next
    <2>3. CASE ~(id = NoId \/ ~Valid(id) \/ joined[id])
      <3>1. /\ id \in Ids /\ Valid(id) /\ ~joined[id]
            /\ joined' = [joined EXCEPT ![id] = TRUE]
            /\ resp' = [op |-> "join", status |-> 200, id |-> id]
        BY <1>3, <2>3 DEF HandleJoin, Join, Answer
      <3>2. Phase[id] = "open" /\ Phase' = [Phase EXCEPT ![id] = "joined"]
        BY <2>1, <3>1 DEF Phase, Valid
      <3>3. Last' = [op |-> "join", id |-> id]
        BY <3>1 DEF Last
      <3>4. QED
        BY <3>1, <3>2, <3>3 DEF Lifecycle!Next, Lifecycle!Join,
                                Lifecycle!Succeed
    <2>4. QED
      BY <2>2, <2>3
  <1>4. ASSUME NEW id \in Ids, HandleStatus(id)
        PROVE  [Lifecycle!Next]_Lifecycle!vars
    <2>1. UNCHANGED <<live, used, joined, expired>>
      BY <1>4 DEF HandleStatus
    <2>2. CASE Valid(id)
      <3>1. resp' = [op |-> "status", status |-> 200, id |-> id]
        BY <1>4, <2>2 DEF HandleStatus, Answer
      <3>2. Phase[id] \in Lifecycle!Living /\ Phase' = Phase
        BY <2>1, <2>2 DEF Phase, Valid, Lifecycle!Living
      <3>3. QED
        BY <3>1, <3>2 DEF Last, Lifecycle!Next, Lifecycle!Status,
                          Lifecycle!Succeed
    <2>3. CASE ~Valid(id)
      BY <1>4, <2>1, <2>3, RefusedStep DEF HandleStatus, Answer,
                                           Lifecycle!Next
    <2>4. QED
      BY <2>2, <2>3
  <1>5. ASSUME NEW id \in Ids, NEW role \in {"host", "joiner"},
               NEW b \in BOOLEAN, HandleConnect(id, role, b)
        PROVE  [Lifecycle!Next]_Lifecycle!vars
    <2>1. UNCHANGED <<live, used, joined, expired>>
      BY <1>5 DEF HandleConnect
    <2>2. CASE id \in live
      <3>1. resp' = [op |-> "connect", status |-> 200, id |-> id]
        BY <1>5, <2>2 DEF HandleConnect, Answer
      <3>2. Phase[id] # "unused" /\ Phase' = Phase
        BY <2>1, <2>2 DEF Phase, Valid
      <3>3. QED
        BY <3>1, <3>2 DEF Last, Lifecycle!Next, Lifecycle!Connect,
                          Lifecycle!Succeed
    <2>3. CASE id \notin live
      BY <1>5, <2>1, <2>3, RefusedStep DEF HandleConnect, Answer,
                                           Lifecycle!Next
    <2>4. QED
      BY <2>2, <2>3
  <1>6. ASSUME NEW id \in Ids, NEW tok \in {"none", "host", "other"},
               HandleDelete(id, tok)
        PROVE  [Lifecycle!Next]_Lifecycle!vars
    <2>1. UNCHANGED <<used, joined, expired>>
      BY <1>6 DEF HandleDelete
    <2>2. CASE tok = "host" /\ Valid(id)
      <3>1. /\ live' = live \ {id}
            /\ resp' = [op |-> "delete", status |-> 200, id |-> id]
        BY <1>6, <2>2 DEF HandleDelete, Delete, Answer
      <3>2. Phase[id] \in Lifecycle!Living
            /\ Phase' = [Phase EXCEPT ![id] = "dead"]
        BY <2>1, <2>2, <3>1 DEF Phase, Valid, Lifecycle!Living
      <3>3. QED
        BY <3>1, <3>2 DEF Last, Lifecycle!Next, Lifecycle!Delete,
                          Lifecycle!Succeed
    <2>3. CASE ~(tok = "host" /\ Valid(id))
      <3>1. UNCHANGED live /\ resp'.status # 200
        BY <1>6, <2>3 DEF HandleDelete, Answer
      <3>2. QED
        BY <2>1, <3>1, RefusedStep DEF Lifecycle!Next
    <2>4. QED
      BY <2>2, <2>3
  <1>7. ASSUME NEW id \in Ids, Expire(id)
        PROVE  [Lifecycle!Next]_Lifecycle!vars
    <2>1. /\ id \in live /\ ~expired[id]
          /\ expired' = [expired EXCEPT ![id] = TRUE]
          /\ UNCHANGED <<live, used, joined, resp>>
      BY <1>7 DEF Expire
    <2>2. Phase[id] \in Lifecycle!Living
          /\ Phase' = [Phase EXCEPT ![id] = "dead"]
      BY <2>1 DEF Phase, Valid, Lifecycle!Living
    <2>3. QED
      BY <2>1, <2>2 DEF Last, Lifecycle!Next, Lifecycle!Expire
  <1>8. CASE Cleanup
    <2>1. /\ live' = live \ {i \in live : expired[i]}
          /\ UNCHANGED <<used, joined, expired, resp>>
      BY <1>8 DEF Cleanup
    <2>2. Phase' = Phase /\ Last' = Last
      BY <2>1 DEF Phase, Valid, Last
    <2>3. QED
      BY <2>2 DEF Lifecycle!vars
  <1>9. CASE UNCHANGED vars
    BY <1>9 DEF vars, Lifecycle!vars, Phase, Valid, Last
  <1>10. QED
    BY <1>1, <1>2, <1>3, <1>4, <1>5, <1>6, <1>7, <1>8, <1>9 DEF Next

\* The handlers over the store implement the session life cycle
\* (LifecycleSpec): whatever the code index, collisions and the janitor
\* do, a session is created once, joined at most once while it lives,
\* answered by status and delete only while it lives, and never revived.
THEOREM LifecycleRefined == Spec => LifecycleSpec
  <1>1. StoreInv /\ Fresh /\ [Next]_vars => (StoreInv /\ Fresh)'
    BY NextStoreInv, NextFresh
  <1>2. QED
    BY InitStoreInv, InitFresh, InitLifecycle, <1>1, NextLifecycle, PTL
       DEF Spec, LifecycleSpec, Lifecycle!Spec

=============================================================================
