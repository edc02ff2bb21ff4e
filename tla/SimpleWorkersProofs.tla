------------------------- MODULE SimpleWorkersProofs -------------------------
(***************************************************************************)
(* Proofs about SimpleWorkers, for any messages, operators and nonces.      *)
(* However many operators run tasks at the same time, and whoever else      *)
(* sends: TasksInv is inductive, given the types.                           *)
(***************************************************************************)
EXTENDS SimpleWorkers, TLAPS

USE MessagesAssumption, MaxNonceAssumption

\* The types of the variables other than the tasks.
SourceOK ==
    /\ outbound \in 0 .. MaxNonce
    /\ sent \in [Nonces -> Messages \cup {NoMessage}]
    /\ \A n \in 1 .. outbound : sent[n] \in Messages
    /\ configured \subseteq {"send", "receive"}
    /\ overtaken \subseteq Nonces \X Messages
    /\ reported \subseteq Nonces \X Messages

DestinationOK ==
    /\ attested \subseteq Nonces \X Messages
    /\ payload \in [Nonces -> Messages \cup {NoMessage}]
    /\ lazy \in 0 .. MaxNonce
    /\ delivered \subseteq [nonce : Nonces, message : Messages, drop : BOOLEAN]
    /\ skipped \subseteq Nonces

StoreOK == SourceOK /\ DestinationOK

LEMMA TypeOKParts == TypeOK <=> StoreOK /\ task \in [Operators -> Tasks]
  BY DEF TypeOK, StoreOK, SourceOK, DestinationOK

LEMMA IdleIsATask == Idle \in Tasks
  BY DEF Idle, Tasks, SendSteps, AfterRead, AfterSend

\* A step of a task, and its end.
LEMMA GoToType ==
  ASSUME task \in [Operators -> Tasks], NEW p \in Operators, NEW step, GoTo(p, step),
         step \in SendSteps \cup WireSteps,
         step \in SendSteps => task[p].step \in SendSteps,
         step \in AfterRead => task[p].step \in AfterRead
  PROVE  task' \in [Operators -> Tasks]
<1> DEFINE t == [task[p] EXCEPT !.step = step]
<1>1. t \in Tasks
  BY DEF Tasks
<1>2. task' = [task EXCEPT ![p] = t]
  BY DEF GoTo
<1> QED
  BY <1>1, <1>2

LEMMA StopType ==
  ASSUME task \in [Operators -> Tasks], NEW p \in Operators, Stop(p)
  PROVE  task' \in [Operators -> Tasks]
  BY IdleIsATask DEF Stop

LEMMA TypeInit == Init => TypeOK
  BY IdleIsATask DEF Init, TypeOK, Nonces

\* The calls on the destination chain keep its types.
LEMMA UnchangedType == DestinationOK /\ UNCHANGED destination => DestinationOK'
  BY DEF DestinationOK, destination

LEMMA AttestType ==
  ASSUME DestinationOK, NEW n \in Nonces, NEW message \in Messages, Attest(n, message)
  PROVE  DestinationOK'
  BY DEF DestinationOK, Attest

LEMMA DeliverType ==
  ASSUME DestinationOK, NEW n \in Nonces, NEW message \in Messages, NEW drop \in BOOLEAN,
         attested' \subseteq attested,
         payload' = [payload EXCEPT ![n] = NoMessage],
         lazy' = Cleared(n),
         delivered' = delivered \cup {[nonce |-> n, message |-> message, drop |-> drop]},
         UNCHANGED skipped
  PROVE  DestinationOK'
<1>1. attested' \subseteq Nonces \X Messages /\ skipped' \subseteq Nonces
  BY DEF DestinationOK
<1>2. payload' \in [Nonces -> Messages \cup {NoMessage}]
  BY DEF DestinationOK
<1>3. lazy' \in 0 .. MaxNonce
  BY DEF DestinationOK, Cleared, Nonces
<1>4. delivered' \subseteq [nonce : Nonces, message : Messages, drop : BOOLEAN]
  BY DEF DestinationOK
<1> QED
  BY <1>1, <1>2, <1>3, <1>4 DEF DestinationOK

LEMMA ExecuteType ==
  ASSUME DestinationOK, NEW n \in Nonces, NEW message \in Messages, NEW drop \in BOOLEAN,
         CommitsAndExecutes(n, message, drop)
  PROVE  DestinationOK'
<1>1. /\ attested' \subseteq attested
      /\ payload' = [payload EXCEPT ![n] = NoMessage]
      /\ lazy' = Cleared(n)
      /\ delivered' = delivered \cup {[nonce |-> n, message |-> message, drop |-> drop]}
      /\ UNCHANGED skipped
  BY DEF CommitsAndExecutes
<1> QED
  BY <1>1, DeliverType

\* Nothing but messages of tasks is named for a nonce, next to the message it has.
LEMMA NamedType ==
  ASSUME SourceOK, NEW n \in Nonces, NEW message, ByHand(n, message)
  PROVE  message \in Messages /\ n <= outbound
<1>1. n \in 1 .. outbound /\ message \in Named(n)
  BY DEF ByHand
<1>2. CASE message = sent[n]
  BY <1>1, <1>2 DEF SourceOK
<1>3. ASSUME NEW o \in overtaken, message = o[2] PROVE message \in Messages
  BY <1>3 DEF SourceOK
<1> QED
  BY <1>1, <1>2, <1>3 DEF Named, Nonces

LEMMA OvertakesType ==
  ASSUME SourceOK, task \in [Operators -> Tasks], outbound < MaxNonce,
         NEW others \in SUBSET Operators
  PROVE  Overtakes(others) \subseteq Nonces \X Messages
<1>1. outbound + 1 \in Nonces
  BY DEF SourceOK, Nonces
<1>2. \A q \in Operators : task[q].step = "send" => task[q].message \in Messages
  BY DEF Tasks, SendSteps, AfterRead
<1> QED
  BY <1>1, <1>2 DEF Overtakes

\* A send, by a task or not.
LEMMA TakesNextNonceType ==
  ASSUME SourceOK, task \in [Operators -> Tasks], NEW message \in Messages,
         NEW others \in SUBSET Operators, TakesNextNonce(message, others),
         UNCHANGED <<configured, reported>>
  PROVE  SourceOK'
<1>1. overtaken' \subseteq Nonces \X Messages
  BY OvertakesType DEF TakesNextNonce, SourceOK
<1>2. outbound' \in 0 .. MaxNonce /\ sent' \in [Nonces -> Messages \cup {NoMessage}]
  BY DEF TakesNextNonce, SourceOK, Nonces
<1>3. \A n \in 1 .. outbound' : sent'[n] \in Messages
  BY DEF TakesNextNonce, SourceOK, Nonces
<1> QED
  BY <1>1, <1>2, <1>3 DEF SourceOK

\* Each action keeps the types of both chains ...
LEMMA SourceTypeStep ==
  ASSUME SourceOK, task \in [Operators -> Tasks], [Next]_vars
  PROVE  SourceOK'
<1>1. CASE UNCHANGED <<outbound, sent, configured, overtaken, reported>>
  BY <1>1 DEF SourceOK
<1>2. ASSUME NEW message \in Messages, SendOnly(message) PROVE SourceOK'
  BY <1>2, TakesNextNonceType DEF SendOnly
<1>3. ASSUME NEW p \in Operators, Send(p) PROVE SourceOK'
  <2>1. task[p].message \in Messages
    BY <1>3 DEF Send, Tasks, SendSteps, AfterRead
  <2> QED
    BY <1>3, <2>1, TakesNextNonceType DEF Send
<1>4. ASSUME NEW p \in Operators, ProcessReceiveCommitAndExecute(p) PROVE SourceOK'
  <2>1. task[p].nonce \in Nonces /\ task[p].message \in Messages
    BY <1>4 DEF ProcessReceiveCommitAndExecute, Tasks, SendSteps, AfterRead, AfterSend
  <2> QED
    BY <1>4, <2>1 DEF ProcessReceiveCommitAndExecute, Reports, SourceOK
<1>5. ASSUME NEW p \in Operators, SetSendConfig(p) \/ SetReceiveConfig(p) PROVE SourceOK'
  BY <1>5 DEF SetSendConfig, SetReceiveConfig, SourceOK
<1>6. ASSUME SetSendConfigByHand \/ SetReceiveConfigByHand PROVE SourceOK'
  BY <1>6 DEF SetSendConfigByHand, SetReceiveConfigByHand, SetConfigByHand, SourceOK
<1>7. \/ UNCHANGED <<outbound, sent, configured, overtaken, reported>>
      \/ \E message \in Messages : SendOnly(message)
      \/ \E p \in Operators :
            \/ Send(p) \/ ProcessReceiveCommitAndExecute(p)
            \/ SetSendConfig(p) \/ SetReceiveConfig(p)
      \/ SetSendConfigByHand \/ SetReceiveConfigByHand
  BY DEF vars, Next, OperatorNext, Continue, HandNext, StartSend, StartWire, PreflightCheck,
     ReadOutboundNonce, ProcessReceiveVerify, TaskFails, Verify, Commit, LzReceive,
     CommitAndExecute, Skip, ByHand
<1> QED
  BY <1>1, <1>2, <1>3, <1>4, <1>5, <1>6, <1>7

LEMMA DestinationTypeStep ==
  ASSUME SourceOK, DestinationOK, task \in [Operators -> Tasks], [Next]_vars
  PROVE  DestinationOK'
<1>1. ASSUME NEW p \in Operators, ProcessReceiveVerify(p) PROVE DestinationOK'
  <2>1. Plain[task[p].message] \in Messages /\ task[p].nonce \in Nonces
    BY <1>1 DEF ProcessReceiveVerify, Tasks, SendSteps, AfterRead, AfterSend
  <2> QED
    BY <1>1, <2>1, AttestType DEF ProcessReceiveVerify, ProcessMessage
<1>2. \A message \in Messages : NativeDrops(message) \in BOOLEAN
  BY DEF NativeDrops
<1>3. ASSUME NEW p \in Operators, ProcessReceiveCommitAndExecute(p) PROVE DestinationOK'
  <2>1. task[p].message \in Messages /\ task[p].nonce \in Nonces
    BY <1>3 DEF ProcessReceiveCommitAndExecute, Tasks, SendSteps, AfterRead, AfterSend
  <2>2. CommitsAndExecutes(task[p].nonce, Plain[task[p].message], NativeDrops(task[p].message))
    BY <1>3 DEF ProcessReceiveCommitAndExecute, Executes, ProcessMessage
  <2> QED
    BY <1>2, <2>1, <2>2, ExecuteType
<1>4. ASSUME NEW n \in Nonces, NEW message \in Messages, Verify(n, message)
      PROVE  DestinationOK'
  BY <1>4, AttestType DEF Verify, ProcessMessage
<1>5. ASSUME NEW n \in Nonces, NEW message \in Messages, Commit(n, message)
      PROVE  DestinationOK'
  BY <1>5 DEF Commit, ProcessMessage, DestinationOK
<1>6. ASSUME NEW n \in Nonces, NEW message \in Messages, LzReceive(n, message)
      PROVE  DestinationOK'
  <2>1. payload[n] \in Messages /\ attested' \subseteq attested
    BY <1>6 DEF LzReceive, ProcessMessage
  <2> QED
    BY <1>6, <2>1, DeliverType DEF LzReceive
<1>7. ASSUME NEW n \in Nonces, NEW message \in Messages, CommitAndExecute(n, message)
      PROVE  DestinationOK'
  <2>1. PICK drop \in {FALSE, NativeDrops(message)} :
             CommitsAndExecutes(n, ProcessMessage(message), drop)
    BY <1>7 DEF CommitAndExecute
  <2>2. drop \in BOOLEAN
    BY <1>2
  <2>3. Plain[message] \in Messages /\ CommitsAndExecutes(n, Plain[message], drop)
    BY <2>1 DEF ProcessMessage
  <2> QED
    BY <2>2, <2>3, ExecuteType
<1>8. ASSUME NEW n \in Nonces, Skip(n) PROVE DestinationOK'
  BY <1>8 DEF Skip, DestinationOK, Nonces
<1>9. \/ UNCHANGED destination
      \/ \E p \in Operators : ProcessReceiveVerify(p) \/ ProcessReceiveCommitAndExecute(p)
      \/ \E n \in Nonces, message \in Messages :
            \/ Verify(n, message) \/ Commit(n, message)
            \/ LzReceive(n, message) \/ CommitAndExecute(n, message)
      \/ \E n \in Nonces : Skip(n)
  BY DEF vars, destination, Next, OperatorNext, Continue, HandNext, SendOnly, StartSend,
     StartWire, PreflightCheck, ReadOutboundNonce, Send, SetSendConfig, SetReceiveConfig,
     TaskFails, SetSendConfigByHand, SetReceiveConfigByHand, SetConfigByHand
<1> QED
  BY <1>1, <1>3, <1>4, <1>5, <1>6, <1>7, <1>8, <1>9, UnchangedType

\* ... and of the tasks.
LEMMA TaskTypeStep == TypeOK /\ [Next]_vars => task' \in [Operators -> Tasks]
<1> SUFFICES ASSUME StoreOK, task \in [Operators -> Tasks], [Next]_vars
             PROVE  task' \in [Operators -> Tasks]
  BY TypeOKParts
<1> USE DEF SendSteps, AfterRead, AfterSend, WireSteps
<1>1. CASE task' = task
  BY <1>1
<1>2. ASSUME NEW p \in Operators, Stop(p) PROVE task' \in [Operators -> Tasks]
  BY <1>2, StopType
<1>3. ASSUME NEW p \in Operators, NEW message \in Messages, StartSend(p, message)
      PROVE  task' \in [Operators -> Tasks]
  <2>1. [step |-> "preflight", message |-> message, nonce |-> 0] \in Tasks
    BY DEF Tasks
  <2> QED
    BY <1>3, <2>1 DEF StartSend
<1>4. ASSUME NEW p \in Operators, StartWire(p) PROVE task' \in [Operators -> Tasks]
  <2>1. [Idle EXCEPT !.step = "setSendConfig"] \in Tasks
    BY DEF Tasks, Idle
  <2> QED
    BY <1>4, <2>1 DEF StartWire
<1>5. ASSUME NEW p \in Operators, PreflightCheck(p) PROVE task' \in [Operators -> Tasks]
  <2>1. \/ Stop(p)
        \/ task[p].step = "preflight" /\ GoTo(p, "readNonce")
        \/ task[p].step = "preflightAgain" /\ GoTo(p, "verify")
    BY <1>5 DEF PreflightCheck
  <2> QED
    BY <2>1, StopType, GoToType
<1>6. ASSUME NEW p \in Operators, ReadOutboundNonce(p) PROVE task' \in [Operators -> Tasks]
  <2> DEFINE t == [step |-> "send", message |-> task[p].message, nonce |-> NextOutboundNonce]
  <2>1. t \in Tasks
    <3>1. NextOutboundNonce \in Nonces
      BY <1>6 DEF ReadOutboundNonce, NextOutboundNonce, StoreOK, SourceOK, Nonces
    <3>2. task[p].message \in Messages
      BY <1>6 DEF ReadOutboundNonce, Tasks
    <3> QED
      BY <3>1, <3>2 DEF Tasks, Nonces
  <2>2. task' = [task EXCEPT ![p] = t]
    BY <1>6 DEF ReadOutboundNonce
  <2> QED
    BY <2>1, <2>2
<1>7. ASSUME NEW p \in Operators, Send(p) PROVE task' \in [Operators -> Tasks]
  BY <1>7, GoToType DEF Send
<1>8. ASSUME NEW p \in Operators, ProcessReceiveVerify(p) PROVE task' \in [Operators -> Tasks]
  BY <1>8, GoToType DEF ProcessReceiveVerify
<1>9. ASSUME NEW p \in Operators, SetSendConfig(p) PROVE task' \in [Operators -> Tasks]
  BY <1>9, GoToType DEF SetSendConfig
<1>10. \/ task' = task
       \/ \E p \in Operators :
             \/ Stop(p)
             \/ \E message \in Messages : StartSend(p, message)
             \/ StartWire(p) \/ PreflightCheck(p) \/ ReadOutboundNonce(p) \/ Send(p)
             \/ ProcessReceiveVerify(p) \/ SetSendConfig(p)
  BY DEF vars, Next, OperatorNext, Continue, SendOnly, ProcessReceiveCommitAndExecute,
     SetReceiveConfig, TaskFails, SetSendConfigByHand, SetReceiveConfigByHand, SetConfigByHand,
     HandNext, Verify, Commit, LzReceive, CommitAndExecute, Skip, ByHand
<1> QED
  BY <1>1, <1>2, <1>3, <1>4, <1>5, <1>6, <1>7, <1>8, <1>9, <1>10

LEMMA TypeStep == TypeOK /\ [Next]_vars => TypeOK'
<1> SUFFICES ASSUME TypeOK, [Next]_vars PROVE TypeOK'
  OBVIOUS
<1>1. SourceOK /\ DestinationOK /\ task \in [Operators -> Tasks]
  BY TypeOKParts DEF StoreOK
<1>2. SourceOK' /\ DestinationOK' /\ task' \in [Operators -> Tasks]
  BY <1>1, SourceTypeStep, DestinationTypeStep, TaskTypeStep
<1> QED
  BY <1>2 DEF TypeOK, SourceOK, DestinationOK

\* The types hold.
THEOREM TypeCorrect == Spec => []TypeOK
<1> QED
  BY TypeInit, TypeStep, PTL DEF Spec

-----------------------------------------------------------------------------
(* The tasks, and what the destination holds.                                *)

StepsInv ==
    \A p \in Operators : task[p].step \in AfterRead =>
        \/ task[p].step = "send" /\ task[p].nonce = outbound + 1
        \/ task[p].nonce <= outbound /\ task[p].message \in Named(task[p].nonce)

RecordsInv ==
    /\ \A a \in attested : OfNamed(a[1], a[2])
    /\ \A n \in Nonces : payload[n] # NoMessage => OfNamed(n, payload[n])
    /\ \A d \in delivered : OfNamed(d.nonce, d.message)

ReportsInv ==
    /\ \A r \in reported : r[1] <= outbound
    /\ SuccessMeansDelivered

LEMMA TasksInvParts == TasksInv <=> StepsInv /\ RecordsInv /\ ReportsInv
  BY DEF TasksInv, StepsInv, RecordsInv, ReportsInv

\* What is sent, and what tasks were overtaken with, stays.
SentStays ==
    /\ outbound <= outbound'
    /\ \A n \in Nonces : n <= outbound => sent'[n] = sent[n]
    /\ overtaken \subseteq overtaken'

LEMMA NoncesAreTaken ==
  ASSUME SourceOK, NEW message, NEW others, TakesNextNonce(message, others)
  PROVE  SentStays
  BY DEF TakesNextNonce, SentStays, SourceOK, Nonces

LEMMA SentStaysStep == SourceOK /\ [Next]_vars => SentStays
<1> SUFFICES ASSUME SourceOK, [Next]_vars PROVE SentStays
  OBVIOUS
<1>1. CASE UNCHANGED <<outbound, sent, overtaken>>
  BY <1>1 DEF SentStays, SourceOK
<1>2. ASSUME NEW message \in Messages, SendOnly(message) PROVE SentStays
  BY <1>2, NoncesAreTaken DEF SendOnly
<1>3. ASSUME NEW p \in Operators, Send(p) PROVE SentStays
  BY <1>3, NoncesAreTaken DEF Send
<1>4. \/ UNCHANGED <<outbound, sent, overtaken>>
      \/ \E message \in Messages : SendOnly(message)
      \/ \E p \in Operators : Send(p)
  BY DEF vars, Next, OperatorNext, Continue, HandNext, StartSend, StartWire, PreflightCheck,
     ReadOutboundNonce, ProcessReceiveVerify, ProcessReceiveCommitAndExecute, SetSendConfig,
     SetReceiveConfig, TaskFails, SetSendConfigByHand, SetReceiveConfigByHand, SetConfigByHand,
     Verify, Commit, LzReceive, CommitAndExecute, Skip, ByHand
<1> QED
  BY <1>1, <1>2, <1>3, <1>4

\* Hence what is named for a nonce stays named.
LEMMA NamedStays ==
  ASSUME SourceOK, SentStays, NEW n \in Nonces, n <= outbound, NEW message \in Named(n)
  PROVE  message \in Named(n)'
<1>1. CASE message = sent[n]
  BY <1>1 DEF SentStays, Named
<1>2. ASSUME NEW o \in overtaken, o[1] = n, message = o[2] PROVE message \in Named(n)'
  BY <1>2 DEF SentStays, Named
<1> QED
  BY <1>1, <1>2 DEF Named

LEMMA OfNamedStays ==
  ASSUME SourceOK, SentStays, SourceOK', NEW n \in Nonces, NEW message, OfNamed(n, message)
  PROVE  OfNamed(n, message)'
<1>1. PICK named \in Named(n) : message = Plain[named]
  BY DEF OfNamed
<1>2. named \in Named(n)' /\ n <= outbound'
  BY NamedStays DEF OfNamed, SentStays, SourceOK, Nonces
<1> QED
  BY <1>1, <1>2 DEF OfNamed

\* Only what is of a named message enters, and what is delivered or committed was
\* attested or committed before.
EntersNamed ==
    /\ \A a \in attested' : a \in attested \/ OfNamed(a[1], a[2])
    /\ \A n \in Nonces : payload'[n] # NoMessage =>
          payload'[n] = payload[n] \/ OfNamed(n, payload'[n])
    /\ \A d \in delivered' : d \in delivered \/ OfNamed(d.nonce, d.message)

LEMMA RecordsStay ==
  ASSUME SourceOK, SourceOK', DestinationOK, DestinationOK', RecordsInv, SentStays, EntersNamed
  PROVE  RecordsInv'
<1>1. ASSUME NEW a \in attested' PROVE OfNamed(a[1], a[2])'
  <2>1. OfNamed(a[1], a[2]) /\ a[1] \in Nonces
    BY <1>1 DEF RecordsInv, EntersNamed, DestinationOK
  <2> QED
    BY <2>1, OfNamedStays
<1>2. ASSUME NEW n \in Nonces, payload'[n] # NoMessage PROVE OfNamed(n, payload[n])'
  <2>1. OfNamed(n, payload'[n])
    BY <1>2 DEF RecordsInv, EntersNamed
  <2>2. PICK named \in Named(n) : payload'[n] = Plain[named]
    BY <2>1 DEF OfNamed
  <2>3. n <= outbound
    BY <2>1 DEF OfNamed
  <2>4. named \in Named(n)'
    BY <2>3, NamedStays
  <2>5. n <= outbound'
    BY <2>3 DEF SentStays, SourceOK, Nonces
  <2> QED
    BY <2>2, <2>4, <2>5 DEF OfNamed
<1>3. ASSUME NEW d \in delivered' PROVE OfNamed(d.nonce, d.message)'
  <2>1. OfNamed(d.nonce, d.message) /\ d.nonce \in Nonces
    BY <1>3 DEF RecordsInv, EntersNamed, DestinationOK
  <2> QED
    BY <2>1, OfNamedStays
<1> QED
  BY <1>1, <1>2, <1>3 DEF RecordsInv

\* The calls on the destination, given a message that is named for the nonce.
LEMMA AttestEnters ==
  ASSUME NEW n \in Nonces, NEW message, OfNamed(n, message), Attest(n, message)
  PROVE  EntersNamed
  BY DEF Attest, EntersNamed

LEMMA DeliverEnters ==
  ASSUME DestinationOK, NEW n \in Nonces, NEW message, NEW drop, OfNamed(n, message),
         attested' \subseteq attested,
         payload' = [payload EXCEPT ![n] = NoMessage],
         delivered' = delivered \cup {[nonce |-> n, message |-> message, drop |-> drop]}
  PROVE  EntersNamed
<1>1. \A m \in Nonces : payload'[m] # NoMessage => payload'[m] = payload[m]
  BY DEF DestinationOK
<1> QED
  BY <1>1 DEF EntersNamed

LEMMA CommitEnters ==
  ASSUME DestinationOK, NEW n \in Nonces, NEW message, OfNamed(n, message),
         attested' \subseteq attested,
         payload' = [payload EXCEPT ![n] = message],
         UNCHANGED delivered
  PROVE  EntersNamed
<1>1. \A m \in Nonces : payload'[m] = payload[m] \/ (m = n /\ payload'[m] = message)
  BY DEF DestinationOK
<1>2. \A m \in Nonces : payload'[m] = payload[m] \/ OfNamed(m, payload'[m])
  BY <1>1, Zenon
<1> QED
  BY <1>2 DEF EntersNamed

\* By hand it is; ...
LEMMA ByHandIsNamed ==
  ASSUME NEW n, NEW message, ByHand(n, message)
  PROVE  OfNamed(n, Plain[message])
  BY DEF ByHand, OfNamed

\* ... and for a task after its send, by StepsInv.
LEMMA TaskIsNamed ==
  ASSUME StepsInv, task \in [Operators -> Tasks], NEW p \in Operators,
         task[p].step \in AfterSend
  PROVE  /\ task[p].nonce \in Nonces /\ task[p].nonce <= outbound
         /\ task[p].message \in Named(task[p].nonce)
         /\ OfNamed(task[p].nonce, Plain[task[p].message])
<1>1. task[p].nonce \in Nonces
  BY DEF Tasks, AfterRead, SendSteps
<1>2. task[p].nonce <= outbound /\ task[p].message \in Named(task[p].nonce)
  BY DEF StepsInv, AfterRead, AfterSend
<1> QED
  BY <1>1, <1>2 DEF OfNamed

LEMMA EntersNamedStep ==
  ASSUME SourceOK, DestinationOK, task \in [Operators -> Tasks], StepsInv, [Next]_vars
  PROVE  EntersNamed
<1>1. CASE UNCHANGED <<attested, payload, delivered>>
  BY <1>1 DEF EntersNamed
<1>2. ASSUME NEW p \in Operators, ProcessReceiveVerify(p) PROVE EntersNamed
  <2>1. task[p].step \in AfterSend /\ Attest(task[p].nonce, Plain[task[p].message])
    BY <1>2 DEF ProcessReceiveVerify, ProcessMessage, AfterSend
  <2> QED
    BY <2>1, TaskIsNamed, AttestEnters
<1>3. ASSUME NEW p \in Operators, ProcessReceiveCommitAndExecute(p) PROVE EntersNamed
  <2>1. task[p].step \in AfterSend
    BY <1>3 DEF ProcessReceiveCommitAndExecute, AfterSend
  <2>2. CommitsAndExecutes(task[p].nonce, Plain[task[p].message], NativeDrops(task[p].message))
    BY <1>3 DEF ProcessReceiveCommitAndExecute, Executes, ProcessMessage
  <2> QED
    BY <2>1, <2>2, TaskIsNamed, DeliverEnters DEF CommitsAndExecutes
<1>4. ASSUME NEW n \in Nonces, NEW message \in Messages, Verify(n, message) PROVE EntersNamed
  BY <1>4, ByHandIsNamed, AttestEnters DEF Verify, ProcessMessage
<1>5. ASSUME NEW n \in Nonces, NEW message \in Messages, Commit(n, message) PROVE EntersNamed
  <2>1. OfNamed(n, Plain[message])
    BY <1>5, ByHandIsNamed DEF Commit
  <2>2. /\ attested' \subseteq attested
        /\ payload' = [payload EXCEPT ![n] = Plain[message]]
        /\ UNCHANGED delivered
    BY <1>5 DEF Commit, ProcessMessage
  <2> QED
    BY <2>1, <2>2, CommitEnters
<1>6. ASSUME NEW n \in Nonces, NEW message \in Messages, LzReceive(n, message)
      PROVE  EntersNamed
  <2>1. OfNamed(n, Plain[message])
    BY <1>6, ByHandIsNamed DEF LzReceive
  <2>2. /\ attested' \subseteq attested
        /\ payload' = [payload EXCEPT ![n] = NoMessage]
        /\ delivered' = delivered
             \cup {[nonce |-> n, message |-> Plain[message], drop |-> FALSE]}
    BY <1>6 DEF LzReceive, ProcessMessage
  <2> QED
    BY <2>1, <2>2, DeliverEnters
<1>7. ASSUME NEW n \in Nonces, NEW message \in Messages, CommitAndExecute(n, message)
      PROVE  EntersNamed
  <2>1. OfNamed(n, Plain[message])
    BY <1>7, ByHandIsNamed DEF CommitAndExecute
  <2>2. PICK drop : CommitsAndExecutes(n, Plain[message], drop)
    BY <1>7 DEF CommitAndExecute, ProcessMessage
  <2> QED
    BY <2>1, <2>2, DeliverEnters DEF CommitsAndExecutes
<1>8. \/ UNCHANGED <<attested, payload, delivered>>
      \/ \E p \in Operators : ProcessReceiveVerify(p) \/ ProcessReceiveCommitAndExecute(p)
      \/ \E n \in Nonces, message \in Messages :
            \/ Verify(n, message) \/ Commit(n, message)
            \/ LzReceive(n, message) \/ CommitAndExecute(n, message)
  BY DEF vars, destination, Next, OperatorNext, Continue, HandNext, SendOnly, StartSend,
     StartWire, PreflightCheck, ReadOutboundNonce, Send, SetSendConfig, SetReceiveConfig,
     TaskFails, SetSendConfigByHand, SetReceiveConfigByHand, SetConfigByHand, Skip
<1> QED
  BY <1>1, <1>2, <1>3, <1>4, <1>5, <1>6, <1>7, <1>8

\* A task: it reads the next nonce, and keeps it to itself only while nobody sends.
StepOK(p) ==
    \/ task[p].step = "send" /\ task[p].nonce = outbound + 1
    \/ task[p].nonce <= outbound /\ task[p].message \in Named(task[p].nonce)

LEMMA KeepsNonce ==
  ASSUME SourceOK, SourceOK', SentStays, NEW p \in Operators, NEW n \in Nonces, NEW message,
         n <= outbound, message \in Named(n),
         task'[p].nonce = n, task'[p].message = message
  PROVE  StepOK(p)'
<1>1. message \in Named(n)'
  BY NamedStays
<1>2. n <= outbound'
  BY DEF SentStays, SourceOK, Nonces
<1> QED
  BY <1>1, <1>2 DEF StepOK

\* Another's send: what the task has is named, or is so from now on.
LEMMA OtherTaskStep ==
  ASSUME SourceOK, SourceOK', SentStays, task \in [Operators -> Tasks],
         NEW p \in Operators, task[p].step \in AfterRead, StepOK(p), task'[p] = task[p],
         NEW sending, NEW others, p \in others, TakesNextNonce(sending, others)
  PROVE  StepOK(p)'
<1>1. PICK n, message : n = task[p].nonce /\ message = task[p].message
  OBVIOUS
<1>2. n \in Nonces
  BY <1>1 DEF Tasks, SendSteps, AfterRead
<1>3. CASE task[p].step = "send" /\ n = outbound + 1
  <2>1. <<n, message>> \in overtaken'
    BY <1>1, <1>3 DEF TakesNextNonce, Overtakes
  <2>2. message \in Named(n)'
    BY <2>1 DEF Named
  <2>3. n <= outbound'
    BY <1>3 DEF TakesNextNonce, SourceOK
  <2> QED
    BY <1>1, <2>2, <2>3 DEF StepOK
<1>4. CASE n <= outbound /\ message \in Named(n)
  BY <1>1, <1>2, <1>4, KeepsNonce
<1> QED
  BY <1>1, <1>3, <1>4 DEF StepOK

\* Its own: the nonce is the one that was read, or was taken before.
LEMMA OwnSendStep ==
  ASSUME SourceOK, SourceOK', SentStays, task \in [Operators -> Tasks],
         NEW p \in Operators, StepOK(p), Send(p)
  PROVE  StepOK(p)'
<1>1. PICK n, message : n = task[p].nonce /\ message = task[p].message
  OBVIOUS
<1>2. n \in Nonces
  BY <1>1 DEF Send, Tasks, SendSteps, AfterRead
<1>3. task'[p].nonce = n /\ task'[p].message = message
  BY <1>1 DEF Send, GoTo, Tasks
<1>4. CASE n = outbound + 1
  <2>1. sent'[n] = message /\ n <= outbound'
    BY <1>1, <1>2, <1>4 DEF Send, TakesNextNonce, SourceOK
  <2>2. message \in Named(n)'
    BY <2>1 DEF Named
  <2> QED
    BY <1>3, <2>1, <2>2 DEF StepOK
<1>5. CASE n <= outbound /\ message \in Named(n)
  BY <1>2, <1>3, <1>5, KeepsNonce
<1> QED
  BY <1>1, <1>4, <1>5 DEF StepOK

LEMMA ReadStep ==
  ASSUME SourceOK, task \in [Operators -> Tasks], NEW p \in Operators, ReadOutboundNonce(p)
  PROVE  StepOK(p)'
<1>1. task'[p].step = "send" /\ task'[p].nonce = outbound' + 1
  BY DEF ReadOutboundNonce, NextOutboundNonce
<1> QED
  BY <1>1 DEF StepOK

\* Its later steps change neither nonce nor message.
LEMMA LaterStep ==
  ASSUME SourceOK, SourceOK', SentStays, task \in [Operators -> Tasks], StepsInv,
         NEW p \in Operators, task[p].step \in AfterSend,
         task'[p].nonce = task[p].nonce, task'[p].message = task[p].message
  PROVE  StepOK(p)'
<1>1. PICK n, message : n = task[p].nonce /\ message = task[p].message
  OBVIOUS
<1>2. n \in Nonces /\ n <= outbound /\ message \in Named(n)
  BY <1>1, TaskIsNamed
<1> QED
  BY <1>1, <1>2, KeepsNonce

\* What a step does to the task of p, and of the others.
TaskMoves(p) ==
    \/ task'[p] = task[p]
    \/ task'[p].step \notin AfterRead
    \/ ReadOutboundNonce(p)
    \/ Send(p)
    \/ /\ task[p].step \in AfterSend
       /\ task'[p].nonce = task[p].nonce /\ task'[p].message = task[p].message

LEMMA OwnStepMoves ==
  ASSUME task \in [Operators -> Tasks], NEW p \in Operators, OperatorNext(p)
  PROVE  TaskMoves(p)
<1> USE DEF AfterRead, AfterSend
<1>1. ASSUME NEW message \in Messages, StartSend(p, message) PROVE TaskMoves(p)
  BY <1>1 DEF StartSend, TaskMoves
<1>2. CASE StartWire(p)
  BY <1>2 DEF StartWire, Idle, TaskMoves
<1>3. CASE Stop(p)
  BY <1>3 DEF Stop, Idle, TaskMoves
<1>4. CASE PreflightCheck(p)
  <2>1. \/ Stop(p)
        \/ task[p].step = "preflight" /\ GoTo(p, "readNonce")
        \/ task[p].step = "preflightAgain" /\ GoTo(p, "verify")
    BY <1>4 DEF PreflightCheck
  <2> QED
    BY <1>3, <2>1 DEF GoTo, Tasks, TaskMoves
<1>5. CASE ProcessReceiveVerify(p)
  BY <1>5 DEF ProcessReceiveVerify, GoTo, Tasks, TaskMoves
<1>6. CASE SetSendConfig(p)
  BY <1>6 DEF SetSendConfig, GoTo, Tasks, TaskMoves
<1>7. \/ \E message \in Messages : StartSend(p, message)
      \/ StartWire(p) \/ Stop(p) \/ PreflightCheck(p) \/ ProcessReceiveVerify(p)
      \/ SetSendConfig(p) \/ ReadOutboundNonce(p) \/ Send(p)
  BY DEF OperatorNext, Continue, ProcessReceiveCommitAndExecute, SetReceiveConfig, TaskFails
<1> QED
  BY <1>1, <1>2, <1>3, <1>4, <1>5, <1>6, <1>7 DEF TaskMoves

LEMMA OthersStay ==
  ASSUME task \in [Operators -> Tasks], NEW q \in Operators, OperatorNext(q),
         NEW p \in Operators, p # q
  PROVE  task'[p] = task[p]
  BY DEF OperatorNext, Continue, StartSend, StartWire, PreflightCheck, ReadOutboundNonce, Send,
     ProcessReceiveVerify, ProcessReceiveCommitAndExecute, SetSendConfig, SetReceiveConfig,
     TaskFails, GoTo, Stop

LEMMA StepsParts == StepsInv <=> \A p \in Operators : task[p].step \in AfterRead => StepOK(p)
  BY DEF StepsInv, StepOK

LEMMA TaskMovesStep ==
  ASSUME SourceOK, SourceOK', SentStays, task \in [Operators -> Tasks], StepsInv,
         NEW p \in Operators, TaskMoves(p), task'[p].step \in AfterRead,
         task'[p] = task[p] => UNCHANGED <<outbound, sent, overtaken>>
  PROVE  StepOK(p)'
<1>1. CASE task'[p] = task[p]
  <2>1. StepOK(p)
    BY <1>1, StepsParts
  <2> QED
    BY <1>1, <2>1 DEF StepOK, Named
<1>2. CASE ReadOutboundNonce(p)
  BY <1>2, ReadStep
<1>3. CASE Send(p)
  <2>1. StepOK(p)
    BY <1>3, StepsParts DEF Send, AfterRead
  <2> QED
    BY <1>3, <2>1, OwnSendStep
<1>4. CASE /\ task[p].step \in AfterSend
           /\ task'[p].nonce = task[p].nonce /\ task'[p].message = task[p].message
  BY <1>4, LaterStep
<1> QED
  BY <1>1, <1>2, <1>3, <1>4 DEF TaskMoves

LEMMA StepsStep ==
  ASSUME SourceOK, SourceOK', SentStays, task \in [Operators -> Tasks], StepsInv, [Next]_vars
  PROVE  StepsInv'
<1> SUFFICES ASSUME NEW p \in Operators, task'[p].step \in AfterRead PROVE StepOK(p)'
  BY DEF StepsInv, StepOK
<1>1. CASE task'[p] = task[p] /\ UNCHANGED <<outbound, sent, overtaken>>
  BY <1>1, TaskMovesStep DEF TaskMoves
<1>2. ASSUME NEW message, NEW others, p \in others, TakesNextNonce(message, others),
             task'[p] = task[p]
      PROVE  StepOK(p)'
  BY <1>2, OtherTaskStep, StepsParts
<1>3. ASSUME NEW message \in Messages, SendOnly(message) PROVE StepOK(p)'
  BY <1>2, <1>3 DEF SendOnly
<1>4. ASSUME NEW q \in Operators, q # p, OperatorNext(q) PROVE StepOK(p)'
  <2>1. task'[p] = task[p]
    BY <1>4, OthersStay
  <2>2. CASE Send(q)
    BY <1>2, <1>4, <2>1, <2>2 DEF Send
  <2>3. CASE ~Send(q)
    <3>1. UNCHANGED <<outbound, sent, overtaken>>
      BY <1>4, <2>3 DEF OperatorNext, Continue, StartSend, StartWire, PreflightCheck,
         ReadOutboundNonce, ProcessReceiveVerify, ProcessReceiveCommitAndExecute, SetSendConfig,
         SetReceiveConfig, TaskFails
    <3> QED
      BY <1>1, <2>1, <3>1
  <2> QED
    BY <2>2, <2>3
<1>5. CASE OperatorNext(p)
  <2>1. TaskMoves(p)
    BY <1>5, OwnStepMoves
  <2>2. CASE Send(p)
    <3>1. task[p].step \in AfterRead
      BY <2>2 DEF Send, AfterRead
    <3> QED
      BY <2>2, <3>1, OwnSendStep, StepsParts
  <2>3. CASE ~Send(p)
    <3>1. UNCHANGED <<outbound, sent, overtaken>>
      BY <1>5, <2>3 DEF OperatorNext, Continue, StartSend, StartWire, PreflightCheck,
         ReadOutboundNonce, ProcessReceiveVerify, ProcessReceiveCommitAndExecute, SetSendConfig,
         SetReceiveConfig, TaskFails
    <3> QED
      BY <2>1, <3>1, TaskMovesStep
  <2> QED
    BY <2>2, <2>3
<1>6. \/ UNCHANGED <<task, outbound, sent, overtaken>>
      \/ \E message \in Messages : SendOnly(message)
      \/ \E q \in Operators : OperatorNext(q)
  BY DEF vars, Next, HandNext, SetSendConfigByHand, SetReceiveConfigByHand, SetConfigByHand,
     Verify, Commit, LzReceive, CommitAndExecute, Skip, ByHand
<1> QED
  BY <1>1, <1>3, <1>4, <1>5, <1>6

\* What is reported stays delivered and stays true; a task that ends without an
\* error has just delivered.
LEMMA ReportsStay ==
  ASSUME SourceOK, SourceOK', SentStays, ReportsInv, UNCHANGED reported,
         delivered \subseteq delivered'
  PROVE  ReportsInv'
<1> SUFFICES ASSUME NEW r \in reported
             PROVE  /\ r[1] <= outbound'
                    /\ [nonce |-> r[1], message |-> Plain[r[2]], drop |-> NativeDrops(r[2])]
                          \in delivered'
                    /\ sent'[r[1]] = r[2] \/ r \in overtaken'
  BY DEF ReportsInv, SuccessMeansDelivered
<1>1. r[1] \in Nonces /\ r[1] <= outbound
  BY DEF SourceOK, ReportsInv
<1>2. r[1] <= outbound' /\ sent'[r[1]] = sent[r[1]]
  <2>1. PICK n \in Nonces : n = r[1]
    BY <1>1
  <2>2. n <= outbound' /\ sent'[n] = sent[n]
    BY <1>1, <2>1 DEF SentStays, SourceOK, Nonces
  <2> QED
    BY <2>1, <2>2
<1>3. [nonce |-> r[1], message |-> Plain[r[2]], drop |-> NativeDrops(r[2])] \in delivered
  BY DEF ReportsInv, SuccessMeansDelivered
<1>4. sent[r[1]] = r[2] \/ r \in overtaken
  BY DEF ReportsInv, SuccessMeansDelivered
<1> QED
  BY <1>2, <1>3, <1>4 DEF SentStays

LEMMA NewReport ==
  ASSUME SourceOK, SentStays, ReportsInv, StepsInv, task \in [Operators -> Tasks],
         NEW p \in Operators, ProcessReceiveCommitAndExecute(p)
  PROVE  ReportsInv'
<1>1. PICK n, message : n = task[p].nonce /\ message = task[p].message
  OBVIOUS
<1>2. /\ reported' = reported \cup {<<n, message>>}
      /\ delivered' = delivered
           \cup {[nonce |-> n, message |-> Plain[message], drop |-> NativeDrops(message)]}
      /\ UNCHANGED <<outbound, sent, overtaken>>
  BY <1>1 DEF ProcessReceiveCommitAndExecute, Reports, Executes, CommitsAndExecutes, ProcessMessage
<1>3. n <= outbound /\ message \in Named(n)
  BY <1>1, TaskIsNamed DEF ProcessReceiveCommitAndExecute, AfterSend
<1>4. message = sent[n] \/ <<n, message>> \in overtaken
  <2>1. ASSUME NEW o \in overtaken, o[1] = n, o[2] = message PROVE <<n, message>> \in overtaken
    <3>1. o = <<o[1], o[2]>>
      BY DEF SourceOK
    <3> QED
      BY <2>1, <3>1
  <2> QED
    BY <1>3, <2>1 DEF Named
<1>5. ASSUME NEW r \in reported'
      PROVE  /\ r[1] <= outbound
             /\ [nonce |-> r[1], message |-> Plain[r[2]], drop |-> NativeDrops(r[2])]
                   \in delivered'
             /\ sent[r[1]] = r[2] \/ r \in overtaken
  <2>1. CASE r \in reported
    BY <1>2, <2>1 DEF ReportsInv, SuccessMeansDelivered
  <2>2. CASE r = <<n, message>>
    BY <1>2, <1>3, <1>4, <2>2
  <2> QED
    BY <1>2, <2>1, <2>2
<1> QED
  BY <1>2, <1>5 DEF ReportsInv, SuccessMeansDelivered, NativeDrops

LEMMA ReportsStep ==
  ASSUME SourceOK, task \in [Operators -> Tasks], StepsInv, ReportsInv, [Next]_vars
  PROVE  ReportsInv'
<1>1. SentStays /\ SourceOK'
  BY SentStaysStep, SourceTypeStep
<1>2. CASE UNCHANGED reported /\ delivered \subseteq delivered'
  BY <1>1, <1>2, ReportsStay
<1>3. ASSUME NEW p \in Operators, ProcessReceiveCommitAndExecute(p) PROVE ReportsInv'
  BY <1>1, <1>3, NewReport
<1>4. \/ UNCHANGED reported /\ delivered \subseteq delivered'
      \/ \E p \in Operators : ProcessReceiveCommitAndExecute(p)
  BY DEF vars, destination, Next, OperatorNext, Continue, HandNext, SendOnly, StartSend,
     StartWire, PreflightCheck, ReadOutboundNonce, Send, SetSendConfig, SetReceiveConfig,
     TaskFails, SetSendConfigByHand, SetReceiveConfigByHand, SetConfigByHand,
     ProcessReceiveVerify, Verify, Attest, Commit, LzReceive, CommitAndExecute,
     CommitsAndExecutes, Skip, ByHand
<1> QED
  BY <1>2, <1>3, <1>4

-----------------------------------------------------------------------------
LEMMA TasksInit == Init => TasksInv
  BY DEF Init, TasksInv, SuccessMeansDelivered, Idle, AfterRead, AfterSend

LEMMA Inductive == IInv /\ [Next]_vars => IInv'
<1> SUFFICES ASSUME TypeOK, TasksInv, [Next]_vars PROVE TypeOK' /\ TasksInv'
  BY DEF IInv
<1>1. /\ SourceOK /\ DestinationOK /\ task \in [Operators -> Tasks]
      /\ StepsInv /\ RecordsInv /\ ReportsInv
  BY TypeOKParts, TasksInvParts DEF StoreOK
<1>2. SourceOK' /\ DestinationOK'
  BY <1>1, SourceTypeStep, DestinationTypeStep
<1>3. StepsInv'
  BY <1>1, <1>2, SentStaysStep, StepsStep
<1>4. RecordsInv'
  BY <1>1, <1>2, SentStaysStep, EntersNamedStep, RecordsStay
<1>5. ReportsInv'
  BY <1>1, ReportsStep
<1>6. TasksInv'
  BY <1>3, <1>4, <1>5 DEF TasksInv, StepsInv, RecordsInv, ReportsInv
<1> QED
  BY <1>6, TypeStep

\* However many operators run tasks at the same time and whoever else sends, what
\* is found on the destination for a nonce is of a message named for it.
THEOREM InductiveInvariant == Spec => []IInv
<1>1. Init => IInv
  BY TypeInit, TasksInit DEF IInv
<1> QED
  BY <1>1, Inductive, PTL DEF Spec

\* A nonce delivers the message that was sent under it, or the one of a task that
\* another send overtook between the reading of the nonce and the task's own send.
THEOREM DeliversAsSent == Spec => []DeliveredAsSent
<1>1. IInv => DeliveredAsSent
  BY DEF IInv, TasksInv, OfNamed, DeliveredAsSent
<1> QED
  BY InductiveInvariant, <1>1, PTL

\* A send task without an error has delivered its message and its native drop,
\* under the nonce that the message has unless another send overtook it.
THEOREM SuccessIsDelivery == Spec => []SuccessMeansDelivered
<1>1. IInv => SuccessMeansDelivered
  BY DEF IInv, TasksInv
<1> QED
  BY InductiveInvariant, <1>1, PTL
=============================================================================
