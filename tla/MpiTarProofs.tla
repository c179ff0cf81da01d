---------------------------- MODULE MpiTarProofs ----------------------------
(* What is proved of MpiTar for every number of workers, list and limits. *)
EXTENDS MpiTarProps, FiniteSetTheorems, SequenceTheorems, TLAPS

\* No worker is past the first barrier before the master made the archive.
Opened ==
  /\ pc[0] # "create" => exists
  /\ \A w \in Workers : pc[w] # "opened" => exists

\* While a job is packed its two slots are chosen and the worker has room.
Building ==
  pc[0] = "build" =>
    /\ recvId \in Slots /\ sendId \in Slots
    /\ recvReq[current][recvId] = NoRequest
    /\ sendReq[current][sendId] = 0
    /\ jobsInFlight[current] < MaxJobsInFlight

\* Jobs are numbered from 1 to jobs.
Numbered ==
  /\ \A w \in Workers, s \in Slots : sendReq[w][s] <= jobs /\ recvReq[w][s].job <= jobs
  /\ \A a \in acks : a.job \in 1..jobs
  /\ \A w \in Workers : \A i \in 1..Len(network[w]) :
       /\ network[w][i].job <= jobs
       /\ network[w][i].ents # << >> => network[w][i].job # 0
  /\ \A w \in Workers : \A i \in 1..Len(queue[w]) : queue[w][i].job \in 1..jobs

\* Two slots never hold the send of the same job.
OwnSlots ==
  \A w \in Workers, s \in Slots, t \in Slots :
    sendReq[w][s] # 0 /\ sendReq[w][s] = sendReq[w][t] => s = t

\* A job that is still in the network is there once, has its receive posted,
\* and no file or ack of it is anywhere else.
InNetworkOnly ==
  \A w \in Workers : \A i \in 1..Len(network[w]) :
    LET j == network[w][i].job
    IN  j # 0 => /\ \E r \in Slots : recvReq[w][r].job = j
                 /\ \A k \in 1..Len(network[w]) : network[w][k].job = j => k = i
                 /\ \A k \in 1..Len(queue[w]) : queue[w][k].job # j
                 /\ \A a \in acks : a.worker = w => a.job # j

IInv == /\ TypeOK /\ Opened /\ Building /\ OneReceivePerJob
        /\ Numbered /\ OwnSlots /\ InNetworkOnly
-----------------------------------------------------------------------------
LEMMA RanksFacts ==
  0 \in Ranks /\ 1 \in Workers /\ \A w \in Workers : w \in Ranks /\ w # 0
BY NWorkersAssumption DEF Ranks, Workers

LEMMA SlotsFinite ==
  ASSUME NEW S \in SUBSET Slots
  PROVE  /\ IsFiniteSet(Slots) /\ Cardinality(Slots) = MaxJobsInFlight
         /\ IsFiniteSet(S) /\ Cardinality(S) \in Nat
         /\ Cardinality(S) <= MaxJobsInFlight
         /\ Cardinality(S) = MaxJobsInFlight => S = Slots
<1>1. IsFiniteSet(Slots) /\ Cardinality(Slots) = MaxJobsInFlight
  BY FS_Interval, LimitsAssumption DEF Slots
<1>2. IsFiniteSet(S) /\ Cardinality(S) <= Cardinality(Slots)
      /\ (Cardinality(Slots) = Cardinality(S) => Slots = S)
  BY <1>1, FS_Subset
<1>3. Cardinality(S) \in Nat
  BY <1>2, FS_CardinalityType
<1> QED  BY <1>1, <1>2, <1>3

LEMMA InitIInv == Init => IInv
<1> SUFFICES ASSUME Init PROVE IInv
  OBVIOUS
<1> USE NWorkersAssumption, NFilesAssumption, LimitsAssumption
<1>1. TypeOK
  <2>1. ControlOK
    <3>1. "create" \in MasterPCs /\ "opened" \in WorkerPCs /\ "opened" \in MasterPCs
      BY DEF MasterPCs, WorkerPCs
    <3>2. pc \in [Ranks -> MasterPCs \cup WorkerPCs] /\ pc[0] \in MasterPCs
          /\ \A w \in Workers : pc[w] \in WorkerPCs
      BY <3>1, RanksFacts DEF Init
    <3>3. current \in Workers
      BY DEF Init, Workers
    <3>4. failed \in BOOLEAN
      BY DEF Init
    <3> QED  BY <3>2, <3>3, <3>4 DEF ControlOK
  <2>2. PackingOK
    BY DEF Init, PackingOK
  <2>3. RequestsOK
    BY DEF Init, RequestsOK, NoRequest, Request
  <2>4. MessagesOK /\ QueuesOK
    BY DEF Init, MessagesOK, QueuesOK
  <2>5. FilesOK
    BY DEF Init, FilesOK, Extent, Extents
  <2> QED  BY <2>1, <2>2, <2>3, <2>4, <2>5 DEF TypeOK
<1>2. Opened /\ Building
  BY RanksFacts DEF Init, Opened, Building
<1>3. \A w \in Workers : Posted(w) = {}
  BY DEF Init, Posted
<1>4. OneReceivePerJob
  BY <1>3, FS_EmptySet DEF Init, OneReceivePerJob
<1>5. Numbered /\ OwnSlots /\ InNetworkOnly
  BY DEF Init, Numbered, OwnSlots, InNetworkOnly, NoRequest
<1> QED  BY <1>1, <1>2, <1>4, <1>5 DEF IInv
-----------------------------------------------------------------------------
(* What a step leaves alone keeps its part of the invariant. *)

LEMMA FrameTypes ==
  /\ PackingOK /\ UNCHANGED <<progress, listVars, packVars>> => PackingOK'
  /\ RequestsOK /\ UNCHANGED postVars => RequestsOK'
  /\ MessagesOK /\ UNCHANGED <<network, acks>> => MessagesOK'
  /\ QueuesOK /\ UNCHANGED workerVars => QueuesOK'
  /\ FilesOK /\ UNCHANGED fileVars => FilesOK'
BY DEF PackingOK, RequestsOK, MessagesOK, QueuesOK, FilesOK, listVars, packVars, postVars,
       workerVars, fileVars

LEMMA FrameJobs ==
  /\ Numbered /\ UNCHANGED <<postVars, network, acks, queue>> => Numbered'
  /\ OwnSlots /\ UNCHANGED sendReq => OwnSlots'
  /\ InNetworkOnly /\ UNCHANGED <<recvReq, network, acks, queue>> => InNetworkOnly'
BY DEF Numbered, OwnSlots, InNetworkOnly, postVars

LEMMA FrameCount ==
  ASSUME OneReceivePerJob, UNCHANGED <<jobsInFlight, recvReq>>,
         pc[0] \in AfterWait => pc[0]' \in AfterWait
  PROVE  OneReceivePerJob'
BY DEF OneReceivePerJob, Posted, AfterWait

LEMMA FrameOpened ==
  ASSUME Opened, exists => exists',
         pc[0]' # "create" => pc[0] # "create" \/ exists',
         \A w \in Workers : pc[w]' # "opened" => pc[w] # "opened" \/ exists'
  PROVE  Opened'
BY DEF Opened

\* Goto moves one rank.
LEMMA GotoStep ==
  ASSUME ControlOK, UNCHANGED failed, current' \in Workers,
         NEW r \in Ranks, NEW there \in IF r = 0 THEN MasterPCs ELSE WorkerPCs,
         Goto(r, there)
  PROVE  /\ ControlOK'
         /\ pc[r]' = there
         /\ \A q \in Ranks : q # r => pc[q]' = pc[q]
<1>1. pc \in [Ranks -> MasterPCs \cup WorkerPCs]
  BY DEF ControlOK
<1>2. pc[r]' = there /\ \A q \in Ranks : q # r => pc[q]' = pc[q]
  BY <1>1 DEF Goto
<1>3. pc' \in [Ranks -> MasterPCs \cup WorkerPCs]
  BY <1>1 DEF Goto
<1>4. pc[0]' \in MasterPCs /\ \A w \in Workers : pc[w]' \in WorkerPCs
  BY <1>2, RanksFacts DEF ControlOK
<1>5. failed' \in BOOLEAN
  BY DEF ControlOK
<1> QED  BY <1>2, <1>3, <1>4, <1>5 DEF ControlOK
-----------------------------------------------------------------------------
(* The master *)

LEMMA CreateStep == IInv /\ Create => IInv'
<1> SUFFICES ASSUME IInv, Create PROVE IInv'
  OBVIOUS
<1> USE RanksFacts DEF IInv, TypeOK
<1>1. ControlOK' /\ pc[0]' = "opened" /\ \A w \in Workers : pc[w]' = pc[w]
  BY GotoStep DEF Create, masterVars, ControlOK, MasterPCs
<1>2. PackingOK' /\ RequestsOK' /\ MessagesOK' /\ QueuesOK'
  BY FrameTypes DEF Create, masterVars
<1>3. exists'
  BY DEF Create
<1>4. FilesOK'
  <2>1. exists' \in BOOLEAN
    BY DEF Create
  <2> QED  BY <2>1 DEF Create, FilesOK
<1>5. Opened'
  BY <1>3 DEF Opened
<1>6. Building'
  BY <1>1 DEF Building
<1>7. OneReceivePerJob'
  BY <1>1, FrameCount DEF Create, masterVars, postVars, AfterWait
<1>8. Numbered' /\ OwnSlots' /\ InNetworkOnly'
  BY FrameJobs DEF Create, masterVars, postVars, workerVars
<1> QED  BY <1>1, <1>2, <1>4, <1>5, <1>6, <1>7, <1>8

LEMMA OpenIndexStep == IInv /\ OpenIndex => IInv'
<1> SUFFICES ASSUME IInv, OpenIndex PROVE IInv'
  OBVIOUS
<1> USE RanksFacts DEF IInv, TypeOK
<1>1. ControlOK' /\ pc[0]' = "test_send" /\ \A w \in Workers : pc[w]' = pc[w]
  BY GotoStep DEF OpenIndex, masterVars, ControlOK, MasterPCs
<1>2. PackingOK' /\ RequestsOK' /\ MessagesOK' /\ QueuesOK' /\ FilesOK'
  BY FrameTypes DEF OpenIndex, masterVars
<1>3. Opened'
  BY <1>1, FrameOpened DEF OpenIndex, fileVars
<1>4. Building'
  BY <1>1 DEF Building
<1>5. OneReceivePerJob'
  BY <1>1, FrameCount DEF OpenIndex, masterVars, postVars, AfterWait
<1>6. Numbered' /\ OwnSlots' /\ InNetworkOnly'
  BY FrameJobs DEF OpenIndex, masterVars, postVars, workerVars
<1> QED  BY <1>1, <1>2, <1>3, <1>4, <1>5, <1>6

LEMMA TestSendsStep == IInv /\ TestSends => IInv'
<1> SUFFICES ASSUME IInv, TestSends PROVE IInv'
  OBVIOUS
<1> USE RanksFacts DEF IInv, TypeOK
<1>1. ControlOK' /\ pc[0]' = "test_recv" /\ \A w \in Workers : pc[w]' = pc[w]
  BY GotoStep DEF TestSends, ControlOK, MasterPCs
<1>2. PackingOK' /\ MessagesOK' /\ QueuesOK' /\ FilesOK'
  BY FrameTypes DEF TestSends
<1>3. sendReq' = sendReq \/ \E v \in Workers, s \in Slots : sendReq' = [sendReq EXCEPT ![v][s] = 0]
  BY DEF TestSends, TestableSends, ActiveSends, ReceivedSends
<1>4. /\ sendReq' \in [Workers -> [Slots -> Nat]]
      /\ \A w \in Workers, s \in Slots : \/ sendReq'[w][s] = 0
                                        \/ sendReq'[w][s] = sendReq[w][s]
  <2>1. CASE sendReq' = sendReq
    BY <2>1 DEF RequestsOK
  <2>2. CASE \E v \in Workers, s \in Slots : sendReq' = [sendReq EXCEPT ![v][s] = 0]
    <3>1. PICK v \in Workers, t \in Slots : sendReq' = [sendReq EXCEPT ![v][t] = 0]
      BY <2>2
    <3> QED  BY <3>1 DEF RequestsOK
  <2> QED  BY <1>3, <2>1, <2>2
<1>5. RequestsOK'
  BY <1>4 DEF TestSends, RequestsOK
<1>6. Opened'
  BY <1>1, FrameOpened DEF TestSends, fileVars
<1>7. Building'
  BY <1>1 DEF Building
<1>8. OneReceivePerJob'
  BY <1>1, FrameCount DEF TestSends, AfterWait
<1>9. Numbered'
  <2>1. \A w \in Workers, s \in Slots : sendReq[w][s] \in Nat /\ sendReq[w][s] <= jobs
                                        /\ jobs \in Nat
    BY DEF Numbered, RequestsOK
  <2>2. \A w \in Workers, s \in Slots : sendReq'[w][s] <= jobs
    BY <1>4, <2>1
  <2> QED  BY <2>2 DEF TestSends, Numbered, workerVars
<1>10. OwnSlots'
  BY <1>4 DEF OwnSlots
<1>11. InNetworkOnly'
  BY FrameJobs DEF TestSends, workerVars
<1> QED  BY <1>1, <1>2, <1>5, <1>6, <1>7, <1>8, <1>9, <1>10, <1>11

LEMMA CollectAckStep ==
  ASSUME IInv, NEW a \in acks, CollectAck(a)
  PROVE  IInv'
<1> USE DEF IInv, TypeOK
<1>1. a.worker \in Workers /\ a.job \in 1..jobs /\ a.bytes \in Nat
  BY DEF MessagesOK, Ack, Numbered
<1>2. PICK r \in ReceivesOf(a) :
        recvReq' = [recvReq EXCEPT ![a.worker][r] = NoRequest]
  BY DEF CollectAck
<1>3. r \in Slots /\ recvReq[a.worker][r].job = a.job
  BY <1>2 DEF ReceivesOf
<1>4. recvReq' \in [Workers -> [Slots -> Request]]
  BY <1>2, <1>3 DEF RequestsOK, Request, NoRequest
<1>5. \A w \in Workers, s \in Slots :
        recvReq'[w][s] = IF w = a.worker /\ s = r THEN NoRequest ELSE recvReq[w][s]
  BY <1>1, <1>2, <1>3 DEF RequestsOK
<1>6. pc' = pc /\ pc[0] = "test_recv"
  BY DEF CollectAck
<1>7. ControlOK'
  BY <1>6 DEF CollectAck, ControlOK
<1>8. PackingOK'
  BY <1>1 DEF CollectAck, PackingOK, listVars, packVars
<1>9. Posted(a.worker)' = Posted(a.worker) \ {r} /\ r \in Posted(a.worker)
  BY <1>1, <1>3, <1>5 DEF Posted, NoRequest
<1>10. \A w \in Workers : w # a.worker => Posted(w)' = Posted(w)
  BY <1>5 DEF Posted
<1>11. jobsInFlight[a.worker] = Cardinality(Posted(a.worker)) /\ jobsInFlight[a.worker] # 0
  <2>1. Posted(a.worker) \in SUBSET Slots
    BY DEF Posted
  <2>2. IsFiniteSet(Posted(a.worker))
    BY <2>1, SlotsFinite
  <2>3. Cardinality(Posted(a.worker)) # 0
    BY <1>9, <2>2, FS_EmptySet
  <2> QED  BY <1>1, <1>6, <2>3 DEF OneReceivePerJob, AfterWait
<1>12. RequestsOK'
  <2>1. jobsInFlight' \in [Workers -> 0..MaxJobsInFlight]
    BY <1>1, <1>11, LimitsAssumption DEF CollectAck, RequestsOK
  <2> QED  BY <1>4, <2>1 DEF CollectAck, RequestsOK
<1>13. MessagesOK' /\ QueuesOK' /\ FilesOK'
  BY FrameTypes DEF CollectAck, MessagesOK
<1>14. Opened' /\ Building'
  BY <1>6 DEF CollectAck, Opened, Building, fileVars
<1>15. OneReceivePerJob'
  <2>1. Cardinality(Posted(a.worker)') = Cardinality(Posted(a.worker)) - 1
    <3>1. Posted(a.worker) \in SUBSET Slots
      BY DEF Posted
    <3> QED  BY <1>9, <3>1, SlotsFinite, FS_RemoveElement
  <2>2. \A w \in Workers : jobsInFlight[w]' = Cardinality(Posted(w)')
    BY <1>1, <1>6, <1>10, <1>11, <2>1 DEF CollectAck, OneReceivePerJob, AfterWait, RequestsOK
  <2> QED  BY <2>2 DEF OneReceivePerJob, Posted
<1>16. Numbered'
  BY <1>5 DEF CollectAck, Numbered, RequestsOK, NoRequest, workerVars
<1>17. OwnSlots'
  BY FrameJobs DEF CollectAck
<1>18. InNetworkOnly'
  BY <1>1, <1>3, <1>5 DEF CollectAck, InNetworkOnly, workerVars
<1> QED  BY <1>7, <1>8, <1>12, <1>13, <1>14, <1>15, <1>16, <1>17, <1>18

LEMMA EndCollectStep == IInv /\ EndCollect => IInv'
<1> SUFFICES ASSUME IInv, EndCollect PROVE IInv'
  OBVIOUS
<1> USE RanksFacts DEF IInv, TypeOK
<1>1. ControlOK' /\ pc[0]' = "dispatch" /\ \A w \in Workers : pc[w]' = pc[w]
  BY GotoStep DEF EndCollect, masterVars, ControlOK, MasterPCs
<1>2. PackingOK' /\ RequestsOK' /\ MessagesOK' /\ QueuesOK' /\ FilesOK'
  BY FrameTypes DEF EndCollect, masterVars
<1>3. Opened'
  BY <1>1, FrameOpened DEF EndCollect, fileVars
<1>4. Building'
  BY <1>1 DEF Building
<1>5. OneReceivePerJob'
  BY <1>1, FrameCount DEF EndCollect, masterVars, postVars, AfterWait
<1>6. Numbered' /\ OwnSlots' /\ InNetworkOnly'
  BY FrameJobs DEF EndCollect, masterVars, postVars, workerVars
<1> QED  BY <1>1, <1>2, <1>3, <1>4, <1>5, <1>6

LEMMA NextWorkerType ==
  ASSUME current \in Workers, NextWorker
  PROVE  current' \in Workers
BY NWorkersAssumption DEF NextWorker, Workers

LEMMA SkipWorkerStep == IInv /\ SkipWorker => IInv'
<1> SUFFICES ASSUME IInv, SkipWorker PROVE IInv'
  OBVIOUS
<1> USE RanksFacts DEF IInv, TypeOK
<1>1. current' \in Workers
  BY NextWorkerType DEF SkipWorker, ControlOK
<1>2. ControlOK' /\ pc[0]' = "test_send" /\ \A w \in Workers : pc[w]' = pc[w]
  BY <1>1, GotoStep DEF SkipWorker, MasterPCs
<1>3. PackingOK' /\ RequestsOK' /\ MessagesOK' /\ QueuesOK' /\ FilesOK'
  BY FrameTypes DEF SkipWorker
<1>4. Opened'
  BY <1>2, FrameOpened DEF SkipWorker, fileVars
<1>5. Building'
  BY <1>2 DEF Building
<1>6. OneReceivePerJob'
  BY <1>2, FrameCount DEF SkipWorker, postVars, AfterWait
<1>7. Numbered' /\ OwnSlots' /\ InNetworkOnly'
  BY FrameJobs DEF SkipWorker, postVars, workerVars
<1> QED  BY <1>2, <1>3, <1>4, <1>5, <1>6, <1>7

\* If the sends of all slots of a worker are still in the network, a receive
\* is posted for each: the worker has MaxJobsInFlight jobs in flight.
LEMMA AllInTransit ==
  ASSUME IInv, NEW w \in Workers,
         \A s \in Slots : sendReq[w][s] # 0 /\ InTransit(w, sendReq[w][s])
  PROVE  Cardinality(Posted(w)) = MaxJobsInFlight
<1> USE DEF IInv, TypeOK
<1>1. \A s \in Slots : \E r \in Slots : recvReq[w][r].job = sendReq[w][s]
  <2> SUFFICES ASSUME NEW s \in Slots
               PROVE  \E r \in Slots : recvReq[w][r].job = sendReq[w][s]
    OBVIOUS
  <2>1. PICK i \in DOMAIN network[w] : network[w][i].job = sendReq[w][s]
    BY DEF InTransit
  <2>2. i \in 1..Len(network[w])
    BY <2>1, LenProperties DEF MessagesOK
  <2> QED  BY <2>1, <2>2 DEF InNetworkOnly
<1> DEFINE f == [s \in Slots |-> CHOOSE r \in Slots : recvReq[w][r].job = sendReq[w][s]]
<1>2. \A s \in Slots : f[s] \in Slots /\ recvReq[w][f[s]].job = sendReq[w][s]
  BY <1>1
<1>3. \A s \in Slots : f[s] \in Posted(w)
  BY <1>2 DEF Posted, NoRequest
<1>4. f \in Injection(Slots, Posted(w))
  <2>1. \A s, t \in Slots : f[s] = f[t] => s = t
    BY <1>2 DEF OwnSlots
  <2>2. f \in [Slots -> Posted(w)]
    BY <1>3
  <2> HIDE DEF f
  <2> QED  BY <2>1, <2>2 DEF Injection, IsInjective
<1>5. Posted(w) \in SUBSET Slots
  BY DEF Posted
<1>6. Cardinality(Slots) <= Cardinality(Posted(w))
  BY <1>4, <1>5, SlotsFinite, FS_Injection
<1> QED  BY <1>5, <1>6, SlotsFinite, LimitsAssumption

\* An underworked worker has a free receive and a free send request: the two
\* asserts hold, and Testany of a receive never takes an ack.
LEMMA StartJobStep == IInv /\ StartJob => IInv' /\ UNCHANGED failed
<1> SUFFICES ASSUME IInv, StartJob PROVE IInv' /\ UNCHANGED failed
  OBVIOUS
<1> USE RanksFacts DEF IInv, TypeOK
<1> DEFINE freeR == {s \in Slots : recvReq[current][s] = NoRequest}
           mayR  == {s \in Slots : \E a \in acks : s \in ReceivesOf(a)
                                                 /\ a.worker = current}
           freeS == Slots \ ActiveSends(current)
<1>1. current \in Workers /\ pc[0] = "dispatch" /\ jobsInFlight[current] \in Nat
      /\ jobsInFlight[current] < MaxJobsInFlight
  BY LimitsAssumption DEF StartJob, ControlOK, RequestsOK
<1>2. Cardinality(Posted(current)) < MaxJobsInFlight
  BY <1>1 DEF OneReceivePerJob, AfterWait
<1>3. freeR # {}
  <2>1. Posted(current) # Slots
    BY <1>1, <1>2, SlotsFinite, LimitsAssumption
  <2> QED  BY <2>1 DEF Posted
<1>4. PICK r \in FindUnused(freeR, {}, mayR) :
      \E s \in FindUnused(freeS, ReceivedSends(current), TestableSends(current)) :
       IF r # 0 /\ s # 0
       THEN /\ Goto(0, "build")
            /\ recvId' = r /\ sendId' = s
            /\ recvReq' = [recvReq EXCEPT ![current][r] = NoRequest]
            /\ acks' = {a \in acks : a.worker # current \/ r \notin ReceivesOf(a)}
            /\ sendReq' = [sendReq EXCEPT ![current][s] = 0]
            /\ UNCHANGED failed
       ELSE /\ failed' = TRUE
            /\ UNCHANGED <<pc, recvId, sendId, recvReq, acks, sendReq>>
  BY DEF StartJob
<1>5. PICK s \in FindUnused(freeS, ReceivedSends(current), TestableSends(current)) :
       IF r # 0 /\ s # 0
       THEN /\ Goto(0, "build")
            /\ recvId' = r /\ sendId' = s
            /\ recvReq' = [recvReq EXCEPT ![current][r] = NoRequest]
            /\ acks' = {a \in acks : a.worker # current \/ r \notin ReceivesOf(a)}
            /\ sendReq' = [sendReq EXCEPT ![current][s] = 0]
            /\ UNCHANGED failed
       ELSE /\ failed' = TRUE
            /\ UNCHANGED <<pc, recvId, sendId, recvReq, acks, sendReq>>
  BY <1>4
<1>6. r \in Slots /\ recvReq[current][r] = NoRequest
  BY <1>3, <1>4 DEF FindUnused
<1>7. s \in Slots
  <2> SUFFICES ASSUME s \notin Slots PROVE FALSE
    OBVIOUS
  <2>1. freeS = {} /\ ReceivedSends(current) = {}
    BY <1>5 DEF FindUnused, TestableSends, ReceivedSends, ActiveSends
  <2>2. \A t \in Slots : sendReq[current][t] # 0 /\ InTransit(current, sendReq[current][t])
    BY <2>1 DEF ReceivedSends, ActiveSends
  <2>3. Cardinality(Posted(current)) = MaxJobsInFlight
    BY <1>1, <2>2, AllInTransit
  <2> QED  BY <1>1, <1>2, <2>3, LimitsAssumption
<1>8. /\ Goto(0, "build")
      /\ recvId' = r /\ sendId' = s
      /\ recvReq' = [recvReq EXCEPT ![current][r] = NoRequest]
      /\ acks' = {a \in acks : a.worker # current \/ r \notin ReceivesOf(a)}
      /\ sendReq' = [sendReq EXCEPT ![current][s] = 0]
      /\ UNCHANGED failed
  BY <1>5, <1>6, <1>7, LimitsAssumption DEF Slots
<1>9. recvReq' = recvReq
  BY <1>1, <1>6, <1>8 DEF RequestsOK
<1>10. acks' = acks
  <2>1. \A a \in acks : a.worker # current \/ r \notin ReceivesOf(a)
    BY <1>6 DEF ReceivesOf, NoRequest, Numbered
  <2> QED  BY <1>8, <2>1
<1>11. \A w \in Workers, t \in Slots :
         sendReq'[w][t] = IF w = current /\ t = s THEN 0 ELSE sendReq[w][t]
  BY <1>1, <1>7, <1>8 DEF RequestsOK
<1>12. ControlOK' /\ pc[0]' = "build" /\ \A w \in Workers : pc[w]' = pc[w]
  BY <1>1, <1>8, GotoStep DEF StartJob, MasterPCs
<1>13. PackingOK'
  BY <1>6, <1>7, <1>8 DEF StartJob, PackingOK, listVars
<1>14. RequestsOK'
  BY <1>1, <1>7, <1>8, <1>9 DEF StartJob, RequestsOK
<1>15. MessagesOK' /\ QueuesOK' /\ FilesOK'
  BY <1>10, FrameTypes DEF StartJob
<1>16. Opened'
  BY <1>1, <1>12, FrameOpened DEF StartJob, fileVars
<1>17. Building'
  BY <1>1, <1>6, <1>7, <1>8, <1>9, <1>11 DEF StartJob, Building
<1>18. OneReceivePerJob'
  BY <1>1, <1>9, <1>12, FrameCount DEF StartJob, AfterWait
<1>19. Numbered'
  <2>1. \A w \in Workers, t \in Slots : sendReq[w][t] <= jobs /\ jobs \in Nat
    BY DEF Numbered, RequestsOK
  <2>2. \A w \in Workers, t \in Slots : sendReq'[w][t] <= jobs
    BY <1>11, <2>1
  <2> QED  BY <1>9, <1>10, <2>2 DEF StartJob, Numbered, workerVars
<1>20. OwnSlots'
  BY <1>11 DEF OwnSlots
<1>21. InNetworkOnly'
  BY <1>9, <1>10, FrameJobs DEF StartJob, workerVars
<1> QED  BY <1>8, <1>12, <1>13, <1>14, <1>15, <1>16, <1>17, <1>18, <1>19, <1>20, <1>21

LEMMA AddEntryStep == IInv /\ AddEntry => IInv'
<1> SUFFICES ASSUME IInv, AddEntry PROVE IInv'
  OBVIOUS
<1> USE DEF IInv, TypeOK
<1>1. listed + 1 \in Files /\ listed + 1 \in Members /\ off \in Nat
  BY NFilesAssumption DEF AddEntry, PackingOK, Files, Members
<1>2. Entry(listed + 1, off) \in Entries /\ off + Size[listed + 1] \in Nat
  BY <1>1, SizeAssumption DEF Entry, Entries
<1>3. ControlOK'
  BY DEF AddEntry, ControlOK
<1>4. PackingOK'
  <2>1. buffer' \in Seq(Entries) /\ index' \in Seq(Entries)
    BY <1>2, AppendProperties DEF AddEntry, PackingOK
  <2>2. listed' \in 0..NFiles
    BY NFilesAssumption DEF AddEntry, PackingOK
  <2> QED  BY <1>2, <2>1, <2>2 DEF AddEntry, PackingOK
<1>5. RequestsOK' /\ MessagesOK' /\ QueuesOK' /\ FilesOK'
  BY FrameTypes DEF AddEntry
<1>6. Opened' /\ Building' /\ OneReceivePerJob'
  BY FrameCount DEF AddEntry, Opened, Building, postVars, fileVars
<1>7. Numbered' /\ OwnSlots' /\ InNetworkOnly'
  BY FrameJobs DEF AddEntry, postVars, workerVars
<1> QED  BY <1>3, <1>4, <1>5, <1>6, <1>7

\* A job is posted: its receive, its send and its message get a new number.
LEMMA PostStep ==
  ASSUME IInv, pc[0] = "build", buffer # << >>, Post, UNCHANGED <<acks, queue>>
  PROVE  /\ RequestsOK' /\ MessagesOK'
         /\ \A w \in Workers : jobsInFlight[w]' = Cardinality(Posted(w)')
         /\ Numbered' /\ OwnSlots' /\ InNetworkOnly'
<1> USE DEF IInv, TypeOK
<1> DEFINE m == [job |-> jobs + 1, tag |-> sendId, ents |-> buffer]
<1>1. current \in Workers /\ recvId \in Slots /\ sendId \in Slots /\ jobs \in Nat
      /\ recvReq[current][recvId] = NoRequest /\ sendReq[current][sendId] = 0
      /\ jobsInFlight[current] < MaxJobsInFlight
  BY DEF Building, ControlOK, RequestsOK
<1>2. m \in Message
  BY <1>1 DEF Message, PackingOK
<1>3. \A w \in Workers, s \in Slots :
        recvReq'[w][s] = IF w = current /\ s = recvId
                         THEN [job |-> jobs + 1, tag |-> sendId] ELSE recvReq[w][s]
  BY <1>1 DEF Post, RequestsOK
<1>4. \A w \in Workers, s \in Slots :
        sendReq'[w][s] = IF w = current /\ s = sendId THEN jobs + 1 ELSE sendReq[w][s]
  BY <1>1 DEF Post, RequestsOK
<1>5. RequestsOK'
  <2>1. recvReq' \in [Workers -> [Slots -> Request]]
    BY <1>1 DEF Post, RequestsOK, Request
  <2>2. sendReq' \in [Workers -> [Slots -> Nat]]
    BY <1>1 DEF Post, RequestsOK
  <2>3. jobsInFlight' \in [Workers -> 0..MaxJobsInFlight]
    BY <1>1, LimitsAssumption DEF Post, RequestsOK
  <2>4. jobs' \in Nat
    BY <1>1 DEF Post
  <2> QED  BY <2>1, <2>2, <2>3, <2>4 DEF RequestsOK
<1>6. /\ network' \in [Workers -> Seq(Message)]
      /\ \A w \in Workers : w # current => network'[w] = network[w]
      /\ network'[current] = Append(network[current], m)
  <2>1. network[current] \in Seq(Message)
    BY <1>1 DEF MessagesOK
  <2>2. Append(network[current], m) \in Seq(Message)
    BY <1>2, <2>1, AppendProperties
  <2>3. network' = [network EXCEPT ![current] = Append(network[current], m)]
    BY DEF Post
  <2> HIDE DEF m
  <2> QED  BY <1>1, <2>2, <2>3 DEF MessagesOK
<1>7. /\ Len(network'[current]) = Len(network[current]) + 1
      /\ Len(network[current]) \in Nat
      /\ \A i \in 1..Len(network[current]) : network'[current][i] = network[current][i]
      /\ network'[current][Len(network[current]) + 1] = m
  <2>1. network[current] \in Seq(Message)
    BY <1>1 DEF MessagesOK
  <2> HIDE DEF m
  <2> QED  BY <1>2, <1>6, <2>1, AppendProperties, LenProperties
<1>8. MessagesOK'
  BY <1>6 DEF MessagesOK
<1>9. \A w \in Workers : jobsInFlight[w]' = Cardinality(Posted(w)')
  <2>1. PICK c \in Workers : c = current
    BY <1>1
  <2>2. PICK r \in Slots : r = recvId
    BY <1>1
  <2>3. Posted(c)' = Posted(c) \cup {r} /\ r \notin Posted(c)
    BY <1>1, <1>3, <2>1, <2>2 DEF Posted, NoRequest
  <2>4. \A w \in Workers : w # c => Posted(w)' = Posted(w)
    BY <1>3, <2>1 DEF Posted
  <2>5. Posted(c) \in SUBSET Slots
    BY DEF Posted
  <2>6. Cardinality(Posted(c)') = Cardinality(Posted(c)) + 1
    BY <2>3, <2>5, SlotsFinite, FS_AddElement
  <2>7. \A w \in Workers : jobsInFlight[w] = Cardinality(Posted(w))
    BY DEF OneReceivePerJob, AfterWait
  <2>8. \A w \in Workers : jobsInFlight'[w] = IF w = c THEN jobsInFlight[w] + 1 ELSE jobsInFlight[w]
    BY <2>1 DEF Post, RequestsOK
  <2> QED  BY <2>4, <2>6, <2>7, <2>8
<1>10. Numbered'
  <2>1. \A w \in Workers, s \in Slots : sendReq'[w][s] <= jobs' /\ recvReq'[w][s].job <= jobs'
    <3>1. \A w \in Workers, s \in Slots : recvReq[w][s].job \in Nat /\ sendReq[w][s] \in Nat
      BY DEF RequestsOK, Request
    <3> QED  BY <1>1, <1>3, <1>4, <3>1 DEF Numbered, Post
  <2>2. \A w \in Workers : \A i \in 1..Len(network'[w]) :
          /\ network'[w][i].job <= jobs'
          /\ network'[w][i].ents # << >> => network'[w][i].job # 0
    <3> SUFFICES ASSUME NEW w \in Workers, NEW i \in 1..Len(network'[w])
                 PROVE  /\ network'[w][i].job <= jobs'
                        /\ network'[w][i].ents # << >> => network'[w][i].job # 0
      OBVIOUS
    <3>1. jobs' = jobs + 1
      BY DEF Post
    <3>2. CASE w # current
      <4>1. network[w][i] \in Message /\ i \in 1..Len(network[w])
        BY <1>6, <3>2, ElementOfSeq DEF MessagesOK
      <4> QED  BY <1>1, <1>6, <3>1, <3>2, <4>1, SMTT(30) DEF Numbered, Message
    <3>3. CASE w = current /\ i \in 1..Len(network[current])
      <4>1. network[current][i] \in Message
        BY <1>1, <3>3, ElementOfSeq DEF MessagesOK
      <4> QED  BY <1>1, <1>7, <3>1, <3>3, <4>1 DEF Numbered, Message
    <3>4. CASE w = current /\ i = Len(network[current]) + 1
      BY <1>1, <1>7, <3>1, <3>4
    <3> QED  BY <1>7, <3>2, <3>3, <3>4
  <2>3. /\ \A a \in acks' : a.job \in 1..jobs'
        /\ \A w \in Workers : \A i \in 1..Len(queue'[w]) : queue'[w][i].job \in 1..jobs'
    BY <1>1 DEF Numbered, Post
  <2> QED  BY <2>1, <2>2, <2>3 DEF Numbered
<1>11. OwnSlots'
  <2>1. \A w \in Workers, s \in Slots : sendReq[w][s] \in Nat /\ sendReq[w][s] <= jobs
    BY DEF Numbered, RequestsOK
  <2> QED  BY <1>1, <1>4, <2>1 DEF OwnSlots
<1>12. InNetworkOnly'
  <2> SUFFICES ASSUME NEW w \in Workers, NEW i \in 1..Len(network'[w]),
                      network'[w][i].job # 0
               PROVE  LET j == network'[w][i].job
                      IN  /\ \E r \in Slots : recvReq'[w][r].job = j
                          /\ \A k \in 1..Len(network'[w]) : network'[w][k].job = j => k = i
                          /\ \A k \in 1..Len(queue'[w]) : queue'[w][k].job # j
                          /\ \A a \in acks' : a.worker = w => a.job # j
    BY DEF InNetworkOnly
  <2>1. CASE w # current
    <3> DEFINE j == network[w][i].job
    <3>1. network'[w] = network[w] /\ i \in 1..Len(network[w]) /\ j # 0
      BY <1>6, <2>1
    <3>2. PICK r \in Slots : recvReq[w][r].job = j
      BY <3>1 DEF InNetworkOnly
    <3>3. recvReq'[w][r].job = j
      BY <1>3, <2>1, <3>2
    <3>4. /\ \A k \in 1..Len(network[w]) : network[w][k].job = j => k = i
          /\ \A k \in 1..Len(queue[w]) : queue[w][k].job # j
          /\ \A a \in acks : a.worker = w => a.job # j
      BY <3>1 DEF InNetworkOnly
    <3> QED  BY <3>1, <3>3, <3>4
  <2>2. CASE w = current /\ i \in 1..Len(network[current])
    <3> DEFINE j == network[current][i].job
    <3>1. network'[w][i].job = j /\ j # 0 /\ j # jobs + 1
      <4>1. network[current][i] \in Message /\ j <= jobs
        BY <1>1, <2>2, ElementOfSeq DEF MessagesOK, Numbered
      <4> QED  BY <1>1, <1>7, <2>2, <4>1, SMTT(30) DEF Message
    <3>2. \E r \in Slots : recvReq'[w][r].job = j
      <4>1. PICK r \in Slots : recvReq[current][r].job = j
        BY <1>1, <2>2, <3>1 DEF InNetworkOnly
      <4>2. r # recvId
        BY <1>1, <3>1, <4>1 DEF NoRequest
      <4> QED  BY <1>1, <1>3, <2>2, <4>1, <4>2
    <3>3. ASSUME NEW k \in 1..Len(network'[w]), network'[w][k].job = j PROVE k = i
      <4>1. \A n \in 1..Len(network[current]) : network[current][n].job = j => n = i
        BY <1>1, <2>2, <3>1 DEF InNetworkOnly
      <4>2. k \in 1..Len(network[current]) /\ network[current][k].job = j
        BY <1>7, <2>2, <3>1, <3>3
      <4> HIDE DEF j
      <4> QED  BY <4>1, <4>2
    <3>4. /\ \A k \in 1..Len(queue'[w]) : queue'[w][k].job # j
          /\ \A a \in acks' : a.worker = w => a.job # j
      BY <1>1, <2>2, <3>1 DEF InNetworkOnly
    <3> QED  BY <3>1, <3>2, <3>3, <3>4
  <2>3. CASE w = current /\ i = Len(network[current]) + 1
    <3>1. network'[w][i].job = jobs + 1
      BY <1>7, <2>3
    <3>2. recvReq'[w][recvId].job = jobs + 1
      BY <1>1, <1>3, <2>3
    <3>3. \A k \in 1..Len(network[current]) : network[current][k].job # jobs + 1
      <4> SUFFICES ASSUME NEW k \in 1..Len(network[current])
                   PROVE  network[current][k].job # jobs + 1
        OBVIOUS
      <4>1. network[current][k] \in Message
        BY <1>1, ElementOfSeq DEF MessagesOK
      <4>2. network[current][k].job \in Nat /\ network[current][k].job <= jobs
        BY <1>1, <4>1 DEF Message, Numbered
      <4> QED  BY <1>1, <4>2
    <3>4. \A k \in 1..Len(network'[w]) : network'[w][k].job = jobs + 1 => k = i
      BY <1>7, <2>3, <3>3
    <3>5. /\ \A k \in 1..Len(queue'[w]) : queue'[w][k].job # jobs + 1
          /\ \A a \in acks' : a.job # jobs + 1
      BY <1>1 DEF Numbered
    <3> QED  BY <1>1, <3>1, <3>2, <3>4, <3>5
  <2> QED  BY <1>7, <2>1, <2>2, <2>3, SMTT(30)
<1> QED  BY <1>5, <1>8, <1>9, <1>10, <1>11, <1>12

LEMMA EndJobStep == IInv /\ EndJob => IInv'
<1> SUFFICES ASSUME IInv, EndJob PROVE IInv'
  OBVIOUS
<1> USE RanksFacts DEF IInv, TypeOK
<1>1. pc[0] = "build" /\ UNCHANGED <<failed, progress, listed, off, index, acks, queue, quit,
                                    chunk, exists, archive, stream, fileOff, pos>>
  BY DEF EndJob, listVars, workerVars, fileVars
<1>2. PICK there \in {"test_send", "wait_sends"} : Goto(0, there) /\ current' \in Workers
  BY NextWorkerType DEF EndJob, ControlOK
<1>3. ControlOK' /\ pc[0]' = there /\ \A w \in Workers : pc[w]' = pc[w]
  BY <1>1, <1>2, GotoStep DEF MasterPCs
<1>4. PackingOK'
  BY DEF EndJob, PackingOK, listVars
<1>5. QueuesOK' /\ FilesOK'
  BY FrameTypes DEF EndJob
<1>6. Opened'
  BY <1>1, <1>3, FrameOpened
<1>7. Building'
  BY <1>3 DEF Building
<1>8. RequestsOK' /\ MessagesOK' /\ OneReceivePerJob' /\ Numbered' /\ OwnSlots' /\ InNetworkOnly'
  <2>1. CASE buffer = << >>
    <3>1. UNCHANGED <<postVars, network>>
      BY <2>1 DEF EndJob
    <3>2. OneReceivePerJob'
      BY <1>1, <1>3, <3>1, FrameCount DEF postVars, AfterWait
    <3> QED  BY <1>1, <3>1, <3>2, FrameTypes, FrameJobs DEF postVars
  <2>2. CASE buffer # << >>
    <3>1. Post
      BY <2>2 DEF EndJob
    <3>2. /\ RequestsOK' /\ MessagesOK' /\ Numbered' /\ OwnSlots' /\ InNetworkOnly'
          /\ \A w \in Workers : jobsInFlight[w]' = Cardinality(Posted(w)')
      BY <1>1, <2>2, <3>1, PostStep
    <3> QED  BY <3>2 DEF OneReceivePerJob
  <2> QED  BY <2>1, <2>2
<1> QED  BY <1>3, <1>4, <1>5, <1>6, <1>7, <1>8

LEMMA WaitSendsStep == IInv /\ WaitSends => IInv'
<1> SUFFICES ASSUME IInv, WaitSends PROVE IInv'
  OBVIOUS
<1> USE RanksFacts DEF IInv, TypeOK
<1>1. ControlOK' /\ pc[0]' = "wait_recvs" /\ \A w \in Workers : pc[w]' = pc[w]
  BY GotoStep DEF WaitSends, ControlOK, MasterPCs
<1>2. PackingOK' /\ MessagesOK' /\ QueuesOK' /\ FilesOK'
  BY FrameTypes DEF WaitSends
<1>3. RequestsOK'
  BY DEF WaitSends, RequestsOK
<1>4. Opened'
  BY <1>1, FrameOpened DEF WaitSends, fileVars
<1>5. Building'
  BY <1>1 DEF Building
<1>6. OneReceivePerJob'
  BY <1>1, FrameCount DEF WaitSends, AfterWait
<1>7. Numbered'
  BY DEF WaitSends, Numbered, RequestsOK, workerVars
<1>8. OwnSlots'
  BY DEF WaitSends, OwnSlots
<1>9. InNetworkOnly'
  BY FrameJobs DEF WaitSends, workerVars
<1> QED  BY <1>1, <1>2, <1>3, <1>4, <1>5, <1>6, <1>7, <1>8, <1>9

\* Every job has been acked by then, so that no job is left in the network.
LEMMA WaitRecvsStep == IInv /\ WaitRecvs => IInv'
<1> SUFFICES ASSUME IInv, WaitRecvs PROVE IInv'
  OBVIOUS
<1> USE RanksFacts DEF IInv, TypeOK
<1>1. ControlOK' /\ pc[0]' = "terminate" /\ \A w \in Workers : pc[w]' = pc[w]
  BY GotoStep DEF WaitRecvs, MasterPCs
<1>2. PackingOK' /\ QueuesOK' /\ FilesOK'
  BY FrameTypes DEF WaitRecvs
<1>3. RequestsOK'
  BY DEF WaitRecvs, RequestsOK, NoRequest, Request
<1>4. MessagesOK'
  BY DEF WaitRecvs, MessagesOK
<1>5. Opened'
  BY <1>1, FrameOpened DEF WaitRecvs, fileVars
<1>6. Building' /\ OneReceivePerJob'
  BY <1>1 DEF Building, OneReceivePerJob, AfterWait
<1>7. Numbered'
  <2>1. \A w \in Workers, s \in Slots : recvReq'[w][s].job = 0
    BY DEF WaitRecvs, NoRequest
  <2>2. jobs \in Nat
    BY DEF RequestsOK
  <2> QED  BY <2>1, <2>2 DEF WaitRecvs, Numbered, workerVars
<1>8. OwnSlots'
  BY FrameJobs DEF WaitRecvs
<1>9. InNetworkOnly'
  <2> SUFFICES ASSUME NEW w \in Workers, NEW i \in 1..Len(network[w]), network[w][i].job # 0
               PROVE  FALSE
    BY DEF WaitRecvs, InNetworkOnly
  <2>1. PICK r \in Slots : recvReq[w][r].job = network[w][i].job
    BY DEF InNetworkOnly
  <2>2. PICK a \in acks : a.worker = w /\ r \in ReceivesOf(a)
    BY <2>1 DEF WaitRecvs, NoRequest
  <2>3. a.job = network[w][i].job
    BY <2>1, <2>2 DEF ReceivesOf
  <2> QED  BY <2>2, <2>3 DEF InNetworkOnly
<1> QED  BY <1>1, <1>2, <1>3, <1>4, <1>5, <1>6, <1>7, <1>8, <1>9

LEMMA SendTerminateStep == IInv /\ SendTerminate => IInv'
<1> SUFFICES ASSUME IInv, SendTerminate PROVE IInv'
  OBVIOUS
<1> USE RanksFacts DEF IInv, TypeOK
<1>1. ControlOK' /\ pc[0]' = "terminating" /\ \A w \in Workers : pc[w]' = pc[w]
  BY GotoStep DEF SendTerminate, masterVars, ControlOK, MasterPCs
<1>2. PackingOK' /\ RequestsOK' /\ QueuesOK' /\ FilesOK'
  BY FrameTypes DEF SendTerminate, masterVars
<1>3. current \in Workers /\ network[current] \in Seq(Message)
  BY DEF ControlOK, MessagesOK
<1>4. Terminate \in Message /\ Terminate.job = 0 /\ Terminate.ents = << >>
  <2>1. 1 \in Slots
    BY LimitsAssumption DEF Slots
  <2> QED  BY <2>1 DEF Terminate, Message
<1>5. /\ network' \in [Workers -> Seq(Message)]
      /\ \A w \in Workers : w # current => network'[w] = network[w]
      /\ network'[current] = Append(network[current], Terminate)
  <2>1. Append(network[current], Terminate) \in Seq(Message)
    BY <1>3, <1>4, AppendProperties
  <2> QED  BY <1>3, <2>1 DEF SendTerminate, MessagesOK
<1>6. \A w \in Workers : \A i \in 1..Len(network'[w]) :
        \/ i \in 1..Len(network[w]) /\ network'[w][i] = network[w][i]
        \/ network'[w][i] = Terminate
  <2>1. /\ Len(Append(network[current], Terminate)) = Len(network[current]) + 1
        /\ \A i \in 1..Len(network[current]) :
             Append(network[current], Terminate)[i] = network[current][i]
        /\ Append(network[current], Terminate)[Len(network[current]) + 1] = Terminate
        /\ Len(network[current]) \in Nat
    BY <1>3, <1>4, AppendProperties, LenProperties
  <2>2. ASSUME NEW w \in Workers, NEW i \in 1..Len(network'[w])
        PROVE  \/ i \in 1..Len(network[w]) /\ network'[w][i] = network[w][i]
               \/ network'[w][i] = Terminate
    <3>1. CASE w # current
      BY <1>5, <3>1
    <3>2. CASE w = current
      BY <1>5, <2>1, <3>2
    <3> QED  BY <3>1, <3>2
  <2> QED  BY <2>2
<1>7. MessagesOK'
  BY <1>5 DEF SendTerminate, MessagesOK
<1>8. Opened'
  BY <1>1, FrameOpened DEF SendTerminate, fileVars
<1>9. Building'
  BY <1>1 DEF Building
<1>10. OneReceivePerJob'
  BY <1>1, FrameCount DEF SendTerminate, masterVars, postVars, AfterWait
<1>11. Numbered'
  <2>1. jobs \in Nat
    BY DEF RequestsOK
  <2>2. \A w \in Workers : \A i \in 1..Len(network'[w]) :
          /\ network'[w][i].job <= jobs
          /\ network'[w][i].ents # << >> => network'[w][i].job # 0
    BY <1>4, <1>6, <2>1, SMTT(30) DEF Numbered
  <2> QED  BY <2>2 DEF SendTerminate, Numbered, masterVars, postVars, workerVars
<1>12. OwnSlots'
  BY FrameJobs DEF SendTerminate, masterVars, postVars
<1>13. InNetworkOnly'
  <2>1. UNCHANGED <<recvReq, acks, queue>>
    BY DEF SendTerminate, masterVars, postVars, workerVars
  <2> QED  BY <1>4, <1>6, <2>1, SMTT(30) DEF InNetworkOnly
<1> QED  BY <1>1, <1>2, <1>7, <1>8, <1>9, <1>10, <1>11, <1>12, <1>13

LEMMA TerminateSentStep == IInv /\ TerminateSent => IInv'
<1> SUFFICES ASSUME IInv, TerminateSent PROVE IInv'
  OBVIOUS
<1> USE RanksFacts DEF IInv, TypeOK
<1>1. PICK there \in {"terminate", "closing"} : Goto(0, there)
  BY DEF TerminateSent
<1>2. current' \in Workers
  BY NWorkersAssumption DEF TerminateSent, ControlOK, Workers
<1>3. ControlOK' /\ pc[0]' = there /\ \A w \in Workers : pc[w]' = pc[w]
  BY <1>1, <1>2, GotoStep DEF TerminateSent, MasterPCs
<1>4. PackingOK' /\ RequestsOK' /\ MessagesOK' /\ QueuesOK' /\ FilesOK'
  BY FrameTypes DEF TerminateSent
<1>5. Opened'
  BY <1>3, FrameOpened DEF TerminateSent, fileVars
<1>6. Building' /\ OneReceivePerJob'
  BY <1>3 DEF Building, OneReceivePerJob, AfterWait
<1>7. Numbered' /\ OwnSlots' /\ InNetworkOnly'
  BY FrameJobs DEF TerminateSent, postVars, workerVars
<1> QED  BY <1>3, <1>4, <1>5, <1>6, <1>7

LEMMA LandingType ==
  ASSUME FilesOK, NEW r \in Ranks, NEW e \in Entries
  PROVE  Landing(r, e) \in Nat /\ Extent(Landing(r, e), e.file) \in Extents
<1>1. Landing(r, e) \in Nat
  BY DEF FilesOK, Landing, Entries
<1>2. e.file \in Nat
  BY NFilesAssumption DEF Entries, Members, Files, IndexFile
<1> QED  BY <1>1, <1>2 DEF Extent, Extents

LEMMA CopyFileType ==
  ASSUME FilesOK, NEW r \in Ranks, NEW e \in Entries, CopyFile(r, e), UNCHANGED exists
  PROVE  FilesOK'
<1> DEFINE this == Extent(Landing(r, e), e.file)
<1>1. Landing(r, e) \in Nat /\ this \in Extents
  BY LandingType
<1>2. Size[e.file] \in Nat /\ e.off \in Nat
  BY SizeAssumption DEF Entries
<1>3. PICK kept \in SUBSET (stream[r] \cup {this}) :
        /\ archive' = archive \cup ((stream[r] \cup {this}) \ kept)
        /\ stream' = [stream EXCEPT ![r] = kept]
  BY DEF CopyFile
<1>4. stream[r] \cup {this} \subseteq Extents
  BY <1>1 DEF FilesOK
<1>5. archive' \subseteq Extents /\ stream' \in [Ranks -> SUBSET Extents]
  BY <1>3, <1>4 DEF FilesOK
<1>6. fileOff' \in [Ranks -> Nat] /\ pos' \in [Ranks -> Nat]
  BY <1>1, <1>2 DEF CopyFile, FilesOK
<1> QED  BY <1>5, <1>6 DEF FilesOK

LEMMA CloseIndexStep == IInv /\ CloseIndex => IInv'
<1> SUFFICES ASSUME IInv, CloseIndex PROVE IInv'
  OBVIOUS
<1> USE RanksFacts DEF IInv, TypeOK
<1> DEFINE e == Entry(IndexFile, off)
<1>1. ControlOK' /\ pc[0]' = "index_copy" /\ \A w \in Workers : pc[w]' = pc[w]
  BY GotoStep DEF CloseIndex, ControlOK, MasterPCs
<1>2. e \in Entries /\ off \in Nat
  BY DEF PackingOK, Entry, Entries, Members
<1>3. PackingOK'
  <2>1. index' \in Seq(Entries)
    BY <1>2, AppendProperties DEF CloseIndex, PackingOK
  <2>2. progress' \in Nat
    BY <1>2 DEF CloseIndex, PackingOK
  <2> QED  BY <2>1, <2>2 DEF CloseIndex, PackingOK, packVars
<1>4. RequestsOK' /\ MessagesOK' /\ QueuesOK' /\ FilesOK'
  BY FrameTypes DEF CloseIndex
<1>5. Opened'
  BY <1>1, FrameOpened DEF CloseIndex, fileVars
<1>6. Building' /\ OneReceivePerJob'
  BY <1>1 DEF Building, OneReceivePerJob, AfterWait
<1>7. Numbered' /\ OwnSlots' /\ InNetworkOnly'
  BY FrameJobs DEF CloseIndex, postVars, workerVars
<1> QED  BY <1>1, <1>3, <1>4, <1>5, <1>6, <1>7

LEMMA StoreIndexStep == IInv /\ StoreIndex => IInv'
<1> SUFFICES ASSUME IInv, StoreIndex PROVE IInv'
  OBVIOUS
<1> USE RanksFacts DEF IInv, TypeOK
<1>1. ControlOK' /\ pc[0]' = "index_end" /\ \A w \in Workers : pc[w]' = pc[w]
  BY GotoStep DEF StoreIndex, ControlOK, MasterPCs
<1>2. Entry(IndexFile, off) \in Entries /\ off \in Nat /\ Size[IndexFile] \in Nat
  BY SizeAssumption DEF PackingOK, Entry, Entries, Members
<1>3. PackingOK'
  BY <1>2 DEF StoreIndex, PackingOK, packVars
<1>4. RequestsOK' /\ MessagesOK' /\ QueuesOK'
  BY FrameTypes DEF StoreIndex
<1>5. FilesOK'
  BY <1>2, CopyFileType DEF StoreIndex
<1>6. Opened'
  BY <1>1, FrameOpened DEF StoreIndex
<1>7. Building' /\ OneReceivePerJob'
  BY <1>1 DEF Building, OneReceivePerJob, AfterWait
<1>8. Numbered' /\ OwnSlots' /\ InNetworkOnly'
  BY FrameJobs DEF StoreIndex, postVars, workerVars
<1> QED  BY <1>1, <1>3, <1>4, <1>5, <1>6, <1>7, <1>8

LEMMA EndArchiveStep == IInv /\ EndArchive => IInv'
<1> SUFFICES ASSUME IInv, EndArchive PROVE IInv'
  OBVIOUS
<1> USE RanksFacts DEF IInv, TypeOK
<1>1. ControlOK' /\ pc[0]' = "end" /\ \A w \in Workers : pc[w]' = pc[w]
  BY GotoStep DEF EndArchive, masterVars, ControlOK, MasterPCs
<1>2. PackingOK' /\ RequestsOK' /\ MessagesOK' /\ QueuesOK'
  BY FrameTypes DEF EndArchive, masterVars
<1>3. FilesOK'
  BY DEF EndArchive, FilesOK
<1>4. Opened'
  BY <1>1, FrameOpened DEF EndArchive
<1>5. Building' /\ OneReceivePerJob'
  BY <1>1 DEF Building, OneReceivePerJob, AfterWait
<1>6. Numbered' /\ OwnSlots' /\ InNetworkOnly'
  BY FrameJobs DEF EndArchive, masterVars, postVars, workerVars
<1> QED  BY <1>1, <1>2, <1>3, <1>4, <1>5, <1>6
-----------------------------------------------------------------------------
(* The workers, the barriers and exit(1) *)

LEMMA ReopenStep ==
  ASSUME IInv, NEW w \in Workers, Reopen(w)
  PROVE  IInv' /\ UNCHANGED failed
<1> USE RanksFacts DEF IInv, TypeOK
<1>1. exists
  BY DEF Reopen, Opened
<1>2. Goto(w, "probe") /\ UNCHANGED failed
  BY <1>1 DEF Reopen
<1>3. ControlOK' /\ pc[w]' = "probe" /\ \A q \in Ranks : q # w => pc[q]' = pc[q]
  BY <1>2, GotoStep DEF Reopen, masterVars, ControlOK, WorkerPCs
<1>4. PackingOK' /\ RequestsOK' /\ MessagesOK' /\ QueuesOK' /\ FilesOK'
  BY FrameTypes DEF Reopen, masterVars
<1>5. exists' /\ pc[0]' = pc[0]
  BY <1>1, <1>3 DEF Reopen, fileVars
<1>6. Opened'
  BY <1>5 DEF Opened
<1>7. Building'
  BY <1>5 DEF Reopen, Building, masterVars, packVars, postVars
<1>8. OneReceivePerJob'
  BY <1>5, FrameCount DEF Reopen, masterVars, postVars, AfterWait
<1>9. Numbered' /\ OwnSlots' /\ InNetworkOnly'
  BY FrameJobs DEF Reopen, masterVars, postVars, workerVars
<1> QED  BY <1>2, <1>3, <1>4, <1>6, <1>7, <1>8, <1>9

\* What a worker that is past the first barrier does with its own pc keeps
\* every part that speaks of the master.
LEMMA WorkerFrame ==
  ASSUME IInv, NEW w \in Workers, pc[w] # "opened", NEW there \in WorkerPCs,
         Goto(w, there), UNCHANGED <<failed, masterVars, exists>>
  PROVE  /\ ControlOK' /\ PackingOK' /\ RequestsOK' /\ Opened' /\ Building'
         /\ OneReceivePerJob' /\ OwnSlots'
<1> USE RanksFacts DEF IInv, TypeOK
<1>1. ControlOK' /\ pc[w]' = there /\ \A q \in Ranks : q # w => pc[q]' = pc[q]
  BY GotoStep DEF masterVars, ControlOK
<1>2. PackingOK' /\ RequestsOK'
  BY FrameTypes DEF masterVars
<1>3. pc[0]' = pc[0]
  BY <1>1
<1>4. Opened'
  BY <1>1, <1>3 DEF Opened
<1>5. Building'
  BY <1>3 DEF Building, masterVars, packVars, postVars
<1>6. OneReceivePerJob'
  BY <1>3, FrameCount DEF masterVars, postVars, AfterWait
<1>7. OwnSlots'
  BY FrameJobs DEF masterVars, postVars
<1> QED  BY <1>1, <1>2, <1>4, <1>5, <1>6, <1>7

LEMMA NextPcType ==
  ASSUME NEW w \in Workers, NEW q, LoopOrFlush(w, q)
  PROVE  \E there \in WorkerPCs : Goto(w, there)
BY DEF LoopOrFlush, WorkerPCs

LEMMA IdleSteps ==
  ASSUME IInv, NEW w \in Workers, NoMessage(w) \/ NothingToCopy(w)
  PROVE  IInv' /\ UNCHANGED failed
<1> USE DEF IInv, TypeOK
<1>1. PICK there \in WorkerPCs : Goto(w, there)
  BY NextPcType DEF NoMessage, NothingToCopy, WorkerPCs
<1>2. UNCHANGED <<failed, masterVars, network, acks, workerVars, fileVars>> /\ pc[w] # "opened"
  BY DEF NoMessage, NothingToCopy
<1>3. /\ ControlOK' /\ PackingOK' /\ RequestsOK' /\ Opened' /\ Building'
      /\ OneReceivePerJob' /\ OwnSlots'
  BY <1>1, <1>2, WorkerFrame DEF fileVars
<1>4. MessagesOK' /\ QueuesOK' /\ FilesOK'
  BY <1>2, FrameTypes
<1>5. Numbered' /\ InNetworkOnly'
  BY <1>2, FrameJobs DEF masterVars, postVars, workerVars
<1> QED  BY <1>2, <1>3, <1>4, <1>5

LEMMA FlushStep ==
  ASSUME IInv, NEW w \in Workers, Flush(w)
  PROVE  IInv' /\ UNCHANGED failed
<1> USE RanksFacts DEF IInv, TypeOK
<1>1. Goto(w, "closing") /\ "closing" \in WorkerPCs /\ pc[w] # "opened"
  BY DEF Flush, WorkerPCs
<1>2. /\ ControlOK' /\ PackingOK' /\ RequestsOK' /\ Opened' /\ Building'
      /\ OneReceivePerJob' /\ OwnSlots'
  BY <1>1, WorkerFrame DEF Flush
<1>3. MessagesOK' /\ QueuesOK'
  BY FrameTypes DEF Flush
<1>4. FilesOK'
  BY DEF Flush, FilesOK
<1>5. Numbered' /\ InNetworkOnly'
  BY FrameJobs DEF Flush, masterVars, postVars, workerVars
<1> QED  BY <1>2, <1>3, <1>4, <1>5 DEF Flush

\* The files queued for a message all have its job.
LEMMA FiledescsType ==
  ASSUME NEW m \in Message
  PROVE  /\ Filedescs(m) \in Seq(Filedesc)
         /\ \A i \in 1..Len(Filedescs(m)) : Filedescs(m)[i].job = m.job
<1>1. m.ents \in Seq(Entries) /\ m.job \in Nat /\ m.tag \in Slots
  BY DEF Message
<1>2. Len(m.ents) \in Nat /\ DOMAIN m.ents = 1..Len(m.ents)
      /\ \A i \in 1..Len(m.ents) : m.ents[i] \in Entries
  BY <1>1, LenProperties, ElementOfSeq
<1>3. Filedescs(m) \in [1..Len(m.ents) -> Filedesc]
  BY <1>1, <1>2 DEF Filedescs, Filedesc
<1>4. Filedescs(m) \in Seq(Filedesc)
  BY <1>2, <1>3, SeqDef
<1>5. Len(Filedescs(m)) = Len(m.ents)
  BY <1>2, <1>3, <1>4, LenProperties
<1>6. \A i \in 1..Len(m.ents) : Filedescs(m)[i].job = m.job
  BY <1>2 DEF Filedescs
<1> QED  BY <1>4, <1>5, <1>6

LEMMA ReceiveStep ==
  ASSUME IInv, NEW w \in Workers, Receive(w)
  PROVE  IInv' /\ UNCHANGED failed
<1> USE RanksFacts DEF IInv, TypeOK
<1> DEFINE net == network[w]
           m   == Head(network[w])
<1>1. /\ net \in Seq(Message) /\ net # << >> /\ queue[w] \in Seq(Filedesc)
      /\ Len(net) \in Nat /\ Len(queue[w]) \in Nat /\ jobs \in Nat
  BY LenProperties DEF Receive, MessagesOK, QueuesOK, RequestsOK
<1>2. /\ Tail(net) \in Seq(Message) /\ Len(Tail(net)) = Len(net) - 1
      /\ \A i \in 1..Len(Tail(net)) : Tail(net)[i] = net[i + 1]
      /\ m \in Message
  BY <1>1, HeadTailProperties
<1>3. Len(net) >= 1 /\ m = net[1]
  BY <1>1
<1>4. Goto(w, "copy") /\ "copy" \in WorkerPCs /\ pc[w] # "opened"
  BY DEF Receive, WorkerPCs
<1>5. UNCHANGED <<failed, masterVars, chunk, fileVars, acks>>
  BY DEF Receive, TakeMessage
<1>6. /\ ControlOK' /\ PackingOK' /\ RequestsOK' /\ Opened' /\ Building'
      /\ OneReceivePerJob' /\ OwnSlots'
  BY <1>4, <1>5, WorkerFrame DEF fileVars
<1>7. /\ network' \in [Workers -> Seq(Message)]
      /\ network'[w] = Tail(net)
      /\ \A v \in Workers : v # w => network'[v] = network[v]
  BY <1>2 DEF Receive, MessagesOK
<1>8. MessagesOK' /\ FilesOK'
  BY <1>5, <1>7, FrameTypes DEF MessagesOK
<1>9. /\ QueuesOK'
      /\ \A v \in Workers : v # w => queue'[v] = queue[v]
      /\ \A k \in 1..Len(queue'[w]) :
           \/ k \in 1..Len(queue[w]) /\ queue'[w][k] = queue[w][k]
           \/ queue'[w][k].job = m.job /\ m.ents # << >>
  <2>1. CASE m.ents = << >>
    <3>1. quit' = [quit EXCEPT ![w] = TRUE] /\ UNCHANGED <<queue, chunk>>
      BY <1>5, <2>1 DEF Receive, TakeMessage
    <3>2. quit' \in [Workers -> BOOLEAN]
      BY <3>1 DEF QueuesOK
    <3> QED  BY <3>1, <3>2 DEF QueuesOK
  <2>2. CASE m.ents # << >>
    <3>1. queue' = [queue EXCEPT ![w] = @ \o Filedescs(m)] /\ UNCHANGED <<quit, chunk>>
      BY <1>5, <2>2 DEF Receive, TakeMessage
    <3>2. /\ Filedescs(m) \in Seq(Filedesc)
          /\ \A i \in 1..Len(Filedescs(m)) : Filedescs(m)[i].job = m.job
          /\ Len(Filedescs(m)) \in Nat
      BY <1>2, FiledescsType, LenProperties
    <3>3. /\ queue[w] \o Filedescs(m) \in Seq(Filedesc)
          /\ Len(queue[w] \o Filedescs(m)) = Len(queue[w]) + Len(Filedescs(m))
          /\ \A i \in 1..Len(queue[w]) + Len(Filedescs(m)) :
               (queue[w] \o Filedescs(m))[i] =
                 IF i <= Len(queue[w]) THEN queue[w][i] ELSE Filedescs(m)[i - Len(queue[w])]
      BY <1>1, <3>2, ConcatProperties
    <3>4. /\ queue' \in [Workers -> Seq(Filedesc)]
          /\ queue'[w] = queue[w] \o Filedescs(m)
          /\ \A v \in Workers : v # w => queue'[v] = queue[v]
      BY <3>1, <3>3 DEF QueuesOK
    <3>5. QueuesOK'
      BY <3>1, <3>4 DEF QueuesOK
    <3>6. ASSUME NEW k \in 1..Len(queue'[w])
          PROVE  \/ k \in 1..Len(queue[w]) /\ queue'[w][k] = queue[w][k]
                 \/ queue'[w][k].job = m.job /\ m.ents # << >>
      <4>1. CASE k <= Len(queue[w])
        BY <1>1, <3>2, <3>3, <3>4, <4>1
      <4>2. CASE k > Len(queue[w])
        <5>1. k \in 1..(Len(queue[w]) + Len(Filedescs(m)))
          BY <3>3, <3>4
        <5>2. Len(queue[w]) \in Nat /\ Len(Filedescs(m)) \in Nat
          BY <1>1, <3>2
        <5> HIDE DEF m
        <5>3. k - Len(queue[w]) \in 1..Len(Filedescs(m))
          BY <4>2, <5>1, <5>2
        <5>4. queue'[w][k] = Filedescs(m)[k - Len(queue[w])]
          BY <3>3, <3>4, <4>2, <5>1, <5>2
        <5> QED  BY <2>2, <3>2, <5>3, <5>4
      <4> QED  BY <1>1, <3>2, <3>3, <3>4, <4>1, <4>2
    <3> QED  BY <3>4, <3>5, <3>6
  <2> QED  BY <2>1, <2>2
<1>10. UNCHANGED <<sendReq, recvReq, jobs>>
  BY <1>5 DEF masterVars, postVars
<1>11. m.ents # << >> => m.job \in 1..jobs
  BY <1>1, <1>2, <1>3 DEF Numbered, Message
<1> HIDE DEF m, net
<1>12. Numbered'
  <2>1. \A v \in Workers : \A i \in 1..Len(network'[v]) :
          /\ network'[v][i].job <= jobs
          /\ network'[v][i].ents # << >> => network'[v][i].job # 0
    <3> SUFFICES ASSUME NEW v \in Workers, NEW i \in 1..Len(network'[v])
                 PROVE  /\ network'[v][i].job <= jobs
                        /\ network'[v][i].ents # << >> => network'[v][i].job # 0
      OBVIOUS
    <3>1. CASE v # w
      BY <1>7, <3>1 DEF Numbered
    <3>2. CASE v = w
      <4>1. i + 1 \in 1..Len(network[w]) /\ network'[w][i] = network[w][i + 1]
        BY <1>1, <1>2, <1>7, <3>2 DEF net
      <4> QED  BY <3>2, <4>1 DEF Numbered
    <3> QED  BY <3>1, <3>2
  <2>2. \A v \in Workers : \A k \in 1..Len(queue'[v]) : queue'[v][k].job \in 1..jobs
    BY <1>9, <1>11 DEF Numbered
  <2> QED  BY <1>5, <1>10, <2>1, <2>2 DEF Numbered
<1>13. InNetworkOnly'
  <2> SUFFICES ASSUME NEW v \in Workers, NEW i \in 1..Len(network'[v]),
                      network'[v][i].job # 0
               PROVE  LET j == network'[v][i].job
                      IN  /\ \E r \in Slots : recvReq[v][r].job = j
                          /\ \A k \in 1..Len(network'[v]) : network'[v][k].job = j => k = i
                          /\ \A k \in 1..Len(queue'[v]) : queue'[v][k].job # j
                          /\ \A a \in acks : a.worker = v => a.job # j
    BY <1>5, <1>10 DEF InNetworkOnly
  <2>1. CASE v # w
    BY <1>7, <1>9, <2>1 DEF InNetworkOnly
  <2>2. CASE v = w
    <3> DEFINE j == network[w][i + 1].job
    <3>1. i \in Nat /\ i + 1 \in 1..Len(network[w]) /\ 1 \in 1..Len(network[w])
          /\ network'[w][i].job = j /\ j # 0
      BY <1>1, <1>2, <1>3, <1>7, <2>2, SMTT(30) DEF net
    <3>2. \E r \in Slots : recvReq[w][r].job = j
      BY <3>1 DEF InNetworkOnly
    <3>3. ASSUME NEW k \in 1..Len(network'[w]), network'[w][k].job = j
          PROVE  k = i
      <4>1. k \in Nat /\ k + 1 \in 1..Len(network[w]) /\ network[w][k + 1].job = j
        BY <1>1, <1>2, <1>7, <3>3 DEF net
      <4>2. k + 1 = i + 1
        BY <3>1, <4>1 DEF InNetworkOnly
      <4> QED  BY <3>1, <4>1, <4>2
    <3>4. m.job # j
      <4>1. i >= 1 /\ m = network[w][1]
        BY <1>3, <2>2 DEF net
      <4>2. network[w][1].job = j => 1 = i + 1
        BY <3>1 DEF InNetworkOnly
      <4> QED  BY <3>1, <4>1, <4>2
    <3>5. ASSUME NEW k \in 1..Len(queue'[w])
          PROVE  queue'[w][k].job # j
      <4>1. CASE k \in 1..Len(queue[w]) /\ queue'[w][k] = queue[w][k]
        BY <3>1, <4>1 DEF InNetworkOnly
      <4>2. CASE queue'[w][k].job = m.job
        BY <3>4, <4>2
      <4> QED  BY <1>9, <4>1, <4>2
    <3>6. \A a \in acks : a.worker = w => a.job # j
      BY <3>1 DEF InNetworkOnly
    <3> QED  BY <2>2, <3>1, <3>2, <3>3, <3>5, <3>6
  <2> QED  BY <2>1, <2>2
<1> QED  BY <1>5, <1>6, <1>8, <1>9, <1>12, <1>13

LEMMA CopyStep ==
  ASSUME IInv, NEW w \in Workers, Copy(w)
  PROVE  IInv' /\ UNCHANGED failed
<1> USE RanksFacts DEF IInv, TypeOK
<1> DEFINE file    == Head(queue[w])
           written == chunk[w] + Size[file.ent.file]
<1>1. /\ queue[w] \in Seq(Filedesc) /\ queue[w] # << >>
      /\ Len(queue[w]) \in Nat /\ jobs \in Nat
  BY LenProperties DEF Copy, QueuesOK, RequestsOK
<1>2. /\ file \in Filedesc /\ Tail(queue[w]) \in Seq(Filedesc)
      /\ Len(Tail(queue[w])) = Len(queue[w]) - 1
      /\ \A i \in 1..Len(Tail(queue[w])) : Tail(queue[w])[i] = queue[w][i + 1]
  BY <1>1, HeadTailProperties
<1>3. Len(queue[w]) >= 1 /\ file = queue[w][1]
  BY <1>1
<1>4. written \in Nat
  BY <1>2, SizeAssumption DEF QueuesOK, Filedesc, Entries
<1>5. file.job \in 1..jobs
  BY <1>1, <1>3 DEF Numbered
<1>6. PICK there \in WorkerPCs : Goto(w, there)
  BY NextPcType DEF Copy
<1>7. pc[w] # "opened" /\ UNCHANGED <<failed, masterVars, network, quit, exists>>
  BY DEF Copy
<1>8. /\ ControlOK' /\ PackingOK' /\ RequestsOK' /\ Opened' /\ Building'
      /\ OneReceivePerJob' /\ OwnSlots'
  BY <1>6, <1>7, WorkerFrame
<1>9. FilesOK'
  BY <1>2, <1>7, CopyFileType DEF Copy, Filedesc
<1>10. /\ acks' = acks \/ acks' = acks \cup {[worker |-> w, job |-> file.job, tag |-> file.tag,
                                              bytes |-> written]}
       /\ chunk' = [chunk EXCEPT ![w] = 0] \/ chunk' = [chunk EXCEPT ![w] = written]
       /\ queue' = [queue EXCEPT ![w] = Tail(@)]
  BY DEF Copy, SendAck
<1> HIDE DEF file, written
<1>11. MessagesOK'
  <2>1. [worker |-> w, job |-> file.job, tag |-> file.tag, bytes |-> written] \in Ack
    BY <1>2, <1>4 DEF Filedesc, Ack
  <2> QED  BY <1>7, <1>10, <2>1 DEF MessagesOK
<1>12. /\ queue' \in [Workers -> Seq(Filedesc)]
       /\ queue'[w] = Tail(queue[w])
       /\ \A v \in Workers : v # w => queue'[v] = queue[v]
  BY <1>2, <1>10 DEF QueuesOK
<1>13. QueuesOK'
  <2>1. chunk' \in [Workers -> Nat]
    <3>1. CASE chunk' = [chunk EXCEPT ![w] = 0]
      BY <3>1 DEF QueuesOK
    <3>2. CASE chunk' = [chunk EXCEPT ![w] = written]
      BY <1>4, <3>2 DEF QueuesOK
    <3> QED  BY <1>10, <3>1, <3>2
  <2>2. quit \in [Workers -> BOOLEAN] /\ quit' = quit
    BY <1>7 DEF QueuesOK
  <2>3. quit' \in [Workers -> BOOLEAN]
    BY <2>2
  <2> QED  BY <1>12, <2>1, <2>3 DEF QueuesOK
<1>14. \A v \in Workers : \A k \in 1..Len(queue'[v]) :
         \E i \in 1..Len(queue[v]) : queue'[v][k] = queue[v][i]
  <2> SUFFICES ASSUME NEW v \in Workers, NEW k \in 1..Len(queue'[v])
               PROVE  \E i \in 1..Len(queue[v]) : queue'[v][k] = queue[v][i]
    OBVIOUS
  <2>1. CASE v # w
    BY <1>12, <2>1
  <2>2. CASE v = w
    <3>1. k \in 1..Len(Tail(queue[w])) /\ queue'[v][k] = queue[w][k + 1]
      BY <1>2, <1>12, <2>2
    <3>2. k + 1 \in 1..Len(queue[w])
      BY <1>1, <1>2, <3>1
    <3> QED  BY <2>2, <3>1, <3>2
  <2> QED  BY <2>1, <2>2
<1>15. UNCHANGED <<sendReq, recvReq, jobs, network>>
  BY <1>7 DEF masterVars, postVars
<1>16. \A a \in acks' : a \in acks \/ (a.worker = w /\ a.job = file.job)
  BY <1>10
<1>17. Numbered'
  <2>1. \A a \in acks' : a.job \in 1..jobs
    BY <1>5, <1>16 DEF Numbered
  <2>2. \A v \in Workers : \A k \in 1..Len(queue'[v]) : queue'[v][k].job \in 1..jobs
    BY <1>14, SMTT(30) DEF Numbered
  <2> QED  BY <1>15, <2>1, <2>2 DEF Numbered
<1>18. InNetworkOnly'
  <2> SUFFICES ASSUME NEW v \in Workers, NEW i \in 1..Len(network[v]), network[v][i].job # 0
               PROVE  LET j == network[v][i].job
                      IN  /\ \E r \in Slots : recvReq[v][r].job = j
                          /\ \A k \in 1..Len(network[v]) : network[v][k].job = j => k = i
                          /\ \A k \in 1..Len(queue'[v]) : queue'[v][k].job # j
                          /\ \A a \in acks' : a.worker = v => a.job # j
    BY <1>15 DEF InNetworkOnly
  <2> DEFINE j == network[v][i].job
  <2>1. /\ \E r \in Slots : recvReq[v][r].job = j
        /\ \A k \in 1..Len(network[v]) : network[v][k].job = j => k = i
        /\ \A k \in 1..Len(queue[v]) : queue[v][k].job # j
        /\ \A a \in acks : a.worker = v => a.job # j
    BY DEF InNetworkOnly
  <2>2. ASSUME NEW k \in 1..Len(queue'[v])
        PROVE  queue'[v][k].job # j
    <3>1. PICK q \in 1..Len(queue[v]) : queue'[v][k] = queue[v][q]
      BY <1>14
    <3> QED  BY <2>1, <3>1
  <2>3. \A a \in acks' : a.worker = v => a.job # j
    <3>1. 1 \in 1..Len(queue[w])
      BY <1>1, <1>3
    <3>2. v = w => file.job # j
      BY <1>3, <2>1, <3>1
    <3> QED  BY <1>16, <2>1, <3>2
  <2> QED  BY <2>1, <2>2, <2>3
<1> QED  BY <1>7, <1>8, <1>9, <1>11, <1>13, <1>17, <1>18

LEMMA BarrierStep ==
  ASSUME IInv, NEW b \in Barriers, Barrier(b)
  PROVE  IInv' /\ UNCHANGED failed
<1> USE RanksFacts DEF IInv, TypeOK
<1>1. UNCHANGED <<failed, masterVars, network, acks, workerVars, fileVars>>
  BY DEF Barrier
<1>2. /\ \A r \in Ranks : pc[r] = b /\ pc[r]' = AfterBarrier(r, b)
      /\ pc' = [r \in Ranks |-> AfterBarrier(r, b)]
  BY DEF Barrier
<1>3. /\ AfterBarrier(0, b) \in MasterPCs
      /\ \A w \in Workers : AfterBarrier(w, b) \in WorkerPCs
  BY DEF AfterBarrier, Barriers, MasterPCs, WorkerPCs
<1>4. \A r \in Ranks : r = 0 \/ r \in Workers
  BY DEF Ranks, Workers
<1>5. ControlOK'
  <2>1. pc' \in [Ranks -> MasterPCs \cup WorkerPCs]
    BY <1>2, <1>3, <1>4
  <2> QED  BY <1>1, <1>2, <1>3, <2>1 DEF ControlOK, masterVars
<1>6. PackingOK' /\ RequestsOK' /\ MessagesOK' /\ QueuesOK' /\ FilesOK'
  BY <1>1, FrameTypes DEF masterVars
<1>7. exists'
  BY <1>1, <1>2 DEF Opened, Barriers, fileVars
<1>8. Opened'
  BY <1>7 DEF Opened
<1>9. Building'
  BY <1>2 DEF Building, AfterBarrier, Barriers
<1>10. OneReceivePerJob'
  BY <1>1, <1>2, FrameCount DEF masterVars, postVars, AfterWait, AfterBarrier, Barriers
<1>11. Numbered' /\ OwnSlots' /\ InNetworkOnly'
  BY <1>1, FrameJobs DEF masterVars, postVars, workerVars
<1> QED  BY <1>1, <1>5, <1>6, <1>8, <1>9, <1>10, <1>11

LEMMA ExitStep ==
  ASSUME IInv, NEW r \in Ranks, Exit(r)
  PROVE  IInv' /\ IOErrors
<1> USE RanksFacts DEF IInv, TypeOK
<1>1. failed' = TRUE /\ UNCHANGED <<pc, masterVars, network, acks, workerVars, exists>>
  BY DEF Exit
<1>2. ControlOK'
  <2>1. failed' \in BOOLEAN
    BY <1>1
  <2> QED  BY <1>1, <2>1 DEF ControlOK, masterVars
<1>3. PackingOK' /\ RequestsOK' /\ MessagesOK' /\ QueuesOK'
  BY <1>1, FrameTypes DEF masterVars
<1>4. FilesOK'
  BY DEF Exit, FilesOK
<1>5. Opened' /\ Building'
  BY <1>1 DEF Opened, Building, masterVars, packVars, postVars
<1>6. OneReceivePerJob'
  BY <1>1, FrameCount DEF masterVars, postVars
<1>7. Numbered' /\ OwnSlots' /\ InNetworkOnly'
  BY <1>1, FrameJobs DEF masterVars, postVars, workerVars
<1> QED  BY <1>2, <1>3, <1>4, <1>5, <1>6, <1>7 DEF Exit
-----------------------------------------------------------------------------
(* The invariant and what follows from it. *)

\* A failed system call is the only way mpitar fails.
NoAbortInv == IInv /\ NoAbort

LEMMA NextStep == NoAbortInv /\ [Next]_vars => NoAbortInv'
<1> SUFFICES ASSUME NoAbortInv, [Next]_vars PROVE NoAbortInv'
  OBVIOUS
<1> USE DEF NoAbortInv
<1>1. CASE UNCHANGED vars
  <2>1. ControlOK' /\ Opened' /\ Building' /\ NoAbort'
    BY <1>1 DEF IInv, TypeOK, ControlOK, Opened, Building, NoAbort, vars, masterVars, packVars,
                postVars, fileVars
  <2>2. PackingOK' /\ RequestsOK' /\ MessagesOK' /\ QueuesOK' /\ FilesOK'
    BY <1>1, FrameTypes DEF IInv, TypeOK, vars, masterVars
  <2>3. OneReceivePerJob'
    BY <1>1, FrameCount DEF IInv, vars, masterVars, postVars
  <2>4. Numbered' /\ OwnSlots' /\ InNetworkOnly'
    BY <1>1, FrameJobs DEF IInv, vars, masterVars, postVars, workerVars
  <2> QED  BY <2>1, <2>2, <2>3, <2>4 DEF IInv, TypeOK
<1>2. CASE ~ failed /\ Master
  <2>1. UNCHANGED failed /\ IInv'
    <3>1. CASE Create
      BY <3>1, CreateStep DEF Create
    <3>2. CASE TestSends
      BY <3>2, TestSendsStep DEF TestSends
    <3>3. CASE \E a \in acks : CollectAck(a)
      BY <3>3, CollectAckStep DEF CollectAck
    <3>4. CASE EndCollect
      BY <3>4, EndCollectStep DEF EndCollect
    <3>5. CASE SkipWorker
      BY <3>5, SkipWorkerStep DEF SkipWorker
    <3>6. CASE StartJob
      BY <3>6, StartJobStep
    <3>7. CASE AddEntry
      BY <3>7, AddEntryStep DEF AddEntry
    <3>8. CASE EndJob
      BY <3>8, EndJobStep DEF EndJob
    <3>9. CASE WaitSends
      BY <3>9, WaitSendsStep DEF WaitSends
    <3>10. CASE WaitRecvs
      BY <3>10, WaitRecvsStep DEF WaitRecvs
    <3>11. CASE SendTerminate
      BY <3>11, SendTerminateStep DEF SendTerminate
    <3>12. CASE TerminateSent
      BY <3>12, TerminateSentStep DEF TerminateSent
    <3>13. CASE OpenIndex
      BY <3>13, OpenIndexStep DEF OpenIndex
    <3>14. CASE CloseIndex
      BY <3>14, CloseIndexStep DEF CloseIndex
    <3>15. CASE StoreIndex
      BY <3>15, StoreIndexStep DEF StoreIndex
    <3>16. CASE EndArchive
      BY <3>16, EndArchiveStep DEF EndArchive
    <3> QED  BY <1>2, <3>1, <3>2, <3>3, <3>4, <3>5, <3>6, <3>7, <3>8, <3>9, <3>10, <3>11, <3>12,
                <3>13, <3>14, <3>15, <3>16 DEF Master
  <2> QED  BY <2>1 DEF NoAbort
<1>3. CASE ~ failed /\ \E w \in Workers : Worker(w)
  <2>1. PICK w \in Workers : Worker(w)
    BY <1>3
  <2>2. IInv' /\ UNCHANGED failed
    BY <2>1, ReopenStep, ReceiveStep, IdleSteps, CopyStep, FlushStep DEF Worker
  <2> QED  BY <2>2 DEF NoAbort
<1>4. CASE ~ failed /\ \E b \in Barriers : Barrier(b)
  <2>1. IInv' /\ UNCHANGED failed
    BY <1>4, BarrierStep
  <2> QED  BY <2>1 DEF NoAbort
<1>5. CASE ~ failed /\ \E r \in Ranks : Exit(r)
  <2>1. IInv' /\ IOErrors
    BY <1>5, ExitStep
  <2> QED  BY <2>1 DEF NoAbort
<1> QED  BY <1>1, <1>2, <1>3, <1>4, <1>5 DEF Next

LEMMA InvariantHolds == Spec => []NoAbortInv
<1>1. Init => NoAbortInv
  <2>1. Init => NoAbort
    BY DEF Init, NoAbort
  <2> QED  BY <2>1, InitIInv DEF NoAbortInv
<1> QED  BY <1>1, NextStep, PTL DEF Spec

\* Whatever the number of workers, the list of files and the limits, the
\* variables of master() and worker() keep their types; jobs_in_flight stays
\* between 0 and MAX_JOBS_IN_FLIGHT.
THEOREM TypeCorrect == Spec => []TypeOK
<1>1. NoAbortInv => TypeOK
  BY DEF NoAbortInv, IInv
<1> QED  BY <1>1, InvariantHolds, PTL

\* jobs_in_flight counts the receives posted until the final MPI_Waitall: the
\* Testany of find_unused_request (mpitar.cpp:223) never takes an ack.
THEOREM CountsAgree == Spec => []OneReceivePerJob
<1>1. NoAbortInv => OneReceivePerJob
  BY DEF NoAbortInv, IInv
<1> QED  BY <1>1, InvariantHolds, PTL

\* The asserts on find_unused_request (mpitar.cpp:224 and 227) never fail and
\* no worker finds the archive missing, even when MPI completes a send only
\* after the job was received.
THEOREM AssertsHold == Spec => []NoAbort
<1>1. NoAbortInv => NoAbort
  BY DEF NoAbortInv
<1> QED  BY <1>1, InvariantHolds, PTL
-----------------------------------------------------------------------------
\* No ack is lost, counted twice or paired with the wrong receive; no buffer in
\* use is overwritten; no worker is far behind.

\* Receive r waits for the ack of x: a job in the network, its first file in
\* the worker's queue, or the ack itself.
Pairs(x, w, r) == recvReq[w][r].job = x.job /\ recvReq[w][r].tag = x.tag
Expects(w, x)  == \E r \in Slots : Pairs(x, w, r)

\* No two receives are posted for the same job, and each is for some job.
OneSlot(w) ==
  \A r \in Slots, s \in Slots :
    /\ recvReq[w][r].job # 0 /\ recvReq[w][r].job = recvReq[w][s].job => r = s
    /\ recvReq[w][r].job = 0 => recvReq[w][r] = NoRequest

Expected(w) ==
  /\ \A i \in 1..Len(network[w]) : network[w][i].ents # << >> => Expects(w, network[w][i])
  /\ \A i \in 1..Len(queue[w]) : queue[w][i].ask => Expects(w, queue[w][i])
  /\ \A a \in acks : a.worker = w => Expects(w, a)

\* What a receive waits for is somewhere.
UnderWay(w) ==
  \A r \in Slots : recvReq[w][r].job # 0 =>
    \/ \E i \in 1..Len(network[w]) : network[w][i].ents # << >> /\ Pairs(network[w][i], w, r)
    \/ \E i \in 1..Len(queue[w]) : queue[w][i].ask /\ Pairs(queue[w][i], w, r)
    \/ \E a \in acks : a.worker = w /\ Pairs(a, w, r)

\* Jobs go through the network and the queue in the order of their numbers;
\* what is acked is older than what is not, and is acked once.
MessagesInOrder(w) ==
  \A i \in 1..Len(network[w]), k \in 1..Len(network[w]) :
    i < k /\ network[w][i].ents # << >> /\ network[w][k].ents # << >>
      => network[w][i].job < network[w][k].job
FilesInOrder(w) ==
  \A i \in 1..Len(queue[w]), k \in 1..Len(queue[w]) :
    i < k /\ queue[w][i].ask /\ queue[w][k].ask => queue[w][i].job < queue[w][k].job
FilesFirst(w) ==
  \A i \in 1..Len(queue[w]), k \in 1..Len(network[w]) :
    queue[w][i].ask /\ network[w][k].ents # << >> => queue[w][i].job < network[w][k].job
AcksFirst(w) ==
  \A a \in acks : a.worker = w =>
    /\ \A i \in 1..Len(queue[w]) : queue[w][i].ask => a.job < queue[w][i].job
    /\ \A k \in 1..Len(network[w]) : network[w][k].ents # << >> => a.job < network[w][k].job
    /\ \A b \in acks : b.worker = w /\ b.job = a.job => b = a
InOrder(w) == MessagesInOrder(w) /\ FilesInOrder(w) /\ FilesFirst(w) /\ AcksFirst(w)

AckInvOf(w) == OneSlot(w) /\ Expected(w) /\ UnderWay(w) /\ InOrder(w)
AckInv      == \A w \in Workers : AckInvOf(w)
-----------------------------------------------------------------------------
\* The invariant of a worker is about its receives, messages, files and acks.
LEMMA AckFrame ==
  ASSUME NEW w \in Workers, AckInvOf(w),
         recvReq'[w] = recvReq[w], network'[w] = network[w], queue'[w] = queue[w],
         \A a : a.worker = w => (a \in acks' <=> a \in acks)
  PROVE  AckInvOf(w)'
<1>1. OneSlot(w)'
  BY DEF AckInvOf, OneSlot
<1>2. Expected(w)'
  BY DEF AckInvOf, Expected, Expects, Pairs
<1>3. UnderWay(w)'
  BY DEF AckInvOf, UnderWay, Pairs
<1>4. InOrder(w)'
  BY DEF AckInvOf, InOrder, MessagesInOrder,
                               FilesInOrder, FilesFirst, AcksFirst
<1> QED  BY <1>1, <1>2, <1>3, <1>4 DEF AckInvOf

\* The numbers of the jobs a worker has are those of posted jobs.
LEMMA JobNumbers ==
  ASSUME IInv, NEW w \in Workers
  PROVE  /\ jobs \in Nat
         /\ \A r \in Slots : recvReq[w][r] \in Request /\ recvReq[w][r].job \in 0..jobs
         /\ \A i \in 1..Len(network[w]) :
              network[w][i] \in Message
              /\ (network[w][i].ents # << >> => network[w][i].job \in 1..jobs)
         /\ \A i \in 1..Len(queue[w]) :
              queue[w][i] \in Filedesc /\ queue[w][i].job \in 1..jobs
         /\ \A a \in acks : a \in Ack /\ a.job \in 1..jobs
<1>1. jobs \in Nat /\ \A r \in Slots : recvReq[w][r] \in Request
  BY DEF IInv, TypeOK, RequestsOK
<1>2. \A r \in Slots : recvReq[w][r].job \in 0..jobs
  BY <1>1 DEF IInv, Numbered, Request
<1>3. network[w] \in Seq(Message) /\ queue[w] \in Seq(Filedesc) /\ acks \subseteq Ack
  BY DEF IInv, TypeOK, MessagesOK, QueuesOK
<1>4. \A i \in 1..Len(network[w]) :
        network[w][i] \in Message /\ network[w][i].job \in Nat
  <2>1. \A x \in Message : x.job \in Nat
    BY DEF Message
  <2> QED  BY <1>3, <2>1, ElementOfSeq
<1>5. \A i \in 1..Len(queue[w]) : queue[w][i] \in Filedesc
  BY <1>3, ElementOfSeq
<1>6. \A i \in 1..Len(network[w]) :
        network[w][i].ents # << >> => network[w][i].job \in 1..jobs
  BY <1>1, <1>4 DEF IInv, Numbered
<1>7. \A i \in 1..Len(queue[w]) : queue[w][i].job \in 1..jobs
  BY DEF IInv, Numbered
<1>8. \A a \in acks : a \in Ack /\ a.job \in 1..jobs
  BY <1>3 DEF IInv, Numbered
<1> QED  BY <1>1, <1>2, <1>4, <1>5, <1>6, <1>7, <1>8

LEMMA QuietAcks ==
  ASSUME AckInv, UNCHANGED <<recvReq, network, queue, acks>>
  PROVE  AckInv'
BY AckFrame DEF AckInv
-----------------------------------------------------------------------------
LEMMA CollectAckAcks ==
  ASSUME IInv, AckInv, NEW a \in acks, CollectAck(a)
  PROVE  AckInv'
<1> DEFINE w == a.worker
<1>1. w \in Workers /\ a.job \in Nat \ {0}
  BY DEF IInv, TypeOK, MessagesOK, Ack, Numbered
<1>2. PICK r \in ReceivesOf(a) : recvReq' = [recvReq EXCEPT ![a.worker][r] = NoRequest]
  BY DEF CollectAck
<1>3. r \in Slots /\ recvReq[w][r].job = a.job
  BY <1>2 DEF ReceivesOf
<1>4. UNCHANGED <<network, queue>> /\ acks' = acks \ {a}
  BY DEF CollectAck, workerVars
<1>5. /\ recvReq'[w][r] = NoRequest /\ recvReq'[w][r].job = 0
      /\ \A s \in Slots : s # r => recvReq'[w][s] = recvReq[w][s]
      /\ \A v \in Workers : v # w => recvReq'[v] = recvReq[v]
  BY <1>1, <1>2, <1>3 DEF IInv, TypeOK, RequestsOK, NoRequest
<1>6. AckInvOf(w)
  BY <1>1 DEF AckInv
<1>7. AckInvOf(w)'
  <2> HIDE DEF w
  <2> USE <1>1, <1>3, <1>4, <1>5, <1>6, JobNumbers
  <2>1. OneSlot(w)'
    BY DEF AckInvOf, OneSlot
  <2>2. \A x : Expects(w, x) /\ x.job # a.job => Expects(w, x)'
    BY DEF Expects, Pairs
  <2>3. Expected(w)'
    <3>1. \A i \in 1..Len(network[w]) : network[w][i].ents # << >> => network[w][i].job # a.job
      BY DEF AckInvOf, InOrder, AcksFirst, w
    <3>2. \A i \in 1..Len(queue[w]) : queue[w][i].ask => queue[w][i].job # a.job
      BY DEF AckInvOf, InOrder, AcksFirst, w
    <3>3. \A b \in acks' : b.worker = w => b.job # a.job
      BY DEF AckInvOf, InOrder, AcksFirst, w
    <3> QED  BY <2>2, <3>1, <3>2, <3>3 DEF AckInvOf, Expected
  <2>4. UnderWay(w)'
    <3> SUFFICES ASSUME NEW s \in Slots, recvReq'[w][s].job # 0
                 PROVE  \/ \E i \in 1..Len(network[w]) :
                             network[w][i].ents # << >> /\ Pairs(network[w][i], w, s)
                        \/ \E i \in 1..Len(queue[w]) : queue[w][i].ask /\ Pairs(queue[w][i], w, s)
                        \/ \E b \in acks \ {a} : b.worker = w /\ Pairs(b, w, s)
      BY DEF UnderWay, Pairs
    <3>1. s # r /\ recvReq'[w][s] = recvReq[w][s]
      OBVIOUS
    <3>2. recvReq[w][s].job # a.job
      BY <3>1 DEF AckInvOf, OneSlot
    <3> QED  BY <3>1, <3>2 DEF AckInvOf, UnderWay, Pairs
  <2>5. InOrder(w)'
    <3>1. MessagesInOrder(w)' /\ FilesInOrder(w)' /\ FilesFirst(w)'
      BY DEF AckInvOf, InOrder, MessagesInOrder, FilesInOrder, FilesFirst
    <3>2. AcksFirst(w)'
      BY DEF AckInvOf, InOrder, AcksFirst
    <3> QED  BY <3>1, <3>2 DEF InOrder
  <2> QED  BY <2>1, <2>3, <2>4, <2>5 DEF AckInvOf
<1>8. \A v \in Workers : v # w => AckInvOf(v)'
  BY <1>4, <1>5, AckFrame DEF AckInv
<1> QED  BY <1>7, <1>8 DEF AckInv

\* There is room in the worker, so a slot without a receive is picked and
\* nothing is tested.
LEMMA StartJobAwaits ==
  ASSUME IInv, StartJob
  PROVE  recvReq' = recvReq /\ acks' = acks
<1> DEFINE null == {s \in Slots : recvReq[current][s] = NoRequest}
           may  == {s \in Slots : \E a \in acks : s \in ReceivesOf(a) /\ a.worker = current}
<1>1. current \in Workers /\ recvReq \in [Workers -> [Slots -> Request]]
  BY DEF IInv, TypeOK, ControlOK, RequestsOK
<1>2. null # {}
  <2>1. pc[0] \notin AfterWait /\ jobsInFlight[current] < MaxJobsInFlight
    BY DEF StartJob, AfterWait
  <2>2. jobsInFlight[current] = Cardinality(Posted(current))
    BY <1>1, <2>1 DEF IInv, OneReceivePerJob
  <2>3. Posted(current) \in SUBSET Slots /\ Posted(current) # Slots
    BY <2>1, <2>2, SlotsFinite, LimitsAssumption DEF Posted
  <2> QED  BY <2>3 DEF Posted
<1>3. PICK r \in FindUnused(null, {}, may) :
        \/ /\ recvReq' = [recvReq EXCEPT ![current][r] = NoRequest]
           /\ acks' = {a \in acks : a.worker # current \/ r \notin ReceivesOf(a)}
        \/ UNCHANGED <<recvReq, acks>>
  BY DEF StartJob
<1>4. r \in null
  BY <1>2, <1>3 DEF FindUnused
<1>5. recvReq' = recvReq
  BY <1>1, <1>3, <1>4
<1>6. \A a \in acks : a.worker = current => r \notin ReceivesOf(a)
  BY <1>1, <1>4, JobNumbers DEF ReceivesOf, NoRequest
<1>7. acks' = acks
  BY <1>3, <1>6
<1> QED  BY <1>5, <1>7

LEMMA StartJobAcks ==
  ASSUME IInv, AckInv, StartJob
  PROVE  AckInv'
BY StartJobAwaits, QuietAcks DEF StartJob, workerVars

LEMMA EndJobAcks ==
  ASSUME IInv, AckInv, EndJob
  PROVE  AckInv'
<1>0. PICK w \in Workers, id \in Slots : w = current /\ id = recvId
  BY DEF IInv, TypeOK, ControlOK, EndJob, Building
<1>m. PICK m : m = [job |-> jobs + 1, tag |-> sendId, ents |-> buffer]
  OBVIOUS
<1>1. UNCHANGED <<queue, acks>> /\ pc[0] = "build"
  BY DEF EndJob, workerVars
<1>2. CASE buffer = << >>
  BY <1>1, <1>2, QuietAcks DEF EndJob, postVars
<1>3. CASE buffer # << >>
  <2>1. Post
    BY <1>3 DEF EndJob
  <2>2. /\ recvReq[w][id].job = 0
        /\ recvReq \in [Workers -> [Slots -> Request]]
        /\ network \in [Workers -> Seq(Message)]
    BY <1>0, <1>m, <1>1 DEF IInv, Building, NoRequest, TypeOK, RequestsOK, MessagesOK
  <2>3. /\ recvReq'[w][id].job = jobs + 1 /\ recvReq'[w][id].tag = sendId
        /\ \A s \in Slots : s # id => recvReq'[w][s] = recvReq[w][s]
        /\ \A v \in Workers : v # w => recvReq'[v] = recvReq[v] /\ network'[v] = network[v]
    BY <1>0, <1>m, <2>1, <2>2 DEF Post
  <2>4. /\ Len(network'[w]) = Len(network[w]) + 1 /\ Len(network[w]) \in Nat
        /\ network'[w][Len(network[w]) + 1] = m
        /\ \A i \in 1..Len(network[w]) : network'[w][i] = network[w][i]
    BY <1>0, <1>m, <2>1, <2>2 DEF Post
  <2>5. AckInvOf(w)
    BY <1>1 DEF AckInv
  <2>6. AckInvOf(w)'
    <3>0. /\ m.job = jobs + 1 /\ m.tag = sendId /\ m.ents # << >>
          /\ UNCHANGED <<queue, acks>>
      BY <1>0, <1>m, <1>1, <1>3
    <3>old. \A i \in 1..Len(network'[w]) :
            \/ network'[w][i] = network[w][i] /\ i \in 1..Len(network[w])
            \/ network'[w][i] = m /\ i = Len(network[w]) + 1
      <4> SUFFICES ASSUME NEW i \in 1..Len(network'[w]), i # Len(network[w]) + 1
                   PROVE  network'[w][i] = network[w][i] /\ i \in 1..Len(network[w])
        BY <2>4
      <4>1. i \in 1..Len(network[w])
        BY <2>4
      <4> QED  BY <2>4, <4>1
    <3>more. 1..Len(network[w]) \subseteq 1..Len(network'[w])
          /\ Len(network[w]) + 1 \in 1..Len(network'[w])
      BY <2>4
    <3> USE <1>1, <2>2, <2>3, <2>4, <2>5, <3>0, JobNumbers
    <3>1. OneSlot(w)'
      BY DEF AckInvOf, OneSlot
    <3>2. \A x : x.job \in 1..jobs /\ Expects(w, x) => Expects(w, x)'
      <4> SUFFICES ASSUME NEW x, x.job \in 1..jobs, NEW s \in Slots, Pairs(x, w, s)
                   PROVE  Pairs(x, w, s)'
        BY DEF Expects
      <4>1. s # id
        BY DEF Pairs
      <4> QED  BY <4>1 DEF Pairs
    <3>3. Pairs(m, w, id)'
      BY DEF Pairs
    <3>4. Expected(w)'
      <4>1. \A i \in 1..Len(network[w]) :
              network[w][i].ents # << >> => Expects(w, network[w][i])'
        BY <3>2 DEF AckInvOf, Expected
      <4>2. \A i \in 1..Len(network'[w]) :
              network'[w][i].ents # << >> => Expects(w, network[w][i])'
        <5> SUFFICES ASSUME NEW i \in 1..Len(network'[w]), network'[w][i].ents # << >>
                     PROVE  Expects(w, network[w][i])'
          OBVIOUS
        <5>1. CASE i \in 1..Len(network[w]) /\ network'[w][i] = network[w][i]
          <6>1. Expects(w, network[w][i]) /\ network[w][i].job \in 1..jobs
            BY <5>1 DEF AckInvOf, Expected
          <6> QED  BY <3>2, <5>1, <6>1 DEF Expects, Pairs
        <5>2. CASE network'[w][i] = m
          BY <3>3, <5>2 DEF Expects, Pairs
        <5> QED  BY <3>old, <5>1, <5>2
      <4>3. \A i \in 1..Len(queue[w]) : queue[w][i].ask => Expects(w, queue[w][i])'
        BY <3>2 DEF AckInvOf, Expected
      <4>4. \A a \in acks : a.worker = w => Expects(w, a)'
        BY <3>2 DEF AckInvOf, Expected
      <4> QED  BY <4>2, <4>3, <4>4 DEF Expected, Expects, Pairs
    <3>5. UnderWay(w)'
      <4> SUFFICES ASSUME NEW s \in Slots, recvReq'[w][s].job # 0
                   PROVE  \/ \E i \in 1..Len(network'[w]) :
                               network'[w][i].ents # << >> /\ Pairs(network[w][i], w, s)'
                          \/ \E i \in 1..Len(queue[w]) :
                               queue[w][i].ask /\ Pairs(queue[w][i], w, s)'
                          \/ \E b \in acks : b.worker = w /\ Pairs(b, w, s)'
        BY DEF UnderWay, Pairs
      <4>1. CASE s = id
        BY <3>3, <3>more, <4>1 DEF Pairs
      <4>2. CASE s # id
        <5>1. recvReq'[w][s] = recvReq[w][s]
          BY <4>2
        <5>2. CASE \E i \in 1..Len(network[w]) :
                     network[w][i].ents # << >> /\ Pairs(network[w][i], w, s)
          BY <3>more, <5>1, <5>2 DEF Pairs
        <5>3. CASE ~ \E i \in 1..Len(network[w]) :
                       network[w][i].ents # << >> /\ Pairs(network[w][i], w, s)
          BY <5>1, <5>3 DEF AckInvOf, UnderWay, Pairs
        <5> QED  BY <5>2, <5>3
      <4> QED  BY <4>1, <4>2
    <3>6. InOrder(w)'
      <4>1. \A i \in 1..Len(network'[w]) :
              \/ network'[w][i] = network[w][i] /\ i \in 1..Len(network[w])
              \/ network'[w][i] = m /\ i = Len(network[w]) + 1
        BY <3>old
      <4>2. MessagesInOrder(w)'
        <5> SUFFICES ASSUME NEW i \in 1..Len(network'[w]), NEW k \in 1..Len(network'[w]), i < k,
                            network'[w][i].ents # << >>, network'[w][k].ents # << >>
                     PROVE  network'[w][i].job < network'[w][k].job
          BY DEF MessagesInOrder
        <5>1. i \in 1..Len(network[w]) /\ network'[w][i] = network[w][i]
          BY <4>1
        <5>2. CASE k \in 1..Len(network[w]) /\ network'[w][k] = network[w][k]
          BY <5>1, <5>2 DEF AckInvOf, InOrder, MessagesInOrder
        <5>3. CASE network'[w][k] = m
          BY <5>1, <5>3
        <5> QED  BY <4>1, <5>2, <5>3
      <4>3. FilesInOrder(w)'
        BY DEF AckInvOf, InOrder, FilesInOrder
      <4>4. FilesFirst(w)'
        <5> SUFFICES ASSUME NEW i \in 1..Len(queue[w]), NEW k \in 1..Len(network'[w]),
                            queue[w][i].ask, network'[w][k].ents # << >>
                     PROVE  queue[w][i].job < network'[w][k].job
          BY DEF FilesFirst
        <5>1. CASE k \in 1..Len(network[w]) /\ network'[w][k] = network[w][k]
          BY <5>1 DEF AckInvOf, InOrder, FilesFirst
        <5>2. CASE network'[w][k] = m
          BY <5>2
        <5> QED  BY <4>1, <5>1, <5>2
      <4>5. AcksFirst(w)'
        BY <4>1 DEF AckInvOf, InOrder, AcksFirst
      <4> QED  BY <4>2, <4>3, <4>4, <4>5 DEF InOrder
    <3> QED  BY <3>1, <3>4, <3>5, <3>6 DEF AckInvOf
  <2>7. \A v \in Workers : v # w => AckInvOf(v)'
    BY <1>1, <2>3, AckFrame DEF AckInv
  <2> QED  BY <2>6, <2>7 DEF AckInv
<1> QED  BY <1>2, <1>3

\* The final MPI_Waitall over the receives takes every ack, and there is none
\* to come.
LEMMA WaitRecvsAcks ==
  ASSUME IInv, AckInv, WaitRecvs
  PROVE  AckInv'
<1>1. UNCHANGED <<network, queue>>
  BY DEF WaitRecvs, workerVars
<1>2. \A w \in Workers, r \in Slots : recvReq'[w][r] = NoRequest /\ recvReq'[w][r].job = 0
  BY DEF WaitRecvs, NoRequest
<1>3. acks' = {}
  <2>1. \A a \in acks : ReceivesOf(a) # {}
    <3> SUFFICES ASSUME NEW a \in acks PROVE ReceivesOf(a) # {}
      OBVIOUS
    <3>1. a.worker \in Workers
      BY DEF IInv, TypeOK, MessagesOK, Ack
    <3>2. Expects(a.worker, a)
      BY <3>1 DEF AckInv, AckInvOf, Expected
    <3> QED  BY <3>2 DEF Expects, Pairs, ReceivesOf
  <2> QED  BY <2>1 DEF WaitRecvs
<1> SUFFICES ASSUME NEW w \in Workers PROVE AckInvOf(w)'
  BY DEF AckInv
<1>4. \A r \in Slots : recvReq[w][r].job # 0 =>
        \E a \in acks : a.worker = w /\ a.job = recvReq[w][r].job
  BY DEF WaitRecvs, NoRequest, ReceivesOf
<1>5. \A x : Expects(w, x) /\ x.job \in 1..jobs => \E a \in acks : a.worker = w /\ a.job = x.job
  BY <1>4 DEF Expects, Pairs
<1>6. \A i \in 1..Len(network[w]) : network[w][i].ents = << >>
  BY <1>5, JobNumbers DEF AckInv, AckInvOf, Expected, InOrder, AcksFirst
<1>7. \A i \in 1..Len(queue[w]) : ~ queue[w][i].ask
  BY <1>5, JobNumbers DEF AckInv, AckInvOf, Expected, InOrder, AcksFirst
<1>8. OneSlot(w)' /\ Expected(w)' /\ UnderWay(w)'
  BY <1>1, <1>2, <1>3, <1>6, <1>7 DEF OneSlot, Expected, UnderWay
<1>9. InOrder(w)'
  BY <1>1, <1>3, <1>6 DEF AckInv, AckInvOf, InOrder, MessagesInOrder,
                               FilesInOrder, FilesFirst, AcksFirst
<1> QED  BY <1>8, <1>9 DEF AckInvOf

LEMMA SendTerminateAcks ==
  ASSUME IInv, AckInv, SendTerminate
  PROVE  AckInv'
<1>0. PICK w \in Workers : w = current
  BY DEF IInv, TypeOK, ControlOK
<1>1. /\ UNCHANGED <<recvReq, queue, acks>>
      /\ network \in [Workers -> Seq(Message)]
  BY DEF SendTerminate, workerVars, masterVars, postVars, IInv, TypeOK, MessagesOK
<1>2. /\ Len(network'[w]) = Len(network[w]) + 1 /\ Len(network[w]) \in Nat
      /\ network'[w][Len(network[w]) + 1].ents = << >>
      /\ \A i \in 1..Len(network[w]) : network'[w][i] = network[w][i]
      /\ \A v \in Workers : v # w => network'[v] = network[v]
  BY <1>0, <1>1 DEF SendTerminate, Terminate
<1>3. AckInvOf(w)
  BY <1>1 DEF AckInv
<1>4. AckInvOf(w)'
  <2>1. /\ \A i \in 1..Len(network'[w]) : network'[w][i].ents # << >> =>
             i \in 1..Len(network[w]) /\ network'[w][i] = network[w][i]
        /\ 1..Len(network[w]) \subseteq 1..Len(network'[w])
    BY <1>2
  <2> USE <1>1, <1>2, <1>3, <2>1
  <2>2. OneSlot(w)'
    BY DEF AckInvOf, OneSlot
  <2>3. Expected(w)'
    <3>1. \A x : Expects(w, x) => Expects(w, x)'
      BY DEF Expects, Pairs
    <3>2. \A i \in 1..Len(network'[w]) :
            network'[w][i].ents # << >> => Expects(w, network[w][i])'
      <4> SUFFICES ASSUME NEW i \in 1..Len(network'[w]), network'[w][i].ents # << >>
                   PROVE  Expects(w, network[w][i])'
        OBVIOUS
      <4>1. Expects(w, network[w][i])
        BY DEF AckInvOf, Expected
      <4> QED  BY <4>1 DEF Expects, Pairs
    <3>3. \A i \in 1..Len(queue[w]) : queue[w][i].ask => Expects(w, queue[w][i])'
      BY <3>1 DEF AckInvOf, Expected
    <3>4. \A a \in acks : a.worker = w => Expects(w, a)'
      BY <3>1 DEF AckInvOf, Expected
    <3> QED  BY <3>2, <3>3, <3>4 DEF Expected, Expects, Pairs
  <2>4. UnderWay(w)'
    <3>1. \A i \in 1..Len(network[w]) :
            i \in 1..Len(network'[w]) /\ network'[w][i] = network[w][i]
      OBVIOUS
    <3> SUFFICES ASSUME NEW r \in Slots, recvReq[w][r].job # 0
                 PROVE  \/ \E i \in 1..Len(network'[w]) :
                             network'[w][i].ents # << >> /\ Pairs(network[w][i], w, r)'
                        \/ \E i \in 1..Len(queue[w]) : queue[w][i].ask /\ Pairs(queue[w][i], w, r)'
                        \/ \E a \in acks : a.worker = w /\ Pairs(a, w, r)'
      BY DEF UnderWay, Pairs
    <3>2. CASE \E i \in 1..Len(network[w]) :
                 network[w][i].ents # << >> /\ Pairs(network[w][i], w, r)
      <4>1. PICK i \in 1..Len(network[w]) : network[w][i].ents # << >> /\ Pairs(network[w][i], w, r)
        BY <3>2
      <4>2. i \in 1..Len(network'[w]) /\ network'[w][i] = network[w][i]
        BY <3>1
      <4> QED  BY <4>1, <4>2 DEF Pairs
    <3>3. CASE ~ \E i \in 1..Len(network[w]) :
                   network[w][i].ents # << >> /\ Pairs(network[w][i], w, r)
      BY <3>3 DEF AckInvOf, UnderWay, Pairs
    <3> QED  BY <3>2, <3>3
  <2>5. InOrder(w)'
    <3>1. MessagesInOrder(w)'
      BY DEF AckInvOf, InOrder, MessagesInOrder
    <3>2. FilesInOrder(w)' /\ FilesFirst(w)'
      BY DEF AckInvOf, InOrder, FilesInOrder, FilesFirst
    <3>3. AcksFirst(w)'
      BY DEF AckInvOf, InOrder, AcksFirst
    <3> QED  BY <3>1, <3>2, <3>3 DEF InOrder
  <2> QED  BY <2>2, <2>3, <2>4, <2>5 DEF AckInvOf
<1>5. \A v \in Workers : v # w => AckInvOf(v)'
  BY <1>1, <1>2, AckFrame DEF AckInv
<1> QED  BY <1>4, <1>5 DEF AckInv
-----------------------------------------------------------------------------
\* What is left of a sequence when its head is taken.
Headless(s, t) ==
  /\ \A i \in 1..Len(t) : \E j \in 1..Len(s) : j = i + 1 /\ t[i] = s[j]
  /\ \A j \in 1..Len(s) : j = 1 \/ \E i \in 1..Len(t) : t[i] = s[j]
  /\ 1 \in 1..Len(s) /\ Head(s) = s[1]

LEMMA TailShift ==
  ASSUME NEW T, NEW s \in Seq(T), s # << >>
  PROVE  Headless(s, Tail(s))
<1>1. /\ Len(Tail(s)) = Len(s) - 1 /\ Len(s) \in Nat \ {0}
      /\ \A i \in 1..Len(Tail(s)) : Tail(s)[i] = s[i + 1]
      /\ Head(s) = s[1]
  BY HeadTailProperties
<1>2. \A i \in 1..Len(Tail(s)) : i + 1 \in 1..Len(s)
  BY <1>1
<1>3. ASSUME NEW j \in 1..Len(s), j # 1
      PROVE  \E i \in 1..Len(Tail(s)) : Tail(s)[i] = s[j]
  <2>1. j - 1 \in 1..Len(Tail(s)) /\ (j - 1) + 1 = j
    BY <1>1, <1>3
  <2>2. Tail(s)[j - 1] = s[j]
    BY <1>1, <2>1
  <2> QED  BY <2>1, <2>2
<1> QED  BY <1>1, <1>2, <1>3 DEF Headless

\* The files of message m come after those of q, and only the first asks for work.
Queued(q, m, q2) ==
  /\ \A i \in 1..Len(q) : i \in 1..Len(q2) /\ q2[i] = q[i]
  /\ \A i \in 1..Len(q2) : q2[i].ask =>
       \/ i \in 1..Len(q) /\ q2[i] = q[i]
       \/ i = Len(q) + 1 /\ q2[i].job = m.job /\ q2[i].tag = m.tag
  /\ \E i \in 1..Len(q2) : q2[i].ask /\ q2[i].job = m.job /\ q2[i].tag = m.tag

LEMMA FirstAsks ==
  ASSUME NEW m \in Message, m.ents # << >>, NEW q \in Seq(Filedesc), NEW q2,
         q2 = q \o Filedescs(m)
  PROVE  Queued(q, m, q2)
<1>1. Len(m.ents) \in Nat \ {0} /\ DOMAIN m.ents = 1..Len(m.ents)
  <2>1. m.ents \in Seq(Entries)
    BY DEF Message
  <2> QED  BY <2>1
<1>2. PICK f : f = Filedescs(m)
  OBVIOUS
<1>3. f \in Seq(Filedesc) /\ DOMAIN f = 1..Len(m.ents)
  BY <1>1, <1>2, FiledescsType DEF Filedescs
<1>4. Len(f) = Len(m.ents) /\ Len(q) \in Nat
  BY <1>1, <1>3, LenProperties
<1>5. \A i \in 1..Len(f) : f[i].job = m.job /\ f[i].tag = m.tag /\ (f[i].ask <=> i = 1)
  BY <1>1, <1>2, <1>4 DEF Filedescs
<1>6. /\ Len(q2) = Len(q) + Len(f)
      /\ \A i \in 1..Len(q) + Len(f) : q2[i] = IF i <= Len(q) THEN q[i] ELSE f[i - Len(q)]
  BY <1>2, <1>3, ConcatProperties
<1>7. \A i \in 1..Len(q) : i \in 1..Len(q2) /\ q2[i] = q[i]
  BY <1>1, <1>4, <1>6
<1>8. ASSUME NEW i \in 1..Len(q2), q2[i].ask, i \notin 1..Len(q)
      PROVE  i = Len(q) + 1 /\ q2[i].job = m.job /\ q2[i].tag = m.tag
  <2>1. i - Len(q) \in 1..Len(f) /\ q2[i] = f[i - Len(q)]
    BY <1>1, <1>4, <1>6, <1>8
  <2>2. i - Len(q) = 1
    BY <1>5, <1>8, <2>1
  <2> QED  BY <1>4, <1>5, <2>1, <2>2
<1>9. Len(q) + 1 \in 1..Len(q2) /\ q2[Len(q) + 1] = f[1] /\ 1 \in 1..Len(f)
  BY <1>1, <1>4, <1>6
<1>10. \A i \in 1..Len(q2) : q2[i].ask =>
         \/ i \in 1..Len(q) /\ q2[i] = q[i]
         \/ i = Len(q) + 1 /\ q2[i].job = m.job /\ q2[i].tag = m.tag
  BY <1>7, <1>8
<1>11. \E i \in 1..Len(q2) : q2[i].ask /\ q2[i].job = m.job /\ q2[i].tag = m.tag
  <2>1. f[1].ask /\ f[1].job = m.job /\ f[1].tag = m.tag
    BY <1>5, <1>9
  <2> QED  BY <1>9, <2>1
<1> QED  BY <1>7, <1>10, <1>11 DEF Queued

LEMMA ReceiveAcks ==
  ASSUME IInv, AckInv, NEW w \in Workers, Receive(w)
  PROVE  AckInv'
<1>1. /\ network \in [Workers -> Seq(Message)] /\ queue \in [Workers -> Seq(Filedesc)]
      /\ network[w] \in Seq(Message) /\ network[w] # << >>
  BY DEF Receive, IInv, TypeOK, MessagesOK, QueuesOK
<1>2. /\ network'[w] = Tail(network[w]) /\ \A v \in Workers : v # w => network'[v] = network[v]
      /\ UNCHANGED <<recvReq, acks>>
  BY <1>1 DEF Receive, TakeMessage, masterVars, postVars
<1>3. PICK m : m = Head(network[w])
  OBVIOUS
<1>4. /\ \A i \in 1..Len(network'[w]) : \E j \in 1..Len(network[w]) :
           j = i + 1 /\ network'[w][i] = network[w][j]
      /\ \A j \in 1..Len(network[w]) :
           j = 1 \/ \E i \in 1..Len(network'[w]) : network'[w][i] = network[w][j]
      /\ 1 \in 1..Len(network[w]) /\ m = network[w][1]
  <2>1. Headless(network[w], network'[w])
    BY <1>1, <1>2, TailShift
  <2> QED  BY <1>3, <2>1 DEF Headless
<1>5. AckInvOf(w)
  BY DEF AckInv
<1>6. \A v \in Workers : v # w => queue'[v] = queue[v]
  BY <1>1 DEF Receive, TakeMessage
<1>7. \A x : Expects(w, x) => Expects(w, x)'
  BY <1>2 DEF Expects, Pairs
<1>8. AckInvOf(w)'
  <2>1. CASE m.ents = << >>
    <3>1. queue' = queue
      BY <1>3, <2>1 DEF Receive, TakeMessage
    <3> USE <1>2, <1>4, <1>5, <2>1, <3>1
    <3>2. OneSlot(w)'
      BY DEF AckInvOf, OneSlot
    <3>3. \A i \in 1..Len(network'[w]) :
            network'[w][i].ents # << >> => Expects(w, network[w][i])'
      <4> SUFFICES ASSUME NEW i \in 1..Len(network'[w]), network'[w][i].ents # << >>
                   PROVE  Expects(w, network[w][i])'
        OBVIOUS
      <4>1. PICK j \in 1..Len(network[w]) : network'[w][i] = network[w][j]
        OBVIOUS
      <4>2. Expects(w, network[w][j])
        BY <4>1 DEF AckInvOf, Expected
      <4> QED  BY <4>1, <4>2 DEF Expects, Pairs
    <3>4. Expected(w)'
      <4>1. \A i \in 1..Len(queue[w]) : queue[w][i].ask => Expects(w, queue[w][i])'
        BY <1>7 DEF AckInvOf, Expected
      <4>2. \A a \in acks : a.worker = w => Expects(w, a)'
        BY <1>7 DEF AckInvOf, Expected
      <4> QED  BY <3>3, <4>1, <4>2 DEF Expected, Expects, Pairs
    <3>5. UnderWay(w)'
      <4>1. \A i \in 1..Len(network[w]) : network[w][i].ents # << >> =>
              \E k \in 1..Len(network'[w]) : network'[w][k] = network[w][i]
        OBVIOUS
      <4>2. recvReq' = recvReq /\ queue' = queue /\ acks' = acks
        BY <1>2
      <4>3. UnderWay(w)
        BY ONLY <1>5 DEF AckInvOf
      <4>4. ASSUME NEW r \in Slots, recvReq[w][r].job # 0
            PROVE  \/ \E i \in 1..Len(network'[w]) :
                        network'[w][i].ents # << >> /\ Pairs(network'[w][i], w, r)
                   \/ \E i \in 1..Len(queue[w]) : queue[w][i].ask /\ Pairs(queue[w][i], w, r)
                   \/ \E a \in acks : a.worker = w /\ Pairs(a, w, r)
        <5>1. CASE \E i \in 1..Len(network[w]) :
                     network[w][i].ents # << >> /\ Pairs(network[w][i], w, r)
          <6>1. PICK i \in 1..Len(network[w]) :
                       network[w][i].ents # << >> /\ Pairs(network[w][i], w, r)
            BY ONLY <5>1
          <6>2. PICK k \in 1..Len(network'[w]) : network'[w][k] = network[w][i]
            BY ONLY <4>1, <6>1
          <6> QED  BY ONLY <6>1, <6>2
        <5> QED  BY ONLY <4>3, <4>4, <5>1 DEF UnderWay
      <4> QED  BY ONLY <4>2, <4>4 DEF UnderWay, Pairs
    <3>6. InOrder(w)'
      <4>1. MessagesInOrder(w)'
        <5> SUFFICES ASSUME NEW i \in 1..Len(network'[w]), NEW k \in 1..Len(network'[w]), i < k,
                            network'[w][i].ents # << >>, network'[w][k].ents # << >>
                     PROVE  network'[w][i].job < network'[w][k].job
          BY DEF MessagesInOrder
        <5>1. PICK j \in 1..Len(network[w]) : j = i + 1 /\ network'[w][i] = network[w][j]
          OBVIOUS
        <5>2. PICK l \in 1..Len(network[w]) : l = k + 1 /\ network'[w][k] = network[w][l]
          OBVIOUS
        <5>3. j < l /\ network[w][j].ents # << >> /\ network[w][l].ents # << >>
          BY <5>1, <5>2
        <5>4. network[w][j].job < network[w][l].job
          BY <5>3 DEF AckInvOf, InOrder, MessagesInOrder
        <5> QED  BY <5>1, <5>2, <5>4
      <4>2. FilesInOrder(w)'
        BY DEF AckInvOf, InOrder, FilesInOrder
      <4>3. FilesFirst(w)'
        <5> SUFFICES ASSUME NEW i \in 1..Len(queue[w]), NEW k \in 1..Len(network'[w]),
                            queue[w][i].ask, network'[w][k].ents # << >>
                     PROVE  queue[w][i].job < network'[w][k].job
          BY DEF FilesFirst
        <5>1. PICK j \in 1..Len(network[w]) : network'[w][k] = network[w][j]
          OBVIOUS
        <5>2. queue[w][i].job < network[w][j].job
          BY <5>1 DEF AckInvOf, InOrder, FilesFirst
        <5> QED  BY <5>1, <5>2
      <4>4. AcksFirst(w)'
        BY DEF AckInvOf, InOrder, AcksFirst
      <4> QED  BY <4>1, <4>2, <4>3, <4>4 DEF InOrder
    <3> QED  BY <3>2, <3>4, <3>5, <3>6 DEF AckInvOf
  <2>2. CASE m.ents # << >>
    <3>1. m \in Message
      BY <1>1, <1>4, ElementOfSeq
    <3>2. queue'[w] = queue[w] \o Filedescs(m) /\ queue[w] \in Seq(Filedesc)
      BY <1>1, <1>3, <2>2 DEF Receive, TakeMessage
    <3>3. Queued(queue[w], m, queue'[w])
      BY <2>2, <3>1, <3>2, FirstAsks
    <3>4. \A i \in 1..Len(queue'[w]) : queue'[w][i].ask =>
            \/ i \in 1..Len(queue[w]) /\ queue'[w][i] = queue[w][i]
            \/ i = Len(queue[w]) + 1 /\ queue'[w][i].job = m.job /\ queue'[w][i].tag = m.tag
      BY <3>3 DEF Queued
    <3>5. PICK n \in 1..Len(queue'[w]) :
            queue'[w][n].ask /\ queue'[w][n].job = m.job /\ queue'[w][n].tag = m.tag
      BY <3>3 DEF Queued
    <3>6. Len(queue[w]) \in Nat
      BY <3>2, LenProperties
    <3>7. Expects(w, m) /\ m.job \in 1..jobs
      BY <1>4, <1>5, <2>2, JobNumbers DEF AckInvOf, Expected
    <3> USE <1>2, <1>4, <1>5, <2>2, <3>4, <3>6
    <3>8. OneSlot(w)'
      BY DEF AckInvOf, OneSlot
    <3>9. Expected(w)'
      <4>1. \A i \in 1..Len(network'[w]) :
              network'[w][i].ents # << >> => Expects(w, network[w][i])'
        <5> SUFFICES ASSUME NEW i \in 1..Len(network'[w]), network'[w][i].ents # << >>
                     PROVE  Expects(w, network[w][i])'
          OBVIOUS
        <5>1. PICK j \in 1..Len(network[w]) : network'[w][i] = network[w][j]
          OBVIOUS
        <5>2. Expects(w, network[w][j])
          BY <5>1 DEF AckInvOf, Expected
        <5> QED  BY <5>1, <5>2 DEF Expects, Pairs
      <4>2. \A i \in 1..Len(queue'[w]) : queue'[w][i].ask => Expects(w, queue[w][i])'
        <5> SUFFICES ASSUME NEW i \in 1..Len(queue'[w]), queue'[w][i].ask
                     PROVE  Expects(w, queue[w][i])'
          OBVIOUS
        <5>1. CASE i \in 1..Len(queue[w]) /\ queue'[w][i] = queue[w][i]
          <6>1. Expects(w, queue[w][i])
            BY <5>1 DEF AckInvOf, Expected
          <6> QED  BY <5>1, <6>1 DEF Expects, Pairs
        <5>2. CASE queue'[w][i].job = m.job /\ queue'[w][i].tag = m.tag
          BY <3>7, <5>2 DEF Expects, Pairs
        <5> QED  BY <5>1, <5>2
      <4>3. \A a \in acks : a.worker = w => Expects(w, a)'
        BY <1>7 DEF AckInvOf, Expected
      <4> QED  BY <4>1, <4>2, <4>3 DEF Expected, Expects, Pairs
    <3>10. UnderWay(w)'
      <4> SUFFICES ASSUME NEW r \in Slots, recvReq[w][r].job # 0
                   PROVE  \/ \E i \in 1..Len(network'[w]) :
                               network'[w][i].ents # << >> /\ Pairs(network[w][i], w, r)'
                          \/ \E i \in 1..Len(queue'[w]) :
                               queue'[w][i].ask /\ Pairs(queue[w][i], w, r)'
                          \/ \E b \in acks : b.worker = w /\ Pairs(b, w, r)'
        BY DEF UnderWay, Pairs
      <4>1. CASE \E i \in 1..Len(network[w]) :
                   network[w][i].ents # << >> /\ Pairs(network[w][i], w, r)
        <5>1. PICK i \in 1..Len(network[w]) :
                network[w][i].ents # << >> /\ Pairs(network[w][i], w, r)
          BY <4>1
        <5>2. CASE i = 1
          BY <3>5, <5>1, <5>2 DEF Pairs
        <5>3. CASE i # 1
          <6>1. PICK k \in 1..Len(network'[w]) : network'[w][k] = network[w][i]
            BY <5>3
          <6>2. /\ network'[w][k].ents # << >>
                /\ recvReq'[w][r].job = network'[w][k].job
                /\ recvReq'[w][r].tag = network'[w][k].tag
            BY <5>1, <6>1 DEF Pairs
          <6> QED  BY <6>2 DEF Pairs
        <5> QED  BY <5>2, <5>3
      <4>2. CASE \E i \in 1..Len(queue[w]) : queue[w][i].ask /\ Pairs(queue[w][i], w, r)
        <5>1. PICK i \in 1..Len(queue[w]) : queue[w][i].ask /\ Pairs(queue[w][i], w, r)
          BY <4>2
        <5>2. i \in 1..Len(queue'[w]) /\ queue'[w][i] = queue[w][i]
          BY <3>3 DEF Queued
        <5> QED  BY <5>1, <5>2 DEF Pairs
      <4>3. CASE \E b \in acks : b.worker = w /\ Pairs(b, w, r)
        BY <4>3 DEF Pairs
      <4> QED  BY <4>1, <4>2, <4>3 DEF AckInvOf, UnderWay
    <3>11. InOrder(w)'
      <4>1. MessagesInOrder(w)'
        <5> SUFFICES ASSUME NEW i \in 1..Len(network'[w]), NEW k \in 1..Len(network'[w]), i < k,
                            network'[w][i].ents # << >>, network'[w][k].ents # << >>
                     PROVE  network'[w][i].job < network'[w][k].job
          BY DEF MessagesInOrder
        <5>1. PICK j \in 1..Len(network[w]) : j = i + 1 /\ network'[w][i] = network[w][j]
          OBVIOUS
        <5>2. PICK l \in 1..Len(network[w]) : l = k + 1 /\ network'[w][k] = network[w][l]
          OBVIOUS
        <5>3. j < l /\ network[w][j].ents # << >> /\ network[w][l].ents # << >>
          BY <5>1, <5>2
        <5>4. network[w][j].job < network[w][l].job
          BY <5>3 DEF AckInvOf, InOrder, MessagesInOrder
        <5> QED  BY <5>1, <5>2, <5>4
      <4>2. FilesInOrder(w)'
        <5> SUFFICES ASSUME NEW i \in 1..Len(queue'[w]), NEW k \in 1..Len(queue'[w]), i < k,
                            queue'[w][i].ask, queue'[w][k].ask
                     PROVE  queue'[w][i].job < queue'[w][k].job
          BY DEF FilesInOrder
        <5>1. i \in 1..Len(queue[w]) /\ queue'[w][i] = queue[w][i]
          <6>1. i # Len(queue[w]) + 1
            <7>1. k <= Len(queue[w]) + 1
              OBVIOUS
            <7> QED  BY <7>1
          <6> QED  BY <6>1
        <5>2. CASE k \in 1..Len(queue[w]) /\ queue'[w][k] = queue[w][k]
          BY <5>1, <5>2 DEF AckInvOf, InOrder, FilesInOrder
        <5>3. CASE queue'[w][k].job = m.job
          BY <5>1, <5>3 DEF AckInvOf, InOrder, FilesFirst
        <5> QED  BY <5>2, <5>3
      <4>3. FilesFirst(w)'
        <5> SUFFICES ASSUME NEW i \in 1..Len(queue'[w]), NEW k \in 1..Len(network'[w]),
                            queue'[w][i].ask, network'[w][k].ents # << >>
                     PROVE  queue'[w][i].job < network'[w][k].job
          BY DEF FilesFirst
        <5>1. PICK j \in 1..Len(network[w]) : 1 < j /\ network'[w][k] = network[w][j]
          OBVIOUS
        <5>2. CASE i \in 1..Len(queue[w]) /\ queue'[w][i] = queue[w][i]
          BY <5>1, <5>2 DEF AckInvOf, InOrder, FilesFirst
        <5>3. CASE queue'[w][i].job = m.job
          BY <5>1, <5>3 DEF AckInvOf, InOrder, MessagesInOrder
        <5> QED  BY <5>2, <5>3
      <4>4. AcksFirst(w)'
        <5>1. ASSUME NEW a \in acks, a.worker = w, NEW i \in 1..Len(queue'[w]), queue'[w][i].ask
              PROVE  a.job < queue'[w][i].job
          <6>1. CASE i \in 1..Len(queue[w]) /\ queue'[w][i] = queue[w][i]
            BY <5>1, <6>1 DEF AckInvOf, InOrder, AcksFirst
          <6>2. CASE queue'[w][i].job = m.job
            BY <5>1, <6>2 DEF AckInvOf, InOrder, AcksFirst
          <6> QED  BY <5>1, <6>1, <6>2
        <5>2. ASSUME NEW a \in acks, a.worker = w, NEW k \in 1..Len(network'[w]),
                     network'[w][k].ents # << >>
              PROVE  a.job < network'[w][k].job
          <6>1. PICK j \in 1..Len(network[w]) : network'[w][k] = network[w][j]
            OBVIOUS
          <6>2. a.job < network[w][j].job
            BY <5>2, <6>1 DEF AckInvOf, InOrder, AcksFirst
          <6> QED  BY <6>1, <6>2
        <5> QED  BY <5>1, <5>2 DEF AckInvOf, InOrder, AcksFirst
      <4> QED  BY <4>1, <4>2, <4>3, <4>4 DEF InOrder
    <3> QED  BY <3>8, <3>9, <3>10, <3>11 DEF AckInvOf
  <2> QED  BY <2>1, <2>2
<1>9. \A v \in Workers : v # w => AckInvOf(v)'
  BY <1>2, <1>6, AckFrame DEF AckInv
<1> QED  BY <1>8, <1>9 DEF AckInv

LEMMA CopyAcks ==
  ASSUME IInv, AckInv, NEW w \in Workers, Copy(w)
  PROVE  AckInv'
<1>1. /\ queue \in [Workers -> Seq(Filedesc)]
      /\ queue[w] \in Seq(Filedesc) /\ queue[w] # << >>
  BY DEF Copy, IInv, TypeOK, QueuesOK
<1>2. /\ queue'[w] = Tail(queue[w]) /\ \A v \in Workers : v # w => queue'[v] = queue[v]
      /\ UNCHANGED <<recvReq, network>>
  BY <1>1 DEF Copy, masterVars, postVars
<1>3. PICK file : file = Head(queue[w])
  OBVIOUS
<1>4. /\ \A i \in 1..Len(queue'[w]) : \E j \in 1..Len(queue[w]) :
           j = i + 1 /\ queue'[w][i] = queue[w][j]
      /\ \A j \in 1..Len(queue[w]) :
           j = 1 \/ \E i \in 1..Len(queue'[w]) : queue'[w][i] = queue[w][j]
      /\ 1 \in 1..Len(queue[w]) /\ file = queue[w][1]
  <2>1. Headless(queue[w], queue'[w])
    BY <1>1, <1>2, TailShift
  <2> QED  BY <1>3, <2>1 DEF Headless
<1>5. PICK ack : ack.worker = w /\ ack.job = file.job /\ ack.tag = file.tag
                 /\ acks' = IF file.ask THEN acks \cup {ack} ELSE acks
  <2>1. CASE file.ask
    BY <1>3, <2>1 DEF Copy, SendAck
  <2>2. CASE ~ file.ask
    <3>1. acks' = acks
      BY <1>3, <2>2 DEF Copy
    <3>2. PICK a : a = [worker |-> w, job |-> file.job, tag |-> file.tag]
      OBVIOUS
    <3> QED  BY <2>2, <3>1, <3>2
  <2> QED  BY <2>1, <2>2
<1>6. AckInvOf(w)
  BY DEF AckInv
<1>7. AckInvOf(w)'
  <2> USE <1>2, <1>4, <1>5, <1>6
  <2>1. \A x : Expects(w, x) => Expects(w, x)'
    BY DEF Expects, Pairs
  <2>2. OneSlot(w)'
    BY DEF AckInvOf, OneSlot
  <2>3. Expected(w)'
    <3>1. \A i \in 1..Len(network[w]) : network[w][i].ents # << >> => Expects(w, network[w][i])'
      BY <2>1 DEF AckInvOf, Expected
    <3>2. \A i \in 1..Len(queue'[w]) : queue'[w][i].ask => Expects(w, queue[w][i])'
      <4> SUFFICES ASSUME NEW i \in 1..Len(queue'[w]), queue'[w][i].ask
                   PROVE  Expects(w, queue[w][i])'
        OBVIOUS
      <4>1. PICK j \in 1..Len(queue[w]) : queue'[w][i] = queue[w][j]
        OBVIOUS
      <4>2. Expects(w, queue[w][j])
        BY <4>1 DEF AckInvOf, Expected
      <4>3. PICK r \in Slots : recvReq[w][r].job = queue[w][j].job
                             /\ recvReq[w][r].tag = queue[w][j].tag
        BY <4>2 DEF Expects, Pairs
      <4>4. recvReq'[w][r].job = queue'[w][i].job /\ recvReq'[w][r].tag = queue'[w][i].tag
        BY <4>1, <4>3
      <4> QED  BY <4>4 DEF Expects, Pairs
    <3>3. \A a \in acks' : a.worker = w => Expects(w, a)'
      <4>1. ASSUME file.ask PROVE Expects(w, ack)'
        <5>1. Expects(w, file)
          BY <4>1 DEF AckInvOf, Expected
        <5> QED  BY <5>1 DEF Expects, Pairs
      <4>2. \A a \in acks : a.worker = w => Expects(w, a)'
        BY <2>1 DEF AckInvOf, Expected
      <4> QED  BY <4>1, <4>2
    <3> QED  BY <3>1, <3>2, <3>3 DEF Expected, Expects, Pairs
  <2>4. UnderWay(w)'
    <3> SUFFICES ASSUME NEW r \in Slots, recvReq[w][r].job # 0
                 PROVE  \/ \E i \in 1..Len(network[w]) :
                             network[w][i].ents # << >> /\ Pairs(network[w][i], w, r)'
                        \/ \E i \in 1..Len(queue'[w]) :
                             queue'[w][i].ask /\ Pairs(queue[w][i], w, r)'
                        \/ \E b \in acks' : b.worker = w /\ Pairs(b, w, r)'
      BY DEF UnderWay, Pairs
    <3>1. CASE \E i \in 1..Len(network[w]) :
                 network[w][i].ents # << >> /\ Pairs(network[w][i], w, r)
      BY <3>1 DEF Pairs
    <3>2. CASE \E i \in 1..Len(queue[w]) : queue[w][i].ask /\ Pairs(queue[w][i], w, r)
      <4>1. PICK i \in 1..Len(queue[w]) : queue[w][i].ask /\ Pairs(queue[w][i], w, r)
        BY <3>2
      <4>2. CASE i = 1
        <5>1. file.ask /\ ack \in acks'
          BY <4>1, <4>2
        <5> QED  BY <4>1, <4>2, <5>1 DEF Pairs
      <4>3. CASE i # 1
        <5>1. PICK k \in 1..Len(queue'[w]) : queue'[w][k] = queue[w][i]
          BY <4>3
        <5>2. /\ queue'[w][k].ask
              /\ recvReq'[w][r].job = queue'[w][k].job /\ recvReq'[w][r].tag = queue'[w][k].tag
          BY <4>1, <5>1 DEF Pairs
        <5> QED  BY <5>2 DEF Pairs
      <4> QED  BY <4>2, <4>3
    <3>3. CASE \E b \in acks : b.worker = w /\ Pairs(b, w, r)
      <4>1. acks \subseteq acks'
        OBVIOUS
      <4> QED  BY <3>3, <4>1 DEF Pairs
    <3> QED  BY <3>1, <3>2, <3>3 DEF AckInvOf, UnderWay
  <2>5. MessagesInOrder(w)'
    BY DEF AckInvOf, InOrder, MessagesInOrder
  <2>6. FilesInOrder(w)'
    <3> SUFFICES ASSUME NEW i \in 1..Len(queue'[w]), NEW k \in 1..Len(queue'[w]), i < k,
                        queue'[w][i].ask, queue'[w][k].ask
                 PROVE  queue'[w][i].job < queue'[w][k].job
      BY DEF FilesInOrder
    <3>1. PICK j \in 1..Len(queue[w]), l \in 1..Len(queue[w]) :
            j < l /\ queue'[w][i] = queue[w][j] /\ queue'[w][k] = queue[w][l]
      <4>1. PICK j \in 1..Len(queue[w]) : j = i + 1 /\ queue'[w][i] = queue[w][j]
        OBVIOUS
      <4>2. PICK l \in 1..Len(queue[w]) : l = k + 1 /\ queue'[w][k] = queue[w][l]
        OBVIOUS
      <4>3. j < l
        BY <4>1, <4>2
      <4> QED  BY <4>1, <4>2, <4>3
    <3>2. queue[w][j].job < queue[w][l].job
      BY <3>1 DEF AckInvOf, InOrder, FilesInOrder
    <3> QED  BY <3>1, <3>2
  <2>7. FilesFirst(w)'
    <3> SUFFICES ASSUME NEW i \in 1..Len(queue'[w]), NEW k \in 1..Len(network[w]),
                        queue'[w][i].ask, network[w][k].ents # << >>
                 PROVE  queue'[w][i].job < network[w][k].job
      BY DEF FilesFirst
    <3>1. PICK j \in 1..Len(queue[w]) : queue'[w][i] = queue[w][j]
      OBVIOUS
    <3>2. queue[w][j].job < network[w][k].job
      BY <3>1 DEF AckInvOf, InOrder, FilesFirst
    <3> QED  BY <3>1, <3>2
  <2>8. AcksFirst(w)'
    <3>1. ASSUME NEW a \in acks', a.worker = w, NEW i \in 1..Len(queue'[w]), queue'[w][i].ask
          PROVE  a.job < queue'[w][i].job
      <4>1. PICK j \in 1..Len(queue[w]) : 1 < j /\ queue'[w][i] = queue[w][j]
        OBVIOUS
      <4>2. CASE a \in acks
        <5>1. a.job < queue[w][j].job
          BY <3>1, <4>1, <4>2 DEF AckInvOf, InOrder, AcksFirst
        <5> QED  BY <4>1, <5>1
      <4>3. CASE a \notin acks
        <5>1. file.ask /\ a.job = queue[w][1].job
          BY <4>3
        <5>2. queue[w][1].job < queue[w][j].job
          BY <3>1, <4>1, <5>1 DEF AckInvOf, InOrder, FilesInOrder
        <5> QED  BY <4>1, <5>1, <5>2
      <4> QED  BY <4>2, <4>3
    <3>2. ASSUME NEW a \in acks', a.worker = w, NEW k \in 1..Len(network[w]),
                 network[w][k].ents # << >>
          PROVE  a.job < network[w][k].job
      <4>1. CASE a \in acks
        BY <3>2, <4>1 DEF AckInvOf, InOrder, AcksFirst
      <4>2. CASE a \notin acks
        <5>1. file.ask /\ a.job = queue[w][1].job
          BY <4>2
        <5> QED  BY <3>2, <5>1 DEF AckInvOf, InOrder, FilesFirst
      <4> QED  BY <4>1, <4>2
    <3>3. ASSUME NEW a \in acks', NEW b \in acks', a.worker = w, b.worker = w, b.job = a.job
          PROVE  b = a
      <4>1. ASSUME NEW c \in acks, c.worker = w, file.ask PROVE c.job # file.job
        <5>1. c.job < queue[w][1].job
          BY <4>1 DEF AckInvOf, InOrder, AcksFirst
        <5> QED  BY <5>1, JobNumbers
      <4>2. CASE a \in acks /\ b \in acks
        BY <3>3, <4>2 DEF AckInvOf, InOrder, AcksFirst
      <4> QED  BY <3>3, <4>1, <4>2
    <3> QED  BY <3>1, <3>2, <3>3 DEF AcksFirst
  <2> QED  BY <2>2, <2>3, <2>4, <2>5, <2>6, <2>7, <2>8 DEF AckInvOf, InOrder
<1>8. \A v \in Workers : v # w => AckInvOf(v)'
  BY <1>2, <1>5, AckFrame DEF AckInv
<1> QED  BY <1>7, <1>8 DEF AckInv
-----------------------------------------------------------------------------
LEMMA AckNext == ASSUME IInv, AckInv, [Next]_vars PROVE AckInv'
<1>1. CASE UNCHANGED vars
  BY <1>1, QuietAcks DEF vars, masterVars, postVars, workerVars
<1>2. CASE Master
  <2>1. CASE \/ Create \/ OpenIndex \/ TestSends \/ EndCollect \/ SkipWorker \/ AddEntry
             \/ WaitSends \/ TerminateSent \/ CloseIndex \/ StoreIndex \/ EndArchive
    BY <2>1, QuietAcks DEF Create, OpenIndex, TestSends, EndCollect, SkipWorker, AddEntry,
                           WaitSends, TerminateSent, CloseIndex, StoreIndex, EndArchive,
                           masterVars, postVars, workerVars
  <2> QED  BY <1>2, <2>1, CollectAckAcks, StartJobAcks, EndJobAcks, WaitRecvsAcks,
              SendTerminateAcks DEF Master
<1>3. CASE \E w \in Workers : Worker(w)
  <2>1. PICK w \in Workers : Worker(w)
    BY <1>3
  <2>2. CASE Reopen(w) \/ NoMessage(w) \/ NothingToCopy(w) \/ Flush(w)
    BY <2>2, QuietAcks DEF Reopen, NoMessage, NothingToCopy, Flush, masterVars, postVars,
                           workerVars
  <2> QED  BY <2>1, <2>2, ReceiveAcks, CopyAcks DEF Worker
<1>4. CASE \E b \in Barriers : Barrier(b)
  BY <1>4, QuietAcks DEF Barrier, masterVars, postVars, workerVars
<1>5. CASE \E r \in Ranks : Exit(r)
  BY <1>5, QuietAcks DEF Exit, masterVars, postVars, workerVars
<1> QED  BY <1>1, <1>2, <1>3, <1>4, <1>5 DEF Next

LEMMA AckInvHolds == Spec => [](IInv /\ AckInv)
<1>1. Init => AckInv
  BY DEF Init, AckInv, AckInvOf, OneSlot, Expected, UnderWay, InOrder, MessagesInOrder,
         FilesInOrder, FilesFirst, AcksFirst, NoRequest
<1>2. NoAbortInv => IInv
  BY DEF NoAbortInv
<1>3. IInv /\ AckInv /\ [Next]_vars => AckInv'
  BY AckNext
<1> QED  BY <1>1, <1>2, <1>3, InvariantHolds, PTL DEF Spec

\* Whatever the interleaving of jobs and acks, each ack under way finds its
\* receive, and none is left when the final MPI_Waitall has returned
\* (mpitar.cpp:278): mpitar does not end with an ack unread.
THEOREM AcksAwaited == Spec => []EveryAckAwaited
<1>1. IInv /\ AckInv => EveryAckAwaited
  <2> SUFFICES ASSUME IInv, AckInv, NEW a \in acks
               PROVE  Cardinality({r \in Slots : recvReq[a.worker][r].job = a.job}) = 1
    BY DEF EveryAckAwaited
  <2>1. a.worker \in Workers /\ a.job \in Nat \ {0}
    BY DEF IInv, TypeOK, MessagesOK, Ack, Numbered
  <2>2. PICK r \in Slots : recvReq[a.worker][r].job = a.job
    BY <2>1 DEF AckInv, AckInvOf, Expected, Expects, Pairs
  <2>3. {s \in Slots : recvReq[a.worker][s].job = a.job} = {r}
    BY <2>1, <2>2 DEF AckInv, AckInvOf, OneSlot
  <2> QED  BY <2>3, FS_Singleton
<1> QED  BY <1>1, AckInvHolds, PTL

\* MPI pairs acks and receives by worker and tag, in order; that is always the
\* pairing by job, so that every ack is counted for the job it answers
\* (mpitar.cpp:210-218 and 261).
THEOREM TagsPair == Spec => []TagsPairAcks
<1>1. IInv /\ AckInv => TagsPairAcks
  <2> SUFFICES ASSUME IInv, AckInv, NEW a \in acks,
                      \A b \in acks : ~ (b.worker = a.worker /\ b.tag = a.tag /\ b.job < a.job)
               PROVE  /\ \E s \in Posted(a.worker) : recvReq[a.worker][s].tag = a.tag
                                                     /\ recvReq[a.worker][s].job = a.job
                      /\ \A s \in Posted(a.worker) :
                           recvReq[a.worker][s].tag = a.tag => a.job <= recvReq[a.worker][s].job
    BY DEF TagsPairAcks
  <2>1. a.worker \in Workers /\ a.job \in Nat \ {0}
    BY DEF IInv, TypeOK, MessagesOK, Ack, Numbered
  <2>2. PICK w \in Workers : w = a.worker
    BY <2>1
  <2>3. AckInvOf(w)
    BY DEF AckInv
  <2>4. \E s \in Posted(w) : recvReq[w][s].tag = a.tag /\ recvReq[w][s].job = a.job
    <3>1. PICK s \in Slots : Pairs(a, w, s)
      BY <2>2, <2>3 DEF AckInvOf, Expected, Expects
    <3> QED  BY <2>1, <3>1 DEF Pairs, Posted, NoRequest
  <2>5. ASSUME NEW s \in Posted(w), recvReq[w][s].tag = a.tag
        PROVE  a.job <= recvReq[w][s].job
    <3>1. s \in Slots /\ recvReq[w][s] # NoRequest /\ recvReq[w][s] \in Request
      BY JobNumbers DEF Posted
    <3>2. recvReq[w][s].job # 0
      BY <2>3, <3>1 DEF AckInvOf, OneSlot
    <3>3. CASE \E i \in 1..Len(network[w]) :
                 network[w][i].ents # << >> /\ Pairs(network[w][i], w, s)
      BY <2>2, <2>3, <3>3, JobNumbers DEF AckInvOf, InOrder, AcksFirst, Pairs
    <3>4. CASE \E i \in 1..Len(queue[w]) : queue[w][i].ask /\ Pairs(queue[w][i], w, s)
      BY <2>2, <2>3, <3>4, JobNumbers DEF AckInvOf, InOrder, AcksFirst, Pairs
    <3>5. CASE \E b \in acks : b.worker = w /\ Pairs(b, w, s)
      BY <2>1, <2>2, <2>5, <3>5, JobNumbers DEF Pairs
    <3> QED  BY <2>3, <3>1, <3>2, <3>3, <3>4, <3>5 DEF AckInvOf, UnderWay
  <2> QED  BY <2>2, <2>4, <2>5
<1> QED  BY <1>1, AckInvHolds, PTL
-----------------------------------------------------------------------------
(* The buffer of a job that has not been received. *)

LEMMA FrameSends ==
  ASSUME SendBufferStable, UNCHANGED <<network, sendReq>>
  PROVE  SendBufferStable'
BY DEF SendBufferStable

LEMMA SendsFacts ==
  ASSUME IInv
  PROVE  /\ network \in [Workers -> Seq(Message)] /\ sendReq \in [Workers -> [Slots -> Nat]]
         /\ \A w \in Workers : DOMAIN network[w] = 1..Len(network[w]) /\ Len(network[w]) \in Nat
         /\ \A w \in Workers : \A i \in 1..Len(network[w]) :
              /\ network[w][i] \in Message /\ network[w][i].tag \in Slots
              /\ network[w][i].ents # << >> => network[w][i].job # 0
<1>1. network \in [Workers -> Seq(Message)] /\ sendReq \in [Workers -> [Slots -> Nat]]
  BY DEF IInv, TypeOK, MessagesOK, RequestsOK
<1>2. \A w \in Workers : \A i \in 1..Len(network[w]) : network[w][i] \in Message
  BY JobNumbers
<1>3. \A m \in Message : m.tag \in Slots
  BY DEF Message
<1>4. \A w \in Workers : \A i \in 1..Len(network[w]) :
        network[w][i].ents # << >> => network[w][i].job # 0
  BY DEF IInv, Numbered
<1> QED  BY <1>1, <1>2, <1>3, <1>4

\* Without copies, the send of a job in transit is neither free nor testable.
LEMMA InUse ==
  ASSUME IInv, SendBufferStable, ~ Eager, NEW w \in Workers, NEW i \in 1..Len(network[w]),
         network[w][i].ents # << >>
  PROVE  /\ sendReq[w][network[w][i].tag] = network[w][i].job
         /\ network[w][i].tag \in ActiveSends(w)
         /\ network[w][i].tag \notin TestableSends(w)
<1>1. /\ DOMAIN network[w] = 1..Len(network[w])
      /\ network[w][i].tag \in Slots /\ network[w][i].job # 0
  BY SendsFacts
<1>2. sendReq[w][network[w][i].tag] = network[w][i].job
  BY <1>1 DEF SendBufferStable
<1>3. InTransit(w, network[w][i].job)
  BY <1>1 DEF InTransit
<1> QED  BY <1>1, <1>2, <1>3 DEF ActiveSends, TestableSends, ReceivedSends

LEMMA TestSendsBuffers ==
  ASSUME IInv, SendBufferStable, TestSends PROVE SendBufferStable'
<1> SUFFICES ASSUME ~ Eager, NEW w \in Workers, NEW i \in 1..Len(network[w]),
                    network[w][i].ents # << >>
             PROVE  sendReq'[w][network[w][i].tag] = network[w][i].job
  <2>1. UNCHANGED network
    BY DEF TestSends
  <2> QED  BY <2>1, SendsFacts DEF SendBufferStable
<1>1. CASE UNCHANGED sendReq
  BY <1>1, InUse
<1>2. CASE \E v \in Workers : \E s \in TestableSends(v) :
             sendReq' = [sendReq EXCEPT ![v][s] = 0]
  <2>1. PICK v \in Workers, s \in Slots :
          s \in TestableSends(v) /\ sendReq' = [sendReq EXCEPT ![v][s] = 0]
    BY <1>2 DEF TestableSends, ActiveSends, ReceivedSends
  <2>2. w = v => s # network[w][i].tag
    BY <2>1, InUse
  <2> QED  BY <2>1, <2>2, InUse, SendsFacts
<1> QED  BY <1>1, <1>2 DEF TestSends

LEMMA StartJobBuffers ==
  ASSUME IInv, SendBufferStable, StartJob PROVE SendBufferStable'
<1> SUFFICES ASSUME ~ Eager, NEW w \in Workers, NEW i \in 1..Len(network[w]),
                    network[w][i].ents # << >>
             PROVE  sendReq'[w][network[w][i].tag] = network[w][i].job
  <2>1. UNCHANGED network
    BY DEF StartJob
  <2> QED  BY <2>1, SendsFacts DEF SendBufferStable
<1> DEFINE free == FindUnused(Slots \ ActiveSends(current), ReceivedSends(current),
                              TestableSends(current))
<1> HIDE DEF free
<1>1. PICK s \in free : \E r :
        IF r # 0 /\ s # 0 THEN sendReq' = [sendReq EXCEPT ![current][s] = 0]
                         ELSE UNCHANGED sendReq
  BY DEF StartJob, free
<1>2. CASE UNCHANGED sendReq
  BY <1>2, InUse
<1>3. CASE sendReq' = [sendReq EXCEPT ![current][s] = 0] /\ s # 0
  <2>1. s \in Slots \ ActiveSends(current) \/ s \in TestableSends(current)
    BY <1>3 DEF FindUnused, free
  <2>2. w = current => s # network[w][i].tag
    BY <2>1, InUse
  <2>3. s \in Slots /\ current \in Workers
    BY <2>1 DEF TestableSends, ActiveSends, ReceivedSends, IInv, TypeOK, ControlOK
  <2> QED  BY <1>3, <2>2, <2>3, InUse, SendsFacts
<1> QED  BY <1>1, <1>2, <1>3

LEMMA EndJobBuffers ==
  ASSUME IInv, SendBufferStable, EndJob PROVE SendBufferStable'
<1>1. PICK w \in Workers, s \in Slots : w = current /\ s = sendId /\ sendReq[w][s] = 0
  BY DEF IInv, TypeOK, ControlOK, EndJob, Building
<1>2. CASE buffer = << >>
  BY <1>2, FrameSends DEF EndJob, postVars
<1>3. CASE buffer # << >>
  <2>1. PICK m : m = [job |-> jobs + 1, tag |-> sendId, ents |-> buffer]
    OBVIOUS
  <2>2. /\ network' = [network EXCEPT ![w] = Append(@, m)]
        /\ sendReq' = [sendReq EXCEPT ![w][s] = jobs + 1]
        /\ m.job = jobs + 1 /\ m.tag = s
    BY <1>1, <1>3, <2>1 DEF EndJob, Post
  <2>3. /\ Len(network'[w]) = Len(network[w]) + 1 /\ network'[w][Len(network[w]) + 1] = m
        /\ \A i \in 1..Len(network[w]) : network'[w][i] = network[w][i]
        /\ \A v \in Workers : v # w => network'[v] = network[v]
    BY <2>2, SendsFacts
  <2>4. /\ sendReq'[w][s] = jobs + 1
        /\ \A v \in Workers, t \in Slots : v # w \/ t # s => sendReq'[v][t] = sendReq[v][t]
    BY <1>1, <2>2, SendsFacts
  <2> SUFFICES ASSUME ~ Eager, NEW v \in Workers, NEW i \in DOMAIN network'[v],
                      network'[v][i].ents # << >>
               PROVE  sendReq'[v][network'[v][i].tag] = network'[v][i].job
    BY DEF SendBufferStable
  <2>5. CASE i \in 1..Len(network[v]) /\ network'[v][i] = network[v][i]
    <3>1. /\ network[v][i].tag \in Slots /\ network[v][i].job # 0
          /\ sendReq[v][network[v][i].tag] = network[v][i].job
      BY <2>5, InUse, SendsFacts
    <3>2. v # w \/ network[v][i].tag # s
      BY <1>1, <3>1
    <3> QED  BY <2>4, <2>5, <3>1, <3>2
  <2>6. CASE v = w /\ network'[v][i] = m
    BY <2>2, <2>4, <2>6
  <2>7. CASE v # w
    BY <2>3, <2>5, <2>7, SendsFacts
  <2>8. CASE v = w
    <3>1. network'[w] = Append(network[w], m) /\ network[w] \in Seq(Message)
      BY <2>2, SendsFacts
    <3>2. i \in 1..(Len(network[w]) + 1) /\ Len(network[w]) \in Nat
      BY <2>8, <3>1, SendsFacts
    <3> QED  BY <2>3, <2>5, <2>6, <2>8, <3>2
  <2> QED  BY <2>7, <2>8
<1> QED  BY <1>2, <1>3

\* Every send has been received, so no job is in the network.
LEMMA WaitSendsBuffers ==
  ASSUME IInv, SendBufferStable, WaitSends PROVE SendBufferStable'
<1>1. UNCHANGED network /\ \A w \in Workers : TestableSends(w) = ActiveSends(w)
  BY DEF WaitSends
<1>2. ~ Eager => \A w \in Workers : \A i \in 1..Len(network[w]) : network[w][i].ents = << >>
  BY <1>1, InUse
<1> QED  BY <1>1, <1>2, SendsFacts DEF SendBufferStable

LEMMA SendTerminateBuffers ==
  ASSUME IInv, SendBufferStable, SendTerminate PROVE SendBufferStable'
<1>1. /\ UNCHANGED sendReq /\ network' = [network EXCEPT ![current] = Append(@, Terminate)]
      /\ current \in Workers
  BY DEF SendTerminate, masterVars, postVars, IInv, TypeOK, ControlOK
<1>2. \A v \in Workers : \A i \in DOMAIN network'[v] :
        \/ i \in DOMAIN network[v] /\ network'[v][i] = network[v][i]
        \/ network'[v][i].ents = << >>
  <2> SUFFICES ASSUME NEW v \in Workers, NEW i \in DOMAIN network'[v]
               PROVE  \/ i \in DOMAIN network[v] /\ network'[v][i] = network[v][i]
                      \/ network'[v][i].ents = << >>
    OBVIOUS
  <2>1. CASE v # current
    BY <1>1, <2>1, SendsFacts
  <2>2. CASE v = current
    <3>1. network'[v] = Append(network[v], Terminate) /\ network[v] \in Seq(Message)
      BY <1>1, <2>2, SendsFacts
    <3>2. i \in 1..(Len(network[v]) + 1) /\ Len(network[v]) \in Nat
      BY <3>1, SendsFacts
    <3>3. CASE i \in 1..Len(network[v])
      BY <3>1, <3>3, SendsFacts
    <3>4. CASE i = Len(network[v]) + 1
      BY <3>1, <3>4 DEF Terminate
    <3> QED  BY <3>2, <3>3, <3>4
  <2> QED  BY <2>1, <2>2
<1> QED  BY <1>1, <1>2 DEF SendBufferStable

LEMMA ReceiveBuffers ==
  ASSUME IInv, SendBufferStable, NEW w \in Workers, Receive(w) PROVE SendBufferStable'
<1>1. /\ UNCHANGED sendReq /\ network' = [network EXCEPT ![w] = Tail(network[w])]
      /\ network[w] # << >> /\ network[w] \in Seq(Message)
  BY SendsFacts DEF Receive, masterVars, postVars
<1>2. \A v \in Workers : \A i \in DOMAIN network'[v] : \E j \in DOMAIN network[v] :
        network'[v][i] = network[v][j]
  <2> SUFFICES ASSUME NEW v \in Workers, NEW i \in DOMAIN network'[v]
               PROVE  \E j \in DOMAIN network[v] : network'[v][i] = network[v][j]
    OBVIOUS
  <2>1. CASE v # w
    BY <1>1, <2>1, SendsFacts
  <2>2. CASE v = w
    <3>1. network'[v] = Tail(network[v]) /\ Headless(network[v], network'[v])
      BY <1>1, <2>2, SendsFacts, TailShift
    <3>2. DOMAIN network'[v] = 1..Len(network'[v])
      BY <1>1, <2>2, <3>1
    <3> QED  BY <3>1, <3>2, SendsFacts DEF Headless
  <2> QED  BY <2>1, <2>2
<1> QED  BY <1>1, <1>2 DEF SendBufferStable

LEMMA SendsNext == ASSUME IInv, SendBufferStable, [Next]_vars PROVE SendBufferStable'
<1>1. CASE UNCHANGED vars
  BY <1>1, FrameSends DEF vars, masterVars, postVars
<1>2. CASE Master
  <2>1. CASE \/ Create \/ OpenIndex \/ (\E a \in acks : CollectAck(a)) \/ EndCollect
             \/ SkipWorker \/ AddEntry \/ WaitRecvs \/ TerminateSent
             \/ CloseIndex \/ StoreIndex \/ EndArchive
    BY <2>1, FrameSends DEF Create, OpenIndex, CollectAck, EndCollect, SkipWorker, AddEntry,
                            WaitRecvs, TerminateSent, CloseIndex, StoreIndex, EndArchive,
                            masterVars, postVars
  <2> QED  BY <1>2, <2>1, TestSendsBuffers, StartJobBuffers, EndJobBuffers, WaitSendsBuffers,
              SendTerminateBuffers DEF Master
<1>3. CASE \E w \in Workers : Worker(w)
  <2>1. PICK w \in Workers : Worker(w)
    BY <1>3
  <2>2. CASE ~ Receive(w)
    BY <2>1, <2>2, FrameSends DEF Worker, Reopen, NoMessage, Copy, NothingToCopy, Flush,
                                  masterVars, postVars
  <2> QED  BY <2>1, <2>2, ReceiveBuffers
<1>4. CASE (\E b \in Barriers : Barrier(b)) \/ \E r \in Ranks : Exit(r)
  BY <1>4, FrameSends DEF Barrier, Exit, masterVars, postVars
<1> QED  BY <1>1, <1>2, <1>3, <1>4 DEF Next

\* When MPI does not copy what it is given, the buffer of a job stays as it was
\* sent until the worker has the job: no slot is taken for another job, and
\* none is cleared, before its send has completed (mpitar.cpp:222-236).
THEOREM BuffersStable == Spec => []SendBufferStable
<1>1. Init => SendBufferStable
  BY DEF Init, SendBufferStable
<1>2. NoAbortInv => IInv
  BY DEF NoAbortInv
<1>3. IInv /\ SendBufferStable /\ [Next]_vars => SendBufferStable'
  BY SendsNext
<1> QED  BY <1>1, <1>2, <1>3, InvariantHolds, PTL DEF Spec
-----------------------------------------------------------------------------
(* How far a worker can be behind. *)

\* The files of a worker's queue are in the order of their jobs, before all the
\* jobs in the network, and only the first job of the queue can be acked.
FilesSorted(w) ==
  \A i \in 1..Len(queue[w]), k \in 1..Len(queue[w]) :
    i < k => queue[w][i].job <= queue[w][k].job
NetworkLater(w) ==
  \A i \in 1..Len(queue[w]), k \in 1..Len(network[w]) :
    network[w][k].ents # << >> => queue[w][i].job < network[w][k].job
RestUnacked(w) ==
  \A k \in 1..Len(queue[w]) :
    \/ queue[w][k].job = queue[w][1].job
    \/ \E i \in 1..Len(queue[w]) : queue[w][i].ask /\ queue[w][i].job = queue[w][k].job

BacklogOf(w) == FilesSorted(w) /\ NetworkLater(w) /\ RestUnacked(w)
BacklogInv   == \A w \in Workers : BacklogOf(w)

LEMMA BacklogFrame ==
  ASSUME NEW w \in Workers, BacklogOf(w), network'[w] = network[w], queue'[w] = queue[w]
  PROVE  BacklogOf(w)'
<1>1. FilesSorted(w)'
  BY DEF BacklogOf, FilesSorted
<1>2. NetworkLater(w)'
  BY DEF BacklogOf, NetworkLater
<1>3. RestUnacked(w)'
  BY DEF BacklogOf, RestUnacked
<1> QED  BY <1>1, <1>2, <1>3 DEF BacklogOf

\* A job posted is later than any before; the empty file name is no job.
LEMMA SendBacklog ==
  ASSUME IInv, BacklogInv, NEW v \in Workers, NEW m, m.ents = << >> \/ m.job = jobs + 1,
         network' = [network EXCEPT ![v] = Append(@, m)], UNCHANGED queue
  PROVE  BacklogInv'
<1>1. network \in [Workers -> Seq(Message)]
  BY DEF IInv, TypeOK, MessagesOK
<1>2. \A w \in Workers : w # v => BacklogOf(w)'
  BY <1>1, BacklogFrame DEF BacklogInv
<1>3. BacklogOf(v)'
  <2>1. BacklogOf(v)
    BY DEF BacklogInv
  <2>2. FilesSorted(v)' /\ RestUnacked(v)'
    BY <2>1 DEF BacklogOf, FilesSorted, RestUnacked
  <2>3. NetworkLater(v)'
    <3> SUFFICES ASSUME NEW i \in 1..Len(queue[v]), NEW k \in 1..Len(network'[v]),
                        network'[v][k].ents # << >>
                 PROVE  queue[v][i].job < network'[v][k].job
      BY DEF NetworkLater
    <3>1. /\ network'[v] = Append(network[v], m) /\ network[v] \in Seq(Message)
          /\ Len(network[v]) \in Nat
      BY <1>1
    <3>2. CASE k \in 1..Len(network[v])
      <4>1. network'[v][k] = network[v][k]
        BY <3>1, <3>2
      <4> QED  BY <2>1, <3>2, <4>1 DEF BacklogOf, NetworkLater
    <3>3. CASE k = Len(network[v]) + 1
      <4>1. network'[v][k] = m
        BY <3>1, <3>3
      <4> QED  BY <4>1, JobNumbers
    <3> QED  BY <3>1, <3>2, <3>3
  <2> QED  BY <2>2, <2>3 DEF BacklogOf
<1> QED  BY <1>2, <1>3 DEF BacklogInv

\* The files of message m come after those of q, and some file of m asks.
Extended(q, m, q2) ==
  /\ \A i \in 1..Len(q) : i \in 1..Len(q2) /\ q2[i] = q[i]
  /\ \A i \in 1..Len(q2) :
       \/ i \in 1..Len(q) /\ q2[i] = q[i]
       \/ i > Len(q) /\ q2[i].job = m.job
  /\ \E i \in 1..Len(q2) : q2[i].ask /\ q2[i].job = m.job

LEMMA QueueExtended ==
  ASSUME NEW m \in Message, m.ents # << >>, NEW q \in Seq(Filedesc), NEW q2,
         q2 = q \o Filedescs(m)
  PROVE  Extended(q, m, q2)
<1>1. PICK f : f = Filedescs(m)
  OBVIOUS
<1>2. /\ f \in Seq(Filedesc) /\ Len(f) \in Nat /\ Len(q) \in Nat
      /\ \A i \in 1..Len(f) : f[i].job = m.job
  BY <1>1, FiledescsType
<1>3. /\ Len(q2) = Len(q) + Len(f)
      /\ \A i \in 1..Len(q) + Len(f) : q2[i] = IF i <= Len(q) THEN q[i] ELSE f[i - Len(q)]
  BY <1>1, <1>2, ConcatProperties
<1>4. ASSUME NEW i \in 1..Len(q2)
      PROVE  \/ i \in 1..Len(q) /\ q2[i] = q[i]
             \/ i > Len(q) /\ q2[i].job = m.job
  <2>1. CASE i <= Len(q)
    <3>1. i \in 1..Len(q)
      BY <1>2, <1>3, <2>1
    <3>2. q2[i] = q[i]
      BY <1>2, <1>3, <3>1
    <3> QED  BY <3>1, <3>2
  <2>2. CASE i > Len(q)
    <3>1. i - Len(q) \in 1..Len(f) /\ q2[i] = f[i - Len(q)]
      BY <1>2, <1>3, <1>4, <2>2
    <3> QED  BY <1>2, <2>2, <3>1
  <2> QED  BY <1>2, <1>4, <2>1, <2>2
<1>5. \E i \in 1..Len(q2) : q2[i].ask /\ q2[i].job = m.job
  <2>1. Queued(q, m, q2)
    BY FirstAsks
  <2> QED  BY <2>1 DEF Queued
<1>6. \A i \in 1..Len(q) : i \in 1..Len(q2) /\ q2[i] = q[i]
  BY <1>2, <1>3
<1> QED  BY <1>4, <1>5, <1>6 DEF Extended

LEMMA ReceiveBacklog ==
  ASSUME IInv, AckInv, BacklogInv, NEW w \in Workers, Receive(w)
  PROVE  BacklogInv'
<1>1. /\ network \in [Workers -> Seq(Message)] /\ queue \in [Workers -> Seq(Filedesc)]
      /\ network[w] \in Seq(Message) /\ network[w] # << >>
  BY DEF Receive, IInv, TypeOK, MessagesOK, QueuesOK
<1>2. /\ network'[w] = Tail(network[w])
      /\ \A v \in Workers : v # w => network'[v] = network[v] /\ queue'[v] = queue[v]
  BY <1>1 DEF Receive, TakeMessage
<1>3. PICK m : m = Head(network[w])
  OBVIOUS
<1>4. /\ \A i \in 1..Len(network'[w]) : \E j \in 1..Len(network[w]) :
           j > 1 /\ network'[w][i] = network[w][j]
      /\ 1 \in 1..Len(network[w]) /\ m = network[w][1] /\ m \in Message
  <2>1. Headless(network[w], network'[w])
    BY <1>1, <1>2, TailShift
  <2>2. \A i \in 1..Len(network'[w]) : \E j \in 1..Len(network[w]) :
          j = i + 1 /\ network'[w][i] = network[w][j]
    BY <2>1 DEF Headless
  <2>3. 1 \in 1..Len(network[w]) /\ m = network[w][1] /\ m \in Message
    BY <1>1, <1>3, <2>1 DEF Headless
  <2>4. ASSUME NEW i \in 1..Len(network'[w])
        PROVE  \E j \in 1..Len(network[w]) : j > 1 /\ network'[w][i] = network[w][j]
    <3>1. PICK j \in 1..Len(network[w]) : j = i + 1 /\ network'[w][i] = network[w][j]
      BY <2>2
    <3>2. j > 1
      BY <3>1
    <3> QED  BY <3>1, <3>2
  <2> QED  BY <2>3, <2>4
<1>5. BacklogOf(w) /\ AckInvOf(w)
  BY DEF BacklogInv, AckInv
<1>6. BacklogOf(w)'
  <2>1. CASE m.ents = << >>
    <3>1. queue'[w] = queue[w]
      BY <1>3, <2>1 DEF Receive, TakeMessage
    <3>2. FilesSorted(w)' /\ RestUnacked(w)'
      BY <1>5, <3>1 DEF BacklogOf, FilesSorted, RestUnacked
    <3>3. NetworkLater(w)'
      <4> SUFFICES ASSUME NEW i \in 1..Len(queue[w]), NEW k \in 1..Len(network'[w]),
                          network'[w][k].ents # << >>
                   PROVE  queue[w][i].job < network'[w][k].job
        BY <3>1 DEF NetworkLater
      <4>1. PICK j \in 1..Len(network[w]) : network'[w][k] = network[w][j]
        BY <1>4
      <4>2. queue[w][i].job < network[w][j].job
        BY <1>5, <4>1 DEF BacklogOf, NetworkLater
      <4> QED  BY <4>1, <4>2
    <3> QED  BY <3>2, <3>3 DEF BacklogOf
  <2>2. CASE m.ents # << >>
    <3>1. queue'[w] = queue[w] \o Filedescs(m) /\ queue[w] \in Seq(Filedesc)
      BY <1>1, <1>3, <2>2 DEF Receive, TakeMessage
    <3>2. Extended(queue[w], m, queue'[w])
      BY <1>4, <2>2, <3>1, QueueExtended
    <3>3. /\ m.job \in Nat /\ \A i \in 1..Len(queue[w]) :
             queue[w][i].job \in Nat /\ queue[w][i].job < m.job
      BY <1>4, <1>5, <2>2, JobNumbers DEF BacklogOf, NetworkLater
    <3>4. \A i \in 1..Len(queue'[w]) : queue'[w][i].job <= m.job
      <4> SUFFICES ASSUME NEW i \in 1..Len(queue'[w]) PROVE queue'[w][i].job <= m.job
        OBVIOUS
      <4>1. CASE i \in 1..Len(queue[w]) /\ queue'[w][i] = queue[w][i]
        BY <3>3, <4>1
      <4>2. CASE queue'[w][i].job = m.job
        BY <3>3, <4>2
      <4> QED  BY <3>2, <4>1, <4>2 DEF Extended
    <3>5. FilesSorted(w)'
      <4> SUFFICES ASSUME NEW i \in 1..Len(queue'[w]), NEW k \in 1..Len(queue'[w]), i < k
                   PROVE  queue'[w][i].job <= queue'[w][k].job
        BY DEF FilesSorted
      <4>1. CASE k \in 1..Len(queue[w]) /\ queue'[w][k] = queue[w][k]
        <5>1. i \in 1..Len(queue[w]) /\ queue'[w][i] = queue[w][i]
          BY <3>2, <4>1 DEF Extended
        <5> QED  BY <1>5, <4>1, <5>1 DEF BacklogOf, FilesSorted
      <4>2. CASE queue'[w][k].job = m.job
        BY <3>4, <4>2
      <4> QED  BY <3>2, <4>1, <4>2 DEF Extended
    <3>6. NetworkLater(w)'
      <4> SUFFICES ASSUME NEW i \in 1..Len(queue'[w]), NEW k \in 1..Len(network'[w]),
                          network'[w][k].ents # << >>
                   PROVE  queue'[w][i].job < network'[w][k].job
        BY DEF NetworkLater
      <4>1. PICK j \in 1..Len(network[w]) : j > 1 /\ network'[w][k] = network[w][j]
        BY <1>4
      <4>2. m.job < network[w][j].job /\ network[w][j].job \in Nat
        BY <1>4, <1>5, <2>2, <4>1, JobNumbers DEF AckInvOf, InOrder, MessagesInOrder
      <4>3. queue'[w][i].job <= m.job /\ queue'[w][i].job \in Nat
        BY <3>2, <3>3, <3>4 DEF Extended
      <4> QED  BY <3>3, <4>1, <4>2, <4>3
    <3>7. RestUnacked(w)'
      <4> SUFFICES ASSUME NEW k \in 1..Len(queue'[w])
                   PROVE  \/ queue'[w][k].job = queue'[w][1].job
                          \/ \E i \in 1..Len(queue'[w]) :
                               queue'[w][i].ask /\ queue'[w][i].job = queue'[w][k].job
        BY DEF RestUnacked
      <4>1. CASE k \in 1..Len(queue[w]) /\ queue'[w][k] = queue[w][k]
        <5>1. 1 \in 1..Len(queue[w]) /\ queue'[w][1] = queue[w][1]
          BY <3>2, <4>1 DEF Extended
        <5>2. CASE queue[w][k].job = queue[w][1].job
          BY <4>1, <5>1, <5>2
        <5>3. CASE \E i \in 1..Len(queue[w]) : queue[w][i].ask /\ queue[w][i].job = queue[w][k].job
          <6>1. PICK i \in 1..Len(queue[w]) : queue[w][i].ask /\ queue[w][i].job = queue[w][k].job
            BY <5>3
          <6>2. i \in 1..Len(queue'[w]) /\ queue'[w][i] = queue[w][i]
            BY <3>2 DEF Extended
          <6> QED  BY <4>1, <6>1, <6>2
        <5> QED  BY <1>5, <4>1, <5>2, <5>3 DEF BacklogOf, RestUnacked
      <4>2. CASE queue'[w][k].job = m.job
        BY <3>2, <4>2 DEF Extended
      <4> QED  BY <3>2, <4>1, <4>2 DEF Extended
    <3> QED  BY <3>5, <3>6, <3>7 DEF BacklogOf
  <2> QED  BY <2>1, <2>2
<1>7. \A v \in Workers : v # w => BacklogOf(v)'
  BY <1>2, BacklogFrame DEF BacklogInv
<1> QED  BY <1>6, <1>7 DEF BacklogInv

LEMMA CopyBacklog ==
  ASSUME IInv, BacklogInv, NEW w \in Workers, Copy(w)
  PROVE  BacklogInv'
<1>1. /\ queue \in [Workers -> Seq(Filedesc)]
      /\ queue[w] \in Seq(Filedesc) /\ queue[w] # << >>
  BY DEF Copy, IInv, TypeOK, QueuesOK
<1>2. /\ queue'[w] = Tail(queue[w]) /\ \A v \in Workers : v # w => queue'[v] = queue[v]
      /\ UNCHANGED network
  BY <1>1 DEF Copy
<1>3. /\ \A i \in 1..Len(queue'[w]) : i + 1 \in 1..Len(queue[w]) /\ queue'[w][i] = queue[w][i + 1]
      /\ \A j \in 1..Len(queue[w]) : j = 1 \/ \E i \in 1..Len(queue'[w]) : queue'[w][i] = queue[w][j]
      /\ 1 \in 1..Len(queue[w])
  <2>1. Headless(queue[w], queue'[w])
    BY <1>1, <1>2, TailShift
  <2> QED  BY <2>1 DEF Headless
<1>4. BacklogOf(w)
  BY DEF BacklogInv
<1>5. \A i \in 1..Len(queue[w]) : queue[w][i].job \in Nat
  BY JobNumbers
<1>6. FilesSorted(w)'
  <2> SUFFICES ASSUME NEW i \in 1..Len(queue'[w]), NEW k \in 1..Len(queue'[w]), i < k
               PROVE  queue'[w][i].job <= queue'[w][k].job
    BY DEF FilesSorted
  <2>1. /\ i + 1 \in 1..Len(queue[w]) /\ queue'[w][i] = queue[w][i + 1]
        /\ k + 1 \in 1..Len(queue[w]) /\ queue'[w][k] = queue[w][k + 1] /\ i + 1 < k + 1
    BY <1>3
  <2> QED  BY <1>4, <2>1 DEF BacklogOf, FilesSorted
<1>7. NetworkLater(w)'
  <2> SUFFICES ASSUME NEW i \in 1..Len(queue'[w]), NEW k \in 1..Len(network[w]),
                      network[w][k].ents # << >>
               PROVE  queue'[w][i].job < network[w][k].job
    BY <1>2 DEF NetworkLater
  <2> QED  BY <1>3, <1>4 DEF BacklogOf, NetworkLater
<1>8. RestUnacked(w)'
  <2> SUFFICES ASSUME NEW k \in 1..Len(queue'[w]), queue'[w][k].job # queue'[w][1].job
               PROVE  \E i \in 1..Len(queue'[w]) :
                        queue'[w][i].ask /\ queue'[w][i].job = queue'[w][k].job
    BY DEF RestUnacked
  <2>1. /\ k + 1 \in 1..Len(queue[w]) /\ queue'[w][k] = queue[w][k + 1]
        /\ 2 \in 1..Len(queue[w]) /\ queue'[w][1] = queue[w][2] /\ 2 < k + 1 /\ 1 < k + 1
    <3>1. 1 \in 1..Len(queue'[w]) /\ k # 1
      OBVIOUS
    <3>2. 1 + 1 = 2
      OBVIOUS
    <3> QED  BY <1>3, <3>1, <3>2
  <2>2. queue[w][1].job <= queue[w][2].job /\ queue[w][2].job <= queue[w][k + 1].job
    <3>1. /\ FilesSorted(w) /\ 1 \in 1..Len(queue[w]) /\ 1 < 2
          /\ 2 \in 1..Len(queue[w]) /\ k + 1 \in 1..Len(queue[w]) /\ 2 < k + 1
      BY <1>3, <1>4, <2>1 DEF BacklogOf
    <3> QED  BY <3>1 DEF FilesSorted
  <2>3. queue[w][1].job # queue[w][k + 1].job
    <3>1. /\ queue[w][1].job \in Nat /\ queue[w][2].job \in Nat
          /\ queue[w][k + 1].job \in Nat /\ queue[w][k + 1].job # queue[w][2].job
      BY <1>3, <1>5, <2>1
    <3> QED  BY <2>2, <3>1
  <2>4. PICK i \in 1..Len(queue[w]) : queue[w][i].ask /\ queue[w][i].job = queue[w][k + 1].job
    BY <1>4, <2>1, <2>3 DEF BacklogOf, RestUnacked
  <2>5. PICK j \in 1..Len(queue'[w]) : queue'[w][j] = queue[w][i]
    BY <1>3, <2>3, <2>4
  <2> QED  BY <2>1, <2>4, <2>5
<1>9. BacklogOf(w)'
  BY <1>6, <1>7, <1>8 DEF BacklogOf
<1>10. \A v \in Workers : v # w => BacklogOf(v)'
  BY <1>2, BacklogFrame DEF BacklogInv
<1> QED  BY <1>9, <1>10 DEF BacklogInv

LEMMA BacklogNext == ASSUME IInv, AckInv, BacklogInv, [Next]_vars PROVE BacklogInv'
<1>1. ASSUME UNCHANGED <<network, queue>> PROVE BacklogInv'
  BY <1>1, BacklogFrame DEF BacklogInv
<1>2. CASE UNCHANGED vars
  BY <1>1, <1>2 DEF vars, workerVars
<1>3. CASE Master
  <2>1. CASE EndJob
    <3>1. CASE buffer = << >>
      BY <1>1, <2>1, <3>1 DEF EndJob, workerVars
    <3>2. CASE buffer # << >>
      <4>1. PICK m : m = [job |-> jobs + 1, tag |-> sendId, ents |-> buffer]
        OBVIOUS
      <4>2. network' = [network EXCEPT ![current] = Append(@, m)] /\ UNCHANGED queue
        BY <2>1, <3>2, <4>1 DEF EndJob, Post, workerVars
      <4>3. m.job = jobs + 1 /\ current \in Workers
        BY <4>1 DEF IInv, TypeOK, ControlOK
      <4> QED  BY <4>2, <4>3, SendBacklog
    <3> QED  BY <3>1, <3>2
  <2>2. CASE SendTerminate
    <3>1. Terminate.ents = << >> /\ current \in Workers
      BY DEF Terminate, IInv, TypeOK, ControlOK
    <3>2. network' = [network EXCEPT ![current] = Append(@, Terminate)] /\ UNCHANGED queue
      BY <2>2 DEF SendTerminate, workerVars
    <3> QED  BY <3>1, <3>2, SendBacklog
  <2>3. CASE ~ EndJob /\ ~ SendTerminate
    BY <1>1, <1>3, <2>3 DEF Master, Create, OpenIndex, TestSends, CollectAck, EndCollect,
                            SkipWorker, StartJob, AddEntry, WaitSends, WaitRecvs, TerminateSent,
                            CloseIndex, StoreIndex, EndArchive, workerVars
  <2> QED  BY <2>1, <2>2, <2>3
<1>4. CASE \E w \in Workers : Worker(w)
  <2>1. PICK w \in Workers : Worker(w)
    BY <1>4
  <2>2. CASE ~ Receive(w) /\ ~ Copy(w)
    BY <1>1, <2>1, <2>2 DEF Worker, Reopen, NoMessage, NothingToCopy, Flush, workerVars
  <2> QED  BY <2>1, <2>2, ReceiveBacklog, CopyBacklog
<1>5. CASE (\E b \in Barriers : Barrier(b)) \/ \E r \in Ranks : Exit(r)
  BY <1>1, <1>5 DEF Barrier, Exit, workerVars
<1> QED  BY <1>2, <1>3, <1>4, <1>5 DEF Next

LEMMA BacklogBound ==
  ASSUME IInv, AckInv, BacklogInv
  PROVE  BoundedBacklog
<1> SUFFICES ASSUME NEW w \in Workers
             PROVE  Cardinality(UnfinishedJobs(w)) <= MaxJobsInFlight + 1
  BY DEF BoundedBacklog
<1> DEFINE awaited == {recvReq[w][r].job : r \in Slots}
           first   == queue[w][1].job
<1>1. /\ IsFiniteSet(awaited) /\ Cardinality(awaited) <= MaxJobsInFlight
      /\ Cardinality(awaited) \in Nat
  <2>1. PICK f : f = [r \in Slots |-> recvReq[w][r].job]
    OBVIOUS
  <2>2. f \in Surjection(Slots, awaited)
    BY <2>1 DEF Surjection
  <2>3. IsFiniteSet(Slots) /\ Cardinality(Slots) = MaxJobsInFlight
    BY SlotsFinite
  <2>4. IsFiniteSet(awaited) /\ Cardinality(awaited) <= MaxJobsInFlight
    BY <2>2, <2>3, FS_Surjection
  <2> QED  BY <2>4, FS_CardinalityType
<1>2. UnfinishedJobs(w) \subseteq awaited \cup {first}
  <2>1. AckInvOf(w) /\ BacklogOf(w)
    BY DEF AckInv, BacklogInv
  <2>2. /\ DOMAIN queue[w] = 1..Len(queue[w]) /\ DOMAIN network[w] = 1..Len(network[w])
    BY DEF IInv, TypeOK, QueuesOK, MessagesOK
  <2>3. \A k \in 1..Len(queue[w]) : queue[w][k].job \in awaited \cup {first}
    <3>1. \A i \in 1..Len(queue[w]) : queue[w][i].ask =>
            \E r \in Slots : recvReq[w][r].job = queue[w][i].job
      BY <2>1 DEF AckInvOf, Expected, Expects, Pairs
    <3>2. \A k \in 1..Len(queue[w]) : \/ queue[w][k].job = first
                                      \/ \E r \in Slots : recvReq[w][r].job = queue[w][k].job
      BY <2>1, <3>1 DEF BacklogOf, RestUnacked
    <3> QED  BY <3>2
  <2>4. \A k \in 1..Len(network[w]) : network[w][k].job \in awaited \cup {0}
    BY DEF IInv, InNetworkOnly
  <2> QED  BY <2>2, <2>3, <2>4 DEF UnfinishedJobs, QueuedJobs
<1> HIDE DEF awaited, first
<1>3. /\ IsFiniteSet(awaited \cup {first})
      /\ Cardinality(awaited \cup {first}) <= MaxJobsInFlight + 1
      /\ Cardinality(awaited \cup {first}) \in Nat
  <2>1. /\ IsFiniteSet(awaited \cup {first})
        /\ Cardinality(awaited \cup {first}) =
             IF first \in awaited THEN Cardinality(awaited) ELSE Cardinality(awaited) + 1
    BY <1>1, FS_AddElement
  <2> QED  BY <1>1, <2>1, LimitsAssumption
<1>4. /\ IsFiniteSet(UnfinishedJobs(w))
      /\ Cardinality(UnfinishedJobs(w)) <= Cardinality(awaited \cup {first})
  BY <1>2, <1>3, FS_Subset
<1>5. Cardinality(UnfinishedJobs(w)) \in Nat
  BY <1>4, FS_CardinalityType
<1> QED  BY <1>3, <1>4, <1>5, LimitsAssumption

\* However the worker's copying and the master's posting interleave, a worker is
\* never behind by more than MAX_JOBS_IN_FLIGHT jobs and the one whose first
\* file it has just copied (mpitar.cpp:74 and 411-423).
THEOREM BacklogIsBounded == Spec => []BoundedBacklog
<1>1. Init => BacklogInv
  BY DEF Init, BacklogInv, BacklogOf, FilesSorted, NetworkLater, RestUnacked
<1>2. IInv /\ AckInv /\ BacklogInv /\ [Next]_vars => BacklogInv'
  BY BacklogNext
<1>3. IInv /\ AckInv /\ BacklogInv => BoundedBacklog
  BY BacklogBound
<1> QED  BY <1>1, <1>2, <1>3, AckInvHolds, PTL DEF Spec
=============================================================================
