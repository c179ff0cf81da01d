------------------------ MODULE MpiTarArchiveProofs ------------------------
(* The end of the protocol: no worker leaves while there is work for it,    *)
(* every member of the archive ends up where its index line says, the       *)
(* protocol implements TarArchive, and the bytes acked are bytes copied.    *)
EXTENDS MpiTarProofs

\* The master has sent worker w the empty file name.
Told(w) ==
  \/ pc[0] \in {"closing", "index", "index_copy", "index_end", "end", "done"}
  \/ pc[0] = "terminate" /\ w < current
  \/ pc[0] = "terminating" /\ w <= current

Left == {"flush", "closing", "end", "done"}

\* The empty file name is the last message to a worker; it has left its loop
\* only with that name taken and its files copied.
Drained(w) ==
  /\ \A i \in 1..Len(network[w]) :
       network[w][i].ents = << >> => i = Len(network[w]) /\ Told(w)
  /\ quit[w] => network[w] = << >> /\ Told(w)
  /\ pc[w] \in Left => quit[w] /\ queue[w] = << >>

DrainInv == \A w \in Workers : Drained(w)
-----------------------------------------------------------------------------
\* A step that sends nothing and keeps the worker's queue.
LEMMA DrainFrame ==
  ASSUME NEW w \in Workers, Drained(w), Told(w) => Told(w)',
         network'[w] = network[w], quit'[w] = quit[w], queue'[w] = queue[w],
         pc'[w] \in Left => pc[w] \in Left
  PROVE  Drained(w)'
BY DEF Drained, Told

LEMMA MasterControl ==
  ASSUME IInv, NEW there, Goto(0, there)
  PROVE  pc'[0] = there /\ \A w \in Workers : pc'[w] = pc[w]
BY RanksFacts DEF Goto, IInv, TypeOK, ControlOK

LEMMA WorkerControl ==
  ASSUME IInv, NEW w \in Workers, NEW there, Goto(w, there)
  PROVE  pc'[w] = there /\ \A r \in Ranks : r # w => pc'[r] = pc[r]
BY RanksFacts DEF Goto, IInv, TypeOK, ControlOK

\* The steps of the master that post nothing.
LEMMA QuietSteps ==
  ASSUME IInv, DrainInv,
         \/ Create \/ OpenIndex \/ TestSends \/ (\E a \in acks : CollectAck(a)) \/ EndCollect
         \/ SkipWorker \/ StartJob \/ AddEntry \/ WaitSends \/ WaitRecvs
         \/ CloseIndex \/ StoreIndex \/ EndArchive
  PROVE  DrainInv'
<1> USE RanksFacts
<1>1. UNCHANGED <<network, quit, queue>>
  BY DEF Create, OpenIndex, TestSends, CollectAck, EndCollect, SkipWorker, StartJob, AddEntry,
         WaitSends, WaitRecvs, CloseIndex, StoreIndex, EndArchive, workerVars
<1>2. \A w \in Workers : pc'[w] = pc[w]
  BY MasterControl DEF Create, OpenIndex, TestSends, CollectAck, EndCollect, SkipWorker,
                       StartJob, AddEntry, WaitSends, WaitRecvs, CloseIndex, StoreIndex,
                       EndArchive
<1>3. \A w \in Workers : Told(w) => Told(w)'
  <2>1. CASE CloseIndex \/ StoreIndex \/ EndArchive
    BY <2>1, MasterControl DEF CloseIndex, StoreIndex, EndArchive, Told
  <2>2. CASE ~ (CloseIndex \/ StoreIndex \/ EndArchive)
    BY <2>2 DEF Create, OpenIndex, TestSends, CollectAck, EndCollect, SkipWorker, StartJob,
                AddEntry, WaitSends, WaitRecvs, Told
  <2> QED  BY <2>1, <2>2
<1> QED  BY <1>1, <1>2, <1>3, DrainFrame DEF DrainInv

LEMMA EndJobDrain == ASSUME IInv, DrainInv, EndJob PROVE DrainInv'
<1> USE RanksFacts
<1>1. UNCHANGED <<quit, queue>> /\ pc[0] = "build" /\ \A w \in Workers : pc'[w] = pc[w]
  BY MasterControl DEF EndJob, workerVars
<1>2. \A w \in Workers : ~ Told(w)
  BY <1>1 DEF Told
<1> SUFFICES ASSUME NEW w \in Workers PROVE Drained(w)'
  BY DEF DrainInv
<1>3. Drained(w) /\ ~ quit[w] /\ pc[w] \notin Left
  BY <1>2 DEF DrainInv, Drained
<1>4. CASE network'[w] = network[w]
  BY <1>1, <1>2, <1>3, <1>4, DrainFrame
<1>5. CASE network'[w] # network[w]
  <2>1. buffer # << >> /\ Post
    BY <1>5 DEF EndJob
  <2> DEFINE m == [job |-> jobs + 1, tag |-> sendId, ents |-> buffer]
  <2>2. network[w] \in Seq(Message) /\ network'[w] = Append(network[w], m)
    BY <1>5, <2>1 DEF Post, IInv, TypeOK, MessagesOK
  <2>3. \A i \in 1..Len(network'[w]) : network'[w][i].ents # << >>
    BY <2>1, <2>2, <1>2, <1>3 DEF Drained
  <2> QED  BY <1>1, <1>3, <2>3 DEF Drained
<1> QED  BY <1>4, <1>5

LEMMA SendTerminateDrain == ASSUME IInv, DrainInv, SendTerminate PROVE DrainInv'
<1> USE RanksFacts
<1>1. /\ UNCHANGED <<quit, queue, current>> /\ pc[0] = "terminate" /\ pc'[0] = "terminating"
      /\ \A w \in Workers : pc'[w] = pc[w]
  BY MasterControl DEF SendTerminate, workerVars, masterVars
<1>2. current \in Workers /\ current \in Int
  BY DEF IInv, TypeOK, ControlOK, Workers
<1> SUFFICES ASSUME NEW w \in Workers PROVE Drained(w)'
  BY DEF DrainInv
<1>3. Drained(w) /\ w \in Int
  BY DEF DrainInv, Workers
<1>4. CASE w # current
  <2>1. network'[w] = network[w]
    BY <1>4 DEF SendTerminate, IInv, TypeOK, MessagesOK
  <2>2. Told(w) => Told(w)'
    BY <1>1, <1>2, <1>3 DEF Told
  <2> QED  BY <1>1, <1>3, <2>1, <2>2, DrainFrame
<1>5. CASE w = current
  <2>1. ~ Told(w) /\ Told(w)'
    BY <1>1, <1>2, <1>5 DEF Told
  <2>2. ~ quit[w] /\ pc[w] \notin Left
    BY <1>3, <2>1 DEF Drained
  <2>3. network[w] \in Seq(Message) /\ network'[w] = Append(network[w], Terminate)
    BY <1>5 DEF SendTerminate, IInv, TypeOK, MessagesOK
  <2>4. \A i \in 1..Len(network'[w]) : network'[w][i].ents = << >> => i = Len(network'[w])
    BY <1>3, <2>1, <2>3 DEF Drained
  <2> QED  BY <1>1, <2>1, <2>2, <2>4 DEF Drained
<1> QED  BY <1>4, <1>5

LEMMA TerminateSentDrain == ASSUME IInv, DrainInv, TerminateSent PROVE DrainInv'
<1> USE RanksFacts
<1>1. UNCHANGED <<network, quit, queue>> /\ \A w \in Workers : pc'[w] = pc[w]
  BY MasterControl DEF TerminateSent, workerVars
<1>2. current \in Int
  BY DEF IInv, TypeOK, ControlOK, Workers
<1>3. \A w \in Workers : Told(w) => Told(w)'
  <2>1. CASE current < NWorkers
    <3>1. pc[0] = "terminating" /\ pc'[0] = "terminate" /\ current' = current + 1
      BY <2>1, MasterControl DEF TerminateSent
    <3> QED  BY <3>1, <1>2 DEF Told, Workers
  <2>2. CASE ~ current < NWorkers
    <3>1. pc'[0] = "closing"
      BY <2>2, MasterControl DEF TerminateSent
    <3> QED  BY <3>1 DEF Told
  <2> QED  BY <2>1, <2>2
<1> QED  BY <1>1, <1>3, DrainFrame DEF DrainInv
-----------------------------------------------------------------------------
\* A step of worker w leaves the other workers and the master alone.
LEMMA OtherWorkers ==
  ASSUME IInv, DrainInv, NEW w \in Workers, UNCHANGED current,
         \A r \in Ranks : r # w => pc'[r] = pc[r],
         \A v \in Workers : v # w => /\ network'[v] = network[v] /\ quit'[v] = quit[v]
                                     /\ queue'[v] = queue[v]
  PROVE  /\ \A v \in Workers : Told(v) => Told(v)'
         /\ \A v \in Workers : v # w => Drained(v)'
<1>1. \A v \in Workers : Told(v) => Told(v)'
  BY RanksFacts DEF Told
<1> QED  BY <1>1, RanksFacts, DrainFrame DEF DrainInv

LEMMA ReceiveDrain ==
  ASSUME IInv, DrainInv, NEW w \in Workers, Receive(w) PROVE DrainInv'
<1> USE RanksFacts
<1>1. pc[w] = "probe" /\ pc'[w] = "copy" /\ \A r \in Ranks : r # w => pc'[r] = pc[r]
  BY WorkerControl DEF Receive
<1>2. /\ network[w] \in Seq(Message) /\ network[w] # << >>
      /\ network' = [network EXCEPT ![w] = Tail(network[w])]
      /\ network \in [Workers -> Seq(Message)] /\ quit \in [Workers -> BOOLEAN]
      /\ queue \in [Workers -> Seq(Filedesc)]
  BY DEF Receive, IInv, TypeOK, MessagesOK, QueuesOK
<1>3. \A v \in Workers : v # w => /\ network'[v] = network[v] /\ quit'[v] = quit[v]
                                  /\ queue'[v] = queue[v]
  BY <1>2 DEF Receive, TakeMessage
<1>4. UNCHANGED current
  BY DEF Receive, masterVars
<1>5. (\A v \in Workers : Told(v) => Told(v)') /\ \A v \in Workers : v # w => Drained(v)'
  BY <1>1, <1>3, <1>4, OtherWorkers
<1>6. Drained(w)'
  <2> DEFINE m == Head(network[w])
  <2>1. Drained(w) /\ ~ quit[w]
    BY <1>2 DEF DrainInv, Drained
  <2>2. network'[w] = Tail(network[w]) /\ m = network[w][1] /\ Len(network[w]) \in Nat \ {0}
    BY <1>2
  <2>3. CASE m.ents = << >>
    <3>1. Len(network[w]) = 1 /\ Told(w)
      <4>1. 1 \in 1..Len(network[w]) /\ network[w][1].ents = << >>
        BY <2>2, <2>3
      <4> HIDE DEF m
      <4> QED  BY <2>1, <4>1 DEF Drained
    <3>2. network'[w] = << >>
      BY <1>2, <2>2, <3>1
    <3> QED  BY <1>1, <1>5, <3>1, <3>2 DEF Drained, Left
  <2>4. CASE m.ents # << >>
    <3>1. ~ quit'[w]
      BY <2>1, <2>4 DEF Receive, TakeMessage
    <3>2. /\ Len(network'[w]) = Len(network[w]) - 1
          /\ \A i \in 1..Len(network'[w]) : network'[w][i] = network[w][i + 1]
      BY <1>2, <2>2
    <3>3. \A i \in 1..Len(network'[w]) :
            network'[w][i].ents = << >> => i = Len(network'[w]) /\ Told(w)
      BY <2>1, <2>2, <3>2 DEF Drained
    <3> QED  BY <1>1, <1>5, <3>1, <3>3 DEF Drained, Left
  <2> QED  BY <2>3, <2>4
<1> QED  BY <1>5, <1>6 DEF DrainInv

\* Copying, waiting for nothing, opening and closing.
LEMMA WorkDrain ==
  ASSUME IInv, DrainInv, NEW w \in Workers,
         Reopen(w) \/ NoMessage(w) \/ Copy(w) \/ NothingToCopy(w) \/ Flush(w)
  PROVE  DrainInv'
<1> USE RanksFacts
<1>1. UNCHANGED <<network, quit, current>>
  BY DEF Reopen, NoMessage, Copy, NothingToCopy, Flush, masterVars, workerVars
<1>2. \A r \in Ranks : r # w => pc'[r] = pc[r]
  BY WorkerControl DEF Reopen, NoMessage, Copy, NothingToCopy, Flush, LoopOrFlush
<1>3. queue \in [Workers -> Seq(Filedesc)] /\ \A v \in Workers : v # w => queue'[v] = queue[v]
  BY DEF Reopen, NoMessage, Copy, NothingToCopy, Flush, workerVars, IInv, TypeOK, QueuesOK
<1>4. (\A v \in Workers : Told(v) => Told(v)') /\ \A v \in Workers : v # w => Drained(v)'
  BY <1>1, <1>2, <1>3, OtherWorkers
<1>5. pc'[w] \in Left => quit'[w] /\ queue'[w] = << >>
  <2>1. CASE Reopen(w)
    BY <2>1, WorkerControl DEF Reopen, Left
  <2>2. CASE NoMessage(w)
    BY <2>2, WorkerControl DEF NoMessage, Left
  <2>3. CASE Copy(w)
    <3>1. queue'[w] = Tail(queue[w])
      BY <2>3, <1>3 DEF Copy
    <3>2. pc'[w] = IF quit[w] /\ Tail(queue[w]) = << >> THEN "flush" ELSE "probe"
      BY <2>3, WorkerControl DEF Copy, LoopOrFlush
    <3> QED  BY <1>1, <3>1, <3>2 DEF Left
  <2>4. CASE NothingToCopy(w)
    <3>1. queue'[w] = << >>
      BY <2>4 DEF NothingToCopy, workerVars
    <3>2. pc'[w] = IF quit[w] THEN "flush" ELSE "probe"
      BY <2>4, WorkerControl DEF NothingToCopy, LoopOrFlush
    <3> QED  BY <1>1, <3>1, <3>2 DEF Left
  <2>5. CASE Flush(w)
    BY <2>5 DEF Flush, DrainInv, Drained, Left, workerVars
  <2> QED  BY <2>1, <2>2, <2>3, <2>4, <2>5
<1>6. Drained(w)'
  BY <1>1, <1>4, <1>5 DEF DrainInv, Drained
<1> QED  BY <1>4, <1>6 DEF DrainInv

LEMMA BarrierDrain ==
  ASSUME IInv, DrainInv, NEW b \in Barriers, Barrier(b) PROVE DrainInv'
<1> USE RanksFacts
<1>1. UNCHANGED <<network, quit, queue, current>>
  BY DEF Barrier, masterVars, workerVars
<1>2. \A r \in Ranks : pc[r] = b /\ pc'[r] = AfterBarrier(r, b)
  BY DEF Barrier
<1>3. b \in {"opened", "closing", "end"}
  BY DEF Barriers
<1>4. \A w \in Workers : Told(w) => Told(w)'
  BY <1>2, <1>3 DEF Told, AfterBarrier
<1>5. \A w \in Workers : pc'[w] \in Left => pc[w] \in Left
  BY <1>2, <1>3 DEF Left, AfterBarrier
<1> QED  BY <1>1, <1>4, <1>5, DrainFrame DEF DrainInv
-----------------------------------------------------------------------------
LEMMA DrainNext == ASSUME IInv, DrainInv, [Next]_vars PROVE DrainInv'
<1>1. CASE UNCHANGED vars
  BY <1>1 DEF vars, masterVars, workerVars, DrainInv, Drained, Told
<1>2. CASE Master
  BY <1>2, QuietSteps, EndJobDrain, SendTerminateDrain, TerminateSentDrain DEF Master
<1>3. CASE \E w \in Workers : Worker(w)
  BY <1>3, ReceiveDrain, WorkDrain DEF Worker
<1>4. CASE \E b \in Barriers : Barrier(b)
  BY <1>4, BarrierDrain
<1>5. CASE \E r \in Ranks : Exit(r)
  BY <1>5 DEF Exit, masterVars, workerVars, DrainInv, Drained, Told
<1> QED  BY <1>1, <1>2, <1>3, <1>4, <1>5 DEF Next

LEMMA InitDrain == Init => DrainInv
BY RanksFacts DEF Init, DrainInv, Drained, Told, Left

\* However far the workers are behind, none leaves its loop with a file to copy
\* or a message to take: the empty file name is the last message to each, and
\* while(!done || !files.empty()) waits for the files (mpitar.cpp:440).
THEOREM QuitsDrained == Spec => []WorkerQuitsDrained
<1>1. Init => DrainInv
  BY InitDrain
<1>2. NoAbortInv /\ DrainInv /\ [Next]_vars => DrainInv'
  BY DrainNext DEF NoAbortInv
<1>3. DrainInv => WorkerQuitsDrained
  BY DEF DrainInv, Drained, Left, WorkerQuitsDrained
<1> QED  BY <1>1, <1>2, <1>3, InvariantHolds, PTL DEF Spec
-----------------------------------------------------------------------------
\* Where the master is once the list is at its end, and once the archive has
\* its index.
AllListed == {"wait_sends", "wait_recvs", "terminate", "terminating", "closing",
              "index", "index_copy", "index_end", "end", "done"}
Closed    == {"end", "done"}

\* Where the master is once the index file is complete, and once it is copied.
Titled  == {"index_copy", "index_end", "end", "done"}
Indexed == {"index_end", "end", "done"}

\* The master neither begins nor ends a step of the end of the archive.
SameStage ==
  \/ pc'[0] = pc[0]
  \/ pc[0] \notin Titled /\ pc'[0] \notin Titled
  \/ pc[0] \in Closed /\ pc'[0] \in Closed

\* The barriers keep the ranks together.
Together ==
  /\ pc[0] = "create" => listed = 0 /\ \A w \in Workers : pc[w] = "opened"
  /\ pc[0] \in {"index", "index_copy", "index_end", "end", "done"} => \A w \in Workers : pc[w] \in {"end", "done"}

\* Offsets are the running sum; the index has a line for each listed member.
Listing ==
  /\ off = Layout[listed + 1] + (IF pc[0] \in Indexed THEN Size[IndexFile] ELSE 0)
  /\ Len(index) = listed + (IF pc[0] \in Titled THEN 1 ELSE 0)
  /\ \A i \in 1..Len(index) : index[i] = Entry(i, Layout[i])
  /\ pc[0] \in AllListed => listed = NFiles /\ buffer = << >>

\* An entry names a listed file and its place, wherever the entry is.
InPlace(e) == e.file \in 1..listed /\ e.off = Layout[e.file]
Carried ==
  /\ \A i \in 1..Len(buffer) : InPlace(buffer[i])
  /\ \A w \in Workers : \A i \in 1..Len(network[w]) :
       \A k \in 1..Len(network[w][i].ents) : InPlace(network[w][i].ents[k])
  /\ \A w \in Workers : \A i \in 1..Len(queue[w]) : InPlace(queue[w][i].ent)

\* file_off is where the stream is, and what is in a stream or in the file is
\* in its place.  A worker that stands at the last barriers has an empty stream;
\* the master's holds at most the index file, for a while.
Flushed == {"closing", "end", "done"}
Title   == Extent(Layout[IndexFile], IndexFile)
Written ==
  /\ \A r \in Ranks : pos[r] = fileOff[r]
  /\ \A w \in Workers : stream[w] \subseteq Tar!Placed(1..listed)
  /\ \A w \in Workers : pc[w] \in Flushed => stream[w] = {}
  /\ pc[0] # "index_end" => stream[0] = {}
  /\ pc[0] # "create" /\ pc[0] \notin Indexed => archive \subseteq Tar!Placed(1..listed)
  /\ pc[0] = "index_end" => \/ stream[0] = {Title} /\ archive = Tar!Placed(Files)
                            \/ stream[0] = {} /\ archive = Tar!Placed(Members)
  /\ pc[0] \in Closed => archive = Tar!Placed(Members)

\* A listed file is in an entry on its way to its worker, or written.
InBuffer(f)  == \E i \in 1..Len(buffer) : buffer[i].file = f
InNetwork(f) == \E w \in Workers : \E i \in 1..Len(network[w]) :
                  \E k \in 1..Len(network[w][i].ents) : network[w][i].ents[k].file = f
InQueue(f)   == \E w \in Workers : \E i \in 1..Len(queue[w]) : queue[w][i].ent.file = f
OnItsWay(f)  == InBuffer(f) \/ InNetwork(f) \/ InQueue(f)
Held(x)   == x \in archive \/ \E r \in Ranks : x \in stream[r]
Stored(f) == Held(Extent(Layout[f], f))
NoneLost  == \A f \in 1..listed : OnItsWay(f) \/ Stored(f)

ArchiveInv == Together /\ Listing /\ Carried /\ Written /\ NoneLost
-----------------------------------------------------------------------------
(* What a step leaves alone keeps its part of the invariant. *)

LEMMA FrameCarried ==
  ASSUME Carried, UNCHANGED <<listed, buffer, network, queue>>
  PROVE  Carried'
BY DEF Carried, InPlace

LEMMA FrameLost ==
  ASSUME NoneLost, UNCHANGED <<listed, buffer, network, queue, archive, stream>>
  PROVE  NoneLost'
<1>1. \A f : OnItsWay(f) => OnItsWay(f)'
  BY DEF OnItsWay, InBuffer, InNetwork, InQueue
<1>2. \A f : Stored(f) => Stored(f)'
  BY DEF Stored, Held
<1> QED  BY <1>1, <1>2 DEF NoneLost

LEMMA FrameListing ==
  ASSUME Listing, UNCHANGED <<listed, off, index, buffer>>, SameStage,
         pc'[0] \in AllListed => pc[0] \in AllListed
  PROVE  Listing'
BY DEF Listing, SameStage, Titled, Indexed, Closed

LEMMA FrameWritten ==
  ASSUME Written, UNCHANGED <<listed, archive, stream, fileOff, pos>>, SameStage,
         pc'[0] # "create" => pc[0] # "create",
         \A w \in Workers : pc'[w] \in Flushed => pc[w] \in Flushed
  PROVE  Written'
BY DEF Written, Tar!Placed, Tar!Extent, SameStage, Titled, Indexed, Closed

\* The master between its first barrier and its last.
LEMMA MasterTogether ==
  ASSUME Together, UNCHANGED listed, \A w \in Workers : pc'[w] = pc[w],
         pc'[0] = "create" => pc[0] = "create",
         pc'[0] \in {"index", "index_copy", "index_end", "end", "done"} => pc[0] \in {"index", "index_copy", "index_end", "end", "done"}
  PROVE  Together'
BY DEF Together

\* A worker inside its loop: the master is between those barriers.
LEMMA WorkerTogether ==
  ASSUME IInv, Together, NEW w \in Workers, NEW there, Goto(w, there),
         pc[w] \notin {"opened", "end", "done"}, UNCHANGED listed
  PROVE  /\ Together' /\ pc'[0] = pc[0] /\ pc[0] \notin {"create", "index", "index_copy", "index_end", "end", "done"}
         /\ pc'[w] = there /\ \A v \in Workers : v # w => pc'[v] = pc[v]
<1>1. /\ pc'[0] = pc[0] /\ pc'[w] = there
      /\ \A v \in Workers : v # w => pc'[v] = pc[v]
  BY RanksFacts, WorkerControl
<1>2. pc[0] \notin {"create", "index", "index_copy", "index_end", "end", "done"}
  BY DEF Together
<1> QED  BY <1>1, <1>2 DEF Together

\* The steps of the master that touch no entry and no file.
LEMMA QuietArchive ==
  ASSUME IInv, ArchiveInv,
         \/ OpenIndex \/ TestSends \/ (\E a \in acks : CollectAck(a)) \/ EndCollect
         \/ SkipWorker \/ StartJob \/ WaitSends \/ WaitRecvs \/ TerminateSent
  PROVE  ArchiveInv'
<1>1. UNCHANGED <<listed, off, index, buffer, network, queue, archive, stream, fileOff, pos>>
  BY DEF OpenIndex, TestSends, CollectAck, EndCollect, SkipWorker, StartJob, WaitSends,
         WaitRecvs, TerminateSent, masterVars, workerVars, fileVars, listVars, packVars
<1>2. /\ \A w \in Workers : pc'[w] = pc[w]
      /\ pc[0] # "create" /\ pc[0] \notin {"index", "index_copy", "index_end", "end", "done"}
      /\ pc'[0] # "create" /\ pc'[0] \notin {"index", "index_copy", "index_end", "end", "done"}
      /\ pc'[0] \in AllListed => pc[0] \in AllListed
  <2>1. CASE pc' = pc /\ pc[0] \in {"test_recv", "dispatch"}
    BY <2>1
  <2>2. CASE \E there \in {"test_recv", "dispatch", "test_send", "build"} :
               Goto(0, there) /\ pc[0] \in {"open_index", "test_send", "test_recv", "dispatch"}
    BY <2>2, MasterControl DEF AllListed
  <2>3. CASE \E there \in {"wait_recvs", "terminate", "closing"} :
               Goto(0, there) /\ pc[0] \in {"wait_sends", "wait_recvs", "terminating"}
    BY <2>3, MasterControl DEF AllListed
  <2>4. OpenIndex \/ TestSends \/ EndCollect \/ SkipWorker => <2>2!1
    BY DEF OpenIndex, TestSends, EndCollect, SkipWorker
  <2>5. (\E a \in acks : CollectAck(a)) => <2>1!1
    BY DEF CollectAck
  <2>6. StartJob => <2>1!1 \/ <2>2!1
    BY DEF StartJob
  <2>7. WaitSends \/ WaitRecvs \/ TerminateSent => <2>3!1
    BY DEF WaitSends, WaitRecvs, TerminateSent
  <2> QED  BY <2>1, <2>2, <2>3, <2>4, <2>5, <2>6, <2>7
<1>3. Together'
  BY <1>1, <1>2, MasterTogether DEF ArchiveInv
<1>4. Listing'
  BY <1>1, <1>2, FrameListing DEF ArchiveInv, SameStage, Titled, Closed
<1>5. Written'
  BY <1>1, <1>2, FrameWritten DEF ArchiveInv, SameStage, Titled, Closed
<1>6. Carried'
  BY <1>1, FrameCarried DEF ArchiveInv
<1>7. NoneLost'
  BY <1>1, FrameLost DEF ArchiveInv
<1> QED  BY <1>3, <1>4, <1>5, <1>6, <1>7 DEF ArchiveInv

LEMMA CreateArchive == ASSUME IInv, ArchiveInv, Create PROVE ArchiveInv'
<1>1. /\ pc[0] = "create" /\ pc'[0] = "opened" /\ \A w \in Workers : pc'[w] = pc[w]
      /\ UNCHANGED <<listed, off, index, buffer, network, queue, stream, fileOff, pos>>
      /\ archive' = {}
  BY MasterControl DEF Create, masterVars, workerVars, listVars, packVars
<1>2. Together'
  BY <1>1, MasterTogether DEF ArchiveInv
<1>3. Listing'
  BY <1>1, FrameListing DEF ArchiveInv, AllListed, SameStage, Titled, Closed
<1>4. Carried'
  BY <1>1, FrameCarried DEF ArchiveInv
<1>5. Written'
  BY <1>1 DEF ArchiveInv, Written, Tar!Placed, Tar!Extent, Closed, Indexed, Flushed
<1>6. NoneLost'
  <2>1. listed' = 0
    BY <1>1 DEF ArchiveInv, Together
  <2> QED  BY <2>1 DEF NoneLost
<1> QED  BY <1>2, <1>3, <1>4, <1>5, <1>6 DEF ArchiveInv

\* A member in its place, in this module's words.
LEMMA PlacedFacts ==
  ASSUME NEW S
  PROVE  /\ \A f \in S : Extent(Layout[f], f) \in Tar!Placed(S)
         /\ \A x \in Tar!Placed(S) : \E f \in S : x = Extent(Layout[f], f)
         /\ \A T : S \subseteq T => Tar!Placed(S) \subseteq Tar!Placed(T)
BY DEF Tar!Placed, Tar!Extent, Extent

LEMMA AddEntryArchive == ASSUME IInv, ArchiveInv, AddEntry PROVE ArchiveInv'
<1> USE NFilesAssumption
<1>1. /\ pc[0] = "build" /\ listed' = listed + 1 /\ off' = off + Size[listed + 1]
      /\ UNCHANGED <<pc, network, queue, archive, stream, fileOff, pos>>
  BY DEF AddEntry, workerVars, fileVars
<1>2. listed \in Nat /\ listed + 1 \in Files /\ listed + 1 \in Members /\ off \in Nat
  BY DEF AddEntry, IInv, TypeOK, PackingOK, Files, Members
<1>3. off = Layout[listed + 1] /\ Len(index) = listed
  BY <1>1, <1>2, LayoutAssumption DEF ArchiveInv, Listing, Titled, Indexed
<1>4. /\ buffer \in Seq(Entries) /\ index \in Seq(Entries)
      /\ buffer' = Append(buffer, Entry(listed + 1, off))
      /\ index' = Append(index, Entry(listed + 1, off))
  BY DEF AddEntry, IInv, TypeOK, PackingOK
<1>10. /\ Len(buffer) \in Nat /\ Len(buffer') = Len(buffer) + 1
       /\ buffer'[Len(buffer) + 1] = Entry(listed + 1, off)
       /\ \A i \in 1..Len(buffer) : buffer'[i] = buffer[i]
  BY <1>4, AppendProperties, LenProperties
<1>5. Together'
  BY <1>1 DEF ArchiveInv, Together
<1>6. Listing'
  <2>1. off' = Layout[listed' + 1]
    BY <1>1, <1>2, <1>3, LayoutAssumption
  <2>2. Len(index') = listed' /\ \A i \in 1..Len(index') : index'[i] = Entry(i, Layout[i])
    BY <1>1, <1>2, <1>3, <1>4 DEF ArchiveInv, Listing
  <2>3. Layout[listed' + 1] \in Nat /\ listed' \in Nat
    BY <1>1, <1>2, LayoutAssumption DEF Members, Files, IndexFile
  <2> QED  BY <1>1, <2>1, <2>2, <2>3 DEF Listing, Titled, Indexed, AllListed
<1>7. Carried'
  <2>1. \A e : InPlace(e) => InPlace(e)'
    BY <1>1, <1>2 DEF InPlace
  <2>2. \A i \in 1..Len(buffer') : InPlace(buffer[i])'
    <3> SUFFICES ASSUME NEW i \in 1..Len(buffer')
                 PROVE  buffer'[i].file \in 1..listed' /\ buffer'[i].off = Layout[buffer'[i].file]
      BY DEF InPlace
    <3>1. CASE i \in 1..Len(buffer)
      <4>1. InPlace(buffer[i])' /\ buffer'[i] = buffer[i]
        BY <1>10, <2>1, <3>1 DEF ArchiveInv, Carried
      <4> QED  BY <4>1 DEF InPlace
    <3>2. CASE i = Len(buffer) + 1
      BY <1>1, <1>2, <1>3, <1>10, <3>2 DEF Entry
    <3> QED  BY <1>10, <3>1, <3>2
  <2> QED  BY <1>1, <2>1, <2>2 DEF ArchiveInv, Carried
<1>8. Written'
  <2>1. Tar!Placed(1..listed) \subseteq Tar!Placed(1..(listed + 1))
    BY <1>2, PlacedFacts
  <2> QED  BY <1>1, <2>1 DEF ArchiveInv, Written, Indexed, Closed
<1>9. NoneLost'
  <2>1. \A f : Stored(f) => Stored(f)'
    BY <1>1 DEF Stored, Held
  <2>2. \A f : OnItsWay(f) => OnItsWay(f)'
    <3>1. \A f : InBuffer(f) => InBuffer(f)'
      BY <1>10 DEF InBuffer
    <3>2. \A f : (InNetwork(f) => InNetwork(f)') /\ (InQueue(f) => InQueue(f)')
      BY <1>1 DEF InNetwork, InQueue
    <3> QED  BY <3>1, <3>2 DEF OnItsWay
  <2>3. ASSUME NEW f, f = listed + 1 PROVE OnItsWay(f)'
    <3>1. Len(buffer) + 1 \in 1..Len(buffer') /\ buffer'[Len(buffer) + 1].file = f
      BY <1>10, <2>3 DEF Entry
    <3> QED  BY <3>1 DEF OnItsWay, InBuffer
  <2>4. \A f \in 1..listed' : f \in 1..listed \/ f = listed + 1
    BY <1>1, <1>2
  <2> QED  BY <2>1, <2>2, <2>3, <2>4 DEF ArchiveInv, NoneLost
<1> QED  BY <1>5, <1>6, <1>7, <1>8, <1>9 DEF ArchiveInv

\* A message appended for worker w carries what it carries, and nothing else
\* moves.
LEMMA SendCarried ==
  ASSUME IInv, Carried, NEW w \in Workers, NEW m,
         network' = [network EXCEPT ![w] = Append(@, m)], UNCHANGED <<listed, queue>>,
         \A k \in 1..Len(m.ents) : InPlace(m.ents[k]),
         \A i \in 1..Len(buffer') : InPlace(buffer'[i])
  PROVE  /\ Carried'
         /\ \A f : InNetwork(f) => InNetwork(f)'
         /\ \A k \in 1..Len(m.ents) : InNetwork(m.ents[k].file)'
<1>1. /\ network[w] \in Seq(Message) /\ network'[w] = Append(network[w], m)
      /\ \A v \in Workers : v # w => network'[v] = network[v]
  BY DEF IInv, TypeOK, MessagesOK
<1>2. /\ Len(network[w]) \in Nat /\ Len(network'[w]) = Len(network[w]) + 1
      /\ network'[w][Len(network[w]) + 1] = m
      /\ \A i \in 1..Len(network[w]) : network'[w][i] = network[w][i]
  BY <1>1
<1>3. \A e : InPlace(e) => InPlace(e)'
  BY DEF InPlace
<1>4. \A v \in Workers : \A i \in 1..Len(network'[v]) :
        \A k \in 1..Len(network'[v][i].ents) : InPlace(network'[v][i].ents[k])
  <2> SUFFICES ASSUME NEW v \in Workers, NEW i \in 1..Len(network'[v]),
                      NEW k \in 1..Len(network'[v][i].ents)
               PROVE  InPlace(network'[v][i].ents[k])
    OBVIOUS
  <2>1. CASE v # w
    BY <1>1, <2>1 DEF Carried
  <2>2. CASE v = w /\ i \in 1..Len(network[w])
    BY <1>2, <2>2 DEF Carried
  <2>3. CASE v = w /\ i = Len(network[w]) + 1
    BY <1>2, <2>3
  <2> QED  BY <1>2, <2>1, <2>2, <2>3
<1>5. Carried'
  BY <1>4 DEF Carried, InPlace
<1>6. \A f : InNetwork(f) => InNetwork(f)'
  <2> SUFFICES ASSUME NEW f, NEW v \in Workers, NEW i \in 1..Len(network[v]),
                      \E k \in 1..Len(network[v][i].ents) : network[v][i].ents[k].file = f
               PROVE  InNetwork(f)'
    BY DEF InNetwork
  <2>1. i \in 1..Len(network'[v]) /\ network'[v][i] = network[v][i]
    BY <1>1, <1>2
  <2> QED  BY <2>1 DEF InNetwork
<1>7. ASSUME NEW k \in 1..Len(m.ents), NEW f, f = m.ents[k].file
      PROVE  InNetwork(f)'
  <2>1. Len(network[w]) + 1 \in 1..Len(network'[w])
    BY <1>2
  <2> QED  BY <1>2, <1>7, <2>1 DEF InNetwork
<1> QED  BY <1>5, <1>6, <1>7

LEMMA EndJobArchive == ASSUME IInv, ArchiveInv, EndJob PROVE ArchiveInv'
<1>1. /\ pc[0] = "build" /\ \A w \in Workers : pc'[w] = pc[w]
      /\ pc'[0] \in {"test_send", "wait_sends"}
      /\ pc'[0] = "wait_sends" => listed = NFiles
  BY MasterControl DEF EndJob
<1>2. /\ buffer' = << >>
      /\ UNCHANGED <<listed, off, index, queue, archive, stream, fileOff, pos>>
  BY DEF EndJob, listVars, workerVars, fileVars
<1>3. Together'
  BY <1>1, <1>2, MasterTogether DEF ArchiveInv
<1>4. Listing'
  BY <1>1, <1>2 DEF ArchiveInv, Listing, Titled, Indexed, AllListed
<1>5. Written'
  BY <1>1, <1>2, FrameWritten DEF ArchiveInv, SameStage, Titled, Closed
<1>6. /\ Carried'
      /\ \A f : InNetwork(f) => InNetwork(f)'
      /\ \A f : InBuffer(f) => InNetwork(f)'
  <2>1. CASE buffer = << >>
    <3>1. UNCHANGED <<listed, buffer, network, queue>>
      BY <1>2, <2>1 DEF EndJob
    <3>2. Carried'
      BY <3>1, FrameCarried DEF ArchiveInv
    <3>3. \A f : InNetwork(f) => InNetwork(f)'
      BY <3>1 DEF InNetwork
    <3> QED  BY <2>1, <3>2, <3>3 DEF InBuffer
  <2>2. CASE buffer # << >>
    <3>1. PICK m : m = [job |-> jobs + 1, tag |-> sendId, ents |-> buffer]
      OBVIOUS
    <3>2. network' = [network EXCEPT ![current] = Append(@, m)]
      BY <2>2, <3>1 DEF EndJob, Post
    <3>3. m.ents = buffer /\ current \in Workers
      BY <3>1 DEF IInv, TypeOK, ControlOK
    <3>4. Carried /\ \A k \in 1..Len(m.ents) : InPlace(m.ents[k])
      BY <3>3 DEF ArchiveInv, Carried
    <3> HIDE DEF InPlace
    <3>5. \A i \in 1..Len(buffer') : InPlace(buffer'[i])
      BY <1>2
    <3>6. /\ Carried'
          /\ \A f : InNetwork(f) => InNetwork(f)'
          /\ \A k \in 1..Len(m.ents) : InNetwork(m.ents[k].file)'
      BY <1>2, <3>2, <3>3, <3>4, <3>5, SendCarried
    <3>7. ASSUME NEW f, InBuffer(f) PROVE InNetwork(f)'
      <4>1. PICK k \in 1..Len(m.ents) : m.ents[k].file = f
        BY <3>3, <3>7 DEF InBuffer
      <4> QED  BY <3>6, <4>1
    <3> QED  BY <3>6, <3>7
  <2> QED  BY <2>1, <2>2
<1>7. NoneLost'
  <2>1. \A f : InQueue(f) => InQueue(f)'
    BY <1>2 DEF InQueue
  <2>2. \A f : OnItsWay(f) => OnItsWay(f)'
    BY <1>6, <2>1 DEF OnItsWay
  <2>3. \A f : Stored(f) => Stored(f)'
    BY <1>2 DEF Stored, Held
  <2> QED  BY <1>2, <2>2, <2>3 DEF ArchiveInv, NoneLost
<1> QED  BY <1>3, <1>4, <1>5, <1>6, <1>7 DEF ArchiveInv

LEMMA SendTerminateArchive == ASSUME IInv, ArchiveInv, SendTerminate PROVE ArchiveInv'
<1>1. /\ pc[0] = "terminate" /\ pc'[0] = "terminating" /\ \A w \in Workers : pc'[w] = pc[w]
  BY MasterControl DEF SendTerminate
<1>2. UNCHANGED <<listed, off, index, buffer, queue, archive, stream, fileOff, pos>>
  BY DEF SendTerminate, masterVars, listVars, packVars, workerVars, fileVars
<1>3. Together'
  BY <1>1, <1>2, MasterTogether DEF ArchiveInv
<1>4. Listing'
  BY <1>1, <1>2, FrameListing DEF ArchiveInv, AllListed, SameStage, Titled, Closed
<1>5. Written'
  BY <1>1, <1>2, FrameWritten DEF ArchiveInv, SameStage, Titled, Closed
<1>6. Carried' /\ \A f : InNetwork(f) => InNetwork(f)'
  <2>1. current \in Workers /\ Terminate.ents = << >>
    BY DEF IInv, TypeOK, ControlOK, Terminate
  <2>2. network' = [network EXCEPT ![current] = Append(@, Terminate)]
    BY DEF SendTerminate
  <2>3. \A k \in 1..Len(Terminate.ents) : InPlace(Terminate.ents[k])
    BY <2>1
  <2>4. Carried /\ \A i \in 1..Len(buffer') : InPlace(buffer'[i])
    BY <1>2 DEF ArchiveInv, Carried
  <2> QED  BY <1>2, <2>1, <2>2, <2>3, <2>4, SendCarried
<1>7. NoneLost'
  <2>1. \A f : (InQueue(f) => InQueue(f)') /\ (InBuffer(f) => InBuffer(f)')
    BY <1>2 DEF InQueue, InBuffer
  <2>2. \A f : OnItsWay(f) => OnItsWay(f)'
    BY <1>6, <2>1 DEF OnItsWay
  <2>3. \A f : Stored(f) => Stored(f)'
    BY <1>2 DEF Stored, Held
  <2> QED  BY <1>2, <2>2, <2>3 DEF ArchiveInv, NoneLost
<1> QED  BY <1>3, <1>4, <1>5, <1>6, <1>7 DEF ArchiveInv

\* A stream writes at the place the index gives, sought or not.
LEMMA LandingPlace ==
  ASSUME Written, NEW r \in Ranks, NEW e
  PROVE  Landing(r, e) = e.off
BY DEF Written, Landing, Seeks

\* Once the workers are past the last barrier but one, the file is complete.
LEMMA AllStored ==
  ASSUME IInv, DrainInv, ArchiveInv, pc[0] \in {"index", "index_copy"}
  PROVE  archive = Tar!Placed(Files) /\ listed = NFiles
<1> USE RanksFacts
<1>1. \A w \in Workers : pc[w] \in {"end", "done"}
  BY DEF ArchiveInv, Together
<1>2. listed = NFiles /\ buffer = << >>
  BY DEF ArchiveInv, Listing, AllListed
<1>3. \A w \in Workers : queue[w] = << >> /\ network[w] = << >> /\ stream[w] = {}
  BY <1>1 DEF DrainInv, Drained, Left, ArchiveInv, Written, Flushed
<1>4. \A f : ~ OnItsWay(f)
  BY <1>2, <1>3 DEF OnItsWay, InBuffer, InNetwork, InQueue
<1>5. \A r \in Ranks : stream[r] = {}
  <2>1. \A r \in Ranks : r = 0 \/ r \in Workers
    BY DEF Ranks, Workers
  <2> QED  BY <1>3, <2>1 DEF ArchiveInv, Written
<1>6. \A f \in Files : Extent(Layout[f], f) \in archive
  BY <1>2, <1>4, <1>5 DEF ArchiveInv, NoneLost, Stored, Held, Files
<1>7. archive \subseteq Tar!Placed(Files)
  BY <1>2 DEF ArchiveInv, Written, Indexed, Files
<1>8. Tar!Placed(Files) \subseteq archive
  BY <1>6 DEF Tar!Placed, Tar!Extent, Extent
<1> QED  BY <1>2, <1>7, <1>8

\* The end of the archive: the master's steps when the workers are done.
LEMMA CloseIndexArchive ==
  ASSUME IInv, DrainInv, ArchiveInv, CloseIndex
  PROVE  ArchiveInv'
<1> USE RanksFacts, NFilesAssumption
<1>1. /\ pc[0] = "index" /\ pc'[0] = "index_copy" /\ \A w \in Workers : pc'[w] = pc[w]
      /\ UNCHANGED <<listed, off, buffer, network, queue, archive, stream, fileOff, pos>>
  BY MasterControl DEF CloseIndex, packVars, workerVars, fileVars
<1>2. listed = NFiles /\ buffer = << >>
  BY <1>1 DEF ArchiveInv, Listing, AllListed
<1>3. PICK e : e = Entry(IndexFile, off)
  OBVIOUS
<1>4. index' = Append(index, e) /\ index \in Seq(Entries)
  BY <1>3 DEF CloseIndex, IInv, TypeOK, PackingOK
<1>5. off = Layout[IndexFile] /\ Len(index) = NFiles
  <2>1. Layout[IndexFile] \in Nat
    BY LayoutAssumption DEF Members
  <2> QED  BY <1>1, <1>2, <2>1 DEF ArchiveInv, Listing, Titled, Indexed, IndexFile
<1>6. Together'
  BY <1>1 DEF ArchiveInv, Together
<1>7. Listing'
  <2>1. /\ Len(index') = NFiles + 1 /\ index'[NFiles + 1] = e
        /\ \A i \in 1..NFiles : index'[i] = index[i]
    BY <1>4, <1>5
  <2>2. \A i \in 1..Len(index') : index'[i] = Entry(i, Layout[i])
    <3> SUFFICES ASSUME NEW i \in 1..(NFiles + 1) PROVE index'[i] = Entry(i, Layout[i])
      BY <2>1
    <3>1. CASE i \in 1..NFiles
      BY <1>5, <2>1, <3>1 DEF ArchiveInv, Listing
    <3>2. CASE i = NFiles + 1
      BY <1>3, <1>5, <2>1, <3>2 DEF IndexFile
    <3> QED  BY <3>1, <3>2
  <2>3. off' = Layout[listed' + 1] + 0
    <3>1. Layout[IndexFile] \in Nat
      BY LayoutAssumption DEF Members
    <3> QED  BY <1>1, <1>2, <1>5, <3>1 DEF IndexFile
  <2> QED  BY <1>1, <1>2, <2>1, <2>2, <2>3 DEF Listing, Titled, Indexed
<1>8. Carried'
  BY <1>1, FrameCarried DEF ArchiveInv
<1>9. Written'
  BY <1>1 DEF ArchiveInv, Written, Indexed, Closed
<1>10. NoneLost'
  BY <1>1, FrameLost DEF ArchiveInv
<1> QED  BY <1>6, <1>7, <1>8, <1>9, <1>10 DEF ArchiveInv

\* The files and the index file, in this module's words.
LEMMA WithTitle == Tar!Placed(Members) = Tar!Placed(Files) \cup {Title}
BY DEF Tar!Placed, Tar!Extent, Extent, Members, Title

\* What copying the index file leaves in the file and in the master's stream.
LEMMA StoreIndexFiles ==
  ASSUME IInv, DrainInv, ArchiveInv, StoreIndex
  PROVE  /\ archive = Tar!Placed(Files) /\ listed = NFiles
         /\ \/ stream'[0] = {Title} /\ archive' = Tar!Placed(Files)
            \/ stream'[0] = {} /\ archive' = Tar!Placed(Members)
         /\ \A w \in Workers : stream'[w] = stream[w]
         /\ \A r \in Ranks : pos'[r] = fileOff'[r]
<1> USE RanksFacts, NFilesAssumption
<1>1. pc[0] = "index_copy"
  BY DEF StoreIndex
<1>2. archive = Tar!Placed(Files) /\ listed = NFiles
  BY <1>1, AllStored
<1>3. PICK e : e = Entry(IndexFile, off)
  OBVIOUS
<1>4. off = Layout[IndexFile] /\ off \in Nat /\ e.file = IndexFile /\ e.off = off
  <2>1. Layout[IndexFile] \in Nat
    BY LayoutAssumption DEF Members
  <2> QED  BY <1>1, <1>2, <1>3, <2>1 DEF ArchiveInv, Listing, Indexed, IndexFile, Entry
<1>5. Landing(0, e) = off /\ stream[0] = {}
  BY <1>1, <1>4, LandingPlace DEF ArchiveInv, Written
<1>6. CopyFile(0, e)
  BY <1>3 DEF StoreIndex
<1>7. PICK kept \in {{Title}, {}} :
        /\ archive' = archive \cup ({Title} \ kept)
        /\ stream' = [stream EXCEPT ![0] = kept]
  BY <1>4, <1>5, <1>6 DEF CopyFile, Title
<1>8. stream'[0] = kept /\ \A w \in Workers : stream'[w] = stream[w]
  BY <1>7 DEF IInv, TypeOK, FilesOK
<1>9. \A r \in Ranks : pos'[r] = fileOff'[r]
  <2>1. /\ fileOff' = [fileOff EXCEPT ![0] = off + Size[IndexFile]]
        /\ pos' = [pos EXCEPT ![0] = off + Size[IndexFile]]
    BY <1>4, <1>5, <1>6 DEF CopyFile
  <2> QED  BY <2>1 DEF ArchiveInv, Written, IInv, TypeOK, FilesOK
<1>10. CASE kept = {Title}
  BY <1>2, <1>7, <1>8, <1>9, <1>10
<1>11. CASE kept = {}
  BY <1>2, <1>7, <1>8, <1>9, <1>11, WithTitle
<1> QED  BY <1>7, <1>10, <1>11

LEMMA StoreIndexArchive ==
  ASSUME IInv, DrainInv, ArchiveInv, StoreIndex
  PROVE  ArchiveInv'
<1> USE RanksFacts, NFilesAssumption
<1>1. /\ pc[0] = "index_copy" /\ pc'[0] = "index_end" /\ \A w \in Workers : pc'[w] = pc[w]
      /\ UNCHANGED <<listed, index, buffer, network, queue>>
      /\ off' = off + Size[IndexFile]
  BY MasterControl DEF StoreIndex, packVars, workerVars
<1>2. /\ archive = Tar!Placed(Files) /\ listed = NFiles
      /\ \/ stream'[0] = {Title} /\ archive' = Tar!Placed(Files)
         \/ stream'[0] = {} /\ archive' = Tar!Placed(Members)
      /\ \A w \in Workers : stream'[w] = stream[w]
      /\ \A r \in Ranks : pos'[r] = fileOff'[r]
  BY StoreIndexFiles
<1>3. Together'
  BY <1>1 DEF ArchiveInv, Together
<1>4. Listing'
  <2>1. off = Layout[listed + 1] + 0 /\ Layout[listed + 1] \in Nat
    BY <1>1, <1>2, LayoutAssumption DEF ArchiveInv, Listing, Indexed, Members, IndexFile
  <2>2. off' = Layout[listed' + 1] + Size[IndexFile]
    BY <1>1, <2>1
  <2>3. /\ Len(index) = listed + 1 /\ \A i \in 1..Len(index) : index[i] = Entry(i, Layout[i])
        /\ buffer = << >>
    BY <1>1 DEF ArchiveInv, Listing, Titled, AllListed
  <2> QED  BY <1>1, <1>2, <2>2, <2>3 DEF Listing, Titled, Indexed
<1>5. Carried'
  BY <1>1, FrameCarried DEF ArchiveInv
<1>6. Written'
  BY <1>1, <1>2 DEF ArchiveInv, Written, Indexed, Closed
<1>7. NoneLost'
  <2>1. \A f \in 1..listed' : Extent(Layout[f], f) \in Tar!Placed(Files)
    BY <1>1, <1>2, PlacedFacts DEF Files
  <2>2. Tar!Placed(Files) \subseteq archive'
    BY <1>2, WithTitle
  <2> QED  BY <2>1, <2>2 DEF NoneLost, Stored, Held
<1> QED  BY <1>3, <1>4, <1>5, <1>6, <1>7 DEF ArchiveInv

LEMMA EndArchiveArchive ==
  ASSUME IInv, ArchiveInv, EndArchive
  PROVE  ArchiveInv' /\ archive \in {Tar!Placed(Files), Tar!Placed(Members)}
         /\ archive' = Tar!Placed(Members)
<1> USE RanksFacts
<1>1. /\ pc[0] = "index_end" /\ pc'[0] = "end" /\ \A w \in Workers : pc'[w] = pc[w]
      /\ UNCHANGED <<listed, off, index, buffer, network, queue, fileOff, pos>>
      /\ archive' = archive \cup stream[0] /\ stream' = [stream EXCEPT ![0] = {}]
  BY MasterControl DEF EndArchive, masterVars, listVars, packVars, workerVars
<1>2. \/ stream[0] = {Title} /\ archive = Tar!Placed(Files)
      \/ stream[0] = {} /\ archive = Tar!Placed(Members)
  BY <1>1 DEF ArchiveInv, Written
<1>3. archive' = Tar!Placed(Members)
  BY <1>1, <1>2, WithTitle
<1>4. stream'[0] = {} /\ \A w \in Workers : stream'[w] = stream[w]
  BY <1>1 DEF IInv, TypeOK, FilesOK
<1>5. Together'
  BY <1>1 DEF ArchiveInv, Together
<1>6. Listing'
  BY <1>1 DEF ArchiveInv, Listing, Titled, Indexed, AllListed
<1>7. Carried'
  BY <1>1, FrameCarried DEF ArchiveInv
<1>8. Written'
  BY <1>1, <1>3, <1>4 DEF ArchiveInv, Written, Indexed
<1>9. NoneLost'
  <2>1. listed = NFiles
    BY <1>1 DEF ArchiveInv, Listing, AllListed
  <2>2. \A f \in 1..listed' : Extent(Layout[f], f) \in Tar!Placed(Files)
    BY <1>1, <2>1, PlacedFacts DEF Files
  <2>3. Tar!Placed(Files) \subseteq archive'
    BY <1>3, WithTitle
  <2> QED  BY <2>2, <2>3 DEF NoneLost, Stored, Held
<1> QED  BY <1>2, <1>3, <1>5, <1>6, <1>7, <1>8, <1>9 DEF ArchiveInv
-----------------------------------------------------------------------------
(* The workers *)

LEMMA IdleArchive ==
  ASSUME IInv, ArchiveInv, NEW w \in Workers, Reopen(w) \/ NoMessage(w) \/ NothingToCopy(w)
  PROVE  ArchiveInv'
<1> USE RanksFacts
<1>1. UNCHANGED <<listed, off, index, buffer, network, queue, archive, stream, fileOff, pos>>
  BY DEF Reopen, NoMessage, NothingToCopy, masterVars, workerVars, fileVars, listVars, packVars
<1>2. CASE pc' = pc
  <2>1. Together' /\ Listing'
    BY <1>1, <1>2 DEF ArchiveInv, Together, Listing
  <2>2. Carried'
    BY <1>1, FrameCarried DEF ArchiveInv
  <2>3. Written'
    BY <1>1, <1>2, FrameWritten DEF ArchiveInv, SameStage, Titled, Closed
  <2>4. NoneLost'
    BY <1>1, FrameLost DEF ArchiveInv
  <2> QED  BY <2>1, <2>2, <2>3, <2>4 DEF ArchiveInv
<1>3. CASE pc' # pc
  <2>1. PICK there \in {"probe", "copy", "flush"} : Goto(w, there)
    BY <1>3 DEF Reopen, NoMessage, NothingToCopy, LoopOrFlush
  <2>2. pc[w] \in {"reopen", "probe", "copy"}
    BY DEF Reopen, NoMessage, NothingToCopy
  <2>3. /\ Together' /\ pc'[0] = pc[0] /\ pc[0] \notin {"create", "index", "index_copy", "index_end", "end", "done"}
        /\ pc'[w] = there /\ \A v \in Workers : v # w => pc'[v] = pc[v]
    BY <1>1, <2>1, <2>2, WorkerTogether DEF ArchiveInv
  <2>4. Listing'
    BY <1>1, <2>3, FrameListing DEF ArchiveInv, SameStage, Titled, Closed
  <2>5. Written'
    BY <1>1, <2>1, <2>3, FrameWritten DEF ArchiveInv, Flushed, SameStage, Titled, Closed
  <2>6. Carried'
    BY <1>1, FrameCarried DEF ArchiveInv
  <2>7. NoneLost'
    BY <1>1, FrameLost DEF ArchiveInv
  <2> QED  BY <2>3, <2>4, <2>5, <2>6, <2>7 DEF ArchiveInv
<1> QED  BY <1>2, <1>3

LEMMA FlushArchive ==
  ASSUME IInv, ArchiveInv, NEW w \in Workers, Flush(w)
  PROVE  ArchiveInv'
<1> USE RanksFacts
<1>1. /\ UNCHANGED <<listed, off, index, buffer, network, queue, fileOff, pos>>
      /\ archive' = archive \cup stream[w] /\ stream' = [stream EXCEPT ![w] = {}]
      /\ pc[w] = "flush" /\ Goto(w, "closing")
  BY DEF Flush, masterVars, workerVars, listVars, packVars
<1>2. /\ Together' /\ pc'[0] = pc[0] /\ pc[0] \notin {"create", "index", "index_copy", "index_end", "end", "done"}
      /\ pc'[w] = "closing" /\ \A v \in Workers : v # w => pc'[v] = pc[v]
  BY <1>1, WorkerTogether DEF ArchiveInv
<1>3. Listing'
  BY <1>1, <1>2, FrameListing DEF ArchiveInv, SameStage, Titled, Closed
<1>4. stream \in [Ranks -> SUBSET Extents]
  BY DEF IInv, TypeOK, FilesOK
<1>5. Written'
  <2>1. Written /\ archive \subseteq Tar!Placed(1..listed)
    BY <1>2 DEF ArchiveInv, Written, Indexed
  <2>2. archive' \subseteq Tar!Placed(1..listed)
    BY <1>1, <2>1 DEF Written
  <2>3. /\ stream'[w] = {} /\ \A r \in Ranks : r # w => stream'[r] = stream[r]
        /\ stream[0] = {}
    BY <1>1, <1>2, <1>4, <2>1 DEF Written
  <2>4. /\ \A v \in Workers : stream'[v] \subseteq Tar!Placed(1..listed)
        /\ \A v \in Workers : pc'[v] \in Flushed => stream'[v] = {}
    BY <1>2, <2>1, <2>3 DEF Written
  <2> QED  BY <1>1, <1>2, <2>1, <2>2, <2>3, <2>4 DEF Written, Indexed, Closed
<1>6. Carried'
  BY <1>1, FrameCarried DEF ArchiveInv
<1>7. NoneLost'
  <2>1. \A f : OnItsWay(f) => OnItsWay(f)'
    BY <1>1 DEF OnItsWay, InBuffer, InNetwork, InQueue
  <2>2. \A x : Held(x) => Held(x)'
    BY <1>1, <1>4 DEF Held
  <2>3. \A f : Stored(f) => Stored(f)'
    BY <2>2 DEF Stored
  <2> QED  BY <1>1, <2>1, <2>3 DEF ArchiveInv, NoneLost
<1> QED  BY <1>2, <1>3, <1>5, <1>6, <1>7 DEF ArchiveInv

\* The files of a message come after those queued, as they were sent.
Delivered(q, m, q2) ==
  /\ \A i \in 1..Len(q) : i \in 1..Len(q2) /\ q2[i] = q[i]
  /\ \A i \in 1..Len(q2) : \/ i \in 1..Len(q) /\ q2[i] = q[i]
                           \/ \E k \in 1..Len(m.ents) : q2[i].ent = m.ents[k]
  /\ \A k \in 1..Len(m.ents) : \E i \in 1..Len(q2) : q2[i].ent = m.ents[k]

LEMMA FiledescsCarry ==
  ASSUME NEW m \in Message, NEW q \in Seq(Filedesc), NEW q2, q2 = q \o Filedescs(m)
  PROVE  Delivered(q, m, q2)
<1>1. Len(m.ents) \in Nat /\ DOMAIN m.ents = 1..Len(m.ents)
  <2>1. m.ents \in Seq(Entries)
    BY DEF Message
  <2> QED  BY <2>1
<1>2. PICK f : f = Filedescs(m)
  OBVIOUS
<1>3. /\ f \in Seq(Filedesc) /\ DOMAIN f = 1..Len(m.ents)
      /\ \A k \in 1..Len(m.ents) : f[k].ent = m.ents[k]
  BY <1>1, <1>2, FiledescsType DEF Filedescs
<1>4. Len(f) = Len(m.ents) /\ Len(q) \in Nat
  BY <1>1, <1>3
<1>5. /\ Len(q2) = Len(q) + Len(f)
      /\ \A i \in 1..Len(q2) : q2[i] = IF i <= Len(q) THEN q[i] ELSE f[i - Len(q)]
  BY <1>2, <1>3, ConcatProperties
<1>6. \A i \in 1..Len(q) : i \in 1..Len(q2) /\ q2[i] = q[i]
  BY <1>1, <1>4, <1>5
<1>7. ASSUME NEW i \in 1..Len(q2), i \notin 1..Len(q)
      PROVE  \E k \in 1..Len(m.ents) : q2[i].ent = m.ents[k]
  <2>1. i - Len(q) \in 1..Len(m.ents) /\ q2[i] = f[i - Len(q)]
    BY <1>1, <1>4, <1>5, <1>7
  <2> QED  BY <1>3, <2>1
<1>8. ASSUME NEW k \in 1..Len(m.ents)
      PROVE  \E i \in 1..Len(q2) : q2[i].ent = m.ents[k]
  <2>1. k + Len(q) \in 1..Len(q2) /\ q2[k + Len(q)] = f[k]
    BY <1>1, <1>4, <1>5
  <2> QED  BY <1>3, <2>1
<1> QED  BY <1>6, <1>7, <1>8 DEF Delivered

LEMMA ReceiveArchive ==
  ASSUME IInv, ArchiveInv, NEW w \in Workers, Receive(w)
  PROVE  ArchiveInv'
<1> USE RanksFacts
<1>1. /\ UNCHANGED <<listed, off, index, buffer, archive, stream, fileOff, pos>>
      /\ pc[w] = "probe" /\ Goto(w, "copy")
  BY DEF Receive, masterVars, fileVars, listVars, packVars
<1>2. /\ Together' /\ pc'[0] = pc[0] /\ pc[0] \notin {"create", "index", "index_copy", "index_end", "end", "done"}
      /\ pc'[w] = "copy" /\ \A v \in Workers : v # w => pc'[v] = pc[v]
  BY <1>1, WorkerTogether DEF ArchiveInv
<1>3. Listing'
  BY <1>1, <1>2, FrameListing DEF ArchiveInv, SameStage, Titled, Closed
<1>4. Written'
  BY <1>1, <1>2, FrameWritten DEF ArchiveInv, Flushed, SameStage, Titled, Closed
<1>5. PICK m : m = Head(network[w])
  OBVIOUS
<1>6. /\ network \in [Workers -> Seq(Message)] /\ queue \in [Workers -> Seq(Filedesc)]
      /\ network[w] \in Seq(Message) /\ network[w] # << >>
  BY DEF Receive, IInv, TypeOK, MessagesOK, QueuesOK
<1>7. /\ network'[w] = Tail(network[w]) /\ \A v \in Workers : v # w => network'[v] = network[v]
      /\ \A v \in Workers : v # w => queue'[v] = queue[v]
  BY <1>6 DEF Receive, TakeMessage
<1>8. /\ \A i \in 1..Len(network'[w]) : \E j \in 1..Len(network[w]) : network'[w][i] = network[w][j]
      /\ \A j \in 1..Len(network[w]) :
           network[w][j] = m \/ \E i \in 1..Len(network'[w]) : network'[w][i] = network[w][j]
      /\ 1 \in 1..Len(network[w]) /\ m = network[w][1] /\ m \in Message
  <2>1. Headless(network[w], network'[w])
    BY <1>6, <1>7, TailShift
  <2>2. m \in Message
    BY <1>5, <1>6
  <2> QED  BY <1>5, <2>1, <2>2 DEF Headless
<1>9. /\ \A i \in 1..Len(queue[w]) : i \in 1..Len(queue'[w]) /\ queue'[w][i] = queue[w][i]
      /\ \A i \in 1..Len(queue'[w]) :
           \/ i \in 1..Len(queue[w]) /\ queue'[w][i] = queue[w][i]
           \/ \E k \in 1..Len(m.ents) : queue'[w][i].ent = m.ents[k]
      /\ \A k \in 1..Len(m.ents) : \E i \in 1..Len(queue'[w]) : queue'[w][i].ent = m.ents[k]
  <2>1. CASE m.ents = << >>
    <3>1. queue'[w] = queue[w]
      BY <1>5, <2>1 DEF Receive, TakeMessage
    <3> QED  BY <2>1, <3>1
  <2>2. CASE m.ents # << >>
    <3>1. queue'[w] = queue[w] \o Filedescs(m) /\ queue[w] \in Seq(Filedesc)
      BY <1>5, <1>6, <2>2 DEF Receive, TakeMessage
    <3>2. Delivered(queue[w], m, queue'[w])
      BY <1>8, <3>1, FiledescsCarry
    <3> QED  BY <3>2 DEF Delivered
  <2> QED  BY <2>1, <2>2
<1>10. Carried'
  <2>1. \A e : InPlace(e) <=> InPlace(e)'
    BY <1>1 DEF InPlace
  <2>2. Carried
    BY DEF ArchiveInv
  <2>3. \A i \in 1..Len(buffer') : InPlace(buffer'[i])
    BY <1>1, <2>2 DEF Carried
  <2>4. \A v \in Workers : \A i \in 1..Len(network'[v]) :
          \A k \in 1..Len(network'[v][i].ents) : InPlace(network'[v][i].ents[k])
    <3> SUFFICES ASSUME NEW v \in Workers, NEW i \in 1..Len(network'[v])
                 PROVE  \A k \in 1..Len(network'[v][i].ents) : InPlace(network'[v][i].ents[k])
      OBVIOUS
    <3>1. \E j \in 1..Len(network[v]) : network'[v][i] = network[v][j]
      <4>1. CASE v = w
        BY <1>8, <4>1
      <4>2. CASE v # w
        BY <1>7, <4>2
      <4> QED  BY <4>1, <4>2
    <3> QED  BY <2>2, <3>1 DEF Carried
  <2>5. \A k \in 1..Len(m.ents) : InPlace(m.ents[k])
    BY <1>8, <2>2 DEF Carried
  <2>6. \A v \in Workers : \A i \in 1..Len(queue'[v]) : InPlace(queue'[v][i].ent)
    <3> SUFFICES ASSUME NEW v \in Workers, NEW i \in 1..Len(queue'[v])
                 PROVE  InPlace(queue'[v][i].ent)
      OBVIOUS
    <3>1. CASE i \in 1..Len(queue[v]) /\ queue'[v][i] = queue[v][i]
      BY <2>2, <3>1 DEF Carried
    <3>2. CASE \E k \in 1..Len(m.ents) : queue'[v][i].ent = m.ents[k]
      BY <2>5, <3>2
    <3>3. CASE v = w
      BY <1>9, <3>1, <3>2, <3>3
    <3>4. CASE v # w
      BY <1>7, <3>1, <3>4
    <3> QED  BY <3>3, <3>4
  <2> QED  BY <2>1, <2>3, <2>4, <2>6 DEF Carried, InPlace
<1>11. NoneLost'
  <2>1. \A f : Stored(f) => Stored(f)'
    BY <1>1 DEF Stored, Held
  <2>2. \A f : InBuffer(f) => InBuffer(f)'
    BY <1>1 DEF InBuffer
  <2>3. ASSUME NEW f, InQueue(f) PROVE InQueue(f)'
    <3>1. PICK v \in Workers : \E i \in 1..Len(queue[v]) : queue[v][i].ent.file = f
      BY <2>3 DEF InQueue
    <3>2. PICK i \in 1..Len(queue[v]) : queue[v][i].ent.file = f
      BY <3>1
    <3>3. i \in 1..Len(queue'[v]) /\ queue'[v][i] = queue[v][i]
      BY <1>7, <1>9
    <3> QED  BY <3>2, <3>3 DEF InQueue
  <2>4. ASSUME NEW f, InNetwork(f) PROVE InNetwork(f)' \/ InQueue(f)'
    <3>1. PICK v \in Workers : \E i \in 1..Len(network[v]) :
                  \E k \in 1..Len(network[v][i].ents) : network[v][i].ents[k].file = f
      BY <2>4 DEF InNetwork
    <3>2. PICK i \in 1..Len(network[v]) :
                  \E k \in 1..Len(network[v][i].ents) : network[v][i].ents[k].file = f
      BY <3>1
    <3>3. CASE \E j \in 1..Len(network'[v]) : network'[v][j] = network[v][i]
      <4>1. PICK j \in 1..Len(network'[v]) : network'[v][j] = network[v][i]
        BY <3>3
      <4>2. \E k \in 1..Len(network'[v][j].ents) : network'[v][j].ents[k].file = f
        BY <3>2, <4>1
      <4> QED  BY <4>2 DEF InNetwork
    <3>4. CASE v = w /\ network[v][i] = m
      <4>1. PICK k \in 1..Len(m.ents) : m.ents[k].file = f
        BY <3>2, <3>4
      <4>2. PICK j \in 1..Len(queue'[w]) : queue'[w][j].ent = m.ents[k]
        BY <1>9
      <4> QED  BY <4>1, <4>2 DEF InQueue
    <3>5. CASE v = w
      BY <1>8, <3>3, <3>4, <3>5
    <3>6. CASE v # w
      BY <1>7, <3>3, <3>6
    <3> QED  BY <3>5, <3>6
  <2> QED  BY <1>1, <2>1, <2>2, <2>3, <2>4 DEF ArchiveInv, NoneLost, OnItsWay
<1> QED  BY <1>2, <1>3, <1>4, <1>10, <1>11 DEF ArchiveInv

LEMMA CopyArchive ==
  ASSUME IInv, ArchiveInv, NEW w \in Workers, Copy(w)
  PROVE  ArchiveInv'
<1> USE RanksFacts
<1>1. PICK e : e = Head(queue[w]).ent
  OBVIOUS
<1>2. /\ CopyFile(w, e) /\ pc[w] = "copy" /\ queue' = [queue EXCEPT ![w] = Tail(@)]
      /\ UNCHANGED <<listed, off, index, buffer, network>>
  BY <1>1 DEF Copy, masterVars, listVars, packVars
<1>3. /\ Together' /\ pc'[0] = pc[0] /\ pc[0] \notin {"create", "index", "index_copy", "index_end", "end", "done"}
      /\ pc'[w] \in {"flush", "probe"} /\ \A v \in Workers : v # w => pc'[v] = pc[v]
  <2>1. PICK there \in {"flush", "probe"} : Goto(w, there)
    BY DEF Copy, LoopOrFlush
  <2> QED  BY <1>2, <2>1, WorkerTogether DEF ArchiveInv
<1>4. Listing'
  BY <1>2, <1>3, FrameListing DEF ArchiveInv, SameStage, Titled, Closed
<1>5. /\ queue \in [Workers -> Seq(Filedesc)] /\ queue[w] \in Seq(Filedesc) /\ queue[w] # << >>
      /\ queue'[w] = Tail(queue[w]) /\ \A v \in Workers : v # w => queue'[v] = queue[v]
  <2>1. queue \in [Workers -> Seq(Filedesc)] /\ queue[w] # << >>
    BY DEF Copy, IInv, TypeOK, QueuesOK
  <2> QED  BY <1>2, <2>1
<1>6. /\ \A i \in 1..Len(queue'[w]) : \E j \in 1..Len(queue[w]) : queue'[w][i] = queue[w][j]
      /\ \A j \in 1..Len(queue[w]) :
           queue[w][j].ent = e \/ \E i \in 1..Len(queue'[w]) : queue'[w][i] = queue[w][j]
      /\ 1 \in 1..Len(queue[w]) /\ e = queue[w][1].ent
  <2>1. Headless(queue[w], queue'[w])
    BY <1>5, TailShift
  <2> QED  BY <1>1, <2>1 DEF Headless
<1>7. InPlace(e)
  BY <1>6 DEF ArchiveInv, Carried
<1>8. PICK this : this = Extent(Layout[e.file], e.file)
  OBVIOUS
<1>9. /\ this = Extent(Landing(w, e), e.file) /\ this \in Tar!Placed(1..listed)
      /\ Landing(w, e) = e.off
  BY <1>7, <1>8, LandingPlace, PlacedFacts DEF ArchiveInv, InPlace
<1>10. PICK kept \in SUBSET (stream[w] \cup {this}) :
         /\ archive' = archive \cup ((stream[w] \cup {this}) \ kept)
         /\ stream' = [stream EXCEPT ![w] = kept]
  BY <1>2, <1>9 DEF CopyFile
<1>11. stream \in [Ranks -> SUBSET Extents]
  BY DEF IInv, TypeOK, FilesOK
<1>12. Written'
  <2>1. Written /\ archive \subseteq Tar!Placed(1..listed)
    BY <1>3 DEF ArchiveInv, Written, Indexed
  <2>2. /\ archive' \subseteq Tar!Placed(1..listed)
        /\ \A v \in Workers : stream'[v] \subseteq Tar!Placed(1..listed)
        /\ \A r \in Ranks : r # w => stream'[r] = stream[r]
    BY <1>9, <1>10, <1>11, <2>1 DEF Written
  <2>3. \A r \in Ranks : pos'[r] = fileOff'[r]
    <3>1. /\ fileOff' = [fileOff EXCEPT ![w] = e.off + Size[e.file]]
          /\ pos' = [pos EXCEPT ![w] = e.off + Size[e.file]]
      BY <1>2, <1>9 DEF CopyFile
    <3>2. fileOff \in [Ranks -> Nat] /\ pos \in [Ranks -> Nat]
      BY DEF IInv, TypeOK, FilesOK
    <3> QED  BY <2>1, <3>1, <3>2 DEF Written
  <2>4. \A v \in Workers : pc'[v] \in Flushed => v # w /\ stream'[v] = {}
    BY <1>3, <2>1, <2>2 DEF Written, Flushed
  <2>5. stream'[0] = {}
    BY <1>3, <2>1, <2>2 DEF Written
  <2> QED  BY <1>2, <1>3, <2>2, <2>3, <2>4, <2>5 DEF Written, Indexed, Closed
<1>13. Carried'
  <2>1. \A e2 : InPlace(e2) <=> InPlace(e2)'
    BY <1>2 DEF InPlace
  <2>2. Carried
    BY DEF ArchiveInv
  <2>3. \A v \in Workers : \A i \in 1..Len(queue'[v]) : InPlace(queue'[v][i].ent)
    <3> SUFFICES ASSUME NEW v \in Workers, NEW i \in 1..Len(queue'[v])
                 PROVE  InPlace(queue'[v][i].ent)
      OBVIOUS
    <3>1. \E j \in 1..Len(queue[v]) : queue'[v][i] = queue[v][j]
      <4>1. CASE v = w
        BY <1>6, <4>1
      <4>2. CASE v # w
        BY <1>5, <4>2
      <4> QED  BY <4>1, <4>2
    <3> QED  BY <2>2, <3>1 DEF Carried
  <2>4. \A i \in 1..Len(buffer') : InPlace(buffer'[i])
    BY <1>2, <2>2 DEF Carried
  <2>5. \A v \in Workers : \A i \in 1..Len(network'[v]) :
          \A k \in 1..Len(network'[v][i].ents) : InPlace(network'[v][i].ents[k])
    BY <1>2, <2>2 DEF Carried
  <2> QED  BY <2>1, <2>3, <2>4, <2>5 DEF Carried, InPlace
<1>14. NoneLost'
  <2>1. ASSUME NEW x, Held(x) \/ x = this PROVE Held(x)'
    <3>1. stream'[w] = kept /\ \A r \in Ranks : r # w => stream'[r] = stream[r]
      BY <1>10, <1>11
    <3>2. \A y \in stream[w] \cup {this} : y \in archive' \/ y \in stream'[w]
      BY <1>10, <3>1
    <3>3. \A r \in Ranks : \A y \in stream[r] : y \in archive' \/ \E q \in Ranks : y \in stream'[q]
      BY <3>1, <3>2
    <3>4. archive \subseteq archive'
      BY <1>10
    <3> QED  BY <2>1, <3>2, <3>3, <3>4 DEF Held
  <2>2. ASSUME NEW f, Stored(f) \/ f = e.file PROVE Stored(f)'
    BY <1>8, <2>1, <2>2 DEF Stored
  <2>3. \A f : (InBuffer(f) => InBuffer(f)') /\ (InNetwork(f) => InNetwork(f)')
    BY <1>2 DEF InBuffer, InNetwork
  <2>4. ASSUME NEW f, InQueue(f) PROVE f = e.file \/ InQueue(f)'
    <3>1. PICK v \in Workers : \E i \in 1..Len(queue[v]) : queue[v][i].ent.file = f
      BY <2>4 DEF InQueue
    <3>2. PICK j \in 1..Len(queue[v]) : queue[v][j].ent.file = f
      BY <3>1
    <3>3. CASE \E i \in 1..Len(queue'[v]) : queue'[v][i] = queue[v][j]
      <4>1. PICK i \in 1..Len(queue'[v]) : queue'[v][i] = queue[v][j]
        BY <3>3
      <4>2. queue'[v][i].ent.file = f
        BY <3>2, <4>1
      <4> QED  BY <4>2 DEF InQueue
    <3>4. CASE queue[v][j].ent = e
      BY <3>2, <3>4
    <3>5. CASE v = w
      BY <1>6, <3>3, <3>4, <3>5
    <3>6. CASE v # w
      BY <1>5, <3>3, <3>6
    <3> QED  BY <3>5, <3>6
  <2> QED  BY <1>2, <2>2, <2>3, <2>4 DEF ArchiveInv, NoneLost, OnItsWay
<1> QED  BY <1>3, <1>4, <1>12, <1>13, <1>14 DEF ArchiveInv
-----------------------------------------------------------------------------
LEMMA BarrierArchive ==
  ASSUME IInv, ArchiveInv, NEW b \in Barriers, Barrier(b)
  PROVE  ArchiveInv'
<1> USE RanksFacts
<1>1. UNCHANGED <<listed, off, index, buffer, network, queue, archive, stream, fileOff, pos>>
  BY DEF Barrier, masterVars, workerVars, fileVars, listVars, packVars
<1>2. /\ \A r \in Ranks : pc[r] = b /\ pc'[r] = AfterBarrier(r, b)
      /\ b \in {"opened", "closing", "end"}
  BY DEF Barrier, Barriers
<1>3. Together'
  BY <1>1, <1>2 DEF ArchiveInv, Together, AfterBarrier
<1>8. /\ pc[0] = b /\ pc'[0] = AfterBarrier(0, b)
      /\ \A w \in Workers : pc[w] = b /\ pc'[w] = AfterBarrier(w, b)
  BY <1>2
<1>9. /\ SameStage
      /\ pc'[0] \in AllListed => pc[0] \in AllListed
      /\ pc[0] # "create"
      /\ \A w \in Workers : pc'[w] \in Flushed => pc[w] \in Flushed
  BY <1>2, <1>8 DEF AfterBarrier, SameStage, Titled, Closed, AllListed, Flushed
<1>4. Listing'
  BY <1>1, <1>9, FrameListing DEF ArchiveInv, SameStage, Titled, Closed
<1>5. Written'
  BY <1>1, <1>9, FrameWritten DEF ArchiveInv, SameStage, Titled, Closed
<1>6. Carried'
  BY <1>1, FrameCarried DEF ArchiveInv
<1>7. NoneLost'
  BY <1>1, FrameLost DEF ArchiveInv
<1> QED  BY <1>3, <1>4, <1>5, <1>6, <1>7 DEF ArchiveInv

LEMMA ExitArchive ==
  ASSUME IInv, ArchiveInv, NEW r \in Ranks, Exit(r)
  PROVE  ArchiveInv'
<1> USE RanksFacts
<1>1. /\ UNCHANGED <<pc, listed, off, index, buffer, network, queue, fileOff, pos>>
      /\ archive' = archive \cup stream[r] /\ stream' = [stream EXCEPT ![r] = {}]
      /\ pc[r] \in IOPoints
  BY DEF Exit, masterVars, workerVars, listVars, packVars
<1>2. stream \in [Ranks -> SUBSET Extents]
  BY DEF IInv, TypeOK, FilesOK
<1>3. Together' /\ Listing'
  BY <1>1 DEF ArchiveInv, Together, Listing
<1>4. Carried'
  BY <1>1, FrameCarried DEF ArchiveInv
<1>5. r = 0 \/ r \in Workers
  BY DEF Ranks, Workers
<1>6. Written'
  <2>1. Written
    BY DEF ArchiveInv
  <2>2. stream'[r] = {} /\ \A q \in Ranks : q # r => stream'[q] = stream[q]
    BY <1>1, <1>2
  <2>3. CASE r \in Workers
    <3>1. pc[0] \notin {"index", "index_copy", "index_end", "end", "done"}
      BY <1>1, <2>3 DEF ArchiveInv, Together, IOPoints
    <3>2. stream'[0] = {}
      BY <2>1, <2>2, <2>3, <3>1 DEF Written
    <3>3. \A w \in Workers : stream'[w] \subseteq stream[w]
      BY <2>2
    <3>4. pc[0] # "create" => archive' \subseteq Tar!Placed(1..listed)
      BY <1>1, <2>1, <2>3, <3>1 DEF Written, Indexed
    <3> QED  BY <1>1, <2>1, <3>1, <3>2, <3>3, <3>4 DEF Written, Indexed, Closed
  <2>4. CASE r = 0 /\ pc[0] # "index_end"
    <3>1. stream[0] = {}
      BY <2>1, <2>4 DEF Written
    <3>2. archive' = archive /\ \A q \in Ranks : stream'[q] = stream[q]
      BY <1>1, <2>2, <2>4, <3>1
    <3> QED  BY <1>1, <2>1, <3>2 DEF Written
  <2>5. CASE r = 0 /\ pc[0] = "index_end"
    <3>1. \/ stream[0] = {Title} /\ archive = Tar!Placed(Files)
          \/ stream[0] = {} /\ archive = Tar!Placed(Members)
      BY <2>1, <2>5 DEF Written
    <3>2. archive' = Tar!Placed(Members)
      BY <1>1, <2>5, <3>1, WithTitle
    <3> QED  BY <1>1, <2>1, <2>2, <2>5, <3>2 DEF Written, Indexed, Closed
  <2> QED  BY <1>5, <2>3, <2>4, <2>5
<1>7. NoneLost'
  <2>1. \A f : OnItsWay(f) => OnItsWay(f)'
    BY <1>1 DEF OnItsWay, InBuffer, InNetwork, InQueue
  <2>2. \A x : Held(x) => Held(x)'
    BY <1>1, <1>2 DEF Held
  <2>3. \A f : Stored(f) => Stored(f)'
    BY <2>2 DEF Stored
  <2> QED  BY <1>1, <2>1, <2>3 DEF ArchiveInv, NoneLost
<1> QED  BY <1>3, <1>4, <1>6, <1>7 DEF ArchiveInv
-----------------------------------------------------------------------------
LEMMA ArchiveNext == ASSUME IInv, DrainInv, ArchiveInv, [Next]_vars PROVE ArchiveInv'
<1>1. CASE UNCHANGED vars
  <2>1. UNCHANGED <<pc, listed, off, index, buffer, network, queue, archive, stream, fileOff, pos>>
    BY <1>1 DEF vars, masterVars, listVars, packVars, workerVars, fileVars
  <2>2. Together' /\ Listing'
    BY <2>1 DEF ArchiveInv, Together, Listing
  <2>3. Written'
    BY <2>1, FrameWritten DEF ArchiveInv, SameStage, Titled, Closed
  <2>4. Carried'
    BY <2>1, FrameCarried DEF ArchiveInv
  <2>5. NoneLost'
    BY <2>1, FrameLost DEF ArchiveInv
  <2> QED  BY <2>2, <2>3, <2>4, <2>5 DEF ArchiveInv
<1>2. CASE Master
  BY <1>2, QuietArchive, CreateArchive, AddEntryArchive, EndJobArchive, SendTerminateArchive,
     CloseIndexArchive, StoreIndexArchive, EndArchiveArchive DEF Master
<1>3. CASE \E w \in Workers : Worker(w)
  BY <1>3, IdleArchive, FlushArchive, ReceiveArchive, CopyArchive DEF Worker
<1>4. CASE \E b \in Barriers : Barrier(b)
  BY <1>4, BarrierArchive
<1>5. CASE \E r \in Ranks : Exit(r)
  BY <1>5, ExitArchive
<1> QED  BY <1>1, <1>2, <1>3, <1>4, <1>5 DEF Next

LEMMA InitArchive == Init => ArchiveInv
<1> SUFFICES ASSUME Init PROVE ArchiveInv
  OBVIOUS
<1> USE RanksFacts
<1>1. Together
  BY DEF Init, Together
<1>2. Listing
  BY LayoutAssumption, NFilesAssumption DEF Init, Listing, Titled, Indexed, AllListed
<1>3. Carried
  BY DEF Init, Carried
<1>4. Written
  BY DEF Init, Written, Flushed, Indexed, Closed
<1>5. NoneLost
  BY DEF Init, NoneLost
<1> QED  BY <1>1, <1>2, <1>3, <1>4, <1>5 DEF ArchiveInv

\* The invariants of the protocol, its end and its archive hold together.
FileInv == IInv /\ DrainInv /\ ArchiveInv

LEMMA FileInvHolds == Spec => []FileInv
<1>1. Init => FileInv
  BY InitIInv, InitDrain, InitArchive DEF FileInv
<1>2. NoAbortInv => IInv
  BY DEF NoAbortInv
<1>3. IInv /\ FileInv /\ [Next]_vars => DrainInv' /\ ArchiveInv'
  BY DrainNext, ArchiveNext DEF FileInv
<1>4. IInv' /\ DrainInv' /\ ArchiveInv' => FileInv'
  BY DEF FileInv
<1> QED  BY <1>1, <1>2, <1>3, <1>4, InvariantHolds, PTL DEF Spec

\* Whatever the interleaving, every member in the archive or in a stream of the
\* C library is where its line of the index says, also when ranks fail, and a
\* complete archive has all the members (mpitar.cpp:46-48 and 303-341).
THEOREM IndexLocates == Spec => []IndexLocatesMembers
<1>1. FileInv => IndexLocatesMembers
  <2> SUFFICES ASSUME FileInv, exists, pc[0] # "create" PROVE IndexLocatesMembers
    BY DEF IndexLocatesMembers
  <2> USE NFilesAssumption, RanksFacts DEF FileInv, ArchiveInv
  <2>1. DOMAIN index = 1..Len(index) /\ listed \in 0..NFiles
    BY DEF IInv, TypeOK, PackingOK
  <2>4. \A r \in Ranks : r = 0 \/ r \in Workers
    BY DEF Ranks, Workers
  <2>2. CASE pc[0] \notin Indexed
    <3>1. ASSUME NEW x \in archive \cup UNION {stream[r] : r \in Ranks}
          PROVE  x.file \in DOMAIN index /\ index[x.file] = Entry(x.file, x.at)
      <4>1. x \in Tar!Placed(1..listed)
        <5>1. archive \subseteq Tar!Placed(1..listed) /\ stream[0] = {}
          BY <2>2 DEF Written, Indexed
        <5> QED  BY <2>4, <3>1, <5>1 DEF Written
      <4>2. PICK f \in 1..listed : x = Extent(Layout[f], f)
        BY <4>1, PlacedFacts
      <4>3. Len(index) \in {listed, listed + 1}
        <5>1. Len(index) = listed + (IF pc[0] \in Titled THEN 1 ELSE 0)
          BY DEF Listing
        <5> QED  BY <2>1, <5>1
      <4>4. f \in 1..Len(index) /\ index[f] = Entry(f, Layout[f])
        BY <2>1, <4>2, <4>3 DEF Listing
      <4> QED  BY <2>1, <4>2, <4>4 DEF Extent
    <3> QED  BY <2>2, <3>1 DEF IndexLocatesMembers, Indexed
  <2>3. CASE pc[0] \in Indexed
    <3>1. listed = NFiles /\ Len(index) = NFiles + 1
          /\ \A i \in 1..(NFiles + 1) : index[i] = Entry(i, Layout[i])
      BY <2>1, <2>3 DEF Listing, Titled, Indexed, AllListed
    <3>2. /\ pc[0] \in {"end", "done"} => archive = Tar!Placed(Members)
          /\ archive \subseteq Tar!Placed(Members)
          /\ stream[0] \subseteq Tar!Placed(Members)
      <4>1. CASE pc[0] = "index_end"
        BY <4>1, WithTitle DEF Written
      <4>2. CASE pc[0] \in Closed
        BY <4>2 DEF Written, Closed
      <4> QED  BY <2>3, <4>1, <4>2 DEF Indexed, Closed
    <3>3. Members = 1..(NFiles + 1)
      BY DEF Members, Files, IndexFile
    <3>4. \A r \in Ranks : stream[r] \subseteq Tar!Placed(Members)
      <4>1. Tar!Placed(1..listed) \subseteq Tar!Placed(Members)
        BY <3>1 DEF Tar!Placed, Members, Files
      <4> QED  BY <2>4, <3>2, <4>1 DEF Written
    <3>5. ASSUME NEW x \in archive \cup UNION {stream[r] : r \in Ranks}
          PROVE  x.file \in DOMAIN index /\ index[x.file] = Entry(x.file, x.at)
      <4>1. PICK f \in Members : x = Extent(Layout[f], f)
        BY <3>2, <3>4, <3>5, PlacedFacts
      <4> QED  BY <2>1, <3>1, <3>3, <4>1 DEF Extent
    <3>6. ASSUME pc[0] \in {"end", "done"}
          PROVE  \A i \in DOMAIN index : Extent(index[i].off, i) \in archive
      BY <2>1, <3>1, <3>2, <3>3, <3>6, PlacedFacts DEF Entry
    <3> QED  BY <3>1, <3>5, <3>6 DEF IndexLocatesMembers
  <2> QED  BY <2>2, <2>3
<1> QED  BY <1>1, FileInvHolds, PTL
-----------------------------------------------------------------------------
(* The steps of TarArchive. *)

\* A step that keeps the archive and the master's part of the run stutters.
LEMMA TarStutter ==
  ASSUME UNCHANGED archive, pc'[0] = "create" <=> pc[0] = "create",
         pc'[0] \in Closed <=> pc[0] \in Closed
  PROVE  UNCHANGED Tar!vars
BY DEF Tar!vars, Closed

\* Whatever a rank writes out of its stream is a set of members not stored yet.
LEMMA TarStore ==
  ASSUME archive \subseteq archive', archive' \subseteq Tar!Placed(Files),
         UNCHANGED pc \/ (pc'[0] = pc[0]), pc[0] # "create", pc[0] \notin Closed
  PROVE  Tar!Next
<1> DEFINE S == {f \in Files : Extent(Layout[f], f) \in archive' /\ Extent(Layout[f], f) \notin archive}
<1>1. \A x \in archive' : \E f \in Files : x = Extent(Layout[f], f)
  BY PlacedFacts
<1>2. archive' = archive \cup Tar!Placed(S)
  BY <1>1 DEF Tar!Placed, Tar!Extent, Extent
<1>3. S \cap {x.file : x \in archive} = {}
  BY <1>1 DEF Extent
<1>4. Tar!Store(S)
  BY <1>2, <1>3 DEF Tar!Store, Closed
<1>5. S \in SUBSET Tar!Files
  BY DEF Tar!Files, Files
<1> QED  BY <1>4, <1>5 DEF Tar!Next

LEMMA TarStep ==
  ASSUME FileInv, FileInv', [Next]_vars
  PROVE  [Tar!Next]_(Tar!vars)
<1> USE RanksFacts DEF FileInv
<1>1. CASE UNCHANGED vars
  BY <1>1, TarStutter DEF vars, fileVars
<1>2. CASE Create
  <2>1. pc[0] = "create" /\ pc'[0] = "opened" /\ archive' = {}
    BY <1>2, MasterControl DEF Create
  <2> QED  BY <2>1 DEF Tar!Next, Tar!Truncate
<1>3. CASE StoreIndex
  <2>1. pc[0] = "index_copy" /\ pc'[0] = "index_end"
    BY <1>3, MasterControl DEF StoreIndex
  <2>2. archive = Tar!Placed(Files)
        /\ (archive' = Tar!Placed(Files) \/ archive' = Tar!Placed(Members))
    BY <1>3, StoreIndexFiles
  <2>3. CASE archive' = Tar!Placed(Members)
    <3>1. Tar!StoreIndex
      BY <2>1, <2>2, <2>3 DEF Tar!StoreIndex, Tar!Files, Tar!Members, Tar!IndexFile, Files,
         Members, IndexFile, Closed
    <3> QED  BY <3>1 DEF Tar!Next
  <2>4. CASE archive' = Tar!Placed(Files)
    BY <2>1, <2>2, <2>4, TarStutter DEF Closed
  <2> QED  BY <2>2, <2>3, <2>4
<1>8. CASE EndArchive
  <2>1. pc[0] = "index_end" /\ pc'[0] = "end"
    BY <1>8, MasterControl DEF EndArchive
  <2>2. archive \in {Tar!Placed(Files), Tar!Placed(Members)} /\ archive' = Tar!Placed(Members)
    BY <1>8, EndArchiveArchive
  <2>3. Tar!Close
    BY <2>1, <2>2 DEF Tar!Close, Tar!Files, Tar!Members, Tar!IndexFile, Files, Members,
       IndexFile, Closed
  <2> QED  BY <2>3 DEF Tar!Next
<1>4. CASE Master /\ ~ Create /\ ~ StoreIndex /\ ~ EndArchive
  <2>1. UNCHANGED archive
    BY <1>4 DEF Master, OpenIndex, TestSends, CollectAck, EndCollect, SkipWorker, StartJob,
                AddEntry, EndJob, WaitSends, WaitRecvs, SendTerminate, TerminateSent, CloseIndex,
                fileVars
  <2>2. /\ pc[0] # "create" /\ pc[0] \notin Closed
        /\ UNCHANGED pc \/ \E there : Goto(0, there) /\ there # "create" /\ there \notin Closed
    <3>1. TestSends \/ EndCollect \/ SkipWorker => <2>2
      BY DEF TestSends, EndCollect, SkipWorker, Closed
    <3>4. WaitSends \/ WaitRecvs \/ SendTerminate => <2>2
      BY DEF WaitSends, WaitRecvs, SendTerminate, Closed
    <3>6. OpenIndex \/ CloseIndex => <2>2
      BY DEF OpenIndex, CloseIndex, Closed
    <3>2. (\E a \in acks : CollectAck(a)) \/ AddEntry => <2>2
      BY DEF CollectAck, AddEntry, Closed
    <3>5. StartJob => <2>2
      BY DEF StartJob, Closed
    <3>3. EndJob \/ TerminateSent => <2>2
      BY DEF EndJob, TerminateSent, Closed
    <3> QED  BY <1>4, <3>1, <3>2, <3>3, <3>4, <3>5, <3>6 DEF Master
  <2>3. pc'[0] # "create" /\ pc'[0] \notin Closed
    BY <2>2, MasterControl
  <2> QED  BY <2>1, <2>2, <2>3, TarStutter
<1>5. CASE \E w \in Workers : Worker(w)
  <2>1. PICK w \in Workers : Worker(w)
    BY <1>5
  <2>2. CASE Reopen(w) \/ Receive(w) \/ NoMessage(w) \/ NothingToCopy(w)
    <3>1. UNCHANGED archive
      BY <2>2 DEF Reopen, Receive, NoMessage, NothingToCopy, fileVars
    <3>2. UNCHANGED pc \/ \E there : Goto(w, there)
      BY <2>2 DEF Reopen, Receive, NoMessage, NothingToCopy, LoopOrFlush
    <3>3. pc'[0] = pc[0]
      BY <3>2, WorkerControl
    <3> QED  BY <3>1, <3>3, TarStutter
  <2>3. CASE Copy(w) \/ Flush(w)
    <3>1. /\ \E there : Goto(w, there)
          /\ pc[w] \in {"copy", "flush"} /\ archive \subseteq archive'
      BY <2>3 DEF Copy, CopyFile, Flush, LoopOrFlush
    <3>2. pc'[0] = pc[0] /\ pc[0] # "create" /\ pc[0] \notin Indexed /\ pc[0] \notin Closed
      BY <3>1, WorkerControl DEF ArchiveInv, Together, Indexed, Closed
    <3>3. archive' \subseteq Tar!Placed(1..listed')
      BY <3>2 DEF ArchiveInv, Written
    <3>4. Tar!Placed(1..listed') \subseteq Tar!Placed(Files)
      <4>1. 1..listed' \subseteq Files
        BY NFilesAssumption DEF IInv, TypeOK, PackingOK, Files
      <4> QED  BY <4>1, PlacedFacts
    <3> QED  BY <3>1, <3>2, <3>3, <3>4, TarStore
  <2> QED  BY <2>1, <2>2, <2>3 DEF Worker
<1>6. CASE \E b \in Barriers : Barrier(b)
  <2>1. PICK b \in Barriers : Barrier(b)
    BY <1>6
  <2>2. UNCHANGED archive /\ pc[0] = b /\ pc'[0] = AfterBarrier(0, b)
    BY <2>1 DEF Barrier, fileVars
  <2>3. b \in {"opened", "closing", "end"}
    BY DEF Barriers
  <2>4. /\ pc'[0] = "create" <=> pc[0] = "create"
        /\ pc'[0] \in Closed <=> pc[0] \in Closed
    BY <2>2, <2>3 DEF AfterBarrier, Closed
  <2> QED  BY <2>2, <2>4, TarStutter
<1>7. CASE \E r \in Ranks : Exit(r)
  <2>1. PICK r \in Ranks : Exit(r)
    BY <1>7
  <2>2. UNCHANGED pc /\ archive' = archive \cup stream[r]
    BY <2>1 DEF Exit
  <2>6. stream[0] = {} \/ pc[0] = "index_end"
    BY DEF ArchiveInv, Written
  <2>7. r = 0 \/ r \in Workers
    BY DEF Ranks, Workers
  <2>3. CASE r \in Workers
    <3>1. pc[0] \notin {"index", "index_copy", "index_end", "end", "done"}
      BY <2>1, <2>3 DEF Exit, ArchiveInv, Together, IOPoints
    <3>2. CASE pc[0] # "create"
      <4>1. archive' \subseteq Tar!Placed(1..listed')
        BY <2>2, <3>1, <3>2 DEF ArchiveInv, Written, Indexed
      <4>2. Tar!Placed(1..listed') \subseteq Tar!Placed(Files)
        <5>1. 1..listed' \subseteq Files
          BY NFilesAssumption DEF IInv, TypeOK, PackingOK, Files
        <5> QED  BY <5>1, PlacedFacts
      <4> QED  BY <2>2, <3>1, <3>2, <4>1, <4>2, TarStore DEF Closed
    <3>3. CASE pc[0] = "create"
      <4>1. Tar!Placed(1..0) = {} /\ listed = 0
        BY <3>3 DEF Tar!Placed, ArchiveInv, Together
      <4>2. stream[r] = {}
        BY <2>3, <4>1 DEF ArchiveInv, Written
      <4> QED  BY <2>2, <4>2, TarStutter
    <3> QED  BY <3>2, <3>3
  <2>4. CASE r = 0 /\ pc[0] # "index_end"
    BY <2>2, <2>4, <2>6, TarStutter
  <2>5. CASE r = 0 /\ pc[0] = "index_end"
    <3>1. \/ stream[0] = {Title} /\ archive = Tar!Placed(Files)
          \/ stream[0] = {} /\ archive = Tar!Placed(Members)
      BY <2>5 DEF ArchiveInv, Written
    <3>2. CASE stream[0] = {}
      BY <2>2, <2>5, <3>2, TarStutter
    <3>3. CASE stream[0] = {Title} /\ archive = Tar!Placed(Files)
      <4>1. archive' = Tar!Placed(Members)
        BY <2>2, <2>5, <3>3, WithTitle
      <4>2. Tar!StoreIndex
        BY <2>2, <2>5, <3>3, <4>1 DEF Tar!StoreIndex, Tar!Files, Tar!Members, Tar!IndexFile,
           Files, Members, IndexFile, Closed
      <4> QED  BY <4>2 DEF Tar!Next
    <3> QED  BY <3>1, <3>2, <3>3
  <2> QED  BY <2>3, <2>4, <2>5, <2>7
<1> QED  BY <1>1, <1>2, <1>3, <1>4, <1>5, <1>6, <1>7, <1>8 DEF Next, Master

\* However many workers write to the file at once, through however many
\* buffers, and whichever of them fails, the archive goes through the steps of a
\* sequential tar: emptied once, each file stored once at its own offset, and
\* the index added only when all the files are in it (mpitar.cpp:46-48).
THEOREM ImplementsTar == Spec => TarSpec
<1>1. Init => Tar!Init
  BY RanksFacts DEF Init, Tar!Init
<1>2. FileInv /\ FileInv' /\ [Next]_vars => [Tar!Next]_(Tar!vars)
  BY TarStep
<1> QED  BY <1>1, <1>2, FileInvHolds, PTL DEF Spec, TarSpec, Tar!Spec
-----------------------------------------------------------------------------
(* The progress shown.  Every byte of the archive handed out is in one      *)
(* place: with the job being packed, in a job assigned to a worker, copied  *)
(* but not acked, in an ack, or counted by the master.                      *)

Place(at, w, j) == [at |-> at, worker |-> w, job |-> j]
Free            == Place("free", 0, 0)
Packing         == Place("packing", 0, 0)
Assigned(w, j)  == Place("assigned", w, j)
Copied(w)       == Place("copied", w, 0)
Acked(w, j)     == Place("acked", w, j)
Counted         == Place("counted", 0, 0)

\* Where the bytes are: own[b] is the place of byte b.
Span(e)        == e.off .. (e.off + Size[e.file] - 1)
In(own, e, p)  == \A b \in Span(e) : own[b] = p
Apart(e, f)    == \A b \in Span(e) : b \notin Span(f)
At(own, p)     == {b \in Nat : own[b] = p}
Bytes(own, p)  == Cardinality(At(own, p))

\* The entries of s are in place p and do not overlap.
Holds(own, s, p) ==
  \A i \in 1..Len(s) :
    In(own, s[i], p) /\ \A k \in 1..Len(s) : k # i => Apart(s[i], s[k])

HandedOut(own) == \A b \in Nat : own[b] # Free => b < off
InMessages(own) ==
  \A w \in Workers : \A i \in 1..Len(network[w]) :
    Holds(own, network[w][i].ents, Assigned(w, network[w][i].job))
InQueueOf(own, w) ==
  \A i \in 1..Len(queue[w]) :
    /\ In(own, queue[w][i].ent, Assigned(w, queue[w][i].job))
    /\ \A k \in 1..Len(queue[w]) : k # i => Apart(queue[w][i].ent, queue[w][k].ent)
InQueues(own) == \A w \in Workers : InQueueOf(own, w)
InChunks(own) == \A w \in Workers : chunk[w] = Bytes(own, Copied(w))
InAcks(own) ==
  /\ \A a \in acks : a.bytes = Bytes(own, Acked(a.worker, a.job))
  /\ \A b \in Nat : \A w \in Workers, j \in Nat : own[b] = Acked(w, j) =>
       \E a \in acks : a.worker = w /\ a.job = j

Account(own) ==
  /\ HandedOut(own) /\ Holds(own, buffer, Packing) /\ InMessages(own) /\ InQueues(own)
  /\ InChunks(own) /\ InAcks(own) /\ progress = Bytes(own, Counted)

\* The final MPI_Waitall takes the last acks and does not count them.
Accounted == pc[0] \notin AfterWait => \E own : Account(own)

ProgressInv == Accounted /\ ProgressWithinTotal
-----------------------------------------------------------------------------
LEMMA PlacesDiffer ==
  /\ Free # Packing /\ Free # Counted /\ Packing # Counted
  /\ \A w, j : /\ Assigned(w, j) \notin {Free, Packing, Counted}
               /\ Copied(w) \notin {Free, Packing, Counted}
               /\ Acked(w, j) \notin {Free, Packing, Counted}
  /\ \A w, j, v, i : /\ Assigned(w, j) # Copied(v) /\ Assigned(w, j) # Acked(v, i)
                     /\ Copied(w) # Acked(v, i)
                     /\ Assigned(w, j) = Assigned(v, i) => w = v /\ j = i
                     /\ Acked(w, j) = Acked(v, i) => w = v /\ j = i
                     /\ Copied(w) = Copied(v) => w = v
BY DEF Place, Free, Packing, Assigned, Copied, Acked, Counted

LEMMA SpanFacts ==
  ASSUME NEW e \in Entries
  PROVE  /\ Span(e) \subseteq Nat /\ IsFiniteSet(Span(e))
         /\ Cardinality(Span(e)) = Size[e.file] /\ Size[e.file] \in Nat \ {0}
<1>1. e.off \in Nat /\ Size[e.file] \in Nat \ {0}
  BY SizeAssumption DEF Entries
<1>2. PICK a \in Int, b \in Int : a = e.off /\ b = e.off + Size[e.file] - 1
  BY <1>1
<1>3. Span(e) = a..b /\ a <= b /\ b - a + 1 = Size[e.file] /\ a \in Nat
  BY <1>1, <1>2 DEF Span
<1>4. IsFiniteSet(a..b) /\ Cardinality(a..b) = b - a + 1
  BY <1>3, FS_Interval
<1> QED  BY <1>1, <1>3, <1>4

\* No place but Free holds more bytes than are handed out.
LEMMA BytesFacts ==
  ASSUME NEW own, HandedOut(own), off \in Nat, NEW p, p # Free
  PROVE  /\ IsFiniteSet(At(own, p)) /\ Bytes(own, p) \in Nat /\ Bytes(own, p) <= off
<1>1. At(own, p) \subseteq 0..(off - 1)
  BY DEF At, HandedOut
<1>2. IsFiniteSet(0..(off - 1)) /\ Cardinality(0..(off - 1)) = off
  BY FS_Interval
<1>3. IsFiniteSet(At(own, p)) /\ Cardinality(At(own, p)) <= off
  BY <1>1, <1>2, FS_Subset
<1> QED  BY <1>3, FS_CardinalityType DEF Bytes

\* Two disjoint sets of bytes.
LEMMA BytesAdd ==
  ASSUME NEW S, NEW T, IsFiniteSet(S), IsFiniteSet(T), S \cap T = {}
  PROVE  Cardinality(S \cup T) = Cardinality(S) + Cardinality(T)
<1>1. Cardinality(S) \in Nat /\ Cardinality(T) \in Nat
  BY FS_CardinalityType
<1>2. Cardinality(S \cap T) = 0
  BY FS_EmptySet
<1>3. Cardinality(S \cup T) = Cardinality(S) + Cardinality(T) - Cardinality(S \cap T)
  BY FS_Union
<1> QED  BY <1>1, <1>2, <1>3

\* What is written down of the bytes does not change if nothing moves.
LEMMA FrameAccount ==
  ASSUME NEW own, Account(own),
         UNCHANGED <<off, progress, buffer, network, acks, queue, chunk>>
  PROVE  Account(own)'
BY DEF Account, HandedOut, InMessages, InQueues, InQueueOf, InChunks, InAcks

\* Entries in messages and queues stay where they are if their bytes do.
LEMMA StillThere ==
  ASSUME IInv, NEW own, NEW own2, InMessages(own), InQueues(own),
         \A x \in Entries : \A w, j : In(own, x, Assigned(w, j)) => In(own2, x, Assigned(w, j))
  PROVE  InMessages(own2) /\ InQueues(own2)
<1>1. ASSUME NEW w \in Workers, NEW i \in 1..Len(network[w])
      PROVE  Holds(own2, network[w][i].ents, Assigned(w, network[w][i].job))
  <2>1. network[w][i].ents \in Seq(Entries)
    BY JobNumbers DEF Message
  <2>2. Holds(own, network[w][i].ents, Assigned(w, network[w][i].job))
    BY DEF InMessages
  <2> QED  BY <2>1, <2>2, ElementOfSeq DEF Holds
<1>2. ASSUME NEW w \in Workers PROVE InQueueOf(own2, w)
  <2>1. \A i \in 1..Len(queue[w]) : queue[w][i].ent \in Entries
    BY JobNumbers DEF Filedesc
  <2>2. InQueueOf(own, w)
    BY DEF InQueues
  <2> QED  BY <2>1, <2>2 DEF InQueueOf
<1> QED  BY <1>1, <1>2 DEF InMessages, InQueues

LEMMA AddEntryAccount ==
  ASSUME IInv, NEW own, Account(own), AddEntry
  PROVE  \E own2 : Account(own2)'
<1> USE PlacesDiffer
<1>1. PICK e : e = Entry(listed + 1, off)
  OBVIOUS
<1>2. /\ e \in Entries /\ e.off = off /\ off \in Nat /\ off' = off + Size[e.file]
      /\ buffer \in Seq(Entries) /\ buffer' = Append(buffer, e)
      /\ UNCHANGED <<progress, network, acks, queue, chunk>>
  <2>1. listed + 1 \in Members /\ off \in Nat /\ buffer \in Seq(Entries)
    BY NFilesAssumption DEF AddEntry, IInv, TypeOK, PackingOK, Members, Files
  <2> QED  BY <1>1, <2>1 DEF AddEntry, Entry, Entries, workerVars
<1>3. PICK own2 : own2 = [b \in Nat |-> IF b \in Span(e) THEN Packing ELSE own[b]]
  OBVIOUS
<1>4. /\ \A b \in Nat : own2[b] = IF b \in Span(e) THEN Packing ELSE own[b]
      /\ Span(e) \subseteq Nat /\ Size[e.file] \in Nat \ {0}
  BY <1>2, <1>3, SpanFacts
<1>5. HandedOut(own) /\ \A b \in Span(e) : own[b] = Free /\ b < off'
  <2>1. \A b \in Span(e) : b >= off /\ b < off'
    BY <1>2, <1>4 DEF Span
  <2> QED  BY <1>2, <1>4, <2>1 DEF Account, HandedOut
<1>6. ASSUME NEW x \in Entries, NEW p, p # Free, In(own, x, p)
      PROVE  In(own2, x, p) /\ Apart(x, e) /\ Apart(e, x)
  <2>1. Span(x) \subseteq Nat
    BY SpanFacts
  <2>2. \A b \in Span(x) : b \notin Span(e)
    BY <1>5, <1>6 DEF In
  <2> QED  BY <1>4, <1>6, <2>1, <2>2 DEF In, Apart
<1>7. \A p : p \notin {Free, Packing} => At(own2, p) = At(own, p)
  BY <1>4, <1>5 DEF At
<1>8. HandedOut(own2)'
  <2> SUFFICES ASSUME NEW b \in Nat, own2[b] # Free PROVE b < off'
    BY DEF HandedOut
  <2>1. CASE b \in Span(e)
    BY <1>5, <2>1
  <2>2. CASE b \notin Span(e)
    <3>1. b < off
      BY <1>4, <1>5, <2>2 DEF HandedOut
    <3> QED  BY <1>2, <1>4, <3>1
  <2> QED  BY <2>1, <2>2
<1>9. Holds(own2, buffer, Packing)'
  <2>1. /\ Len(buffer) \in Nat /\ Len(buffer') = Len(buffer) + 1
        /\ buffer'[Len(buffer) + 1] = e
        /\ \A i \in 1..Len(buffer) : buffer'[i] = buffer[i] /\ buffer[i] \in Entries
    BY <1>2, AppendProperties, LenProperties, ElementOfSeq
  <2>2. In(own2, e, Packing)
    BY <1>4 DEF In
  <2>3. \A i \in 1..Len(buffer) : /\ In(own2, buffer[i], Packing)
                                  /\ Apart(buffer[i], e) /\ Apart(e, buffer[i])
    BY <1>6, <2>1 DEF Account, Holds
  <2>4. \A i \in 1..Len(buffer'), k \in 1..Len(buffer') :
          In(own2, buffer'[i], Packing) /\ (k # i => Apart(buffer'[i], buffer'[k]))
    <3> SUFFICES ASSUME NEW i \in 1..Len(buffer'), NEW k \in 1..Len(buffer')
                 PROVE  In(own2, buffer'[i], Packing) /\ (k # i => Apart(buffer'[i], buffer'[k]))
      OBVIOUS
    <3>1. \A n \in 1..Len(buffer') : n \in 1..Len(buffer) \/ n = Len(buffer) + 1
      BY <2>1
    <3>2. CASE i \in 1..Len(buffer) /\ k \in 1..Len(buffer)
      BY <2>1, <2>3, <3>2 DEF Account, Holds
    <3>3. CASE i = Len(buffer) + 1 \/ k = Len(buffer) + 1
      BY <2>1, <2>2, <2>3, <3>1, <3>3
    <3> QED  BY <3>1, <3>2, <3>3
  <2> QED  BY <2>4 DEF Holds
<1>10. InMessages(own2) /\ InQueues(own2)
  BY <1>6, StillThere DEF Account
<1>11. InMessages(own2)' /\ InQueues(own2)'
  BY <1>2, <1>10 DEF InMessages, InQueues, InQueueOf
<1>12. InChunks(own2)' /\ progress' = Bytes(own2, Counted)
  BY <1>2, <1>7 DEF Account, InChunks, Bytes
<1>13. InAcks(own2)'
  <2>1. InAcks(own)
    BY DEF Account
  <2>2. \A a \in acks' : a.bytes = Bytes(own2, Acked(a.worker, a.job))
    BY <1>2, <1>7, <2>1 DEF InAcks, Bytes
  <2>3. \A b \in Nat : \A w \in Workers, j \in Nat : own2[b] = Acked(w, j) =>
          \E a \in acks' : a.worker = w /\ a.job = j
    BY <1>2, <1>4, <2>1 DEF InAcks
  <2> QED  BY <2>2, <2>3 DEF InAcks
<1>14. Account(own2)'
  BY <1>8, <1>9, <1>10, <1>11, <1>12, <1>13 DEF Account, Bytes, At
<1> QED  BY <1>14

LEMMA EndJobAccount ==
  ASSUME IInv, NEW own, Account(own), EndJob
  PROVE  \E own2 : Account(own2)'
<1> USE PlacesDiffer
<1>1. PICK w \in Workers, j \in Nat : w = current /\ j = jobs + 1
  BY DEF IInv, TypeOK, ControlOK, RequestsOK
<1>2. PICK own2 : own2 = [b \in Nat |-> IF own[b] = Packing THEN Assigned(w, j) ELSE own[b]]
  OBVIOUS
<1>3. \A b \in Nat : own2[b] = IF own[b] = Packing THEN Assigned(w, j) ELSE own[b]
  BY <1>2
<1>4. /\ UNCHANGED <<off, progress, acks, queue, chunk>> /\ buffer' = << >>
      /\ buffer \in Seq(Entries) /\ network \in [Workers -> Seq(Message)]
  BY DEF EndJob, listVars, workerVars, IInv, TypeOK, PackingOK, MessagesOK
<1>5. ASSUME NEW x \in Entries, NEW p, p # Packing, In(own, x, p)
      PROVE  In(own2, x, p)
  BY <1>3, <1>5, SpanFacts DEF In
<1>6. \A p : (p # Packing /\ \A v, i : p # Assigned(v, i)) => At(own2, p) = At(own, p)
  BY <1>3 DEF At
<1>7. HandedOut(own2)' /\ Holds(own2, buffer, Packing)'
  BY <1>3, <1>4 DEF Account, HandedOut, Holds
<1>8. InMessages(own2) /\ InQueues(own2)
  BY <1>5, StillThere DEF Account
<1>9. Holds(own2, buffer, Assigned(w, j))
  <2>1. \A i \in 1..Len(buffer) : buffer[i] \in Entries
    BY <1>4, ElementOfSeq
  <2>2. ASSUME NEW x \in Entries, In(own, x, Packing) PROVE In(own2, x, Assigned(w, j))
    BY <1>3, <2>2, SpanFacts DEF In
  <2> QED  BY <2>1, <2>2 DEF Account, Holds
<1>10. InMessages(own2)'
  <2> SUFFICES ASSUME NEW v \in Workers, NEW i \in 1..Len(network'[v])
               PROVE  Holds(own2, network'[v][i].ents, Assigned(v, network'[v][i].job))
    BY DEF InMessages, Holds
  <2>1. CASE network'[v] = network[v]
    BY <1>8, <2>1 DEF InMessages
  <2>2. CASE network'[v] # network[v]
    <3>1. PICK m : m = [job |-> jobs + 1, tag |-> sendId, ents |-> buffer]
      OBVIOUS
    <3>2. v = w /\ network'[w] = Append(network[w], m)
      BY <1>1, <1>4, <2>2, <3>1 DEF EndJob, Post
    <3>3. /\ Len(network[w]) \in Nat /\ Len(network'[w]) = Len(network[w]) + 1
          /\ network'[w][Len(network[w]) + 1] = m
          /\ \A k \in 1..Len(network[w]) : network'[w][k] = network[w][k]
      BY <1>4, <3>2
    <3>4. CASE i \in 1..Len(network[w])
      BY <1>8, <3>2, <3>3, <3>4 DEF InMessages
    <3>5. CASE i = Len(network[w]) + 1
      <4>1. network'[v][i] = m /\ m.ents = buffer /\ m.job = j
        BY <1>1, <3>1, <3>2, <3>3, <3>5
      <4> QED  BY <1>9, <3>2, <4>1
    <3> QED  BY <3>2, <3>3, <3>4, <3>5
  <2> QED  BY <2>1, <2>2
<1>11. InQueues(own2)'
  BY <1>4, <1>8 DEF InQueues, InQueueOf
<1>12. InChunks(own2)' /\ progress' = Bytes(own2, Counted)
  BY <1>4, <1>6 DEF Account, InChunks, Bytes
<1>13. InAcks(own2)'
  <2>1. InAcks(own)
    BY DEF Account
  <2>2. \A a \in acks' : a.bytes = Bytes(own2, Acked(a.worker, a.job))
    BY <1>4, <1>6, <2>1 DEF InAcks, Bytes
  <2>3. ASSUME NEW b \in Nat, NEW v \in Workers, NEW i \in Nat, own2[b] = Acked(v, i)
        PROVE  \E a \in acks' : a.worker = v /\ a.job = i
    <3>1. own[b] = Acked(v, i)
      BY <1>3, <2>3
    <3> QED  BY <1>4, <2>1, <3>1 DEF InAcks
  <2> QED  BY <2>2, <2>3 DEF InAcks
<1>14. Account(own2)'
  BY <1>7, <1>10, <1>11, <1>12, <1>13 DEF Account, Bytes, At
<1> QED  BY <1>14

\* An ack that is counted was the only one of its job.
LEMMA CollectAckAccount ==
  ASSUME IInv, AckInv, NEW own, Account(own), NEW a \in acks, CollectAck(a)
  PROVE  \E own2 : Account(own2)'
<1> USE PlacesDiffer
<1>1. PICK w \in Workers, j \in Nat : w = a.worker /\ j = a.job
  BY DEF IInv, TypeOK, MessagesOK, Ack
<1>2. PICK own2 : own2 = [b \in Nat |-> IF own[b] = Acked(w, j) THEN Counted ELSE own[b]]
  OBVIOUS
<1>3. \A b \in Nat : own2[b] = IF own[b] = Acked(w, j) THEN Counted ELSE own[b]
  BY <1>2
<1>4. /\ UNCHANGED <<off, buffer, network, queue, chunk>>
      /\ acks' = acks \ {a} /\ progress' = progress + a.bytes
      /\ buffer \in Seq(Entries) /\ off \in Nat /\ acks \subseteq Ack
  BY DEF CollectAck, listVars, packVars, workerVars, IInv, TypeOK, PackingOK, MessagesOK
<1>5. ASSUME NEW x \in Entries, NEW p, p # Acked(w, j), In(own, x, p)
      PROVE  In(own2, x, p)
  BY <1>3, <1>5, SpanFacts DEF In
<1>6. \A p : p # Acked(w, j) /\ p # Counted => At(own2, p) = At(own, p)
  BY <1>3 DEF At
<1>7. HandedOut(own2)'
  BY <1>3, <1>4 DEF Account, HandedOut
<1>8. Holds(own2, buffer, Packing)'
  BY <1>4, <1>5, ElementOfSeq DEF Account, Holds
<1>9. InMessages(own2) /\ InQueues(own2)
  BY <1>5, StillThere DEF Account
<1>10. InMessages(own2)' /\ InQueues(own2)'
  BY <1>4, <1>9 DEF InMessages, InQueues, InQueueOf
<1>11. InChunks(own2)'
  BY <1>4, <1>6 DEF Account, InChunks, Bytes
<1>12. progress' = Bytes(own2, Counted)
  <2>1. At(own2, Counted) = At(own, Counted) \cup At(own, Acked(w, j))
        /\ At(own, Counted) \cap At(own, Acked(w, j)) = {}
    BY <1>3 DEF At
  <2>2. IsFiniteSet(At(own, Counted)) /\ IsFiniteSet(At(own, Acked(w, j)))
    BY <1>4, BytesFacts DEF Account
  <2>3. Bytes(own2, Counted) = Bytes(own, Counted) + Bytes(own, Acked(w, j))
    BY <2>1, <2>2, BytesAdd DEF Bytes
  <2> QED  BY <1>1, <1>4, <2>3 DEF Account, InAcks
<1>13. InAcks(own2)'
  <2>1. InAcks(own)
    BY DEF Account
  <2>2. ASSUME NEW c \in acks' PROVE c.bytes = Bytes(own2, Acked(c.worker, c.job))
    <3>1. c \in acks /\ c # a
      BY <1>4
    <3>2. c.worker # w \/ c.job # j
      BY <1>1, <3>1 DEF AckInv, AckInvOf, InOrder, AcksFirst
    <3>3. At(own2, Acked(c.worker, c.job)) = At(own, Acked(c.worker, c.job))
      BY <1>6, <3>2
    <3> QED  BY <2>1, <3>1, <3>3 DEF InAcks, Bytes
  <2>3. ASSUME NEW b \in Nat, NEW v \in Workers, NEW i \in Nat, own2[b] = Acked(v, i)
        PROVE  \E c \in acks' : c.worker = v /\ c.job = i
    <3>1. own[b] = Acked(v, i) /\ (v # w \/ i # j)
      BY <1>3, <2>3
    <3>2. PICK c \in acks : c.worker = v /\ c.job = i
      BY <2>1, <3>1 DEF InAcks
    <3> QED  BY <1>1, <1>4, <3>1, <3>2
  <2> QED  BY <2>2, <2>3 DEF InAcks
<1>14. Account(own2)'
  BY <1>7, <1>8, <1>9, <1>10, <1>11, <1>12, <1>13 DEF Account, Bytes, At
<1> QED  BY <1>14

\* The files of message m, put behind those of q.
From(file, m, k)  == file.ent = m.ents[k] /\ file.job = m.job
Joined(q, m, q2) ==
  \A i \in 1..Len(q2) :
    \/ i \in 1..Len(q) /\ q2[i] = q[i]
    \/ \E k \in 1..Len(m.ents) : i = Len(q) + k /\ From(q2[i], m, k)

LEMMA FilesJoin ==
  ASSUME NEW m \in Message, NEW q \in Seq(Filedesc), NEW q2, q2 = q \o Filedescs(m)
  PROVE  Joined(q, m, q2)
<1>1. Len(m.ents) \in Nat /\ DOMAIN m.ents = 1..Len(m.ents) /\ Len(q) \in Nat
  <2>1. m.ents \in Seq(Entries)
    BY DEF Message
  <2> QED  BY <2>1
<1>2. PICK f : f = Filedescs(m)
  OBVIOUS
<1>3. f \in Seq(Filedesc) /\ DOMAIN f = 1..Len(m.ents)
  BY <1>1, <1>2, FiledescsType DEF Filedescs
<1>4. Len(f) = Len(m.ents)
  BY <1>1, <1>3, LenProperties
<1>5. \A k \in 1..Len(m.ents) : From(f[k], m, k)
  BY <1>1, <1>2 DEF Filedescs, From
<1>6. /\ Len(q2) = Len(q) + Len(f)
      /\ \A i \in 1..Len(q) + Len(f) : q2[i] = IF i <= Len(q) THEN q[i] ELSE f[i - Len(q)]
  BY <1>2, <1>3, ConcatProperties
<1>7. ASSUME NEW i \in 1..Len(q2), i \notin 1..Len(q)
      PROVE  \E k \in 1..Len(m.ents) : i = Len(q) + k /\ From(q2[i], m, k)
  <2>1. PICK k \in 1..Len(m.ents) : i = Len(q) + k
    <3>1. i - Len(q) \in 1..Len(m.ents) /\ i = Len(q) + (i - Len(q))
      BY <1>1, <1>4, <1>6, <1>7
    <3> QED  BY <3>1
  <2>2. q2[i] = f[k]
    BY <1>1, <1>4, <1>6, <1>7, <2>1
  <2> QED  BY <1>5, <2>1, <2>2
<1>8. \A i \in 1..Len(q) : i \in 1..Len(q2) => q2[i] = q[i]
  BY <1>1, <1>6
<1> QED  BY <1>7, <1>8 DEF Joined

\* The files received belong to a job that no file in the queue belongs to.
LEMMA ReceiveAccount ==
  ASSUME IInv, NEW own, Account(own), NEW w \in Workers, Receive(w)
  PROVE  Account(own)'
<1> USE PlacesDiffer
<1>1. /\ network \in [Workers -> Seq(Message)] /\ queue \in [Workers -> Seq(Filedesc)]
      /\ network[w] \in Seq(Message) /\ network[w] # << >> /\ queue[w] \in Seq(Filedesc)
  BY DEF Receive, IInv, TypeOK, MessagesOK, QueuesOK
<1>2. /\ network'[w] = Tail(network[w])
      /\ \A v \in Workers : v # w => network'[v] = network[v] /\ queue'[v] = queue[v]
      /\ UNCHANGED <<off, progress, buffer, acks, chunk>>
  BY <1>1 DEF Receive, TakeMessage, masterVars, listVars, packVars
<1>3. PICK m : m = Head(network[w])
  OBVIOUS
<1>4. /\ \A i \in 1..Len(network'[w]) : \E k \in 1..Len(network[w]) :
           network'[w][i] = network[w][k]
      /\ 1 \in 1..Len(network[w]) /\ m = network[w][1] /\ m \in Message
  <2>1. Headless(network[w], network'[w])
    BY <1>1, <1>2, TailShift
  <2> QED  BY <1>1, <1>3, <2>1, ElementOfSeq DEF Headless
<1>5. InMessages(own)'
  <2> SUFFICES ASSUME NEW v \in Workers, NEW i \in 1..Len(network'[v])
               PROVE  Holds(own, network'[v][i].ents, Assigned(v, network'[v][i].job))
    BY DEF InMessages, Holds
  <2>1. \E k \in 1..Len(network[v]) : network'[v][i] = network[v][k]
    <3>1. CASE v = w
      BY <1>4, <3>1
    <3>2. CASE v # w
      BY <1>2, <3>2
    <3> QED  BY <3>1, <3>2
  <2> QED  BY <2>1 DEF Account, InMessages
<1>6. InQueueOf(own, w)'
  <2>1. InQueueOf(own, w)
    BY DEF Account, InQueues
  <2>2. CASE m.ents = << >>
    <3>1. queue' = queue
      BY <1>3, <2>2 DEF Receive, TakeMessage
    <3> QED  BY <2>1, <3>1 DEF InQueueOf
  <2>3. CASE m.ents # << >>
    <3>1. queue'[w] = queue[w] \o Filedescs(m)
      BY <1>1, <1>3, <2>3 DEF Receive, TakeMessage
    <3>2. Joined(queue[w], m, queue'[w])
      BY <1>1, <1>4, <3>1, FilesJoin
    <3>5. \A i \in 1..Len(queue'[w]) :
            \/ i \in 1..Len(queue[w]) /\ queue'[w][i] = queue[w][i]
            \/ \E k \in 1..Len(m.ents) : i = Len(queue[w]) + k /\ From(queue'[w][i], m, k)
      BY <3>2 DEF Joined
    <3>6. Holds(own, m.ents, Assigned(w, m.job))
      BY <1>4 DEF Account, InMessages
    <3>7. \A k \in 1..Len(queue[w]) : queue[w][k].job # m.job
      <4>1. m.job # 0
        BY <1>4, <2>3, JobNumbers
      <4> QED  BY <1>4, <4>1 DEF IInv, InNetworkOnly
    <3>8. ASSUME NEW i \in 1..Len(queue[w]), NEW k \in 1..Len(m.ents)
          PROVE  Apart(queue[w][i].ent, m.ents[k]) /\ Apart(m.ents[k], queue[w][i].ent)
      <4>1. In(own, queue[w][i].ent, Assigned(w, queue[w][i].job))
        BY <2>1 DEF InQueueOf
      <4>2. In(own, m.ents[k], Assigned(w, m.job))
        BY <3>6 DEF Holds
      <4>3. Assigned(w, queue[w][i].job) # Assigned(w, m.job)
        BY <3>7
      <4> QED  BY <4>1, <4>2, <4>3 DEF In, Apart
    <3>9. ASSUME NEW i \in 1..Len(queue'[w])
          PROVE  In(own, queue'[w][i].ent, Assigned(w, queue'[w][i].job))
      <4>1. CASE i \in 1..Len(queue[w]) /\ queue'[w][i] = queue[w][i]
        BY <2>1, <4>1 DEF InQueueOf
      <4>2. CASE \E k \in 1..Len(m.ents) : From(queue'[w][i], m, k)
        BY <3>6, <4>2 DEF Holds, From
      <4> QED  BY <3>5, <4>1, <4>2
    <3>10. ASSUME NEW i \in 1..Len(queue'[w]), NEW k \in 1..Len(queue'[w]), k # i
           PROVE  Apart(queue'[w][i].ent, queue'[w][k].ent)
      <4>1. CASE i \in 1..Len(queue[w]) /\ queue'[w][i] = queue[w][i]
        <5>1. CASE k \in 1..Len(queue[w]) /\ queue'[w][k] = queue[w][k]
          BY <2>1, <3>10, <4>1, <5>1 DEF InQueueOf
        <5>2. CASE \E n \in 1..Len(m.ents) : From(queue'[w][k], m, n)
          BY <3>8, <4>1, <5>2 DEF From
        <5> QED  BY <3>5, <5>1, <5>2
      <4>2. CASE \E n \in 1..Len(m.ents) : i = Len(queue[w]) + n /\ From(queue'[w][i], m, n)
        <5>1. PICK n \in 1..Len(m.ents) : i = Len(queue[w]) + n /\ From(queue'[w][i], m, n)
          BY <4>2
        <5>2. CASE k \in 1..Len(queue[w]) /\ queue'[w][k] = queue[w][k]
          BY <3>8, <5>1, <5>2 DEF From
        <5>3. CASE \E l \in 1..Len(m.ents) : k = Len(queue[w]) + l /\ From(queue'[w][k], m, l)
          <6>1. PICK l \in 1..Len(m.ents) : k = Len(queue[w]) + l /\ From(queue'[w][k], m, l)
            BY <5>3
          <6>2. n # l
            BY <3>10, <5>1, <6>1
          <6> QED  BY <3>6, <5>1, <6>1, <6>2 DEF Holds, From
        <5> QED  BY <3>5, <5>2, <5>3
      <4> QED  BY <3>5, <4>1, <4>2
    <3> QED  BY <3>9, <3>10 DEF InQueueOf
  <2> QED  BY <2>2, <2>3
<1>7. \A v \in Workers : v # w => InQueueOf(own, v)'
  BY <1>2 DEF Account, InQueues, InQueueOf
<1>8. InQueues(own)'
  BY <1>6, <1>7 DEF InQueues
<1>9. HandedOut(own)' /\ InChunks(own)' /\ InAcks(own)'
  BY <1>2 DEF Account, HandedOut, InChunks, InAcks
<1> QED  BY <1>2, <1>5, <1>8, <1>9 DEF Account

\* The bytes of the file copied go to the worker's chunk, and with its other
\* copied bytes into the ack of a job that has not been acked.
LEMMA CopyAccount ==
  ASSUME IInv, AckInv, NEW own, Account(own), NEW w \in Workers, Copy(w)
  PROVE  \E own2 : Account(own2)'
<1> USE PlacesDiffer
<1>1. /\ queue \in [Workers -> Seq(Filedesc)] /\ chunk \in [Workers -> Nat]
      /\ queue[w] \in Seq(Filedesc) /\ queue[w] # << >>
      /\ buffer \in Seq(Entries) /\ off \in Nat /\ acks \subseteq Ack
  BY DEF Copy, IInv, TypeOK, QueuesOK, PackingOK, MessagesOK
<1>2. PICK file, e, j : file = Head(queue[w]) /\ e = file.ent /\ j = file.job
  OBVIOUS
<1>3. /\ queue'[w] = Tail(queue[w]) /\ \A v \in Workers : v # w => queue'[v] = queue[v]
      /\ \A v \in Workers : v # w => chunk'[v] = chunk[v]
      /\ UNCHANGED <<off, progress, buffer, network>>
  BY <1>1, <1>2 DEF Copy, SendAck, masterVars, listVars, packVars
<1>4. Headless(queue[w], queue'[w])
  BY <1>1, <1>3, TailShift
<1>5. 1 \in 1..Len(queue[w]) /\ file = queue[w][1]
  BY <1>2, <1>4 DEF Headless
<1>6. file \in Filedesc /\ e \in Entries /\ j \in Nat /\ Span(e) \subseteq Nat
      /\ IsFiniteSet(Span(e)) /\ Cardinality(Span(e)) = Size[e.file] /\ Size[e.file] \in Nat
  <2>1. file \in Filedesc
    BY <1>1, <1>5, ElementOfSeq
  <2>2. e \in Entries /\ j \in Nat
    BY <1>2, <2>1 DEF Filedesc
  <2> QED  BY <2>1, <2>2, SpanFacts
<1>7. PICK there : there = IF file.ask THEN Acked(w, j) ELSE Copied(w)
  OBVIOUS
<1>8. PICK own2 : own2 = [b \in Nat |-> IF b \in Span(e) \/ own[b] = Copied(w)
                                       THEN there ELSE own[b]]
  OBVIOUS
<1>9. \A b \in Nat : own2[b] = IF b \in Span(e) \/ own[b] = Copied(w) THEN there ELSE own[b]
  BY <1>8
<1>10. \A b \in Span(e) : own[b] = Assigned(w, j)
  BY <1>2, <1>5 DEF Account, InQueues, InQueueOf, In
<1>11. ASSUME NEW x \in Entries, NEW p, p # Copied(w), In(own, x, p),
              p # Assigned(w, j) \/ Apart(x, e)
       PROVE  In(own2, x, p)
  <2>1. Span(x) \subseteq Nat
    BY SpanFacts
  <2>2. \A b \in Span(x) : b \notin Span(e) /\ own[b] = p
    BY <1>10, <1>11 DEF In, Apart
  <2> QED  BY <1>9, <1>11, <2>1, <2>2 DEF In
<1>12. \A p : p # Copied(w) /\ p # Acked(w, j) /\ p # Assigned(w, j) => At(own2, p) = At(own, p)
  BY <1>7, <1>9, <1>10 DEF At
<1>13. HandedOut(own2)'
  <2> SUFFICES ASSUME NEW b \in Nat, own2[b] # Free PROVE b < off
    BY <1>3 DEF HandedOut
  <2>1. own[b] # Free
    BY <1>9, <1>10
  <2> QED  BY <2>1 DEF Account, HandedOut
<1>14. Holds(own2, buffer, Packing)'
  <2>1. \A i \in 1..Len(buffer) : buffer[i] \in Entries
    BY <1>1, ElementOfSeq
  <2>2. \A i \in 1..Len(buffer) : In(own2, buffer[i], Packing)
    BY <1>11, <2>1 DEF Account, Holds
  <2> QED  BY <1>3, <2>2 DEF Account, Holds
<1>15. InMessages(own2)'
  <2> SUFFICES ASSUME NEW v \in Workers, NEW i \in 1..Len(network[v]),
                      NEW k \in 1..Len(network[v][i].ents)
               PROVE  /\ In(own2, network[v][i].ents[k], Assigned(v, network[v][i].job))
                      /\ \A l \in 1..Len(network[v][i].ents) : l # k =>
                           Apart(network[v][i].ents[k], network[v][i].ents[l])
    BY <1>3 DEF InMessages, Holds
  <2>1. network[v][i].ents \in Seq(Entries)
    BY JobNumbers DEF Message
  <2>2. network[v][i].ents[k] \in Entries /\ network[v][i].ents # << >>
    BY <2>1, ElementOfSeq
  <2>3. v # w \/ network[v][i].job # j
    <3> SUFFICES ASSUME v = w, network[v][i].job = j PROVE FALSE
      OBVIOUS
    <3>1. j # 0
      BY <2>2, JobNumbers
    <3> QED  BY <1>2, <1>5, <3>1 DEF IInv, InNetworkOnly
  <2>4. Holds(own, network[v][i].ents, Assigned(v, network[v][i].job))
    BY DEF Account, InMessages
  <2>5. In(own2, network[v][i].ents[k], Assigned(v, network[v][i].job))
    <3>1. Assigned(v, network[v][i].job) # Assigned(w, j)
      BY <2>3
    <3> QED  BY <1>11, <2>2, <2>4, <3>1 DEF Holds
  <2> QED  BY <2>4, <2>5 DEF Holds
<1>16. InQueues(own2)'
  <2>1. ASSUME NEW v \in Workers, v # w PROVE InQueueOf(own2, v)'
    <3>1. \A i \in 1..Len(queue[v]) : queue[v][i].ent \in Entries
      BY JobNumbers DEF Filedesc
    <3>2. \A i : Assigned(v, i) # Assigned(w, j)
      BY <2>1
    <3>3. InQueueOf(own, v)
      BY DEF Account, InQueues
    <3> QED  BY <1>3, <1>11, <2>1, <3>1, <3>2, <3>3 DEF InQueueOf
  <2>2. InQueueOf(own2, w)'
    <3>1. InQueueOf(own, w)
      BY DEF Account, InQueues
    <3>2. ASSUME NEW i \in 1..Len(queue'[w])
          PROVE  In(own2, queue'[w][i].ent, Assigned(w, queue'[w][i].job))
      <4>1. PICK n \in 1..Len(queue[w]) : n = i + 1 /\ queue'[w][i] = queue[w][n]
        BY <1>4 DEF Headless
      <4>2. queue[w][n].ent \in Entries
        BY JobNumbers DEF Filedesc
      <4>3. Apart(queue[w][n].ent, e)
        BY <1>2, <1>5, <3>1, <4>1 DEF InQueueOf
      <4>4. In(own, queue[w][n].ent, Assigned(w, queue[w][n].job))
        BY <3>1 DEF InQueueOf
      <4> QED  BY <1>11, <4>1, <4>2, <4>3, <4>4
    <3>3. ASSUME NEW i \in 1..Len(queue'[w]), NEW k \in 1..Len(queue'[w]), k # i
          PROVE  Apart(queue'[w][i].ent, queue'[w][k].ent)
      <4>1. PICK n \in 1..Len(queue[w]) : n = i + 1 /\ queue'[w][i] = queue[w][n]
        BY <1>4 DEF Headless
      <4>2. PICK l \in 1..Len(queue[w]) : l = k + 1 /\ queue'[w][k] = queue[w][l]
        BY <1>4 DEF Headless
      <4>3. n # l
        BY <3>3, <4>1, <4>2
      <4> QED  BY <3>1, <4>1, <4>2, <4>3 DEF InQueueOf
    <3> QED  BY <3>2, <3>3 DEF InQueueOf
  <2> QED  BY <2>1, <2>2 DEF InQueues
\* The bytes copied by w, the file's included.
<1>17. PICK written \in Nat : written = chunk[w] + Size[e.file]
  BY <1>1, <1>6
<1>18. /\ IsFiniteSet(At(own, Copied(w)) \cup Span(e))
       /\ Cardinality(At(own, Copied(w)) \cup Span(e)) = written
  <2>1. IsFiniteSet(At(own, Copied(w)))
    BY <1>1, BytesFacts DEF Account
  <2>2. At(own, Copied(w)) \cap Span(e) = {}
    BY <1>10 DEF At
  <2>3. chunk[w] = Cardinality(At(own, Copied(w)))
    BY DEF Account, InChunks, Bytes
  <2>4. PICK S, T : S = At(own, Copied(w)) /\ T = Span(e)
    OBVIOUS
  <2>5. IsFiniteSet(S) /\ IsFiniteSet(T) /\ S \cap T = {}
    BY <1>6, <2>1, <2>2, <2>4
  <2>6. IsFiniteSet(S \cup T) /\ Cardinality(S \cup T) = Cardinality(S) + Cardinality(T)
    BY <2>5, BytesAdd, FS_Union
  <2> QED  BY <1>6, <1>17, <2>3, <2>4, <2>6
<1>19. progress' = Bytes(own2, Counted)
  <2>1. Counted # Copied(w) /\ Counted # Acked(w, j) /\ Counted # Assigned(w, j)
    OBVIOUS
  <2>2. At(own2, Counted) = At(own, Counted)
    BY <1>12, <2>1
  <2> QED  BY <1>3, <2>2 DEF Account, Bytes
<1>20. ASSUME NEW v \in Workers, v # w PROVE chunk'[v] = Bytes(own2, Copied(v))
  <2>1. Copied(v) # Copied(w) /\ Copied(v) # Acked(w, j) /\ Copied(v) # Assigned(w, j)
    BY <1>20
  <2>2. At(own2, Copied(v)) = At(own, Copied(v))
    BY <1>12, <2>1
  <2>3. chunk'[v] = chunk[v]
    BY <1>3, <1>20
  <2> QED  BY <2>2, <2>3 DEF Account, InChunks, Bytes
<1>21. InAcks(own)
  BY DEF Account
<1>22. CASE ~ file.ask
  <2>1. chunk'[w] = written /\ acks' = acks
    BY <1>1, <1>2, <1>17, <1>22 DEF Copy
  <2>2. At(own2, Copied(w)) = At(own, Copied(w)) \cup Span(e)
    BY <1>6, <1>7, <1>9, <1>22 DEF At
  <2>3. InChunks(own2)'
    BY <1>18, <1>20, <2>1, <2>2 DEF InChunks, Bytes
  <2>4. \A v, i : At(own2, Acked(v, i)) = At(own, Acked(v, i))
    BY <1>7, <1>9, <1>10, <1>22 DEF At
  <2>5. \A a \in acks' : a.bytes = Bytes(own2, Acked(a.worker, a.job))
    BY <1>21, <2>1, <2>4 DEF InAcks, Bytes
  <2>6. ASSUME NEW b \in Nat, NEW v \in Workers, NEW i \in Nat, own2[b] = Acked(v, i)
        PROVE  \E a \in acks' : a.worker = v /\ a.job = i
    <3>1. own[b] = Acked(v, i)
      BY <1>7, <1>9, <1>22, <2>6
    <3> QED  BY <1>21, <2>1, <3>1 DEF InAcks
  <2>7. InAcks(own2)'
    BY <2>5, <2>6 DEF InAcks
  <2>8. Account(own2)'
    BY <1>13, <1>14, <1>15, <1>16, <1>19, <2>3, <2>7 DEF Account, Bytes, At
  <2> QED  BY <2>8
<1>23. CASE file.ask
  <2>1. PICK ack : /\ ack.worker = w /\ ack.job = j /\ ack.bytes = written
                   /\ acks' = acks \cup {ack}
    BY <1>2, <1>17, <1>23 DEF Copy, SendAck
  <2>2. chunk'[w] = 0
    BY <1>1, <1>2, <1>23 DEF Copy, SendAck
  <2>3. \A a \in acks : a.worker # w \/ a.job # j
    <3> SUFFICES ASSUME NEW a \in acks, a.worker = w, a.job = j PROVE FALSE
      OBVIOUS
    <3>1. a.job < j
      BY <1>2, <1>5, <1>23 DEF AckInv, AckInvOf, InOrder, AcksFirst
    <3> QED  BY <1>6, <3>1
  <2>4. At(own, Acked(w, j)) = {}
    BY <1>6, <1>21, <2>3 DEF InAcks, At
  <2>5. At(own2, Acked(w, j)) = At(own, Copied(w)) \cup Span(e)
    BY <1>6, <1>7, <1>9, <1>23, <2>4 DEF At
  <2>6. At(own2, Copied(w)) = {}
    BY <1>7, <1>9, <1>23 DEF At
  <2>7. InChunks(own2)'
    BY <1>20, <2>2, <2>6, FS_EmptySet DEF InChunks, Bytes
  <2>8. ASSUME NEW a \in acks' PROVE a.bytes = Bytes(own2, Acked(a.worker, a.job))
    <3>1. CASE a = ack
      BY <1>18, <2>1, <2>5, <3>1 DEF Bytes
    <3>2. CASE a # ack
      <4>1. a \in acks /\ Acked(a.worker, a.job) # Acked(w, j)
        BY <2>1, <2>3, <3>2
      <4>2. At(own2, Acked(a.worker, a.job)) = At(own, Acked(a.worker, a.job))
        BY <1>12, <4>1
      <4> QED  BY <1>21, <4>1, <4>2 DEF InAcks, Bytes
    <3> QED  BY <3>1, <3>2
  <2>9. ASSUME NEW b \in Nat, NEW v \in Workers, NEW i \in Nat, own2[b] = Acked(v, i)
        PROVE  \E a \in acks' : a.worker = v /\ a.job = i
    <3>1. CASE v = w /\ i = j
      BY <2>1, <3>1
    <3>2. CASE v # w \/ i # j
      <4>1. own[b] = Acked(v, i)
        BY <1>7, <1>9, <1>23, <2>9, <3>2
      <4> QED  BY <1>21, <2>1, <4>1 DEF InAcks
    <3> QED  BY <3>1, <3>2
  <2>10. InAcks(own2)'
    BY <2>8, <2>9 DEF InAcks
  <2>11. Account(own2)'
    BY <1>13, <1>14, <1>15, <1>16, <1>19, <2>7, <2>10 DEF Account, Bytes, At
  <2> QED  BY <2>11
<1> QED  BY <1>22, <1>23

-----------------------------------------------------------------------------
LEMMA AccountedNext ==
  ASSUME IInv, AckInv, ProgressInv, [Next]_vars, pc[0]' \notin AfterWait
  PROVE  Accounted'
<1> USE RanksFacts
<1>1. \A own : Account(own) /\ UNCHANGED <<off, progress, buffer, network, acks, queue, chunk>>
        => Account(own)'
  BY FrameAccount
<1>2. CASE UNCHANGED vars
  BY <1>1, <1>2 DEF ProgressInv, Accounted, vars, masterVars, listVars, packVars, workerVars
<1>3. CASE Next /\ pc[0] \in AfterWait
  <2>1. pc \in [Ranks -> MasterPCs \cup WorkerPCs]
    BY DEF IInv, TypeOK, ControlOK
  <2>2. pc'[0] \in AfterWait
    <3>1. CASE Master
      BY <1>3, <2>1, <3>1 DEF Master, Create, OpenIndex, TestSends, CollectAck, EndCollect,
         SkipWorker, StartJob, AddEntry, EndJob, WaitSends, WaitRecvs, SendTerminate,
         TerminateSent, CloseIndex, StoreIndex, EndArchive, Goto, AfterWait
    <3>2. CASE \E w \in Workers : Worker(w)
      BY <1>3, <2>1, <3>2 DEF Worker, Reopen, Receive, NoMessage, Copy, NothingToCopy, Flush,
         LoopOrFlush, Goto
    <3>3. CASE \E b \in Barriers : Barrier(b)
      BY <1>3, <3>3 DEF Barrier, Barriers, AfterBarrier, AfterWait
    <3>4. CASE \E r \in Ranks : Exit(r)
      BY <1>3, <3>4 DEF Exit
    <3>5. CASE UNCHANGED vars
      BY <1>3, <3>5 DEF vars
    <3> QED  BY <1>3, <3>1, <3>2, <3>3, <3>4, <3>5 DEF Next
  <2> QED  BY <2>2
<1>4. CASE Next /\ pc[0] \notin AfterWait
  <2>1. PICK own : Account(own)
    BY <1>4 DEF ProgressInv, Accounted
  <2>2. CASE Master
    <3>1. CASE Create \/ OpenIndex \/ TestSends \/ EndCollect \/ SkipWorker \/ WaitSends
      BY <1>1, <2>1, <3>1 DEF Create, OpenIndex, TestSends, EndCollect, SkipWorker, WaitSends, Accounted,
         masterVars, listVars, packVars, workerVars
    <3>2. CASE StartJob
      <4>1. UNCHANGED <<off, progress, buffer, network, queue, chunk>>
        BY <3>2 DEF StartJob, listVars, workerVars
      <4>2. acks' = acks
        BY <3>2, StartJobAwaits
      <4> QED  BY <1>1, <2>1, <4>1, <4>2 DEF Accounted
    <3>3. CASE AddEntry \/ EndJob \/ \E a \in acks : CollectAck(a)
      BY <2>1, <3>3, AddEntryAccount, EndJobAccount, CollectAckAccount DEF Accounted
    <3>4. CASE WaitRecvs
      <4>1. pc'[0] = "terminate"
        BY <3>4 DEF WaitRecvs, Goto, IInv, TypeOK, ControlOK
      <4> QED  BY <4>1 DEF AfterWait
    <3>5. CASE SendTerminate \/ TerminateSent \/ CloseIndex \/ StoreIndex \/ EndArchive
      BY <1>4, <3>5 DEF SendTerminate, TerminateSent, CloseIndex, StoreIndex, EndArchive,
         AfterWait
    <3> QED  BY <2>2, <3>1, <3>2, <3>3, <3>4, <3>5 DEF Master
  <2>3. CASE \E w \in Workers : Worker(w)
    <3>1. PICK w \in Workers : Worker(w)
      BY <2>3
    <3>2. CASE Reopen(w) \/ NoMessage(w) \/ NothingToCopy(w) \/ Flush(w)
      BY <1>1, <2>1, <3>2 DEF Reopen, NoMessage, NothingToCopy, Flush, Accounted,
         masterVars, listVars, packVars, workerVars
    <3>3. CASE Receive(w) \/ Copy(w)
      BY <2>1, <3>3, ReceiveAccount, CopyAccount DEF Accounted
    <3> QED  BY <3>1, <3>2, <3>3 DEF Worker
  <2>4. CASE \E b \in Barriers : Barrier(b)
    BY <1>1, <2>1, <2>4 DEF Barrier, Accounted, masterVars, listVars, packVars, workerVars
  <2>5. CASE \E r \in Ranks : Exit(r)
    BY <1>1, <2>1, <2>5 DEF Exit, Accounted, masterVars, listVars, packVars, workerVars
  <2> QED  BY <1>2, <1>4, <2>2, <2>3, <2>4, <2>5 DEF Next
<1> QED  BY <1>2, <1>3, <1>4

\* After the final MPI_Waitall only the end of the archive moves the count, to
\* the offset it had before the index was added.
LEMMA ProgressNext ==
  ASSUME IInv, IInv', AckInv, ProgressInv, [Next]_vars
  PROVE  ProgressInv'
<1>1. off \in Nat /\ progress \in Nat /\ off' \in Nat /\ progress <= off
  BY DEF IInv, TypeOK, PackingOK, ProgressInv, ProgressWithinTotal
<1>2. Accounted'
  <2>1. CASE pc[0]' \in AfterWait
    BY <2>1 DEF Accounted
  <2>2. CASE pc[0]' \notin AfterWait
    BY <2>2, AccountedNext
  <2> QED  BY <2>1, <2>2
<1>3. CASE pc[0]' \notin AfterWait
  <2>1. PICK own : Account(own)'
    BY <1>2, <1>3 DEF Accounted
  <2>2. progress' <= off'
    <3>1. \E n : n = off' /\ \A b \in Nat : own[b] # Free => b < n
      BY <2>1 DEF Account, HandedOut
    <3>2. At(own, Counted) \subseteq 0..(off' - 1)
      BY <1>1, <3>1, PlacesDiffer DEF At
    <3>3. PICK n \in Nat : n = off'
      BY <1>1
    <3>4. IsFiniteSet(0..(n - 1)) /\ Cardinality(0..(n - 1)) = n
      BY FS_Interval
    <3>5. Cardinality(At(own, Counted)) <= n
      BY <3>2, <3>3, <3>4, FS_Subset
    <3>6. progress' = Cardinality(At(own, Counted))
      BY <2>1 DEF Account, Bytes, At
    <3> QED  BY <3>3, <3>5, <3>6
  <2> QED  BY <1>2, <2>2 DEF ProgressInv, ProgressWithinTotal
<1>4. CASE pc[0]' \in AfterWait
  <2>1. CASE CloseIndex
    <3>1. progress' = off /\ off' = off
      BY <1>1, <2>1 DEF CloseIndex
    <3> QED  BY <1>1, <1>2, <3>1 DEF ProgressInv, ProgressWithinTotal
  <2>3. CASE StoreIndex
    <3>1. progress' = progress /\ off' = off + Size[IndexFile] /\ Size[IndexFile] \in Nat
      BY <1>1, <2>3, SizeAssumption DEF StoreIndex, Members
    <3> QED  BY <1>1, <1>2, <3>1 DEF ProgressInv, ProgressWithinTotal
  <2>2. CASE ~ CloseIndex /\ ~ StoreIndex
    <3>1. UNCHANGED <<off, progress>>
      <4>1. CASE Master
        <5>1. ~ AddEntry /\ ~ \E a \in acks : CollectAck(a)
          BY <1>4 DEF AddEntry, CollectAck, AfterWait
        <5> QED  BY <2>2, <4>1, <5>1 DEF Master, Create, OpenIndex, TestSends, EndCollect,
           SkipWorker, StartJob, EndJob, WaitSends, WaitRecvs, SendTerminate, TerminateSent,
           EndArchive, masterVars, listVars
      <4>2. CASE \E w \in Workers : Worker(w)
        BY <4>2 DEF Worker, Reopen, Receive, NoMessage, Copy, NothingToCopy, Flush, masterVars,
           listVars
      <4>3. CASE \E b \in Barriers : Barrier(b)
        BY <4>3 DEF Barrier, masterVars, listVars
      <4>4. CASE \E r \in Ranks : Exit(r)
        BY <4>4 DEF Exit, masterVars, listVars
      <4>5. CASE UNCHANGED vars
        BY <4>5 DEF vars, masterVars, listVars
      <4> QED  BY <4>1, <4>2, <4>3, <4>4, <4>5 DEF Next
    <3> QED  BY <1>1, <1>2, <3>1 DEF ProgressInv, ProgressWithinTotal
  <2> QED  BY <2>1, <2>2, <2>3
<1> QED  BY <1>3, <1>4

LEMMA InitProgress == Init => ProgressInv
<1> SUFFICES ASSUME Init PROVE ProgressInv
  OBVIOUS
<1> USE PlacesDiffer
<1>1. PICK own : own = [b \in Nat |-> Free]
  OBVIOUS
<1>2. \A p : p # Free => Bytes(own, p) = 0
  <2>1. \A p : p # Free => At(own, p) = {}
    BY <1>1 DEF At
  <2> QED  BY <2>1, FS_EmptySet DEF Bytes
<1>3. HandedOut(own) /\ InAcks(own)
  BY <1>1 DEF Init, HandedOut, InAcks
<1>4. Holds(own, buffer, Packing) /\ InMessages(own) /\ InQueues(own)
  BY DEF Init, Holds, InMessages, InQueues, InQueueOf
<1>5. InChunks(own) /\ progress = Bytes(own, Counted)
  BY <1>2 DEF Init, InChunks
<1>6. Account(own)
  BY <1>3, <1>4, <1>5 DEF Account
<1> QED  BY <1>6 DEF Init, ProgressInv, Accounted, ProgressWithinTotal

\* However jobs, copies and acks interleave, no byte is counted twice: the sum
\* of the acks never exceeds what has been handed out, and off-current in the
\* last call of show_progress (mpitar.cpp:299) does not wrap around.
THEOREM ProgressFits == Spec => []ProgressWithinTotal
<1>1. Init => ProgressInv
  BY InitProgress
<1>2. IInv /\ AckInv /\ (IInv /\ AckInv)' /\ ProgressInv /\ [Next]_vars => ProgressInv'
  BY ProgressNext
<1>3. ProgressInv => ProgressWithinTotal
  BY DEF ProgressInv
<1> QED  BY <1>1, <1>2, <1>3, AckInvHolds, PTL DEF Spec
=============================================================================
