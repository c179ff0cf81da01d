------------------------------- MODULE MpiTar -------------------------------
(***************************************************************************)
(* The master/worker protocol of mpitar (src/src/mpitar.cpp).  Rank 0, the *)
(* master, reads the file list, gives each file its offset in the archive, *)
(* packs files into jobs and keeps up to MaxJobsInFlight jobs posted to    *)
(* each worker.  A worker copies its files to their offsets and sends one  *)
(* ack per job.  When every ack is in, the master sends each worker an     *)
(* empty file name; after a barrier it appends the index file.             *)
(*                                                                         *)
(* Jobs carry a number the program does not have: it names the MPI_Irecv   *)
(* and the MPI_Isend posted for the job, so that a message can be paired   *)
(* with its request.  MPI pairs them by source and tag, oldest first;      *)
(* TagsPairAcks below says that both pairings agree in every state.        *)
(***************************************************************************)
EXTENDS Integers, Sequences, FiniteSets

CONSTANTS
  NWorkers,         \* MPI ranks besides the master
  NFiles,           \* files on the list
  Size,             \* Size[f]: bytes of member f, header and padding included
  Layout,           \* Layout[f]: offset a sequential tar gives member f
  MaxJobsInFlight,  \* MAX_JOBS_IN_FLIGHT
  MaxFilesInJob,    \* MAX_FILES_IN_JOB
  TargetJobSize,    \* TARGET_JOB_SIZE
  Eager,            \* TRUE: MPI may complete a send before it is received
  IOErrors          \* TRUE: any system call a rank checks may fail

Workers   == 1..NWorkers
Ranks     == 0..NWorkers
Slots     == 1..MaxJobsInFlight
Files     == 1..NFiles
IndexFile == NFiles + 1
Members   == Files \cup {IndexFile}

ASSUME NWorkersAssumption == NWorkers \in Nat \ {0}
ASSUME NFilesAssumption   == NFiles \in Nat
ASSUME SizeAssumption     == Size \in [Members -> Nat \ {0}]
\* Layout is the running sum of the sizes.
ASSUME LayoutAssumption   ==
  /\ Layout \in [Members -> Nat]
  /\ Layout[1] = 0
  /\ \A f \in Files : Layout[f + 1] = Layout[f] + Size[f]
ASSUME LimitsAssumption   ==
  /\ MaxJobsInFlight \in Nat \ {0}
  /\ MaxFilesInJob \in Nat \ {0}
  /\ TargetJobSize \in Nat \ {0}
ASSUME FlagsAssumption    == Eager \in BOOLEAN /\ IOErrors \in BOOLEAN

VARIABLES
  pc,            \* where each rank is
  failed,        \* some rank has called exit(1) or failed an assert
  current,       \* current_worker
  listed,        \* how many names entries.nextfile() has returned
  off,           \* offset of the next member
  buffer,        \* send_buffers[buf0num+send_id]: the job being packed
  recvId,        \* recv_id
  sendId,        \* send_id, also the tag of the job
  jobsInFlight,  \* jobs_in_flight
  recvReq,       \* recv_requests: job and tag each receive waits for
  sendReq,       \* send_requests: job each send was posted for, 0 if NULL
  jobs,          \* number of jobs posted so far
  progress,      \* the static written of show_progress()
  index,         \* lines of the .idx file
  network,       \* network[w]: messages from the master to w, in order
  acks,          \* acks not yet handed to the master by MPI
  queue,         \* queue[w]: the files queue of worker w
  quit,          \* quit[w]: the local done of worker()
  chunk,         \* chunk[w]: the static chunk_written of worker()
  exists,        \* the archive file exists
  archive,       \* extents in the archive file
  stream,        \* stream[r]: extents in the stdio buffer of rank r
  fileOff,       \* fileOff[r]: the static file_off of copy_file_content()
  pos            \* pos[r]: real position of the output stream of rank r

listVars   == <<listed, off, index>>                \* what has been listed
packVars   == <<buffer, recvId, sendId>>            \* the job being packed
postVars   == <<jobsInFlight, recvReq, sendReq, jobs>>
masterVars == <<current, progress, listVars, packVars, postVars>>
workerVars == <<queue, quit, chunk>>
fileVars   == <<exists, archive, stream, fileOff, pos>>
vars       == <<pc, failed, masterVars, network, acks, workerVars, fileVars>>
-----------------------------------------------------------------------------
NoRequest      == [job |-> 0, tag |-> 0]
Entry(f, at)   == [file |-> f, off |-> at]
Extent(at, f)  == [at |-> at, file |-> f]
\* The serialized tarentry with the empty file name.
Terminate      == [job |-> 0, tag |-> 1, ents |-> << >>]

Goto(r, there) == pc' = [pc EXCEPT ![r] = there]

\* The message of the send posted for job j to worker w is still unreceived.
InTransit(w, j) == \E i \in DOMAIN network[w] : network[w][i].job = j

\* Sends that MPI_Testany must (their message was received) or may (MPI has
\* copied the buffer) report complete.
ActiveSends(w)   == {s \in Slots : sendReq[w][s] # 0}
ReceivedSends(w) == {s \in ActiveSends(w) : ~ InTransit(w, sendReq[w][s])}
TestableSends(w) == IF Eager THEN ActiveSends(w) ELSE ReceivedSends(w)

\* Slips, not the code: MPI_Testany is never called; the first slot is taken
\* whether it is in use or not.
FindUnusedNullOnly(null, must, may)  == IF null # {} THEN null ELSE {0}
FindUnusedAlwaysOne(null, must, may) == {1}

\* find_unused_request: the first MPI_REQUEST_NULL, else the request that
\* MPI_Testany completes; 0 stands for the -1 it returns when there is none.
FindUnused(null, must, may) ==
  IF null # {} THEN {s \in null : \A t \in null : s <= t}
  ELSE may \cup (IF must = {} THEN {0} ELSE {})

\* copy_file_content on rank r.  fseek is called only when file_off says the
\* stream is elsewhere, and writes the buffered data out; stdio also writes it
\* out when its buffer is full.
Seeks(r, e)   == fileOff[r] # e.off
LandingNoSeek(r, e) == pos[r]     \* slip: fseek is left out
Landing(r, e) == IF Seeks(r, e) THEN e.off ELSE pos[r]

CopyFile(r, e) ==
  LET this   == Extent(Landing(r, e), e.file)
      before == IF Seeks(r, e) THEN {} ELSE stream[r]
  IN  /\ \E kept \in {before \cup {this}, {this}, {}} :
           /\ archive' = archive \cup ((stream[r] \cup {this}) \ kept)
           /\ stream' = [stream EXCEPT ![r] = kept]
      /\ fileOff' = [fileOff EXCEPT ![r] = e.off + Size[e.file]]
      /\ pos'     = [pos EXCEPT ![r] = Landing(r, e) + Size[e.file]]
-----------------------------------------------------------------------------
Init ==
  /\ pc = [r \in Ranks |-> IF r = 0 THEN "create" ELSE "opened"]
  /\ failed = FALSE
  /\ current = 1 /\ listed = 0 /\ off = 0
  /\ buffer = << >> /\ recvId = 0 /\ sendId = 0
  /\ jobsInFlight = [w \in Workers |-> 0]
  /\ recvReq = [w \in Workers |-> [s \in Slots |-> NoRequest]]
  /\ sendReq = [w \in Workers |-> [s \in Slots |-> 0]]
  /\ jobs = 0 /\ progress = 0 /\ index = << >>
  /\ network = [w \in Workers |-> << >>]
  /\ acks = {}
  /\ queue = [w \in Workers |-> << >>]
  /\ quit = [w \in Workers |-> FALSE]
  /\ chunk = [w \in Workers |-> 0]
  /\ exists \in BOOLEAN
  /\ archive = IF exists THEN {Extent(0, 0)} ELSE {}   \* left by another run
  /\ stream = [r \in Ranks |-> {}]
  /\ fileOff = [r \in Ranks |-> 0]
  /\ pos = [r \in Ranks |-> 0]

\* MPI_Barrier: every rank stands at barrier b and all leave it together.
AfterBarrier(r, b) ==
  CASE b = "opened"  -> IF r = 0 THEN "open_index" ELSE "reopen"
    [] b = "closing" -> IF r = 0 THEN "index" ELSE "end"
    [] b = "end"     -> "done"

Barrier(b) ==
  /\ \A r \in Ranks : pc[r] = b
  /\ pc' = [r \in Ranks |-> AfterBarrier(r, b)]
  /\ UNCHANGED <<failed, masterVars, network, acks, workerVars, fileVars>>

\* exit(1) on a failed system call; exit() flushes the rank's own streams and
\* the launcher then ends the other ranks.
IOPoints == {"create", "open_index", "reopen", "build", "copy", "flush",
             "index", "index_copy", "index_end"}

Exit(r) ==
  /\ IOErrors
  /\ pc[r] \in IOPoints
  /\ failed' = TRUE
  /\ archive' = archive \cup stream[r]
  /\ stream' = [stream EXCEPT ![r] = {}]
  /\ UNCHANGED <<pc, masterVars, network, acks, workerVars, exists, fileOff, pos>>
-----------------------------------------------------------------------------
(* The master *)

\* open(O_WRONLY | O_TRUNC | O_CREAT) of the archive.
Create ==
  /\ pc[0] = "create"
  /\ Goto(0, "opened")
  /\ exists' = TRUE
  /\ archive' = {}
  /\ UNCHANGED <<failed, masterVars, network, acks, workerVars, stream, fileOff, pos>>

\* After the barrier, fopen of the index file, which no other rank touches.
OpenIndex ==
  /\ pc[0] = "open_index"
  /\ Goto(0, "test_send")
  /\ UNCHANGED <<failed, masterVars, network, acks, workerVars, fileVars>>

\* MPI_Testany over every send request.
TestSends ==
  /\ pc[0] = "test_send"
  /\ Goto(0, "test_recv")
  /\ \/ /\ \A w \in Workers : ReceivedSends(w) = {}
        /\ UNCHANGED sendReq
     \/ \E w \in Workers : \E s \in TestableSends(w) :
          sendReq' = [sendReq EXCEPT ![w][s] = 0]
  /\ UNCHANGED <<failed, current, progress, listVars, packVars, jobsInFlight, recvReq,
                 jobs, network, acks, workerVars, fileVars>>

\* The receives MPI can complete with ack a.
ReceivesOf(a) == {r \in Slots : recvReq[a.worker][r].job = a.job}

\* Slip: jobs_in_flight is not decremented.
CollectAckNoDecrement(a) ==
  /\ pc[0] = "test_recv"
  /\ a \in acks
  /\ \A b \in acks : b.worker = a.worker /\ b.tag = a.tag => a.job <= b.job
  /\ \E r \in ReceivesOf(a) : recvReq' = [recvReq EXCEPT ![a.worker][r] = NoRequest]
  /\ acks' = acks \ {a}
  /\ progress' = progress + a.bytes
  /\ UNCHANGED <<pc, failed, current, listVars, packVars, jobsInFlight, sendReq, jobs,
                 network, workerVars, fileVars>>

\* One turn of the loop over the receives MPI_Testsome has completed.  MPI
\* keeps the order of messages with the same tag and no other.
CollectAck(a) ==
  /\ pc[0] = "test_recv"
  /\ a \in acks
  /\ \A b \in acks : b.worker = a.worker /\ b.tag = a.tag => a.job <= b.job
  /\ \E r \in ReceivesOf(a) : recvReq' = [recvReq EXCEPT ![a.worker][r] = NoRequest]
  /\ acks' = acks \ {a}
  /\ jobsInFlight' = [jobsInFlight EXCEPT ![a.worker] = @ - 1]
  /\ progress' = progress + a.bytes
  /\ UNCHANGED <<pc, failed, current, listVars, packVars, sendReq, jobs, network,
                 workerVars, fileVars>>

\* MPI_Testsome has reported what had arrived, possibly nothing.
EndCollect ==
  /\ pc[0] = "test_recv"
  /\ Goto(0, "dispatch")
  /\ UNCHANGED <<failed, masterVars, network, acks, workerVars, fileVars>>

\* Slip: the loop does not go back to the first worker.
NextWorkerNoWrap == current' = current + 1

\* The for loop over the workers inside do { } while(!done).
NextWorker == current' = IF current < NWorkers THEN current + 1 ELSE 1

\* The current worker has enough to do.
SkipWorker ==
  /\ pc[0] = "dispatch"
  /\ jobsInFlight[current] >= MaxJobsInFlight
  /\ Goto(0, "test_send")
  /\ NextWorker
  /\ UNCHANGED <<failed, progress, listVars, packVars, postVars, network, acks,
                 workerVars, fileVars>>

\* The current worker is underworked: pick a receive and a send request, or
\* fail one of the two asserts.
StartJob ==
  /\ pc[0] = "dispatch"
  /\ jobsInFlight[current] < MaxJobsInFlight
  /\ \E r \in FindUnused({s \in Slots : recvReq[current][s] = NoRequest}, {},
                         {s \in Slots : \E a \in acks : s \in ReceivesOf(a)
                                                     /\ a.worker = current}) :
     \E s \in FindUnused(Slots \ ActiveSends(current), ReceivedSends(current),
                         TestableSends(current)) :
       IF r # 0 /\ s # 0
       THEN /\ Goto(0, "build")
            /\ recvId' = r /\ sendId' = s
            /\ recvReq' = [recvReq EXCEPT ![current][r] = NoRequest]
            /\ acks' = {a \in acks : a.worker # current \/ r \notin ReceivesOf(a)}
            /\ sendReq' = [sendReq EXCEPT ![current][s] = 0]
            /\ UNCHANGED failed
       ELSE /\ failed' = TRUE
            /\ UNCHANGED <<pc, recvId, sendId, recvReq, acks, sendReq>>
  /\ UNCHANGED <<current, progress, listVars, buffer, jobsInFlight, jobs, network,
                 workerVars, fileVars>>

\* Slip: job_sz is not reset between jobs.
JobSizeNotReset == off

JobSize == IF buffer = << >> THEN 0 ELSE off - buffer[1].off
JobFull == Len(buffer) >= MaxFilesInJob \/ JobSize >= TargetJobSize

\* One turn of the loop that packs a job: take the next name, stat it, give
\* it the next offset, serialize it and write its line of the index file.
AddEntry ==
  /\ pc[0] = "build"
  /\ ~ JobFull
  /\ listed < NFiles
  /\ listed' = listed + 1
  /\ buffer' = Append(buffer, Entry(listed + 1, off))
  /\ index' = Append(index, Entry(listed + 1, off))
  /\ off' = off + Size[listed + 1]
  /\ UNCHANGED <<pc, failed, current, progress, recvId, sendId, postVars, network, acks,
                 workerVars, fileVars>>

\* Slip: the receive is posted with recv_id as its tag, the job sent with
\* send_id.
PostMixedTags ==
  /\ jobs' = jobs + 1
  /\ recvReq' = [recvReq EXCEPT ![current][recvId] = [job |-> jobs + 1, tag |-> recvId]]
  /\ sendReq' = [sendReq EXCEPT ![current][sendId] = jobs + 1]
  /\ network' = [network EXCEPT ![current] =
                   Append(@, [job |-> jobs + 1, tag |-> sendId, ents |-> buffer])]
  /\ jobsInFlight' = [jobsInFlight EXCEPT ![current] = @ + 1]

\* MPI_Irecv of the ack, then MPI_Isend of the job, to the current worker.
Post ==
  /\ jobs' = jobs + 1
  /\ recvReq' = [recvReq EXCEPT ![current][recvId] = [job |-> jobs + 1, tag |-> sendId]]
  /\ sendReq' = [sendReq EXCEPT ![current][sendId] = jobs + 1]
  /\ network' = [network EXCEPT ![current] =
                   Append(@, [job |-> jobs + 1, tag |-> sendId, ents |-> buffer])]
  /\ jobsInFlight' = [jobsInFlight EXCEPT ![current] = @ + 1]

\* The job is full, or nextfile() has returned the empty name and done is
\* set.  A job with a file in it is posted.
EndJob ==
  /\ pc[0] = "build"
  /\ JobFull \/ listed = NFiles
  /\ IF buffer = << >> THEN UNCHANGED <<postVars, network>> ELSE Post
  /\ IF JobFull THEN Goto(0, "test_send") /\ NextWorker
                ELSE Goto(0, "wait_sends") /\ UNCHANGED current
  /\ buffer' = << >> /\ recvId' = 0 /\ sendId' = 0
  /\ UNCHANGED <<failed, progress, listVars, acks, workerVars, fileVars>>

\* MPI_Waitall over the sends.
WaitSends ==
  /\ pc[0] = "wait_sends"
  /\ \A w \in Workers : TestableSends(w) = ActiveSends(w)
  /\ Goto(0, "wait_recvs")
  /\ sendReq' = [w \in Workers |-> [s \in Slots |-> 0]]
  /\ UNCHANGED <<failed, current, progress, listVars, packVars, jobsInFlight, recvReq,
                 jobs, network, acks, workerVars, fileVars>>

\* MPI_Waitall over the receives.  It reports nothing to show_progress and
\* leaves jobs_in_flight as it is.
WaitRecvs ==
  /\ pc[0] = "wait_recvs"
  /\ \A w \in Workers, r \in Slots :
       recvReq[w][r] = NoRequest \/ \E a \in acks : a.worker = w /\ r \in ReceivesOf(a)
  /\ Goto(0, "terminate")
  /\ acks' = {a \in acks : ReceivesOf(a) = {}}
  /\ recvReq' = [w \in Workers |-> [s \in Slots |-> NoRequest]]
  /\ current' = 1
  /\ UNCHANGED <<failed, progress, listVars, packVars, jobsInFlight, sendReq, jobs,
                 network, workerVars, fileVars>>

\* MPI_Send of the empty file name to the next worker.
SendTerminate ==
  /\ pc[0] = "terminate"
  /\ Goto(0, "terminating")
  /\ network' = [network EXCEPT ![current] = Append(@, Terminate)]
  /\ UNCHANGED <<failed, masterVars, acks, workerVars, fileVars>>

\* That MPI_Send returns: at once if MPI buffers it, else when it is received.
TerminateSent ==
  /\ pc[0] = "terminating"
  /\ Eager \/ ~ InTransit(current, 0)
  /\ IF current < NWorkers THEN Goto(0, "terminate") /\ current' = current + 1
                           ELSE Goto(0, "closing") /\ UNCHANGED current
  /\ UNCHANGED <<failed, progress, listVars, packVars, postVars, network, acks,
                 workerVars, fileVars>>

\* Show all as written, write the index file's own line into it and close it.
CloseIndex ==
  /\ pc[0] = "index"
  /\ Goto(0, "index_copy")
  /\ progress' = progress + (off - progress)
  /\ index' = Append(index, Entry(IndexFile, off))
  /\ UNCHANGED <<failed, current, listed, off, packVars, postVars, network, acks,
                 workerVars, fileVars>>

\* Add the index file as the last member.
StoreIndex ==
  /\ pc[0] = "index_copy"
  /\ Goto(0, "index_end")
  /\ CopyFile(0, Entry(IndexFile, off))
  /\ off' = off + Size[IndexFile]
  /\ UNCHANGED <<failed, current, progress, listed, index, packVars, postVars, network,
                 acks, workerVars, exists>>

\* Write the end-of-archive blocks and close the archive.
EndArchive ==
  /\ pc[0] = "index_end"
  /\ Goto(0, "end")
  /\ archive' = archive \cup stream[0]
  /\ stream' = [stream EXCEPT ![0] = {}]
  /\ UNCHANGED <<failed, masterVars, network, acks, workerVars, exists, fileOff, pos>>

Master ==
  \/ Create \/ OpenIndex \/ TestSends \/ (\E a \in acks : CollectAck(a)) \/ EndCollect
  \/ SkipWorker \/ StartJob \/ AddEntry \/ EndJob
  \/ WaitSends \/ WaitRecvs \/ SendTerminate \/ TerminateSent
  \/ CloseIndex \/ StoreIndex \/ EndArchive
-----------------------------------------------------------------------------
(* The workers *)

\* open(O_WRONLY), without O_CREAT, after the barrier.
Reopen(w) ==
  /\ pc[w] = "reopen"
  /\ IF exists THEN Goto(w, "probe") /\ UNCHANGED failed
               ELSE failed' = TRUE /\ UNCHANGED pc
  /\ UNCHANGED <<masterVars, network, acks, workerVars, fileVars>>

\* Slip: the flag first is not cleared, so every file asks for work.
FiledescsAllAsk(m) ==
  [i \in DOMAIN m.ents |-> [ent |-> m.ents[i], ask |-> TRUE, job |-> m.job, tag |-> m.tag]]

\* The filedesc_t's pushed for a message: the first one asks for work.
Filedescs(m) ==
  [i \in DOMAIN m.ents |-> [ent |-> m.ents[i], ask |-> (i = 1),
                            job |-> m.job, tag |-> m.tag]]

\* Slip: a job is acked as soon as it is received.
TakeMessageAndAck(w, m) ==
  IF m.ents = << >>
  THEN quit' = [quit EXCEPT ![w] = TRUE] /\ UNCHANGED <<queue, acks>>
  ELSE /\ queue' = [queue EXCEPT ![w] = @ \o Filedescs(m)]
       /\ acks' = acks \cup {[worker |-> w, job |-> m.job, tag |-> m.tag, bytes |-> 0]}
       /\ UNCHANGED quit

\* The message tells the worker to quit, or its files are queued.
TakeMessage(w, m) ==
  /\ IF m.ents = << >>
     THEN quit' = [quit EXCEPT ![w] = TRUE] /\ UNCHANGED queue
     ELSE queue' = [queue EXCEPT ![w] = @ \o Filedescs(m)] /\ UNCHANGED quit
  /\ UNCHANGED acks

\* MPI_Probe or MPI_Iprobe finds a message and MPI_Recv takes it.
Receive(w) ==
  /\ pc[w] = "probe"
  /\ network[w] # << >>
  /\ TakeMessage(w, Head(network[w]))
  /\ network' = [network EXCEPT ![w] = Tail(@)]
  /\ Goto(w, "copy")
  /\ UNCHANGED <<failed, masterVars, chunk, fileVars>>

\* MPI_Iprobe, called only when there is work, sees no message (yet).
NoMessage(w) ==
  /\ pc[w] = "probe"
  /\ queue[w] # << >>
  /\ Goto(w, "copy")
  /\ UNCHANGED <<failed, masterVars, network, acks, workerVars, fileVars>>

\* Slip: while(!done), files left in the queue or not.
LoopOrFlushEarly(w, q) == Goto(w, IF quit[w] THEN "flush" ELSE "probe")

\* The loop goes on while(!done || !files.empty()).
LoopOrFlush(w, q) == Goto(w, IF quit[w] /\ q = << >> THEN "flush" ELSE "probe")

\* Slip: chunk_written is not reset.
SendAckNoReset(w, file, written) ==
  /\ acks' = acks \cup {[worker |-> w, job |-> file.job, tag |-> file.tag,
                         bytes |-> written]}
  /\ chunk' = [chunk EXCEPT ![w] = written]

\* chunk_written reaches the master with the next ack.
SendAck(w, file, written) ==
  /\ acks' = acks \cup {[worker |-> w, job |-> file.job, tag |-> file.tag,
                         bytes |-> written]}
  /\ chunk' = [chunk EXCEPT ![w] = 0]

\* Copy one file; the ack of a job goes out with the first of its files.
Copy(w) ==
  /\ pc[w] = "copy"
  /\ queue[w] # << >>
  /\ LET file    == Head(queue[w])
         written == chunk[w] + Size[file.ent.file]
     IN  /\ CopyFile(w, file.ent)
         /\ IF file.ask THEN SendAck(w, file, written)
            ELSE chunk' = [chunk EXCEPT ![w] = written] /\ UNCHANGED acks
  /\ queue' = [queue EXCEPT ![w] = Tail(@)]
  /\ LoopOrFlush(w, Tail(queue[w]))
  /\ UNCHANGED <<failed, masterVars, network, quit, exists>>

\* The empty file name came to a worker with no file left.
NothingToCopy(w) ==
  /\ pc[w] = "copy"
  /\ queue[w] = << >>
  /\ LoopOrFlush(w, << >>)
  /\ UNCHANGED <<failed, masterVars, network, acks, workerVars, fileVars>>

\* Slip: the barrier comes before fclose.
FlushLate(w) ==
  /\ pc[w] = "flush"
  /\ Goto(w, "closing")
  /\ UNCHANGED <<failed, masterVars, network, acks, workerVars, fileVars>>

\* fclose before the barrier.
Flush(w) ==
  /\ pc[w] = "flush"
  /\ Goto(w, "closing")
  /\ archive' = archive \cup stream[w]
  /\ stream' = [stream EXCEPT ![w] = {}]
  /\ UNCHANGED <<failed, masterVars, network, acks, workerVars, exists, fileOff, pos>>

Worker(w) ==
  \/ Reopen(w) \/ Receive(w) \/ NoMessage(w) \/ Copy(w) \/ NothingToCopy(w)
  \/ Flush(w)
-----------------------------------------------------------------------------
Barriers == {"opened", "closing", "end"}

Stopped == failed \/ \A r \in Ranks : pc[r] = "done"

Next ==
  \/ ~ failed /\ (\/ Master
                  \/ \E w \in Workers : Worker(w)
                  \/ \E b \in Barriers : Barrier(b)
                  \/ \E r \in Ranks : Exit(r))
  \/ Stopped /\ UNCHANGED vars

Spec == Init /\ [][Next]_vars

\* Every rank keeps running and MPI makes progress: an ack that has been sent
\* is not withheld from MPI_Testsome for ever.
Fairness ==
  /\ WF_vars(~ failed /\ Master)
  /\ \A w \in Workers : WF_vars(~ failed /\ Worker(w))
  /\ \A b \in Barriers : WF_vars(~ failed /\ Barrier(b))
  /\ \A w \in Workers :
       SF_vars(~ failed /\ \E a \in acks : a.worker = w /\ CollectAck(a))

FairSpec == Spec /\ Fairness
=============================================================================
