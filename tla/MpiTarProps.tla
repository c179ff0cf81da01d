----------------------------- MODULE MpiTarProps -----------------------------
(* What the mpitar protocol must satisfy, checked by MCMpiTar. *)
EXTENDS MpiTar

\* The abstract archive.
Tar == INSTANCE TarArchive
         WITH phase <- CASE pc[0] = "create"        -> "old"
                         [] pc[0] \in {"end", "done"} -> "closed"
                         [] OTHER                     -> "writing"

MasterPCs == {"create", "opened", "open_index", "test_send", "test_recv", "dispatch",
              "build", "wait_sends", "wait_recvs", "terminate", "terminating", "closing",
              "index", "index_copy", "index_end", "end", "done"}
WorkerPCs == {"opened", "reopen", "probe", "copy", "flush", "closing", "end", "done"}

Request  == [job : Nat, tag : Slots \cup {0}]
Entries  == [file : Members, off : Nat]
Message  == [job : Nat, tag : Slots, ents : Seq(Entries)]
Filedesc == [ent : Entries, ask : BOOLEAN, job : Nat, tag : Slots]
Ack      == [worker : Workers, job : Nat, tag : Slots, bytes : Nat]
Extents  == [at : Nat, file : Nat]

ControlOK ==
  /\ pc \in [Ranks -> MasterPCs \cup WorkerPCs]
  /\ pc[0] \in MasterPCs /\ \A w \in Workers : pc[w] \in WorkerPCs
  /\ failed \in BOOLEAN
  /\ current \in Workers
PackingOK ==
  /\ listed \in 0..NFiles /\ off \in Nat /\ progress \in Nat
  /\ recvId \in Slots \cup {0} /\ sendId \in Slots \cup {0}
  /\ buffer \in Seq(Entries) /\ index \in Seq(Entries)
RequestsOK ==
  /\ jobsInFlight \in [Workers -> 0..MaxJobsInFlight]
  /\ recvReq \in [Workers -> [Slots -> Request]]
  /\ sendReq \in [Workers -> [Slots -> Nat]]
  /\ jobs \in Nat
MessagesOK ==
  /\ network \in [Workers -> Seq(Message)]
  /\ acks \subseteq Ack
QueuesOK ==
  /\ queue \in [Workers -> Seq(Filedesc)]
  /\ quit \in [Workers -> BOOLEAN]
  /\ chunk \in [Workers -> Nat]
FilesOK ==
  /\ exists \in BOOLEAN
  /\ archive \subseteq Extents
  /\ stream \in [Ranks -> SUBSET Extents]
  /\ fileOff \in [Ranks -> Nat] /\ pos \in [Ranks -> Nat]

\* Types of the variables of master() and worker() and of what MPI holds.
TypeOK == ControlOK /\ PackingOK /\ RequestsOK /\ MessagesOK /\ QueuesOK /\ FilesOK
-----------------------------------------------------------------------------
(* Requests and messages *)

\* Where the master is after the final MPI_Waitall.
AfterWait == {"terminate", "terminating", "closing", "index", "index_copy",
              "index_end", "end", "done"}

\* The receives posted for worker w that no ack has completed.
Posted(w) == {r \in Slots : recvReq[w][r] # NoRequest}

\* The two asserts of master() on find_unused_request (mpitar.cpp:224 and
\* 227) never fail, and no worker finds the archive missing when it opens it.
NoAbort == IOErrors \/ ~ failed

\* Until the final MPI_Waitall, jobs_in_flight[w] counts the receives posted
\* for worker w: no ack is counted twice, lost or taken by Testany unseen.
OneReceivePerJob ==
  pc[0] \notin AfterWait =>
    \A w \in Workers : jobsInFlight[w] = Cardinality(Posted(w))

\* When MPI does not copy what it sends, the buffer of a job that the worker
\* has not received is neither cleared nor used for another job.
SendBufferStable ==
  ~ Eager => \A w \in Workers : \A i \in DOMAIN network[w] :
               LET m == network[w][i]
               IN  m.ents # << >> => sendReq[w][m.tag] = m.job

\* Every ack under way has a receive posted for it, and none arrives after
\* the final MPI_Waitall.
EveryAckAwaited ==
  \A a \in acks : Cardinality({r \in Slots : recvReq[a.worker][r].job = a.job}) = 1

\* MPI pairs the oldest ack of a worker with a tag with the oldest receive
\* posted for that worker and tag.  Both always belong to the same job.
TagsPairAcks ==
  \A a \in acks :
    LET older  == {b \in acks : b.worker = a.worker /\ b.tag = a.tag /\ b.job < a.job}
        posted == {recvReq[a.worker][r].job : r \in {s \in Posted(a.worker) :
                                               recvReq[a.worker][s].tag = a.tag}}
    IN  older = {} => a.job \in posted /\ \A j \in posted : a.job <= j
-----------------------------------------------------------------------------
(* Jobs at the workers *)

\* Jobs with a file that worker w has not copied.
QueuedJobs(w)     == {queue[w][i].job : i \in DOMAIN queue[w]}
UnfinishedJobs(w) == QueuedJobs(w) \cup ({network[w][i].job : i \in DOMAIN network[w]} \ {0})

\* No worker is ever behind by more than MAX_JOBS_IN_FLIGHT jobs and the one
\* whose ack it sent with the first file (mpitar.cpp:74, 431; not when it was done
\* with the job, as 44-45 have it).
BoundedBacklog ==
  \A w \in Workers : Cardinality(UnfinishedJobs(w)) <= MaxJobsInFlight + 1

\* A worker leaves its loop only when no file and no message is left for it.
WorkerQuitsDrained ==
  \A w \in Workers : pc[w] \in {"flush", "closing", "end", "done"} =>
                       queue[w] = << >> /\ network[w] = << >>
-----------------------------------------------------------------------------
(* The archive and the index *)

\* The bytes acked never exceed the bytes handed out, so that off-current in
\* the last call of show_progress (mpitar.cpp:299) does not wrap around.
ProgressWithinTotal == progress <= off

\* Whatever the interleaving, each member stands where its index line says,
\* and once the archive is complete the index has one line for each member,
\* in the order of the list, last the index file itself.
IndexLocatesMembers ==
  exists /\ pc[0] # "create" =>
    /\ \A x \in archive \cup UNION {stream[r] : r \in Ranks} :
         x.file \in DOMAIN index /\ index[x.file] = Entry(x.file, x.at)
    /\ pc[0] \in {"end", "done"} =>
         /\ Len(index) = NFiles + 1
         /\ \A i \in DOMAIN index : Extent(index[i].off, i) \in archive

\* The archive goes through the steps of TarArchive: emptied before any rank
\* writes to it, each file stored once and where a sequential tar puts it
\* (mpitar.cpp:46-48), the index file and the end-of-archive blocks added only
\* when every file is in it.
TarSpec == Tar!Spec

\* mpitar ends, at an exit(1) if a call fails: no rank waits for ever for a
\* message, an ack or a barrier.
Finishes == <>Stopped
=============================================================================
