------------------------------- MODULE MRLite -------------------------------
(***************************************************************************)
(* The MRLite framework: master (com.neu.mrlite.master), client nodes      *)
(* (com.neu.mrlite.clients) and their common state.                        *)
(*                                                                         *)
(* A client joins (ClientNodeListener), a job is queued (JobListener), the *)
(* scheduler sends one map task to every node and, when all servlets have  *)
(* ended, reduce tasks to the first nodes (JobScheduler, JobServlet).      *)
(* Mappers read their split, report, and then store their output by        *)
(* partition; reducers fetch a partition from every map node.  A socket is *)
(* a queue of lines in each direction, which ends when the client leaves.  *)
(***************************************************************************)
EXTENDS SplitQueues

CONSTANTS
    Client,
    JobConf,       \* what can be submitted: reduce tasks wanted; 0: no reducer
                   \* class; -1: one of the other attributes is missing
    MAX_RUNNING_JOBS,
    MaxJobs,       \* BOUND: jobs accepted
    MaxFaults,     \* BOUND: clients lost, inputs, tasks and readers that fail
    None

ASSUME MRLiteAssumption ==
    /\ JobConf \subseteq Int /\ {MAX_RUNNING_JOBS, MaxJobs, MaxFaults} \subseteq Nat
    /\ None \notin Client \cup Nat

VARIABLES
    cl,        \* the client nodes
    link,      \* the lines on their sockets, to the client and to the master
    serv,      \* JobServlet of each node: its state and its task
    nodes,     \* ClientNodesMap: sequence of <<id, client>>, by id
    listener,  \* ClientNodeListener: the client it talks to, the next id
    sched,     \* JobScheduler
    jobs,      \* JobQueue, and (history) the jobs accepted, finished and lost
    splitIndex,\* of FileSplitServer: splits handed out
    faults,    \* faults so far
    results    \* history: what reducers were given

vars == <<splits, cl, link, serv, nodes, listener, sched, jobs, splitIndex, faults,
          results>>
master == <<nodes, listener, sched, jobs>>

IdleClient == [st |-> "off", id |-> None, at |-> "idle", task |-> None, split |-> None,
               rest |-> <<>>, store |-> {}, fetched |-> {}, input |-> {}, clean |-> TRUE]
NoServlet  == [at |-> "none", task |-> None, line |-> None]

\* JobConf and TaskConf, with the fields that matter here.
NewJobConf  == [no |-> 0, reduce |-> 1]
NewTaskConf == [kind |-> "map", job |-> 0, no |-> 0, reduce |-> 1, part |-> 0, mappers |-> {}]

Init ==
    /\ splits = <<>> /\ splitIndex = 0
    /\ cl = [c \in Client |-> IdleClient]
    /\ link = [c \in Client |-> [to |-> <<>>, from |-> <<>>]]
    /\ serv = [c \in Client |-> NoServlet]
    /\ nodes = <<>> /\ listener = [with |-> None, next |-> 0]
    /\ sched = [at |-> "wait", job |-> None, reduce |-> 0, mappers |-> {}]
    /\ jobs = [queue |-> <<>>, accepted |-> <<>>, finished |-> <<>>, lost |-> <<>>]
    /\ faults = 0 /\ results = {}

generateNodeId      == [listener EXCEPT !.next = @ + 1]
addNewClientNode(c) == Append(nodes, <<cl[c].id, c>>)
\* The place of c among the nodes, as a set.
getClientNode(c)    == {k \in DOMAIN nodes : nodes[k][2] = c}

Reply(c, line) == link' = [link EXCEPT ![c].from = Append(@, line)]
Fault == faults < MaxFaults /\ faults' = faults + 1

----------------------------------------------------------------------------
(* Clients join and leave. *)

\* ClientNodeListener accepts one client at a time, gives it a number ...
Accept(c) ==
    /\ listener.with = None /\ cl[c].st = "off"
    /\ listener' = [generateNodeId EXCEPT !.with = c]
    /\ cl' = [cl EXCEPT ![c].st = "asked", ![c].id = listener.next]
    /\ UNCHANGED <<splits, link, serv, nodes, sched, jobs, splitIndex, faults, results>>

\* ... which the client acknowledges before it waits for tasks ...
AcceptNumber(c) ==
    /\ cl[c].st = "asked"
    /\ cl' = [cl EXCEPT ![c].st = "joined"]
    /\ Reply(c, "CLIENT_NUMBER_ACCEPTED")
    /\ UNCHANGED <<splits, serv, master, splitIndex, faults, results>>

\* ... and is then added to the nodes, unless it has left.
saveClientNodeDetails ==
    LET c == listener.with IN
    /\ c # None
    /\ \/ /\ link[c].from # <<>>
          /\ link' = [link EXCEPT ![c].from = Tail(@)]
          /\ nodes' = addNewClientNode(c)
       \/ /\ link[c].from = <<>> /\ cl[c].st = "gone"
          /\ UNCHANGED <<link, nodes>>
    /\ listener' = [listener EXCEPT !.with = None]
    /\ UNCHANGED <<splits, cl, serv, sched, jobs, splitIndex, faults, results>>

\* The client's process ends.  Nobody takes it off ClientNodesMap.
Disconnect(c) ==
    /\ cl[c].st \in {"asked", "joined"} /\ Fault
    /\ cl' = [cl EXCEPT ![c] = [IdleClient EXCEPT !.st = "gone", !.id = cl[c].id]]
    /\ UNCHANGED <<splits, link, serv, master, splitIndex, results>>

----------------------------------------------------------------------------
(* Jobs are submitted: JobListener, JobConf.scheduleJob, JobQueue. *)

isValidJobConfiguration(n) == n >= 0
queueJob(j) == /\ Len(jobs.queue) < MAX_RUNNING_JOBS
               /\ jobs' = [jobs EXCEPT !.queue = Append(@, j), !.accepted = Append(@, j)]
dequeueJob == jobs.queue # <<>> /\ jobs' = [jobs EXCEPT !.queue = Tail(@)]

scheduleJob(n) ==
    /\ isValidJobConfiguration(n)
    /\ queueJob([NewJobConf EXCEPT !.no = Len(jobs.accepted) + 1, !.reduce = n])

\* queueJob throws when the queue is full, and the submitter is told.  When the
\* submitter closes its connection, readLine returns null, trim throws and the
\* listener ends: Submit then never happens again.
Submit(n) ==
    /\ Len(jobs.accepted) < MaxJobs /\ scheduleJob(n)
    /\ UNCHANGED <<splits, cl, link, serv, nodes, listener, sched, splitIndex, faults,
                   results>>

----------------------------------------------------------------------------
(* JobScheduler. *)

\* Constants.REDUCE_NODES is 1.
estimateTotalReduceTasks(n) ==
    IF n > Len(nodes) THEN IF Len(nodes) < 2 THEN 1 ELSE Len(nodes) - 1
    ELSE IF n > 0 THEN n ELSE 1

Dequeue ==
    /\ sched.at = "wait" /\ dequeueJob
    /\ sched' = [sched EXCEPT !.at = "map", !.job = Head(jobs.queue),
                              !.reduce = estimateTotalReduceTasks(Head(jobs.queue).reduce)]
    /\ UNCHANGED <<splits, cl, link, serv, nodes, listener, splitIndex, faults, results>>

createMapperTaskConf(k) ==
    [NewTaskConf EXCEPT !.job = sched.job.no, !.no = k, !.reduce = sched.reduce]
createMapperNodesInfoList == {[client |-> nodes[k][2], no |-> k] : k \in DOMAIN nodes}
createReducerTaskConf(part) ==
    [NewTaskConf EXCEPT !.kind = "reduce", !.job = sched.job.no, !.part = part,
                        !.mappers = sched.mappers]

\* A servlet that has to send the task.
JobServlet(task) == [at |-> "send", line |-> None, task |-> task]

\* The first job starts FileSplitServer, with a split per node.
startFileSplitServer == splits' = IF splits = <<>> THEN initializeBuffer(Len(nodes)) ELSE splits

\* The first job's input cannot be opened or read: run prints the IOException
\* and waits for the next job, this one is gone.
InputUnreadable ==
    /\ sched.at = "map" /\ splits = <<>> /\ Fault
    /\ sched' = [sched EXCEPT !.at = "wait", !.job = None]
    /\ jobs' = [jobs EXCEPT !.lost = Append(@, sched.job)]
    /\ UNCHANGED <<splits, cl, link, serv, nodes, listener, splitIndex, results>>

\* Without nodes the division by zero in initializeOffsets ends the scheduler's
\* thread.
NoNodes ==
    /\ sched.at = "map" /\ splits = <<>> /\ nodes = <<>>
    /\ sched' = [sched EXCEPT !.at = "dead"]
    /\ UNCHANGED <<splits, cl, link, serv, nodes, listener, jobs, splitIndex, faults, results>>

OpenInput ==
    /\ sched.at = "map" /\ nodes # <<>>
    /\ startFileSplitServer
    /\ sched' = [sched EXCEPT !.at = "split", !.mappers = createMapperNodesInfoList]
    /\ UNCHANGED <<cl, link, serv, nodes, listener, jobs, splitIndex, faults, results>>

\* The loop over the nodes, which ClientNodeListener adds to without a lock, by id:
\* each node that was counted gets a task, the ones that came since up to some last.
scheduleMapTasksToSlaveNodes ==
    /\ sched.at = "split"
    /\ \E last \in DOMAIN nodes :
         LET found == {m \in createMapperNodesInfoList : m.no <= last} IN
         /\ sched.mappers \subseteq found
         /\ sched' = [sched EXCEPT !.at = "mapping", !.mappers = found]
         /\ serv' = [c \in Client |->
                       LET k == {m.no : m \in {n \in found : n.client = c}} IN
                       IF k = {} THEN NoServlet ELSE JobServlet(createMapperTaskConf(CHOOSE no \in k : TRUE))]
    /\ UNCHANGED <<splits, cl, link, nodes, listener, jobs, splitIndex, faults, results>>

\* Mutant: the servlets are not joined.
MutantAllJoined == TRUE

\* Every servlet of the phase has been joined.
AllJoined == \A c \in Client : serv[c].at \in {"none", "done"}

\* Partition i - 1 is reduced by the i-th node.
scheduleReduceTasksToSlaveNodes ==
    /\ sched.at = "mapping" /\ AllJoined /\ sched.job.reduce > 0
    /\ sched' = [sched EXCEPT !.at = "reducing"]
    /\ serv' = [c \in Client |->
                  LET i == getClientNode(c) \cap 1 .. sched.reduce IN
                  IF i = {} THEN NoServlet
                  ELSE JobServlet(createReducerTaskConf((CHOOSE k \in i : TRUE) - 1))]
    /\ UNCHANGED <<splits, cl, link, nodes, listener, jobs, splitIndex, faults, results>>

JobFinished ==
    /\ \/ sched.at = "mapping" /\ sched.job.reduce = 0
       \/ sched.at = "reducing"
    /\ AllJoined
    /\ jobs' = [jobs EXCEPT !.finished = Append(@, sched.job)]
    /\ sched' = [sched EXCEPT !.at = "wait", !.job = None, !.mappers = {}]
    /\ serv' = [c \in Client |-> NoServlet]
    /\ UNCHANGED <<splits, cl, link, nodes, listener, splitIndex, faults, results>>

----------------------------------------------------------------------------
(* JobServlet. *)

ServletSend(c) ==
    /\ serv[c].at = "send"
    /\ serv' = [serv EXCEPT ![c].at = "wait"]
    /\ link' = [link EXCEPT ![c].to = Append(@, serv[c].task)]
    /\ UNCHANGED <<splits, cl, master, splitIndex, faults, results>>

\* Mutant: the end of the stream is waited out.
MutantServletRead(c) ==
    /\ serv[c].at = "wait" /\ link[c].from # <<>>
    /\ link' = [link EXCEPT ![c].from = Tail(@)]
    /\ serv' = [serv EXCEPT ![c].line = Head(link[c].from), ![c].at =
                  IF Head(link[c].from) = "Task_Finished" THEN "done" ELSE "wait"]
    /\ UNCHANGED <<splits, cl, master, splitIndex, faults, results>>

\* Lines are read until the task is finished; the end of the stream throws.
ServletRead(c) ==
    /\ serv[c].at = "wait"
    /\ \/ /\ link[c].from # <<>>
          /\ link' = [link EXCEPT ![c].from = Tail(@)]
          /\ serv' = [serv EXCEPT ![c].line = Head(link[c].from), ![c].at =
                        IF Head(link[c].from) = "Task_Finished" THEN "done" ELSE "wait"]
       \/ /\ link[c].from = <<>> /\ cl[c].st = "gone"
          /\ serv' = [serv EXCEPT ![c].at = "done"]
          /\ UNCHANGED link
    /\ UNCHANGED <<splits, cl, master, splitIndex, faults, results>>

----------------------------------------------------------------------------
(* JobClient and its tasks. *)

ClientUnchanged == <<serv, master>>

TakeTask(c) ==
    /\ cl[c].st = "joined" /\ cl[c].at = "idle" /\ link[c].to # <<>>
    /\ cl' = [cl EXCEPT ![c].task = Head(link[c].to), ![c].fetched = {}, ![c].input = {},
                        ![c].clean = TRUE,
                        ![c].at = IF Head(link[c].to).kind = "map" THEN "open" ELSE "fetch"]
    /\ link' = [link EXCEPT ![c].to = Tail(@)]
    /\ UNCHANGED <<splits, ClientUnchanged, splitIndex, faults, results>>

\* The user's class cannot be loaded, or throws, at any time before the task's
\* last line.
TaskInvalid(c) ==
    /\ cl' = [cl EXCEPT ![c].at = "idle"]
    /\ Reply(c, "Invalid Task configuration provided")
    /\ UNCHANGED <<splits, ClientUnchanged, splitIndex, results>>
executeUserMapperFunction(c) == cl[c].at \in {"open", "mapped"} /\ Fault /\ TaskInvalid(c)
executeUserReduceFunction(c) == cl[c].at = "fetch" /\ Fault /\ TaskInvalid(c)

\* FileSplitServer.run numbers the connections, over all jobs.
nextSplit == splitIndex' = splitIndex + 1

\* IOHandle connects; its number is its split.
OpenHandle(c) ==
    /\ cl[c].at = "open"
    /\ nextSplit
    /\ cl' = [cl EXCEPT ![c].at = "read", ![c].split = splitIndex + 1]
    /\ UNCHANGED <<splits, link, ClientUnchanged, faults, results>>

\* A number without a split: the answer is an error, and the task throws.
NoSplit(c) ==
    /\ cl[c].at = "read" /\ cl[c].split \notin DOMAIN splits
    /\ cl' = [cl EXCEPT ![c].at = "idle"]
    /\ Reply(c, "Invalid Task configuration provided")
    /\ UNCHANGED <<splits, ClientUnchanged, splitIndex, faults, results>>

\* IOHandle asks for a block when it has handed out the last one.
readLine(c) == cl[c].split \in DOMAIN splits /\ TakeLine(cl[c].split)

MapRead(c) ==
    /\ cl[c].at = "read" /\ readLine(c)
    /\ cl' = IF splits'[cl[c].split].empty THEN [cl EXCEPT ![c].at = "mapped"] ELSE cl
    /\ UNCHANGED <<link, ClientUnchanged, splitIndex, faults, results>>

\* execute sends the output and reports before partitionMapOut stores it.
MapFinish(c) ==
    /\ cl[c].at = "mapped"
    /\ cl' = [cl EXCEPT ![c].at = "store", ![c].rest = splits[cl[c].split].read]
    /\ Reply(c, "Task_Finished")
    /\ UNCHANGED <<splits, ClientUnchanged, splitIndex, faults, results>>

\* HashPartitioner.
getPartition(key, n) == key % n

\* Mutant: a new list replaces the one that is there.
MutantPutKeyValue(store, key, line) ==
    {p \in store : p.key # key} \cup {[key |-> key, line |-> line]}

\* InMemStore: pairs under the key <job, map task, partition>.
putKeyValue(store, key, line) == store \cup {[key |-> key, line |-> line]}
getValueForKey(store, key) == {p.line : p \in {q \in store : q.key = key}}

\* partitionMapOut: one pair into the store.
partitionMapOut(c) ==
    LET t    == cl[c].task
        line == Head(cl[c].rest)
    IN  /\ cl[c].at = "store"
        /\ cl' = IF cl[c].rest = <<>> THEN [cl EXCEPT ![c].at = "idle"]
                 ELSE [cl EXCEPT ![c].rest = Tail(@),
                         ![c].store = putKeyValue(@, <<t.job, t.no, getPartition(line, t.reduce)>>, line)]
        /\ UNCHANGED <<splits, link, ClientUnchanged, splitIndex, faults, results>>

\* MapOutputServer of node m: what is stored under the key by now, which is
\* nothing when the node is gone.
serveMapOutputPartition(m, key) == getValueForKey(cl[m].store, key)

\* ShuffleMapPartition: the task's partition is copied from one map node.
receiveMapPartition(c, m) ==
    LET t    == cl[c].task
        from == cl[m.client]
    IN  /\ cl[c].at = "fetch" /\ m \in t.mappers \ cl[c].fetched
        /\ cl' = [cl EXCEPT ![c].fetched = @ \cup {m},
                    ![c].input = @ \cup {<<m, line>> : line \in
                                    serveMapOutputPartition(m.client, <<t.job, m.no, t.part>>)},
                    ![c].clean = @ /\ from.st = "joined"
                                   /\ ~(from.at = "store" /\ from.task.job = t.job)]
        /\ UNCHANGED <<splits, link, ClientUnchanged, splitIndex, faults, results>>

\* The pairs by key, here the line; the last group is added even if it is null.
groupMapResultsByKey(input) ==
    IF input = {} THEN {None} ELSE {{q \in input : q[2] = p[2]} : p \in input}

\* All copies have been joined.
shuffle(c) == cl[c].at = "fetch" /\ cl[c].fetched = cl[c].task.mappers

\* The reducer throws at a null pair.
ReduceFinish(c) ==
    /\ shuffle(c)
    /\ cl' = [cl EXCEPT ![c].at = "idle"]
    /\ LET grouped == groupMapResultsByKey(cl[c].input) IN
       \/ /\ None \in grouped
          /\ Reply(c, "Invalid Task configuration provided")
          /\ UNCHANGED results
       \/ /\ None \notin grouped
          /\ Reply(c, "Task_Finished")
          /\ results' = results \cup {[job |-> cl[c].task.job, part |-> cl[c].task.part,
                                       groups |-> grouped, clean |-> cl[c].clean]}
    /\ UNCHANGED <<splits, ClientUnchanged, splitIndex, faults>>

----------------------------------------------------------------------------
Reader(i) == /\ ReaderLoop(i) \/ fillQueue(i)
             /\ UNCHANGED <<cl, link, serv, master, splitIndex, faults, results>>
ReadError(i) == /\ ReaderFails(i) /\ Fault
                /\ UNCHANGED <<cl, link, serv, master, splitIndex, results>>

ClientStep(c) ==
    \/ AcceptNumber(c) \/ TakeTask(c) \/ OpenHandle(c) \/ NoSplit(c) \/ MapRead(c)
    \/ MapFinish(c) \/ partitionMapOut(c) \/ ReduceFinish(c)
    \/ \E m \in sched.mappers : receiveMapPartition(c, m)
Scheduler == \/ Dequeue \/ InputUnreadable \/ NoNodes \/ OpenInput
             \/ scheduleMapTasksToSlaveNodes \/ scheduleReduceTasksToSlaveNodes \/ JobFinished
Servlet(c) == ServletSend(c) \/ ServletRead(c)

Next ==
    \/ \E c \in Client : \/ Accept(c) \/ Disconnect(c) \/ ClientStep(c) \/ Servlet(c)
                         \/ executeUserMapperFunction(c) \/ executeUserReduceFunction(c)
    \/ \E n \in JobConf : Submit(n)
    \/ saveClientNodeDetails \/ Scheduler
    \/ \E i \in DOMAIN splits : Reader(i) \/ ReadError(i)

Spec == Init /\ [][Next]_vars

\* Threads of the Java virtual machine that can go on do: the scheduler, the
\* servlets, the clients and the readers of at most Cardinality(Client) splits.
FairSpec ==
    /\ Spec
    /\ WF_vars(Scheduler)
    /\ \A c \in Client : WF_vars(ClientStep(c)) /\ WF_vars(Servlet(c))
    /\ \A i \in 1 .. Cardinality(Client) : WF_vars(i \in DOMAIN splits /\ Reader(i))

----------------------------------------------------------------------------
(* Properties. *)

\* The line that ends a JobServlet answers the task it sent: a node has at most
\* one task that is not answered, and only while its servlet of that task
\* waits, so that no servlet of a later phase or job takes an old answer for
\* its own.
AnswersMatch ==
    \A c \in Client : cl[c].st = "joined" =>
      LET working  == cl[c].at \notin {"idle", "store"}
          answers  == {k \in DOMAIN link[c].from : link[c].from[k] = "Task_Finished"}
          pending  == Len(link[c].to) + Cardinality(answers) + (IF working THEN 1 ELSE 0)
      IN  /\ pending <= 1
          /\ pending = 1 => serv[c].at = "wait"
          /\ link[c].to # <<>> => Head(link[c].to) = serv[c].task
          /\ working \/ answers # {} => cl[c].task = serv[c].task

\* A reducer gets lines of its own job and partition only, no line twice nor
\* together with another reducer of the job, and, when no map node was lost or
\* still storing its output at the time of the copy, every line that the
\* mappers of the job read, save those they stored for another partition.
ReduceExact ==
    \A r \in results :
      LET input == UNION r.groups
          lines == {p[2] : p \in input}
          read  == UNION {Range(splits[i].read) : i \in DOMAIN splits}
      IN  /\ lines \subseteq read
          /\ \A p \in input : p[2] \in getValueForKey(cl[p[1].client].store, <<r.job, p[1].no, r.part>>)
                             \/ cl[p[1].client].st = "gone"
          /\ Cardinality(lines) = Cardinality(r.groups) /\ Cardinality(lines) = Cardinality(input)
          /\ \A q \in results : q.job = r.job /\ q.part # r.part =>
                lines \cap {p[2] : p \in UNION q.groups} = {}
          /\ r.clean /\ (\A c \in Client : cl[c].st # "gone") =>
                \A line \in read \ lines : \E c \in Client : \E p \in cl[c].store :
                   p.line = line /\ p.key[1] = r.job /\ p.key[3] # r.part

\* The scheduler waits for something that cannot come: it has ended, a node has
\* answered that its task is invalid (the servlet reads on for Task_Finished),
\* or a mapper waits for a reader that ended without its pill.
Stuck ==
    \/ sched.at = "dead"
    \/ \E c \in Client : serv[c].at = "wait" /\ serv[c].line = "Invalid Task configuration provided"
    \/ \E c \in Client : cl[c].at = "read" /\ cl[c].split \in DOMAIN splits
                        /\ splits[cl[c].split].at = "failed"

\* A job that was queued ends, also when a node or the job before it is lost:
\* it finishes, or it is dropped because the input cannot be opened, unless the
\* scheduler is stuck on an invalid task, a failed reader or its own death.
Ended(n) == \E j \in Range(jobs.finished) \cup Range(jobs.lost) : j.no = n
JobEnds  == \A n \in 1 .. MaxJobs : n \in DOMAIN jobs.accepted ~> Stuck \/ Ended(n)
=============================================================================
