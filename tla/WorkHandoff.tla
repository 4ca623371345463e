----------------------------- MODULE WorkHandoff -----------------------------
(***************************************************************************)
(* The handoff between the control worker and the Builder                  *)
(* (work_handoff.py): Client.invoke publishes a request in the inbox under *)
(* its request UUID and waits two seconds for the response; the receiver   *)
(* child of the Work Runner scans the inbox, performs the operation on the *)
(* store and publishes the response in the outbox under the same UUID.     *)
(*                                                                         *)
(* Directory.publish writes a temporary file, links it to the message's    *)
(* name, which fails if the name exists, and unlinks it. While both names  *)
(* exist the message has two links, and Directory.read refuses it. Each of *)
(* these system calls is a step, and both processes can die between them.  *)
(*                                                                         *)
(* The store, with the worker and the other processes that use it, is      *)
(* TaskLifecycle, which WorkRunner implements.                             *)
(***************************************************************************)
EXTENDS Integers, FiniteSets

CONSTANTS
    Tasks,      \* task UUIDs
    Payloads,   \* the contracts that are submitted under them
    Calls,      \* invocations of Client.invoke, each by a process of its own
    Ids,        \* request UUIDs
    Operations, \* the capabilities that callers use, all of OPERATIONS in the code
    Capacity,   \* CAPACITY, 2048 in the code
    None

ASSUME HandoffAssumption ==
    /\ IsFiniteSet(Calls) /\ IsFiniteSet(Ids)
    /\ Operations \subseteq {"submit", "status", "cancel"}
    /\ Capacity \in Nat
    /\ None \notin Tasks \cup Payloads \cup Calls \cup Ids

VARIABLES
    task, asked,    \* the life of each task: TaskLifecycle's variables,
    payload,        \* with the contract each task was admitted with
    orphaned,       \* and the tasks left with an interrupted admission
    inbox, outbox,  \* the message under each name, or None
    temp,           \* each call's temporary file in the inbox
    strays, torn,   \* the outbox's temporary files that a dead receiver left:
                    \* how many unlinked ones, and the names with a linked one
    call,           \* where each call is, its request ID and its message
    at,             \* where the receiver is
    names,          \* the rest of its listing of the inbox
    current,        \* the request ID it works on
    reply           \* the response it has made

storeVars    == <<task, asked, payload, orphaned>>
clientVars   == <<inbox, temp, call>>
receiverVars == <<outbox, strays, torn, at, names, current, reply>>
vars == <<task, asked, payload, orphaned, inbox, outbox, temp, strays, torn,
          call, at, names, current, reply>>

Store == INSTANCE TaskLifecycle WITH NoPayload <- None
-----------------------------------------------------------------------------
(* Requests, responses and the files of the two directories.               *)

Messages == [op : Operations \cap {"submit"}, task : Tasks, payload : Payloads]
       \cup [op : Operations \ {"submit"}, task : Tasks, payload : {None}]
Rejections == {"conflict", "refused", "unknown_task"}
Replies  == [to : Messages, outcome : {"completed"} \cup Rejections, created : BOOLEAN,
             status : {"unknown", "open"} \cup Store!Outcomes]

ASSUME NoneIsNoMessage == None \notin Messages \cup Replies

Steps == {"new", "checking", "writing", "linking", "unlinking", "waiting"}
Ends  == {"answered", "handoff_pending", "rejected", "invalid_file", "os_error", "dead"}

Entries(box) == {id \in Ids : box[id] # None}
InboxNames   == Cardinality(Entries(inbox)) + Cardinality({c \in Calls : temp[c] # "none"})
OutboxNames  == Cardinality(Entries(outbox)) + Cardinality(torn) + strays
                + (IF at \in {"linking", "unlinking"} THEN 1 ELSE 0)

(* Directory.read accepts a message with one link only.                     *)
AnyLinks(id)    == inbox[id] # None          \* seeded defect: st_nlink not looked at
SingleLink(id)  == inbox[id] # None /\ ~\E c \in Calls : temp[c] = "linked" /\ call[c].id = id
SingleReply(id) == outbox[id] # None /\ id \notin torn
                   /\ ~(at = "unlinking" /\ current = id)

-----------------------------------------------------------------------------
(* Client.invoke.                                                           *)

Continue(c, step) == call' = [call EXCEPT ![c].at = step]

(* publish reads the message that may already be there: a repeated request  *)
(* goes on to wait, another request under the same ID is rejected.          *)
Invoke(c, id, m) ==
    /\ call[c].at = "new"
    /\ call' = [call EXCEPT ![c] =
         [id |-> id, msg |-> m,
          at |-> IF inbox[id] = None THEN "checking"
                 ELSE IF ~SingleLink(id) THEN "invalid_file"
                 ELSE IF inbox[id] = m THEN "waiting" ELSE "rejected"]]
    /\ UNCHANGED <<inbox, temp, storeVars, receiverVars>>

CheckCapacity(c) ==
    /\ call[c].at = "checking"
    /\ Continue(c, IF InboxNames >= Capacity THEN "rejected" ELSE "writing")
    /\ UNCHANGED <<inbox, temp, storeVars, receiverVars>>

WriteTemporary(c) ==
    /\ call[c].at = "writing"
    /\ temp' = [temp EXCEPT ![c] = "written"]
    /\ Continue(c, "linking")
    /\ UNCHANGED <<inbox, storeVars, receiverVars>>

(* No replacement: link fails if a concurrent publisher was faster.         *)
Replaceable(id) == TRUE                      \* seeded defect: rename instead of link
NameIsFree(id)  == inbox[id] = None

Link(c) ==
    /\ call[c].at = "linking"
    /\ IF NameIsFree(call[c].id)
       THEN /\ inbox' = [inbox EXCEPT ![call[c].id] = call[c].msg]
            /\ temp'  = [temp EXCEPT ![c] = "linked"]
       ELSE UNCHANGED <<inbox, temp>>
    /\ Continue(c, "unlinking")
    /\ UNCHANGED <<storeVars, receiverVars>>

(* finally: the temporary name is removed, whatever link did.               *)
Unlink(c) ==
    /\ call[c].at = "unlinking"
    /\ temp' = [temp EXCEPT ![c] = "none"]
    /\ Continue(c, IF temp[c] = "linked" THEN "waiting" ELSE "os_error")
    /\ UNCHANGED <<inbox, storeVars, receiverVars>>

OwnReply(c) == outbox[call[c].id].to = call[c].msg

ReadReply(c) ==
    /\ call[c].at = "waiting"
    /\ outbox[call[c].id] # None
    /\ Continue(c, IF SingleReply(call[c].id) /\ OwnReply(c)
                   THEN "answered" ELSE "invalid_file")
    /\ UNCHANGED <<inbox, temp, storeVars, receiverVars>>

(* The two seconds are over.                                                *)
Expired(c)    == outbox[call[c].id] = None

GiveUp(c) ==
    /\ call[c].at = "waiting"
    /\ Expired(c)
    /\ Continue(c, "handoff_pending")
    /\ UNCHANGED <<inbox, temp, storeVars, receiverVars>>

(* A full disk, before the message has its name.                            *)
CallFails(c) ==
    /\ call[c].at \in {"writing", "linking"}
    /\ temp' = [temp EXCEPT ![c] = "none"]
    /\ Continue(c, "os_error")
    /\ UNCHANGED <<inbox, storeVars, receiverVars>>

CallDies(c) ==
    /\ call[c].at \in Steps \ {"new"}
    /\ Continue(c, "dead")
    /\ UNCHANGED <<inbox, temp, storeVars, receiverVars>>

-----------------------------------------------------------------------------
(* Server: one receiver process; it alone writes to the outbox.             *)

(* serve spawns the receiver, again after every restart of the service.     *)
Restart ==
    /\ at = "down"
    /\ at' = "idle"
    /\ UNCHANGED <<storeVars, clientVars, outbox, strays, torn, names, current, reply>>

Down ==
    /\ at'      = "down"
    /\ names'   = {}
    /\ current' = None
    /\ reply'   = None
    /\ UNCHANGED outbox
StaleReply ==                                 \* seeded defect: the response is kept
    /\ at'      = "scanning"
    /\ current' = None
    /\ UNCHANGED <<names, reply>>
NextName ==
    /\ at'      = "scanning"
    /\ current' = None
    /\ reply'   = None
    /\ UNCHANGED names

(* tick lists the inbox. With too many names it raises, and receive_work    *)
(* ends with it.                                                            *)
Scan ==
    /\ at = "idle"
    /\ IF InboxNames > Capacity
       THEN Down
       ELSE /\ at' = "scanning"
            /\ names' = Entries(inbox)
            /\ UNCHANGED <<outbox, current, reply>>
    /\ UNCHANGED <<storeVars, clientVars, strays, torn>>

ScanEnds ==
    /\ at = "scanning"
    /\ names = {}
    /\ at' = "idle"
    /\ UNCHANGED <<storeVars, clientVars, outbox, strays, torn, names, current, reply>>

(* process reads the request and the response that may exist already. A     *)
(* request that cannot be read, or that has a response, readable or not, is *)
(* passed over. Neither file changes until the receiver has used it.        *)
NeverAnswered(id) == FALSE                   \* seeded defect: outbox not looked at
Answered(id)      == outbox[id] # None

AbortTick == at' = "idle" /\ UNCHANGED current   \* seeded defect: the tick ends there
PassOver  == UNCHANGED <<at, current>>

Read ==
    /\ at = "scanning"
    /\ \E id \in names :
         /\ names' = names \ {id}
         /\ IF SingleLink(id) /\ ~Answered(id)
            THEN at' = "operating" /\ current' = id
            ELSE PassOver
    /\ UNCHANGED <<storeVars, clientVars, outbox, strays, torn, reply>>

Request   == inbox[current]
Status(t) == IF task'[t] \in Store!Held \cup {"queued"} THEN "open" ELSE task'[t]
Respond(outcome, created) ==
    /\ reply' = [to |-> Request, outcome |-> outcome, created |-> created,
                 status |-> IF outcome = "completed" THEN Status(Request.task) ELSE "unknown"]
    /\ at' = "publishing"
    /\ UNCHANGED <<outbox, strays, torn, names, current>>

Operating(op) == at = "operating" /\ Request.op = op
Known         == task[Request.task] # "unknown"

(* Store.submit of a new task.                                              *)
SubmitNew ==
    /\ Operating("submit")
    /\ ~Known
    /\ Store!Admit(Request.task, Request.payload)
    /\ Respond("completed", TRUE)
    /\ UNCHANGED clientVars

(* Admission refuses the contract: too old or dated too far ahead, its base *)
(* not the profile's, no room for another record. Some of these reasons go  *)
(* away: the same contract may be admitted later, under another request ID  *)
(* or by the CLI. The base is compared before the store is asked, so that   *)
(* after a change of the profile a task that is known is refused too.       *)
SubmitRefused ==
    /\ Operating("submit")
    /\ UNCHANGED <<storeVars, clientVars>>
    /\ Respond("refused", FALSE)

(* mkdir raises FileExistsError; tick swallows it, and there is no response.*)
SubmitOrphaned ==
    /\ Operating("submit")
    /\ ~Known
    /\ Request.task \in orphaned
    /\ NextName
    /\ UNCHANGED <<storeVars, clientVars, outbox, strays, torn>>

SameTask    == TRUE                          \* seeded defect: payload not compared
SamePayload == payload[Request.task] = Request.payload

SubmitAgain ==
    /\ Operating("submit")
    /\ Known
    /\ UNCHANGED <<storeVars, clientVars>>
    /\ Respond(IF SamePayload THEN "completed" ELSE "conflict", FALSE)

Cancel ==
    /\ Operating("cancel")
    /\ Known
    /\ \/ Store!Withdraw(Request.task)
       \/ Store!Ask(Request.task)
       \/ task[Request.task] \in Store!Outcomes /\ UNCHANGED <<task, asked, payload, orphaned>>
    /\ Respond("completed", FALSE)
    /\ UNCHANGED clientVars

QueryStatus ==
    /\ Operating("status")
    /\ Known
    /\ UNCHANGED <<storeVars, clientVars>>
    /\ Respond("completed", FALSE)

UnknownTask ==
    /\ Operating("cancel") \/ Operating("status")
    /\ ~Known
    /\ UNCHANGED <<storeVars, clientVars>>
    /\ Respond("unknown_task", FALSE)

(* outbox.publish: transport_capacity is swallowed by tick, like every other*)
(* error, and the request is processed again at the next tick.              *)
PublishReply ==
    /\ at = "publishing"
    /\ IF OutboxNames >= Capacity
       THEN NextName
       ELSE at' = "linking" /\ UNCHANGED <<names, current, reply>>
    /\ UNCHANGED <<storeVars, clientVars, outbox, strays, torn>>

LinkReply ==
    /\ at = "linking"
    /\ outbox' = [outbox EXCEPT ![current] = reply]
    /\ at' = "unlinking"
    /\ UNCHANGED <<storeVars, clientVars, strays, torn, names, current, reply>>

UnlinkReply ==
    /\ at = "unlinking"
    /\ NextName
    /\ UNCHANGED <<storeVars, clientVars, outbox, strays, torn>>

(* A full disk, before the store operation takes effect or the response has *)
(* its name: the error is swallowed too.                                    *)
OperationFails ==
    /\ at \in {"operating", "publishing", "linking"}
    /\ NextName
    /\ UNCHANGED <<storeVars, clientVars, outbox, strays, torn>>

(* Admission that fails, or dies, between its directory and its record.     *)
AdmissionStops ==
    /\ Operating("submit")
    /\ ~Known
    /\ Store!Orphan(Request.task)
    /\ \/ NextName /\ UNCHANGED outbox
       \/ Down
    /\ UNCHANGED <<clientVars, strays, torn>>

ReceiverDies ==
    /\ at # "down"
    /\ Down
    /\ strays' = IF at = "linking" THEN strays + 1 ELSE strays
    /\ torn'   = IF at = "unlinking" THEN torn \cup {current} ELSE torn
    /\ UNCHANGED <<storeVars, clientVars>>

-----------------------------------------------------------------------------
(* The rest of the Builder: the worker, and the administrative CLI.         *)

Work ==
    /\ \E t \in Tasks : Store!Hold(t) \/ Store!Invoke(t) \/ Store!Settle(t)
    /\ UNCHANGED <<clientVars, receiverVars>>

AdminSubmit(t, p) ==
    /\ Store!Admit(t, p)
    /\ UNCHANGED <<clientVars, receiverVars>>

AdminStops(t, p) ==
    /\ t \notin orphaned
    /\ Store!Orphan(t)
    /\ UNCHANGED <<clientVars, receiverVars>>

AdminCancel(t) ==
    /\ Store!Withdraw(t) \/ Store!Ask(t)
    /\ UNCHANGED <<clientVars, receiverVars>>

-----------------------------------------------------------------------------
Init ==
    /\ Store!Init
    /\ inbox    = [id \in Ids |-> None]
    /\ outbox   = [id \in Ids |-> None]
    /\ temp     = [c \in Calls |-> "none"]
    /\ strays   = 0
    /\ torn     = {}
    /\ call     = [c \in Calls |-> [at |-> "new", id |-> None, msg |-> None]]
    /\ at       = "down"
    /\ names    = {}
    /\ current  = None
    /\ reply    = None

Client(c) == CheckCapacity(c) \/ WriteTemporary(c) \/ Link(c) \/ Unlink(c)
             \/ ReadReply(c) \/ GiveUp(c)
Operate   == SubmitNew \/ SubmitRefused \/ SubmitOrphaned \/ SubmitAgain
             \/ Cancel \/ QueryStatus \/ UnknownTask
Server    == Restart \/ Scan \/ ScanEnds \/ Read \/ Operate
             \/ PublishReply \/ LinkReply \/ UnlinkReply
Admin     == \E t \in Tasks : AdminCancel(t) \/ \E p \in Payloads : AdminSubmit(t, p)
Fault     == \/ \E c \in Calls : CallFails(c) \/ CallDies(c)
             \/ OperationFails \/ AdmissionStops \/ ReceiverDies
             \/ \E t \in Tasks, p \in Payloads : AdminStops(t, p)

Next ==
    \/ \E c \in Calls : Client(c) \/ \E id \in Ids, m \in Messages : Invoke(c, id, m)
    \/ Server \/ Work \/ Admin \/ Fault

Spec == Init /\ [][Next]_vars

(* Fairness. The receiver and the process that called invoke keep running   *)
(* their program; the service is restarted after a failure.                 *)
FairSpec == Spec /\ WF_vars(Server) /\ \A c \in Calls : WF_vars(Client(c))
-----------------------------------------------------------------------------
(* Correctness properties.                                                  *)

(* The type invariant, with the program points at which the receiver has a  *)
(* request and a response.                                                  *)
TypeOK ==
    /\ task \in [Tasks -> Store!Phases] /\ asked \subseteq Tasks
    /\ payload \in [Tasks -> Payloads \cup {None}]
    /\ orphaned \subseteq Tasks
    /\ inbox \in [Ids -> Messages \cup {None}]
    /\ outbox \in [Ids -> Replies \cup {None}]
    /\ temp \in [Calls -> {"none", "written", "linked"}]
    /\ strays \in Nat /\ torn \subseteq Ids
    /\ call \in [Calls -> [at : Steps \cup Ends, id : Ids \cup {None},
                           msg : Messages \cup {None}]]
    /\ at \in {"down", "idle", "scanning", "operating", "publishing", "linking", "unlinking"}
    /\ names \subseteq Ids
    /\ current \in Ids \cup {None} /\ reply \in Replies \cup {None}
    /\ at \in {"operating", "publishing", "linking", "unlinking"} <=> current # None
    /\ at \in {"publishing", "linking", "unlinking"} <=> reply # None

(* A published message is never replaced or removed, whoever else publishes *)
(* under the same ID at the same time (Directory.publish).                  *)
PublishedIsFinal ==
    [][\A id \in Ids : /\ inbox[id] # None => inbox'[id] = inbox[id]
                       /\ outbox[id] # None => outbox'[id] = outbox[id]]_vars

(* handoff_pending and every response acknowledge a durable handoff of the  *)
(* caller's own request: it stays readable for the receiver, although other *)
(* callers with the same ID may still die before or after they link it.     *)
AcknowledgedIsDurable ==
    \A c \in Calls : call[c].at \in {"handoff_pending", "answered", "waiting"} =>
        /\ inbox[call[c].id] = call[c].msg
        /\ \A d \in Calls : call[d].id = call[c].id => temp[d] # "linked"

(* What a response says is true of the store, whatever its receiver, the    *)
(* worker and the CLI did before and after it was made: a task acknowledged *)
(* has this contract, one rejected for a conflict has another and keeps it, *)
(* a cancellation acknowledged is in force, and an outcome reported is the  *)
(* final one. It is the response to the request that is under its ID. That  *)
(* a contract was refused, or a task unknown, may be over by then.          *)
TrueOf(r) ==
    LET t == r.to.task
    IN  /\ r.outcome = "completed" => task[t] # "unknown"
        /\ r.outcome = "completed" /\ r.to.op = "submit" => payload[t] = r.to.payload
        /\ r.outcome = "conflict" => payload[t] \notin {r.to.payload, None}
        /\ r.outcome = "completed" /\ r.to.op = "cancel" =>
               t \in asked \/ task[t] \in Store!Outcomes
        /\ r.status \in Store!Outcomes => task[t] = r.status
RepliesAreTrue ==
    \A id \in Ids : outbox[id] # None =>
        TrueOf(outbox[id]) /\ outbox[id].to = inbox[id]

(* A request that has its response has no effect any more: a cancellation   *)
(* rejected because the task was unknown does not cancel it later, however  *)
(* often the receiver is restarted (Server.process).                        *)
NoEffectAfterReply ==
    [][at = "operating" /\ (<<task, asked, payload>>' # <<task, asked, payload>>)
         /\ at' # at => outbox[current] = None]_vars

(* Once faults stop, every request that can be read is answered, unless its *)
(* task was left with an interrupted admission or a directory is full for   *)
(* good; entries that cannot be read hold up no other. A full outbox and an *)
(* interrupted admission do to every tick what a fault would do: they are   *)
(* not faults here.                                                         *)
Quiet == <>[][Fault => Server]_vars
Full == InboxNames > Capacity \/ OutboxNames >= Capacity
Orphaned(id) == inbox[id] # None /\ inbox[id].task \in orphaned
RequestIsAnswered ==
    Quiet => \A id \in Ids :
        SingleLink(id) ~> (outbox[id] # None \/ Orphaned(id) \/ []Full)

(* remote-work-submission-v01.md: a directory retains at most Capacity      *)
(* entries, temporary files included - while nobody is publishing.          *)
Publishing == \/ \E c \in Calls : call[c].at \in {"writing", "linking", "unlinking"}
              \/ at \in {"publishing", "linking", "unlinking"}
WithinCapacity ==
    ~Publishing => InboxNames <= Capacity /\ OutboxNames <= Capacity
=============================================================================
