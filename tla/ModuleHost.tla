----------------------------- MODULE ModuleHost -----------------------------
(***************************************************************************)
(* The lifecycle of one broker module (src/src/broker/module.c): the       *)
(* broker thread that owns the module record, the module thread running   *)
(* module_thread(), and the PAIR socket between them, modelled as two      *)
(* FIFO channels (toMod: broker end -> module, toBroker: module -> broker). *)
(*                                                                         *)
(* The broker side of the "broker.module-status" protocol (the handler     *)
(* that mutes the module and acknowledges FINALIZING, and the decision to  *)
(* destroy the record after EXITED or after a cancel) lives in broker.c,   *)
(* which is not part of this repository; it is modelled from the spec.     *)
(*                                                                         *)
(* Data is abstracted: a client request is an element of Reqs, a message  *)
(* is a record of its type, its topic and the fields the code reads.      *)
(* Responses from the module to clients are not put on toBroker: the      *)
(* broker only routes them, so the history variable "answered" records    *)
(* that a request got its response.                                        *)
(***************************************************************************)
EXTENDS Integers, Sequences, SequencesExt, FiniteSets

CONSTANTS
    Reqs,        \* client requests the broker may route to the module
    Errnos,      \* values errno may hold when mod_main() returns -1 (0 = unset)
    ECONNRESET,  \* errno substituted when mod_main() fails with errno 0
    Failures,    \* which failure paths of the code this run lets happen
    NoId         \* id of a message that is not a client request

ASSUME /\ 0 \in Errnos
       /\ ECONNRESET \in Nat \ {0}
       /\ Failures \subseteq {"start", "setup", "finalize", "exited"}
       /\ NoId \notin Reqs

\* FLUX_MODSTATE_* codes, fixed by the broker protocol.
INIT == 0
RUNNING == 1
FINALIZING == 2
EXITED == 3
ModStates == {INIT, RUNNING, FINALIZING, EXITED}

\* Module thread program counter: where module_thread() is.
ThreadPcs == {"none", "setup", "main", "finalize", "wait", "drain", "done",
              "cancelled"}

\* States of module_destroy() on the broker thread.
BrokerPcs == {"idle", "joining", "destroyed", "exited"}

-----------------------------------------------------------------------------
\* Messages.

Req(r) == [type |-> "request", topic |-> "svc", id |-> r]
ShutdownReq == [type |-> "request", topic |-> "shutdown", id |-> NoId]
StatusAck == [type |-> "response", topic |-> "broker.module-status", id |-> NoId]
StatusReport(s, e) == [type |-> "request", topic |-> "broker.module-status",
                       status |-> s, errnum |-> e]

ToModMsgs == {Req(r) : r \in Reqs} \cup {ShutdownReq, StatusAck}
ToBrokerMsgs == {StatusReport(s, e) : s \in {RUNNING, FINALIZING},
                                     e \in {0}}
                \cup {StatusReport(EXITED, e) : e \in Errnos \cup {ECONNRESET}}

IsRequest(m) == m.type = "request"

-----------------------------------------------------------------------------
VARIABLES
    status,       \* p->status
    muted,        \* p->muted
    errnum,       \* p->errnum
    cbLog,        \* <<prev, new>> of every status_cb invocation, in order
    started,      \* outcome of module_start(): "no", "ok" or "failed"
    t,            \* p->t: "unset", "live" thread, or "stale" after a failed create
    bpc,          \* broker thread in module_destroy()
    toMod,        \* messages queued at the broker end, read by the module
    toBroker,     \* messages queued by the module, read by module_cb()
    mpc,          \* module thread program counter
    mainRc,       \* p->main() returned 0 ("ok") or -1 ("fail"); "none" before
    modErrno,     \* mod_main_errno in module_thread()
    runningSent,  \* the module has reported RUNNING
    reported,     \* status values the broker has received from the module
    sent,         \* requests the broker has routed to this module
    answered,     \* requests that have had a response
    stopSent,     \* module_stop() has been called
    cancelIssued  \* module_cancel() has been called

record == <<status, muted, errnum, cbLog, started, t, bpc>>
chan == <<toMod, toBroker>>
thread == <<mpc, mainRc, modErrno, runningSent>>
hist == <<reported, sent, answered, stopSent, cancelIssued>>
vars == <<record, chan, thread, hist>>

-----------------------------------------------------------------------------
\* The module record just after module_create() succeeded.
Init ==
    /\ status = INIT
    /\ muted = FALSE
    /\ errnum = 0
    /\ cbLog = <<>>
    /\ started = "no"
    /\ t = "unset"
    /\ bpc = "idle"
    /\ toMod = <<>>
    /\ toBroker = <<>>
    /\ mpc = "none"
    /\ mainRc = "none"
    /\ modErrno = 0
    /\ runningSent = FALSE
    /\ reported = {}
    /\ sent = {}
    /\ answered = {}
    /\ stopSent = FALSE
    /\ cancelIssued = FALSE

-----------------------------------------------------------------------------
(* Helpers translated from module.c.                                      *)

\* Mutant: the muted check refuses every message.
SendAllowedNoExemption(mu, m) == ~mu

\* module_sendmsg(): a muted module only accepts the response to
\* broker.module-status.  Whether message m may be sent when muted = mu.
SendAllowed(mu, m) ==
    ~mu \/ (m.type = "response" /\ m.topic = "broker.module-status")

\* module_set_status(): the asserts are recorded in cbLog and checked by
\* StatusTransitionsLegal.
SetStatus(new) ==
    /\ status' = new
    /\ cbLog' = Append(cbLog, <<status, new>>)

\* Mutant: errno is kept as is, without the ECONNRESET substitution.
ModMainErrnoNoSubst(rc, e) == IF rc < 0 THEN e ELSE 0

\* Mutant: the return code of p->main() is stored instead of errno.
ModMainErrnoRc(rc, e) == IF rc < 0 THEN rc ELSE 0

\* mod_main_errno as computed after p->main() returns rc with errno e.
ModMainErrno(rc, e) ==
    IF rc < 0 THEN (IF e = 0 THEN ECONNRESET ELSE e) ELSE 0

-----------------------------------------------------------------------------
(* Broker thread.                                                         *)

\* module_start(): start the watcher and create the thread.  When
\* pthread_create() fails, POSIX leaves p->t undefined: glibc either did
\* not write it or wrote the descriptor it then freed.
Start ==
    /\ bpc = "idle"
    /\ started = "no"
    /\ \/ /\ started' = "ok"
          /\ t' = "live"
          /\ mpc' = "setup"
       \/ /\ "start" \in Failures
          /\ started' = "failed"
          /\ t' \in {"unset", "stale"}
          /\ UNCHANGED mpc
    /\ UNCHANGED <<status, muted, errnum, cbLog, bpc, chan, mainRc, modErrno,
                   runningSent, hist>>

\* The broker routes client request r to this module with module_sendmsg();
\* when that fails (muted) the broker answers the client with the error.
\* No request is routed once the EXITED status callback removed the
\* module's services.
Dispatch(r) ==
    /\ bpc = "idle"
    /\ started = "ok"
    /\ status # EXITED
    /\ r \notin sent
    /\ sent' = sent \cup {r}
    /\ IF SendAllowed(muted, Req(r))
          THEN /\ toMod' = Append(toMod, Req(r))
               /\ UNCHANGED answered
          ELSE /\ answered' = answered \cup {r}
               /\ UNCHANGED toMod
    /\ UNCHANGED <<record, toBroker, thread, reported, stopSent, cancelIssued>>

\* module_stop(): a fire-and-forget "<name>.shutdown" request, routed to the
\* module through module_sendmsg() (dropped if the module is muted).
Stop ==
    /\ bpc = "idle"
    /\ started = "ok"
    /\ status # EXITED
    /\ ~stopSent
    /\ stopSent' = TRUE
    /\ toMod' = IF SendAllowed(muted, ShutdownReq)
                   THEN Append(toMod, ShutdownReq) ELSE toMod
    /\ UNCHANGED <<record, toBroker, thread, reported, sent, answered,
                   cancelIssued>>

\* module_cancel(): pthread_cancel() of the module thread (ESRCH, a thread
\* that already ended, is tolerated).  Cancellation is deferred: it takes
\* effect at the thread's next cancellation point (CancelPoint).
Cancel ==
    /\ bpc = "idle"
    /\ started = "ok"
    /\ ~cancelIssued
    /\ cancelIssued' = TRUE
    /\ UNCHANGED <<record, chan, thread, reported, sent, answered, stopSent>>

\* The broker's "broker.module-status" request handler (broker.c): on
\* FINALIZING it mutes the module and responds; on EXITED it records the
\* errnum.  Every report is applied with module_set_status().
HandleStatus(m) ==
    /\ reported' = reported \cup {m.status}
    /\ SetStatus(m.status)
    /\ CASE m.status = RUNNING ->
              UNCHANGED <<muted, errnum, toMod>>
         [] m.status = FINALIZING ->
              /\ muted' = TRUE
              /\ toMod' = IF SendAllowed(TRUE, StatusAck)
                             THEN Append(toMod, StatusAck) ELSE toMod
              /\ UNCHANGED errnum
         [] m.status = EXITED ->
              /\ errnum' = m.errnum
              /\ UNCHANGED <<muted, toMod>>

\* module_cb(): the broker end became readable; module_recvmsg() pulls one
\* message and the poller callback dispatches it.
BrokerRecv ==
    /\ bpc = "idle"
    /\ toBroker # <<>>
    /\ toBroker' = Tail(toBroker)
    /\ HandleStatus(Head(toBroker))
    /\ UNCHANGED <<started, t, bpc, thread, sent, answered, stopSent,
                   cancelIssued>>

\* The broker calls module_destroy() once the module reported EXITED,
\* after it cancelled the thread, or when module_start() failed.
\* module_destroy() joins p->t when it is set; a failed join exits the
\* broker (log_errn_exit).
DestroyBegin ==
    /\ bpc = "idle"
    /\ status = EXITED \/ cancelIssued \/ started = "failed"
    /\ bpc' = CASE t = "live" -> "joining"
                [] t = "stale" -> "exited"
                [] t = "unset" -> "destroyed"
    /\ UNCHANGED <<status, muted, errnum, cbLog, started, t, chan, thread, hist>>

\* Mutant: destroy forces EXITED without checking the current status.
JoinReturnAlwaysForce ==
    /\ bpc = "joining"
    /\ mpc \in {"done", "cancelled"}
    /\ bpc' = "destroyed"
    /\ SetStatus(EXITED)
    /\ UNCHANGED <<muted, errnum, started, t, chan, thread, hist>>

\* Mutant: destroy forces EXITED only for a module that reported at least
\* RUNNING, leaving a record whose thread failed setup or was cancelled
\* early in INIT.
JoinReturnSkipInit ==
    /\ bpc = "joining"
    /\ mpc \in {"done", "cancelled"}
    /\ bpc' = "destroyed"
    /\ IF status \notin {EXITED, INIT} THEN SetStatus(EXITED)
                                      ELSE UNCHANGED <<status, cbLog>>
    /\ UNCHANGED <<muted, errnum, started, t, chan, thread, hist>>

\* pthread_join() returns; if the module never reported EXITED, destroy
\* forces the transition so the status callback releases the module's
\* services, then tears down the record.
JoinReturn ==
    /\ bpc = "joining"
    /\ mpc \in {"done", "cancelled"}
    /\ bpc' = "destroyed"
    /\ IF status # EXITED THEN SetStatus(EXITED)
                          ELSE UNCHANGED <<status, cbLog>>
    /\ UNCHANGED <<muted, errnum, started, t, chan, thread, hist>>

-----------------------------------------------------------------------------
(* Module thread: module_thread().                                        *)

\* Connect to the broker socket, prime the attribute cache, copy the
\* config, register built-in services and block signals; any failure
\* jumps to "done", which closes the handle without reporting a status.
ThreadSetup ==
    /\ mpc = "setup"
    /\ \/ mpc' = "main"
       \/ /\ "setup" \in Failures
          /\ mpc' = "done"
    /\ UNCHANGED <<record, chan, mainRc, modErrno, runningSent, hist>>

\* The module reports RUNNING once its reactor runs (not in this file;
\* from the spec's INIT -> RUNNING transition).
MainSetRunning ==
    /\ mpc = "main"
    /\ ~runningSent
    /\ runningSent' = TRUE
    /\ toBroker' = Append(toBroker, StatusReport(RUNNING, 0))
    /\ UNCHANGED <<record, toMod, mpc, mainRc, modErrno, hist>>

\* Inside p->main(): the module's reactor takes the next message.  A
\* client request is answered; the shutdown request stops the reactor and
\* p->main() returns 0.
MainRecv ==
    /\ mpc = "main"
    /\ toMod # <<>>
    /\ toMod' = Tail(toMod)
    /\ IF Head(toMod).topic = "shutdown"
          THEN /\ mpc' = "finalize"
               /\ mainRc' = "ok"
               /\ modErrno' = ModMainErrno(0, 0)
               /\ UNCHANGED answered
          ELSE /\ answered' = answered \cup {Head(toMod).id}
               /\ UNCHANGED <<mpc, mainRc, modErrno>>
    /\ UNCHANGED <<record, toBroker, runningSent, reported, sent, stopSent,
                   cancelIssued>>

\* p->main() returns on its own, with rc and errno e.
MainReturn ==
    /\ mpc = "main"
    /\ \E rc \in {0, -1}, e \in Errnos :
          /\ mainRc' = IF rc < 0 THEN "fail" ELSE "ok"
          /\ modErrno' = ModMainErrno(rc, e)
    /\ mpc' = "finalize"
    /\ UNCHANGED <<record, chan, runningSent, hist>>

\* Mutant: the FINALIZING report is sent without waiting for its response.
ModuleFinalizingNoWait ==
    /\ mpc = "finalize"
    /\ toBroker' = Append(toBroker, StatusReport(FINALIZING, 0))
    /\ mpc' = "drain"
    /\ UNCHANGED <<record, toMod, mainRc, modErrno, runningSent, hist>>

\* module_finalizing(): a synchronous FINALIZING report.  When the RPC
\* cannot be sent the error is only logged and the thread goes on.
ModuleFinalizing ==
    /\ mpc = "finalize"
    /\ \/ /\ toBroker' = Append(toBroker, StatusReport(FINALIZING, 0))
          /\ mpc' = "wait"
       \/ /\ "finalize" \in Failures
          /\ mpc' = "drain"
          /\ UNCHANGED toBroker
    /\ UNCHANGED <<record, toMod, mainRc, modErrno, runningSent, hist>>

\* flux_rpc_get() returns with the acknowledgement; the messages queued
\* before it stay queued in the handle, in order.
RpcGetAck ==
    /\ mpc = "wait"
    /\ \E i \in 1..Len(toMod) :
          /\ toMod[i] = StatusAck
          /\ toMod' = RemoveAt(toMod, i)
    /\ mpc' = "drain"
    /\ UNCHANGED <<record, toBroker, mainRc, modErrno, runningSent, hist>>

\* flux_recv(FLUX_MATCH_REQUEST, FLUX_O_NONBLOCK) returns the first queued
\* request, which is answered with ENOSYS.
Drain ==
    /\ mpc = "drain"
    /\ SelectInSeq(toMod, IsRequest) > 0
    /\ LET i == SelectInSeq(toMod, IsRequest)
       IN /\ toMod' = RemoveAt(toMod, i)
          /\ answered' = answered \cup ({toMod[i].id} \ {NoId})
    /\ UNCHANGED <<record, toBroker, thread, reported, sent, stopSent,
                   cancelIssued>>

\* No request is left: send the fire-and-forget EXITED report with
\* mod_main_errno (a failure to send it is only logged) and close the
\* handle.
ExitReport ==
    /\ mpc = "drain"
    /\ SelectInSeq(toMod, IsRequest) = 0
    /\ \/ toBroker' = Append(toBroker, StatusReport(EXITED, modErrno))
       \/ /\ "exited" \in Failures
          /\ UNCHANGED toBroker
    /\ mpc' = "done"
    /\ UNCHANGED <<record, toMod, mainRc, modErrno, runningSent, hist>>

\* A pending pthread_cancel() takes effect where the thread blocks: in the
\* module's reactor, in flux_rpc_get(), or in a send of the drain loop.
\* The thread ends without closing its handle or reporting a status.
CancelPoint ==
    /\ cancelIssued
    /\ mpc \in {"main", "wait", "drain"}
    /\ mpc' = "cancelled"
    /\ UNCHANGED <<record, chan, mainRc, modErrno, runningSent, hist>>

-----------------------------------------------------------------------------
\* The broker process has torn the record down, or has exited.
Terminated ==
    /\ bpc \in {"destroyed", "exited"}
    /\ UNCHANGED vars

BrokerNext ==
    \/ Start
    \/ \E r \in Reqs : Dispatch(r)
    \/ Stop
    \/ Cancel
    \/ BrokerRecv
    \/ DestroyBegin
    \/ JoinReturn

ThreadNext ==
    \/ ThreadSetup
    \/ MainSetRunning
    \/ MainRecv
    \/ MainReturn
    \/ ModuleFinalizing
    \/ RpcGetAck
    \/ Drain
    \/ ExitReport
    \/ CancelPoint

Next == BrokerNext \/ ThreadNext \/ Terminated

\* The module thread is an OS thread and always runs; the module's own
\* reactor serves its queue; the broker reactor serves module_cb() and
\* the broker starts the thread and destroys the record when its
\* conditions hold.  Client requests, module_stop(), module_cancel() and a
\* spontaneous return from p->main() are not forced.
Fairness ==
    /\ WF_vars(Start)
    /\ WF_vars(BrokerRecv)
    /\ WF_vars(DestroyBegin)
    /\ WF_vars(JoinReturn)
    /\ WF_vars(ThreadSetup)
    /\ WF_vars(MainRecv)
    /\ WF_vars(ModuleFinalizing)
    /\ WF_vars(RpcGetAck)
    /\ WF_vars(Drain)
    /\ WF_vars(ExitReport)
    /\ WF_vars(CancelPoint)

Spec == Init /\ [][Next]_vars /\ Fairness

-----------------------------------------------------------------------------
(* Properties.                                                            *)

TypeOK ==
    /\ status \in ModStates
    /\ muted \in BOOLEAN
    /\ errnum \in Errnos \cup {ECONNRESET}
    /\ cbLog \in Seq(ModStates \X ModStates)
    /\ started \in {"no", "ok", "failed"}
    /\ t \in {"unset", "live", "stale"}
    /\ bpc \in BrokerPcs
    /\ toMod \in Seq(ToModMsgs)
    /\ toBroker \in Seq(ToBrokerMsgs)
    /\ mpc \in ThreadPcs
    /\ mainRc \in {"none", "ok", "fail"}
    /\ modErrno \in Errnos \cup {ECONNRESET}
    /\ runningSent \in BOOLEAN
    /\ reported \subseteq ModStates
    /\ sent \subseteq Reqs
    /\ answered \subseteq sent
    /\ stopSent \in BOOLEAN
    /\ cancelIssued \in BOOLEAN

\* The FINALIZING handshake (module_thread() lines 183-201): once the
\* module thread has closed its handle, every request the broker routed to
\* it has been answered, by the module or by the ENOSYS drain, and every
\* later one is refused by the muted send.  Breaks if a request can reach
\* the module after its drain loop.
EveryRequestAnswered ==
    mpc = "done" => sent \subseteq answered

\* module_set_status() asserts: no transition to INIT, none out of EXITED;
\* and the reports and the forced EXITED of module_destroy() make the
\* status callback see a strictly increasing sequence of states.
StatusTransitionsLegal ==
    \A i \in 1..Len(cbLog) :
        /\ cbLog[i][2] # INIT
        /\ cbLog[i][1] # EXITED
        /\ cbLog[i][1] < cbLog[i][2]

\* A module whose p->main() failed is seen failed by the broker: once the
\* EXITED report is applied, p->errnum is non-zero exactly when p->main()
\* returned -1, whatever errno it left.
MainFailureVisible ==
    EXITED \in reported => (errnum # 0 <=> mainRc = "fail")

\* A module_stop() is eventually followed by the record's destruction: the
\* module leaves p->main(), the handshake completes, EXITED is reported
\* and the broker's join returns.
StopCompletes ==
    stopSent ~> (bpc = "destroyed")

\* module_destroy() never exits the broker process.
BrokerSurvivesDestroy ==
    bpc # "exited"

\* The record as the rest of the broker sees it: its status and errnum,
\* whether it is gone (destroyed, or the broker process exited), and
\* whether module_start() created its thread (p->t holds a live thread).
Lifecycle == INSTANCE ModuleLifecycle
                 WITH ErrnoVals <- Errnos \cup {ECONNRESET},
                      gone <- bpc \in {"destroyed", "exited"},
                      ran <- t = "live"

\* The module host implements the abstract lifecycle: every step of the
\* broker and module threads (reports, muting, the drain, cancellation,
\* module_destroy() with or without a joinable thread) is a step of
\* ModuleLifecycle or leaves status, errnum and teardown unchanged.  In
\* particular a record whose thread ran is destroyed as EXITED even when
\* the thread failed setup or was cancelled before any report (its status
\* still INIT), and nothing changes its status after the teardown.
LifecycleRefined == Lifecycle!Spec

=============================================================================
