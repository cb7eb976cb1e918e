# TLA+ models of the flux-core broker module host and service proxy

This directory holds TLA+ specifications of parts of flux-core (the copy
under `src/`), the TLC configurations that check them, and `PROJECT.json`,
which lists the components, runs, mutants, source map, findings and hazards.

## The system and its parts

| Part | Source | What it does |
|---|---|---|
| Module host | `src/src/broker/module.c` | Each broker module (a DSO plugin) runs `mod_main()` on its own pthread. It talks to the broker over a PAIR socket. `module_thread()` sets up the thread, runs main, then runs the FINALIZING / EXITED handshake. The broker side of the file starts, stops, cancels, mutes and destroys modules. |
| Module status handler | broker (not under `src/`), spec section 4.4 | Answers the module's `broker.module-status` RPC. FINALIZING mutes the module; EXITED records errnum. |
| Module record containers | `module.c` 634-726 | The pending rmmod list, the single pending insmod, the subscription list, and event delivery by prefix match. |
| Module loading | `module.c` 232-356, 492-545 | `module_create()` opens the DSO, resolves `mod_main`, names the module (given, or derived from the path), checks the legacy `mod_name` symbol, and binds the broker end of the socket. Every failure after `dlopen()` goes through `module_destroy()`. |
| Route / credential rewriting | `module.c` 383-476 | Makes the PAIR socket behave like DEALER/ROUTER for requests and responses. |
| Service proxy hash (servhash) | `src/unnamed/part_002` 507-794 | A router registers its clients' services upstream with asynchronous `service.add` / `service.remove` RPCs. It unregisters them when a client disconnects or the router shuts down. |
| Examples, headers, tests | `doc/`, `t/`, optparse and reactor headers in `part_002` | Nothing here is protocol state. |

How the parts interact:

- **Broker and module thread.** They exchange messages only over the PAIR
  socket, one FIFO in each direction. The broker also acts on the thread
  directly with `pthread_create`, `pthread_cancel` and `pthread_join`.
- **Stopping a module.** The broker sends a shutdown request. The module's
  main loop returns, and the module sends the FINALIZING RPC. The broker
  mutes the module and acknowledges. The module then answers every request
  still queued with ENOSYS and sends its EXITED report.
- **Destroying a module.** `module_destroy()` joins the thread. If no EXITED
  report arrived, it forces the status to EXITED.
- **servhash.** It runs in a router. Its upstream peer is a broker whose
  service table (spec section 6) accepts one registration per name.

## Modules

- **`ModuleHost.tla`**: module lifecycle, handshake and destroy.
  - Variables:
    - `record`: the broker's `struct broker_module`, namely status, muted,
      errnum, the status callback log, thread id and broker-side phase.
    - `chan`: the two PAIR queues.
    - `thread`: the module thread's program counter, main's result, errno,
      and whether it sent RUNNING.
    - `hist`: history used only by the properties, namely requests sent,
      requests answered, stop requested and cancel issued.
  - Broker actions, one per function: `Start` (`module_start`), `Dispatch`
    (routing a request through `module_sendmsg`), `Stop`, `Cancel`,
    `BrokerRecv` (`module_cb`), `HandleStatus`, `DestroyBegin` and
    `JoinReturn` (`module_destroy`).
  - Thread actions, one per block of `module_thread`: `ThreadSetup`,
    `MainSetRunning`, `MainRecv`, `MainReturn`, `ModuleFinalizing`,
    `RpcGetAck`, `Drain`, `ExitReport`, and `CancelPoint` (deferred
    cancellation at the thread's blocking calls).
  - `Failures` selects which of four failure points may fail. These are
    `pthread_create` ("start"), setup ("setup"), the FINALIZING RPC
    ("finalize") and the EXITED send ("exited").
  - `mod_main` and the broker's status handler are not under `src/`. They
    are modelled from the spec: requests are answered, shutdown ends main,
    and the status transitions follow section 4.4.
- **`ModuleLifecycle.tla`**: the abstract lifecycle the module host
  promises the rest of the broker. It has four variables: status, errnum,
  whether the record is gone, and whether a module thread was created for
  it (`Run`). Status only moves forward, and only after the thread was
  created. errnum is set on entering EXITED. A record is torn down exactly
  once. A record whose thread ran is torn down as EXITED, forced if
  necessary (flux-core#4564), even when its thread failed setup or was
  cancelled while the status was still INIT. A record whose thread never
  ran is torn down as it is. Nothing changes after teardown.
  - `ModuleHost` instantiates it as `Lifecycle` with `gone <- bpc \in
    {"destroyed", "exited"}` and `ran <- t = "live"`. `LifecycleRefined ==
    Lifecycle!Spec` is checked as a temporal property. A `module_destroy()`
    that forced EXITED only for modules that had reported RUNNING breaks it.
- **`Routing.tla`**: `module_sendmsg()` and `module_recvmsg()`.
  - State: the two socket queues, `muted`, the messages each side received,
    and history. The history is the route stack each request had when its
    sender sent it, and the credential the module set.
  - A message is a record of type, id, topic, route stack and credential.
  - Route identities are `Uuid` (the module), `ParentUuid` (the broker) and
    one client hop.
  - The module may set one of three credentials on what it sends:
    - the handle's default, unknown user and no role;
    - a connector's client, alice/USER;
    - a client user with no role.
  - The module handle and the broker handlers that create and answer
    messages are modelled from spec 4.2.
- **`BrokerModules.tla`**: several modules in one broker, limited to how
  their records, the broker's service table and the disconnect trackers
  interact.
  - Per module:
    - whether its status is EXITED;
    - whether its thread runs, or ended with or without an EXITED report
      queued;
    - whether its record is freed;
    - the services its disconnect tracker is armed for.
  - Also: the service table, and the freed records `module_sendmsg()` was
    called on.
  - Actions: `Use` (a request routed by service name, plus
    `module_disconnect_arm()`), `ThreadEnd`, `RecvExited` (the EXITED
    status callback removes the module's services), and `Destroy`.
  - `Destroy` follows `module_destroy()`: join, force EXITED, send the
    disconnects, free the record.
  - The service table and the status callback are in broker.c. They are
    modelled from the spec.
- **`ModuleLoad.tla`**: `module_create()`, `module_name_from_path()` and
  `module_destroy()` of a record whose thread never ran.
  - State: `dlref`, the number of DSO references `dlopen()` handed out and
    not yet closed, per artifact; the live records (id, artifact, name);
    the outcome of the last call (errno, failing step, the name compared,
    error message); the number of calls.
  - Actions: `ModuleCreate` (one step per call, following its control
    flow to the first failing step or to success) and `Destroy`.
  - Paths and names are sequences of one-character strings. `GnuBasename`
    and `Strstr` compute what glibc's `basename()` and `strstr()` return.
    `PrintfStr` prints a NULL `%s` as `(null)`, as glibc does.
  - Which allocation or socket step fails is an input (`Failures`). The
    artifacts are constants: whether each one loads, has `mod_main`, and
    its `mod_name`.
  - Which calls the broker makes (insmod, rmmod in broker.c) is modelled
    from the spec: any artifact, any name argument, in any order.
- **`ModuleRecord.tla`**: the rmmod list, insmod slot, subscription list and
  `module_event_cast()`. Topics are short sequences, so `strstarts()` is a
  prefix test.
- **`Servhash.tla`**: the servhash.
  - State:
    - The hash of entries, each with uuid, live, and the state of its add
      and remove futures.
    - RPC and response queues to and from upstream.
    - The upstream owner of each name.
    - Client requests not yet answered, and disconnected clients.
  - Actions: one per function (`servhash_add`, `servhash_remove`,
    `servhash_disconnect`, `servhash_destroy`, `add_continuation`,
    `remove_continuation`). Upstream handling and future fulfilment are
    modelled from the spec.
  - `Deferred` selects whether a continuation may run in a later step than
    its future's fulfilment. In flux it may: then-callbacks run from a
    reactor watcher after the response handler.

`MC_*.tla` modules give the constants values. The `.cfg` files choose the
run.

## Runs

| Run | Config | Expect | Shows |
|---|---|---|---|
| lifecycle | `MC_ModuleHost_lifecycle.cfg` | pass | No failures. Every request routed to a module that finishes normally is answered. The status only moves forward and never leaves EXITED. errnum is non-zero exactly when main failed. Every stop ends with the record destroyed. |
| lifecycle_failures | `MC_ModuleHost_failures.cfg` | pass | With every failure point enabled, status transitions stay legal and errnum still reflects main's result. `ModuleHost` implements `ModuleLifecycle`. That includes destroy after a failed start, after a cancel, and the forced EXITED. |
| finalize_fail | `MC_ModuleHost_finalize_fail.cfg` | violation | A failed FINALIZING RPC leaves the broker unmuted. A request routed after the drain is never answered. |
| start_fail | `MC_ModuleHost_start_fail.cfg` | violation | After a failed `pthread_create`, `module_destroy` may join an undefined `p->t` and exit the broker. |
| routing | `MC_Routing_roundtrip.cfg` | pass | Traffic crosses the channel in both directions, muted or not. Every response arrives with exactly the route stack its request had before crossing. Every request or event has the sender's hop pushed. Every message the broker receives names a user and a role, and a connector's client credential is kept. |
| broker_modules | `MC_BrokerModules.cfg` | pass | Three modules use each other's services, end with or without an EXITED report, and are destroyed in any order. No request and no disconnect is ever routed to a freed record. Without the forced EXITED in `module_destroy()`, TLC finds the use-after-free of flux-core#4564 in three steps. |
| module_load | `MC_ModuleLoad.cfg` | pass | Up to four `module_create()` calls, each failing at any step or on a name mismatch, and destroys in any order: the loader always holds a DSO reference for each live record. A failure path that closed the DSO twice would unmap a live record's code after two calls. |
| load_mismatch_msg | `MC_ModuleLoad_mismatch.cfg` | violation | A module loaded by path alone (name NULL) whose `mod_name` disagrees fails with the message `mod_name k != name (null)`: line 314 prints the NULL argument, not `p->name`. |
| subscriptions | `MC_ModuleRecord_subs.cfg` | pass | `match_sub` on the list kept by subscribe/unsubscribe agrees with reference-counted subscriptions over any call history. |
| servhash_answered | `MC_Servhash_answered.cfg` | pass | With continuations run as their response arrives, every accepted client request is answered when no add fails, and entries and upstream registrations agree whenever the router is quiet. |
| servhash_leak | `MC_Servhash_leak.cfg` | violation | With deferred continuations, a disconnect between fulfilment and continuation leaks the upstream registration. |
| servhash_remove_lost | `MC_Servhash_remove_lost.cfg` | violation | A remove sent while a failing add is pending is never answered. |

These disagreements with the spec, or weaker points of the code, were
found while modelling. No run is kept for them:

- **The rmmod list is LIFO.** `module_push_rmmod()` and
  `module_pop_rmmod()` both work at the head of the zlist, so the pending
  rmmod requests come back LIFO, where spec 3 calls the queue a FIFO. The
  broker answers all pending rmmod requests at once, so the order has no
  visible effect.
- **OWNER bit on received messages.** Spec 6 and 8 say every message the
  broker receives from a module has the OWNER bit. `module_recvmsg()`
  asserts OWNER only on the channel credential `p->cred`. It keeps any
  non-empty role mask the module set, so a connector module's message with
  its client's USER role arrives without OWNER. Spec 4.2 allows exactly
  this. `CredNormalized` states what the code guarantees.
- **Setup failure without a report.** When a setup step of
  `module_thread()` fails (lines 130-166), the thread closes its handle
  without any `broker.module-status` report. The status stays INIT until
  the broker destroys the record, and `module_destroy()` then forces
  EXITED. Spec 4.4 says the broker observes the channel close and marks the
  module EXITED. module.c has no such observer; if one exists it is in
  broker.c. `LifecycleRefined` checks that the forced EXITED still tears
  the record down correctly.
- **The name taken from a path.** `module_name_from_path()` cuts the
  basename at its first `.so`, so `m.sock.so` is named `m`. Spec 3 says the
  shared-object suffix is stripped, which would give `m.sock`. The model
  computes the code's name (artifact `a2`).
- **A DSO reference leaked on calloc failure.** If `calloc()` of the record
  fails (line 276), the nomem path calls `module_destroy(NULL)`, which
  returns at once, so the `dlopen()` reference is never closed. In the
  model `dlref` stays one above the live records after that step.
  `DsoHeldWhileLive` bounds the count only from below.
- **The reply route.** Spec 8 says a module's reply reaches the broker with
  the module's uuid as its top route entry. In the code, the hop removed
  from the reply is the broker's own `parent_uuid`, which `module_sendmsg()`
  pushed on the request. The reply therefore arrives with the route stack
  the request had, which is correct ROUTER behaviour. `RoutesRoundTrip`
  states what the code does.

Each violation is written up in `PROJECT.json` under `findings`. Each
property of a passing run has a mutant in `PROJECT.json`: a plausible bug in
the mapped code that TLC shows breaks it.

## Bounds

**ModuleHost** uses two requests `{r1, r2}` and errnos `{0, 5}`.

- Two requests are enough for one to be routed before the mute and one
  after it.
- Errno 0 is the edge case the ECONNRESET substitution exists for.
- Every interleaving of broker and thread steps, cancel at every
  cancellation point, and every failure point is explored.

**Routing** uses two broker ids and one module id.

- Each id is a request or an event. The module's request is answered by
  the broker.
- There are two topics: `broker.module-status`, which passes the mute, and
  one other.
- Route stacks have up to one client hop.
- These bounds give every type in both directions, before and after the
  mute, with empty and non-empty route stacks. The run has about 215k
  states.

**BrokerModules** uses three modules, with symmetry over them.

- Two modules are the least needed for one to route to the other's freed
  record. A third lets a disconnect reach a module that is itself
  mid-teardown.
- The run has about 19k states.

**ModuleLoad** uses five artifacts, three name arguments (NULL, `m`, `k`)
and four calls.

- The artifacts are: one that loads with `mod_name` `m`; one whose path
  contains `.so` twice; one whose `mod_name` differs from its path's name;
  one that fails to load; and one without `mod_main`.
- Four calls are enough to load an artifact twice, fail a third load of it
  on each path, and destroy in between.
- The run has about 9.4k states. The violation run needs one call.

**ModuleRecord** uses two messages, three topics and six calls (rmmod
pushes included).

- The topics are `a`, `a.b` and `b`, which covers a prefix, an equal topic
  and an unrelated one.
- Six calls are enough to subscribe a topic twice, unsubscribe it once and
  cast, with another subscription in front of it.

**Servhash** uses two clients, one or two names, and 4-5 RPCs with futures.

- Open-loop unregisters are not bounded and do not count against the RPC
  limit.
- Each bug needs at most three RPCs.
- The bound allows an add, remove and re-add on one name while a disconnect
  races them.

## Fairness

`ModuleHost` has weak fairness on:

- the broker's reactor steps: start, receiving from the module, destroy and
  join;
- the module thread's steps after main returns.

The broker reactor services every ready watcher, and the thread runs until
it blocks. There is no fairness on `MainSetRunning` or `MainReturn`: the
module's main may run forever until it is asked to stop. Requests, stop and
cancel are the environment's choice, so they have no fairness either.

`ModuleRecord`, `ModuleLoad`, `BrokerModules` and `Servhash` check safety
only. The configurations of the last three turn the deadlock check off.
An idle router, a broker with every module destroyed, or a broker that
loads no more modules may stop. `ModuleRecord` keeps the check:
`module_push_insmod()` is always possible, so it never stops. ModuleHost's configurations keep the deadlock check. Their
only terminal states are destroyed records, and `Terminated` allows
stuttering in them.

## Not modelled

- **Message copy and route allocation failures** in `module_sendmsg` and
  `module_recvmsg`. Each drops the one message and returns an error, which
  is the same as a message never sent. The rewriting of a response with an
  empty route stack is also not modelled. Neither side in the model creates
  such a response. What `flux_msg_route_delete_last()` does then lives
  outside this repository.
- **The getters** (`module_get_*`, 357-382), the argz arguments, attrs and
  the uuid string. They only read or copy fields that no property looks
  at. `ModuleLoad` leaves them out.
- **The disconnect tracker's internals** (`disconnect.c`: one disconnect
  per service and credential). This file is not in the repository. In
  `BrokerModules` the tracker is the set of services a module used. A
  failure to create the tracker is not modelled.
- **Allocation failures.** Every push or subscribe that fails to allocate
  returns an error and changes nothing.
- **`servhash_match` and `servhash_set_respond`** change no protocol state.
- **Examples, tests and the optparse / reactor headers.**

## Plan for later work

1. Compose `Routing` with `ModuleHost`, so that the muted check and the
   status-ack exemption are checked on the routed messages of a module in
   shutdown.
2. Liveness versions of the servhash checks: every request is eventually
   answered, and registrations eventually agree.
