# A TLA+ model of the PST HSM

The repository is a small HSM: a PKCS#11 library in C (`hsm/`), a TCP server in
front of it and a command line client. This directory specifies the library and
the server: the slot with its sessions and PINs, the objects and the signing
operations, the locks that let threads call them, and the server's threads. TLC
checks small instances; TLAPS proves every safety property that the passing runs
check, for every value of the constants: any number of threads, sessions, objects,
PINs, clients and requests.

## Inventory

| Component | Code | State it keeps | Operations | Model |
|---|---|---|---|---|
| Library and slot | `pkcs11/pkcs11_impl.c`, `utils/utils.c` | `g_hsm_context`: initialized, slot 0 | C_Initialize, C_Finalize; C_GetInfo, C_GetSlotList, C_GetSlotInfo, C_GetTokenInfo, C_GetMechanismList, C_GetMechanismInfo | `HsmSession`, `HsmObjects` |
| Sessions | `pkcs11/session.c` | slot table of 64 sessions, their count, the handle counter; per session: read-only or not, login flags, reported state | open, close, close all, info, login, logout | `HsmSession` |
| PINs and token | `session.c`, `utils.c` | digests, retry counters, locked flags, label, flags | C_InitToken, C_InitPIN, C_SetPIN, hsm_verify_pin | `HsmSession`, promise in `PinPolicy` |
| Token file | `storage/storage.c` | `token.dat` | save after every PIN change, load at start | `HsmSession` |
| Objects | `pkcs11/objects.c`, `pkcs11/crypto_ops.c` | slot table of 1024 objects, their count, the handle counter; per session: the search | create, destroy, get/set attributes, find, generate pair | `HsmObjects`, promise in `ObjectStore` |
| Operations | `pkcs11/crypto_ops.c`, `crypto/crypto_ops.c` | per session: the operation, its key and mechanism | SignInit, Sign, VerifyInit, Verify | `HsmObjects` |
| Key files | `storage.c` | `obj_<handle>.dat` | save on creation, delete on destruction; load and list are never called | `HsmObjects` |
| Locks | all of the above | `global_lock`, one lock per slot and per session, two static ones | lock, unlock; what is read without them | `HsmThreads` |
| Network server | `network/network_server.c` | `running`, sockets, client threads | accept, one command per message, shutdown by signal | `NetworkServer` |
| OpenSSL computations | `crypto/crypto_ops.c` | none | generate, sign, digest | only which mechanism suits which key, and how a call may end |
| Client | `client/src/cli.js` | none: simulated answers, no connection to the server | menu | not modelled |
| Logging, memory helpers, scripts, build | `utils.c`, `scripts/`, `Makefile` | none | | not modelled |

The server's threads and any application call the library through its function
list. A session call looks the session up in the slot's table
(`hsm_get_session`), takes the session's lock and then the slot's lock; PIN
calls then save the token information. Object calls go through the session to
the slot's object table. Nothing calls back.

What is hard: state kept twice (count and table, retry counter and locked flag,
reported state and login flags, memory and file), handles that outlive what
they name, operations split over two calls with anything in between, files
written in place with the result ignored, restarts that keep a part of the
state, threads that use a session without holding what keeps it alive, a
library that ends under the threads that call it, and reads that return less
than they were asked for. `PROJECT.json` lists each of these hazards at its
line, with the properties that cover it.

What makes each part correct:

* sessions: the table, the count and the handles agree; a handle names one
  session for the life of the process; what a session reports is what it may do;
* PINs: an attempt budget that only a success, an entitled initialization or a
  restart refills; a digest replaced only by someone entitled to; the flags the
  token reports foretell what a login meets;
* token file: what a start loads is sound, and current if files can be trusted;
* objects: count and table agree up to the limit; a handle never comes to mean
  another object; a search is complete and stays in its buffer;
* operations: the key used is one that was accepted, or it is gone;
* key files: they appear and disappear with the token objects of a running
  library;
* locks: owned exactly between lock and unlock; a call made among others has the
  outcome it has alone; nothing freed is read; somebody always gets on;
* server: the n-th answer belongs to the n-th request and can be told apart; the
  library runs as long as somebody serves; every whole request is answered.

## Modules

**`HsmSession`** – one step per PKCS#11 call. The variables are the fields of
`hsm_slot_t`, with the user and SO fields as functions of `Users`; `sessions` is
the session table and `NoSession` its NULL entry. An action is the whole call:
the session lookup, the checks in the order of the code, the change, the save.
Every error return is a step (`Return`). `rv` is what the call returned. `Hang`
is a thread locking the slot's mutex it already holds. `ProcessEnds` is any end
of the process without C_Finalize; `CrashInSave` is one between the `fopen` that
truncates token.dat and its `fclose`. Out of memory, and (with `DiskFaults`)
failing file operations, are alternatives of the calls that can meet them: a save
that is lost or torn, and at the next start a token.dat that cannot be opened, which
the code takes for none (`hsm_init_slot`). A PIN is a model value with a length and a
digest; the label is the number of its bytes that were copied. `TokenFlags` is what C_GetTokenInfo reports.

**`PinPolicy`** – what the token promises about PINs, without tables: attempts
per user and who acts for whom. `HsmSession` implements it with `attempts` the
retry counters and `holders` read off the login flags (`KeepsPinPolicy`).

**`HsmObjects`** – EXTENDS `HsmSession`: the object table, the searches and
operations of the sessions, the files of token objects. `ObjectsNext` runs the
calls of `HsmSession` with what they do to objects (nothing, a session's
operation and search starting afresh, or everything freed) and adds the calls
of `objects.c` and of the two `crypto_ops.c`. An attribute template is what the
calls read of it: class, token flag, label. A handle is `HandleBase * BaseGap`
plus the counter, as in `hsm_generate_object_handle`. A file holds what
`hsm_storage_save_object` writes of an object (`Saved`: not `can_sign`), or `Torn`; a
crash in the middle of such a write leaves what a torn write followed by `Crash` leaves,
so it has no action of its own.
`hsm_parse_template` sets more attributes than a model object has; those kept
(type, token, can_sign, key type, label) are the ones some call tests, plus the
label, which C_SetAttributeValue changes.

**`ObjectStore`** – a set of objects told apart by their handles, the promise
`HsmObjects` implements (`KeepsObjectStore`): no handle given twice in a
process, objects immutable but for the label.

**`HsmThreads`** – EXTENDS `HsmObjects`: the calls of several threads, cut into
steps where the code takes or gives back a lock and where it reads or writes
what no lock of its own protects. `pc[t]` is the place in the call, `local[t]`
what the thread remembers between steps: the pointers `hsm_get_session` and
`hsm_get_object` handed out, as table entries. Each step uses the operators of
the modules below it (`WholeOn`, `BeginSign`, `AddPair`), so the effect of a
call is stated once. C_GenerateKeyPair stores its two keys in two steps (`FirstKey`,
`SecondKey`); in between `half` holds the public key, which is in no variable of
`HsmObjects`, and the lookups, which take no lock, scan `Table`: the objects with
that half. C_CreateObject stores (`Create`), saves (`Save`) and logs (`Log`) in three.
`freed` holds the entries whose memory is freed and whose pointer is not yet cleared;
`AccessSound` says what the next step of a thread reads and whether it is there; a step
that would read freed memory has no successor. `Discipline` is the set of pairs of calls
the code does not guard from each other and so leaves to the application. `Reset` is
`hsm_init_context` clearing the mutex its caller holds.

**`NetworkServer`** – EXTENDS `HsmSession`: the main thread from C_Initialize to
its return, the signal handler, one detached thread per connection, and the
clients, which send a request a byte at a time and may go at any byte. `stack[c]`
is what a thread's buffers hold, with the length byte that survives from the
round before (`Unread` at first). `Exit` is every end of the process. The
library is that of `HsmSession`, so C_Initialize may fail and C_Finalize empties it.

**`MCSession`, `MCObjects`, `MCThreads`, `MCServer`** – instances for TLC.
**`MCDocs`** – statements of documents, comments and tests that the code does
not keep. **`HsmSession_proofs`, `HsmObjects_proofs`, `HsmThreads_proofs`,
`NetworkServer_proofs`** – theorems about the modules they are named after.
**`HsmSearch_proofs`** – the searches and types of `HsmObjects`. **`HsmCalls_proofs`** –
the calls of `HsmThreads`: no freed memory, atomicity, refinement of `HsmObjects`.
**`NetworkBytes_proofs`** – the bytes between a client and its thread.

## Runs

| Run | What it asks | Bounds |
|---|---|---|
| `Session` | sessions, login, PIN budget, reported flags, token.dat; refinement of `PinPolicy` | 2 sessions, handles 1..3, 2 usable PINs and one too short, budget 3; 10,701 states |
| `Objects` | table, count, operations and searches | 3 objects, handles up to 3, search buffer 2, one session entry opened twice; 108,930 states |
| `ObjectFiles` | token objects and their files; refinement of `ObjectStore` | 2 objects, token and session templates, one label; 37,344 states |
| `ObjectFaults` | which files a running library touches, and what a start loads, when saves and deletions fail or stop half way | as `ObjectFiles` without labels, `DiskFaults`; 156,978 states |
| `SessionThreads` | locks, freed memory, atomicity and progress of the life cycle, session and PIN calls | 2 threads, 2 session entries, handles 1..2, 1 PIN, budget 1; 261,524 states |
| `ObjectThreads` | freed memory and atomicity of the object and key calls | 2 threads on one logged-in session, 2 objects, handles up to 4, buffer 1; 785,581 states |
| `Server` | framing, life cycle and liveness of the server | 2 clients, 2 requests of at most 2 data bytes, a buffer of 1; 278,643 states |
| `CallsReturn` | violation: C_CloseAllSessions / C_InitToken with an open session waits for its own lock | |
| `LabelKept` | violation: the label is cut to the length of the SO PIN | the lengths of `test_basic.c` |
| `TokenObjectsPersist` | violation: saved token objects are not loaded at the next start | |
| `ThreadSafety` | violation: the locks alone do not keep a session alive that another thread uses | 2 threads that open, look at and close a session |
| `Shutdown` | violation: a signal does not stop a server that waits in accept | as `Server` |

Why the bounds are enough for what they ask. Two sessions are what it takes for
one call to disturb another's session, for a table entry to be used again while
another is in use, and for the SO and the user to act together; three handles
let a session be closed and its entry opened again beside a second. Two usable
PINs are old and new, right and wrong; they are interchangeable, hence the
symmetry. The budget of three is the real one. In `Objects`, a buffer of two
below a table of three makes a search be cut off, a pair fills the table up to
its limit, and destroying and creating again brings new objects into old
entries. `Templates` are the classes that change what the calls do: an object
without a class, and one that claims to be a private key without `can_sign`.

Two threads are enough for the locks of `HsmThreads`: no step of a thread reads
who else waits, and a lock has one owner (but see below for C_Initialize). Every
pair of calls of one list overlaps at every step unless `Discipline` keeps it apart.
`ObjectThreads` starts in
the state C_Initialize, C_InitToken, C_OpenSession, C_Login, C_InitPIN, C_Logout
and C_Login leave, so that all of its states are about objects; its calls
name the handles that two generations and a creation lead to, so that objects
are used, relabelled, destroyed and searched while their entries are taken again.

In `Server` one client speaks and the other only connects and stays, which is
what a second client can do to the first besides the order of accepts. A header
is two bytes, the command and the length, so that it can be cut in half; the real
one has four bytes of length, which are not cut from each other here (for lengths
below 256 that makes no difference: the first three are zero in every request). The
requests are one for each branch of the switch, with and without data, and one
longer than the buffer. `RandomSizes` are one size below 256 and one above.

`MaxHandle`, `MaxObject`, `MaxRequests` and `Room` bound what is issued and asked;
the guards that use them are the only ones not in the code. The views leave out
`rv`, which no guard reads, and the fields of operations and searches that are over; that of
`ObjectFaults` leaves operations and searches out, which no step on files or token reads.

Deadlock is checked in the runs of whole calls: a thread that hangs can still be
ended with its process. It is not in those of `HsmThreads` and `NetworkServer`,
which do stop: when no thread makes another call, when one hangs with a lock the
others want, and when the server has ended. `SomeCallReturns`, `SlotLockGivenBack`
and `RequestAnswered` say instead what may not stop.

Each property of a passing run is matched by a mutant of a definition (a
`Mutant:` comment in the module) that breaks it.

### Fairness

`HsmThreads` gives every thread weak fairness of its next step: the scheduler
runs a thread that can run for ever. It gives none to `Begin`, since a thread need
not make another call, and no strong fairness, since pthread mutexes promise no
order: a thread that waits may be overtaken for ever, so the liveness stated is
that the lock is given back and that some call returns.

`NetworkServer` gives weak fairness to the main thread and to each client's thread.
A connection in the backlog makes accept return. Errors of accept, connecting,
sending, leaving and signals owe nothing, so `RequestAnswered` speaks of requests
sent whole, and `StopsAtNextConnection` of a connection that is there.

### What `Discipline` says

It keeps these apart, and the runs show that this is enough for `AccessesSound` and
`CallsAtomic`: C_CloseSession from every call on a session;
C_DestroyObject from the calls that use, look at, create or search objects;
C_SetAttributeValue from C_GetAttributeValue, itself and C_CreateObject, which writes the
file after the object can be found and so may write the new label; C_FindObjectsInit from
the calls that add objects; C_GenerateKeyPair from C_SignInit, C_VerifyInit and the
attribute calls, which may find the public key while the private one is not there (a
search may, too); C_Logout from C_GenerateKeyPair; C_Finalize from every
call but itself; C_Initialize from C_Finalize and itself. C_Sign and C_Verify need not be
kept from C_GenerateKeyPair: their key is one an earlier call has accepted, and a handle
is issued once. None of the list is too much: with any one of its pairs given up one of
the two properties fails, on the instance of one of the two runs or on that of
`ObjectThreads` with C_Finalize among its calls. All other overlaps are sound as the
code stands: logins, PIN changes, sign operations and creations may come from any
threads at once.

So the two properties do not say that the code guards against the hazards of these pairs
(the unlocked lookups, the halves of a pair, the library that ends under its callers): they
say that it has no others.

## Proofs

All theorems hold for every value of the constants that `SizesAssumption`,
`PinsAssumption`, `ObjectSizesAssumption`, `TemplatesAssumption`, `ThreadsAssumption`,
`ArgumentsAssumption` and `ServerAssumption` allow; TLC evaluates each in the runs whose
module reaches it. Two kinds of theorems have a hypothesis besides: those of
`HsmCalls_proofs`, that the application keeps the pairs of `Discipline` apart (without
it they are false, as `ThreadSafety` shows), and `ResponsesAreFramed`, `SizesFit`: that
sizeof(CK_INFO) and two CK_ULONG are below 256, as they are on every platform the
code is built for (88 and 16 in the run `Server`).

The order in which they are proved is that of the modules: what a call does to
sessions, then to objects, then that threads make such calls, then that the server does.

**Sessions and PINs** (`HsmSession_proofs`): the twelve properties of the run
`Session`, for any table size and budget of at least one, any PINs with any
lengths and digests (digests may collide), with or without file failures. The
argument has two layers. `CallEffects` shows that every call, and `StepEffects` that
every step, has one of eleven effects (nothing of interest, the slot filled by a start,
emptied by an end, a session opened, closed, logged in or out, a wrong PIN, and
the three ways a digest changes). Each invariant is then proved with one step
per effect:

* `TableConsistent` is inductive together with typing: the count argument uses
  the cardinality theorems on the set of entries in use, the handle argument
  that `g_next_session_handle` lies above every handle in use;
* `LockedIffSpent` is inductive relative to it: C_SetPIN refills a counter
  without touching the flag, which is sound only because the flag was tested by
  `hsm_verify_pin` just before;
* `ReportedStateIsTrue` needs the stronger `LoginInv`, that the stored state is a
  function of the flags;
* `LoggedInUserHasPin` needs that C_InitToken has no session left when it clears
  the user's PIN, which here holds because it hangs when there is one;
* `TokenInfoIsSound` covers memory and file together, since a start copies one
  to the other;
* `TokenFlagsTrue` adds that only a PIN that is set is ever locked;
* `PolicyKept` maps each effect to a step of `PinPolicy` or to a stutter, from
  these invariants.

**Objects** (`HsmObjects_proofs`): the table, the operations and the files, for any
table sizes. The calls of `HsmSession` keep
`TableInv` of the first module, which the steps here need; what a step does to
the object table is one of a few effects (`ObjectEffect`): objects added, one destroyed,
one relabelled, all gone, or none of it.

* `ObjectTable` is strengthened to `ObjectTableInv`: the count is the cardinality
  of the entries in use, every object's handle is that of a counter value
  already issued for its type, and so no two are alike;
* `OperationKeyFits` needs `OperationsNamed`, that the key of an operation names
  a handle already issued: a new object cannot turn up under it;
* `TokenObjectsSaved` and `FilesFollowObjects` follow from what a save and a
  deletion do to one file, and from the freshness of handles: no other object's write
  takes the place of a file while its object lives. What is compared is what the code
  writes, handle, type, storage, key type and the label at creation;
* `StoreKept` maps the initial state and each effect to `ObjectStore`.

**Searches** (`HsmSearch_proofs`): `SearchSound` and `ObjectsTypeOK`, for tables and
buffers of any size. What `hsm_find_objects` collects is said without recursion: the
m-th handle is that of the entry with m - 1 used ones before it, and `Ranked` proves
that there is exactly one. `SearchSound` is not inductive: that an object the search
misses has a higher number than all it found needs the found handles to be below the
counter even when their objects are gone. `SearchInv` adds that; `TableGrows` is all it
needs of a step: objects keep their handles, go, or get numbers not yet issued.
The types need that the count is the cardinality of a subset of the table, and that a
save writes what `Saved` gives or `Torn` under the names of objects.

**Locks** (`HsmThreads_proofs`): `LocksHeld` for any threads, any calls and any
`Apart`. `LocksHeld` is not inductive: whether a label is under a lock depends on
the call. `LockInv` adds which calls get to which label (`Fits`); then every
action either moves one thread to a label whose locks it owns (`Moves`), or
leaves (`Leaving`).

**Calls of threads** (`HsmCalls_proofs`): `AccessesSound`, `CallsAtomic` and that
`HsmThreads` implements `HsmObjects`, for any number of threads. Instead of going through
pairs of places of two calls, the invariant `CallInv` says what each thread by itself
knows at its place (`Knows`):

* once past the check, the library runs and the slot is there;
* the entry it found still holds its session, under the handle it was given;
* what it decided on from the session's state (a login, an idle or an active
  operation) is still so (`Decided`);
* the entry of its object still holds that object;
* what its scan has collected is what a scan of that far would collect now;
* between the two stores of C_GenerateKeyPair the public key it stored is as it was, and
  the two entries it goes by are still unused in `HsmObjects` (`HalfStored`);
* before C_CreateObject saves, the object's label is still the template's;

beside `LockInv`, the tables' invariants, what is freed and by whom (`Freed`), that a
half of a pair is there only while its C_GenerateKeyPair is between its stores (`Halves`), and
that no pair of `Apart` overlaps. The proof has three parts:

1. *A thread on its own.* From what it knows, the step at which a call takes effect is
   the whole call of `HsmObjects`, and its other steps change nothing `HsmObjects` has
   (`CallStepEffect`): a pair appears at its second store, an object with its file at the
   store of C_CreateObject; what it finds out in the step is what it knows after it.
2. *A thread and the others.* Each step is `Mild`: it changes a session's state, search or
   operation only with that session's lock, takes handles away only if it is the
   C_CloseSession, C_DestroyObject or C_Finalize that `Discipline` keeps from those who
   rely on them, and adds objects or half a pair only with the slot's lock or kept from
   who would find them.
   A `Mild` step leaves what the others know true. C_GenerateKeyPair has read
   `user_logged_in` and given the session's lock back: it is C_Logout that is kept from it.
3. *The library's start and end.* C_Initialize clears the mutex its caller holds (`Reset`);
   two calls inside are excluded by `Discipline` and C_Finalize's hold of `global_lock`.

`CallInvStep` concludes that every step of `HsmThreads` is a step of `AnyCall` or leaves
`allVars` alone (`ThreadsMakeCalls`). So the effects of the first two layers are the
effects of threads, and their invariants carry over: tables, PIN policy, logins,
digests, operations, searches, objects and files (`ThreadsKeepTables` to
`ThreadsKeepObjects`).

**Server** (`NetworkServer_proofs`, `NetworkBytes_proofs`), for any clients and requests:

* `LibraryUpWhileServing` is inductive with two facts beside it: the library runs
  whenever there are slots, and client threads exist only between the first accept and
  the end of the process;
* every step of the server is a step of `HsmSession` or leaves it alone
  (`ServerUsesLibrary`), so its theorems hold of the library behind the server;
* `ServerTypeOK` needs that the backlog names each connection once, and that a length
  has room when data are waited for; `ServerEffect` says what a step does to
  connections and buffers, and the two theorems that follow are proved by it;
* `ResponseFramed`: what is sent with CKR_OK has one of three sizes, since there is
  never a session for which C_GenerateRandom would succeed; a server command that
  opened sessions would break it;
* `AnswersMatch` (`BytesInv`): all bytes of a client's requests are laid end to end;
  what is in the stream, then what is not yet sent, is the end of that, and it begins
  where the thread stands (`Aligned`), at the next header or in the data of this request.
  Only a header cut short loses the place, and then the thread answers once more
  at most (`Adrift`). The bytes are a function on the naturals and the place of each
  request a second one, quantified in the invariant, so that no recursion is needed.

Only model-checked is liveness (`SlotLockGivenBack`, `SomeCallReturns`, `RequestAnswered`,
`StopsAtNextConnection`), which rests on fairness and ENABLED. That none of
`Discipline` is too much was found by TLC, too.

## Findings

1. `C_CloseAllSessions` and `C_InitToken` call `hsm_destroy_session` while they
   hold the slot's lock, which that function takes again: with a session open
   they never return (`session.c:250-254`, `:41-48`). C_Finalize closes sessions
   without the lock and does return.
2. `C_InitToken` takes the number of label bytes from the length of the PIN
   (`session.c:59`).
3. Token objects are written to files that nothing reads again.
4. The locks in `hsm_session_t` and `hsm_slot_t` do not give thread safety by
   themselves: a session is found without a lock, and freed while another
   thread still holds its pointer. `Discipline` is what they do give.
5. A signal does not stop the server while it waits in accept: `signal()` lets
   accept go on, and the loop looks at `running` after the next connection.

Observed without a run of its own:

* `CKM_RSA_PKCS_PSS` is offered by C_GetMechanismList and accepted by
  C_SignInit; `sign_rsa` does not know it (`RSASigning`).
* A signal between `signal()` (`network_server.c:228`) and `running = true`
  (`:231`) is overwritten.
* A signal that cuts a header short leaves the length of the request before in
  the buffer; the thread may then wait for data the client does not owe. This is
  the exception in `RequestAnswered`.
* Session timeouts (`hsm_check_session_timeout`) are declared and never defined;
  C_Verify ends with CKR_FUNCTION_NOT_SUPPORTED; search templates are not matched
  (a TODO in `hsm_find_objects`); what a key may be used for (`can_sign`, `can_verify`) is
  not in its file; `ulRwSessionCount` counts every session
  (`pkcs11_impl.c:413`); a C_Sign whose buffer is too small ends the operation.

## Assumed, and left out

* In `HsmSession` and `HsmObjects` a call is one step; `ThreadsMakeCalls` is what
  justifies it for threads that keep to `Discipline`.
* `initialized` is read and written in one order by all threads. The locks taken
  inside `hsm_generate_object_handle` and around the session handle counter only
  make those counters atomic, which they are here. The information calls, which
  take no lock and change nothing, are not interleaved.
* A token.dat that cannot be opened at load counts as a failing file operation; a read
  that fails after the file was opened is left out, it ends
  like an empty file, which a crash in the middle of a save leaves.
* A crash ends every thread at once and is left to the modules of whole calls.
* A destroyed `global_lock` (`utils.c:180`) is taken to work like a free one.
* `BaseGap` exceeds the number of objects created in a process (0x10000000 in
  the code, counted by a 32-bit counter).
* `hsm_parse_template` trusts the lengths in the template; the model's templates
  are well formed. Key sizes, curves and OpenSSL results appear only as the codes
  they end in.
* The server's sends do not block, and its steps between two waits are one step.
  Which sockets, ports and addresses it uses is left out.

## Not modelled

* The client: it shows simulated data and talks to nobody.
* Logging, `hsm_secure_*`, `hsm_rv_to_string`: no state a property is about.
* The OpenSSL computations themselves: what a signature is depends on the
  library, not on this code's control.
* `hsm_storage_load_object` and `hsm_storage_list_objects`: nothing calls them.
* Build and deployment scripts.

## Plan

1. Which part of the safety of `HsmThreads` survives without `Discipline`: what the locks
   alone guarantee of PINs and token information, as theorems without the hypothesis.
2. Crashes inside a call of `HsmThreads`, between the save of token.dat and the return.
3. The invariants of the sessions stated of the server, from `ServerUsesLibrary`.
