# MobileFingerprintUnlock: TLA+ models, checks and proofs

The repository lets an Android phone unlock and lock a Windows workstation. The phone is
paired once with a six-digit PIN, later proves possession of its key by signing a challenge,
and may ask the PC to lock itself. This directory models the Windows side of those three
conversations, the TCP server that carries them, the logon tile and the LSA package behind it,
the start and stop of the service, the phone's transport, pairing and discovery, and the byte
formats both sides share. It checks the models with TLC and proves their main properties with
TLAPS.

## 1. The system

### Parts and how they interact

| Part (source) | State it keeps | Operations | Talks to |
| --- | --- | --- | --- |
| `MobileUnlockService` (`windows/service`) | running flag, published PC state, one pending-lock slot made of two atomics | start and stop of the components, `HandleNetworkFrame`, `HandleIpcMessage` | all below |
| `NetworkEngine` (`windows/network`) | connected clients, connection rate limit per address, one thread per client, a maintenance thread | accept, read frames, `SendFrame`, cleanup, `Stop` | calls the service on the client's thread |
| `SecureIPC` (`windows/ipc`) | one pipe instance, a connected flag | accept, read loop, send, `Stop` | calls the service on the pipe's thread |
| `UserSessionAgent` (`windows/user_session_agent`) | pipe handle, session | connect, read a command, `LockWorkStation`, answer | the pipe |
| `PairingManager` (`windows/pairing`) | pairing sessions per client, failed attempts per device | pair request, confirm, unpair, cancel, expire | `DeviceRegistry` |
| `DeviceRegistry` (`windows/pairing`) | one registry subkey per device | write, read, set status, delete, count | the Windows registry; no lock |
| `AuthenticationManager` (`windows/authentication`) | one challenge per device, failure count and lockout per device, session counter | auth request, auth response | `DeviceRegistry`, `CryptoManager` |
| `CryptoManager` (`windows/crypto`) | none | hashes, ECDSA verification | CNG |
| Credential provider (`windows/credential_provider`) | tile, prepared logon buffer, status threads | advise, unadvise, deselect, serialize | the service's pipe, LSA |
| LSA package (`windows/lsa_authentication_package`) | an initialized flag | `LogonUserEx2` | `DeviceRegistry`, `CryptoManager` |
| `MdnsResponder` (`windows/network`) | running flag, UDP socket, published state | start, answer, stop | the phone's discovery |
| Configuration, diagnostics, audit log | settings, counters | load, count, write | the service |
| `WiFiTransport`, `PairingService` (`android/flutter_app/lib`) | connection state, socket, timers; pairing state, record | connect, receive, disconnect; pair, PIN, unpair, dispose | `NetworkEngine` |
| `MdnsDiscovery` (`android/flutter_app/lib`) | searching flag, socket, list | start, stop, receive | `MdnsResponder` |
| Formats (`shared/protocol`, `DerToP1363Converter.kt`, `canonical_signed_message.dart`) | none | headers, signed bytes, signatures, keys | both sides |

`BluetoothEngine`, `UpdateManager`, `BluetoothTransport` and several other Android parts named
by `docs/ARCHITECTURE.md` have no implementation. `PROJECT.json` lists every part with its
status.

### What is hard here

* Threads: every network client has its own thread in `HandleNetworkFrame`, the pipe has one
  more in `HandleIpcMessage`; they share the pending-lock slot. `AuthenticationManager` and
  `PairingManager` have a lock each, the registry has none.
* Sockets: in `NetworkEngine` the accept thread, a worker per client, the maintenance thread and
  `Stop` take the socket of a session from each other. The table has a lock, the sessions have
  none, and the operating system hands out a closed SOCKET value again.
* Numbers: rate limits and staleness are differences and sums of 32-bit tick counts that wrap.
* Stale values: an authentication handler works on a record it read before; the account limit
  is read long before the record is written; the agent's handle may be dead; the sweep of idle
  sessions works with a time it read before it got the lock.
* Partial writes and reads: a device record is written value by value, and LSASS reads it value by
  value in another process.
* Waits that give up: `UnAdvise` waits three seconds for a thread that may take ten, the pipe
  server one second for a thread that may not have begun to wait; both then go on.
* Awaits: on the phone everything between an `await` and its end sees the state the code left,
  calls overlap, and a destroyed socket still reports its end later.
* Two languages: C++, Kotlin and Dart lay out the same bytes by hand.
* Failure: the service restarts and forgets challenges, lockouts and sessions; the agent dies
  with a request in its pipe; a lock call fails; a record cannot be written.
* Delivery: frames may be repeated or arrive late; the wall clock may be set back.

### What makes each part correct

* Authentication: a challenge is worth one success, for the device it was sent to and only
  while it is the newest; a lockout starts exactly at the limit and holds until it is over.
* Pairing: a PIN is guessed at a bounded number of times and pairs at most once; a device is
  active only because of a PIN of its own; the account limit.
* Network: a table entry has a thread that will erase it; no connection is left open by the
  threads that share it; an address is let in a bounded number of times and waits for the end of
  its block; after `Stop` all threads end.
* Lock path: nobody is answered more often than it asked; a reported success was a lock; the
  request that reached the agent leaves the slot; a refused request never locks.
* Logon: a buffer that is handed over is whole, and one that is not is wiped; a logon that
  succeeds was true of the record; nothing allocated is lost.
* Service: after a stop nothing is left running; what is announced is served.
* Phone: what the transport shows is what there is; pairings, searches and dead sessions end.
* Formats: both sides mean the same numbers, keys, headers and messages.

The hazards behind these are listed, each with its line, under "hazards" in `PROJECT.json`.

## 2. The models

| Module | Models | Used by |
| --- | --- | --- |
| `DeviceRegistry` | the operators of `DeviceRegistry.cpp` on a store passed as an argument | the two managers |
| `AuthenticationManager` | `AuthenticationManager.cpp` with the registry and its other writers | `MCAuthenticationManager`, `AuthenticationManagerProofs` |
| `PairingManager` | `PairingManager.cpp`, `SasPin.cpp` with the registry | `MCPairingManager`, `PairingManagerProofs` |
| `OneShotChallenge` | abstract: what a challenge or a PIN promises | refinement of both managers |
| `LockDispatch` | the lock path through service, pipe and agent | `MCLockDispatch`, `LockDispatchProofs` |
| `CredentialTile` | `MobileUnlockCredential.cpp` and the provider that owns it | `MCCredentialTile`, `CredentialTileProofs` |
| `LsaPackage` | `LogonUserEx2` against the registry; uses `DeviceRegistry` and `SignatureCodec` | `MCLsaPackage`, `LogonProofs` |
| `NamedPipeServer` | the pipe server with its worker, access by access | `ServiceLifecycle` |
| `Discovery` | `MdnsResponder.cpp` and the phone's `mdns_discovery.dart` | `ServiceLifecycle` |
| `ServiceLifecycle` | start and stop of the service, composing the two above | `MCServiceLifecycle`, `ServiceLifecycleProofs` |
| `PhonePairing` | `wifi_transport.dart` and `pairing_service.dart` | `MCPhonePairing`, `PhonePairingProofs` |
| `SignatureCodec` | DER and P1363 signatures, forms of a public key | `LsaPackage`, `MCFormats`, `LogonProofs` |
| `WireFormat` | frame header and signed message in C++ and Dart | `MCFormats`, `LogonProofs` |
| `NetworkEngine` | `NetworkEngine.cpp`: all its threads, the rate limit, `Start` and `Stop` | `MCNetworkEngine`, `NetworkEngineProofs` |
| `...Proofs` | the theorems of section 4 | |
| `MC...` | symmetry sets for TLC; the constants are in the `.cfg` files | the runs |

**DeviceRegistry.** A record is existence, status, key and a "seen" mark. `WriteDeviceRecord`
is two operators, because a deletion or a revocation by another thread may come between
`PairStatus` (`WriteDeviceStatus`) and `PublicKey` (`WriteDeviceKey`). After a deletion the
second half writes through a dead handle and changes nothing. An empty new key leaves the old
value in place, as the code does. Left out: ACL, device name, account SID (the same in every
record, since it is that of the service's process), device version.

**AuthenticationManager.** `activeChallenges`, `rateLimits` and `sessionCounter` are the three
members of the class. Each handler is two steps: `Begin` (lock, clock, `IsRateLimited`,
`ReadDeviceRecord`) and one action per exit. Between them `PairBegin`, `PairEnd`, `Revoke` and
`Unpair` may change the registry, which is not under `m_mutex`. Every exit does what the code
does with the challenge and the failure count; `Consume` comes before the signature check. The
responses that can arrive (`AuthResponses`) are any combination of a device, a session id and a nonce that
were ever issued, to whichever device, with any key, at any time and any number of times. A signature is the key it verifies under. `Restart`
and `SetClock` may happen at any moment, also while a handler runs.

**PairingManager.** `sessions` is `m_sessions`, `rateLimit` is `m_rateLimitMap`. PINs are
numbered in the order of generation, which keeps two PINs with equal digits apart; what the
user typed is right, wrong or malformed. `RightConfirm` and `CompletePairing` are the halves of
the record write with `m_cs` held (`writer`); unpairing and revocation do not take `m_cs`. The
rate limit is looked up under the spelling the phone used (`exact`) and recorded under that of
`DeviceIdToString`.

**LockDispatch.** `worker[c]` is the position of client `c`'s thread in the lock branch of
`HandleNetworkFrame`: test of `IsConnected`, two stores, send. `ipc` is the position of the pipe's
thread in `HandleIpcMessage`: exchange, load, reply. The pipe has one instance at a time, and `peer` is
who opened it: the agent or the logon tile (`MobileUnlockCredential.cpp:35`), which connects to the same
name, sends a probe, waits and leaves. `IsConnected` is true for either. `toClient` and
`toService` are the contents of the pipe; `handle` is the agent's own handle, which stays set when the
service restarts and is then dead. `AgentCrash` and `ServiceRestart` may happen at any moment; a
write into a broken pipe is lost and, as in the code, not noticed. `asked`, `passed` and `calls` are
histories: the requests received, those the service did not refuse, and the `LockWorkStation` calls made for each id.

**NetworkEngine.** `m_clients`, `m_rateLimits`, `Socket`, `State` and `LastActive` are the
members of the class and of `ClientSession`; `acceptor`, `worker`, `cleaner` and `stopper` are the
positions and locals of the threads. A critical section is one step; every access of a worker
to `Socket` outside the lock is a step, so a sweep or `Stop` can come between the test of the
socket, `closesocket` and the assignment that forgets it (`WorkerExit`, `WorkerClose`,
`WorkerForget`). `handle` is the operating system's side: the connection a SOCKET value stands
for. `Accept` takes any free value, so a number closed twice can close a stranger's connection,
as it can in the program. `clock` is the true time; the code only sees `GetTickCount`, its
remainder modulo `TickWrap`, and `Elapsed`, the difference of two DWORDs. Simplifications:
`AttemptCount` stops at one above the limit, which is all the code tests; `LastActive` goes back to
0 when the worker, the last owner of the session, ends; the handshake is part of `RecvData`, since
it touches no shared state. Left out: the bytes of frames and TLS records, `SendFrame`,
`BroadcastFrame`, `GetActiveClientCount` (none changes the engine's state), a second start (the
service makes a new engine) and the destructor.

**CredentialTile.** LogonUI calls the tile on one thread; every `Advise` may add a status thread.
`thread[t]` is where a thread is in `StatusThreadLoop` and the token it has fetched. A section under
`m_stateLock` is a step, and so is each access outside it: the test of the stop flag, the fetch, the
test of the events and the call through them. `UnAdvise` and `UnAdviseReturn` are the parts before and
after the wait, which may end with the thread still alive. `refs` counts the references, so that
the tile can be freed under its threads; what a thread does with a freed tile is not followed. `waiting` is the
thread that `UnAdvise` waits for; the histories `outlived` and `released` are the threads a wait gave up on
and those whose events were released between their test of `m_pCredentialEvents` and their call.

**LsaPackage.** A submit buffer is the set of its defects, the device, the signer and the bytes of
the signature. `LogonUserEx2` (checks up to opening the key), `ReadPairStatus`, `ReadPublicKey`,
`Decide`, `AllocateName`, `AllocateAuthority` and `FreeName` are the steps of a call; the registry's writers
come in between, and a deletion kills the handle. `heap` is the set of allocated blocks, `out` what the two output
pointers hold, `owned` the blocks LSASS was given; it frees them one by one at any time
(`LsassFrees`), also during the next call, and a freed block may be allocated again.

**NamedPipeServer, Discovery, ServiceLifecycle.** `step` is the position of the thread that starts
or stops the service. Every start step may fail and leaves the parts before it as they are. `worker`
is the pipe's thread, whose loop is in `NamedPipeServer` and whose handler (`TestEngine`, `CallEngine`,
`StoreLocked`, `TestResponder`, `CallResponder`) is in `ServiceLifecycle`: each test of a pointer and
the call through it are two steps, and a call through a null pointer sets `crashed`. A thread that
outlives its object is not followed. The engine is only up or down; `NetworkEngine` has its threads.
Of the phone's sockets, `searchSocket` is the one in `_socket` and `lostSockets` counts those that are open and in no
variable any more, because a bind that returned later has replaced them (`SetSocket`); the history `overtaken` says
that a search began before the socket of another had come and gone.

**PhonePairing.** Dart handles one event at a time, so an action is an event with everything up to
its awaits. `call[c]` is what a call of `startPairing` or `unpairDevice` waits for; `live` and `closing` are the
sockets that still deliver events, among them destroyed ones. `loop` marks the loop in
`_onDataReceived`, in which no other event is handled. After `dispose` a state change throws, and
`Throws` ends the event where the code would.

**SignatureCodec, WireFormat.** Pure operators on sequences of bytes; the size of a component is a
constant, every derived size moves with it. A number in a header is the sequence of its bytes, so
that byte order and width are part of the model; what Dart reads as a signed 64-bit integer has a sign
beside them (`fromInt`). `MCFormats` has the reference definitions and states
for one value what both sides must make of it (`SameHeader`, `SameMessage`, `SameBlob`, `NumbersKept`,
`RoundTrips`); the run's invariants say this of the sample that a behaviour of `FormatSpec` has picked,
the theorems of every value.

## 3. The runs

| Run | Shows | Bounds |
| --- | --- | --- |
| `AuthChallenge` | all authentication properties and the refinement of `OneShotChallenge` | two devices, two keys, two nonces, two failures to a lockout, two changes of the registry (both devices paired, or one paired and revoked, unpaired or paired again), clock 0..1, so that a challenge expires and a lockout ends with one tick, three session ids, which repeat after a restart. Responses mix the ids, sessions and nonces of the two devices. 858,000 states |
| `PairSessions` | all pairing properties and the refinement of `OneShotChallenge` | two clients, two devices, limit of one device, two attempts per PIN, three PINs (without the limit a third session would open beside two paired devices), both spellings, clock 0..1 set forward and back, so that PINs and rate windows end |
| `AccountLimit` | *violated*: an account has at most `MaxDevices` active devices | two clients, two devices, a limit of one |
| `Lock` | nobody is answered too often, successes are backed, only requests passed on lock, and a request that reached the agent leaves the slot | two clients with two message ids, three requests in all, agent and tile, one crash, one restart, with fairness; 1.2 million states |
| `NetSessions` | table and sockets of the TCP server; all threads end after `Stop` | two clients of one address, two SOCKET values (so that one is used again), sessions stale after one tick, at which the tick counter wraps, with fairness; 419,000 states |
| `NetRates` | window and block of the rate limit | four connections of one address, two admissions per window, so that three can fall into one stretch of a window's length; windows of 1, blocks of 3, clock 5..11 with a tick counter modulo 8, so that windows end before, at and after the wrap, a block ends and the end of another wraps; workers and sweeps, which touch neither limits nor clock, do not run (`AdmissionSpec`); 387,000 states |
| `Tile` | buffer, handle and events of the logon tile; who may use what is gone; it is wiped after `UnAdvise` | two status threads, so that an old one runs beside a new one; two buffers; two references; 145,000 states |
| `Lsa` | a successful logon was true; no string is lost | two devices, two keys; good buffers, every single defect, two at once, a signature with r = 0; three blocks of heap, so that strings of an earlier call are still there while the next one allocates; 2.7 million states |
| `Formats` | conversions against reference definitions | components of two bytes: numbers of one to four bytes over {0, 2, 128}, all points, every truncation of every form of a key; fields of headers and messages with 0 and 255 at their ends, so with sequence numbers on both sides of 2^63; 54,802 states |
| `Phone` | the transport's state is backed, `dispose` is final, dead sessions and pairings end | two overlapping calls, two sockets, so that a forgotten socket speaks beside a new one; delays up to 2 |
| `Lifecycle` | start, partial failure and stop of the service with pipe, handler and discovery | one pipe handle, enough because by `NoPipeLeaks` a pipe is created only when none is open; two overlapping searches and one lost socket; 413,000 states |
| `PhoneReconnect` | *violated*: after a loss the transport tries to connect again | one call, one socket, the code's 16 seconds |

The bounds are named constants (`MaxTime`, `MaxSession`, `MaxPins`, `MaxFailures`, `MaxCrashes`,
`MaxRestarts`, `MaxRequests`, `MaxChanges`, `MaxClock` with the starting times `StartTime`, `MaxRefs`,
`MaxSearches`, `MaxLost`, `Submitted`, `SampleByte`, `Pattern`, and the sets `Thread`, `Call`, `Socket`, `Block` and
`Pipe`). The lock run stops when its requests are used up, which is why it does not check for deadlock. Neither do the runs of `NetworkEngine`, `CredentialTile` and
`ServiceLifecycle`, which do nothing more once stopped, freed or crashed, that of the phone, which
is silent after `dispose`, and `Formats`, whose behaviours take one step. Properties of more devices,
clients, threads, calls, bytes or longer histories are covered by the proofs.

**Fairness** (`LockDispatch!Fairness`): the thread of each client, the thread of the pipe,
the loop of the agent and a tile that has connected keep running; each of them is an unconditional loop or straight-line code
in the source and blocks only on conditions that disable its actions. No fairness is assumed for
sending a request, for showing the tile, for starting the agent again or for faults.

`NetworkEngine!Fairness`: the accept thread, every worker, the maintenance thread and `Stop` keep
running once they run. `recv` returns in any case because `SO_RCVTIMEO` is five seconds, and
`Sleep` and the waits of `Stop` end by themselves. `accept` returns only when a client connects or
the listening socket is closed, and no fairness is assumed for clients, `Start`, the beginning of
`Stop`, or time.

`CredentialTile!FairSpec`: a status thread keeps running; its connect, its read and its pause have time
limits. Nothing is assumed of LogonUI.

`PhonePairing!FairSpec`: the loop over a buffer ends, an awaited connection succeeds or fails
(`connect` has a timeout) and a timer that is set goes off unless it is set again. The reconnect and SAS timers and the
awaits have strong fairness, because Dart handles them between other events: while the loop of
`_onDataReceived` runs they are disabled for a moment, and a clock does not stop for that.

`ServiceLifecycle!FairSpec`: the stop procedure, whose waits all have limits, the worker where it needs no
client, its handler, the phone's binds and its search timers. A worker in `ConnectNamedPipe` is not assumed to return.

**The violated properties** (`ReconnectTries`, `AccountLimit`) state what a document says; they are listed
under "findings" with the line of the document and the line of the code. Every property of a passing run has a mutant of
the model (an operator whose comment starts with "Mutant") that breaks it.

## 4. The proofs

All theorems hold for any sets of devices, clients, keys, nonces and message ids and any values
of the numeric constants allowed by the named assumptions (`KeyAssumption`, `AuthAssumption`,
`PairingAssumption`, `LockAssumption`, `NetworkAssumption`, `EntryAssumption`, `TileAssumption`,
`CodecAssumption`, `SubmittedAssumption`, `HeapAssumption`, `PhoneAssumption`, `PipeAssumption`, `DiscoveryAssumption`), which only
separate the "none" values from the others and say which constants are natural numbers. `AccountLimitBounded`
needs finitely many devices and clients. The theorems about the formats also use `LengthAssumption`, components of
2 to 51 bytes: the code has 32, and up to 51 every length in the formats is one byte below 128, as the code writes
it. `SampleAssumption` says that the bytes of the run's samples are bytes.

| Theorem | States | Argument |
| --- | --- | --- |
| `AuthenticationManagerProofs!TypeCorrect` | `TypeOK` | inductive as it stands |
| `LockoutCorrect` | `LockoutMatchesCount` | inductive with `TypeOK`; its last conjunct (the handler works for a device without a lockout) is what carries a failure past the second step |
| `AtMostOneSuccess` | `OneSuccessPerNonce` | from `ChallengeInv`: an issued nonce belongs to one frame, an open challenge was issued to its device and has no success yet |
| `NewestOnly` | `OnlyNewestChallenge` | same invariant; the accepted frame is the one open for the device |
| `LockoutHolds` | `LockedOutUntouched` | from `LockoutMatchesCount` |
| `Refinement` | `ImplementsOneShot` | issuing is `Issue`, success is `Grant`, failure and restart are `GiveUp` |
| `PairingManagerProofs!TypeCorrect` | `TypeOK` | inductive |
| `GuessesBounded` | `GuessBudget` | from `PinInv`: the comparisons of a PIN never exceed the attempts counted in the one session that holds it |
| `PinRefinement` | `PinIsOneShot` | same invariant |
| `ActiveByPin` | `ActiveOnlyByPin` | only the first half of the record write activates a device |
| `AccountLimitBounded` | `AccountLimitSlack` | inductive; a session opens only below the limit, and each confirmation trades a session for a device |
| `LockDispatchProofs!TypeCorrect` | `TypeOK` | inductive |
| `NoExtraReply` | `NoUnaskedReply` | from `ReplyInv`: a request entitles to one reply, and the entitlement is with the worker, in the slot or with the pipe's thread, never in two places |
| `LocksOnlyPassed` | `LocksWerePassed` | from `PassInv`: a request that was not refused is with its worker, in the pipe or acted on, in one of these places only; a crash, a restart or the tile can only lose some |
| `EverySuccessBacked` | `SuccessIsBacked` | from `Backed`: a successful lock is with the agent, in the pipe, with the pipe's thread or reported, never twice; the answers in the pipe are counted as the set of their positions, which needs no induction |
| `NetworkEngineProofs!TypeCorrect` | `TypeOK` | inductive |
| `TableHasThreads` | `EntryHasThread` | from `EngineInv` |
| `SocketsClosed` | `ClosedWhenDone` | from `EngineInv`: an open connection whose client was not dropped is held by the accept thread, by its session, by its worker on the way to `closesocket`, or by the sweep's list |
| `BlockedAddressWaits` | `BlockHolds` | from `BlockInv`: as long as the block lasts the entry holds its end, offence plus `BlockMs`, unless that wraps |
| `AdmissionsBounded` | `WindowSlack` | from `WindowInv`: the admissions counted in an entry are the last ones, the first of them at `FirstAttemptMs`; a full window therefore lies between any admission and the one 2 * `MaxAttempts` - 1 later, and the wrap only makes a window look younger |
| `CredentialTileProofs!TypeCorrect` | `TypeOK` | inductive with the count of references |
| `WholeSubmitted` | `SubmitsWhole` | flag and buffer change under one lock |
| `DataIsKept`, `HandleLive` | `BufferHasKeeper`, `HandleIsLive` | together (`ThreadInv`): the handle is forgotten when the stop flag is set, so the thread it names has never seen the flag; a thread that ends wipes the buffer |
| `GoneForOutlived` | `GoneOnlyForOutlived` | from `ExposureInv`: a living thread is the one of the handle, the one `UnAdvise` waits for or an outlived one, and `released` holds only threads that are about to call |
| `LogonProofs!TypeCorrect` | `TypeOK` | inductive |
| `OutputsOwned` | `OutputsAreHeap` | from `OutputsInv`: which output names a block follows from the position of the call, and a call that is under way has not succeeded |
| `LogonTrue` | `LogonWasTrue` | from `SpanInv`: while the handle is alive the record is the one that was opened and each of its values is in the span of the call |
| `PhonePairingProofs!TypeCorrect` | `TypeOK` | inductive, in three parts |
| `StateBacked` | `StateIsBacked` | inductive; whoever takes the socket away also changes the state |
| `DisposeFinal` | `DisposedIsQuiet` | with: after `dispose` no reconnection is wanted, so nothing sets a timer again |
| `ServiceLifecycleProofs!TypeCorrect` | `TypeOK` | inductive with `SearchesCounted`: binds and timers of searches share one bound |
| `AnnouncementsServed` | `AnnouncedIsServed` | from `PartsByStep`: which parts are up follows from the step of start or stop |
| `PipesKept` | `NoPipeLeaks` | from `PipeInv`, below |
| `StoppedIsDown` | `StoppedMeansDown` | from `PartsByStep` and `PipeInv` |
| `CrashesOnlyInStop` | `CrashOnlyInStop` | with `TestedIsThere`: what the handler has tested is still there unless the service is stopping |
| `HeaderMeansTheSame`, `HeadersAlwaysAgree` | `HeadersAgree` | field by field, below |
| `MessageMeansTheSame`, `SignedBytesAlwaysAgree` | `SignedBytesAgree` | field by field |
| `KeyMeansTheSame`, `KeyFormsAlwaysAgree` | `KeyFormsAgree` | each form by its length and first bytes; a cut one by its first byte, or by the lengths it still holds |
| `ToFixedWidth`, `ThereAndBack`, `ValueAlwaysKept` | `ConversionKeepsValue` | from what one INTEGER encodes, below |

`ClosedWhenDone` is not inductive because a SOCKET value says nothing about whose it is.
`EngineInv` adds who owns a connection at each position of the four kinds of threads
(`OwnedInv`, with `AcceptorInv`, `ErasedInv`, `CloseInv` and `CleanerInv` for the positions) and
what holds before the start (`StartInv`).

`NoUnaskedReply` is not inductive: it says nothing about the slot. `Entitled` adds the three
places a right to a reply can be in; the exchange in `HandleIpcMessage` is the step that needs it.

`NoPipeLeaks` is not inductive: the worker and `Stop` both read `m_hPipe`, close it and reset it, each in
several steps and without a lock. `PipeByWorker` says at which positions the worker holds nothing,
`ServerByStep` what the steps of `Stop` have made sure of; the case that needs both is `Stop` between closing
and forgetting the handle while the worker could create the next one, which it does not because the
running flag was cleared before.

The formats need no induction over data. A frame or a signed message is a join of fields of fixed widths, and
the lemmas say at which positions the bytes of each part are (`Joins`). Leading zeros can be of any number:
the position of the first significant byte is a least element, taken from the well-foundedness of the
natural numbers, and what is left of it is zero. `Encodes` says which
bytes hold the two numbers, `Converted` what `derToP1363` makes of any such bytes; the theorems follow because both
`DerSignature` and `p1363ToDer` encode their numbers in this sense. `AnyNumber` has up to
61 bytes, so that a signature of two of them has its length in one byte.

**Only model-checked.** `DeliveredIsAnswered`, `Quiesces`, `UnadvisedIsWiped`, `SilentPeerDropped`, `PairingEnds`,
`StopCompletes` and `SearchEnds` are liveness under fairness and beyond the prover. Every other property of
the passing runs has a theorem.

## 5. Observations that are not runs

* `PairingManager` sets a session to `FAILED` after the last malformed confirmation and keeps its PIN,
  while `PairingManager.h:41` says the PIN is cleared when pairing fails.
* A pairing without a public key succeeds and leaves the key of an earlier pairing of the same
  device in place (`DeviceRegistry.cpp:133`).
* `RecordFailure` counts every failed response, not only failed signatures, and without the
  60-second window of `docs/SECURITY.md:103`.
* After a restart of the service the agent keeps its dead handle and never connects again; until the user
  logs on anew the service refuses every lock request, or notes it for nobody while the tile has the pipe.
* `IsConnected` (`MobileUnlockService.cpp:392`) does not tell the agent from the logon tile, which opens the same
  pipe. A request that comes while the tile has it is noted in the slot, written to the tile and never
  answered, without any fault; so is one whose agent dies before it answers (`:427`). Compare "Remote lock
  fails gracefully with error payload" in `docs/RECOVERY.md:18` and "Agent disconnected during lock | Returns
  `AGENT_UNAVAILABLE` error" in `docs/phases/PHASE_6_FINAL_VERIFICATION.md:21`. `DeliveredIsAnswered` covers the requests
  that reach a living agent; `LocksWerePassed` says that none of the others acts later.
* Two sessions opened below the account limit can both be confirmed (the run `AccountLimit`);
  `AccountLimitSlack` says by how much the limit is passed.
* A process that ends between the values of a record leaves an ACTIVE device without a key, or with the key of an
  earlier pairing (`DeviceRegistry.cpp:115`). LSASS, which reads value by value, can combine a status with a
  key that was written after it changed; `LogonWasTrue` says that each was true during the call.
* A device that is revoked or unpaired after `HandleAuthResponse` has read its record still gets its success.
* The rate window of pairing starts with the first failure and is not restarted when it is over
  (`PairingManager.cpp:145`, against `docs/phases/PHASE_3_COMPLETION.md:76`).
* A lock reply can carry the message id of another client's request (`MobileUnlockService.cpp:411`,
  against `docs/PROTOCOL.md:40`).
* The window of the connection rate limit is fixed: `docs/NETWORKING.md:87` ("Max 5 connection attempts per minute
  per IP address") and `docs/phases/PHASE_2_COMPLETION.md:48` ("enforces maximum 5 connection attempts per minute per
  IP") promise five, but four admissions at the end of a window and five at the start of the next one are
  nine in a minute (`NetworkEngine.cpp:52`). `WindowSlack` states the bound the code keeps, 2 * 5 - 1.
* The sweep reads the tick count before it takes the lock (`NetworkEngine.cpp:403`), so a session that
  was active since looks 49 days old, against `docs/NETWORKING.md:91`.
* Tile: `docs/phases/PHASE_7_COMPLETION.md:70` and `:123` say that the status thread is stopped during
  `UnAdvise` and that memory is zeroed on unadvise. When the wait of three seconds ends first, the thread
  goes on, wipes later (`UnadvisedIsWiped`), and may call through the released events or use the
  freed tile. `GoneOnlyForOutlived` says that no other thread can, but for one case: a second `Advise` releases
  the events it replaces while the tile's own thread may be calling them. `m_statusText` is assigned by two threads without a lock.
* Service: a worker that has passed its test of the running flag when `Stop` cancels its input can block in
  `ConnectNamedPipe`, while the log says that the components stopped safely
  (`MobileUnlockService.cpp:219`). When the engine does not start, the pipe server keeps running. A
  handler can call through a part that stop has just reset (`CrashOnlyInStop` says only then). The two
  stores of `SetState` can end in different orders, so that the responder publishes another state
  than the service has.
* Phone: `pairing_service.dart` calls `connect(host:, port:, useTls:)` and `WiFiTransport()`, which do not
  match the signatures in `wifi_transport.dart`; the model takes the calls as they are meant. Overlapping
  connects forget a socket without closing it. `unpairDevice` while connected drops the record
  without telling the PC, and overlapping calls of it dereference a null record
  (`pairing_service.dart:122`). An error and a completion in one chunk end in the state paired.
* Discovery: `_socket` is overwritten without a look at it (`mdns_discovery.dart:61`). When the app stops a search
  during its bind and starts another, both sockets arrive and the first stays open for good. `SearchEnds`
  says that a socket is lost in no other way.
* Formats: a sequence number from 2^63 is a negative number on the phone (`wifi_transport.dart:132`), and a phone that
  had one to send would send 2^63 - 1. A public key of any form of which exactly 64 bytes arrive is registered as
  bare coordinates, that is as another key (`CryptoManager.cpp:244`); bare coordinates that begin with the
  tag of a SEQUENCE are left out of the property about cut keys, because their rest is read as lengths of
  any size.
* The service never creates a `PairingManager`; nothing calls `ExpireStaleSessions`.
* A failed `LockWorkStation` still leads to the state LOCKED and to a `LOCK_EXECUTED` event
  (`MobileUnlockService.cpp:283`), which `docs/SECURITY.md:93` describes as an executed lock. The
  client is told the truth: `SuccessIsBacked`.
* After a malformed or oversized header the worker sets `Socket` to INVALID without `closesocket`
  (`NetworkEngine.cpp:305`), although `docs/NETWORKING.md:85` says that the socket is closed. The
  connection stays open; `ClosedWhenDone` leaves these clients out by name.
* A worker and the sweep may both close one SOCKET value; the second call hits whatever
  connection has the number by then.
* The end of a block is a sum of ticks that may wrap: the block is then over at once. An end
  before the wrap that has not been cleared can refuse an address for up to 49 days. Compare "blocking
  offenders for 15 minutes" in `docs/phases/PHASE_2_COMPLETION.md:48`. `BlockHolds` names the exception.
* `Stop` waits one second for a maintenance thread that may sleep five, and the service then
  destroys the engine (`MobileUnlockService.cpp:202`).
* The published state never goes back from LOCKED to ONLINE.

## 6. Not modelled

* TLS (`TlsContext`) and the cryptographic primitives: fixed sequences of calls into Schannel and
  CNG, on contexts that one thread owns; external.
* Configuration, diagnostics, audit log, installer scripts and the user interface: no protocol
  state of their own.
* `PING`/`PONG` and `STATUS_RESPONSE`: they change nothing. `connection_service.dart` is a stub.
* The biometric prompt and the keystore: platform services behind a method channel; the models use
  that a signature verifies under exactly one key.
* Threads that use an object after it was freed: the behaviour is undefined, and the models stop
  there.

## 7. Possible continuations

1. `PhonePairing` against `PairingManager` across a lossy connection, with an abstract pairing as the
   common specification.
2. The phone's waiting for a challenge, once `connection_service.dart` uses the transport.
