# Verification of the RTMC client library

TLA+ models of the library by which a Linux PC controls an Epson robot
controller over Fast DDS, checked with TLC and partly proved with TLAPS. Paths
are relative to the repository (`src/`); "line" means a line of the file named
before it.

## 1. The system

| Component | State it keeps | Operations | Made correct by |
|---|---|---|---|
| `DDSCommunication` (src/DDSCommunication.cxx): one object per connection, with `PubListener` and `SubListener` called by the Fast DDS thread | `matched`, `disconnect` per listener; `FailedGetRRDData`; the response slot `rrddata_cmdres` under `mutex_sig_`/`sig_condition`; two notices with `new...` flags under `mutex_rrd_` | `init`, `wait_for_connect`, `DDS_Send`, `Get_NewStatus`, `DDSConnection`, the destructor; callbacks `on_..._matched`, `on_data_available` | no lost wakeup; an answer belongs to its request; no use after a lost match; the last stored notice is not lost; every call returns |
| `RTMCClient` (src/rtmc_client.cpp): the public API | `timed_mtx_common_`, `DDSCommunication_Ptr`, `sendformat`, `recvformat` | 42 public functions, all through `SendProc_Common` and `DisconnectRC`, and the destructor | the object is not deleted in use; cached formats equal the controller's; errors leave a state from which `RTMC_Connect` works; the lock is returned |
| status and position cache (src/rtmc_client.cpp: `Update_RCSts`, `Update_RCSts_Core`, `Update_CurJA`) | `rc_status`, `current_ja` | filled from answers and from notices | numbers, information and messages belong together; nothing older than the connection; an answer is not overtaken by an older notice |
| configuration (`Set_ComProperty`, `Set_SecProperty`, `Check_ValidIP`, `Check_ValidPort`, `Config_ParticipantQoS`) | `com_property`, `com_property_option` and its flag, `sec_property`; sockets | set, check against the machine, create a participant | a connection uses what was last set; nothing changes under an object; an option is stored only after its checks |
| `RBWeightInertiaParam` (src/rb_weight_inertia_param.cpp) | `rb_model` | `Set_RBModel`, `CanExc_LoadParam`, limits, `Reset_RBModel` | limits are those of the model the controller was asked to check |
| `DataFormatConverter` (src/dataformat_converter.cpp) and the word macros | none | numbers and strings to bytes and back | what one side writes the other side reads, on hosts of either byte order |
| generated DDS types, demos, script, log macros | none | | not modelled (section 6) |
| the controller, the network and the client's machine (external) | formats of `Exec_RTMC`, result of `RBCheck`, until it is turned off; status and position; ports and interfaces | executes requests in order; answers, refuses, is silent, restarts; publishes notices | |

Interaction: an application thread calls a public function, which takes
`timed_mtx_common_` (3 s), checks pointer and arguments, and calls
`SendProc_Common`. That checks `DDSConnection()` and calls `DDS_Send`, which
writes the request and waits at most 5 s for the listener thread to store the
answer. Any failure of `DDS_Send` deletes the object. The listener thread also
updates the match flags and the notices at any time.

What is hard here: the caller and the listener thread share the slot through a
condition variable that is waited for once and without a predicate; the only
link between request and answer is the command ID; requests, answers and
notices may be lost or late; the controller may restart; the client caches
state (formats, robot model, status, position) that the controller also has, and
updates it from answers and from notices; validation is spread over steps of
which a later one may fail; and error paths are written out by hand in every
function. `PROJECT.json` lists each hazard at its
line with the properties about it.

## 2. The modules

- `RequestReply` - the contract between the two classes: a connection carries
  one request at a time; a call succeeds with an answer of its own command ID,
  or the connection ends with it. States `closed`, `open`, `called`.
- `DDSCommunication` - the communication object. One action per atomic part of
  the code: `DDS_Send` is `Lock`, `Write`/`WriteFails`, `TimedWait`, `Expire`,
  then `TimedOut`, `Accept` or `Reject`; `on_data_available` is `TakeAnswer` and,
  when it has got `mutex_sig_`, `StoreAnswer`. A notice is taken (`TakeNotice`),
  stored (`StoreNotice` locks `mutex_rrd_`) and marked new (`MarkNotice` unlocks it);
  `get_RRDData` reads the mark and copies the notice (`CopyNotice`, which locks) and
  clears the mark (`ClearNotice`, which unlocks). These are separate steps, so that
  the order of the two threads is kept by `mutexRrd` alone. `mutexSig` records only
  the caller's hold, since the listener's hold (lines 509-516) is one action.
  A change of a match count other than 1 and -1 counts as a loss (lines 412, 462).
  `pthread_cond_timedwait` is the pair `cond`/`mutexSig`: it releases the mutex
  in `TimedWait`, is signalled in `StoreAnswer` or expires, and goes on only
  when the mutex is free. The deletion of the object (`DisconnectRC`) waits for
  a running callback, as Fast DDS does. A match reported before the listeners
  are initialised ends in `crashed` (undefined behaviour at line 402).
  Requests get the number of their position in `asked`; the code has no such
  number, so no guard looks at it except through its command ID.
- `RTMCApi` - the public functions. They have one shape, so each is a record
  (command, range of the argument, formats it needs, values it accepts in the
  answer, details of refusals it knows, ...), which is what distinguishes the
  function bodies of src/rtmc_client.cpp lines 91-2205.
- `RTMCClient` - the shape, once, for any number of threads: `Start`, `Acquire`
  or `LockTimeout`, a `Begin` action (connection and argument checks, the branches
  of `RTMC_Connect`, `Get_CurrentJA`, `Get_RCStatus`), an `Await` action
  (`SendProc_Common`) and a `Judge` action (what becomes of the answer, including
  the four to five requests of `RTMC_Connect`). The channel is an instance of
  `RequestReply`; `link` is `DDSConnection()`. The controller (external) executes
  the requests of its `inbox` in order, also those whose caller has given up.
  `NewClient` is the destructor (lines 81-89) when no function runs, and a new
  object in its place: caches and lock start again, the controller goes on.
- `ClientCalls` - what the API promises to the application, without requests,
  answers, link or lock: a call is `outside`, `queued` or `inside`, one at a time is
  inside, and takes effect when it returns; the code it returns says what became of
  the `session` (none, established, or half), the `formats` that `Exec_RTMC` follows
  and the robot `model`. Two effects come earlier, because the code has them
  earlier: `RBCheck` adopts its model before it sends (`Adopt`), and `RTMC_Connect`
  removes a dead connection before it makes another (`Clean`). After a failed
  `RTMC_DisConnect` the client is `stuck`.
- `RCStatus` - `rc_status` and `current_ja` across answers, notices, messages and
  connections. A status is known by its place in `log` and a position by its
  number, so that "older" is a comparison; one reader keeps the last sample, as
  the history depth of the readers does, and answers and notices overwrite each
  other in it. History variables: `base` (what the controller had when the
  connection was made), `begun` (the position at the call), `known` and `learned`
  (what was copied since), `missed` (the messages of the last new numbers did not
  come). The message of a number is the number itself.
- `ComProperty` - `Set_ComProperty` in the order of the code: the controller's
  address is stored (line 110), then the ports are compared, `Check_ValidIP` looks
  for the address and `Check_ValidPort` binds each port; between two of these
  steps the machine (external) may change. `Connect` copies the configuration
  into the participant.
- `DataFormat` - the converter as operators without state. The i-th byte of a
  value is `<<value, i>>`, so that a swapped, shifted or truncated field is seen and
  the bits need not be modelled; a reader that finds bytes of no value gets
  `Garbled`. The conversions of the code that differ in a size are one operator.
- `RBWeightInertiaParam` - `rb_model_list` (the 64 models, as families, sizes and
  mountings) and the limits of weight, inertia and eccentricity of each.
- `Payload` - what requests and answers say: each call writes its arguments through
  `DataFormat`, the controller (external, little-endian) answers with fields at its
  own places, and the client accepts and reads. `Set_Weight` and `Set_Inertia`
  check against `rb_model`, while `rcModel` is the model the controller was last
  asked to check. `conn = "half"` is an `RTMC_Connect` that failed at the error
  message and kept the object.
- `MCDDSCommunication`, `MCRTMCClient`, `MCRCStatus`, `MCComProperty`, `MCPayload` -
  constants for TLC.
- `..._proofs` - theorems about the module they extend: `DDSCommunication_proofs`;
  `RTMCClient_proofs`, `RTMCTypes_proofs` and `RTMCCalls_proofs` about `RTMCClient`,
  each extending the one before; `RCStatus_proofs`; `ComProperty_proofs`;
  `Payload_proofs` (with `DataFormat` and `RBWeightInertiaParam`) and
  `PayloadAnswers_proofs`.

The two detailed models meet at `RequestReply`: `DDSCommunication` implements it
(run `dds_core`, theorem `Implements`), and `RTMCClient` uses nothing else of the
communication object, and uses it as it is meant (theorem `ConnectionUsedInOrder`).
`RTMCClient` in turn implements `ClientCalls` (property `OneAtATime` of run
`rtmc_mixed`, theorem `ClientCallsImplemented`). The mapping: a thread that holds the
lock is `inside`, one that waits for it `queued` (`placeOf`); a connection counts as a
session when no `RTMC_Connect` is at work on it, `established` if its last one
succeeded and `half` otherwise (`sessionOf`); `formats` and `model` are the cache; `stuck`
is `leaked`. What `RequestReply` does not say and `RTMCClient` assumes is
that the answer is the answer to the very request. That is `FreshUnlessLate`, and
it holds only without spurious wakeups and without answers that arrive in a
later connection than their request; `RTMCClient` therefore describes the client
in the absence of these two.

After a failed `RTMC_DisConnect` the same thread may call again and lock a mutex
that it owns, which is undefined for `std::timed_mutex`. The model takes the
outcome of the pthread mutex of glibc: the wait ends with the timeout.

`RCStatus`, `ComProperty` and `Payload` let one call run at a time. That is what
`ObjectAlive` and `LockReturned` of `RTMCClient` show for all functions that hold
`timed_mtx_common_`; `Set_ComProperty` and `Set_SecProperty` hold it too. They take
over the connection of `RequestReply` as its two outcomes, an answer or no
connection.

`RTMC_DisConnect` that has failed leaves the mutex locked, and a destructor after
it destroys a locked `std::timed_mutex`. That is undefined as well; the outcome
taken is glibc's, where nothing happens (`NewClient`).

Some definitions are named "a variant" in their comments: changed copies of the
next definition, which are in no specification. They are used to test that the
properties notice the change.

## 3. The runs

| Run | Question | Bounds | States |
|---|---|---|---|
| `dds_core` | lock and wakeup, freshness of answers, refinement of `RequestReply` | 2 command IDs, 4 requests, 3 objects | 723879 |
| `dds_live` | the last stored notice, lost matches; every call returns, the listener is released | 1 command, 2 requests, 2 objects, 2 notices of 2 kinds, spurious wakeups | 749843 |
| `dds_spurious` | a success returns the answer to its own request (violated) | 1 command, 2 requests, 1 object, spurious wakeups | |
| `rtmc_formats` | formats and layouts across losses, delays and restarts | 2 threads, 8 calls, inbox 3, 2 refusals | 424453 |
| `rtmc_mixed` | object life, lock, errors, every call returns, over every kind of function; refinement of `ClientCalls` | 2 threads, 9 calls, inbox 2, 6 refusals, 2 values | 311031 |
| `rtmc_leak`, `rtmc_halfopen`, `rtmc_model` | statements of readme.md (violated) | 1-2 threads, inbox 1 | |
| `rc_status` | status, information, messages and positions | errors and warnings, 2 numbers, 2 informations, 3 statuses, 2 positions | 6.9 million |
| `rc_status_message` | no message without an error (violated) | the same, 1 information, 1 position | |
| `com_property` | configuration and checks | 2 controllers, 1 address, 2 ports, 2 security settings, 2 sockets | 146496 |
| `payload` | requests and answers understood, loads within limits | both byte orders, 3 names, 2 numbers, 6 loads | 90680 |

Why the bounds are enough. Three objects are one whose requests go unanswered,
one that their answers may reach, and one after it; four requests with two
command IDs give two of the same ID with another in between, on one object or on
different ones. Two threads are one inside a call and one that wants the lock;
a third only waits as the second does. An inbox of three holds a request
given up, one of the next connection and one behind it; a longer queue is cut by
loss, which is possible anyway. Counters (`MaxRequests`, `MaxSessions`,
`MaxNotices`, `MaxInbox`) bound the runs only; the proofs hold for any value.
Command symmetry, thread symmetry and the symmetry of errors and warnings are
used in runs that check no liveness.

In `dds_live` one notice can be copied while the next one of its kind arrives, or one of
the other kind; two requests are one that fails and one on the object after it, or
two on one object.

In `rc_status` three statuses are a number that comes, goes and comes again (with
other information), or two that come one after the other; one move of the robot
makes a notice older than an answer. Errors and warnings are both there because
one answer carries the messages of both. In `com_property` two sockets are one
that a failed bind has left and one more that a call opens; two ports are enough
for an option with different and one with equal ports, and a second address adds
only a second way to be absent. In `payload` the numbers 7 and 300 fit and do not
fit into a byte; the loads are below 0, 0, within both models, within one, within
none, and NaN; one of the names is a model's misspelt, as readme.md:1704 has it;
answers have each size the code compares with and sizes beside it.

The `dds_` runs do not check deadlock, because the bounded counters and `crashed`
stop the system; all other passing runs do.

### Fairness

`FairSpec` of `DDSCommunication`: the caller's thread takes its next step inside
`DDS_Send` and `get_RRDData`, the listener stores an answer or a notice when it
can have the mutex, and the clock reaches the deadline of a wait. The code has
no other wait: it is weak fairness on each step. Nothing is assumed of the
controller or the network, nor that a call is made. Nor is it assumed that the
listener ever gets `mutex_rrd_` while the application reads notice after notice;
`ListenerReleased` is about `mutex_sig_`. `FairSpec` of `RTMCClient`: a thread
inside a call goes on; `LockTimeout` and `SendFails` are part of its next step,
so that neither the lock nor an answer is assumed to come. `DDS_Send` returning
is what `CallReturns` of `DDSCommunication` shows.

## 4. What holds, and what does not

Holds: no wakeup is lost (`NoLostWakeup`); a success is the answer to its own
request if no answer of an earlier connection arrives and no wait returns
unsignalled (`FreshUnlessLate`) - closing the object at every failure is what
makes command IDs sufficient; nothing is sent after a lost match
(`NoCallAfterLoss`); a notice cannot lose its mark unread to a caller that is
clearing that of the one before: the last stored notice of a kind is marked new
or has been handed over (`LatestNoticeKept`; a notice that nobody has read is
overwritten by the next, as the code has it); the object is never used while it
may be deleted (`ObjectAlive`); every `CLIENT_COM_ERR` and `CLIENT_UNDEF_ERR`
leaves no connection, but for `RTMC_Connect` called on one that stands
(`ErrorEndsConnection`); the cached formats are the controller's between calls,
and no `Exec_RTMC` is read in another layout (`FormatAgreement`, `ExecLayout`),
even if it is executed late; every call returns (`CallReturns`, `CallsReturn`).

The functions take effect one at a time and their codes can be relied on
(`OneAtATime`): `CLIENT_ARG_ERR` of a request means that nothing was sent; a
`CLIENT_COM_ERR` or `CLIENT_UNDEF_ERR` of it that the session is gone, and any other
refusal that session, formats and model are as they were (except the model after an
`RBCheck`, and the session after a `Get_RCStatus` or `Get_CurrentJA`, which may close it
whatever they return); a half-open session comes only from an `RTMC_Connect` that
returned a refusal; and after an `RTMC_DisConnect` that returned `CLIENT_ERR` no
function of this client runs any more.

Status and position: within a connection mode and numbers are those of one status
the controller had since the connection was made (`Snapshot`); the additional
information was reported with its number (`InfoOfNumber`); the messages are those
of the numbers unless their request failed (`MessageOfNumber`); nothing is
returned that is older than the connection (`NoStaleSession`), and a position
taken from an answer is not older than its call (`CurrentFromAnswer`).

Configuration: a connection has the option of the last successful
`Set_ComProperty` (`UsesLastOption`; the controller may be that of a failed call);
nothing is changed under an object (`ConfigurationFixed`); an option is stored
only by a call that found both its ports free (`OptionChecked`).

Contents: the controller reads what the caller gave (`Heard`) and the caller what
the controller wrote (`Understood`), on hosts of either byte order and for answers
of any size; a load is within the limits of the model the controller was last
asked to check (`LoadWithinLimits`), unless it is NaN or the connection is the
half-open one of 3 below.

Does not hold (runs that end in a violation; the text is in `findings`):

1. `ReplyAnswersRequest`: an unsignalled return of `pthread_cond_timedwait` makes
   `DDS_Send` accept the previous answer with the same command ID.
2. `TimeoutOnlyWhenBusy`: a failed `RTMC_DisConnect` keeps `timed_mtx_common_`.
3. `NoHalfOpen`: `RTMC_Connect` returns an error and keeps the connection if the
   controller refuses the request for the error message.
4. `RBChkErrMeansUnchecked`: a reconnection forgets the robot model although the
   controller retains the check.
5. `NoErrorNoMessage`: `Update_RCSts_Core` stores the numbers before it fetches their
   messages, so that after a failed request `Get_RCStatus` returns number 0 with
   the message of the old error (rtmc_client.cpp:2354, readme.md:1411).

Met while modelling, and not stated as properties:

- The example at readme.md:1704 calls `RBCheck` with `GX4C-251S`, which is not in
  `rb_model_list` (`GX4-C251S` is): it returns `CLIENT_ARG_ERR`.
- A half-open connection (3) keeps the `rb_model` of the connection before, because
  `Reset_RBModel` is only at the end of `RTMC_Connect`.
- NaN passes the range checks of `Set_Weight` and `Set_Inertia`, which compare with
  `<` and `>`.
- `Ushort2Uint8` copies eight bytes of a two-byte value into a
  two-byte buffer (dataformat_converter.cpp:68); the two bytes that are used are
  right, which is what `DataFormat` takes.
- `Get_ComProperty` returns the option also when the flag says that it is not used
  (rtmc_client.cpp:172).
- `get_RRDData` returns with `mutex_rrd_` locked if `pupdate` is null
  (DDSCommunication.cxx:536); no caller passes null.
- `Check_ValidIP` does not free the list of `getifaddrs` (line 2428) and reads
  `ifa_addr`, which may be null (line 2425); `Check_ValidPort` does not close the
  socket of a failed bind (line 2458). `ComProperty` keeps both the open sockets and
  the limit at which every check fails; nothing in the repository promises that
  calls can fail without end, so no property is about it.

`FormatAgreement` and `ExecLayout` speak of connections that `RTMC_Connect`
reported as established (`established`, `trusted`): in the half-open connection of
3 the formats have not been read.

## 5. What is proved

All theorems hold for every value of the constants, under the named assumptions
of the modules (`NoCmd \notin Cmds`, bounds that are natural numbers,
`NoThread \notin Threads`, what `RTMCApi` says of `Calls`, `0 \in Numbers`, ports that
are positive).

`DDSCommunication_proofs`:

- `TypeCorrect` - `TypeOK` is inductive as it stands.
- `LockCorrect` - `LockInv /\ NoLostWakeup`. `NoLostWakeup` alone is not inductive:
  that the slot does not hold the answer when the wait begins needs that it did
  not when the request was written (`pc = "sent" => cmdres # Len(asked)`), which
  needs that the listener could not store in between (`mutexSig = "caller"`
  exactly in `locked` and `sent`). These are the conjuncts of `LockInv`.
- `ReplyFresh` - `FreshUnlessLate`, from `FreshInv`: in a clean session the only
  answer that can still come is the one to the last request, and a signalled
  caller finds it in the slot. `FreshInv` is proved together with the two above.
- `LockHolds`, `OutstandingFresh` - `LockInv` and `FreshInv` themselves.
- `NoticesKept` - `LatestNoticeKept`, with `NoticeInv`: the caller is in `mutex_rrd_`
  exactly between copying and clearing, and then its copy is what is stored. Without
  that the clearing could remove the mark of a notice stored after the copy.
- `LossIsFinal` - the action property `NoCallAfterLoss`.
- `Implements` - `Spec => RR!Spec`: the initial state maps to the initial state and
  each action to `Open`, `Call`, `Succeed`, `Hangup` or a stutter; `Accept` maps to
  `Succeed` because `Check_cmdID` compared the command IDs and `LockInv` says that
  the last request is the one under way.

`RTMCClient_proofs`:

- `DisciplineHolds` - `LockDiscipline`, the conjunction of the types it needs,
  `ObjectAlive`, `LockReturned` and `CalledByOwner` (an outstanding request is the
  lock owner's). Without the last one, ending a call could leave the phase
  `called`.
- `LockIsSafe`, `LockIsReturned` - `ObjectAlive` and `LockReturned`, consequences.
- `FormatDisciplineHolds` - the conjunction of `LockDiscipline`, `PipelineInv`,
  `FormatInv`, `ExecLayout` and the types they need. `FormatAgreement` is not
  inductive: the controller executes a change of format before the caller sees
  the answer, and it may still hold requests of earlier connections. `FormatInv`
  therefore speaks of the settled formats (the cached ones with the change that
  an unread answer confirms), and `PipelineInv` says why no other request can
  interfere: a connection is established by the answer to its last request, the
  controller answers in order, so that nothing older is left; and whoever stops
  waiting for an answer ends the connection. The run `rtmc_formats` checks both
  as invariants.
- `PipelineHolds`, `FormatsSettled`, `LayoutsAgree`, `FormatsAgree` - its parts
  `PipelineInv`, `FormatInv` and `ExecLayout`, and the consequence `FormatAgreement`.

`RTMCTypes_proofs`:

- `ClientTypesHold` - `FormatDiscipline` with `ClientTypes`, which says of every
  variable what `FormatDiscipline` does not, in particular that the formats in the
  cache, in the inbox and in the controller are defined ones, whatever is
  answered.
- `TypeCorrect` - `TypeOK`, a consequence.
- `ErrorsEndConnection` - the action property `ErrorEndsConnection`, from the same
  step: no thread but the one that moves returns anything, and for each way in
  which a call ends, either the code is another one or the object is deleted. It
  needs the types: with an undefined cached format `RTMC_DisConnect` would return
  `CLIENT_COM_ERR` and keep the object.

`RTMCCalls_proofs`:

- `CallsStayChecked` - the invariant of the refinement: to `ClientTypes` it adds
  `CallInv`, which says that a lock that is kept for ever is held with nobody inside
  a function, and that a call which has sent a request is still what it was checked
  to be: an `RTMC_Connect` on a connection that is not yet established, or a request
  whose argument fits the formats and the model. The checks are made before the
  request is sent and `ClientCalls` promises their outcome when the call returns; in
  between only the caller, under the lock, changes formats and model, and `CallInv`
  carries that across the wait.
- `ClientCallsImplemented` - `Spec => OneAtATime`: the initial state maps to the initial
  state, and every step to one of `ClientCalls` or a stutter. What needs thought are
  the returns: each action that ends a call is matched with its code and its effect.
- `ConnectionUsedInOrder` - `Spec => Channel!Spec`: every step of the client opens,
  calls, succeeds or hangs up as `RequestReply` allows, or leaves the connection alone.
- `CallsAdvanceToReturn` - `CallsAdvance`: `Distance` of a thread, at most 18, falls with
  each of its steps in a call and is raised by nobody else. It counts the requests
  still to come in `RTMC_Connect` (a status with an error asks for its message, and
  only then for the formats) and in the functions that read.

`RequestReturns` of `DDSCommunication_proofs` says the same of `DDS_Send` (at most 6
steps, whatever the listener does) and that the mutex is free whenever the caller
wants it. The two are the part of `CallsReturn` and `CallReturns` that can be proved:
no step is repeated for ever. That a next step is taken is the fairness, and that
one is always possible is left to TLC (`ENABLED`; deadlock is checked in
`rtmc_mixed`).

`RCStatus_proofs`: one inductive invariant, `IInv`. To `TypeOK` and the properties
`Snapshot`, `InfoOfNumber`, `MessageOfNumber` and `CurrentFromAnswer` it adds that the
object was made in the time of the log (`Times`); that a sample or an unread notice
is no older than the object, and an answer to a request for a position no older
than the call (`Samples`); which requests each call may have out (`Places`); and that
a connection copies the position first and the status next (`Learned`). The
properties speak of what has been copied; these say it of what is still on its
way. `TypeCorrect`, `SnapshotTheorem`, `InfoTheorem`, `MessageTheorem`, `CurrentTheorem`
and (from `Learned`) `SessionTheorem` follow.

`ComProperty_proofs`: `IInv` adds to `TypeOK`, `UsesLastOption` and `ConfigurationFixed`
that a check runs without an object and, at the second port, has
found the first one free (`CheckRuns`), and that what the next participant would
be created with is already the last option (`NextConnection`): the properties
speak of objects, and the calls that matter are made without one. `TypeCorrect`,
`LastOptionTheorem`, `FixedTheorem` and the action property
`CheckedTheorem` follow.

`Payload_proofs`:

- `RoundTrip` - a number written by a host of either byte order is read by a host
  of either byte order as itself, from any vector and index that has room for it.
- `LimitsExist` - every model of `rb_model_list` has its three limits.
- `HeardTheorem` - `Heard`: a request under way is `Asking` its call (the invariant),
  and a lemma for each command says that the bytes of `Asking` are those of the
  protocol (`RequestMeans`).
- `TypeCorrect`, `LoadTheorem` - `TypeOK` and `LoadWithinLimits`, from `LoadInv`: in a
  reported connection a model that the client knows is the controller's, unless
  the `RBCheck` that asks for it is under way (`ModelKnown`), and the load in a
  request was within the limits of that model (`Underway`).

`PayloadAnswers_proofs`: `UnderstoodTheorem` - `Understood`. An answer is a set of
fields that do not overlap (`Laid`; lemmas put them one behind the other), each of
which is read as its value (`NumberRead`, `TextRead`); one lemma for each command
says that its decoder looks at these places (`AnswerRead`), and `Whole` that
`Check_exDataSize` lets only the answers pass that are not cut off. The invariant,
`Answering`, keeps what was told beside the answer.

Only model-checked: liveness (`CallReturns`, `ListenerReleased`, `CallsReturn`), which is
out of the prover's reach, and the statements that are violated.

## 6. Not modelled, and the plan

Not modelled:

- the generated DDS types (`DDSCommunicationCore*`, `DDSCommunicationPubSubTypes*`):
  output of Fast DDS-Gen, the serialisation of one structure;
- the demos and the script that wraps openssl: uses of the library, no part of it;
- the log macros: output only.

Abstracted in what is modelled:

- the bits of a value (a value is known by its bytes) and the lengths of strings,
  which are all one size; the answers whose size the code does not check
  (`SYS_REQ_RC_ERRMSG`, the robot model) are taken to be well formed;
- optional outputs (`nullptr` for an output that the caller does not want);
- time: only the order of timeouts; the three seconds of the lock and the five of
  an answer are "late enough";
- the QoS settings beyond what they do to loss and order; the content of the
  security files;
- memory: the list of `getifaddrs` that is not freed.

Order of work:

1. (done) `RequestReply`, `DDSCommunication`, `RTMCApi`, `RTMCClient`, their runs and
   theorems: what matters most, since every function goes this way.
2. (done) `RCStatus`: a number whose message could not be fetched, a notice older than
   an answer.
3. (done) `ComProperty`: partial updates, the checks against the machine.
4. (done) `DataFormat`, `RBWeightInertiaParam`, `Payload`: the contents, and the limits
   against the model of the controller.
5. (done) `ErrorEndsConnection` and the types of `RTMCClient` as theorems; `Understood` as
   a theorem.
6. (done) `ClientCalls`, its refinement by `RTMCClient`, and the measures of the calls.
7. Left: an abstract specification of the status and position cache, which may go
   back to an older status of the same connection when a notice is read late; and
   the lengths of strings as data, which would let the answers without a checked
   size be malformed.
