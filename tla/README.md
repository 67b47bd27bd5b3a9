# TruePass: formal models

TruePass is a password manager: a Qt client (`client/`), a drogon HTTP server
(`server/`) and a common library of cryptographic wrappers (`common/`). The
server keeps accounts, vaults and items in PostgreSQL. It never sees a password
(OPAQUE) or an item in clear (items and keys are sealed by the client). This
directory holds TLA+ models of its protocol state, TLC configurations that check
them, and TLAPS proofs of what matters most.

Contents: [inventory](#1-inventory), [plan](#2-plan),
[models and code](#3-models-and-code), [runs](#4-runs), [proofs](#5-proofs),
[findings](#6-findings), [limits](#7-what-is-not-modelled-and-known-limits),
[how to run](#8-how-to-run).

## 1. Inventory

### Server

**Session lock** (`middlewares/SessionLockMiddleware.h`). State: per HTTP session
one `LockData`, an atomic `ownerId` and a plain `timeout`; one counter of owner
ids. Operations: `invoke` (two compare-exchanges, the write of the timeout, the
next handler), and the response callback (`onLockRelease`). Every `/auth` route
runs under it. Hard: two accesses that are not one atomic step; a lock taken over
after 30 s whose old owner comes back later; a handler that waits for ever.
Correct when: one handler per session for the length of a lease; the lock never
stays held by a request that is gone; a hung handler loses it.

**Session service** (`services/SessionService.cpp`, `models/UserSession.h`,
`models/DeviceBoundContext.cpp`). State: the session's `UserSession` pointer,
the objects (user, cookie id, optional device context with its current challenge)
each under a mutex, and the shared cookie cache. Operations: `authenticate`,
`deauthenticate`, `getAuthenticatedUserId`, `refreshAuthentication`,
`getNextChallenge`, expiry and eviction of cookies. Hard: the pointer is fetched
outside the object's mutex, the cache is inserted into and the session erased
outside it too; `AuthFilter` calls the check outside every session lock. Correct
when: a check lets in only what was valid at some instant of the check; an
answered logout is final; a challenge is good for one refresh; no interleaving
leaves a session logged in with a cookie that does not work.

**Authentication controller** (`controllers/AuthController.cpp`) with **OPAQUE
context** (`services/OpaqueService.cpp`) and **user DAO** (`dao/UserDao.cpp`).
State: a registration and a login context cache by session id, a step machine in
each context, the users table. Operations: start and finish of registration and
login, logout, `getChallenge` and `refresh`. The handlers are coroutines that
wait for the database (one connection, query timeout -1, i.e. none). Hard: state
read before an await and used after it; lookup and erase of a context as two
steps; a start that fails half way; contexts that expire after 300 s; two
sessions registering a name; a connection lost after the INSERT; a step that is
tested before an OPAQUE call and written after it. Correct when: a flow finishes
once, unless two handlers are in the OPAQUE call of one context together; who is
told "registered" owns the account; a logout ends the flows under way; a flow done
by the book succeeds.

**Authentication filter** (`middlewares/AuthFilter.cpp`). Calls the check of the
session service on `/users` and `/vaults` requests and hands the user id to the
controller as an attribute. Hard: the id is used after the controller's awaits.

**Vault and item controllers and DAOs** (`controllers/VaultController.cpp`,
`VaultItemController.cpp`, `dao/VaultDao.cpp`, `VaultItemDao.cpp`,
`UserController.cpp`, `schema.sql`). State: two tables. Operations: create and
list vaults, create, list, read and edit items, read the own profile. Hard:
ownership is a condition of each statement, not of the handler; ids are chosen by
the client; an edit names the item of its body, not of its path; edits carry no
version; a connection may fail before or after a statement. Correct when: no
interleaving lets a user write to or read from another one's vault, and an
answer tells what was done.

**Request readers, responses, start-up** (`server/src/utils/`, `main.cpp`): no state.

### Client

**Network session** (`client/src/network/ServerSession.cpp`). State: the queue of
requests that got a 401 and wait for a refresh. Hard: requests that fail together
share one refresh, a request that was sent again gets a second 401, the queue is
walked by the code that its callbacks may call. Correct when: each callback is
called once and told the truth, and no request waits for a refresh that is not
under way.

**Client authentication** (`client/src/core/ClientAuth.cpp`). State: the OPAQUE
client of the flow, the device binder, whether a login or a refresh is under way.
Operations: registration, login, and the chain challenge, signature, refresh, with
their OPAQUE and TPM steps on workers. Hard: a dozen early returns, each of which
must end its flow; a worker that computes on an object the GUI thread may reset.

**Vault manager** (`client/src/core/VaultManager.cpp`) with the pages that drive it
(`AppController`, `MainVaultPage`, `ItemInfoWidget`, the dialogs) and the two list
models. State: the vaults and items held, one busy flag `m_isWorking`, what each
page shows. Operations: list, add and open vaults; add, open, edit items, toggle a
favourite. Hard: answers that arrive after the user has moved on; which operation
the flag belongs to; optimistic changes. Correct when: what is held and shown
agrees with the server once things are quiet, a request names the vault its item
is in, and nothing is busy or loading for ever.

**Item forms** (`AddItemDialog`, `EditItemDialog` and their four pages) and **items**
(`VaultItem.cpp`, `model/`). State: the inputs, a model they write through a
pointer. Hard: setting a model fires the same signals as typing; a page keeps its
pointer after the model behind it was replaced; a dialog may be closed in two ways,
and an edit confirmed again before it is answered; the numbers of a card's expiry.
Correct when: what is on screen is what is sent and what another device opens, and
what was sent is what is stored.

**Keys** (`MasterKeyManager.cpp`, `Vault.cpp`, `EnvelopeCodec.cpp`). State: master key,
account key, the key and index key of each vault. Hard: a vault's keys are derived
in two places, on the device that makes it and on the one that opens it.

**Helpers**: Base32 and one-time passwords, the password generator and its dialog,
the icons of the item list (`FaviconManager`), DER signatures (`WinTpmProvider`);
`CardValidator` and `QSyncTimer`. **Device binding** is otherwise calls to the TPM.

### Common

Encodings of binary fields (base64, hexadecimal), identifiers, bounded values and
uniform random numbers are the program's own logic. Curves, ciphers, key
derivation and secure memory wrap libraries.

### How they interact

A request of the client goes through the drogon routes. `/auth/*`: session lock,
then `AuthController`, which calls `OpaqueService`, `UserDao` and, at the end of a
login or a logout, `SessionService`. `/users/*` and `/vaults/*`: `AuthFilter`,
which calls `SessionService`, then the controller and its DAO. The server runs
one I/O thread per core (`number_of_threads` 0) and a database thread, so handlers
of one session do run in parallel. The client runs on one thread, but every reply
is a callback and callbacks nest.

The lines at which these things bite are listed in `PROJECT.json` under
"hazards".

## 2. Plan

| module | composes | abstract specification | checked | proved |
|---|---|---|---|---|
| `SessionLock` | - | `SessionLease` | yes | yes |
| `SessionService` | - | `AccountSession` | yes | yes |
| `AuthController` | the lock as "any request may be let in" | - | yes | yes |
| `ClientSession` | `ServerSession`, `ClientAuth`, welcome page, a server that may answer 401 at any time | `RequestPromise` | yes | yes |
| `VaultStore` | `AuthFilter`, three controllers, three DAOs, the tables | `RequestPromise` | yes | yes |
| `VaultClient` | `VaultManager`, pages, dialogs, list models, a server and a network | - | yes | yes |
| `VaultKeys` | `MasterKeyManager`, `Vault`, envelopes | - | in `Items` | yes |
| `Items` | `VaultKeys`, both dialogs and their pages, `VaultItem` | - | yes | yes |
| `Layouts`, `Codecs` | byte layouts, encoders and decoders | their inverse, and the bits they stand for | yes | yes |
| `GeneratePassword`, `Favicons` | dialog and generator; icon cache and rows | - | yes | yes |

What is left: the order of the item list (see section 7) and the sizing of the
cookie cache's timing wheel. Every safety property that a passing run checks is
proved as well; the five about liveness are left to the runs (section 5).

## 3. Models and code

### SessionLock and SessionLease

`SessionLock` is the middleware of one session. A request (`Requests`, one-shot)
walks through `pc`: `Enter` draws the owner id and reads the clock; `Acquire` and
`Contend` are the two outcomes of the first compare-exchange; `OnLocked` compares
with the timeout; `Steal` and `StealFails` are the second compare-exchange;
`SetTimeout` is the plain write after it; `Respond` sends the response;
`Release`, `ReleaseMismatch` and `ClearTimeout` are `onLockRelease`. Each access
to `LockData` is one step. The plain `timeout` is accessed without
synchronisation (a data race). It is one aligned 64-bit word between two atomic
operations on the targets the build produces, so the outcomes are those of the
interleavings.

`raced` and `overlapped` are history. `raced` is set when a request has used one
of the two windows: it compared with the timeout while a winner had not yet
written it, or it took a lock whose last owner had not yet reset the timeout.
`SessionLease` says what a handler may rely on: a lease that is taken over only
after its deadline, or at any time once `raced` holds. The refinement maps
`holder` to the request inside whose id is in `ownerId`.

### SessionService and AccountSession

One HTTP session and its calls of the service, with no lock at all. That is a
superset of what the session lock allows, and what `AuthFilter` really does. A
call consists of the steps the mutexes leave: fetch of the pointer
(`BeginCheck`, `BeginDeauth`, `BeginRefresh`, `BeginChallenge`), the locked block
(`Check`, `Deauth`, `Rotate`, `Challenge` and their refusals), and what is left
outside (`InsertCookie`, `EraseSession`). `Rotate` includes the cookie insertion,
which the code does under the mutex, and the exception it throws when the object
has been cleared. `Expire` and `Evict` are time. A UserSession, a cookie and a
challenge are named after the call that made them (they are random uuids or
bytes). A proof stands for the signature of the challenge it names: `Null` is a
proof that verifies for none.

History variables: `seen` is the set of users the presented cookie opened the
session for since the check began; `verified` the challenge a refresh consumed;
`before`, `revoked` and `late` are the cookies a logout must have ended and the
checks begun after its answer.

`AccountSession` is the session without objects, caches or mutexes: one account,
at most one cookie, fresh when issued.

### AuthController

The handlers of one session, one step per cache access, OPAQUE call and await.
The caches are `regCache` and `loginCache`, a context is named after the start
request that made it, `step` is its `OpaqueContext::m_currentStep`. Any request
may be let in at any time: the session lock can be lost (see the findings), so
the model does not take it for granted, and records in `overlapped` which
requests did not have the session to themselves. A finish message is named after
the start answer it was computed from. It stands for the OPAQUE message and the
device proof together. OPAQUE accepts it for exactly that context, and any
well-formed record for a registration.

`OpaqueContext::finishLogin` tests `m_currentStep` before it calls OPAQUE
(`FinishLogin`) and writes it after the call (`OpaqueLogin`), and no lock is held
between the two; `FinishRegistration` and `OpaqueRegister` are the same for a
registration, whose refused test also writes the step (`RegisterInvalid`). As the
lookup of a context and its erasure are two steps as well, two handlers on parallel
threads may be in the call with one context. `raced`, which is history, holds those
that were. What two calls on one context do to each other is not defined, so each
of them has any of the outcomes of the call, but a message made for another context
never passes. `Authenticate` needs the session key, which the context gives at
step "loginFinished" only.

`accounts` is the users table with its
unique name: `InsertUser` is one statement whose answer may be lost.
`ContextTimeout` is the 300 s of the caches and `RegisterElsewhere` another
session.

### ClientSession and RequestPromise

The registration and the login flow are each at one of the stages of `flow`; a
handler moves its flow on or ends it by `OnRegisterFailed`, `OnLoginFailed` or
`OnLoginSuccess`, which is where every early return of the code ends. `Click` is
`LoadingButton::onClicked` with what `LoginWidget`, `RegisterWidget`,
`AppController` and `ClientAuth` may refuse before it returns (`ClickRefused`).
`opaque` says for which flow `m_opaqueClient` was made, because workers hold it by
reference.

A request of the application is `sent`, then `answered`, and then its callback is
called (`returned`) or it is `parked` in `pendingRequests`. A cookie is either the
one the server accepts or not: `jar`, `reply` (the reply of a refresh under way)
and `fresh` (the requests that carry it) hold one each. `refresh` counts the
refreshes at each step, so that two at once would be seen.

`RequestPromise` is what the caller of a request relies on: the callback is
called once, the server has run the request once at most, "none" means that it
has and "unauthorized" that it has not. `VaultStore` implements the same promise
for its side of a request.

### VaultStore

One request per call: `Arrive`, `DoFilter` (which takes the user out of the
session), then the handler, whose statement is one step (`ExecuteWrite`,
`ExecuteRead`, or `RefuseWrite` and `ReadFails` when it does nothing) and whose
answer is another (`Respond`, or `ResultLost` when the connection fails in
between). Logins and logouts change `session` at any time, as these routes take no
lock. The statements are operators of their own, with the conditions of the SQL
text: `InsertItem`, `UpdateItem`, `ItemOf` and so on. `rows[i].by`, who wrote the
row last, is history. What a blob holds is not modelled, so `BadRequest` may
refuse any body.

### VaultClient

All of the client runs on one thread: an action is a click, or the answer to a
request, with every slot it reaches through signals. `requests` are those under way,
with what they carry; `Execute` is the server, `LoseAnswer` the network.
`OnResult` dispatches an answer to the handler of its operation. `vaultList`,
`selected`, `list`, `info`, `editDialog`, `addItemDialog` and `addVaultDialog` are
what is on screen. `list.rows` is the number of rows an item has: the order of the
rows is left out. A name stands for its hash, and an encrypted item for its name
and favourite flag, since both are re-sent with every edit.

### VaultKeys and Items

Cryptography is symbolic: a key is the term that derives it, and an envelope
opens with the key it was sealed with. `Register` and `Login` are what the two
flows leave in `MasterKeyManager`; a registration draws its account key before
the server is asked, so two devices may try and one of them keeps a key that is
never used. `NewVault` and `DecryptedVault` are the two places where the keys of a
vault are derived.

In `Items` the details of an item are a kind, one text for all of its text inputs,
and what makes the kind special (`NoPassword`, `NoExpiry`, `NoDate` and `NoFields`
when it is not set). `add` and `edit` are the dialogs, each with four
pages of inputs and a model. `ShowDetails` is `setModel` of a page with the signals
it fires. `Written` is what a page writes through its pointer when other details
stand there by now (undefined behaviour: some text of those details changes).
`DeserializeCard` gives every outcome that members without a value allow.
A change of an input writes that input's detail and no other (`FromText`,
`FromExtra`), except on a note's page, which is collected whole (`FromNote`).
`astray` marks the dialogs in the two known states in which the page and the model
part.

The name of a new item is apart from its details: `OnConfirmClicked` checks the one
in the input and `OnAddItem` (`AppController`) that of the model, which it sends.
The window's button (`CloseAdd`) gives the dialog a new model and leaves its inputs,
so the two may differ: `nameLost` holds until the name is typed again. The note that
every item has, whatever its kind, goes the same way and is left out (an empty one
is accepted, section 7). Escape
(`RejectAdd`) is no close event and keeps everything.

The edit dialog may be confirmed again before the first edit is answered:
`edit.sent` are the edits under way, `MaxSent` at most, answered in any order
(`OnEditItemResult`). An answer hides the dialog unless `ItemInfoWidget` shows
another item by then, which is any of the two here: the selection is a part of
`VaultClient`.

### Layouts, Codecs, GeneratePassword, Favicons

`Layouts` and `Codecs` are operators: the tables and tail cases of `base64.h` (the
little-endian tables, which the build takes), the look-up decoder of `hex.cpp`, the
prefix that says which of the two a field is in, `uuid.h`, Base32, the envelope's
bytes, the DER form of a signature, the digits of a one-time password. `EncodeTail1`
and `EncodeTail2` are the two tails of base64, `NumPadding` the count of its padding,
a `Reader` the `BufferReader` with what it has handed out. `Base32Step` and `ReadPair`
are one turn each of the two loops that carry a state from character to character, and
`Base32Read` and `ReadPairs` that state after every turn, as recursive functions. Each is
checked on every byte string or text over a sample of bytes and characters,
against what it must invert or the bits it must stand for; `CodecSpec` makes the
byte strings and texts one element at a time, so that the checks are invariants of
it.

`GeneratePassword` is the dialog with the settings on screen, the boxes it has
disabled and the password it shows. When the random source fails, the exception is
caught and told in a modal message, which takes every click (`Ready`); the label
keeps the password before it until the message is closed (`OnMessageClosed`), is
`Empty` then, and the handler of the boxes goes on where it was. `outcome` says
which of these holds. `Favicons` is the icon cache in memory and on
disk, the loads under way at each provider, and the icons of the rows.

## 4. Runs

| run | module, cfg | expected | distinct states |
|---|---|---|---|
| `session_lock` | `SessionLock`, `SessionLock.cfg` | pass | 397,617 |
| `session_lock_windows` | `SessionLock`, `SessionLockWindows.cfg` | violation | - |
| `session_lock_sequential` | `SessionLock`, `SessionLockSequential.cfg` | violation | - |
| `session_service` | `MCSessionService`, `SessionService.cfg` | pass | 180,478 |
| `auth_controller` | `MCAuthController`, `AuthController.cfg` | pass | 878,572 |
| `client_session` | `ClientSession`, `ClientSession.cfg` | pass | 25,327 |
| `vault_client` | `MCVaultClient`, `VaultClient.cfg` | pass | 295,911 |
| `vault_client_one_operation` | `MCVaultClient`, `VaultClientOneOperation.cfg` | violation | - |
| `vault_store` | `MCVaultStore`, `VaultStore.cfg` | pass | about 125,000 |
| `helpers` | `MCHelpers`, `Helpers.cfg` | pass | 135,375 |
| `items` | `MCItems`, `Items.cfg` | pass | 1,324,381 |
| `card_expiry` | `MCItems`, `CardExpiry.cfg` | violation | - |

**session_lock.** `LockNeverLeaks`: a held lock always has a holder that will
come to its release, after any order of steals and late releases.
`LeaseExclusionUnlessRaced`: as long as no window has been used, two requests
inside are so only because one's lease is over. `HungHandlerLosesLock`
(liveness): an owner that never answers loses the lock to a request that arrives
after the timeout. `ImplementsLease`: the refinement. Bounds: 3 requests (an
owner, a thief, and a third that meets the late release), `LockTimeout` 1 and
`MaxClock` 3 (before, at and after a deadline, then a second lease). No symmetry,
because of the liveness property. The clock is bounded by `MaxClock`, owner ids
by the number of requests.

**session_service.** `AdmissionLinearizable`, `LogoutRevokes`,
`ChallengeUsedOnce`, `SessionUsable`, `ImplementsAccountSession`, as described
above. Bounds: 4 calls, which is a login, a logout or second login, a refresh and
a check overlapping, and 2 users, so that a session may change hands. Calls and
users are symmetric; no property here is a liveness property.

**auth_controller.** `FlowFinishesOnce`: of two finish requests with one context, or
a retry of one, one registers at most, and both log in only if they were in the
OPAQUE call together, each past the test of the step before either wrote it. The
lookup and the erasure of the context may be interleaved in any way beside that.
Between two registrations that both pass, the unique name decides.
`RegisteredOwnsAccount`: the success answer is given to the winner of the unique
index only. `LogoutEndsFlows`: a
login flow begun before an answered logout logs nobody in afterwards, unless one
of its own requests was overlapped, that is, the session lock had been lost to
another request. `FlowCompletes`: a finish right after its own start, neither
overlapped nor expired, is not told that its flow does not exist or that its
message is wrong. The last two leave overlapped requests out: what a lost lock costs
there is in section 7. Bounds: 3 requests (start, logout or other start, finish), 2
users. Three requests are the fewest that can go wrong in these ways: two
finishes of one start, or a logout inside a flow.

**client_session.** `PendingAwaitRefresh`: a request waits only while exactly one
refresh is under way, whichever of its ten or so ends it takes.
`WorkerOwnsClient`: no flow resets or replaces the OPAQUE client or the device
binder a worker of another one computes on. `ImplementsRequests`: the refinement
of `RequestPromise`, with cookies that expire and are rotated at any time.
`ClickAnswered`: every button stops loading. `AnsweredOnceQuiet`: every request is
answered, provided cookies are not rotated for ever. Without that proviso it is
false: a request is resent with the flags it had, and two requests can outdate
each other's cookie again and again. Bounds: 3 requests, enough for one that
causes a refresh, one that joins it and one that comes late; every other variable
is finite as it is.

**vault_client.** `RowsAreHeld`: the item list shows only items the manager holds,
when answers for several vaults overtake each other. `ClientAgreesWithServer`: an
item whose requests did not overlap one another and did not fail after they
were executed is held as the server has it (`unsure` collects the others: the code
makes no promise for them). `PutsNameTheirVault`: an edit or toggle is sent to the
vault the item is in, though the page may show another by then. `WorkEnds` and
`LoadingEnds`: no flag or page stays busy for ever. Bounds: 3 vaults and 3 items
(two of each exist, one can be made), 2 names so that they can clash, 2 requests
under way, 6 clicks: select, open, edit, confirm, and two that interfere.

**vault_store.** `OwnersOnly`: whoever wrote an item owns its vault.
`AnswersAreOwn`: an answer holds rows of the user the filter saw.
`ItemsStayInVault` (action property): no edit moves an item. `ImplementsPromise`:
200 means done, 401 means not. Bounds: 2 users, 2 vaults and items of which one each
exists, 2 name hashes, 1 session that changes hands, 2 calls: the one statement of a
handler can only be separated from its filter by the other's.

**helpers.** Three components without common state, one explored at a time.
`EncodingsInvert`: binary fields, envelopes and signatures are read back as they
were written. `AcceptedTextDecodes`: a base64, Base32, identifier or hexadecimal
text is accepted exactly when it should be and stands for its bits, and a one-time
password has the digits of its hash. Inputs of up to 4 bytes and 8 characters, which covers every tail case of a 3-byte or 4-character group after a
full group (two groups in base64), over bytes and characters chosen for their
bits; and the fixed lengths of identifiers, signatures (120 to 124 bytes, where the
DER length takes a second byte) and envelopes. `ShownPasswordFits`: the password
shown fits the settings on screen after any clicks, and is empty, never the one of
the settings before, if the random source failed when they were last switched (while
its message is open the old one is behind it, and cannot be confirmed); 3 boxes, lengths 1 and 2 and word
counts 1 and 3 stand for the four boxes and the sliders' ranges. `RowsShowIcons`: a
row shows its site's icon as soon as there is one; 2 rows, 3 names of which two
share a file and one is not its own domain, and 3 providers instead of 4.

**items.** `DevicesAgree`: all devices have the same keys for a vault they opened.
`FormShowsModel`: the page on screen shows what its model holds, in a dialog that is
not `astray`, and so does the name of a new item, which the model has not at all
while it is lost; the expiry of a card, never put into its input, and an identity
without a date are left out. `EditKeepsUntouched`:
opening and confirming an item changes nothing. `OpensAsMeant`: an item opens on every
device as the model it was made of, whichever of two edits is answered first, and a
model that has lost its name is not stored. Bounds: 2 devices, 1 vault, 2 items (so that
the edit page has shown another one before), 2 texts, 2 expiries (one of which its
input mask garbles), 1 date besides today's, 2 changes of inputs (changes of a new
item's name come on top), 1 custom field, 2 edits under way.
`MCItems` fills in forms once both devices have opened the vault, on the device
that registered, in a vault the other one made, one dialog after the other. While
its answer is awaited the add dialog is at most closed; while one edit is awaited
the edit dialog does anything but open the generator, and while two are, it is at
most closed.

The systems stop when every request has been sent, when the user has nothing left
to do or the inputs are at their bound, so deadlock is not checked, except in
`vault_store`, where sessions never stop.

**Fairness.** `SessionLock`: a thread that has begun `invoke` or the response callback
goes on, weak fairness of `Middleware(r)`. The handler is not assumed to answer,
because the configured query timeout is -1, and neither are new requests or the
clock. `ClientSession` and `VaultClient`: a worker that has been started ends, a request
that was sent is answered or fails, and the event loop delivers what arrived. The
second of these is an assumption about the environment: the client sets no transfer
timeout, so a server that keeps a connection open without ever answering (see
`session_lock`) does leave a button loading. No click, expiry or choice between
success and failure is assumed.

Every property has a mutant of the code's definitions in `PROJECT.json` that
breaks it; they are the definitions marked "Mutant of" next to the one they
change.

## 5. Proofs

The `_proofs` modules prove, for every value of the constants (any number of
requests, calls, users, vaults, items, devices and clicks, any lock timeout):

| theorem | module | states |
|---|---|---|
| `TypeCorrect`, `LockIsNeverLeaked`, `ExclusionUnlessRaced` | `SessionLock_proofs` | the three invariants of `session_lock` |
| `Refinement` | `SessionLock_proofs` | `Spec => ImplementsLease` |
| `TypeCorrect`, `LogoutIsFinal`, `ChallengesAreOneShot`, `SessionStaysUsable` | `SessionService_proofs` | the invariants of `session_service` |
| `AdmissionIsLinearizable` | `SessionService_proofs` | its action property |
| `Refinement` | `SessionService_proofs` | `Spec => ImplementsAccountSession` |
| `TypeCorrect`, `Once`, `OwnsAccount`, `Completes` | `AuthController_proofs` | the invariants of `auth_controller` |
| `LogoutEnds` | `AuthController_proofs` | its action property |
| `TypeCorrect`, `Ownership`, `AnswersOwned` | `VaultStore_proofs` | the invariants of `vault_store` |
| `Stay` | `VaultStore_proofs` | its action property |
| `Refinement` | `VaultStore_proofs` | `Spec => ImplementsPromise` |
| `TypeCorrect`, `PendingAwait`, `WorkersOwn` | `ClientSession_proofs` | the invariants of `client_session` |
| `Refinement` | `ClientSession_proofs` | `Spec => ImplementsRequests` |
| `RowsHeld`, `PutsNamed`, `Agreement` | `VaultClient_proofs` | the three invariants of `vault_client` |
| `KeysAgree`, `FormsShowTheirModels`, `UntouchedItemsKept`, `ItemsOpenAsMeant` | `Items_proofs` | the four invariants of `items` |
| `EncodingsReadBack`, `TextsDecode`, `PasswordsFit`, `IconsShown` | `Helpers_proofs` | the four invariants of `helpers` |

Assumptions on the constants: `LockAssumption`, `ServiceAssumption`,
`AuthAssumption` and `NobodyAssumption` say that the "none" values are not requests,
calls or users, and that timeout and clock bound are numbers; `TablesAssumption`
says that the tables the store starts from satisfy the constraints of
`schema.sql`; `StoredAssumption` and `BoundAssumption` that what an account has stored
are items, and that there may be a request. `ClientSession` assumes nothing.
`ItemsAssumption` says that the device with the dialogs is one of the account's,
that no vault has the empty identifier (it is a random uuid) and that the mask of an
expiry takes digits only; `DialogAssumption` that the check boxes are finitely many, of which
two or more are checked at first (the form checks all but that of the special
characters), and that the sliders have positions, none of them 0;
`IconsAssumption` that names have a domain and a cache file and that there is a
provider; `CodecAssumption` that the samples are bytes.

Each proof is one inductive invariant (`IInv`; `KeysInv` and `FormsInv` in
`Items_proofs`; `BytesInv`, `DialogInv` and `IconsInv` in `Helpers_proofs`), a lemma for each
of its conjuncts or actions, and a last step of temporal logic. TLC checks the
invariants on the instances of the runs, too.

*Lock.* The safety invariants are not inductive. `IInv` adds `IdsInv` (owner ids
are drawn once each, and an id seen in the lock is that of a request that had won
it, so the second compare-exchange cannot succeed for a wrong owner) and
`QuietInv`, which holds while `raced` is false (the timeout is the owner's
deadline; whoever has lost the lock or is about to lose it is past its deadline).
`QuietInv` is where the two windows show: without `raced` the reset of the
timeout and its late publication break it.

*Service.* `IInv` adds `PtrInv` (pointers lead to objects that exist), `CookieInv`
(a cookie id is in one object at most, and drawn), `ChallengeInv` (a challenge is
in one object at most and gone once consumed), `CheckInv` (while the object a
check has fetched is opened by its cookie, `seen` has the user), `RevokeInv` (no
object that a later request can fetch has a revoked cookie), and `UsableInv`
(the session's object is usable, or a logout is about to erase it).

*Controller.* `TookInv` (past the lookup a request has a context), `OnceInv` (two
finishes of a login that both got past the call on one context were in it together,
and once one of them is past it the step says so to whoever tests it next), `RaceInv`
(who was in the call beside another overlapped with it), `RegInv` (the row of a name is that of the registration whose INSERT won),
`OverlapInv` (a request that overlapped none runs alone and is the last let in),
`BookInv` (along a flow by the book the cache holds its context, at the right
step) and `LogoutInv` (once the logout has removed a flow it is nowhere: in no
cache, and with no request that goes on, other than overlapped ones). `LogoutEnds`
and `Completes` are about requests that had the session to themselves, as the
properties are.

*Store.* `Progress` says how far each call is: before its statement it has done and
learnt nothing, after it the statement has run once. That rows stay with their vault's owner needs `TypeOK`'s
foreign keys and nothing about the sessions: the user in a statement is the one the
filter saw, whoever is logged in by then.

*Network session.* `FlowInv` (the OPAQUE client is that of the flow under way, and
only a client that is logged in refreshes) and `RequestInv` (a request that goes
round again has not been run). With them each handler is an action of
`RequestPromise` or a stutter.

*Vault manager.* `RequestInv` says what an answer may hold: an item that the server
has in the vault named. It is preserved because the server never moves an item
(theorem `Stay`), and gives `HeldInv`, the same of every item held. `RowsInv` adds
that an item whose addition is under way has one row at most, whence the bound of
two. `AgreeInv` is the argument for `ClientAgreesWithServer`. For an item that is not
unsure: while an edit or toggle of it is under way, no other request is that could
change it at either end (`PutInv`), and the server has what the request carries once
it was executed, what the client holds before; and an answer on its way has the item
as the server has it (`AnswerInv`). Each overlap that `Overlaps` names is one that
this argument needs: leaving one out breaks `PutInv`.

*Keys.* `AccountInv` (past its login a device has the account key that the server keeps
wrapped) and `VaultInv` (what a device holds of a vault is the server's row, and if
opened has the keys that follow from it). Keys never change once opened, which
is why `MCItems` may fill in its forms after both devices have opened the vault.

*Forms.* `AddInv` and `EditInv` say of a dialog that is not `astray` that the page in
front has the model behind it (`InStep`) and that each input of it is what the
model has (with the exceptions of the property: the expiry of a card, an identity
without a date), of the add dialog that its model has the name on screen or has lost
it (`NameFits`), of every item sent that it has a name, and of an edit dialog that its model is the one opened until something is
typed (a date of birth excepted, see section 7). Each slot that writes the model is a
lemma: it changes what its input shows and nothing else. `setModel` is the hard
one, since the inputs it sets fire the slots of typing one after the other. It
leaves page and model equal because the
page is given the new model before its inputs are touched, and each of its steps
writes back a value the model has already (a note's page writes nothing meanwhile).
`StoredInv` says that an item is `CreateFromModel` of the model it was made of, with
the keys of its vault at the device with the forms, whichever of the edits under way
was answered last, and that the model has a name. With `KeysInv` every
device that opened the vault opens it, and that it reads the same model is a case for
each kind of item (`DeserializeData` of `SerializeData`). The theorems are about
`Spec` of `Items`: both dialogs at once, forms filled in while keys still change, any
number of items and texts. What `MCItems` leaves out for the sake of the run's size is
covered here.

*Password dialog.* `OneStaysChecked`: some class is checked, and if only one is, its box is
disabled. That is what keeps `CharacterSet` from being empty when the next password
is made, and it holds between the handlers only, not inside them: the
password is made before the boxes are disabled, and if the random source fails, its
message is open in between. `LabelFollows` says that the label shows one of the
passwords of the settings on screen, or after a failure that was told nothing.

*Icons.* `LoadsInv`: of a domain being loaded at most one provider's answer is awaited,
and the requests sent are one to each provider up to that one; of every other domain
none is awaited. `RowsInv`: a row whose name is its own domain has asked for its icon,
and shows the site's exactly when the cache has it.

*Codecs.* These are facts about sequences of any length, not about a machine: the
invariant is that `bytes` are bytes and `text` a sequence. Base64 is read back group by group: the entries of
four good characters add up to less than `BadChar`, and to the three bytes, whose
tails are groups filled with zeros. Padding is found where it was put because no
character of a group is `Pad`. A hexadecimal pair is one sum. An envelope
is read piece by piece, each `ReadBytes` leaving what comes after. The number in a signature
loses its leading zeros up to the first byte that is not zero, which exists by the
well-foundedness of the naturals (`Smallest`), and keeps its value whether or not a
zero has to be put in front for the sign.

`TextsDecode` is the other direction, from a text of any length over any characters.
A sum of entries is below `BadChar` only if each of its characters is good
(`SumsAreGood`), so an accepted base64 text has padding nowhere but at its end. What
it stands for is defined by `BitsOf` and `BytesOf`, which know neither groups nor
tables: each byte there is a sum of eight bits of one, two or three characters
(`SextetsAddUp`, `QuintetsAddUp`, `BitsAddUp`), and group `g` of the decoder is bytes
`3g - 2` to `3g` of it (`BodyIs`, `RestIs`, `Base64DataIs`).

Base32 and identifiers are read by loops, in the model recursive functions
(`Base32Read`, `ReadPairs`). The induction theorems of the library cannot be used for
them, but are not needed. Such a function is a `CHOOSE` of what satisfies its
equation. `LoopRuns` shows that something does, a run of the loop, as long as its
steps stay in a set of states; `Reaches` that what holds before the first
step and after one more holds after all of them, since the least number at which it
failed would contradict it (`Smallest`). The loop invariants are `HasRead` (the
bytes complete so far are those of the bits, and the buffer holds the bits of the
last three characters) and `PairsReadSo` (the bytes of the pairs so far, and the
second character of a pair is not read again). A new identifier is taken through the
latter dash by dash and group by group.

Only model-checked: the liveness properties `HungHandlerLosesLock`, `ClickAnswered`,
`AnsweredOnceQuiet`, `WorkEnds`, `LoadingEnds` (liveness under fairness is out of the
prover's reach).

## 6. Findings

1. `session_lock_windows`. A request that contends between another one's
   winning of `ownerId` and its write of `timeout` compares with the epoch or
   with a stale value, finds the lock expired and takes it over. Two handlers of
   one session then run at once, both within their 30 s, although the middleware
   answers that a session is locked by another request. The reset of the timeout
   after the release is the second such window.
2. `session_lock_sequential`. The response is sent before the lock is released,
   so a client that sends one request at a time can have its next request
   answered "locked by another request" by the lock of its own previous one.
3. `vault_client_one_operation`. The vault manager refuses an operation while
   another is under way, but the refusal also resets `m_isWorking`
   (`VaultManager.cpp:93`, `stopWorking` is true by default), so the click after
   the refused one starts a second operation beside the first.
4. `card_expiry`. A card without an expiry date is stored with month and year 0.
   `deserializeCardData` gives them to `setExpirationDate`, which ignores such a
   month; the two members of the new model never get a value
   (`VaultItem.cpp:215`), and the card opens with whatever expiry was in memory.

The quoted lines are in `PROJECT.json`.

`auth_controller` shows one more, which has no run of its own: the exceptions of
`OpaqueContext` say "not started or already completed" (`OpaqueService.cpp:85` and
`:121`), but `m_currentStep` is tested before the OPAQUE call and written after it,
without a lock. Two handlers that share a context, because the session lock was lost
(finding 1) and both looked it up before either erased it, may both pass the test,
and two logins may both succeed. `FlowFinishesOnce` allows exactly this (`raced`).
Two registrations may both pass as well, but the unique name lets one INSERT in.

## 7. What is not modelled, and known limits

Not modelled, because it is a library, pure I/O or a matter of looks:

- OPAQUE, sealing, signatures and key derivation (symbolic in `VaultKeys`, one
  outcome or another in `ClientSession`); curves, ciphers and secure memory; the
  calls to the TPM; exceptions from constructors of libraries.
- Parsing of requests and JSON (a request passes or not), styling, layout, copying
  to the clipboard, the one-second timer, vendored and generated code other than the
  two encoders. Of these the AVX2 path of `hex.cpp` and the big-endian tables of
  `base64.h` are not what the build takes.
- The order of the rows of the item list and the search filter of its proxy.
  `VaultItemListModel.cpp:119` updates an item in place: after a rename the list is
  not sorted and the next insertion searches it as if it were. A property about it
  would be false in every run, and no text of the repository states one.
- The sizing of the cookie cache's timing wheel (`SessionService.cpp:51`): the
  wheel belongs to the framework. For some timeouts it evicts a cookie early; the
  model's eviction follows expiry, as with the configured default.
- The estimate of entropy of uploaded blobs (`VaultItemController.cpp:44`), which is
  real arithmetic. Honest blobs above some 30 KB do not pass it.
- The tables are those of `schema.sql`, the statements those of the DAOs, except for one
  name: `VaultDao.cpp:18` and `:46` call the column of a vault's key `protected_key`,
  which `schema.sql:21` calls `protected_vault_key`. On a database made from that file
  every such statement fails, which is `RefuseWrite` or `ReadFails` each time. The
  model is of a database whose column has the name the code uses.
- A server restart loses every session, cache and lock at once, which are the
  initial states of their modules; tables are arbitrary at the start. The client
  keeps nothing but icons on disk.

Simplified: a request that the lock rejects has no effect and is not an action of
`AuthController`; its `getChallenge` and `refresh` only wrap the service. One
cookie is current in `ClientSession`. `VaultClient` has one user and one client;
a second client is one of the calls of `VaultStore`, where edits carry no
version and the later of two overwrites the earlier. Two copies of a dialog's nested
event loop (message boxes shown inside a slot) are not modelled, except the
password dialog's: `VaultManager.cpp:706`
emits success before it resets the flag, which such a loop would show.
`CardValidator` and the branch of `ClientAuth` for an empty signature are not
reached by other code.

Behaviour the models show, and which no text of the repository contradicts, so
that it is not listed as a finding:

- Edits and toggles do not set `m_isWorking`, so they overlap with anything; a
  toggle changes the star at once, and one that fails leaves it changed
  (`ItemInfoWidget.cpp:100`).
- A list of vaults that arrives late drops a vault added meanwhile from the client's
  list, and an item in its vault's answer and then confirmed as added has two rows.
- The add dialog keeps loading when no vault is selected at its confirmation.
- Closing the add dialog by its window button makes a new model but keeps the
  inputs; the pages keep pointers into the model before it. The password generator
  writes to a page by a pointer taken when it was opened. `astray` marks both. An item
  confirmed after that, its name still in the input, is refused with "Invalid item
  name."; once the name is typed again, the note and the details that are still on
  screen are dropped without a word.
- When the session lock is lost, a login that resumes after a logout logs in, and a
  start that resumes late, or that fails, removes the context of a newer flow, whose
  finish is then refused. `LogoutEndsFlows` and `FlowCompletes` leave these out.
- An edit confirmed twice is sent twice, and the answers may come in either order:
  what is stored is one of the two models, whole.
- A failure of the random source leaves an empty password in the generator's dialog,
  which can be confirmed.
- A card's expiry cannot be removed in its form, whose input never shows the
  expiry of the card but what was typed there last; and in its mask a zero is a
  blank, so that 10/30 is read as 1/3. A date of birth that is left alone becomes today's.
- A base64 or Base32 text is accepted when its last character has bits that belong to
  no byte, so several texts stand for the same bytes; `AcceptedTextDecodes` says what
  an accepted text stands for, not that the bytes are written that way, and of
  hexadecimal text only that the code accepts any of even length.
- `uuid` texts may have dashes anywhere, the decoder of hexadecimal text accepts
  some characters that are no digits, and rows of names that begin with "www.www."
  are never told of their icon.

## 8. How to run

In this directory, `tlc -workers 2 -config X.cfg M` for each pair of section 4:

| run | about |
|---|---|
| `session_lock`, `session_service` | 1 to 2 minutes, 10 s |
| `auth_controller` | 30 s |
| `client_session`, `vault_store` | 5 s each |
| `vault_client` | 1 minute |
| `helpers` | 35 s |
| `items` | 1.5 minutes |
| the four runs that end in a violation | seconds |

and `tlapm M_proofs.tla` for each of the eight proof modules. From nothing,
`Helpers_proofs` takes about five minutes, `SessionService_proofs`, `AuthController_proofs`
and `Items_proofs` one to three, the others less than half a minute.
