# A formal model of decentid

decentid keeps a self-sovereign identity in one file: a chain of signed events,
the document replayed from it, and a ring of private keys. Notes, attestations and
manifests lie beside it; a web console and a set of commands work on them, and a
libp2p resolver shows the public part to others. This directory holds TLA+ models
of that program, the TLC configurations that check them on small instances, and
TLAPS proofs of theorems that hold for every value of the constants.

The models are written from the code under `src/`. Where the code disagrees with
its documents, the models follow the code and a run shows the disagreement.

Checking: `tlc -config chain.cfg MCIdentityChain.tla` and so on, one command per
row of the table of runs; `tlapm IdentityChain_proofs.tla` and so on for proofs.

## 1. The system

### Components

| Component | Source | State | Operations |
|---|---|---|---|
| Event chain and document | `internal/identity/events.go` | `Events`, `Document` of an `Identity` | `New`, `UpdateProfile`, `Add{Public,Private}MemoryRoot`, `AddDevice`, `RevokeDevice`, `RotateRoot`, `AttachAttestationRef`, `ReplayState`, `VerifyState` |
| Key ring | `internal/identity/keys.go` | `LocalKeys`, three preferred key ids | `FromLocal`, `ExportLocal`, lookup of private keys |
| Storage | `internal/storage/storage.go` | the identity file, `<cid>.json` files | `LoadIdentity`, `SaveIdentity`, `WriteJSON`, `StoreReferencedObjects` |
| Service | `internal/app/service.go` | the path of the file, the publication slot, one mutex | one method per feature: load, change, save |
| Command line | `internal/cli/node.go` | none | the same load, change, save, one process per command |
| Web console | `internal/web` | none of its own | one goroutine per request, calling the service |
| Publication | `service.go` `StartPublish`, `p2p/resolver.go` | `publishResolver`, `publishCancel`, a host and topic per resolver | build, publish, install, expire, close |
| Exchange of states | `internal/p2p/resolver.go`, `codec.go` | caches of states and objects | publish, subscribe, resolve a state, resolve an object |
| Authentication | `internal/auth/challenge.go` | none: the challenge travels | create, sign, verify |
| Attestations | `internal/attestation/attestation.go` | none: the object travels | create, sign, verify |
| Notes and manifests | `internal/memory/objects.go` | none: the object travels | create, encrypt, CID |
| Primitives, types, pages | `internal/crypto`, `pkg/types`, `web/static`, `web/templates` | none | |

### How they interact

Every operation that changes an identity follows one pattern: `LoadIdentity` reads
and verifies the whole file, a method of `Identity` appends a signed event to the
copy in memory and replays the entire chain, and `SaveIdentity` writes the whole
file back. Requests of the console run concurrently, commands run beside it, and
the mutex of the service covers its path and its publication slot but not the
file. Publication starts a resolver per request and keeps one in the slot.
Authentication and attestations only read the identity; their verifiers see a
public state that was exported or published at some earlier time.

### What is hard about it, and what makes it correct

- **Chain.** Seven kinds of change in any order, a wall clock that may be set back,
  a fresh key per rotation, methods that change the object *before* the replay that
  may reject the change. Correct when: replay accepts exactly the sound chains and
  computes what they mean; what was revoked stays revoked; a saved key ring fits
  the saved document; a call that failed leaves nothing that can be saved.
- **Files.** Read-modify-write without a lock, `os.WriteFile` that truncates and
  then writes, several files per operation, crashes and write errors anywhere.
  Correct when: what the identity refers to is on disk, what was acknowledged
  stays, and with one caller the file is an append-only log.
- **Publication.** Requests overlapping with each other, with expiry, failure and
  with the goroutines of earlier requests. Correct when: one publication is on
  line at most, and every one ends and is cleaned up.
- **What is published.** Files read one after the other while callers write them,
  memories whose files come after their event. Correct when: nothing private is
  offered, and what a peer accepts is whole and referred to by the state.
- **Notes.** Private notes outlive the keys around them: rotations, a revoked
  encryption key, a restored backup. Correct when: the owner can always read them.
- **Paths.** The console works on one path that requests read and others replace.
  Correct when: keys and notes of an identity never end up beside another's.
- **Verification by others.** Outdated states, revocation and rotation between
  issuing and verifying, expiry. Correct when: what a verifier accepts is what
  the chain it holds says, and an owner can always prove an identity that has a
  device left.
- **Exchange of states.** Messages late, lost and overtaken, an older state after a
  newer one, relays, answers that are never compared with the question, a codec
  that changes the type of what was signed, reads without a deadline. Correct when:
  what is cached was published by its owner, an answer is about what was asked, and
  every question ends.

The hazards are listed one by one, with the line where each bites and the
properties that watch it, in `PROJECT.json`.

## 2. The modules

| Module | Models | Extends |
|---|---|---|
| `IdentityChain` | one identity: chain, document, key ring, its file, one session at a time | |
| `Verification` | challenges, responses, attestations against exported states | `IdentityChain` |
| `Notes` | public and private notes across key changes, saves and restores | `IdentityChain` |
| `IdentityStore` | the files under concurrent callers, errors and crashes | |
| `Publication` | what a publication offers, read while callers write | `IdentityStore` |
| `PublishSlot` | `StartPublish`, its goroutines and the resolvers' lives | |
| `ResolverExchange` | states between resolvers: topics, streams, caches, the codec | |
| `Console` | requests and commands over several identity files, and the path | |
| `IdentityLog` | abstract: the file as an append-only log with create, export, restore | |
| `StateExchange` | abstract: who may know which published state | |
| `MC...` | symmetry for TLC | the module it names |
| `..._proofs` | theorems and proofs | the module it names |

The parts meet as follows. `IdentityStore` takes from `IdentityChain` that a chain
is what matters of an identity and that a method on the copy in memory is atomic
(it touches nothing shared); it leaves out what a chain means, which
`IdentityChain` covers without concurrency. `Verification` and `Notes` run on the
steps of `IdentityChain` themselves, `Publication` on those of `IdentityStore`.
`Console` has several files, each read and written whole. `PublishSlot`,
`Publication` and `ResolverExchange` are three views of a publication: when it is
on line, what objects it offers, and where its state travels.

Operators named "Mutant of ..." are plausible mistakes in the code; nothing uses
them. They are there to show that the properties notice such mistakes
(`PROJECT.json`, `mutants`): each replaces the definition after it, and the named
property is then violated.

### IdentityChain

`mem` is the `Identity` object of the current caller, `file` what `SaveIdentity`
last wrote, `outcome` what the last call returned, `clock` the wall clock. A
record of `Identity` has the fields of the Go struct.

| Code | Model |
|---|---|
| `New` | `New`, `Created`: two readings of the clock, no replay |
| each changing method | the action of its name: guard `CanSign` (`PreferredRootPrivateKey`), append, key ring, `RefreshDocument`; `Return` is its error |
| `ReplayState`, `applyEvent` | `ReplayState` = `Creates` (first event), then `ReplayStep` with `Accepts` and `ApplyEvent`, as a recursive function |
| `VerifyState`, `documentsEqual` | `VerifyState`, `DocumentsEqual` |
| `LoadIdentity` + `FromLocal` | `Load`: refused unless it verifies |
| `SaveIdentity` | `Save`: every caller returns before it when its call failed |
| `DeviceKeyID`, `EncryptionKeyID`, `ResolveKey` | the same names |

What is abstracted: a key pair is the order in which it was generated, an event id
the position at which it was created (both are unique, which is what the code uses
of them); a signature is the key that made it; strings are members of `Values`.
The DID is the first root key. The attributes of a profile are strings, as every
caller makes them: what `profileFromPayload` drops because it cannot convert it
(`events.go` 508) does not occur. An attestation without a CID, which the command
line can pass on, is signed and then refused by the replay (`NoValue` in
`AttachAttestationRef` and `Applicable`). `Load` and `Save` are whole steps here; that they
are not is the subject of `IdentityStore`. Callers do not go on with an object
after an error, and the model does not assume that they stop: operations on a
failed object stay enabled, and `FailureIsFinal` says why that is harmless.

### Verification

`states` are all public states exported so far: a verifier may hold any of them, so
properties quantify over them. Verifying keeps no state in the code and is an
operator here. A response may be verified at any time and any number of times.
Only the key operations of the owner are steps: profile, memory and attestation
events change neither keys nor the clock.

### Notes

`notes` are the object files beside the identity, `drafts` those of events that are
signed but not saved, `backup` the identity file as it was backed up. An object
carries its visibility, the key it is encrypted to, the key that signed it and, for
the properties only, the chain that ends with its event. `AddMemory` encrypts to
`EncryptionKeyID` (the preferred key if active, else the first active one), while
`ShowMemory` tries the one preferred key, revoked or not: that the two always agree
is what `OwnNotesOpen` is about. `SaveWithNotes` writes identity and files in one
step; that they are several writes is the subject of `IdentityStore`.

### IdentityStore and IdentityLog

`identity` is the identity file (absent, truncated, torn or whole, with its chain),
`others` the files beside it, `pc`, `copy`, `todo`, `change` a handler's progress,
its copy, the files it still has to write and the event it made. `returned`,
`expected` and `made` record what callers were told; no guard but a bound reads
them.

A handler is a step that reads the file and computes its changes
(`AddMemory`, `ChangeKeys`, `AttachAttestation`, `CreateIdentity`, `ImportBackup`),
then for each file in the code's order `OpenFile` (truncation) and `WriteFile`.
`RefuseAttachment` is the one handler that has written a file when the identity
refuses its event: the attestation stays, nothing is saved.
`ExportBackup` reads whatever bytes are there. `Abandon` is a write error or the
end of one process, `Crash` the end of the console. Two overlapping writers of the
same file leave either text or a mixture (`WriteOutcomes`): both write from offset
0 and the longer text sticks out. What a reader sees in the middle of one
`write(2)` is not split further.

`IdentityLog` is what the documents promise: change appends, create starts afresh,
restore puts the exported chain back. Its `Lose` is what the code adds: a write that
fails or is interrupted may cost the chain, all of it and never its end, since
`SaveIdentity` truncates the only copy. With one caller at a time and any faults
`IdentityStore` implements it; the change takes effect when the old bytes are truncated, so the
mapping takes the writer's copy while it writes. With two callers it does not
(`store_lost_update`).

### Publication

A publication loads the identity (`StartPublish`), then reads one file after the
other as `StoreReferencedObjects` does (`ReadManifest`, `ReadObject`,
`ReadAttestation`, in the code's order; attestations in any), and then serves. All
the writers of `IdentityStore` go on in between, with their faults. `objects` are
the bytes as they were read, partial ones too, and they stay for the life of the
resolver. A peer asks for any CID from the moment the resolver is up
(`ResolveObjectRemote`) and keeps what passes the CID check: only a whole file has
its own CID. `private` remembers which memory events are private, `settled` whether
the `AddMemory` of the public memory had returned when the state was loaded.

### PublishSlot

A request stands for its handler (`pc`), its context, its resolver (`host`,
`topic`) and its goroutine (`waiter`). The critical section of `StartPublish` is
the one action `Install`; everything outside the mutex is a step of its own. A
host that `NewResolver` abandons on an error is the state `leaked`.

### ResolverExchange and StateExchange

A node is a resolver. `loaded` and `publishing` are a publication on its way from
the file over the cache to the topic (`StoreState`, `PublishTopic`,
`PublishFails`); `inflight` are messages of a topic, which any later step may
deliver (`ConsumeSubscription`), overtake or lose; `ask` is a question over a
stream, with the peer's handler (`HandleStateStream`), the reading of the answer
(`ReceiveState`, `ReceiveNothing`, `StreamBreaks`) and what the caller makes of it
(`ResolveState` of the console verifies, `RunResolve` of the command prints).
`states` is the cache that all of them write. A state is its identity, its version
(how many events) and the Go type of the attributes of its profile payloads,
because `CanonicalJSON` signs a `map[string]string` as an object and a
`map[string]interface{}` as a list. Versions above `MaxObjectSize` stand for states
whose JSON exceeds the size limit. Resolvers are honest: who sends a state of an
identity got it from its owner, directly or not.

`StateExchange` knows neither topics, streams nor caches: a node comes to know some
published version, and a question is answered with one of the identity asked for.
It promises nothing about age, because nothing in the code compares versions.

### Console

`files` says whose identity is at each path and whether with its keys; `notes`
which directories have notes of whom; `identityPath` and `mu` are the fields of the
service. A request reads the path under the mutex (`IdentityPath`), loads, changes
and saves where it loaded, writes notes beside it, creates elsewhere and then
selects (`CreateIdentity`, `SetIdentityPath`), exports a state to any path, exports
and restores a backup. `Replace` holds the mutex while an earlier publication is
closed; everyone else waits. Commands name their file. `home` is history: where an
identity was created or restored.

## 3. Runs

| Run | Bounds | What it shows |
|---|---|---|
| `chain` | 4 events, 2 values, clock 1..2, skew 0 or 1; about 482,000 states | replay accepts exactly the sound chains and computes what they describe (`ReplayMeansTheChain`); saved files load but for the split create (`OnlyASplitCreateFailsToLoad`); key ring and document agree (`SavedKeysAgree`); a failed object is never saved (`FailureIsFinal`); no revocation is undone (`RevokedForGood`) |
| `chain_split_create` | 2 events | **finding**: a fresh file does not load when the clock moved inside `New` |
| `verify` | 3 events, clock 1..3, 1 challenge or attestation, 1 response; about 469,000 states | what is accepted is what the chain of the given state says, to the instant of expiry; `SelfCheck` passes while a device is left |
| `notes` | 4 events, 2 notes, 1 backup; about 785,000 states | the owner reads every private note; none is encrypted to a dead key; each is signed by the root of its event |
| `store_shared` | 2 callers, 4 events, 1 attestation, 1 fault; about 1,765,000 states | an attached attestation has its file, a complete one short of faults; an acknowledged memory has object and manifest |
| `store_serial` | 1 caller, 4 events, 2 attestations, 2 faults; about 226,000 states | whatever write fails or stops halfway: no acknowledged change is missing from a file that loads (`AckedChangesStay`), the file is readable at rest short of faults, and the whole implements `IdentityLog` |
| `store_lost_update` | 2 callers, 3 events, no fault | **finding**: an acknowledged change is lost (`AckedChangesStay` again) |
| `publication_shared` | 2 callers, 3 events, 1 attestation, 1 fault; about 77,000 states | nothing private is offered, peers get whole files of what the state refers to, attestations are there, and so is the memory whose `AddMemory` had returned |
| `publish` | 3 requests; about 3,700 states | one publication on line; the slot always has somebody to empty it; every publication ends and the slot empties |
| `exchange` | 2 resolvers, 2 identities of which one changes, 2 versions of which 1 fits, one asker; about 265,000 states | caches hold what was published, answers match questions, relayed states verify once printed and are what their owner published, questions end, and the whole implements `StateExchange` |
| `exchange_refused` | 2 resolvers, 1 identity | **finding**: the console refuses every genuine state |
| `console` | 3 requests or commands, 2 directories, 3 identities; about 252,000 states | keys and notes stay with their identity, the console is never on a path at which nothing was saved, every request ends |

Why the bounds are enough for what they are used for: four events allow two
rotations after a change, a revocation of each kind of key and of a key twice, an
addition after a revocation and any of them in either order; two clock values allow
an event before, at and after its predecessor's time, and three let a challenge be
issued, be answered at its last instant and expire. Two callers are enough for any
pairwise interleaving of reads and writes, which is all the properties are about;
four signed events allow each a create, a change and a restore in between. Two
notes allow one before and one after a key change. Three requests let the second
replace the first while the third replaces it, and in the console let one create
elsewhere while one is between reading the path and saving and the third holds the
mutex. Two resolvers with an asker that publishes too allow a state to be relayed
back over topic and stream, and an older one to arrive after a newer. The theorems
below say that for most of the properties the bounds make no difference.

In `store_shared` some properties are stated without a condition on who
interleaves; those that only one caller at a time can keep (the log, no change
lost, a readable file at rest) are in `store_serial`, with faults anywhere: two of
them let a second write fail on what the first left. Deadlock is checked except
in `publish`, `publication_shared` and `console`, where all requests or all
callers may be over, and in `exchange` and `exchange_refused`, where all resolvers
may be closed.

### Fairness

- `PublishSlot`: `Handler(r)` is weakly fair because a goroutine of `net/http` runs
  until it returns and every call in it ends; `Install` needs the mutex, which no
  holder keeps, as it is one action. `Expire(r)` because `context.WithTimeout` ends
  on its own; `Waiter(r)` because a goroutine whose channel is closed runs. A
  request itself (`LoadIdentity`) is not fair: it need never be made.
  `EveryPublicationEnds` does not speak of a host leaked by `NewResolver`, which
  nobody ever closes.
- `ResolverExchange`: `Exchange(n)` is weakly fair, the two ends of a question once
  it is out: the peer's handler is a goroutine, and a stream whose host is closed
  is reset. Nothing else is: messages may be lost, nobody need ask, publish or
  close. `AskEnds` therefore rests on the peer's handler closing the stream on
  every path, as the reader has no deadline.
- `Console`: `GoOn`, one of all the requests that can go on does, is weakly fair:
  the weakest assumption under which a program runs at all. As each request has
  finitely many steps, `EveryRequestEnds` needs no fairness between them, only that
  no request keeps the mutex.

## 4. Proofs

Every theorem holds for all values of the constants that satisfy the named
assumptions of the modules; these only say that bounds are natural numbers, that
sets of choices are subsets of what they choose from, and that placeholders are not
members of the sets they stand beside.

**`IdentityChain_proofs`** - `TypeCorrect`, `SavedLoadsUnlessSplit`,
`FailedForGood`. The difficulty is that replay is defined by recursion along the
chain while the program appends to it. The library's induction theorems cannot be
used by the installed provers, so the module proves induction for *sets* of
natural numbers (`SetInduction`: if a set that contains 0 and is closed under
successor missed some n, then successor would inject a finite set into itself less
an element), and from it that the recursive function exists, that a longer chain
has the documents of the shorter one along its way, and so
`ReplayAppend`: replaying one more event is one more step. `ApplyType` and
`CreateType` give that documents stay documents. The inductive invariant `IInv`
adds to the types: the key ring is 1..n with n at most two more than the events
(so the next key is a key), what the events replay to is a document or rejected, a
failed call means rejected, and an object that has not failed, like the file, is
either fresh from `New` or carries exactly the replayed document. `TypeOK` alone is
not inductive (nothing would type the replay), nor are the other two.

On what that replay means the module has three more theorems, each with an invariant
over the one before.

- `ReplayComputesTheMeaning`. The reference definition speaks of the whole chain
  (the last root before a position, the keys introduced and revoked within a
  length); lemmas `...Append` say how each of these changes with one more event,
  and `MeantStep` that `ApplyEvent` changes the document in the same way. Both need
  that no key occurs twice in a document and that the root is one of its keys;
  `RInv` carries that together with "every key of the chain is in the key ring",
  which makes a fresh key new.
- `RevocationIsForGood`. Along a replay each document is `Later` than the one
  before (no key lost, none revived, no old root back). `HInv` has this for the
  chains of object and file (`Grows`), and the documents of an extension agree with
  those of the chain it extends along their common part. The theorem is about a file
  that extends the one before, and does not say that it always does: a restored
  backup or a second caller can put an older chain back. When a file is append-only,
  restores, creations and faults included, is the matter of `OneCallerKeepsALog`.
- `SavedRingFits`. `AInv` says which device the ring prefers in terms of the
  devices that the document has unrevoked; one lemma per operation (`...Prefers`).

**`Verification_proofs`** - `VerificationTypeCorrect`, `SelfCheckAlwaysPasses`,
`AcceptedResponsesAreOfDevices`, `AcceptedAttestationsAreOfTheRoot`. The invariant
`VInv` extends `AInv` by the roles of keys: the devices of a document are the first
and those its chain added (`RolesMeant`), an exported state is one that verified,
and a response or attestation names and is signed by the same key of this owner.
What a verifier computes from a document is then a statement about its chain.

- `SupersededIsRefusedForGood`. Of two states of which one's chain extends the
  other's, the longer refuses whatever the shorter refuses because a key was revoked
  or the root was rotated: a verifier that takes such a newer state never goes back
  on a refusal for that reason. That any two states are so related is not claimed;
  after a restore or a lost update they need not be.
- `VerifiersLeaveTheIdentity`. The specification implements that of `IdentityChain`,
  so all theorems of the chain hold with verifiers around.

**`Notes_proofs`** - `NotesTypeCorrect`, `OwnNotesAreShown`,
`PrivateNotesHaveLiveKeys`, `NotesAreSignedByTheirRoot`. `OwnNotesOpen` is not
inductive: it needs that a document only ever has the encryption key of its
creation, so that the key `AddMemory` resolves, if any, is the preferred one of
every version of the identity, the backup too. `NInv` says so, over `RInv`.

**`IdentityStore_proofs`** - nine theorems over one invariant `IInv`, which adds to
the types that a handler at work has something to write and a chain to save, and
that the references in a handler's copy have their file or that file is the one it
creates next (`CopiesBacked`): that is what makes the event safe to save.

- `TypeCorrect` and `AttachedFilesExist` follow from it.
- `AckedMemoriesAreOnDisk`. `MInv` says that no event is signed twice
  (`SignedOnce`), so no two handlers write the same memory's files, and which files
  each handler has behind it and before it (`Plan`).
- `AttachedFilesAreComplete`. Any number of handlers may rewrite the file of one
  attestation. `CInv`: short of faults the file of each reference is whole, being
  written by somebody, or, for a reference that is only in a copy, about to be
  opened by the handler that has it.
- `ChainsAreWellFormed`, `ForksNeverMerge`, for any callers and faults. `HInv`: every
  chain in the file, the backup or a handler starts with the creation of its
  identity and has its events in the order of signing, and two chains that share an
  event are the same up to it. A lost update thus drops the end of a chain; nothing
  the program writes is ever a mixture that verifies.
- `OneCallerLosesNothing`, for one caller and any faults: `LInv` says that what a
  handler will save keeps all that is expected of its identity, and that a handler
  that fails leaves the file as it was, as it would have saved it, or unloadable. It
  is the other side of `store_lost_update`, which needs two callers and no fault.
- `OneCallerReadsTheFile`, `OneCallerKeepsALog`, for one caller and any faults too.
  `SInv` says that until the file is truncated, what will be saved is one change of
  the log ahead of what it holds (`OneAhead`), and that it is empty from then until
  it is written. Each step is then one step of `IdentityLog` or none: `OpenFile` and
  `ExportBackup` of the identity file are changes and exports, a fault is a `Lose`.
  The condition `Proc = {c}` is needed, as `store_lost_update` shows.

**`Publication_proofs`** - `PublicationTypeCorrect`, `PrivateStaysHome`,
`PeersGetWhatIsReferenced`, `IncludedAttestationsOffered`,
`AckedMemoryIsOffered`, over the invariants of `IdentityStore_proofs` as
they stand. `PIInv` adds that no chain holds an event that
has not been signed (so a memory can only be marked private before it is in any
state), that whatever is offered is public and referred to by the state, and that
each attestation of the state is on disk and read or still to be read.
For `AckedMemoryIsOffered`, `QInv` follows the files of the root's memory from the
load on: they are on disk because it had been acknowledged
(`AckedMemoriesAreOnDisk`), nobody rewrites them because no event is signed twice,
and so each is read whole, whoever is at work. `RootStays` is why it remains the
root: what is marked private later has not been in the state.
`PublishingLeavesTheStore`: publications only read, so the theorems of
`IdentityStore_proofs` hold with them.

**`PublishSlot_proofs`** - `TypeCorrect`, `AtMostOneServes`, `SlotIsWatched`. The
invariant ties the place of the handler to what its request owns: only an installed
request is in the slot, only one that returned has a goroutine, the goroutine reaches
the slot after closing its resolver, and slot and cancel function belong to the same
request. `EndedForGood`: a cancelled context stays cancelled, a closed host closed,
and no topic outlives its host. `ListenersWatched`: a host that is up has a handler
still at work on it, or is in the slot with its goroutine to close it; this needs
which calls each place of the handler has behind it (`Stages`). Together they are the
safety half of `EveryPublicationEnds`: no publication is without somebody to end it,
and none that ended comes back.

**`ResolverExchange_proofs`** - `TypeCorrect`, `CachesArePublished`,
`AnswersMatchQuestions`, and the refinement `ResolversImplementExchange`. The
invariant follows a state on its way: what was loaded was current, what is stored,
in flight, cached or answered was published and is filed under its own identity.
From it every step maps to a step of `StateExchange` or to a stutter; `Spec`'s
fairness is not needed for that, as the abstract specification has none.
`ConsoleRefusesEveryAnswer` is the finding of `exchange_refused` for any number of
resolvers and identities: no answer ever verifies as it comes out of the codec.
`PrintedAnswersVerify` is its consolation: written to a file and read again, whatever
a question brought or a cache holds verifies, is of the identity it is filed under
and was published by its owner in that version. `QuestionsAdvance` is the safety
half of `AskEnds`.

**`Console_proofs`** - `ConsoleTypeCorrect`, `KeysNeverStray`, `NotesNeverStray`,
`CurrentPathIsSaved`, `RequestsAdvance`, `PathsKept`. None of the safety properties
is inductive: they speak of files, and what goes wrong with a file was in some
request's hands before. `IInv` adds that identities are numbered in the order of
their creation and everything held (files, copies, the download) belongs to one that
exists, so no creation reuses a DID; that a copy with keys may go back to the path
the request read (`HeldKeysAreHome`), which stays true while others act because
`home` only grows; and that a path about to be selected was saved
(`CreatedWasSaved`). `RequestsAdvance`: each step of the console moves one request
forward, and only that one, so with the fairness of `GoOn` all end. `PathsKept`: a
request works on the path it read until it ends.

Only model-checked: the properties under fairness (`EveryPublicationEnds`, `AskEnds`,
`EveryRequestEnds`), which are out of the prover's reach; what each rests on besides
fairness is proved, as said above. The three violated properties of the findings
are of course not theorems. Every invariant of a passing run is one.

## 5. Findings and observations

Findings: the code does not do what a document or test of the repository says, and
a run shows it.

1. `New` reads the clock twice and saves without replay: unless both reads fall on
   the same instant, the fresh file never loads (`chain_split_create`).
2. Two overlapping operations lose an acknowledged change (`store_lost_update`).
3. The codec leaves attributes with another type than was signed, so the console
   refuses every genuine state it resolves; the command prints it unverified
   (`exchange_refused`). That the state is sound once it goes through a file is
   `RelayedStateStillVerifies`.

Observations: what the code does, which the models follow and a reader may want to
know. No run asserts the opposite.

- `RevokeDevice` never looks at a key's role (`events.go` 414). Given the root key
  it succeeds, and no event can be signed after it.
- `ExportBackup` encrypts whatever bytes are there (`service.go` 407): during a
  save that may be an empty file, and after a failed save it is whatever that left.
  `ImportBackup` refuses such a backup (`service.go` 428), so it is noticed when it
  is needed.
- `SaveIdentity` truncates the only copy of keys and chain (`storage.go` 53): a crash
  or a full disk before it is written leaves nothing to load. `ImplementsLog` says
  that nothing worse comes of it.
- A response of a revoked device passes with a state exported before the
  revocation, and an attestation stops verifying once its issuer's root is rotated.
  `AcceptedMeansDevice` and `AttestedByCurrentRoot` say precisely when.
- A publication that loads while `AddMemory` is between saving the identity and
  writing the files offers neither object nor manifest; hence the condition of
  `AckedMemoryOffered`. Each memory has a manifest of its own, so only the last
  public one is offered.
- A resolver that heard a newer state goes back to an older one when that arrives
  later.
- The command takes any visibility; what is not `private` is kept in plain text and
  becomes the public root, `shared` too (`node.go` 98-140). `ListNotes` shows the
  notes of every identity in the directory, and no public note with an empty text.
- A page reads the path once for its contents and once for its heading
  (`Page`, `Rendered`): it may name a path that is not its identity's.
- An exported state loads as an identity without keys, and may be exported over any
  path, an identity file included (`ExportState`): `KeysStayHome` says that keys at
  least never turn up elsewhere.

## 6. Not modelled, and the plan

What is left, in this order:

1. A theorem that ties `IdentityStore` to `IdentityChain`: that with one caller the
   chains in the file are those a session of `IdentityChain` saves. Today the two
   share the reading of what a chain is, stated in their comments.
2. Overlapping publications with different versions of one identity in
   `PublishSlot`. What a request publishes is what it loaded, and nothing says the
   last installed has loaded last; `OnlyTheSlotServes` is what the code keeps.

Left out for good: cryptographic strength (a signature verifies under the key that
made it, a ciphertext opens with the key it was made for); the wording of errors,
HTML, QR codes, flags, what the body of a request must look like (no state of the
system depends on them); sizes of files, so also the limit of 8 MiB at which a
restored backup is cut off (`simple_handlers.go` 91); DHT routing, which neither
exchange uses (only its failure at start-up matters, in `NewResolverFails`);
the bytes a reader may see within a single `write(2)`; and losing data after a
successful write (the code never calls `fsync`, and no document promises it).
