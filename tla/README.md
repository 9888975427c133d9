# A specification of The Astral Grove

The Astral Grove is a companion application for a card game: an Axum/PostgreSQL backend
(`apps/backend`), an Expo mobile and web client (`apps/mobile`) and shared TypeScript contracts
(`packages/contracts`). This directory holds TLA+ modules that model its own core logic, TLC
configurations that check them on small instances, and TLAPS proofs.

## 1. Inventory of the system

| Part | State | Operations | What is hard | Modelled in |
|---|---|---|---|---|
| Collection store (`collection/service.rs`, `membership.rs`, `routes.rs`, `imports.rs`) | `collections`, `collection_items`, `collection_audit_events` | set, add, remove, delete, batch, import, reads | a collection id is read in one transaction and used in the next; READ COMMITTED; batches commit item by item | `CollectionStore` |
| Collection sharing (`collection/share.rs`, `auth/core.rs` delete_user) | `collection_members`, `collection_invites` | invite, revoke, preview, accept, leave, account deletion | races between accepts, leaves, writes and deletions; lock order; cascades and a trigger | `CollectionStore` |
| Live updates (`collection/live.rs`) | a broadcast channel and a count per collection | publish, subscribe, stream | lag; a check before each event; places that must come back; shutdown | `LiveHub` |
| Sessions and passwords (`auth/service.rs`, `auth/core.rs`) | `user`, `account`, `session`, reset links | sign up, in and out, change and reset password, change of address, delete | a password verified before a reset, a session created after; links that outlive what they were sent for | `Credentials` |
| One-time codes (`auth/otp.rs`) | codes, links and budgets in `verification` | send, check, consume | attempts counted across resends; concurrent checks; clocks read before locks | `OneTimeCodes` |
| Decks (`decks/*.rs`) | `user_decks`, `user_deck_versions`, `private_upstream_decks` | upsert, import, share, version, delete | looks before the lock; a list kept twice, in the deck and in its active version; dedupe of imports | `Decks` |
| Catalog caches and synchronisation (`catalog/query.rs`, `cache.rs`, `sync.rs`, `prices.rs`, `cardmarket/*`) | hashes, search results, index in memory; `sync_state` | search, index, upsert, sync, publish, invalidate | reads that race a change; failures half-way; restarts | `CatalogCache` |
| Client cache of the collection (`lib/collection-mutation-cache.ts`, `collection-optimistic-cache.ts`, `hooks/useCollection.ts`, `useCollectionLiveSync.ts`) | query cache, generations of mutations | mutate, settle, roll back, refetch, live event | answers out of order; a refetch overtaking a mutation; a removal that asks for less than it shows | `OptimisticCollection` |
| Deck editor of the client (`services/deckService.ts`, `hooks/useDeck*.ts`, `DeckVersionMenu.tsx`) | query cache, save queue, dialogs | edit, debounce, flush, switch version, reload | joined flushes; failures that queue old lists again; answers that overtake edits | `DeckEditor` |
| Task pool, rate limits, image store, upstream budget | in-memory counters and maps | spawn, drain; charge; get, insert, evict | see section 10 | - |
| Client tools (`lib/scan-*.ts`, `score-tracker.ts`, `deck-*.ts`, sheets) | local state | scan, score, build | sequential | - |
| Contracts (`packages/contracts`) | none | deck rules, CSV | boundary counts | - |
| Operations (`ops`, `scripts`, `xtask`, `.agents`, `design`) | none | backups, builds, vendored tools | - | - |

How they interact. Every write of the collection store publishes to the live hub after its commit,
and the hub's streams check the membership and the session that `CollectionStore` and `Credentials`
keep. The client's collection sends its writes to the store and hears of others' through the hub.
The deck editor saves through the deck service. A code that `OneTimeCodes` accepts lets
`Credentials` verify or change an address. Account deletion cascades through all of them.

`PROJECT.json` lists every part, and the hazards at their lines with the properties that cover them.

## 2. Modules

| Module | What it is |
|---|---|
| `CollectionStore` | the collection store and sharing, one action per SQL statement that can wait or whose answer a later statement uses |
| `SharedCollections` | what those handlers promise: each request one atomic step |
| `CollectionStoreInv`, `CollectionStoreProofs` | the inductive invariant of `CollectionStore`, its proof and the theorems |
| `MCCollectionStore`, `MCMixedRequests` | its instances: mixes of requests for safety and for liveness |
| `Decks`, `DecksInv`, `DecksProofs`, `MCDecks` | the deck service of one account, its inductive invariant, the proofs, the instance |
| `OptimisticCollection`, `OptimisticCollectionInv`, `OptimisticCollectionProofs`, `MCOptimisticCollection`, `MCSharedClient` | the client's cache of a collection, its inductive invariants, the proofs, its instances |
| `DeckEditor`, `DeckEditorInv`, `DeckEditorProofs`, `MCDeckEditor` | the client's deck editor, likewise |
| `Credentials`, `CredentialsInv`, `CredentialsProofs`, `MCCredentials` | passwords, sessions, reset links, addresses |
| `OneTimeCodes`, `OneTimeCodesInv`, `OneTimeCodesProofs`, `MCOneTimeCodes` | codes and their budgets |
| `CatalogCache`, `CatalogCacheInv`, `CatalogCacheProofs`, `MCCatalogCache` | what the server remembers of the catalogue |
| `LiveHub`, `LiveHubInv`, `LiveHubProofs`, `MCLiveHub` | the streams of live updates |

Each module relies on its neighbours in what another module checks: `OptimisticCollection` on
writes being applied in one step (`AtomicRequests`), `DeckEditor` on the version operations as
`Decks` has them, `LiveHub` on moves between collections being accepts and leaves, `Credentials` on
a change of address coming after a checked code.

*Mixes.* Most runs choose at the start a *mix*, a member of a small set that says who does what, and
keep it. One run then explores several instances, each small enough to be exhausted, side by side;
what one mix leaves out another has, and the modules themselves know nothing of it (except
`DeckEditor`, `Credentials` and `OneTimeCodes`, which take `Mixes` as a constant).

CHECK_DEADLOCK is off in every run because each instance stops when its bounds (ids, edits, events,
writes) are used up. That nothing hangs before is stated as liveness where the code promises it.

## 3. CollectionStore

A request is a process with a program counter. Its transaction is invisible to others until its
last action, the COMMIT, so the tables (`users`, `live`, `member`, `role`, `items`, `ledger`,
`invite`) are the committed ones; what an open transaction has written is in `buf`. The locks it
holds are `held` (FOR UPDATE rows and `pg_advisory_xact_lock(1280472986)`) and `keyShare` (the
FOR KEY SHARE that a foreign-key check of an audit row takes on the actor).

| Action | Code |
|---|---|
| `Begin` | a routed request with its session and body |
| `EnsureFast`, `EnsureLockUser`, `EnsureProvision` | `membership::ensure`: unlocked read; `"user"` row FOR UPDATE; second read, or insert |
| `LockCollection`, `mutate_in`, `Audit`, `CommitWrite` | `service::mutate_in` and the commit of `mutate`, one turn of the batch loop, or all rows of an import |
| `pending`, `MarkExpired` | `share::pending`, outside any transaction |
| `LockAdvisory`, `current_collection`, `invite_insert`, `FindInvite`, `AcceptLock`, `Accept`, `Leave` | the handlers of `share.rs`; `revoke` ends in `current_collection` |
| `DeleteUserRow`, `CascadeDelete` | `auth::core::delete_user`, the foreign keys of migrations 0006 and 0008 and the trigger of 0006 |
| `Expire`, `Abandon`, `BreakDeadlock` | time, a dropped or failing handler, PostgreSQL's deadlock detector |

Abstractions. Quantities are the only data of a stack. `ledger` is the sum of `quantity_delta`
of the audit events written for a stack of the collection that holds it (an account deletion
removes the events of its actor; the sum keeps them, because the property is about what was
written). A collection that is deleted loses its items; its audit events keep no collection id,
so its ledger is zero. Uuids and tokens are never drawn twice (`spent`, `unissued`). `late` is
`expires_at < now()` as PostgreSQL fixes it when the transaction begins. The two rows of an
accept may be locked in either order: only a holder of the advisory lock takes two. Statement
failures other than deadlocks (an unknown printing, a lost connection, a cancelled handler) are
`Abandon`: the transaction rolls back wherever it is. An import of no valid row changes nothing
and is left out.

- `MembershipInv` (of `CollectionStoreInv`): no collection without members
  (`NoOrphanCollection`), never a third (`AtMostTwoMembers`), exactly one owner (`OneOwner`); and a
  pending link is the only one of its collection and was made by its only member
  (`PendingInviteFromSoleMember`), so accepting it can never add a third person.
- `LedgerBalances`: the audit trail adds up; it fails as soon as a row lock is missing.
- `OnlyMembersWrite` (action property): the id that `ensure` returned may be stale, but quantities
  change only on behalf of somebody who is a member when the change is committed.
- `InvitesUsedOnce` (action property): nobody joins without using up a pending invite, and a
  settled invite keeps its answer.
- `AtomicRequests`: `CollectionStore` implements `SharedCollections`. The refinement mapping
  (`Abstract == INSTANCE SharedCollections WITH ...`) takes the committed tables for the abstract
  ones; every step of a handler but its commit is a stutter.
- `RequestsEnd` (liveness): every request ends.

| Run | Instance | Shows |
|---|---|---|
| `sharing` | 2 requests, 3 uuids; mixes: two accounts that share, write and are deleted (1 token), the same without writes with 2 tokens, three accounts that invite, preview, revoke, accept and leave (2 tokens) | sound membership, invites under races, stale ids, the refinement |
| `requests_end` | 2 requests; mixes: two accounts that set, share and are deleted; one account with every write and read of two stacks, imports of two rows; with fairness | no request waits for ever; the audit trail adds up |

Bounds. `Req` has two members: every hazard listed involves two overlapping requests, and a
request that has committed leaves only tables behind, which any number of earlier requests
prepare. `Coll` and `Invite` bound how many uuids and tokens are drawn; `RoomFor` starts a
request only while there is one left for each request in flight, so no handler is stuck for lack
of a uuid. `MaxQty` and `MaxRows` bound what clients ask for.

Fairness (`requests_end`). Strong fairness of each handler: tokio polls a ready future, and
PostgreSQL queues the waiters of a lock, so a lock that keeps being released is granted. Weak
fairness of the deadlock detector. No fairness for arrivals, expiry and cancellations.

Remark. The comment at `collection/routes.rs:286` ("Rows commit one by one, so a failure part-way
still leaves changes other devices must load.") does not describe `imports::import`, which runs all
rows in one transaction (`imports.rs:170`), and so does the model. The notification sent after a
failed import is harmless.

## 4. OptimisticCollection

An action is one turn of the client's event loop; requests, answers and live events travel between
two turns. `list` and `own` are the two places a quantity is read from (`Cached`); `batch`, `edits`
and `generation` are the bookkeeping of `lib/collection-mutation-cache.ts`; `current` is the request
the list query waits for, and `fetch` all that are under way, cancelled ones included, because they
run to their end.

| Action | Code |
|---|---|
| `Begin` | `onMutate` of the mutations of `useCollection.ts`: bump, snapshot, cancel, apply |
| `Serve` | the server applies one request of an edit, for a finish the edit `asks` for |
| `Succeed`, `Fail` with `Settle` | `onSuccess`/`onError` and `onSettled`: replay without the failed edit, end of a batch, deferred invalidation |
| `Reconcile` | the timer of `reconcileCollectionEntries` |
| `Refetch`, `Read`, `FetchFails`, `FetchDone` | `fetchCollectionQuery` before, in and after its await |
| `RemoteChange`, `LiveEvent`, `Disconnect` | the other member; `onCollectionLiveChanged`; a stream that breaks |

Switches. `Ordered`: edits reach the server in the order they were made (one connection).
`Lossy`: a request may fail on the client although the server applies it, perhaps later
(`lib/api-fetch.ts` times out). `Cold`: nothing was loaded before. `Uses`: the kinds of edit.

An edit has the finishes it changes on the screen (`keys`) and those it asks the server to change
(`asks`). They differ for `removeMany`: it shows both finishes of each variant at 0
(`useCollection.ts:654`), but sends one DELETE per variant that names no finish
(`collectionService.ts:207`), and the server deletes the one stack it derives
(`collection/service.rs:86`). The constant `Derived` is what the server makes of such requests, one
finish of a variant. The comment at `useCollectionRemove.ts:84` ("removeMany deletes every finish
stack for each variant number.") is wrong: the other finish stays in the database, is not on the
screen, and comes back with the next list. `Unasked` are the finishes a confirmed edit changed
without asking; the properties below say what holds for them and what for all others, and neither
hides the difference.

| Run | Instance | Shows |
|---|---|---|
| `client_edits` | a collection of one's own (`AloneSpec`), both finishes of a variant of which the server derives one, 3 edits, 2 list requests, ordered, failures without effect | `ShownIsReplay`: whatever fails in whatever order, the screen is the replay of the rest; `QuietAgrees`: at rest it is what the server has, but for `Unasked` finishes; `AdoptsOnlyCurrent`: a list answer takes nothing off the screen that was asked for and confirmed |
| `client_shared` | a shared collection, 2 edits, lossy and reordered, with fairness; sessions: a cold start with a remote change, or removals from both finishes of a variant | `DeferredOnlyWhileMutating`: deferred invalidations are let through; `Converges`: in the end the client shows what the server has, for good, the other finish of a removal included |
| `client_owes` | 1 stack, 2 edits, 2 list requests | finding, below |

Two edits suffice for every pair of overlapping edits and a third for one that joins a batch in
which another has already failed; two list requests for one that was replaced and runs on.
Quantities to 1 distinguish an absent, a present and a clamped stack.

Fairness (`client_shared`). Each edit is answered, by the server or the timeout of `api-fetch.ts`.
The collection is mounted, focused or reconnected again and again (`Refetch`), each time on a network
that works in the end (`Read`); for a shared collection all three load a list older than 30 seconds
(`useCollection.ts:126`), which is the safety net of the comment at `useCollection.ts:64`. A collection
of one's own has no such net: `refetchOnMount`, `refetchOnWindowFocus` and `refetchOnReconnect` are
false there, and the bootstrap prefetches only what is older than five minutes. Hence both sessions
of the run are of a shared collection, and nothing is claimed to converge for one that is not: what
a lost answer or a removal has left wrong there stays until something else loads the list. Strong
fairness is used for `Refetch`, the timer and the live event because the bound `Fetch` on requests
can delay them, which the code never does.

Finding. `client_owes` refutes the comment at `lib/collection-mutation-cache.ts:137` ("an earlier
failure must survive a later success"): the failure survives within its batch, but the request that
reconciles a batch is made by a timer, and an edit that begins before it is answered cancels it;
that edit's success asks for nothing.

Left out: the quantities query of `useCollectionOwnership`, totals per variant, the activity list,
the disk cache.

## 5. Decks

One account is modelled: every statement of `decks/service.rs` names the user, and the advisory
lock is the user's. `deck` and `version` are the rows; a row's payload is a card list with its
source (`up` for `upstreamId`, `from` for `importedFromId`). A request is a process: `Check` or
`CheckImport` look without the lock, `MarkPrivate` is delete's statement outside the transaction,
`Lock` takes the lock and reads row and versions into the request's locals, and each write works on
those locals and commits. That the locals are still true is a theorem (`SnapshotFacts`), not
an assumption.

| Action | Code |
|---|---|
| `Check`, `CheckImport` | `assert_editable`, the first reads of `upsert` and `import` |
| `Lock` | `lock` and the reads under it, with the second look for an imported source |
| `upsert`, `set_sharing` | the functions of these names |
| `CreateVersion`, `RenameVersion`, `ActivateVersion`, `DeleteVersion`, `SaveVersion` | the arms of `version` |
| `MarkPrivate`, `DeleteDeck` | `delete`; `Cascade` is `user_deck_versions_deck_fk` |
| `CloseAccount` | `auth::core::delete_user`: another lock, and cascades |
| `Abandon` | 404, 409, a dropped request or a failing statement |

Names, descriptions and timestamps are left out. `versions` are ordered by `updated_at`, which two
writes may share, so which version comes first is a choice. Clients send any payload, claim any
source and use ids they made up or know. Reads (`get`, `list`, shared views) change nothing and are
left out. What upstream answers is a choice except for decks marked private.

- `SoundVersions`: the list is stored twice, in the deck and in its active version, and they agree
  (`ShowsActiveVersion`); versions go with their deck (`NoStrayVersion`); the limit holds though it is
  counted before it is used (`WithinLimit`).
- `SoundSources`: overlapping imports store one deck (`ImportedOnce`); switching versions never
  changes where a deck came from (`OneSource`).
- `ListsOverwrittenOnlyBySaves` (action property): creating, switching and deleting versions never
  overwrite the list of another version.

The run `decks` has 2 requests, 3 deck ids (one that of a community deck), 3 version ids and a limit
of 2 versions (25 in the code), in two mixes: all version operations, sharing, deletion and account
deletion on one deck with two lists; imports beside client-made decks that claim the source or take
its id and legacy decks that came from it, with one list. Two requests overlap in every pair of
steps; three version ids allow a replacement at the limit of two.

## 6. DeckEditor

The client is one thread, so promise continuations are a queue, `micro`, that is emptied before the
next event; what the server does happens at any time between. A list is the set of the user's edits
it contains, so that a lost or revived edit is visible. `saves` is, per version, the pending list,
the debounce timer, the save under way (`first` is the list it began with, `current` the one on the
wire), what awaits it, and the status of the menu; `cache` is what the editor shows.

| Action | Code |
|---|---|
| `Edit`, `Timer` | `persist`, debounced or immediate (`useDeckAutoSave.ts`, `queueRemoteDeckSave`) |
| `Flush`, `SaveNewer`, `SaveDone`, `SaveFails`, `SaveForbidden` | `flushSaveKey` and the loop of its save, with `catch` and `finally` |
| `Microtask` (`Again`, `Continue`, `NextKey`) | what follows an `await` of a flush: a joined flush looks at the queue again, `flushSave` adopts the answer, the menu sends its request or opens its dialog, `flushRemoteDeckSave(deckId)` goes on |
| `Back`, `Retry`, `SwitchTo`, `NewVersion`, `Decide`, `Manage`, `FlushAll` | back button, version menu with its dialogs, leaving the editor |
| `Serve`, `Perform`, `Performs` | the version operations of the server, and their answers |
| `Load`, `Read`, `Loaded` | the deck query and `useFocusEffect` |

- `NoQueueStranded`: whatever list waits in a queue has a timer, a save that comes back to it, or
  the menu says that saving failed. It does not say which list that is.
- `SavedIsStored`: when a version is shown as saved, the server has the list the editor last queued
  for it, whatever was switched, retried, renamed or reloaded; or, if a save failed after that, the
  list that save put back (`latest`).
- `AsksAfterFailure` (action property): a version mutation is not sent after a failed flush without
  asking.
- `SavesSettle` (liveness): every queued list is saved, or the failure is shown.

The run `deck_editor` has 3 versions (one to be created), 2 edits, 2 other acts, in four mixes of
what the user and the network do (`Some`): failing saves with new versions and the back button, with
renames and deletions, with leaving and reloading, and a deck that stops being the user's. Two
edits make a save and a newer list behind it, which a failure loses (below); two acts, a flush that
another joins.
Fairness: continuations run, timers fire, and a request is answered or fails (`api-fetch.ts` has a
timeout); acts of the user and reloads are under none.

Assumptions. A request that failed on the client was applied before the failure or not at all (a
later application would be a server that works on after its connection is gone). One device edits.
The client's clock and the server's are incomparable, so which `updatedAt` is newer is open. The
server's version operations are atomic (`Decks`).

Finding. `deck_editor_flush` refutes the comment at `services/deckService.ts:235` ("Flush pending
changes and wait for the API save to finish."). A flush that joins a save looks at the queue once
when the save is done; when another joined flush came first and took the queue, it returns although
the newer list is still on its way, and the version switch that waited for it is sent.

Lost edits. `handed` is the list the editor last put in each queue, `requeued` the one a failed save
has put back over it since; both are history. `catch` (`deckService.ts:223`) queues the list its save
began with even when a newer one waits: edit, immediate save, a second edit that is debounced, the
save fails, the timer of the second edit then saves the first list, and the menu says "Saved". The
second edit is in no queue and not on the server; it is only on the screen until the deck is loaded
again. TLC finds these steps at once when `SavedIsStored` is asked for `handed[v]` in place of
`latest[v]`. The property says how far it goes: the server has the older list only if a save failed
since the editor last queued one, and then exactly the list that save began with. The other loss is
before the queue: a flush of the menu or of the back button queues the screen, from which an answer
or a reload may have taken an edit.

`SwitchTo` is barred while a version mutation is pending, because the list is disabled then; the
sheet of a new version and the dialogs of `Manage` can be confirmed at any time, since only the
buttons that open them are disabled. Two requests alike that wait together (a rename confirmed
twice) are one member of `requests`; they have one effect.

Remarks that no run states. A retry after switching back queues the list that was loaded, over the
edit that failed, although the dialog says it can be retried later (`DeckVersionMenu.tsx:260`). The
back button's `flushSave` queues what is on the screen even if nothing was edited, although
`useDeckAutoSave.ts` says a loaded deck is never written back. Answers of renames, deletions,
immediate saves and reloads are adopted over newer edits on the screen; the queue still holds these
until the screen is queued again, and `SavedIsStored` is about the queue.

## 7. Credentials and OneTimeCodes

### Credentials

The operations read without a lock, spend long in hashing, and then write in a transaction under
`credential:{user}` or `user-email:{address}`. A password is the number of the write that stored its
hash; a session remembers in `via` the hash it was opened with. `floor`, `resets`, and the fields
`to`, `late` and `round` are history, used by properties only.

| Action | Code |
|---|---|
| `SignIn`, `PasswordSession` | verification; `password_session` under the lock |
| `Change`, `VerifyPassword`, `ChangeLocks`, `ChangePassword` | `change_password` |
| `Forgot`, `StoreLink` | `requestPasswordReset`'s detached task: look up, store |
| `Reset`, `ResetLocks`, `ResetPassword` | `resetPassword`: link read, link consumed under the lock, commit |
| `SignUp`, `InsertUser`, `ChangeAddress`, `UpdateAddress` with `EmailLocks` | `sign_up`, the change of address of `otp.rs` |
| `Delete`, `DeleteUser`, `EndSessions`, `VerifyEmail` | deletion, sign-out and revocations, a checked code |
| `Fail` | an error, a dropped request, a deadlock, a foreign key: rolled back |

- `NoStaleSession`: whoever signed in with a password that a reset, or a change ending the other
  sessions, replaced has no session.
- `ResetsPrevail` (action property): a change begun before a reset does not overwrite it, and a link
  resets once, and not after another reset of the account.
- `LinksFollowAddress`: a link mailed to an address the account has left was stored by a task that
  had looked the account up before. The comment at `otp.rs:282` holds but for such tasks.
- `AddressesDistinct`: racing sign-ups and changes of address do not reach the unique index.

The run `credentials` has three overlapping operations on one account and a second that signs up, in
four mixes: three operations are a verification, a reset between its steps, and a link stored
meanwhile. Two hashes beyond the first and three tokens let each of them write.

Abstractions. Wrong passwords change nothing. A reset deletes its link, updates and sweeps at one
step and commits at another; PostgreSQL's row locks between are the guards `CredentialFree` and
`Sweeping`. Deletion does not verify the password again under its lock, and neither does the model.
Account ids are not drawn twice (`Gone`). Cookies, names, images, hashing and the expiry and
renewal of sessions are left out; an expired session is one that `EndSessions` ended.

### OneTimeCodes

`code` and `windows` are rows of `verification`. now() is the time a transaction began, before it
waited for its locks, so each request notes at its start what had expired (`dead`, `closed`). A
check takes its locks (`CheckLocks`) at one step, since every check takes them in the same order,
and judges at the next; whether the guess fits is a choice. `Issuance` and `Store` are two
transactions, `Detached` the mail, link or discard that follows the answer.

- `WithinBudgets`: no window lets more through than its limit, per identifier, per target address
  over all accounts, and for sends; and a code is judged against at most `PerCode` wrong guesses.
- `UsedOnce`: a consumed code is judged by nobody else.
- `SparesNewCodes` (action property): a check discards or counts only the code it read, never one
  sent meanwhile, although its statements name the identifier.

The run `one_time_codes` has two requests on a verification code, or on two accounts that change to
one address. The limits 10, 3 and 3 are 3, 2 and 1, so that a code wears out, a resend begins
anew, and the budget still has one guess left. One tick lets each code or window expire. The send
budget of a change of address is per user in the code and per identifier here.

## 8. CatalogCache

The server remembers the two hashes clients compare, cached searches filed under them, and the index
of all cards. Contents are versions: `db` has one for cards, prices and the ids that join them, and
a hash is the versions it was computed from, so that "older" is a comparison of numbers. The ids have
a version of their own, while the code's hash only counts those that are not null: it is slightly
weaker than the model's, and a change that keeps the count keeps the hash (`catalog/store.rs:86`).

| Action | Code |
|---|---|
| `Memo`, `Row`, `Count`, `Remember` | `hashes()` and `remember_hashes` with its generation |
| `Rows`, `Prices`, `Insert` | `local()` and the insert of a search |
| `Fetch`, `Bump`, `Clear`, `Fetched` | filling from upstream: upsert, the two halves of `invalidate()`, reading again |
| `IndexBegin`, `IndexInsert` | `index_response` under the lock of its cache |
| `Start`, `SyncCard`, `Digest`, `Complete`, `Persist`, `Backfill`, `Backfilled`, `Invalidate`, `ClearResults`, `Fails` | the two synchronisations and `publish` |
| `Drop`, `Expire`, `Restart` | a dropped handler, time to live, the end of the process |

- `CachesFollow`: hashes and index in memory are those of the tables unless an `invalidate()` is due
  or was missed. The memo has no time to live, so this is what keeps it from being wrong for good.
- `ResultsCoverHash`: a cached search is never older than the hashes it is filed under.
- `StatusTells`: "running" means a synchronisation at work, or one whose end could not be recorded.

The run `catalog_cache` has two requests during one synchronisation; one during both with two
writes; one with failures and a restart. A race needs a reader and a writer; the second request
shares the memo and fills the caches of the first. The cache holds one search (100 in the code), so
that eviction happens.

Abstractions. One query stands for all searches; an empty result is removed, not stored, and left
out, and so are the upstream cache and the checks cache. Imports and the detail of a card upsert
with the same commit, bump and clear as `Fetch`; the last invalidation of a fill is one step. One
server process: a synchronisation from the command line never invalidates a server's memory.
`missed` is the exception the code has: a backfill that fails after `persist` has committed returns
before `invalidate()` (`guide.rs:241`), and so does a request dropped at its commit.

Remarks. A search is inserted without a look at the generation, so an old answer can return after
an invalidation, under its own old hash, for as long as results live. The index reads its rows
before the hashes: an answer, though not the cache, may pair old rows with a newer hash. The
filters strip ":count" from the price hash (`catalog/metadata.rs:265`) and the index keeps it
(`query.rs:413`), so the client's `catalogIndexCacheMatches` (`catalogIndexService.ts:22`) compares
unlike strings and downloads the index each time, contrary to its comment.

## 9. LiveHub

A device has one stream: `ensured` (membership read), `open` (subscribed), then alternately `check`
(the query before an event) and `wait` (the select over event, heartbeat and signal). `queue` is
what its receiver has not read, `active` the hub's count.

| Action | Code |
|---|---|
| `Ensure`, `Subscribe`, `Start` | `events()`, `Hub::subscribe`, the look at the signal before the ready event |
| `Check`, `Receive`, `Heartbeat`, `Stop` | the loop of the stream |
| `End` (in `Disconnect` and others) | `Drop` of a subscription |
| `Publish`, `Move`, `SignOut`, `Shutdown` | writes, accept and leave, a session that ends, the signal |

- `CountsListeners`: the count is that of the streams there are, however they ended, and each
  listens to the channel the hub sends to.
- `LeaverHearsNothing` (action property): an event published after an account left or was signed
  out never reaches its stream.
- `NoSilentGap`: a stream passes on every event in order or ends.
- `StreamsEnd` (liveness): a stream without a right to its collection ends even if nothing happens
  there; after the signal every stream ends.

The run `live_hub` has three mixes: three devices at a limit of two (8 in the code); two devices
whose accounts move between two collections; two that miss events, with a capacity of one (1024).
The device is the account here; two devices of an account are two that move alike.

Fairness. A stream is polled while its client reads, and the heartbeat ticks (weak fairness); a
client that does neither is disconnected by its transport. Strong fairness of `Stop`: the select
picks at random among what is ready. The query and the yield that follows it are one step, and a
publication that is lost with its handler is one that is not made; joining and leaving publish
nothing, as in the code.

## 10. Not modelled, and why

- *Task pool*: jobs are spawned and aborted after three seconds; where that shows, it is in the
  models of the jobs (`Restart`, detached links and mails, `Shutdown`).
- *Rate limits, upstream budget*: each check counts and judges under one mutex. The failure budget
  of sign-in is looked at before and charged after the verification (`auth/service.rs:227`), so
  failures that overlap can pass it by their number; nothing in the code promises more.
- *Image store*: lookups whose races cost a second download, never a wrong image.
- *Wishlist and settings*: single-statement upserts of one user's rows, last writer wins.
- *Bootstrap and disk caches of the client*: what they seed is a start of `OptimisticCollection`
  (cold or warm) and `DeckEditor`; the switch of accounts between them is not modelled.
- *Scanner, score tracker, deck rules, codecs*: local, sequential or pure, with unit tests at their
  boundaries; a model would restate them line by line.
- *Card mapping, price matching, SQL of searches*: data; `CatalogCache` has their writes as versions.
- *HTTP schemas, rendering, generated clients, backups, builds, vendored tools*: no state that a step
  could break. The largest directories of the repository are of this kind.

## 11. Proofs

Every safety invariant and every action property that a passing run checks, and the refinement, is
stated by a theorem that TLAPS proves for every value of the constants; `PROJECT.json` lists them.
Each component has three modules: the specification, `...Inv` with the inductive invariant `IInv`,
and `...Proofs`. A proof module shows that `Init` implies `IInv`, that every step of `Next` keeps
it, with one step per action and below it one per conjunct the action can disturb, and derives the
invariants from `IInv` and the action properties from `IInv /\ [Next]_vars`.

The assumptions are the named ASSUMEs of the specifications: bounds are natural numbers (positive
where a run needs one step of them), sets of choices lie within what the code offers, and the model
values `None`, `Gone`, `Failed`, `Sent` are no user, row, answer or deck. The last kind is needed
because TLA+ is untyped: a record and a model value are not known to differ. TLC evaluates them all.

The theorems are about `Spec`, the widest specification of a module. The runs `live_hub`
(`MixSpec`), `client_edits` (`AloneSpec`), `client_shared` (`SessionSpec`) and `deck_editor`
(`FairSpec`) restrict it, by a mix or by fairness, to what TLC can exhaust; an invariant of `Spec`
is one of theirs. The one exception is `QuietAgrees`, proved of `AloneSpec` (below).

### What is proved, and why the invariants hold

*CollectionStore.* `TypeOK`, `MembershipInv` with its four parts, `LedgerBalances`. They are not
inductive: an accept adds a second member correctly only because what it read under the lock is
still true. `IInv` adds `ControlFacts` (which handler is at which statement), `LockExclusion` and
`LockFacts` (each statement runs under its own lock), `ShareFacts` and `WriteFacts` (what a handler
read under the share lock or computed for a locked row still holds) and `TableFacts` (uuids are not
reused). A step of request r is split alike everywhere: r's own locals; the other requests, whose
facts survive because r holds the share lock (`OtherShare`) or because they hold the row r would
have to touch (`OtherWrite`); the tables. Steps that leave the tables alone go through `LocalStep`.

A second invariant, `WInv`, is inductive given the first: a row locked FOR UPDATE is not locked
FOR KEY SHARE by another, and a writer at its audit row whose account exists, or that has written
that row, is a member of the collection it writes to. From it come `OnlyMembersWrite`, `InvitesUsedOnce` and the
refinement `AtomicRequests`: the commit of a handler maps to the one atomic step of
`SharedCollections` with the same effect, every other step to a stutter. The
proof of membership rests on two locks: the one on the collection keeps a leave out, and the key
share that the audit row's foreign key takes on the actor keeps the deletion of the account out.

*Decks.* `TypeOK`, `SoundVersions`, `SoundSources` with their parts, and
`ListsOverwrittenOnlyBySaves`. The tables (`TableFacts`) are disturbed only by the holder of the
lock, and are kept because `SnapshotFacts` says that what it read is still so; `ImportFacts` keeps
the id of an import under way from everybody else, and `SpentFacts` makes drawn ids new. Five lemmas
carry the steps: `Ended` (the writer lets go), `DeckWritten` (a write of one deck that leaves it
sound leaves all sound), and `Replaced`, `Added` and `Removed`, the three shapes of a write.

*DeckEditor.* `NoQueueStranded`, `SavedIsStored`, `AsksAfterFailure`. `Kept` and `Joined` say where
the list that was last put in a queue (`latest`) is at each stage of a save; `Resumed` that a list left waiting without a timer
or a save is reported as an error or looked at again by a continuation that is due; `Known` that no
answer, load or cached deck names a version the server never had; `Honest` that a version mutation
is due only where its flush found no error.

*OptimisticCollection.* `ShownIsReplay`, `DeferredOnlyWhileMutating`, `AdoptsOnlyCurrent`,
`QuietAgrees`. `IInv` says what an edit has applied (`Edited`), that a batch reaches from its first
open edit to the last edit (`Batched`), and that a request sent outside a batch saw every edit
confirmed before it (`Informed`). "Confirmed" is about what an edit asks for: `AskedFor`
says that of every finish outside `Unasked` each confirmed edit asked for what it shows, and
`UnaskedGrows` that no step takes a finish out of that set. `AloneInv` adds, for a client alone whose requests
arrive in order, that the server holds the replay of what it has applied (`ServedOf`), and is proved
under the hypotheses `Ordered`, `~Lossy`, `~Cold` of `RestingClientsAgree`, the switches of
`ClientEdits.cfg`. Each is needed: TLC refutes `QuietAgrees` when one of the three is switched (edits
that overtake each other, failures the server applied after all, a list that is not loaded
yet). The replay is a recursive function over the edits. Its values are
found by well-founded minimality over a *set* of counterexamples (`LeastNumber`, `Upwards`), because
the library's induction theorems take an operator; `ReplaysAgree`, `ShowsAppended` and `ShownFrom`
then say what one more edit, a failed edit and a new batch do to it.

*Credentials.* `NoStaleSession`, `LinksFollowAddress`, `AddressesDistinct`, `ResetsPrevail`. Who holds
the row has read what is still there (`Locals`, `LockExclusion`), and a session exists only for a
hash at least as new as the floor that the last change or reset set (`SessionFacts`, `ChangeFacts`,
`ResetFacts`): what survives a change was verified against the hash the account has now.

*OneTimeCodes.* `WithinBudgets`, `UsedOnce`, `SparesNewCodes`. A check judges under the lock of its
row (`Exclusive`), so what it read stands (`ReadsStand`); hence one check of a code succeeds and the
failures of all its checks add up (`CodeFacts`, `WindowFacts`).

*CatalogCache.* `CachesFollow`, `ResultsCoverHash`, `StatusTells`. Versions only grow, so what a search
has read lies between the hash it began with and the contents now (`RequestFacts`); unless an
invalidation is due or was missed, the caches, and all requests that will fill them, have the contents
of the tables (`Settled`, `Current`).

*LiveHub.* `CountsListeners`, `NoSilentGap`, `LeaverHearsNothing`. A queue is a run of consecutive
numbers that ends at the last event sent, unless the stream has been told it lagged (`Continues`);
its events were published to a collection its reader could see (`Deserved`); the counts are
cardinalities of sets known to be finite (`Counted`).

### Checked beside the proofs

The inductive invariants were run by TLC before they were proved; the MC modules extend the
`...Inv` modules, so that `IInv` (or `WInv`, `AloneInv`) can be added to a cfg when a module changes.
No cfg lists them, because what is proved needs no run; the invariants a reader cares about stay in
the cfgs, where the mutants show that they depend on the code.

### Not proved

- Liveness: `RequestsEnd`, `Converges`, `SavesSettle`, `StreamsEnd`. Liveness under fairness and
  ENABLED are out of the prover's reach; TLC checks them.
- `FailureReconciled` and `FlushWaits`, which the code violates (the two findings).

Still worth proving: the safety core of the liveness properties, in particular that the locks of
`CollectionStore` are taken in one order, so that waiting requests never form a circle (what
`RequestsEnd` needs besides fairness); and that after a reopening with nothing under way the shared
client shows what the server has (the state `Converges` leads to).
