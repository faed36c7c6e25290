# imogo-matrix in TLA+

TLA+ models of the services in this repository, the TLC configurations that
check them on small instances, and TLAPS proofs of what matters most about them
for instances of any size. The source is the reference: every definition that
models code names its lines in `PROJECT.json` under `map`.

## 1. The system

`imogo-provisioner` (Rust, axum, sqlx on SQLite) is told by a license server,
over signed webhooks, about the life of a license, and mirrors it on a Matrix
homeserver (Tuwunel): a user account and a support room per license. Its B2C
channel creates support rooms for invoices and turns scans of a QR code into
guest accounts. Two bots (matrix-sdk) work in rooms: the moderation bot and the
FAQ bot.

    license server --signed POST--> gate (webhook.rs, nonce_store.rs, keys.rs)
                                      |
                                      v
                     http/webhook.rs: dispatch by event
                                      |
                                      v
         provisioning.rs  --statements-->  SQLite: accounts, audit_log, nonces,
         b2c.rs           --appends----->          b2c_rooms, b2c_guests, jti
                          --calls------->  homeserver (tuwunel.rs)

    Matrix rooms <--sync, sends--> moderation bot --> SQLite: active rooms,
                                                      banned words, audit log

| component | its state | operations | hard behaviours | correct means |
|---|---|---|---|---|
| webhook gate (`webhook.rs`, `nonce_store.rs`) | `webhook_nonces` | `verify`, `try_insert` with its collection | concurrent deliveries of one request, restarts, requests cut off, whole seconds against milliseconds | no request accepted twice; none refused as replay the first time |
| license workflows (`provisioning.rs`, `accounts.rs`, `http/webhook.rs`) | `accounts`; user, room and power levels at the homeserver; audit entries | activated, expired, deactivated, tier_changed | any two handlers interleave at every await; database errors, failing, late and lost homeserver calls, handlers dropped by the timeout layer; retries | a row names what exists; read-only means locked out; an answer stays true; one password |
| audit log (`audit.rs`) | `audit_log` | `append`, `verify_chain` | concurrent deferred transactions, BUSY, rollback between insert and update | one unbroken chain; append is atomic; alterations of what is hashed are found |
| B2C (`b2c.rs`, `http/b2c.rs`) | `b2c_rooms`, `b2c_guests`; aliases, guests, invitations, logins | `create_room`, `redeem` | concurrent scans read one index, a failure between registration and commit | numbered without a gap, one login per guest, a token leads to its room |
| capability tokens (`capability.rs`, `db.rs`) | `capability_jti_cache` | `verify`, `insert_jti_if_fresh` with its collection | concurrent presentations, restarts, a power failure that takes commits, the edge of the expiry | no token accepted twice; none refused as replay the first time |
| mutes (`mute.rs`, parts of `handler.rs`, `main.rs`, `audit.rs` of the moderation bot) | power levels and their cache; timers; mute and unmute entries | mute, unmute, automatic unmute, recovery | timers race commands; a restart loses every timer; writes from a stale cache; audit append after the effect | a mute ends, and its user gets his level back |
| rooms, commands, banned words, pins (moderation bot) | `moderation_active_rooms`, `moderation_banned_words` and its cache, pinned events | activation, discovery, invites, moderation of messages | discovery at a restart undoes a deactivation; read-modify-write of pins | tables and pins are what the log says; each message handled once; matching rooms found |
| FAQ bot | the FAQ list in its store, the watch and its queues, the sync position | start, hot reload, answers | saves during a load, full channel, lost watch, restarts | the last saved list is served in the end; a message is answered once, with the best entry |
| identities, appservice and health endpoints, formatting, configuration, deployment | none that changes | | | |

The handlers of the provisioner share nothing in memory: they interact through
the SQLite file and the homeserver only, and every `await` is a point where
another handler may run. The moderation bot is one sync loop that awaits one
handler at a time, and beside it the timer tasks of the mutes. The FAQ bot is a
sync loop and beside it the watcher's thread, a channel and the reload task,
which swaps the whole list.

## 2. Modules

| module | what it is | code |
|---|---|---|
| `Provisioning` | the webhook route behind the gate and the four workflows; a step per statement, audit append and homeserver call | `provisioning.rs`, `accounts.rs`, `http/webhook.rs`, `tuwunel.rs` |
| `LicenseRecord` | abstract: the life of a license as its server is promised it | |
| `AuditChain` | `append` as SQLite transactions among others; `verify_chain`; the entry hash | `audit.rs`, `db.rs` |
| `AtomicLog` | abstract: an entry appears at the end, once, or not at all | |
| `WebhookGate` | timestamp window, signature, nonce table, restarts; time in ticks | `webhook.rs`, `nonce_store.rs` |
| `B2c` | room creation and redemption | `b2c.rs`, `http/b2c.rs`, `tuwunel.rs` |
| `Capability` | `verify` over the jti table, restarts, power failures; time in ticks | `capability.rs`, `db.rs` |
| `Mute` | mutes in one room, timers, crashes and recovery | `mute.rs`, `handler.rs`, `audit.rs`, `main.rs` of the bot |
| `Rooms` | the bot's sync loop: start-up, discovery, invites, moderation, commands on rooms, words, users and pins | `handler.rs`, `rooms.rs`, `banned_words.rs`, `pinned.rs` of the bot |
| `FaqReload` | the FAQ file, the watch, the queues, the reload task | `reload.rs`, `faqs.rs`, `main.rs` of the FAQ bot |
| `FaqBot` | extends it by the sync loop, the triggers and the answers | `matrix_client.rs`, `handler.rs`, `faqs.rs` |
| `ProvisioningProofs`, `AuditChainProofs`, `WebhookGateProofs`, `B2cProofs`, `CapabilityProofs`, `MuteProofs`, `RoomsProofs`, `FaqProofs` | theorems about the module named; `FaqProofs` is about `FaqReload` and `FaqBot` | |
| `MC...` | instances for TLC | |

How the models correspond to the code:

- *Provisioning.* A delivery is a handler future; `pc[r]` is the statement it
  awaits, and each `pc` value is one `.await` of the code. `audit append` is one
  step here because `AuditChainProofs!AppendIsAtomic` shows that it is atomic.
  What the gate lets through is the input (`Deliveries`); a retry of the license
  server is a further delivery, since it carries a new nonce. Faults are
  `database` (an error of a statement or an append: the handler answers 500),
  `homeserver` (a call fails or goes unanswered: it may still be performed, at
  once or later, `LateCall`) and `abort` (the timeout layer drops the future at
  any await; a homeserver call in flight may still arrive). A crash of the
  process looks like an abort of every handler. Power levels are kept as whether
  the customer may write, topics as the SLA they promise.
- *AuditChain.* `version` counts commits to the file, `writer` is the one write
  lock of SQLite. A transaction that has read is refused the lock when the file
  has changed since (BUSY_SNAPSHOT), which is what keeps the chain together:
  `SelectLatest` fixes the snapshot, `MayWrite` is that rule. It stands for
  SQLite, not for code of the repository. The hash is a parameter, injective in
  the run and arbitrary in the proofs. `verify_chain` does not hash the text of
  `created_at` but the time that it reads there, formatted to milliseconds: `Millis`
  is that conversion, the identity only on what `append` has written
  (`TimesAreWrittenToMillis`).
- *WebhookGate.* A tick is a fraction of a second: `InWindow` cuts `now` down to
  a whole second like the code, the nonce store does not. Signatures are a set
  of requests that verify.
- *B2c.* As in `Provisioning`; the token of a room and its room id are fresh and
  bear the name of the creation, a guest is an invoice and an index.
- *Capability.* As `WebhookGate`, but the table is the list of its versions, one
  per commit: `synchronous = NORMAL` in WAL mode loses the last commits at a power
  failure, so `PowerFailure` takes the table back to any earlier version. The
  deferred transaction begins with its DELETE: it has the write lock before it
  reads, so it is one step. Decoding and signature are whether a token is `Signed`. A row's `expires_at` is
  RFC 3339 text and compared as text: `Expiry` has the years past 9999
  (`LastSorted`), whose sign sorts before every digit, and the moments that chrono
  does not have (`LastMoment`), for which the time of the insert is written.
- *Mute.* The main task is idle or about to append an entry; each open mute may
  have a timer task. `cache` is the client's copy of the room's power levels:
  `Room::update_power_levels` sends the whole map of that copy with the given
  changes, and only a sync refreshes it. A timer's task runs beside the sync loop and
  awaits twice, the cached map (`TimerReads`, kept in `fetched`) and the answer to the
  PUT (`TimerWrites`): commands, syncs and other timers come between. The main task's
  read and write are one step, since while it awaits them it neither syncs nor does
  anything else; what timers write in between may as well have come before, and the
  main task's write is stale all the same. There is no clock; a mute expires at any
  time (`Expire`), and its timer fires no earlier.
- *Rooms.* The loop awaits one handler after the other, so a handler's guards can
  be read when it begins; what it then does is a `program` of single steps
  (a statement, a homeserver call, an append), which an error or the end of the
  process cuts short. An error leaves what the code leaves: the rest of the
  handler is dropped, except where the code only logs the error. A sync response
  hands each room's timeline from `reached` to `token` and the invites in `arriving`
  to the handlers, `seen` and `known` are the client's store, as of the last sync. A
  start is the two syncs of `main` and `run`, each of which may fail; then `run`
  discovers rooms and accepts the invites of the store itself (`AcceptPending`). How
  the client delivers (room by room, the messages in order, of a room at most as many
  as the homeserver limits the response to, one of `Limits`) is matrix-sdk and the homeserver, not code of the repository. A message says
  with which words and modes its text matches (no mode implies the other: they differ
  in how they fold case); the first match decides by its
  severity what is done, and the list is ordered by word. Words are banned up to
  case, the collation of their key. A pinned list is a set.
- *FaqReload, FaqBot.* `watching` is whether the watch of notify (inotify, on the
  inode) is on the file at the path; a file renamed over it takes the watch away.
  An event waits with the watcher's thread (`events`), then in the bounded `channel`;
  the task receives it, sleeps (`Debouncing`), reads (`Loaded`) and stores, each a
  step of its own, with saves in between. Notify may report an error in place of an
  event, which the thread drops, and a read may fail though the file parses. `position` is where the syncs are, and the
  initial sync skips what was sent before it.

## 3. What is checked

The properties follow the hazards of `PROJECT.json`. Every property of a passing
run is shown to be sensitive: each module has `Mut...` operators, seeded errors
of the operator that follows them, and with such an error in place TLC finds
the property violated (`mutants`).

| run | instance | shows |
|---|---|---|
| `concurrent` | one license, three deliveries in flight, nine kinds of delivery, all faults | `AccountBacked`, `ReadOnlyLockedOut`, `ProcessedMeansEnforced`, `PasswordOpensAccount`, `ChangesTraced`, `NothingTakenBack` |
| `serial` | one license, four deliveries one after the other, database errors and aborts | the accounts table implements `LicenseRecord` |
| `audit_chain` | three appends, two of them in one millisecond, two foreign commits; texts of two milliseconds in three spellings and one that is no time | `ChainIntact`, `AlterationsDetected`, `ImplementsAtomicLog` |
| `gate` | three deliveries of three requests (one badly signed, with the nonce of another), two ticks to the second, and nonces that live twice the skew, as with the defaults | `AcceptedOnce`, `ReplayIsReplay` |
| `capability` | three presentations of five tokens (one without the capability, one forged with the jti of another, one to expire after the year 9999 and one after chrono's last moment), two ticks to the second, restarts and power failures | `AcceptedOnce`, `ReplayIsReplay` |
| `redeem` | three creations for one invoice, three scans, two seats, all faults | `SeatsCounted`, `OneLoginPerGuest`, `GuestsArrive`, `JoinedOnRecord`, `AliasLeadsToRoom` |
| `rooms` | two rooms, both with a matching alias, the second by invitation; two words, one banned before, one event; two messages out of eleven kinds, responses limited to one or two, one error anywhere, one crash and two starts | `TablesFollowLog`, `PinsFollowLog`, `CacheFollowsTable`, `HandledInOrder`, `DiscoveredAtStart`, `NothingDropped` |
| `mute` | two users of different level, three commands and two crashes but four of them together, all failures | `TimedWhileRunning`, `LevelsFollowLog` and, with fairness, `RecordedMuteEnds` |
| `faq_bot` | two lists, a broken file and none; three changes of the file, one crash, a channel of one, dropped events and failing reads; two messages of two kinds (a question, the bot's own) | `SettledIsCurrent`, `AnsweredOnce`, `AnswersBest` and, with fairness, `ServedInTheEnd` |

Every passing run also checks the `TypeOK` of its module, but for `serial`.

Why these bounds suffice to be interesting: licenses do not share rows, users or
rooms, so one license meets every interaction; three handlers let one be overtaken
by two others, which is what the state checks of the workflows guard against;
in `serial` the fourth delivery lets every state of the record be left again.
Two seats and three scans exercise the limit. The horizon of the gate covers the
window of both stamps, the life of a nonce and a redelivery after its
collection, which the shipped proportion of lifetime and skew allows in the first
ticks of a window (`TooEarly`) and only there; that of `capability` covers the life of a row and the second in which
the token outlives it. Three mute commands give a second mute of a user besides
that of another; two users are needed because a write carries the levels of both;
two crashes interrupt a recovery. In `rooms` two messages with a start before them
give every ordered pair of commands (a word banned, then used; a pin taken back
before or after the next sync), in one response or two; discovery spares the
activation, and the word banned before gives texts with two matches, and a word
banned anew. A response of two messages is cut when the
homeserver limits it to one, and is not when it allows two. Messages and invites come
between two responses; since only a sync and a start look at them, this leaves out
nothing. In `faq_bot` three changes let one come during the load of another while
the channel, of one place, is full.

`CHECK_DEADLOCK FALSE` stands in every configuration because the bounded systems
do stop: all deliveries answered, all commands given.

**Fairness.** Two properties are about what must happen in the end. `FairSpec` of
`Mute` assumes weak fairness of the timers (that some timer goes on while one can),
of the passing of time, of the main task's steps (tokio polls what can go on), and
of `Start`: the service has `Restart=on-failure` with at most five starts in ten
minutes (`deploy/systemd/imogo-moderation-bot.service`), and the model allows fewer
crashes than that. Commands and syncs are not assumed. `RecordedMuteEnds` has the
exception the code has: an unmute whose homeserver or database call failed is only
logged and nobody tries it again. `FileFairness` of `FaqReload` assumes weak fairness
of the steps of `main`, the watcher's thread and the reload task (`Watch`, `Forward`,
`Receive`, `Read`, `Store`), and of nothing else: no one has to start the bot or save
the file. So `ServedInTheEnd` is about a file that stays under a bot that stays up.

**`LevelsFollowLog`** says under which conditions the mutes keep their books:
`trouble` records that a condition was broken (a write whose map is stale when it
arrives, a timer that releases a user whose mute is yet to be logged, a second mute
of a muted user, an unmute of a user who was not muted, a command while the user's
timer is at work, a failure, a crash between a write and its entry). While it is
empty, the levels at the homeserver and the audit log agree. What a timer has read
breaks no condition, only what it sends: it may be overtaken and still be right.

### Where the code differs from what it says

Each of these runs checks one statement of the repository and TLC refutes it;
`findings` quotes the statement.

| run | what happens |
|---|---|
| `rollback` | an expiry that has read the account before a deactivation marked it takes `deactivated` back to `read_only` |
| `bricked` | a redemption that fails after registering its guest leaves the room's next guest name taken: every later scan answers 502 |
| `recovery` | of two mutes that expired while the bot was down, undoing the second mutes the first user again |

Seen while modelling, without a run of their own:

- The defaults (skew 300 s, nonce TTL 600 s, `config.rs` 124 to 126) leave a gap, and
  nothing validates them: `try_insert` may run up to the request timeout after the
  check of the window, and the check cuts the clock down to the second. A request
  that arrived in the first second and request timeout of its window, and again at
  its end, can be accepted twice. `AcceptedOnce` has it as its exception `TooEarly`;
  the corollary `NeverAcceptedTwiceIfLongEnough` says which lifetime closes it.
- Two pin commands between two syncs start from the same cached list, and the
  second takes the first one's pin back (`pinned.rs` 79 to 90). `PinsFollowLog`
  has this as its exception `stale`.
- The answer to `!mod deaktivieren` (`handler.rs` 493 to 497) says that the bot
  ignores the room until it is activated again; the discovery of the next start
  activates a room with a matching alias by itself.
- A user muted again while muted has -1 recorded as his level (`mute.rs` 53), and
  the second timer mutes him for good. `LevelsFollowLog` has this as an exception.
- A capability token is let in until the end of the second `exp + 60`, but its row may
  be collected once that second has begun, and a request that arrived in time may
  insert later still: a token presented then is accepted once more. `AcceptedOnce` says
  until when it is not.
- The row of a capability token that expires after the year 9999 is collected by the
  next insert: its text begins with a sign, or, when chrono has no such moment, is the
  time of the insert itself (`capability.rs` 179). Such a token is accepted as often as
  it is presented in the 24 hours after its `iat` (`Lasting` in `AcceptedOnce`).
- `verify` of the capability tokens never compares `iat` with a clock that is behind
  it, and an expired token is answered like an invalid one: the variant for it is
  not constructed.
- A capability token is used up by the first request that presents it, also when the
  creation of the room then fails (`http/b2c.rs` 40 to 54).
- A FAQ file that is replaced by a rename, as many editors save, takes the watch
  away: that save may still be loaded, later ones are not. A save between the first
  load and the watch is missed too, and a watch that cannot be set up is only
  logged (`main.rs` of the FAQ bot 36 to 57). An event that notify reports as an error
  is dropped (`reload.rs` 25 to 29), and a load that could not read the file is not
  repeated (`faqs.rs` 55). `SettledIsCurrent` has these as its exception `unseen`, when
  nothing else is left of the last change.
- When the initial sync of the FAQ bot fails, messages of before the start are
  answered, again perhaps.
- An admin apart, a moderator's command that names a banned word is itself
  moderated before it is carried out (`handler.rs` 358 to 366), a kick included.
- A failed redaction or kick is recorded like one that was done
  (`handler.rs` 389 to 429).
- When the initial sync of `run` fails, the first long poll has no token and
  delivers messages of before the start, though `run` means not to process old
  events (`handler.rs` 88 to 95).
- An activation that is cut off between the insert and the answer leaves an
  account whose password was never returned; a retry is answered idempotently,
  without one (`provisioning.rs` 303 to 333).
- Two concurrent tier changes may leave the topic of one and the tier of the
  other (`provisioning.rs` 618 to 637). Nor does a redelivery mend the topic
  of a tier change whose topic call failed: the tier is then on record, and the
  answer idempotent (587 to 607). A tier change whose audit append fails stays
  without an entry of its own, though `webhook.received` names it.
- The comment at `audit.rs` 114 to 126 fears a split chain when appends
  overlap. SQLite refuses the second one instead: the chain is safe (`NeverSplit`),
  but that append fails, and the webhook with it.
- `verify_chain` hashes what it reads, not the row's text. A NULL subject is hashed
  like an empty one, and `created_at` after it was parsed and formatted to milliseconds
  (`audit.rs` 237 to 241, 286 to 290): digits below the millisecond, or `+00:00` in
  place of `Z`, change nothing. `AlterationsDetected` excludes just these two.
- A room whose alias was created at the homeserver, but not its row, cannot be created
  again: the alias is taken, and every retry is refused (`b2c.rs` 230 to 270).
- The nonce table's key is the nonce without the key id: senders with keys of
  their own can collide.
- A manual unmute does not cancel the timer of the mute. If the user is muted
  again, the old timer ends the new mute early.
- A timer that has read the cached levels before another user is muted sends its older
  map after it, and takes that mute back, although a sync came in between (`mute.rs`
  114 to 116, 163 to 178). `LevelsFollowLog` has this as an exception.
- A mute whose write succeeds and whose audit append fails, or is cut off by a crash, has
  neither timer nor record: it does not end by itself (`mute.rs` 78). Nor does one whose
  timer's write fails: nobody tries again before the next start (151).
- A banned word of mode `substring` is compared with only its ASCII letters folded, one
  of mode `whole_word` by Unicode's rules (`banned_words.rs` 184 to 200): with letters
  like Ä a whole word can match where the substring does not.
- The header of the bot's `power_level.rs` (6 to 9) says that levels are read
  past the cache; the function (48 to 54) reads the cached ones.

## 4. What is proved

TLC checks the instances above; the theorems hold for every value of the
constants that satisfies the named assumptions (kinds of deliveries and faults,
types of the bounds).

- **`ProvisioningProofs`**: `TypeCorrect`, `AccountsBacked`,
  `ReadOnlyIsLockedOut`, `ProcessedIsEnforced`, `PasswordsOpenAccounts`,
  `ChangesAreTraced`, `NothingIsTakenBack`, for any number of deliveries,
  licenses and handlers in flight. None of these is inductive: that a row names
  an existing room depends on what its handler did many steps ago. The invariant
  `IInv` therefore says of every `pc` value what its handler has achieved by then
  (users and rooms created, entries written, the room locked before
  `mark_expired`), and of every row that it stays backed; late calls can only
  lock, disable or create. One lemma per kind of step shows that it is kept.
  `SerialImplementsRecord`: with one handler at a time (`MaxInFlight = 1`) every step
  is one of `LicenseRecord` or changes nothing of the record. The invariant adds that
  an account that an expiry has found active is so until it writes.
  `OnlyExpiriesRollBack` says what concurrency costs: for any `MaxInFlight`, the only
  step that is none of the record's is a `mark_expired` overtaken by a deactivation,
  which takes it back. `TopicsFollowTiers`, for one handler at a time and no failing
  homeserver call: the topic of a room promises the SLA of the tier on record, unless
  a tier change that explains the difference is about to set the topic, ended in an
  error, or was dropped. The property `TopicFollowsTier` is stated with its proof; TLC
  finds it violated as soon as two handlers may overlap (see the remarks above).
- **`AuditChainProofs`**: `ChainStaysIntact` and `AppendIsAtomic`, the step
  simulation of `AtomicLog`. The invariant adds that the holder of the write lock
  read the newest version (`Fresh`) and drafted a row that continues it
  (`Drafted`).
- **`WebhookGateProofs`**: `NeverAcceptedTwice`, whatever the skew, the lifetime of a
  nonce and the request timeout: the exception `TooEarly` is part of the property. The
  invariant is that the nonce of an accepted request stays recorded until no
  delivery of it can be in the window any more, unless it came too early.
  `NeverAcceptedTwiceIfLongEnough`, a corollary: where the lifetime is at least twice
  the skew, a second and the request timeout (`LongEnough`; the defaults are short of
  it), nothing is too early. `TypeCorrect`, with the nonce as a key; `ReplaysAreReplays`, under `DistinctNonces`: no two signed requests share a
  nonce. Its invariant founds every row on a delivery that got as far.
- **`CapabilityProofs`**: `AcceptedOnceInTime`, `ReplaysAreReplays`, `TypeCorrect`.
  The row of an accepted token that expires before the year 10000 is in every version
  of the table since, or was lost; that what `JtiAssumption` says of the license server holds (a jti of its own
  for each token) is assumed.
- **`B2cProofs`**: `TypeCorrect`, `SeatsAreCounted`, `GuestsAreNotShared`,
  `GuestsHaveArrived`, `AnswersAreOnRecord`, `AliasesLeadToRooms`, for any number of
  invoices, creations, scans and seats. The invariant says of every `pc` value of a
  redemption what it has achieved, that each registered guest has one owner, and that
  whoever holds a name that is free at the homeserver holds the number that is next:
  so the index read long ago is still right when it is written.
- **`MuteProofs`**: `TypeCorrect`, `OpenMutesAreTimed` and `LevelsAreAsLogged`. The
  invariant adds that during a recovery the open mutes without a timer are those
  still before it, and that what fired or was recovered as overdue has expired.
  That the latest open mute exists is proved from the well-foundedness of the
  naturals. For the levels, `Right` says while no call has failed (`trouble = {}`)
  how log and homeserver stand to each other in the middle of a command, of the
  timer's task and of a recovery: each has changed the level and owes the entry, or
  has not touched either. Nothing is assumed of the maps that timers have read, however
  old: whether one is stale is decided when it arrives.
- **`RoomsProofs`**: `TypeCorrect`, `CacheIsCurrent`, `NoMessageTwice`,
  `NoMessageLost`, `RoomsAreDiscovered`, for any rooms, messages, levels, limits and
  numbers of errors and crashes. The invariant types the program of a handler
  (`Programs`: a change of the words is followed by the refresh, a deactivation by its
  record), keeps the cache right but for the refresh to come (`Cached`), bounds what
  was handled by `reached` (`Ordered`, `Complete`), and has the discoveries of a start
  still ahead in its program (`Discovering`). `TablesAreAsLogged` and
  `PinsAreAsLogged` compare words, rooms and pins with a reading of the whole log.
  Their invariant `RInv` says that programs are `Shaped`: a statement is directly
  followed by the refresh or the record that belongs to it; between the two the state
  is what the log would say with the record owed added to it (the `...Now`
  operators), and a moderation about to be done is deserved by what is on record.
  `EntryAppended` says what one more entry changes in the reading of a log; every
  step that records rests on it.
- **`FaqProofs`**: `NoChangeLost`, `RepliesAdvance`, `AnswersAreBest`, `TypeCorrect`. The
  invariant is that the last change the watch saw is in a queue, in the task's hands,
  or served, and that a reply is what was decided for its question over the list then
  served (`Decided`). That `MatchFaq` finds a best entry is proved for lists of any
  length, by the least prefix on which its fold would not, under `ListAssumption`
  (entries are sequences of words).

`AuditChainProofs` also has `TypeCorrect` and, under `CollisionFree` (no two records
have one hash), `NeverSplit` and `AlterationsAreDetected`: whatever texts of `created_at`
there are and however they are read, an alteration that changes what is hashed is
found.

Only model-checked are the liveness properties, `RecordedMuteEnds` and
`ServedInTheEnd`: liveness under fairness and `ENABLED` are out of the prover's
reach. The three violations are TLC's counterexamples. The library's induction
theorems take an operator as a parameter and cannot be used either; where a proof
needs induction (the latest open mute, the fold of `MatchFaq`) it takes the least
counterexample in a set of naturals instead.

## 5. What is not modelled

Identity generation is pure: the models take names, passwords and tokens as fresh.
The appservice endpoints check a token and answer without any effect: transactions
are acknowledged and dropped. Parsing and formatting of commands, HTTP encoding,
migrations, configuration and logging change no state the properties speak of.
The loss of committed SQLite transactions at a power failure is modelled for the jti
table only; for the nonces its effect is the same, for the audit log and the accounts
it is a restart from an older file while the homeserver is ahead, which the models
do not have. A crash of the process loses no commit. In `Rooms`, power levels do not
change, nobody else pins, a kick does not keep its user from writing again, and the
bot is never removed from a room; messages of before it joined are left out. The
rejection of an invite is left out: `is_inviter_allowed` lets in everybody. In
`Mute`, nobody but the bot changes power levels, a command is one that has passed
the checks of `dispatch_command`, and a write to the homeserver that reported an
error takes effect at once or never. The bot's audit append is a single step that
may fail: its transaction has the shape of the provisioner's, so two overlapping
appends fail one of them. Its hash is not modelled: it takes the fields without their
lengths, but only tests call the bot's `verify_chain`. In `FaqBot`, whether a text
addresses the bot is given with the message; that `@bot-faq` is also found at the
head of a longer name is the matter of that conversion.

## 6. Plan

1. Gate, license workflows, audit log: done, with their theorems.
2. B2C: done, with its theorems.
3. Mutes: done, safety proved, liveness checked.
4. Capability tokens: done, with their theorems.
5. Rooms: done, with its theorems.
6. FAQ bot: done, with its theorems; `ServedInTheEnd` stays with TLC.
7. Composition: gate and workflows in one module, so that retries, replays and
   nonces meet the handlers; the audit log's `AtomicLog` as the log of both.
8. Topics and tiers for serial deliveries: proved; no run has the property yet.
9. Power failures of the whole database under the workflows.
