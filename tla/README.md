# CRM LINE OA API: a TLA+ verification project

TLA+ specifications of the CRM back end for a LINE Official Account: what its
two processes, its database rows, its queues and LINE do to each other when
requests, webhooks, timers, redeliveries and crashes interleave. TLC checks
small instances, TLAPS proves for every instance the invariants they check and
the refinements.

## 1. The system

Two Node.js (NestJS) processes share one PostgreSQL database and one RabbitMQ
broker. The **API** (`src/src/main.ts`) serves the campaign, audience, template, rich
menu, dashboard and login endpoints and the LINE webhook. The **Worker**
(`src/src/worker/main.ts`) consumes the queues `broadcast.send` and
`auto-reply.process` and polls for scheduled broadcasts. Redis is an optional
cache that never fails a request. Every statement of Prisma commits by itself,
except for the two array transactions of member login. Node runs a handler
until its next `await`, so every awaited call is a place where another request,
webhook or message can come in between; the two processes interleave freely.

| Component | State it keeps | Operations | Hard about it |
|---|---|---|---|
| Campaigns (API) | row of `broadcasts` | create, update, remove, sendNow | check, await, write by id alone |
| Broadcast scheduler (Worker) | `processing`, the due rows it read | poll, claim, enqueue | stale rows, crash between claim and enqueue |
| Broadcast queue | messages, unacknowledged messages | enqueue, deliver, ack, requeue | lost confirms, redelivery, broker restart |
| Broadcast consumer and delivery (Worker) | recipients, successes, failures in memory | load, send in batches, logs, row, ack | half-done sends, zombie handlers after a lost connection |
| Member login (API) | `otp_sessions`, `line_users.userType/phone` | requestOtp, verifyOtp, unfollow | overlapping logins and webhooks |
| LINE webhook (API) | `line_users.status` | follow, unfollow, message | events handled side by side, failed, sent again |
| Auto reply (both) | rules, messages, reply tokens, `triggerCount` | webhook, match, reply, push fallback | single-use reply tokens, redelivery |
| Message quota (both) | quota columns of `line_accounts`, loads in flight | cached read, refresh after a broadcast | two writers, usage counted twice |
| LINE account (API) | `line_accounts` | save, test | delete and create in two statements |
| Rich menus (API) | `rich_menus`, menus at LINE, objects in storage | create, apply, remove | four systems, no transaction |
| Audiences (API) | `audiences`, cached counts | CRUD, estimate, count | overlapping updates, shared loads, keys |
| Templates (API) | `message_templates`, cached list | CRUD, list | invalidation racing with a fill, signed URLs |
| Message builder, merge tags | none | blocks to LINE messages | merged or not, per recipient or at once |
| Dashboard (API) | cached overview | overview | hours and days of another time zone |
| Auth, users, storage, metrics, logging | rows, objects, counters | one statement each | nothing that interleaves |

What makes them correct, component by component:

* **Broadcast**: who asked for one sending gets one, unless the broker delivers
  a message again; a row in `processing` has a message on its way; counts add up and
  are backed by log rows; log rows are true; the queue never stops.
* **Member login**: a Member has verified the phone he has, since he last
  joined; wrong codes are bounded; a phone has one owner; guests do not see the
  member menu.
* **LINE webhook**: the status of a follower is wrong only as long as an event is old:
  the one that wrote it last came before the last follow or unfollow.
* **Auto reply**: one answer per message unless something was lost;
  `triggerCount` counts answers; no message is forgotten.
* **Rich menus**: a row has its menu at LINE and its image; one menu per type is
  active; the active one is what LINE shows, to everybody or to the Members.
* **Quota, account**: the stored usage is wrong only in ways that can be named; what
  is left fits what is used; an account is not lost.
* **Audiences**: stored criteria fit their type; no audience shows the number of
  another; a load ends.
* **Caches**: a cached list misses a complete change only for a cause.
* **Templates and messages**: no stored URL expires; who is sent the unmerged message
  would have got the same one merged.
* **Dashboard, layouts**: the trend adds up to the totals; areas are on the menu.

`PROJECT.json` lists the hazards at their lines with the properties that watch
them.

## 2. The plan

In the order of what a failure would cost. All of these are written.

1. `Broadcast`, implementing `WorkQueue`: campaigns, scheduler, queue, consumer,
   delivery. Proved: types, stalls, duplicates, results, the queue.
2. `MemberLogin`, implementing `PhoneBook`: codes, promotion, follow and unfollow.
   Proved: types, verification, attempts, the menus of guests, the phone book.
3. `AutoReply`, implementing `WorkQueue`: webhook, queue, consumer, reply, rules.
   Proved: types, answers, triggers, what is recorded and handled, the queue.
4. `RichMenu`: rich menus in the database, at LINE and in the storage. Proved:
   types, and the four properties of rows and menus.
5. `LineQuota`: the message quota with its two writers, and the LINE account.
   Proved: its four properties.
6. `AudienceCriteria`, `Audiences`: criteria, clauses, keys, and the shared loads.
   Proved: what is stored fits, keys are sound.
7. `ListCaches`: templates and dashboard over Redis. Proved: staleness.
8. `DashboardTrend`, `RichMenuLayout`, `MessageTemplates`: the pure parts. Proved: the
   sums of the trend, the areas and grids, messages without tags, stored and sent URLs.
9. `Follows`: the status of a follower and the order of events. Proved: its property.
10. `Api`, the composition of 6 to 9. Proved: all of its invariants.

With these, every invariant, action property and refinement that a passing run
checks is a theorem too. What the runs check without one is liveness (section 5).

## 3. The modules and the code

One action stands for the code from one `await` to the next, together with the
effect of the awaited call. `PROJECT.json` maps each definition to its lines. A
definition named `Faulty...` is a plausible bug of the definition after it, used
to see that the properties notice; no specification uses it.

**`Broadcast.tla`** has the row of a broadcast (`status`, `due`, `tally`, `sentLog`), the
requests of the API with what they have read (`request`), the queue (`queue`), the
scheduler (`sched`), the runs of the consumer (`handler`) and what followers got
(`reached`).
`UpdateRead`/`UpdateWrite`, `RemoveRead`/`RemoveWrite`, `SendNowRead`/`SendNowWrite` are
the two halves of the calls in `campaigns.service.ts`; `QueueBroadcast` is the
enqueue after the row. `Poll`, `Claim`, `PublishClaimed` and `PollEnd` are
`pollScheduledBroadcasts()`. `Receive`, `Load`, `Send` (one batch), `WriteLogs`, `Save`,
`Ack` and `MarkFailed`, `AckFailed` are `handleMessage()` and `deliverBroadcast()`.
`ApiCrash`, `WorkerCrash`, `ConnectionLost` and `BrokerRestart` are the environment.
After `ConnectionLost` a handler goes on although its message is redelivered; when
it comes to its `ack`, that throws, the catch marks the broadcast failed, its `ack`
throws too, and the worker ends (`AckFailedThrows`, `WorkerDies`). Times are
relative to the clock (`future`, `past`), and `TimePasses` makes one due. The DTO of
`update()` takes any string as a status (`@IsString()` alone, where that of `create()` lists
the values): `FreeStatuses` are strings beside the five, and rows and bodies have `Stored`.

**`MemberLogin.tla`** has `line_users` (`status`, `type`, `phone`), `otp_sessions` as a
sequence in order of creation, the menu LINE shows, and the calls in flight.
`RequestOtp` to `CreateSession`, `VerifyOtp` to `LinkMenu`, and `Unfollow` to
`UnlinkMenu` are the statements of the two login calls and the webhook.
`Promote` and `Revert` are the two transactions; the unique index on
`(lineAccountId, phone)` makes `Promote` fail.

**`Follows.tla`** has one LINE user (rows of different users are independent): whether he
`follows`, the status of his row (`rowStatus`), and his events in the order in which they
happened (`webhooks`). `LookUp` and `Upsert` are `handleFollowEvent()` and
`getOrCreateLineUser()`, which an automatic reply calls a second time after an error;
`FindRow` and `RevertRow` are `revertLineUserToGuest()`. Each look-up and write may fail,
an error is logged and LINE has its 200; the process may die; LINE may send an event
again when its handling is over (`SentAgain`). A repetition that overlaps the first
handling of the same event is left out. `writer` remembers the event that had the last
word on the row.

**`AutoReply.tla`** has the webhook per event (`hook`), the rules, the queue, the runs
of the consumer, the reply tokens and the counters. `Arrive` to `Enqueue` are
`handleEvent()`, `Match`, `Reply`, `Push`, `Count`, `Acknowledge` are `handleMessage()` with
`processAutoReply()`. A rule is its urgency, its switch and the events it matches.

**`RichMenu.tla`** has `rich_menus` (`row`), the menus LINE has and shows (`atLine`,
`default`, `shown`), the images, and the calls in flight. `Create` to `Insert` are
`create()`, `Apply` to `SwitchOn` are `applyMemberMenu()`, `Remove` to `Drop` are `remove()`,
and `Join` to `Welcome` the link at login. LINE and the storage can refuse a call,
or do it and lose the answer; where the code goes on alike, that is the step
that succeeds. An image is named by the millisecond of its upload
(`buildKey`), so two uploads of one millisecond share a name.

**`LineQuota.tla`** has the row of `line_accounts` (`acc`) with its id, its limit, what is
used, what is left and the time of the sync; the broadcasts of the worker
(`phase`, `at`), LINE's counter (`month` was sent, `reported` is in it), the loads in
flight and the requests that save or test the credentials. `Ask` to `Catch` are
`loadMessageQuotaForUser()`: `Ask` joins a load that is running
(`messageQuotaInflight`), `Finalize` starts the one the worker forces. `MergedUsed` is
`mergeQuotaUsage()`: the larger of LINE's figure and the stored one plus what is new.
`SaveRead` to `Stamp` are `upsertLineAccount()` with `saveLineAccount()` and
`updateOaInfo()`. Each figure carries its history: the broadcasts it counts (`of`),
whether one of them twice (`again`), and whether LINE lagged or another write
came between its question and its write (`stale`).

**`AudienceCriteria.tla`** has the rules about criteria as operators: `Accepts` and
`Normalized` are `normalizeAndValidateCriteria()`, `Selects` is what the clause of
`buildRecipientWhere()` means for one LINE user, `CountKey` the Redis key of the count.
**`Audiences.tla`** has one audience, the requests about it, and per key the load in
`countInflight` and whether Redis has the number. `UpdateRead` and `UpdateWrite` are the
two halves of `update()`; `AskCount` to `SetCount` are `getCachedCount()`.

**`ListCaches.tla`** has the two answers the API takes out of Redis when it writes: the
list of templates (`findAll`, keyed by user) and the overview (`getOverview`; its
three periods are one key here, since they are filled one by one and deleted
together). An answer is abstracted to how many changes of each kind it includes.
Every call of `RedisService` may fail unnoticed.

**`DashboardTrend.tla`** (range and trend in half hours), **`RichMenuLayout.tla`** (grids,
bounds and the checks of `create()`, in real pixels) and **`MessageTemplates.tla`** (the
checks before a template is stored, stable and signed URLs, merge tags, and the
messages LINE is sent) are functions of their arguments. A text is one of the
kinds the code tells apart: without a tag, with a tag that always has a value,
with one that may be empty, with an unknown one. What these modules add up or pick
out of a sequence (`SumOver`, `Only`, the cells of a grid) is a fold of the community
modules, which the prover can unfold, and not a recursive operator.

**`Api.tla`** joins the audiences, the lists, the follower and the functions, which share no state:
its variable `part` says which of them a behaviour is about, so each is explored by
itself, and a behaviour of the functions is one state that holds an `input`. The
constant `Inputs` is any set of arguments of the four kinds (`InputsAssumption`): an
audience to count, a query with the time and the rows, the areas of a menu, the
blocks of a template. What is assumed of them is what the types of the columns and
the checks of the DTOs give, and that the calendar has a month that began by then.

**`WorkQueue.tla`** and **`PhoneBook.tla`** are abstract: what a consumer that
acknowledges by hand promises about its messages, and a phone book in which
nobody takes a phone from somebody else.

**`MC*.tla`** instantiate these for TLC; `MCApi` has the bodies of the requests and the
inputs. **`*Proofs.tla`** hold the theorems of the module they are named after; the
refinement and the duplicates of `Broadcast` are in `BroadcastQueueProofs`, and the theorems
of what `Api` joins are in `ApiProofs`. `FoldProofs` has what they share about folds,
sums and the largest element of a set.

## 4. What is checked

Every loss, duplicate and overlap that the code cannot prevent is recorded by a
history variable at the step where it happens (`dropped`, `extra`, `crossed`,
`missed`, `halted`, ...), never by the property. The properties then say: the bad
thing has one of *these* causes and no other.

| Run | Instance | Shows |
|---|---|---|
| `broadcast_safety` | 1 broadcast, 2 requests, 2 followers in batches of 1, 2 handlers, 1 fault, every DTO, with a status that the program does not know | `StallsHaveACause`, `DuplicatesHaveACause`, `CountsAddUp`, `SuccessIsLogged`, `LogsAreTrue` |
| `broadcast_liveness` | 1 follower, one DTO per effect | `QueueDrains`, `DueIsClaimed`, `ProcessingEnds`, and `KeepsWorkQueue` (refinement) |
| `broadcast_edits` | as above | violated: `EditsOnlyEditable` |
| `broadcast_due` | as above | violated: `ClaimsOnlyDue` |
| `broadcast_durable` | as above | violated: `MessagesStay` |
| `member_login` | 2 users who want 1 phone, 2 calls at once, 2 sessions, 1 attempt | `MembersAreVerified`, `AttemptsBounded`, `GuestMenusHaveACause`, `KeepsPhoneBook` (refinement) |
| `member_verify` | 1 user, 1 call | violated: `VerifyAgain` |
| `auto_reply` | a text and a postback, 2 rules, 1 edit, 2 runs, 1 fault | `AnswersHaveACause`, `RecordedIsNotForgotten`, `HandledIsAnswered`, `TriggersAreAnswers`, `KeepsWorkQueue` |
| `auto_reply_liveness` | 1 rule | `RecordedIsHandled` |
| `rich_menu` | 2 menus, 2 calls at once, 1 fault; 2 milliseconds without or 1 with 2 users | `OneActive`, `RowsAreBacked`, `ActiveIsDefault`, `AppliedIsShown` |
| `quota` | 2 broadcasts of 2 messages, 2 saves or tests, 2 of these four in all, limit 2 | `OverstatedIsExplained`, `CountedStaysCounted`, `LeftFitsUsed`, `AccountStays` |
| `api`, audiences | 1 audience, 3 requests, 6 bodies | `CriteriaFitType`, `LoadsEnd` |
| `api`, lists | 1 template, 4 callers, any failure of Redis | `StaleHasACause` |
| `api`, follower | 4 events, any failures, crashes and repetitions | `WrongStatusIsOld` |
| `api`, functions | see below | `KeysAreSound`, `TrendAddsUp`, `LayoutsFit`, `UntaggedNeedsNoMerge`, `StoredMediaLast` |

The first run of `Broadcast`, `MemberLogin`, `AutoReply` and `RichMenu` checks `TypeOK` too.

**Bounds.** `MaxFaults`, `MaxEdits`, `MaxSessions`, `MaxMenus`, `MaxTime`, `MaxEvents` cap what would be
unbounded; each is a conjunct of a guard. One broadcast is enough for what
happens to *a* broadcast: the parts share only the queue and the scheduler,
and what that can do to a second one is covered for any number by the proofs
(`StallsCorrect`, `DuplicatesExplained`, `ResultsCorrect`, `ImplementsWorkQueue`). Two requests, two handlers
or two calls are the least that overlap; two followers in batches of one make
a delivery that stops half way. One fault is one cause; two users are the least
that can quarrel over a phone. `MaxAttempts = 1` with two calls at once reaches the
count `MaxAttempts + 1`, the most that two calls can reach. Two sessions allow an old
one and a new one. The rich menu run has a constraint (`NamesOrMembers`): the milliseconds
matter for the images only and the users for the links only, so a behaviour has
two of the one or of the other. The limit of 5 attempts, the
batch size (500), and prefetch 5 of the auto reply queue become 1 or 2: the code
compares them and does nothing else with them.

`MaxWork` lets two of the broadcasts and saves happen in the quota run: two
broadcasts, two saves, or one of each, with any number of loads, months and
lags of LINE between them; a broadcast of two messages to one user tells units
and recipients apart. Three requests are needed for the audience, because the
third creates what the other two overlap on, and four callers for the lists: one
fills, one writes and deletes, and one more writes after that or fills again. Four
events are a follow, a message and an unfollow, and one more that repairs or spoils
what they leave. One string that is no status of the program stands for all of them, since
the code compares a status only with the five.
The inputs of the functions: criteria over two numbers of days, one for each list of
types, list of tiers, mode and days that a type reads (`FewCounts`), each compared with
all stored criteria, whatever their lists, against LINE users of every type and tier; every query
at the first, the last and an inner half hour of days and months, with
broadcasts at and around the edges; every layout, with each mixture of one or two
areas and up to 21 of one kind, on the edge and a pixel past it; and every type of
block, alone or after a text, and six of them.

**Symmetry** is used in the safety runs, for sets the specification never tells
apart.

**Fairness** (`FairSpec`) is weak and on the program's own steps: Node resumes an
`async` function when the awaited call has answered, and each client in use ends
a call with an answer or an error. `@Cron` and the broker make polls and deliveries
come again, and the clock goes on. There is no fairness on requests, on
webhooks' arrival, on edits, or on faults, of which there are at most `MaxFaults`:
a system that is hit for ever need not finish. `AudienceFairness` is weak fairness of
a load that is in flight, because Redis and the database answer or fail; the other
parts of `Api` have none. The worker is restarted by `restart: unless-stopped` of
`src/docker-compose.prod.yml`.

**What the violated runs show.** (1) `update()` and `remove()` check the status on a
row they read and write by id alone: a broadcast that has just been taken for
sending is edited or deleted. (2) The scheduler claims by status alone: a
broadcast that was moved to the future between `findMany` and `update` is sent now.
(3) The queue is durable but its messages are not: a broker restart drops them,
where the specification document says they survive. (4) A user who has unfollowed
can log in while blocked and is a Member at once when he follows again, where a
comment says he must verify again.

**What the passing runs say about the quota, the audiences, the followers and the messages.** Some
properties allow for what the code really does; these are the ways.

* The stored usage is too high (`again`) when a request loads the quota after a
  broadcast has its `sentAt` and before the worker's refresh reads the row, while
  LINE lags: both add the broadcast. It is too high (`of` outside the month) when
  LINE's counter has started again: stored plus extra is larger than the new count.
* Saving the account deletes the row and creates another: a refresh that has read the
  old id writes nothing, a failure between the two leaves no account, and the
  cascade takes the LINE users of the account along each time.
* An update of the criteria alone that overlaps with a change of the type leaves
  criteria that do not fit the type (`mixed`): the audience counts others, or nobody.
* A broadcast may drop out of the stored usage when LINE's counter lagged behind it, or when
  another write came in between (`stale`). Any lag excuses it, also one that did not
  cause the loss: what `CountedStaysCounted` then tests are the loads that fail, the cached
  figure, and the merge when LINE is up to date.
* A user who has left is `following` again when an older message, or an older follow, is
  handled after his unfollow or sent again, and stays so until a later event is
  handled; the converse holds for an unfollow that comes late. Nothing compares the times
  of the events. `WrongStatusIsOld` allows just that, and says that one follow or unfollow
  handled last puts the row right.
* A list that was loaded before a change and stored after it stays for its time to
  live (`excused`); so does the overview after all but `CampaignsService.create()`.
* `{constructor}` and other names that every JavaScript object has are no tags of
  the program but are replaced nevertheless (`builtin`): `values[key]` finds them on
  the prototype. `UntaggedNeedsNoMerge` excepts them.
* The `days` of a dashboard query never count, because the DTO gives `period` a
  default (`ToDto`), although a comment keeps them for older clients.
* `withAccessibleMediaUrls()` of the delivery does not sign the URL of a video, and
  URLs inside flex contents are neither made stable nor signed: `Images` leaves
  both out.

## 5. What is proved

TLAPS checks these theorems for every value of the constants, from the `ASSUME`s
of the modules, which TLC evaluates in the runs:

* `NoBroadcast`, `NoUser`, `NoPhone`, `NoEvent` are outside the sets they stand beside, and
  `"api"`, the name of the API's own quota load, is no broadcast;
* followers, broadcasts of the quota, rules, concurrent calls of a login and runs
  of a consumer are finite sets: the theorems that count them need it, and they
  are rows, requests and messages in a process;
* bounds are natural numbers, the batch size and the sizes of a broadcast are
  positive, a broadcast is at least one message per recipient, days are positive;
* `FreeStatuses` has none of the marks `"unborn"`, `"deleted"`, `"keep"` by which `Broadcast` says
  that there is no row or no field: a mark is none of the strings that a request sends;
* `InputsAssumption`: the functions of `Api` get arguments of their types.

Safety over all behaviours has one shape throughout: an inductive invariant that
contains the property and what has to be remembered between its steps, one
lemma per group of actions, and a last step in temporal logic.

**`BroadcastProofs`, `BroadcastQueueProofs`**

* **`TypeCorrect`**: `TypeOK`, with whatever strings `update()` can store (`FreeStatuses`),
  is inductive as it stands, since it says of every part
  that is in the middle of something that it knows its broadcast.
* **`StallsCorrect`**: `StallsHaveACause`. Alone it is not inductive: `ConnectionLost`
  puts one message back, so a second one in the hands of the worker would
  vanish. `OneLive`, the effect of prefetch 1, excludes that.
* **`DuplicatesExplained`**: `DuplicatesHaveACause`. It says nothing of sendings
  that are still to come. `SendingsFit` counts, per broadcast and follower, the deliveries
  made, the open schedule, the requests and the scheduler between row and queue,
  the messages in the queue and the handlers that have yet to send: together they
  are no more than what was asked for and delivered again. Every action moves
  one from a place to the next, or adds to the right side as well. That few requests
  and handlers are at work at a time (`FewActive`) is proved along, not assumed.
* **`ResultsCorrect`**: `CountsAddUp`, `SuccessIsLogged` and `LogsAreTrue`. `ResultInv` adds
  what the lists in a handler mean at each point (`WorkOK`: a partition of the targets;
  successes were delivered; between the two writes of `finalizeBroadcast()` the logs
  are there) and `OnlyGrows` says that no step of anybody else takes that away.
* **`ImplementsWorkQueue`**: `KeepsWorkQueue`. The mapping takes the messages of handlers
  whose channel is open as held, and those that are at an acknowledgement as finished.
  Each step is a step of `WorkQueue` or a stutter; `OneLive` is what makes `Requeue`
  a `Disconnect`.

**`MemberLoginProofs`**

* **`LoginTypeCorrect`**, **`LoginVerified`**, **`ImplementsPhoneBook`**: `TypeOK`,
  `MembersAreVerified`, `KeepsPhoneBook`. `LoginInv` adds that a call goes on with a session
  of its own user and phone (`CallsMatch`) and that what an unfollow left undeleted is
  younger than it (`LeftBehind`): `Promote` needs its session still there, which is why a
  login that an unfollow overtakes does not survive.
* **`PhonesHaveOneOwner`** is drawn from the refinement alone: what holds of the phone
  book holds of the login, so no two users have one phone.
* **`AttemptsStayBounded`**: `AttemptsBounded` is inductive with `TypeOK`, because it counts
  the calls that have passed the check and not yet counted their wrong code.
* **`GuestMenusExplained`**: `GuestMenusHaveACause`. The unlink trusts what the webhook
  read of the user; `LeavesKnown` says that a webhook whose reading is out of date
  is one of the recorded races.

**`AutoReplyProofs`** (all rest on `IdleHoldsNone`: a run that is over holds no message)

* **`ReplyTypesHold`**, **`RecordedStaysKnown`**, **`ImplementsWorkQueue`**: `TypeOK`,
  `RecordedIsNotForgotten`, and the refinement, with any prefetch.
* **`AcknowledgedIsAnswered`**: `HandledIsAnswered`, with `RunsAnswer`: a run that is past
  its sends has reached the user or says why not.
* **`TriggersWereSent`**: `TriggersAreAnswers`, with `CountsFit`: the runs between the send
  and the update of `triggerCount` are counted with it.
* **`AnswersAreCaused`**: `AnswersHaveACause`, with `CausesFit`, a count over the webhook, the
  queue and the runs like that of `DuplicatesExplained`.

**`RichMenuProofs`**: **`MenuTypesHold`**, **`OneMenuIsActive`**, **`RowsHaveTheirParts`**,
**`DefaultIsTheActiveOne`** and **`AppliedMenuIsShown`** are `TypeOK`, `OneActive`,
`RowsAreBacked`, `ActiveIsDefault` and `AppliedIsShown`. `MenuInv` is one invariant for all of
them: no two calls switch a type that is not `crossed` (`OneSwitches`), an image's name
that is not `shared` has one holder, row or call (`KeysFit`), and who applies a menu has the
Members that nobody else greets (`LinksFit`). The run has a constraint to keep it
small; the theorems have none.

**`LineQuotaProofs`**: **`AccountNeverLost`**, **`LeftIsLimitLessUsed`**,
**`OverstatedOnlyIfExplained`** and **`CountedIsKept`** are `AccountStays`, `LeftFitsUsed`,
`OverstatedIsExplained` and `CountedStaysCounted`. A figure on its way through a load or a
save must already be explained (`Explained`) and, unless it is recorded as late,
must already include what is counted (`Kept`): the row only takes over what they hold.

**`ApiProofs`**

* **`StoredCriteriaFit`**: `CriteriaFitType`. What an update is about to write was
  normalized for the type that it read (`UpdateFits`); normalizing again changes nothing
  (`NormalizedFits`).
* **`StaleExplained`**: `StaleHasACause`, with the shape of what Redis holds.
* **`StatusExplained`**: `WrongStatusIsOld`. `FollowInv` says what the last word was: the
  status is that of the kind of event `writer` (`WordIsRight`), and the last follow or
  unfollow of the sequence is what the user does. The number of events has no limit.
* **`ApiKeepsItsParts`**: the three hold in the composition, which takes no step but theirs.
* **`KeysStaySound`**: `KeysAreSound`. `KeysAreSoundAlways` says it of every type and of any
  two stored criteria, with any lists of types and of tiers, modes and numbers of days: a
  key keeps what the selection reads (`SelectionReads`). The run has two numbers of days.
* **`TrendStaysComplete`**: `TrendAddsUp`. For every query, time and calendar with a month
  start by then, now is in the range and each instant of the range is in one bucket
  (`OneBucketEach`); so the rows that were sent in the range are the disjoint union of
  the buckets' rows, and a sum over a set is that of its parts (`SumOfParts`), for
  any number of rows and any counts (`TrendIsComplete`).
* **`LayoutsStayFit`**: `LayoutsFit`. The parts of `splitSize()` add up to the whole
  (`SplitParts`: quotients that are rounded down, the rest in the last part), so the cells
  of a grid of any size and any number of rows and columns are in order, disjoint and
  cover it (`GridsTile`); an area that was accepted is on the image, whatever areas are
  sent (`AcceptedAreasFit`).
* **`SharedStaysTheSame`**: `UntaggedNeedsNoMerge`. Merged or not, blocks of any number
  without tags give the same messages (`UntaggedIsShared`), and what is read from
  storage is typed also when blocks of unknown types are left out (`SharedIsTheSame`).
* **`MediaStaysStored`**: `StoredMediaLast`. What is shown and saved again is stored as it was,
  and no stored URL is signed (`StoredUrlsStay`); every message sent is that of one
  block (`MessageOfBlock`), whose images are pictures of it (`ImagesOfBlock`), and these are
  signed where they are ours, merged or not (`SentPictures`).

**`FoldProofs`.** The folds of the community modules are recursive functions on the
subsets of a finite set, chosen by `CHOOSE`: nothing is known of one until a function
that solves its equation is shown to exist. The induction theorems of the library
take an operator as a parameter and cannot be used here. `AllNaturals` and `AllSubsets`
are induction for a *set* in their place: if some number, or some finite subset, were
not in the set, there would be a smallest one, and it would be one step from one
that is. Each use names the set it is about. `FoldExists` and `FoldUnique` then give the equation
of every fold in use, and `SumFacts` to `SumOfTwo` the laws of sums. `OnlyExists`, `OnlyTyped`
and `OnlyAll` in `ApiProofs` do the same for `Only`; it stands where `SelectSeq` could,
because the prover takes `SelectSeq` as given and does not look inside.

**Model-checked only.** Liveness, because fairness and `ENABLED` are out of the prover's
reach: `QueueDrains`, `DueIsClaimed`, `ProcessingEnds`, `RecordedIsHandled`, `LoadsEnd`.
The four violated runs, which are counterexamples. `FoldProofs` proves by
hand the inductions that the theorems above need; what a recursive definition
computes in general stays out of reach.

## 6. What is not modelled

* Errors of PostgreSQL, except where a `catch` of the code turns them into another
  state (`markBroadcastFailed`, `finalizeBroadcast`, the triggers of rules, `WriteFails` of a
  template). Most other statements are the first of their request to change anything. The
  rich menus are the exception: when one of the last two statements of `create()` or
  `applyMemberMenu()` throws, LINE has been changed already. Then the menu and its image
  stay without a row, or no menu of the type is active. `RichMenu` has no step for one
  such failure; it has `Crash`, which leaves the same rows, menus and images, but ends
  all other calls as well.
* One snapshot for the dashboard: `DashboardTrend` reads tile and trend from the same rows,
  while `buildOverview()` sends their queries as separate statements of one `Promise.all`. A
  delivery that commits between them is in one and not in the other, until the overview
  is computed again.
* The names of merge tags: the function that looks for tags and the one that replaces them
  have a list of names each (`MERGE_TAG_DEFINITIONS`, `buildMergeTagValues`). `MessageTemplates`
  has kinds of tags, which both share, so it would not notice a name that only one
  of them knows. `UntaggedNeedsNoMerge` is about the fields and the types of block that the
  two look at.
* How a signed URL is made: that the stable URL of a signed one is the one it was made from
  is what `ToStable` and `Resolve` are, not a result. `StoredMediaLast` says which fields go
  through them, when, and what stays unsigned.
* LINE plans without a limit: `Limit` is a number. Without one the columns for the limit
  and what is left are null, and `LeftFitsUsed` has nothing to say.
* Which followers the audience type of a broadcast selects (`getRecipients`): `Load`
  chooses any set. The saved audiences are not used by the delivery.
* Wording, sizes and styles of messages, and logging.
* More than one LINE account: each query is by account, so accounts meet only in
  the shared queue. `LineQuota` has the replacement of an account; that its cascade
  deletes LINE users and rich menus while other calls use them is not composed in.
* The unfollow of a Member while menus are applied: `MemberLogin` has it for one
  menu; in `RichMenu` Members only come.
* Credentials from the environment without an account, in which case `create()` of a
  rich menu writes no row.
* Lists and statistics that only read, the uploads of template media, auth and
  users (one statement per request), metrics, the cryptography of signed links.
* The time a figure or a list may be cached (`MESSAGE_QUOTA_CACHE_MS`, the times to
  live): a cached value may expire at any moment, or late. So an overview that was
  cached before midnight may be shown for some minutes after it.
* The status of a row meets the login only by its kinds: `Follows` has no logins, and in
  `MemberLogin` follows and other events come in any order.
