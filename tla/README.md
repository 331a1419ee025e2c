# ClawScale: a TLA+ verification development

ClawScale is an API process (`packages/api`, Hono on Node with Prisma over
PostgreSQL), a web dashboard (`packages/web`), and external services it talks
to: a reminder runtime, messaging providers, AI backends, Google and Stripe.
The API keeps everything that matters in database rows. A handler is a straight
line of awaited statements; between two of them any other handler, in this
process or another one, may run. Few handlers use transactions. Correctness
rests on guarded updates (`updateMany` with a status in its `where`), unique
keys, timestamps used as claims, fingerprints inside tokens, and clean-up on the
error paths. The pages of the dashboard are of the same kind: actions and loads
overlap, and their answers come in any order. This is what the models are about.

Paths are relative to `src/packages/api/src/`; those that begin with `web/` are
relative to `src/packages/`.

## 1. Inventory

Each part with its state, its operations, what is hard about it, and when it is
correct. `PROJECT.json` lists them with their status, and the hazards of each at
the line where they bite, with the properties that cover them.

**Reminders and friends**

* **Shared reminder requests** (`scheduling/shared-reminder-service.ts`). A row
  (status, `resolved_at`, which is also the claim of whoever is accepting, the
  two reminder ids, the friendship id), at most one projection per side, audit
  events, the reminders held by the runtime. Create, accept, reject, cancel, and
  the sweep that expires due requests. No transaction spans the database and
  the runtime; a claim can be taken over after `STALE_PENDING_CLAIM_MS` while
  its owner still runs; the losers of a race delete what a winner may have
  adopted. Correct when one call decides and everybody is told the truth, an
  accepted request has both reminders and a declined one none, no reminder
  exists that no row names, and the audit trail agrees with the row.
* **Friendships and friend requests** (`scheduling/friendship-service.ts`).
  Request, accept, reject, cancel, and remove: a transaction that invalidates
  pending shared reminders, then a clean-up loop over the runtime outside it.
  Correct when nothing stays pending under a removed friendship, the clean-up is
  complete also when repeated, and a pair has one active friendship.
* **User links and link sessions** (`scheduling/user-link-service.ts`). A link of
  a customer, sessions that are used once, friend requests made from them.
  Correct when every session that was used has its request.
* **Scheduling routes** (`routes/internal-scheduling-routes.ts`,
  `routes/customer-scheduling-routes.ts`, `scheduling/friend-target-resolver.ts`,
  `scheduling/friend-calendar-facts-service.ts`). A tool of the agent names a
  friend or a row, the route resolves it and calls a service in a later
  statement. Correct when nobody acts in a role that is not his, and busy times
  are shown to friends only.
* **Reminder runtime client** (`lib/reminder-runtime-client.ts`). HTTP; a call
  may fail before or after taking effect.
* **Product notifications** (`scheduling/notification-service.ts`). A status;
  enqueue (create and one attempt) and drain (an attempt at whatever is not
  delivered). Attempts overlap and cannot tell a lost answer from a lost request.
  Correct when delivered means delivered and a success is not recorded as a
  failure.

**Gateway**

* **Outbound delivery** (`routes/outbound.ts`, `channel/outbound-delivery.ts`).
  One row per idempotency key (pending, failed, succeeded; payload and target).
  Racing first requests, racing retries, routes that change in between, crashes.
  Correct when one sends at a time, the same message to the same place, nobody
  after a success, and answers are true.
* **Shared channel provisioning and parked messages**
  (`lib/shared-channel-provisioning.ts`, `lib/parked-inbound.ts`,
  `scripts/replay-parked-inbounds.ts`). A status per external identity, parked
  messages. The first message provisions, others wait and park themselves, a
  script replays. Routing may return nothing for a message: the script then
  leaves its row where it is. Correct when a message has a result or stays where
  the script finds it, and has one only for a customer the agent has accepted.
* **Business conversations and delivery routes** (`lib/business-conversation.ts`,
  `lib/route-binding.ts`, `routes/coke-delivery-routes.ts`,
  `routes/coke-bindings.ts`). A binding from a key to a conversation and active
  routes; binds read the claimant in one statement and write in another. Correct
  when a key has one owner and an active route leads to its conversation.
* **Inbound routing, end users, backends** (`lib/route-message.ts`,
  `lib/clawscale-user.ts`, `lib/ai-backend.ts`). End users, conversations, link
  codes that connect end users across channels, accounts that end users are bound
  to, backends and their selection, histories. Correct when a backend is given the
  history of others only if codes or an account connect them with the sender, is
  asked with the message it is asked about, and no answer that came is lost.
* **Webhook gateway, attachments** (`gateway/message-router.ts`,
  `channel/wechat-ecloud-webhook.ts`, `lib/inbound-attachments.ts`). Which
  callbacks are accepted, what they are turned into, and receipts. Correct when a
  message that is delivered again is stored once.
* **Personal WeChat channel** (`adapters/wechat.ts`,
  `routes/user-wechat-channel.ts`, `lib/personal-wechat-channel.ts`). Channel
  rows, bots in a map of the process, logins, a poll loop per bot, restart and
  restoration. Correct when no bot outside the map receives, row and bot agree
  once nothing is under way, and the loop passes over no message.
* **Shared channel administration** (`routes/admin-shared-channels.ts`,
  `channel/linq-api.ts`, `channel/evolution-api.ts`). Create, connect,
  disconnect, patch and archive, each against a provider and with roll-back.
  Correct when a provider delivers exactly to connected channels.
* **Administrators** (`routes/admin-admins.ts`, `middleware/admin-auth.ts`,
  `scripts/bootstrap-admin-account.ts`). Correct when one always stays.

**Customers**

* **Authentication and account claims** (`lib/customer-auth.ts`,
  `lib/claim-token.ts`). Accounts and stateless tokens that carry a fingerprint
  of the row: checked, then updated by id. Correct when the claim requested last
  is the one that counts and an active address was proved.
* **Subscriptions** (`routes/customer-subscription-routes.ts`,
  `lib/coke-subscription.ts`, `lib/coke-account-access.ts`). Payments reported
  twice, late, out of order. Correct when each buys its days once.
* **Calendar import** (`lib/google-calendar-import-runs.ts`,
  `lib/calendar-import-handoff.ts`, `lib/google-calendar-oauth.ts`, their routes,
  and the pages `web/app/(customer)/account/calendar-import/page.tsx` and
  `web/app/(customer)/handoff/calendar-import/page.tsx`). Runs, handoffs and
  their claims, the journey to Google and back, a callback that may be repeated
  or die, a fetch page by page. Correct when an import is tried once at a time,
  imported once, whole, and its status is true.
* **Pages** for WeChat, reminders, the subscription, the agent and friends
  (`web/app/(customer)/...`). Correct when a page at rest shows nothing older than
  what it was told.

Interactions: shared reminders read and are invalidated by friendships, call the
runtime and enqueue notifications; notifications post to the outbound endpoint,
which resolves delivery routes and sends through channels; inbound messages come
through webhooks or the poll loop, provision identities, bind conversations,
park what cannot be handled, and ask backends; pages call routes, and routes the
services.

## 2. Modules

| module | models | state |
|---|---|---|
| `SharedReminder` | one request, all calls on it, `removeFriendship` and `ensureActiveFriendship` as far as they touch it | `row`, `proj`, `events`, `active`, `nfriend` (database), `live` (runtime), `notified`, `now`; per call `pc`, `loc`, `reply` |
| `SharedReminderLifecycle` | what a request promises, abstractly | `status`, `granted`, `clock` |
| `OutboundDelivery` | POST /api/outbound under one idempotency key | `delivery`, `sent`; per request `pc`, `loc`, `reply` |
| `NotificationDelivery` | one notification on top of `OutboundDelivery` | `note`, `posted` (the network), `step` per attempt, `now` |
| `SharedProvisioning` | first messages of an identity, what routing returns for them, parking and replay | `binding`, `provisioned`, `parked`, `handled`; per worker `pstep`, `mem` |
| `BusinessConversations` | binding, lookup and staleness of delivery routes | `owner`, `bound`, `route`; per binder `bstep`, `call` |
| `InboundRouting` | the handling of inbound messages, link codes, bound accounts, unified history, deletions | `endUsers`, `boundTo`, `convs`, `codes`, `stored`, `receipts`; `hstep`, `hmem` per handler |
| `Webhooks` | which callback is accepted and what it becomes (operators; used by `InboundRouting`) | |
| `BackendReplies` | which backends are asked, with what, and which answers are kept; one account and its end users | `backends`, `chosen`, `came`, `joined`, `linked`, `transcript`; per task `tstep`, `tmem` |
| `WechatChannel` | rows, bots, logins, requests, restarts | `rows`, `bots`, `live` (the map), `login`, `restore`; per request `wstep`, `wmem` |
| `WechatPolling` | one bot's poll loop | `inbox`, `cursor`, `next`, `routed`, `unread`, `loop` |
| `SharedChannels` | administration against three kinds of provider | `rowOf`, `hooks` (the providers), `doubtful`; per handler `ostep`, `omem` |
| `Admins` | administrators that delete one another | `active`; per deleter what it has read |
| `Gateway` | the eight components above, put together | `component` |
| `CustomerAccounts` | registration, claims, verification, reset | `person`, `links` that were mailed; `astep`, `desk` per clerk |
| `Subscriptions` | checkout, reports of payments, windows, access | `checkout`, `windows`, `locked`, `day`; per reporter `rstep`, `report` |
| `CalendarImport` | handoffs, claims, runs, callbacks | `identity`, `handoffs`, `runs`, `imported`; per visitor `vstep`, `visit`, per callback `kstep`, `running` |
| `FriendLinks` | links, sessions, friend requests, notices | `linkSessions`, `asks`, `befriended`, `notices`; `fstep`, `fmem` per doer |
| `SchedulingTools` | a call that names a row, resolves it, acts on it | `things`, `seen`; `cstep`, `cmem` per caller |
| `WechatPage`, `ReminderBoard`, `SubscriptionPage`, `MyAgent`, `FriendsPage` | a page, its loads and actions, and the rows it shows | what is shown, the requests and answers under way; `strayed` (the board) |
| `CalendarJourney` | the pages of an import, the browser's history, the run in the address | `place`, `address`, `latestRun`, `awaited`, `leaving` (on the way to Google), `tries` |
| `GoogleCalendar` | signed state, exchange, the fetch page by page, the hand-over | `calendar`, `events`, `pageToken`, `handed`, `taken` |
| `Customers` | the twelve components above, put together | `component` |
| `Absent` | the value `None` that stands for null in the components of `Gateway` and `Customers` | |
| `MC...` | instances for TLC | |
| `...Proofs`, `SharedReminderRefinement` | theorems | |

How state and actions correspond to the code:

* **One action per awaited statement**, named for what it does: `InsertRow`,
  `Claim`, `FinalizeAccept`, `Reclaim`, `Deliver`. A variable such as `pc`,
  `bstep` or `hstep` holds the statement a call executes next, another one
  (`loc`, `call`, `hmem`) the local variables it still needs. `map` in
  `PROJECT.json` gives the lines of each.
* **Merged statements.** A guarded update that matched no row is one step with
  the re-read after it; a call's clock reading is one step with its first read;
  an insert that hits the unique key is one step with the re-read of the winner.
  Nothing the call does depends on a change between the two. The removing
  transaction is two steps, its queries and its commit: it is read-committed,
  so others write in between.
* **One row of each kind**, in the modules of reminders and deliveries. Rows with
  other ids share nothing that these handlers write. What other components write
  at any time (delivery routes, channel status) is read as an arbitrary value.
* **The unified history is in two modules.** `InboundRouting` has the codes,
  several accounts, and deletions, and asks whose history it is. `BackendReplies`
  has its contents: one transcript of several end users, the places in it, the
  limit. There the read of a code and the update of the link are one step, and
  nobody is deleted.
* **What routing returns.** `SharedProvisioning.Handle` is routing with a result,
  `Unanswered` routing that returns null: before the customer is looked at (the
  channel, the attachments) or after the message was stored (no backend).
* **Names.** A call creates at most one runtime reminder, so the reminder has
  the call's name. Create calls share one idempotency key, as retries do; an
  attempt's request has the attempt's name.
* **Failures.** A call of the runtime or a provider fails with or without
  effect; a process dies in a call at any statement; an answer is lost, also
  when the request is still to be served. Counters (`faults`, `crashes`,
  `losses`, `deaths`, `mishaps`) bound them, and the properties that hold only
  without them say so.
* **Pages.** Each request a page makes is an action, its answer another one, and
  answers come in any order. An effect that runs again (React re-runs it when
  the language changes) is an action of its own.
* **External**: the reminder runtime, the providers, Google, Stripe and the
  backends, as the code uses them. Texts, layout, time zones and the wording of
  messages are left out.
* **Composition.** `NotificationDelivery` is composed with `OutboundDelivery`
  and shares its state. The components of `Gateway` and of `Customers` share no
  state in their models: `component` names the one that moves, and the reachable
  states are those of each by itself. They are checked in one run each because
  the questions are of one kind, and proved together the same way (section 4).
  Where one component's code uses rows of another, the model of the first has
  them as its own variables: `FriendLinks` and `SharedReminder` each have the
  friendship, `CalendarImport` and `CalendarJourney` each have the run.

## 3. Runs

No run checks for deadlock: calls end, and a system whose calls have all
answered really stops. `SettledSpec` starts where one create has run to its
answer, a reachable state; `Spec` starts from the empty database.

| run | instance | checked | states |
|---|---|---|---|
| `answers` | 2 accepts, reject, cancel, sweep; 2 faults; claims never stale | `ReplyTruthful`, `AcceptedRemindersLive` | 611 803 |
| `stalled` | 2 accepts, reject, sweep; clock to 3, claims stale after 1; 1 fault | `AuditAgrees`, `DeclinedCancelled`, `ClaimExcludes` | 474 062 |
| `creation` | 2 creates, accept, reject from the empty database; 1 fault | `NoOrphans`, `KeepsPromise` | 1 105 319 |
| `removal` | accept, reject, 2 removals, a second friendship; 1 fault | `TypeOK`, `NoPendingUnderRemoved`, `RemovalCleansUp`, `CallsFinish` | 40 695 |
| `attempts` | an enqueue and 2 drains; 2 targets, 2 stamps; a failed send, a crash, a lost answer | `OneDeliverer`, `SameMessage`, `AnswersTrue`, `SuccessFinal`, `PendingOwned`, `SentOnce`, `DeliveredTruthful`, `SuccessIsRecorded` | 958 986 |
| `gateway` | the eight components of `Gateway`, 2 handlers in each | `GatewayTypeOK` and the eleven properties of the table below | 592 189 |
| `customers` | the twelve components of `Customers`, 2 handlers in each | `CustomersTypeOK` and the eight properties of the table below | 870 828 |

States are distinct ones; the largest runs take two to four minutes.

What `gateway` and `customers` ask of each component, and what must hold for it:

| component | property | says | except |
|---|---|---|---|
| `provisioning` | `NothingStranded` | a message whose handler returned has a result or is queued; a run of the script in which nothing failed or died has left nothing it could replay | messages that nobody answers, rows that were routed without a result |
| | `HandledProvisionedOnce` | no message has a result before the agent accepted the customer, or the gateway took it to; none has two | "not two": when nothing failed or died and runs of the script do not overlap; messages without a result are stored anew by each run |
| `conversations` | `OwnerAgrees` | whose a key is, its end user is | |
| | `RouteLeadsHome` | an active route leads to the conversation bound to its key | binds of one account overlapped (`mixed`) |
| `inbound` | `NoStrangersHistory` | a backend is given the history of another end user only if codes connect the two, or if that one is bound to the account of the sender or of the personal channel; and nothing of a deleted one | |
| | `MessagesAccounted` (`ReceivedOnce`) | a message with a receipt is stored once | |
| `polling` | `MessagesAccounted` (`PollingAccounts`) | messages are routed in order, each at most once, none that says anything is passed over | files that could not be downloaded |
| `replies` | `RepliesHold` | once the bridge is set up, somebody is selected; a backend is given the message it is asked about, or as many later ones as fit; the answers that are kept are in the conversation | messages that `/clear` deleted; a sender who is not bound, next to others who are, on a personal channel (`OthersHistory`); a link changed by another request (`relinked`) |
| `wechat` | `NoStrayBot`, `SettledAgrees` | no bot outside the map receives; row and bot agree when nothing is under way | two writers of one row overlapped (`raced`) |
| `sharedChannels` | `ProviderAgrees` | a provider delivers to a channel exactly when its row is connected | channels in doubt (`doubtful`): lost answers, overlaps |
| `admins` | `LastAdminStays` | one is left | |
| `accounts` | `ClaimedByLatest` | the link signed last claims; an active address was proved | |
| `subscriptions` | `PaidDaysStack` | each payment buys its days once, no windows overlap | |
| `calendar` | `RunTruth` | imported once, and the status tells what happened | "failed was not imported": no fault |
| | `ImportHolds` (`ClaimAgrees`) | who claimed a handoff has the identity | two claims overlapped (`crowded`) |
| `calendarJourney` | `ImportHolds` (`OneTryAtATime`) | no second import in progress | a start lost, left alone, or pressed again on the way to Google; a page out of the history (`disturbed`) |
| | `PagesShowTruth` (`ShowsOwnRun`) | the page shows no foreign run, and none ended otherwise than it has | |
| `googleCalendar` | `ImportHolds` (`WholeCalendar`) | every event that was there from the first page on is handed over once | |
| `friendLinks` | `RequestsInOrder` (`RequestsAccounted`) | a claimed session has its request, an accepted request its own friendship | |
| | `QuietNotified` | at rest, everybody was told | notices of a handler that died |
| `tools` | `RequestsInOrder` (`CallsInRole`) | rows are closed in the caller's role, busy times go to friends | |
| `wechatPage` | `PageAdvances` | what the page shows only advances, with refreshes in every status | where an action ends whose own answer it shows |
| `reminderBoard`, `subscriptionPage`, `myAgent`, `friendsPage` | `PagesShowTruth` | a page at rest shows nothing older than what it was told, and offers nothing that has ended; the board is of the selected week | answers that crossed a load, as each says; a week asked for by an action begun before another was selected (`strayed`) |

**The composed runs.** One component is chosen in the initial state and is the
only one to move; the states are the sum of those of the components, not the
product, which nothing in the code calls for, since they share no rows in their
models. What the others begin with is fixed in `MCInit`. One symmetry serves
all: what may be renamed in each component is `x1`, `x2`, its handlers are `h1`,
`h2`. Eight constraints of `gateway` and five of `customers` cut what the
properties say nothing about or what is there twice:

* `NotRaced`: behaviours in which two writers of one WeChat row overlapped;
  both properties exclude them, and `raced` stays.
* `NotMixed`: likewise for overlapping binds of one account. `OwnerAgrees` holds
  there too: that is proved, and was checked without the constraint.
* `FewRows` and `OneDoubtful`: after a restart one row to restore and one request
  at a time; one channel in doubt.
* `FewFaults`: in `SharedProvisioning` a worker dies, or two things fail.
* `FewBound`: in `InboundRouting` bound end users and messages are four together,
  the third message is for a code that was asked for, and until then the first
  to be bound belongs to the owner of the personal channel.
* `FewTied` and `FewSetUps`: in `BackendReplies` one end user is bound or linked
  while the backends are as they were, and set-ups of the bridge meet one message.
* `FewWrites`: at most four writes to the two identities together.
* `ImportAlone`: claims and callbacks of `CalendarImport` have no state in
  common beyond the run, so they are not interleaved with each other.
* `FewRequests`: of three rows the last is no request, and one person was given
  busy times.
* `OneByOne` and `LoggedIn`: after a handler of `FriendLinks` died the others come
  one by one, and after a disturbance of `CalendarJourney` the session holds.

Without `FewFaults`, `OneByOne` and `LoggedIn`, with requests that overlap after a
restart, any three messages but one of bound end users, and one set-up next to two
messages, the same properties were checked in 1 112 083 and 1 077 783 states.

`MaxEvents` bounds the loads, actions and changes of the friends page together;
alone it was also run with three loads, two links and one change elsewhere
(396 460 states) and with five events (558 401). In `SharedProvisioning` two calls,
writes or rows may fail, one worker die, and three rows be parked.

**Why the bounds are enough.** A race on a request has a winner and a loser, and
cleaning up after one needs a third call that adopts what the loser created: two
accepts and one call of each other kind have all of these. One clock tick more
than `StaleAfter` makes a claim stale, one more lets a second claim be made
after that. Two creates are a create and its retry. Two removals and a second
friendship are a removal, its repetition, and a request that belongs to the
earlier friendship. Three attempts are one that fails and two that race for the
retry, and two targets tell a rerouted retry from one that is not. In the
composed runs two handlers are a call and whatever overtakes it; a third party
comes in as data: a third row, account or end user that must not be touched, a
third message or load that comes after the race. Calendars have three events on
pages of two, so that one page is full and one is not, and are edited once in
between. Symmetry exchanges only what the specifications never tell apart, and
liveness is checked in `removal` alone, which has none.

**Fairness.** `CallsFinish` assumes weak fairness of each call's next statement:
the event loop runs whatever has been started, and each awaited statement
settles, by succeeding, failing or timing out. Nothing is assumed of calls that
have not begun, of the clock, of crashes, or of the network. No other property
needs fairness.

**Mutants.** For every property `PROJECT.json` names a definition and a plausible
bug in it (a dropped guard, a write in the wrong order, a missing undo) that
breaks the property under the run's own configuration; the mutated form is an
operator of its own that stands just before the definition. A property that speaks
of several components has one for each part:
`StartOfferedAnyhow`, `AnyRequestedRun`, `LoadUncancelled`, `HasAnyRole`,
`BindAnyhow`, `NeverDelivered`, `DrainNothing`, `FinishedByWarnings`,
`ShowAnyLoad` and `NextOfFullPage` break the parts that the listed ones do not, and
`BindToAnyAccount` breaks `NoStrangersHistory` by way of the bindings.

### Findings

Five runs end in a counterexample to something the repository says of itself.

* `stalled_accept`: an accept stalls past `STALE_PENDING_CLAIM_MS` and its retry
  claims the row and adopts the projection. The first accept's last update then
  matches no row, it finds the request still pending, cleans up the projection,
  and the retry accepts the request with a cancelled reminder
  (`shared-reminder-service.ts:1044`).
* `reject_during_create`: a reject looks for the requester's reminder before the
  running create has stored it, cancels nothing, and the reminder of the
  rejected request stays active (`shared-reminder-service.ts:1114`).
* `insert_during_removal`: a request inserted between the query and the commit of
  the removing transaction stays pending under a removed friendship
  (`friendship-service.ts:387`).
* `retry_refused`: each attempt at a notification stamps the message anew, and
  the endpoint compares the stamp, so the retry of a failed delivery is a
  conflict and the notification stays failed (`notification-service.ts:134`).
* `link_to_self`: two end users who enter each other's link codes; the second
  becomes its own primary (`lib/route-message.ts:685`; after some 3 750 states).

The models also bring out behaviour that no text of the repository contradicts,
so that no run is about it: `drainParkedInbounds` and
`invalidateRoutesForChannelReplacement` have no caller; replays that overlap
handle a message twice, and rows with attachments alone are never replayed; a
message that no backend answers stays parked and is stored again by each run of
the script (`lib/route-message.ts:419`, `802`;
`scripts/replay-parked-inbounds.ts:299-303`); whoever writes on a personal channel
is answered from the history of those bound to its owner, and when the sender is
not among them that history lacks the very message
(`lib/route-message.ts:430-445`; `lib/route-message.test.ts:1715` has the case
that it is empty); the same may happen when another request changes the link
that was read; a callback whose attachments grow past the limit when they are normalised a
second time is dropped (`route-message.ts:175`), and so is a WeChat message with
more than four; a display name is checked and then taken; a claim request that
is refused for its rate ends the link that is outstanding; a paid window begins
where the session was created; a start whose answer is lost uses up its
handoff; connects that overlap leave a Linq subscription behind; saving one
setting of the agent sends all of them; a friend may be removed between the
check of the friendship and the reading of his busy times; a create of a
reminder on the board is not idempotent after a failure of transport; disabling
the link while a load is under way shows a link again; the start button of the
calendar import is offered again on the way to Google, and pressed again begins a
second run (`page.tsx:214-218`); an action on the reminders page that ends after
another week was selected loads its own week again, and the board shows that one
under the heading of the other (`page.tsx:326`, `348` with `263-298`;
`page.test.tsx:170` has the case of two loads).

One test assumes what the database does not do: a friend request that meets the
unique index is read again inside its transaction
(`scheduling/user-link-service.test.ts:554`, `user-link-service.ts:584`), which
PostgreSQL has aborted by then. `FriendLinks` has the conflict end the call; no
run is about it, since the test replaces the database by a mock.

## 4. Proofs

All of them hold for every value of the constants, that is any number of calls,
handlers, rows, faults, crashes and clock values, under the named assumptions of
the modules (calls are distinct, null is no other value, bounds are naturals,
the attempts of a notification are its requests). TLC evaluates the assumptions
in the runs. Every property of section 3 that is an invariant or a property of
steps has a theorem.

* **`SharedReminderProofs`**. `TypeCorrect` (`TypeOK`), action by action.
  `DecisionFinal`: that an answer agrees with the row, and the audit trail with
  the row, is not inductive, since a call that has transitioned the row records
  its event only later. `DecisionAgrees` adds the event a call is *about to*
  record and that only one call (`Deciders`) records or has recorded a terminal
  one. Every action is of one of four kinds (it proceeds, decides, records or
  replies; `StepKinds`), and each kind keeps the invariant. `AnswersTrue` and
  `AuditTrue` follow. `ClaimHolds` is the action property `ClaimExcludes`, from
  the types and the guards of the claiming updates. `NoneOrphaned` (`NoOrphans`)
  starts from the empty database, where creates overlap, and speaks only of the
  moments when every call has answered; its invariant `Orderly` says what holds
  between them. Only a create or an accept is ever about to make a reminder
  (`MakersOnly`); a reminder that the row, a projection or another call names was
  made by a call that will not make it again (`NamesMade`), so that no two calls
  make the same one; and while nothing fails an active reminder is named by its
  projection or by the call that is about to name it, a projection is deleted
  only after its reminder was cancelled, and whoever made the invitee's
  projection goes on to accept the request or to take it back (`Tidy`). Of what
  failures and crashes leave behind it says nothing.

  From a request that its one create has made (`SettledSpec` with
  `Creates = {c0}`) more holds: nobody inserts a row or a
  requester's projection any more (`Settled`). `RemovalReachesPending`,
  `RemovalCleans` and `DeclineCancels` follow from what a removal and a decline
  have done when they say so (`RemovalDone`, `DeclineDone`). `AcceptedAreLive`
  needs in addition `MaxTime <= StaleAfter`: no claim can become stale, so one
  call at a time holds it (`ClaimHeld`), and whoever has an invitee's projection
  is about to finalize (`AcceptDone`). Without the two conditions the statements
  are false: the findings `reject_during_create`, `insert_during_removal` and
  `stalled_accept` are their counterexamples.
* **`SharedReminderRefinement`**. `Refinement`: every behaviour of the
  statement-by-statement model is one of `SharedReminderLifecycle`. It needs to
  know what a call has behind it when it changes the row (`OnCourse`: an
  expiring call read the clock at or after `fireAt`, an accepting one holds a
  reminder). Each step is then one abstract step or a stutter.
* **`OutboundDeliveryProofs`**. `DeliveryInvariant`: what a request knows
  (`RequestOK`) is kept by the steps of others, because only a worker changes
  the delivery, and one becomes the worker only when nobody is. `OnlyOneDelivers`,
  `NeverRerouted`, `DeliveryAnswersTrue` and the action property `SuccessStays`
  follow. `NoPendingWedge` adds that a pending record has a worker as long as
  nobody died, `NeverSentTwice` counts what was sent while no send failed.
* **`NotificationDeliveryProofs`**. `Composition`: the attempts and the network
  make of the endpoint a behaviour of `OutboundDelivery!Spec`, so the theorems
  above hold of the composition. `DeliveredTrue` follows from what an attempt has
  heard, which stays true because a success is final; `SuccessRecorded` from
  what each attempt still has to record.
* **`GatewayProofs`**. `OwnersAgree` from what each binder has read
  (`ConversationInvariant`); `RoutesLeadHome` adds that binders of one account
  do not overlap (`HomeInv`). `HistoryStaysApart` from the invariant that codes
  and links stay inside a circle, and that a handler holds the account that its
  sender or channel has for good (`HistoryInv`), `StoredOnce` from who inserted
  the receipt. `RepliesAreKept` from the order of the rows, what a task has read of them
  (`TiesKept`: whose history it is, the sender's unless one of the exceptions
  of section 3 explains it), and that of the latest rows of a history a message is
  missing only when it was deleted or as many came after it.
* **`ChannelsProofs`**. `AnAdminStays`: a serializable deletion has seen another
  administrator, and does not commit when that one is gone. `WechatInvariant`
  and `RowsAgree` name, for every difference of row, map and bot, the request or
  login that goes on to remove it; they hold of the behaviours without `raced`.
  `ProvidersAgree`: a handler knows what its webhook is at each statement, and
  handlers not in doubt do not share one. `HandledInOrder` and `NoneStranded`
  from where the message of each worker is at each statement
  (`ProvisioningInvariant`), and which rows a run has visited, drained or left:
  that nothing is lost and that nothing has a result early is unconditional, the
  rest assumes what section 3 says.
  `PollingAccountsFor` from the place of the loop in its batch.
* **`CustomersProofs`**. `LatestClaims`, `PaidDaysTrue`, `RunsTellTheTruth`,
  `ClaimsAgree`, `RequestsAreAccounted`, `EveryoneNotified`, `CallsActInRole`, and
  `AllOfTheCalendar` for the fetch. Each has an inductive invariant that says what
  a call knows while an answer is out: a reporter that holds the lock has read the
  latest window (`SInv`), the pages fetched so far are the positions up to the
  token (`FetchInv`).
* **`PagesProofs`**. `PageShowsOwnRun`, `OneAtATime`, `AgentKeepsChoice`,
  `SaveIsShown`, `BoardKeepsUp`, `SubscriptionPageLoads`, `OffersNothingOver` and
  the action property `PageNeverGoesBack`. Here the invariants say what a page
  knows: the answer to the latest question is as new as what the page was told,
  and of the selected week unless it strayed (`BoardInv`), a run is begun only from
  a page that is not on its way to Google, or else disturbs (`TriesInv`), a load
  that was asked before an action ended something is superseded or was answered
  (`OffersInv`).
* **The parts together.** `MessagesAreAccounted` and `RepliesAlwaysHold` of
  `Gateway`, `RequestsKeepOrder`, `ImportsHold` and `PagesTellTruth` of
  `Customers`: a behaviour of the composition is one of every part
  (`PartsGoAlone`: each step is a step of one part and leaves the others as they
  were), so the theorems of the parts hold of it. `GatewayTyped` and
  `CustomersTyped`: the types of all the parts. Most are part of the invariants
  above; the others are what the loop has in hand of the messages of WeChat
  (`PollBounds`), what a call remembers between its statements
  (`CallsRemember`), where the import page is and what it knows (`JourneyRest`),
  what is fetched and what becomes of it (`GoogleRest`), and what a load of the
  friends page can show of the rows the server has (`FriendsRest`). The last needs
  bounds that admit the link, the request and the load there are at first
  (`FriendsPageAssumption`).

The arguments by induction on a number (the least position that has a property)
go by the least counterexample, with the well-foundedness of the naturals.

**Only model-checked.** `CallsFinish`, because liveness under fairness is out of
the prover's reach; and the five findings, which are counterexamples.

## 5. Not modelled

* Sign-in pages and the stored session (`web/lib/customer-auth.ts`): a token in
  the storage of a browser. Every page is modelled as signed in.
* The reminder routes' validators: no state, and what they check is wording.
* Administration of customers and tenants, dashboards: lists and counts, each one
  query, that change nothing.
* Migration, backfill and audit scripts: one-off jobs on a database at rest.
* Marketing pages, texts, pages that show what one query returned.
* Of modelled parts: session tokens, rate limits, the wording of e-mails,
  translation of HTTP bodies, names and secrets of channels, the profile on the
  WeChat page. The notes in `PROJECT.json` say so part by part.

## 6. What is left

`SharedReminder` with two requests under one removal: the clean-up loop over
several rows, of which each is now modelled by itself.
