# A verification project for LLM-Tor

LLM-Tor lets a user buy credits under a name and spend them on LLM requests
without one. A Go server sells credits, blind-signs one token per credit, and
proxies a request to the LLM vendor for whoever presents a token with a valid
signature; an Electron client keeps a pool of tokens and sends its requests
through a Tor process it starts. This directory holds TLA+ models of the parts
of that system whose behaviour over time matters, TLC runs that check them on
small instances, and proofs, checked by TLAPS, that the most important
properties hold for every instance.

Contents: [parts of the system](#1-the-parts-of-the-system) ·
[modules](#2-the-modules) · [runs](#3-the-runs-and-their-bounds) ·
[fairness](#4-fairness) · [disagreements](#5-where-the-code-and-its-words-disagree) ·
[proofs](#6-what-is-proved) · [only checked](#7-what-is-only-model-checked) ·
[not modelled](#8-what-is-not-modelled) · [plan](#9-plan).

## 1. The parts of the system

### The server (`src/src`)

| part | state | operations | talks to |
|---|---|---|---|
| token redemption, `llm-proxy/llm_proxy.go` | `AuthToken` documents; a semaphore per token | `ServeRequest` | moderation, vendor, KMS, database |
| credit accounts, `svc/auth_token.go`, `svc/paddle.go`, `svc/signin.go` | the `SubscriptionInfo` of `User` documents; a five-minute response cache; a semaphore per user | issue a signature, apply a purchase, sign in | database, Paddle, Google |
| sessions, `svc/signin.go`, `svc/middlewares.go` | `UserSession` documents; cookies | sign in, sign out, admit a request | database |
| named semaphores, `common/semaphore.go` | a map from handles to `semaphore.Weighted`, a mutex | `AcquireSemaphore`, `ReleaseSemaphore` | redemption, issuance |
| moderation, `llm-proxy/content_moderator.go`, `content_chunker.go` | `TextAnalysis` documents | `AnalyzeGPTReq` | vendor, database |
| database handler, `models/db_handler.go` | none of its own | `Fetch` (into a struct), `Upsert` (unconditional), `Delete`, queries | Cosmos DB |
| key wrapping, `secrets/` | two ten-minute caches | encrypt and decrypt a key | Azure KMS |
| blind RSA, `secrets/rsa.go`, `auth/` | keys, loaded once | sign, verify | redemption, issuance |
| wiring, `svc/svc.go`, `main.go` | counters of the rate limiter (a library) | routes | all |

What is hard here: handlers run concurrently in one process and meet only in
the database, whose `Upsert` replaces a whole document whatever it has become
since it was read. Any call can fail, a client can leave at any moment, which
cancels the context of the call that is running, and an `Upsert` that was given
up on may have been applied or be applied later. Payments are delivered at
least once. What ought to hold:

* a token buys one vendor call and one recorded answer, a repetition gets that
  answer, and no failure leaves a token unusable;
* credits are conserved, a signature is never handed out unpaid, an
  acknowledged purchase was written;
* the semaphores exclude, lose no wake-up and serve in order of arrival;
* a sign-in or sign-out ends the sessions there were;
* a moderation verdict covers the whole request.

### The desktop client (`src/desktop-client/src`)

| part | state | operations | talks to |
|---|---|---|---|
| token pool, `main/rsa.ts` | the pool of a model, in the local store | `GenerateToken`, `prefetchTokens` | the server |
| Tor start-up, `main/torproxy.ts`, `main/index.ts`, `renderer/App.tsx` | the child process, a timeout, `torIsReady`; the page's `torReady` | start, wait, time out, stop; ask, tell, hear | Tor; main and page by IPC |
| popups, `main/index.ts`, `renderer/contexts/UserContext.tsx` | a server on one port, `authWindow`; the page's `user` | sign in, buy, fetch the user, sign out | the server, popups |
| chats, `renderer/hooks/useChats.ts`, `renderer/components/ChatInterface.tsx`, `SettingsPage.tsx` | chats, the active one, localStorage, turns in flight | send, regenerate, edit, delete, select, leave, reload, import, clear | main (token, then reply) |
| token use, `main/llmproxy.ts`, the turn of `ChatInterface.tsx` | the turn's token; the credits shown | ask for a token, make the request, repeat it through Tor | token pool, redemption |
| writing and prompts, `ChatInput.tsx`, `ChatInterface.tsx` | the text typed, the images read, the files still to read | type, attach, remove, submit, make a prompt, regenerate | chats |
| editors, `ChatInterface.tsx`, `ChatMessage.tsx` | a draft for the title and one per message, the question before a deletion | begin, type, save, cancel, delete | chats |
| notices, `contexts/ErrorContext.tsx`, `ErrorCard` | the error, its timers, whether the card is visible | show, dismiss, time out | all pages |
| pictures of users, `utils/pfpCache.ts`, `ChatMessage.tsx`, `ProfilePage.tsx` | a cache, downloads under way; the picture of each place | mount, download, show | the user's picture address |
| themes, settings, models, sidebar | React state of their own | | |

What is hard here: each process has one thread but many awaits, between which
the user, the other process and the network go on: answers and events cross,
windows close late, a page is reloaded under a handler, and the app stops
between two awaits. What ought to hold: a token that cost a credit is in one
place; a page shows what main knows; the port is free for the next popup; a
reply reaches the chat it belongs to, and nothing the user wrote is lost or
comes back; a turn buys one answer, however often its request is repeated; an
image goes into one message and from there into every prompt made of it; a draft
is saved over the text it was begun on; no notice stays, and no place shows the
picture of a user who is gone.

## 2. The modules

A module is a component: its state as variables, one action per step, where a
step is what happens between two points at which something else can run (on
the server, one network or database call with the code up to the next one; in
the client, one event with the promise continuations it sets off). The comment
on top of a module says what its step is. On the page, an event is taken with the
rendering and the effects it sets off. History variables are marked as such
in the declarations. Operators called *seeded faults* are plausible bugs: each
property is known to fail when the right definition is replaced by the faulty
one before it. They are used by no run.

**Redemption** models `ServeRequest`. `pc` follows the handler through
`Arrive` (read, parse, verify: no shared state), `Lock`, `Fetch` (document,
expiry and hash), then either `Decrypt` or `Moderate`, `Forward`, `Receive`,
`Wrap`, `Save`, and `Reply`, which releases the semaphore. `Abort` is any error
return or cancelled context, `SaveUnreported` and `LandLate` are the two ways an
`Upsert` given up on can still happen, `Expire` is the five days, `Restart` the
process. `Hash` is what `Bytes` hashes: token, signature and model. Bodies are
records of form, token, signature, model and prompt from a small set. The
code's early returns before the semaphore (an oversized body is answered, a
malformed one or one whose signature does not verify is refused) are the cases
of `Arrive`. `NilAssumption` says that model values are not confused.

**TokenPromise** is the abstract specification: requests ask with a hash, at
most one answer per token is committed, killed requests may leave stray ones,
and whoever is answered gets one of these, produced for its own hash. It knows
no locks, documents or calls. `Redemption!Promise` instantiates it with a
refinement mapping of `body`, `write`, `pc` and `answer`, and `KeepsPromise` says
that Redemption implements it.

**Ledger** models the three handlers on the account: issues (`Enter` is
`AuthMiddleware`, then `CheckCache`, `Acquire`, `FetchAccount`, `SaveCharge`,
`Mark`), webhook deliveries (`DeliverFetch`, `DeliverSave`, per item) and sign-ins
(`SignInFetch`, `SignInSave`). `MergeAccount` is what `json.Unmarshal` does to a
struct that already holds data, which is what the second fetch of an issue
reads into. `Apply` is an `Upsert`: it replaces the document, and the histories
`missed` and `overwrote` record whose write it undid without having seen it.
Signing is a choice between a valid and a malformed token; a model name that is
not configured is refused before anything is touched and is left out. Issues
ask for models that exist. A delivery with a wrong signature (`Mismatched`) is answered
401 and goes on all the same, as the code does; the first answer is the one Paddle
has (`Acknowledged`).

**Semaphore** models the manager with its mutex, and the `semaphore.Weighted` it
hands out (external: a queue in order of arrival, in which a cancelled waiter
gives back what it was granted, and a first one that leaves lets the next one
look). Every caller takes a binary semaphore. Redemption and Ledger use it as
`lock`: what they assume, exclusion and no waiting for a free unit, is what
Semaphore shows.

**FairLine** is what the semaphores promise, without mutexes, maps and wake-ups: a
line per handle, in which whoever comes draws a number, one is served at a time, and
the step in which that one leaves is the step in which the lowest number of those
that wait is served. `Semaphore!Line` instantiates it with a refinement mapping of
`pc`, `ticket` and `arrivals` (`PlaceInLine`): a granted unit counts as served though
its waiter has yet to wake up, a call that has not reached the semaphore is away. A
waiter that is cancelled after it was granted the unit is in the line a served one that leaves.
`KeepsLine` says that Semaphore implements it.

**Sessions** models the sessions of one user: `Begin` (for a sign-out the
middleware's look at the cookie), `List`, `Delete` one by one (a missing session
is an error), `Save`; `Break` and `LandLate` for calls that fail, unreported and
late writes. The documents are a set, and what a handler has listed is one: the
query has no ORDER BY, so a handler may delete what it listed in any order. `deleted`
is a history variable. The definitions have names of their
own (`SessionsSpec`, `sessionsVars`), as those of Moderation (`ModSpec`) and
TorStartup (`TorSpec`) do, since each is proved about beside another component.

**Moderation** models `AnalyzeGPTReq` with the chunker's two indices, the cache
of analyses (`Look`, `Analyze`, `Save`) and the merge. A text is given by its
9000-byte chunks. A chunk stands for its data, which is the cache key; that the
same data is never both a text and an image is assumed, as the key leaves the
type out.

**TokenPool** models `GenerateToken` and `prefetchTokens` for one model, with the
account at the server, restarts and lost calls. `signedIn` says whether the cookie of the
app is that of a session and `credits` what its account has; `SignIn`, `SessionEnds` and
`Purchase` change them at any time, and who is not signed in is refused, by the profile
and by signing. `news` is a history variable: credits that came, by either, since a
prefetch was last started. Awaits on the local store
are resolved already and do not let events in, which is why reading, changing
and saving the pool are one step; awaits on the network and on timers do.

**TorStartup** models `waitForTor`, what main makes of it, and pages that load,
mount, ask and listen. What main sends a page arrives in order. The log
handlers and `tor-setup-begin`, which is sent when there is no window yet, have
no effect.

**PopupFlows** models `startAuthFlow` and `startPurchaseFlow`, the page that fetches
its user, signs out and buys (with the package whose purchase it shows as being
processed), and what the popups go through at the server. To listen and to open
the popup are one step; a window's "closed" comes later than its `close`.

**Chats** models `useChats`, the turn of `ChatInterface` with the closure it runs
in (`home`, `past`), what unmounting and reloading do to both, and the settings
page, which writes imported chats to localStorage behind the hook's back or
clears it (`ImportChats`, `ClearAllChats`). A message is its role, its turn and
whether it was edited.

**TokenUse** models the life of a token once it has left the pool: the turn asks
for it (`SendMessage`, `GotToken`), and the OpenAI client (external) makes the
request with it, at most `MaxRetries` times more, each attempt through `torFetch`
(`TorFetch`, `Refuse`, `Cut`, `GotAnswer`). The server is TokenPromise, instantiated
with attempts for requests and tokens for hashes: this is the composition of
client and server, since TokenPromise is what Redemption is shown to implement.
An attempt whose connection was cut may still be recorded.

**Composer** models the input (`handleFiles`, which reads images one after the other
in the background, `handleSubmit`) and the way of a message through markdown. What a
batch has read is added to the attachments by an update that is rendered later
(`queued`, `Render`): a submit in between sends the attachments without it and empties the
list. `DisplayText` is what a message is kept as, `FromMarkdown` and `Regenerated` what
later prompts make of that. Both look for images with the regular expression
`!\[[^\]]*\]\(([^\)]+)\)`. `Match` is its match at one place and `Scan` all its
matches from the left, over a sequence of pieces: words, whole images, and the pieces of
an image's markup typed by themselves (`Marks`), so that a match may begin in the typed
text and end in an attached image. `Keep` is a filter that only the properties use.
**Editors** models the drafts of the title and of the messages, with the effects
that refresh them while answers arrive and chats change. **PageServices** models
the provider of errors, its timers and the card (`earlier` is a history variable: whose
time was not over when a notice came), and the shared download of pictures with the
effects that wait for it. None of the three touches the state of
another. **Page** puts them together, by extending PageServices and instantiating
the other two, and explores each for itself: the variable `part`, which never
changes, says which one moves in a behaviour.

The MC modules give the constants of a run their values. Server and client meet
in single requests. For a redemption their composition is TokenUse; for an issue,
loss and repetition are covered on each side, by Ledger (`IDOf`) and by TokenPool
(`Lose`).

Common assumptions: one server process (semaphores and the response cache live
in its memory); a document is read and written atomically; clocks only matter
where `Expire`, `Evict` and `TimeOut` say so.

## 3. The runs and their bounds

The runs are named by their configurations. One run per component checks its
safety and, where there is any, its progress; `Ledger_payments`, in section 5, is
the twelfth and checks a statement the code does not keep.

| run | asks | instance | distinct states |
|---|---|---|---|
| `Redemption_all` | single use, one recorded answer, repetition, progress, refinement | 3 requests, 2 tokens, 6 bodies, 2 faults | 252 thousand |
| `Ledger_all` | conservation, serialized issues, paid signatures, acknowledgements | 2 issues with one id, 3 deliveries (of 1 item with a wrong signature, of 2, of none), 1 sign-in, 1 fault | 1.8 million |
| `Semaphore_all` | exclusion, the line (order, wake-ups; refinement), nobody stuck, progress | 3 calls on 1 handle | 4 thousand |
| `Sessions_races` | clearing, cookies, who fails | 3 sign-ins, 2 sign-outs, 2 old sessions, 1 fault | 701 thousand |
| `TokenPool_all` | one place per token, refilling | 2 calls, 4 prefetches, pool of 3, 3 credits, sign-ins and purchases at any time, 2 runs of the app, 1 fault | 994 thousand |
| `TorStartup_all` | what pages show, who stops Tor, progress | 4 loads, on a Mac and elsewhere | 684 |
| `Moderation_all` | verdict, cache, termination | 2 moderations, 4 requests over 3 chunks, 1 fault | 7 thousand |
| `Chats_turns` | replies, loss, changes, one question per turn | 3 turns, 2 chats, 1 change, 2 loads | 645 thousand |
| `PopupFlows_races` | port, windows, the page's user | 2 sign-ins, 2 purchases, 2 packages, 1 sign-out | 562 thousand |
| `TokenUse_turns` | whose reply, one purchase per turn, progress | 2 turns, 2 tokens, 1 repetition each | 34 thousand |
| `Page_parts` | images, prompts, drafts, notices, pictures | 3 images, 1 other file, 2 batches, 4 texts, 2 messages, 2 mounts; 2 chats, 3 messages in them; 3 notices; 2 places, 2 pictures, 4 users, 4 downloads | 856 thousand |

Why these bounds are enough to mean something. The conflicts of the server are
between a handler that is in the middle, one that overtakes it, and one that comes
after both: three requests on one key, with a fault for each of the first two. Keys
do not interact, so one account and, to see that, two tokens are enough. A purchase
of two items is the shortest that can stop half way; an item without a package, which stops
it for good, is left to the proofs. One free credit makes the last
credit contested at once. The semaphore's corner is a cancelled waiter with one
before and one behind it. Several handles, accounts and models, and more than one
fault for the Ledger, are left to the proofs. A pool of three is the smallest in
which "low" is neither empty nor almost full, and three credits, split over sign-ins and
purchases at will, can be used up by calls with one of them left for the pool; the limit
on prefetches is one per call and start, so it never stops a call. Two loads of a page put an old answer beside a new page. A
moderation instance has a string, several parts, several chunks to a part, an empty
text, an empty list and a part of an unknown type.

With two tokens, one repetition and a second turn, an attempt that was cut is still
open at the server beside its repetition and beside another turn; the real client
repeats twice, and the proofs hold for any number. Two batches of files are what
it takes for images to be read into a message that was sent since, and two mounts
for a batch to outlive its page. The four texts are blank; a word between an image by its
data and one by its link; a word between marks that match nothing; and one that opens an
image and does not close it. Two pictures and two places give a download that
ends after that of the next user, in a place that asked for both.

Every bound is a constant (`MaxFaults`, `MaxRuns`, `MaxLoads`, `MaxChats`,
`MaxChanges`, `MaxSignOuts`, `MaxSent`, `MaxMounts`, `MaxUsers`, `MaxFetches`) and limits
the environment or the user only; `MaxRetries` is a number of the code's client,
the `Credits` of TokenUse are what the page shows at first, those of TokenPool a bound on
what the account ever has. A system that has nothing left to do
stutters (`Done`, `Idle`), so TLC's deadlock check is on: a state in which something
waits and nothing can happen would be reported. (For Tor and the popups `Idle`
stands for a user who does nothing.) Only `Page_parts` turns it off: its parts have
no processes that wait for each other, and they stop when the user has used up
the bounded inputs.

Symmetry is used only in runs without temporal properties (Sessions, Chats,
PopupFlows, the page), over interchangeable invocations. In `Page_parts` one
permutation renames the interchangeable things of all three parts at once, of which
only one moves.

## 4. Fairness

Invariants and action properties hold without any. For the progress properties
the runs assume:

* Redemption, Moderation: each call a handler has begun ends, with an answer or
  an error (HTTP servers and the database answer or fail; there is no timeout in
  the code, so for a vendor that hangs this is a real assumption), and the
  semaphore is handed over in order of arrival, which is strong fairness of
  `Lock`. Nothing requires a fault, and nothing prevents one.
* Semaphore: goroutines run and handlers that hold a semaphore return (weak);
  `sync.Mutex` does not starve a locker (strong fairness of `LockManager`): Go's
  mutex hands itself over to a waiter of more than a millisecond.
* TokenPool: the event loop runs and the server answers (weak). New calls are not
  required, nor is anything of the user. `PoolRefills` speaks of behaviours in which the
  network loses nothing and, in the end, no sign-in or purchase came after the last
  prefetch was started; restarts of the app are included. Without a profile the first
  prefetch would not start; that answer is part of it.
* TorStartup: the clock runs, so the timeout fires, and a missing Tor is reported
  (weak). Tor itself is required to do nothing.
* TokenUse: `generate-token` answers, and an attempt is made or fails and is then
  answered, refused or cut off (weak, of `Advance`, per turn). `torFetch` sets no
  timeout and ignores the abort signal of the OpenAI client, so that a connection
  ends some day is an assumption on Tor and the server: without it a turn waits for
  good. The server is not required to record anything.

## 5. Where the code and its words disagree

One run checks a statement of the repository that the code does not keep; TLC
gives the behaviour.

| run | the statement | what happens |
|---|---|---|
| `Ledger_payments` | models/user.go:56, logs for recalculation "in case some screw up happens" | an issue or a sign-in that read the account before the webhook wrote it overwrites credits and log |

Smaller disagreements that the models contain as the code has them, and that
shape the properties, without a run of their own:

* README.md:130, "Replay Attempt" is "Rejected", and llm_proxy.go:172: the hash of
  auth/request.go:34 leaves the prompt out, so a spent token with another prompt
  gets the first prompt's answer (Redemption, whose requests may carry it).
* index.ts:208, on macOS the app stays when its window is closed, and index.ts:85:
  when Tor becomes ready then, the app exits with an error and leaves Tor running.
  `TorStopsWithApp` speaks of the other ways the app ends.
* signin.go:120, free credits "for first time user": two first sign-ins at once
  grant them twice (Ledger counts every grant it writes).
* rsa.ts:14, the "number of tokens to maintain": overlapping prefetches add up;
  rsa.ts:171, "only prefetch up to the available tokens": prefetches started by a
  call have no limit (TokenPool, `StartPrefetch`).
* rsa.ts:74, a pool is refilled when a call leaves it low, and at the start of the app: a
  start before the user signs in is refused (index.ts:105, rsa.ts:133), and credits that
  come by signing in or by a purchase start no prefetch. The pool stays low with credits
  at hand until the next call or start; hence `news` in `PoolRefills`.
* paddle.go:40, a delivery whose signature mismatches is answered 401, and the handler
  does not return and credits it all the same (Ledger, `Mismatched`).
* torproxy.ts:242, "to prevent an indefinite wait": when Tor closes with code 0
  before it is up, the timeout is cleared and nothing settles; hence the
  exception `endedWell` in `WaitEnds`.
* useChats.ts:48, "save chats to localStorage": a list that became empty is not
  saved; hence `reset` in `NothingIsLost` and `ChangesStay`.
* index.ts:297, "capture redirect": main sends `redirect`, the server reads
  `redirectURL` (payments.go:41), so the checkout never calls back; in PopupFlows a
  purchase ends when its window is closed. PurchaseTokensPage.tsx:82 also names a
  `refetchUser` that the context does not have.
* rsa.ts:9 and rsa.ts:131 ask, as TODOs, for retries when a token is requested or used.
  Without them the page drops a token when its turn fails, used or not; in TokenUse it
  is then in no variable.
* llmproxy.ts:78 decodes the answer's base64 as Latin-1, which garbles what is not
  ASCII; decoding is left out of TokenUse.
* SettingsPage.tsx:55, an import is reported as successful whatever its entries are;
  one without `messages` makes the next load of useChats throw. Chats imports chats.
* ChatInterface.tsx: an image given by its link is dropped from the prompt when the
  message also has an image given by its data, and always when the message is
  regenerated, which leaves an empty one if it was nothing else. `PromptsAgree` speaks
  of words and attached images.
* ChatInput.tsx:86, `setAttachments` in a continuation is rendered after it: a submit in
  between sends the attachments without the new images, and `setAttachments([])`
  (ChatInput.tsx:50) drops these. And a reader that fails (ChatInput.tsx:80) rejects a
  promise nobody waits for: its batch is gone without a word. `ImagesGoOnce` counts both
  as `lost`.
* ChatInput.tsx:43 and ChatInterface.tsx:37, :197: text and images are joined, and the
  regular expression is matched against the whole. A text such as `![a](` then takes in the
  image attached after it as its link; that image is in no later prompt. Hence
  `OpensImage` in `PromptsAgree`.
* ErrorContext.tsx:21 and :33, the time-out of an older notice clears a newer one, and
  a card that was dismissed stays hidden for a notice that comes before its time-out, so
  that this one may never be seen. `NoticesSeen` names these cases as its exceptions and
  states that there are no others.
* ChatMessage.tsx:43 and ProfilePage.tsx:23, unlike a picture, the failure of a
  download is heard by an effect that was cleaned up, and clears a newer picture;
  hence `failed` in `PicturesAreTheirs`.
* UserContext.tsx:57, fetches of the user are not told apart: with two in flight the page
  shows what the one answered last said, and one that fails leaves what was there.
  `PageKnowsUser` speaks of pages whose last fetch was answered last. index.ts:286, a
  late "closed" resets the variable of another popup, which its callback then does not
  close: `crossed` in `AuthWindowIsThere`.
* paddle.go:91, no TransactionID is compared, so a transaction that is delivered twice is
  credited twice; and auth_token.go:34, two concurrent issues with one RequestID are both
  charged. Ledger has both; no statement of the repository excludes them.
* ChatInterface.tsx, the draft of a title survives a change to a chat of the same
  title; and useChats.ts:89 gives a chat whose first turn is regenerated the title of
  that message again, over one the user chose. Editors has both.

## 6. What is proved

For every value of the constants that the named assumptions allow: any number
of requests, tokens, accounts, calls and faults. The assumptions say that sets
of invocations are finite, kinds of invocations disjoint, bounds natural numbers,
inputs of the right shape and `Nil` nothing else. Every invariant, every action
property and both refinements that a passing run checks are also theorems; what is left
to the runs are the liveness properties, and of each of those the safety half is proved
(the end of this section).

There are eight files of proofs; the smaller components share one with a component
they have to do with. In each, an inductive invariant is shown to hold initially and
to be kept by every action, one lemma or step per action, and the theorems follow
from it. The invariants were given to TLC before they were proved.

**RedemptionProofs**: `TypeOK`, `SingleUse`, `AnswersAgree`, `RetriesSucceed`, as an
action property `SpentForGood`, the invariants `SavedOnce` and `AnswerMatchesHash`, and
the refinement `KeepsPromise`. None of them is inductive. `IInv` adds what the semaphore
protects: a handler between its `Fetch` and its `Upsert` that missed the cache
(`Missed`) holds the lock (`LockInv`), and nobody else has recorded an answer on its
token in time (`FreshInv`); and what a document, a draft or an answer holds was
written by a request with the same hash (`DocInv`, `DraftInv`, `AnswerInv`).
`SingleUse` follows because a forwarded request that was not killed has saved by the
time it replies (`ForwardInv`). For the refinement each action is mapped to one of
TokenPromise or to a stutter: `Arrive` to asking, `Save` to a commit, which
`FreshInv` allows, an unreported or late write to a stray answer, `Reply` to a
delivery, whose source `DraftInv` and `AnswerInv` give; no other step is seen
(`OthersUnseen`).

`RetriesSucceed` is proved by counting (`RetryInv`). A request that failed was either
killed by a fault or refused for a reason that stays: its own form or signature, a token
whose document expired, or another hash on its token (`Refused`, which no step undoes).
So no more requests are killed than there were faults (`KilledInv`), and of more
acceptable requests than that with one hash, one did not fail. That an expired document
stays so needs that no handler that could still replace it is at work on it
(`ExpiredInv`, `UnexpiredInv`).

**LedgerProofs**: `TypeOK`, `ConservedUnlessRaced`, `IssuesSerialized`,
`SignaturesArePaid`, `AckedMeansApplied`. The heart of `IInv` is `DraftInv`: on an
account on which no unseen write was undone, a handler about to write that
missed none holds exactly the account plus its own effect. For an issue, which
fetches into a struct that was filled before, this needs that keys of the maps
are never removed (`StaleInv`, `Grew`), so that merging gives the document itself
(`MergeFacts`). `SerialInv` carries the semaphore: what a saving issue missed was
written by issues that had been given up on. One lemma, `WriteStepInv`, covers
all four ways a document is written.

**GateProofs**, on what a request passes. Of Semaphore: `MutualExclusion`,
`WaitersAreServed`, `NeverPanics`, `NobodyIsStuck`, and the refinement `KeepsLine`. That a
handle has one semaphore rests on the manager's mutex (`ManagerInv`, `FreshInv`,
`HandlesInv`), that a semaphore serves one call on every call let through accounting for
its unit (`OwnerInv`), and that nobody waits in vain on the converse, that every unit
taken is some call's (`UnitsInv`). A call has a ticket exactly when it came to the
semaphore (`ArrivedInv`). With these each action of Semaphore is mapped to one of
FairLine: `Acquire` to an arrival, which finds the line empty exactly when the unit is
free and nobody queues; `GiveUp` and `Release`, through `NotifyWaiters`, to leaving it;
the rest is not seen. The handle has one semaphore, so the calls that queue at it are the
line of the handle. `WaitersAreServed` (no wake-up is lost, no one overtakes) and
`NeverPanics` (the assertions of `ReleaseSemaphore` and `Weighted` hold) are the parts of
the invariant this needs; as theorems of their own they are checked by no run, since
`KeepsLine` and `NobodyIsStuck` fail wherever they do. Of Moderation:
`VerdictCoversRequest`. The two indices of the chunker say what it has handed out so far
(`HandedOut`, of the messages and parts passed); all of that is either on the list the
moderation has yet to look at or covered by its verdict, and the verdict holds nothing
else (`CoverInv`). `WalkInv` says where the indices may be and when the list is empty;
that a call of Next moves them over exactly the content it hands out is `TakeStep`. At
the end of the walk everything was handed out and nothing is left to look at.

**TokenPoolProofs**: `TypeOK`, `TokensHaveOnePlace`. `WorkInv` says what the
variables of an invocation mean at each of its steps, `PlacesInv` that what the
server issued is in the pool, returned, on its way or lost, in one of them and once.
An account never has more credits than are left to sign for. `RefillUnderWay` is below.

**TorProofs**, on the way through Tor. Of TorStartup: `TorStopsWithApp`, from `TorInv`
(process, timer and wait agree), and `PageShowsTor`, from `NewsInv`: the last message
under way to a page whose question was answered, or else what it shows, is what main
knows. Of TokenUse: `TypeOK`, `RepliesAreOwn`, `TurnsBuyOnce`, on top of TokenPromise and
for any number of repetitions. A token belongs to one turn and every attempt of the
turn asks with it, so the server's promise per token, which is part of the invariant,
becomes one per turn.

**SignInProofs**. Of Sessions: `ClearedForGood`, `CookiesWork`, `SomeoneSucceeds`. A
session is stored once (`SavedOnce`): the ones a request began with do not come back,
and those it has not deleted are on its list (`Clearing`); what is deleted was listed
before (`DeletesListed`). `SomeoneSucceeds` follows from what holds while nothing
breaks (`DeletersGoOn`): whatever was listed and is gone was deleted by some request, and
a request that failed has on its list what another one deleted. So if all failed, take one:
another deleted what it met; that one failed too, over what a third deleted, or the first;
in either case two of them deleted something. Of PopupFlows: `PortHasPopup`, `AuthWindowIsThere`,
`PageKnowsUser`. The windows rest on `MainKnows`, the user on `LastFetchKnows`: unless
something is under way that ends in a new fetch (`Unsettled`), the last fetch that was
sent answers what is so.

**ChatsProofs**: `ReplyGoesHome`, `NothingIsLost`, `ChangesStay`, `AskedOnce`. The
properties speak of all chats at once. The proof goes chat by chat: a message is in the
chat its turn began in, so chats have no message in common, and `InOrder` says of one
chat that its messages are there once, ask different questions, have the text they
were last given and follow their questions. It is kept by what a step does to the list
of one chat: adding at the end, cutting it short, taking one out, editing one
(`InOrderAppend` and the lemmas after it, which argue over positions). `ChatsInv` has this
for the list in memory and for the stored one (`ListsInOrder`), and says how far they
may differ: what is on the page is stored (`Stored`), a removed message is in neither
(`Clean`, `SavedClean`) unless a page that was being reloaded has saved (`late`) or
one was left without chats (`reset`), and imported chats are stored and, once the page
was loaded again, on it (`Kept`).

**PageProofs**, on the parts of the page. Of Editors `DraftsGoHome`, of Composer
`ImagesGoOnce` and `PromptsAgree`, of PageServices `NoticesSeen` and `PicturesAreTheirs`;
and `PageIsSafe`, that they hold together in Page. The drafts of the messages on the page were begun on
the texts that are there; this needs that a message that is added was on no page before
(`OnlyKnown`). An image is with one batch of files, in the update to be rendered, among the
attachments, in a sent message, discarded or lost, in one of them and once (`EachOnce`,
`Apart`), and those are the images that were given (`AllThere`); a batch that is not at
work holds none (`AtWork`). For the notices, the time-outs come in the order of the calls
(`NoticeInv`), and one that was taken away or hidden has someone to account for it
(`ShownOrAccountedFor`).
The pictures follow from `EffectsAreCurrent`: an effect that was not cleaned up waits
for the picture of the present user.

`PromptsAgree` is about data of any length: what scanning, filtering and joining sequences
of pieces keeps. As long as the text opens no image, a match is one whole piece
(`WholeOnly`), so that `Scan` takes out the images, the attached ones among them, and
nothing else (`ScanKeeps`, from the step from one place to the next, `ScanIs`). The rules
of `Keep` (what it makes of an empty sequence, of an appended
piece, of two sequences joined, of a sequence that has none of the pieces or nothing
else) are proved by induction over the length, written as the argument of the least
counterexample: a non-empty set of lengths has a least element (`WFMin` with
`NatLessThanWellFounded`), and the rule for it follows from the rule for the one before.
The library's induction theorems, which take an operator, are not needed for it.

**What the liveness properties rest on.** That something eventually happens is an
inference from fairness and ENABLED that these provers do not make, but what the code
contributes to it are safety properties, and these are proved (but for two cells of
the table, which one reads off the model). They are two: every step
of an actor takes it forward by a measure that is bounded, so it cannot go round in
circles; and whoever waits, waits for something that is there and at work. What then
remains for TLC is only that fair steps that can be taken are taken.

| liveness | nothing goes round | somebody is at work |
|---|---|---|
| `EveryRequestEnds` | `RequestsAdvance`: no step takes a request back in `ServeRequest` | `HoldersAtWork`: the semaphore of a token is held by a request on that token between `Fetch` and `Reply` |
| `WaitersGetOn` | `CallsAdvance` | `NobodyIsStuck`: the mutex and a unit that is waited for are with a call that did not end |
| `EveryModerationEnds` | `WalksAdvance`: the message, the part or the list of chunks moves on, or the chunk at hand does | nobody waits for another |
| `TurnsEnd` | `TurnsAdvance`: repetitions included | `AnswersAreAwaited`: a turn waits only on a connection that is open or answered |
| `WaitEnds` | the timeout is armed once and fires (part of the model, not a theorem) | `WaitHasAnEnd`: the timer is armed or Tor's absence has yet to be reported |
| `PoolRefills` | a prefetch counts down `left` (part of the model, not a theorem) | `RefillUnderWay`: a pool that is low while its user has credits has a prefetch at work, unless calls were lost or the credits are news |

`RefillUnderWay` is the one whose invariant (`RefillInv`) is not obvious: a prefetch
computes how many tokens to add before others take or add some, so that several of those
at work may fall short. One of them does not (`Fills`): when the pool falls low by a call,
the prefetch this call starts is enough for it. Where credits came or calls were lost since,
nothing is due (`Due`). All of these hold for any number of requests,
calls, messages, repetitions and prefetches. But for `NobodyIsStuck`, which
a run checks too, they are stated only as theorems.

## 7. What is only model-checked

* Liveness (`EveryRequestEnds`, `WaitersGetOn`, `PoolRefills`, `WaitEnds`,
  `EveryModerationEnds`, `TurnsEnd`): the inference from fairness, for which ENABLED would be
  needed, is out of the provers' reach; what it starts from is proved (section 6).
* `AckedPaymentsAreLogged` of section 5, which the code does not keep.

## 8. What is not modelled

* Key wrapping and its caches (`secrets/`): a call that succeeds or fails, as in
  Redemption. A cached entry is determined for good by the key id or the wrapped key
  it is stored under, so it cannot be stale, and what eviction costs is time.
* What an error status of the vendor means (llm_proxy.go:243): its body is recorded and
  repeated like an answer, and Redemption does not tell the two apart.
* Blind RSA: sets of valid triples and malformed tokens stand for it.
* The rate limiter (a library); routing, logging, configuration, which keep no state
  of their own.
* Of the modelled parts: rendering beyond what is said above, and the words of messages;
  that two messages made in one millisecond have the same id (ids are `Date.now()`; in Chats
  and Editors they are distinct); blocklist matches, which are gathered and never read; paging of the
  session query beyond one page; `fetchWithCache`, a lookup with a time to live.
* Themes, settings, the model selector, the sidebar: single assignments and tables.
* Build files, the preload bridge, the deprecated Gemini proxy, the bundled Tor.

## 9. Plan

Done, in this order: Redemption with TokenPromise and its proofs; Ledger and its
proofs; Semaphore and its proofs; Sessions; TokenPool; TorStartup; Moderation; Chats;
PopupFlows; TokenUse, composed with TokenPromise, and its proofs; the settings in Chats
and the packages in PopupFlows; Composer, Editors and PageServices; the refinement
proof of Redemption; the proofs of TokenPool, TorStartup, PopupFlows and PageServices;
those of Sessions, Moderation, Chats, Editors and Composer, and of `RetriesSucceed`;
FairLine and the proof that Semaphore implements it; the proof of `PromptsAgree`; the
safety halves of the liveness properties.

Left, in order of use:

1. A composition of Ledger's issues with TokenPool: credits of the server, tokens of
   the client and the losses between them add up.
2. Action properties beside the invariants: what a step of the page or of a sign-in
   may never do.
3. Larger instances of the Ledger, with two accounts and two faults; now left to the
   proofs.
