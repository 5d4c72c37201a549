# A TLA+ model of kiroxy

kiroxy is a proxy that offers Kiro's upstream as the Anthropic Messages API. It
holds a pool of accounts whose tokens it refreshes and keeps in a SQLite file,
sends each request upstream with one of them, changes account when upstream
refuses, and turns the upstream's event stream into a stream of server-sent
events. What makes it hard is what happens at the same time: requests that
share accounts and sessions, a refresh that invalidates the token another
process is about to use, a stream that fails half way, a keepalive that writes
beside it.

All paths below are relative to `src/`.

## The system

| part | state | operations | how it meets the others |
|---|---|---|---|
| token vault (`internal/tokenvault/vault.go`) | one SQLite row per account: tokens, generation, metadata JSON, refresh lock with a deadline | Get, Save, Reserve, Commit, CommitWithMetaPatch, Release, Delete, ListByProvider | every writer of the file, in several processes: the server, the account commands |
| refresh flow (`internal/pool/refresh.go`) | a singleflight group per process; attempts and backoff of a flight | refreshOne, refreshOneInner, needsRefresh | called by Pick, by a reauthorization and by the poller; Reserve, upstream, Commit or Release |
| account pool (`internal/pool/pool.go`, `health.go`) | per account: cooldown, consecutive failures, last use, ring of outcomes, usage | Pick, RecordFailure, RecordUnauthorized, RecordStructuralError, ClearAllCooldowns, Add | every request; persists bans to the vault |
| stickiness (`internal/pool/stickiness.go`) | session → account pins with a TTL | Pick, Release, prune | called by Pool.Pick and, after the pool's unlock, by failures |
| usage poller (`internal/pool/usage.go`) | ticker, ForcePoll queue | pollAll, pollOne, Stop | refreshes tokens and records failures on its own |
| upstream client (`internal/kiroclient`) | none between calls | callWithRetry, callOneEndpoint | asks the pool for another token on 401 and 403 |
| account rotation (`internal/messages/execute.go`) | per request: budget, bans, the account in use | executeWithRetry, callAndHandle | between the handler, the pool and the client |
| SSE stream (`internal/messages/response.go`, `gate_writer.go`, `internal/respconv/streaming.go`) | the gate's buffer, the open block, tails held back, stop reason | handleStreamingResponse, HandleEvent, Finish, TruncatedFinish, Promote, the keepalive | upstream events in, client's bytes out, a second attempt when nothing was visible |
| accumulator (`internal/respconv`) | text held back of a tag or a stop sequence, token count, open tool calls | ProcessEvent, FinalizeStream | inside the SSE writer and the non-streaming answer |
| kiro-cli credentials (`internal/auth/refresh.go`) | a cache and a singleflight | GetToken, InvalidateCache | replaces the pool in single mode; reads a database another program writes |
| log sink (`internal/server/logsink.go`, `logs.go`) | ring, subscriber channels, sequence number | Record, Subscribe, handleLogsStream | every goroutine logs; dashboards follow |
| tool search (`internal/messages/toolsearch.go`) | rounds, messages so far | handleStreaming, handleNonStreaming | several upstream calls into one stream |
| OpenAI translation (`internal/openai`, `internal/server/openai.go`) | a pipe and a translator goroutine | handleChatCompletions | reads the Anthropic stream and writes OpenAI chunks |
| request conversion (`internal/reqconv`) | none | Normalize, BuildPayload, the shortening of tool names | between the handler and the client, in every round of a tool search |
| account commands (`cmd/kiroxy/accounts.go`, `import.go`, `import_json.go`, `debug_refresh.go`) | a process each | add-account, import-accounts, import-accounts-json, debug-refresh, remove-account | Save and Delete on the server's vault |
| device login (`internal/builderid`) | the device code and the pace of polling | Start, Poll, WaitForCompletion | add-account |
| inbound keys (`internal/tokenvault/inbound_keys.go`, `internal/server/auth.go`) | a table of hashed keys | create, revoke, verify | a page of the dashboard |
| wiring and shutdown (`cmd/kiroxy/main.go`) | the mode of the process, the order in which things stop | runServe, awaitShutdown | server, poller, pruner, vault |

The rest (models, configuration, dashboards, metrics, scripts, pages) keeps no
state that several steps share, or only observes. `PROJECT.json` lists every
part with its status and reason.

### What makes each part correct

- **Vault**: no refresh commits over a newer rotation; a patch of the metadata
  never rolls tokens back; the lock has one holder; every row becomes
  reservable again.
- **Refresh**: the live refresh token of an account is never lost, and no
  account is taken out for a token of kiroxy's own making, unless a process
  dies, loses upstream's answer or cannot write it down; everyone who waits is
  answered.
- **Pool**: an account out of service comes back; pins follow an account's
  health and survive its blips.
- **Upstream client and rotation**: a bounded number of calls and of bans
  whatever the errors; a quota error has been met at every endpoint; only what
  can be an account's fault counts against one; every request gets one response.
- **Accumulator**: the answer does not depend on how upstream cuts its text; no
  stop sequence is missed, and the budget is kept.
- **Stream**: one well-formed envelope, never left in the middle; an answer is
  called complete only at the end of upstream's body; a second attempt is
  invisible.
- **kiro-cli credentials**: nobody is handed older credentials than somebody
  before; everyone is answered; the newest grant is used.
- **Log sink**: a reconnecting client misses nothing but what the ring, the
  replay or its own channel had no room for; logging never waits.
- **Request conversion and tool search**: whatever a client sends, upstream gets
  alternating turns with each result behind its use (but for results in a
  developer's message), and nothing said is lost; a tool found stays on offer, under a name the answer can restore.
- **OpenAI translation**: chunks well formed, in agreement with the response
  without streaming; the handler returns.
- **Account commands**: no command by itself costs an account its live refresh
  token; the device login keeps to upstream's pace.
- **Wiring**: accounts recover in spite of the poller; a signal ends the
  process.

The hazards behind these, each with its line and the properties that would
catch it, are in `PROJECT.json`.

## The modules

```
 Bundle ── TokenVault ── RefreshFlow ── AccountCommands
 VersionedCell (abstract, refined by TokenVault)
 Pool ─┬─ Rotation ┐
       │           ├── MessageCall
       │  UpstreamErrors ── UpstreamCall
       └─ Server (with AuthManager)
 Accumulator ── NonStreaming ┐
 SSEStream ──────────────────┴─ Response
     └───── OpenAIStream
 RequestConversion ── ToolSearch          LogSink
```

A line is EXTENDS, or INSTANCE where a composition needs names apart (the call
in MessageCall, AuthManager in Server, the writer in Response). Each `MC` module
gives constants for TLC, each `_proofs` module holds the theorems of the module
it is named after: Vault_proofs those of TokenVault, RefreshFlow and
AccountCommands, PoolUsers_proofs those of Rotation, MessageCall and Server,
Stream_proofs those of SSEStream and OpenAIStream, ToolSearch_proofs those of
ToolSearch and the lemmas on RequestConversion. Iteration has induction over the naturals, for the
recursive functions Response_proofs is about. Operators whose
comment calls them faulty or a mutant are not part of a specification: each is
a plausible bug in the definition that follows it, kept to test that a property
notices it.

**Bundle, TokenVault.** A row is a record; every vault operation is a function
of the row because it runs in one transaction under `Vault.mu`. TokenVault runs
these functions by the most general clients: refresh sessions that reserve and
then commit, release or die; writers that read a row and patch its metadata
under the generation they read (`ensureMachineID`, the ban); an operator that
saves and deletes; an import that checks before it saves. Rows of other
accounts never meet. The lock's deadline is counted down by `Tick`. An `era`
counts removals, so that a property can tell a row from its successor.
`VersionedCell` states what the protocol promises: a compare-and-swap cell. The
refinement maps the row's generation and tokens to the cell and each client's
reservation or read to what it holds of it.

**RefreshFlow** extends TokenVault: its sessions are processes with their
singleflight, its requests wait for a flight's result. Upstream numbers the
pairs it grants and accepts only the newest. What no code prevents is recorded:
in `mishaps` a crash, a lost answer, a metadata write in between, a commit and a
release whose transaction fails; in `strayed` a refresh that outlives its lock.
The safety properties say what cannot happen without them. The vault's
transactions are deferred ones, though its header says IMMEDIATE
(`vault.go:10-13`, `:239`), so beside another process's write any of them may end
in SQLITE_BUSY, and refreshOneInner ignores whatever Release returns; a context
that is done has the same effect. Failed releases alone are harmless to the
grant: `GrantKept` and `NoFalseStrike` hold with them (`Smooth`). Every step is a step of TokenVault or leaves its variables alone.

**Pool.** Requests are processes; `Pool.mu` makes Pick and a Record* one step
each, and the release of pins after the unlock is another. Times are ticks
left. A weight is reduced to whether it is at the floor: load and credits
scale it, so the draw may fall on any candidate or, when every weight is at
the floor, on the least recently used.

**AccountCommands** extends RefreshFlow by operators whose commands are
processes of their own on the server's vault. Each command is its steps: look
up, compare or refresh, save; the device login registers, authorizes and polls
until upstream answers. What commands may do to an account that no code
prevents is recorded in `lapses` (saved over another pair, raced, taken for
alike, refreshed without a reservation, an answer dropped, a second login,
removed), and the property says what cannot happen without them; taking any one
of them away makes it fail. All logins of the account are on one chain of
grants, so a second login counts as the lapse "relogin". A file holds one entry
of the account, pair 0.

**UpstreamErrors, UpstreamCall.** An error is a record of what the code looks
at: status, exception, reason, and whether the body speaks of a ban or of a
busy model. UpstreamErrors holds the classification functions of
`aws_error.go` and `execute.go`, UpstreamCall one call with its attempts and
endpoints.

**Rotation** extends Pool by the life of a request: token, call, sleep, next
token, and the second attempt. Every step that touches the pool is an action of
Pool. The poller, the operator and time are left to Pool's own runs; a nested
refresh that fails is `Unauthorized` of Pool. A refresh that is refused inside
the client's own token renewal is in Pool as a poll and not in Rotation.

**MessageCall** composes Rotation and UpstreamCall: what Rotation takes as the
outcome of a call is here computed by the attempts, endpoints and renewals of
UpstreamCall, step by step, so the properties of the rotation are checked
against the errors a call can end with and no others. A wait that is
interrupted ends the call as cancelled when the client left, and as a timeout of
the transport when the handler's own deadline passed, which the rotation takes
for a failure of the account.

**Server** is a process from start to exit, in either of its two modes: handlers
on the pool with the poller beside them (its delay, passes, ticker and select),
or on kiro-cli's credentials; then the signal, the drain with its timeout, Stop
of the poller and its wait, the close of the vault. Handlers and poller are
requests of Pool, handlers the callers of AuthManager. A poll is a reading, an
error, or a refresh that is refused; only the last starts a cooldown anew, so
`AccountsRecover` excepts polls that keep finding the refresh token refused, and
no others.

**SSEStream.** The writer's calls are queues of single writes, because each
takes `writeMu` on its own, so that a ping, a promotion and the loss of the
client fall between any two. Texts are empty or not; what the accumulator emits
and holds back is a choice. `wire` is what the client has received, `buf` what
the gate holds. How upstream's body ends is a choice of three: its end, a
connection that breaks between two frames, which readFrame reports as the end
(`EOF`), and a break that is noticed. The first attempt's keepalive that writes into an abandoned
gate reaches nobody and is left out.

**Accumulator.** One step is one event of upstream: delta, tags, stop sequences
and budget are functions from accumulator to accumulator, in the order of
ProcessEvent. The properties compare it with `Reading`, which reads the whole
text at once and knows no chunks. Upstream's text only grows, as the comment of
ComputeDelta says of it. SSEStream leaves what an event emits and holds back to
a choice, of which these functions make one.

**NonStreaming, Response.** NonStreaming has handleNonStreamingResponse around
the accumulator, with both attempts; Response is a request that is answered
either way, by SSEStream or by NonStreaming.

**OpenAIStream** puts the pipe and the translator behind SSEStream: a write of
the pipeline waits until the translator reads, the translator turns events into
chunks, and either end may stop first. The client that leaves is the
translator's; the pipeline does not see it.

**RequestConversion, ToolSearch.** RequestConversion has the pure functions, on
messages of blocks: TranslateRequest of the OpenAI route, Normalize, the
reordering of tool results, the shortening of names, BuildPayload. ToolSearch is
a client's conversation around them, request by request: the client writes, in
the roles of user, assistant and developer, with results out of place, several
of one use, of uses nobody asked for, and with images and references in them
(`Outputs`); the orchestrator runs its rounds; what the client is shown comes
back in its next request. Texts and ids are numbers,
so that a loss or a swap shows. Two things the code does to such conversations
are named as exceptions: results in a developer's message are not put behind
their uses (`DeveloperResults`, `PayloadWellFormed`), and of several results of one
use the last alone is kept (`Overwritten`, `NothingLost`); without either exception
the run fails. Images and references in a result are dropped, as is said with
`NothingLost`. A client's tool that is itself called ToolSearch, which nothing in
the code keeps out, is excluded (`ToolsAssumption`). How the search ranks is a choice of the
configuration, which fixes what a query finds.

**LogSink.** Record's three steps (sequence number, ring under the lock, fan
out) and a client's connect, replay, subscribe, follow, lag and reconnect. A
replay shows the newest `ReplayMax` records of the ring (500 of 2048 in the code).
Five mishaps are recorded: the ring dropped a record, a replay left one out, a
channel was full, a record fell between replay and subscription, two came out of
order. Filters are left out.

**AuthManager.** Credentials are numbered pairs with a valid bit. The flight's
steps (re-check, read, refresh, store) interleave with callers, invalidations,
kiro-cli and expiry. kiro-cli's own refreshes and logins are external.

## What is checked

Ten runs must pass. Sizes are distinct states. The type invariants of the
modules with theorems are theorems and not part of the runs.

| run | shows | bounds |
|---|---|---|
| vault | no stale commit, patches keep tokens, of two machine ids generated at once one is installed, a row becomes reservable by time alone | 2 sessions, 2 writers with an id of their own each, a refreshable and an unrefreshable pair, generation ≤ 3, 1 removal, TTL 1; @vault@ |
| refresh | the live grant is kept, no false strike, no orphaned lock, each unless a named mishap happened; every caller is answered; the vault implements VersionedCell | 2 processes, 2 callers, 1 writer, 1 rotation, 1 retry, transactions that fail; @refresh@ |
| commands | no command by itself costs the account its live refresh token, beside a server that refreshes, dies and is cancelled; the login polls at upstream's pace | 1 server, 2 operators (symmetric), 2 rotations, a first interval of 1 tick and slow_downs of 1, 3 ticks for a login, 1 kind of lapse before the last command begins; @commands@ |
| pool | pins follow their account's health and outlive its blips | 2 accounts, 2 requests of 1 session, a threshold of 2 failures; @pool@ |
| message_call | calls and bans bounded, an exhausted quota was met at every endpoint, only what can be an account's fault counts against one, every request is answered | 1 request, 2 accounts, 8 kinds of errors, 2 endpoints, 1 retry, budgets of 2 and 3; @message_call@ |
| server | accounts recover whatever fails and whatever polls find; credentials never go back; every caller is answered; a signal ends the process | 1 account, 2 handlers and the poller, cooldowns of 1 and 2 ticks, 3 grants; @server@ |
| response | one well-formed envelope with pings, no half answer, complete only at the end of the body, the retry is invisible, every request ends; an answer does not depend on how upstream cuts its text, stops exactly, and counts what it emits | streaming: 2 upstream events and 1 ping over both attempts; collecting: texts of ≤ 5 units cut in pieces of ≤ 3, 3 lists of stop sequences, no budget or 2 tokens of 2 units, 1 unit of reasoning, 3 tool events; @response@ |
| openai | the chunks are well formed and agree with the response without streaming; the handler returns unless the pipe hangs | as the streaming of response; @openai@ |
| tool_search | the payload of every round and request is well formed and loses nothing, with the two exceptions above; tools found stay on offer under names that can be restored; no JSON and no second run behind bytes sent | 3 messages of the client and 2 requests, or 3 messages on the OpenAI route, 3 blocks that are written (results included), a result of text and one of an image and a reference, 1 active and 2 deferred tools, one of them with a long name, 3 queries (by name, ranked with a limit of 1, invalid); @tool_search@ |
| log_sink | a tail is complete unless one of five named mishaps happened; a record never waits for a reader | 2 handlers, 2 clients, 3 records, ring of 2, replay of 1, 2 connections each; @log_sink@ |

Two of each actor are enough for the races modelled: each relates at most two
clients and the row, account, gate or ring between them, and a third adds
interleavings of the same pairs. Generations go to 3 in `vault`, so that a
rotation can follow a rotation that followed a reservation. Two upstream events
reach a block and its end, two blocks, a stream that breaks in either, and one
event in each attempt. Cooldowns of one or two ticks distinguish "over", "shorter" and
"longer". Five units hold both tags, of two units each, with text between or behind them.
Three messages let a result stand before, behind and away from its use. Where a
bound is tight it is the proof that carries the property to
every size: `GrantKept` and `NoFalseStrike` concern any number of rotations,
`OnlyFaultsCount` and `CallsBounded` any number of requests, and every
safety property of vault, refresh, commands, pool, message_call and server, and
of the SSE writer, is a theorem. What only the runs show is listed under the
proofs.

Deadlock is checked except in response, openai, tool_search, log_sink and
server, where an answered request, a conversation at its bound, a used up supply
of records and a process that has exited really stop.

Two runs end in a counterexample. Each checks what a comment says of the
program, and is a finding in `PROJECT.json` with both sides quoted:

| run | what happens |
|---|---|
| refresh_commit | a machine id or a ban is written while a refresh waits for upstream: the commit is stale, upstream has rotated, and the row keeps a refresh token that is dead |
| openai_hang | the translator returns early, because its client is gone or an error event ended it; the pipeline's next write waits on a pipe that nobody reads or closes, beyond the request's timeout |

### Divergences met while modelling

The models follow the code, so the following behaviours are in them. Each is at
odds with a comment, a document or a test of the repository; none is a property
of a run, but a reader of a counterexample should know them.

*Vault.*
Removing and adding an account restarts its generation at 1, so a refresh that
reserved the removed row can commit into its successor
(`tokenvault/vault.go:187`); this is what `era` tells apart.
A session that outlived the lock's TTL releases by a generation that its
successor shares, and so drops the successor's lock (`vault.go:397`).
`RecordStructuralError` commits a ban under a generation it read earlier and
ignores a mismatch, so a refresh in between leaves the ban in memory only
(`pool/pool.go:793`).

*Account commands.*
`import-accounts-json` promises protection for accounts already imported
(`cmd/kiroxy/import_json.go:132-140`), but compares with a Get and then saves
without a condition, beside a server that may refresh in between (`:173`), and
compares access tokens by their first characters. Any Save during a running
refresh, of equal tokens too, clears the refresh's lock and makes its commit
stale after upstream has rotated. `import-accounts` overwrites a newer rotation
with no more than a warning. A login under an existing label overwrites it
without a word. `debug-refresh` presents the refresh token without a
reservation, and without -persist drops the rotated one
(`debug_refresh.go:101`). A poll of the device login whose answer is lost ends
the command although the user has approved (`builderid.go:226`).

*Refresh.* The vault's header says that its writes run in IMMEDIATE transactions
(`vault.go:10-13`); they are deferred ones (`:78`, `:281`), so a commit beside another
process's write can fail, after upstream has rotated: the live refresh token is
then lost (`pool/refresh.go:226-236`; the mishap "commit_failed"). A refresh whose
context is done, or whose transaction fails, does not get its Release through
either, and the error is ignored: the lock stays until its TTL
(`refresh.go:201`, `:233`; "release_failed").

*Pool.*
A pinned session gets its account without regard to MinRestPeriod
(`pool.go:365`).
RecordFailure assigns CooldownUntil whatever it was, so a late failure of an
ordinary kind shortens a quarantine (`pool.go:524`).
The default cooldown of a ban is shorter than MaxCooldown (`pool.go:83`).
An account removed by another process stays in the pool, and the pins to it
stay too (`pool.go:389`).
One failure in an otherwise empty ring puts an account's weight to the floor
(`health.go:115`), and no request records a success (`pool.go:408`): the
"consecutive" failures of a cooldown are all failures since the last one elapsed
or the operator reset it (`pool.go:486`).

*Upstream call and rotation.*
A 401 makes the call ask for a token, and the pool may hand out another
account's: what fails after that is recorded for the request's first account
(`kiroclient/client.go:447`). `OnlyFaultsCount` therefore speaks of the kind of
error only, and not of whose token it answered. A refusal of the renewal itself
that is a ban (401 or 403) is not among the bans `BansStopRotation` counts. A ban sent as 401 or 403 takes that path too and
is retried with the new token.
After a shortage of capacity the session's pin still stands, and the rotation
returns the account just tried (`messages/execute.go:410`).
Without pool retries (single mode) the larger budget for unknown models is never
reached, because the loop's condition is false before it counts
(`execute.go:343`); and the last failure of a rotation is not recorded, unless
it is structural.
A request for a model upstream does not know, which isStructuralError's comment
calls a fault of the caller (`execute.go:292-299`), counts as a failure of every
account it rotates over (`:388`): alone it quarantines none, several do. So does
the handler's own deadline (`handler.go:29`), which is taken for a timeout of the
transport (`execute.go:201`).

*Stream.*
An answer without visible output (thinking that used up its budget, no content
at all) that is finished for another reason than an empty end of turn stays
behind a gate that nobody opens, and the client gets an empty 200
(`messages/response.go:120`, `respconv/streaming.go:304`).
A connection that breaks within a frame after promotion ends the client's stream
with an error event and no message_stop (`messages/response.go:108-111`). That is
the ending on which TruncatedFinish's comment says clients hang
(`respconv/streaming.go:239-263`) and which its test rejects
(`streaming_test.go:348-355`); `NeverHalfAnswered` names it as its one exception. An
error that upstream sends as an event is followed by the synthetic close of a
complete answer (`respconv/streaming.go:225`).
A connection that breaks between two frames reads as a clean end
(`kiroproto/frame.go:29-33`), so a truncated answer is finished with end_turn, or
retried when it has shown nothing: what TruncatedFinish's comment says must not be
told of a dropped connection (`streaming.go:257-263`). `CompleteOnlyAtEOF` takes
such a break for the end of the body, as the code does.
Pings wait in the gate until it is promoted, which is when they are no longer
needed (`gate_writer.go:44`); a ping may follow message_stop
(`streaming.go:87`); and Promote flushes the gate without the writer's lock
(`streaming.go:451`).

*Tool search and request conversion.*
Of the blocks of a search that a client sends back, the use stays and the result
is dropped, and a redacted_thinking block becomes text (`reqconv/content_text.go:30`).
Two results of one tool use in a message become one (`tool_results.go:74`).
A message in a foreign role counts as the user's only after the results of
tools that nobody asked for have been looked for in the user's messages
(`message_normalizer.go:78`), so such results stay results.
The schema sanitizer drops a property whose name is that of an unsupported
keyword (`schema_sanitize.go:57`).
When a later round breaks off behind output the client has seen, its stream ends
without message_stop (`messages/toolsearch.go:137`); a tail held back when a
search is called for is lost with the accumulator (`:84`), while the answer
without streaming keeps it; of two searches in one reply streaming runs the
first, the answer without streaming the last; and no round tries another account
or records a failure.

*OpenAI route.* A pipeline that fails with an error status before any byte is
relayed only after the translator has written a 200 with `[DONE]`
(`server/openai.go:173`, `openai/translate_stream.go:120`).

*Inbound keys.* Keys can be created and revoked, but no middleware verifies one:
the server compares with its static key alone (`server/auth.go:32`).

*Shutdown.* A second signal is not listened to; a listener that fails ends the
process without closing the vault (`cmd/kiroxy/main.go:415`); handlers outlive
the timeout of the drain and find the vault closed (`:457`); and Stop may cancel
a poller's refresh between upstream's answer and the commit.

*Accumulator.*
When thinking exhausts the budget, the text behind it in the same chunk is
emitted uncounted (`respconv/event_processor.go:29`); only the next chunk is
suppressed.
FinalizeStream emits what was held back of a tag after a stop too, so a "<" may
follow the stop sequence (`accumulator.go:129`).
Of several stop sequences in one chunk the first of the list ends the text, not
the first to occur, so the cut of the chunks may decide (`stop_sequence.go:19`).
kmpOverlap returns the next shorter border when the whole chunk ends the text
before it, where its comment says the chunk's length (`chunk_delta.go:69`).

*Log sink.* The sequence number is taken before the ring's lock, so the ring may
be out of order (`server/logsink.go:80`), and a record that falls between a
client's replay and its subscription goes to neither (`server/logs.go:105`).
They are the mishaps "reordered" and "gap". A client that was away for more than
500 records of a ring of 2048 gets the newest 500 and no word of the others
(`server/logs.go:93-99`, `cmd/kiroxy/main.go:153`), though the comment promises its
tail intact: "truncated".

*kiro-cli credentials.* A rotated refresh token is kept in memory and never
presented: the next refresh reads kiro-cli's database again
(`auth/refresh.go:133`).

### Fairness

Goroutines that can run do run, and every upstream call ends, by its client's
timeout if by nothing else: weak fairness of a flight's steps (RefreshFlow, and
AuthManager in Server), of a request's steps (MessageCall, Response,
OpenAIStream) and of a record's steps (LogSink). In Response one condition
covers the handler and the keepalives together: while one of them can go on, one
does, which any scheduler gives. It includes the end of a silent upstream, which
the idle reader's timeout brings about, and not further pieces of a collected
answer. In Server the poller's end is strongly fair: its select may find the ticker
ready again and again, and Go's select, which chooses among ready cases at
random, does not pass over the closed channel for ever. Time passes: weak
fairness of Tick in TokenVault and Server. Nothing is assumed of clients,
operators, commands, upstream's verdicts or other programs.

## What is proved

TLAPS checks these for all values of the constants, under the named
assumptions of each module (typing of the constants, distinct keys, positive
TTLs and thresholds; one request at a time in MessageCall, as each request has
its own call; a poller among the requests, and a mark for "no credentials" that
is none, in Server). Each `_proofs` module states its inductive invariant, and
where that invariant is not the property itself TLC has checked it on the run's
instance before it was proved.

**Vault_proofs**, on TokenVault first. `VersionInv` is the inductive invariant: whoever holds
the present generation knows the present tokens and, for a writer, the present
metadata, and no remembered version is newer than the row. The type invariant
does not imply it, and the generation check means nothing without it: a commit
that passes the check writes over exactly what the client read. From it follow
`NoStaleCommit`, `PatchKeepsTokens`, `GenerationIsVersion`, `MachineIDStable`,
the exclusive lock, and, with an invariant for the one era of ServingSpec, the
refinement of VersionedCell, one case per action.

On RefreshFlow each step is shown to be a step of TokenVault
(`FlowImplementsVault`), so its theorems carry over. `FlightsCurrent` (a flight
holds the row's present version while nothing went wrong) and `GrantInv` (the
newest grant is in the row or in the hands of the flight that is about to
commit it) are inductive together with the vault's invariants; the five
properties of the run follow from them.

On AccountCommands: the commands beside the server are clients of the
vault (`CommandsImplementVault`), so nobody's reservation or read is newer than
the row and the lock is exclusive here too. `AccountUnharmed` is not inductive:
that the live token is somewhere says nothing of the next Save. `CommandInv`
adds, while there is neither mishap nor lapse, what makes every Save harmless:
the row's pair is never newer than upstream's; a command has read that pair or
an older one (`JobFits`), and if debug-refresh has read the row's it is about to
store that or the newest; no flight is under way while debug-refresh has an
answer to store (`FlightsFit`); tokens from a file or a first login are pair 0,
and while the row is empty nothing newer exists (`GrantFits`). `SavesNothingOld`
draws the conclusion: what is saved is the first pair into an empty row, the
pair that is there, or the newest. A command's many small steps are sorted once
(`CommandShape`) into those that only turn to the next stage and the six that
move a token. `PollsPolitely` follows from an invariant of its own: the interval
WaitForCompletion waits is never below upstream's demand.

**Pool_proofs.** The type invariant bounds the backoff, rings and times for
every policy. `PinsFollowHealth` is inductive with it: a pin whose account is
out of service has its release still to come, in the step after the unlock.

**PoolUsers_proofs**, on Rotation first: every step is a step of Pool or
stutters, so Rotation implements it. A loop invariant for each request (the
account it holds, the budget, calls counted against rotations, bans against
flags) gives `CallsBounded`, `BansStopRotation` and, with lemmas on the
classification of errors, `OnlyFaultsCount` (`OnlyFaultsAreBlamed`). The composition implements
Rotation: the error a call
ends with is one Rotation allows, so the three properties above hold with
upstream's answers taken one by one (`MessageKeepsBounds`). For
`QuotaGoneEverywhere` the invariant says of a call that is still running what
the property says of one that has failed: every endpoint before the present one
has refused for its quota. Counting the requests sent against the endpoints
behind (`Room`) bounds a call by MaxRetries + 1 requests for each endpoint,
renewals of the token included.

Of Server: it implements the Pool and, in its other mode, the
AuthManager. `ManagerInv` orders the generations of credentials: while the
database's are valid, nothing cached, in a flight or handed out is newer
(`DatabaseNewest`); a flight refreshes expired ones only, which only newer ones
replace; what an answered flight brings is not older than the cache
(`FlightNewest`); and a pair kiro-cli has and has not yet written is newer than
anything kiroxy knows (`Unwritten`). `NeverOlder` is inductive with these.
`PollerInv` says that the poller polls only in a pass and is done once the
process closes, so the vault is closed behind it.

**Stream_proofs.** `StreamInv` is the invariant behind the four properties of
the SSE writer, for any number of upstream events, pings and keepalive ticks.
What has been written (to the client, or to the gate while it holds back) is
well formed (`WellMade`), and its last event says where the writer is: before
message_start, between blocks, inside a block, behind an error, finished
(`Placed`, `Stopped`). The writer's queue is a chain of single writes with a
right end (`Planned`) whose head fits the block that is open (`Fitting`); how
reading ended belongs to the handler's phase (`Phased`), and the gate's mode
decides which of buffer and wire holds the answer (`Gated`). Events are written
one by one, so a step moves the place by one event and the chain hands its next
write a place it fits; a ping changes no block, which is why the keepalive may
fall anywhere. `CutSaysSo` allows end_turn only behind what readFrame takes for
the end; from it follows `CompleteOnlyAtEOF`
(`OnlyTheEndCompletes`).

The OpenAI route runs the same steps behind its pipe (`OpenAIRunsTheStream`).
What a well-formed answer does not say, and the translator needs, is `Blocks`: a
block of text has a delta, and a tool's input comes right behind its block; it
is inductive because the call a block waits for stands first in the queue
(`Awaited`). `OpenAIInv` then ties the translator to its position in the pipe
(`At`: what is on the wire less what it has read and not handled). Of the events
up to there `Read` says how many were tools, and that they have ascending
indexes and as many chunks (`Numbered`), whether there was text (`Texted`), what
the one message_delta made of the reason (`Finishing`), and where the last chunk
stands (`Position`). Handling an event moves the position by one and adds at
most one chunk that may follow the last (`FrameAdds`, `FrameOrder`), while the
pipeline fills the pipe only behind it (`ReadStays`). `ChunksWellFormed` and
`StreamAgrees` are what remains at the end of the pipe.

While Response streams it takes SSEStream's steps, so the run `response` and the
theorems speak of the same definitions.

**Iteration, Response_proofs.** The accumulator's loop and its reference are
recursive functions. The library's induction rule takes an operator, which the
provers cannot instantiate; its fact that a set with a well-founded relation has
minimal elements (`WFMin`) takes a set, and induction follows from it for the set
of the numbers that are good (`Induction`). So do the existence of a function
defined by steps (`IteratesExist`) and least and greatest elements, which
`Min`, `Max` and hence Index, Keep and kmpOverlap rest on. `AccumulatorInv`
states of each accumulator what every operation keeps: what is emitted is
counted and under the budget until something stops it (`Within`), and cut at the
budget when only text was (`Exact`, until the stream is finalized). What is held
back is less than a tag and no more than may begin a stop sequence
(`HoldsLittle`), which bounds what finalizing the stream adds without a budget
(`Over`). The lemma on division (`TokensBelow`) turns the estimate of tokens into
units. `BudgetIsKept` follows for every text, request, budget and ratio of runes
to a token.

`CutsAreInvisible` compares the accumulator, which has read its text in the
pieces it came in, with a reading of the whole, and is not inductive: it does
not say what is held back. `CutsInv` does. What the accumulator has of its text,
emitted or held back for a stop sequence, and the thinking it has taken from
tags, are what the first k units read, whatever follows them (`ReadsTo`,
`FollowsText`), and behind those k units is what it holds for a tag, less than
one (`Settled`). A round of the parser keeps that, because it cuts its buffer
where no tag stands before, nor would with more text behind (`CutIsRight`), and
every round that does not settle comes nearer to the end (`RoundSettles`), which
is why as many rounds as units are enough. Reasoning, in units of its own, is
sifted out of the thinking (`Sifted`). For stop sequences, `Clean`: there is none
in the text emitted and held back, and as much is held back as may begin one, so
that one that appears later begins in what is held back (`NoneBefore`). Once
something has stopped the answer, what is emitted stays the beginning of what
every longer text says (`Behind`), and the stop sequence stays the first of its
kind there (`Right`), with none of those listed before it up to there, because a
stop is decided where the list is read from its beginning (`FirstListed`).
`CutsDoNotShow` and `StopsAtTheSequence` follow for all
tags of more than one unit, all stop sequences, texts and budgets.

**LogSink_proofs.** `NothingMissed` holds while there is no mishap: no two
handlers have the same ID, and every ID taken is in the ring or with the handler
that took it; the ring is in order; what a connected client has not seen of the
ring is in its channel, in order, or with a handler about to fan it out, and the
channel is older than what a handler holds. So nothing the client has yet to see
is older than its last ID, where the next replay begins, and `TailKept` follows.

**ToolSearch_proofs.** The conversion filters and folds; written as recursive
functions these are iterations, and `FoldExists` gives each fold its steps
(`OnlySteps`, `PromoteSteps`, `MergeSteps`, `AlternationSteps`, `FlatSteps`), over
which induction goes. One lemma for each operator of RequestConversion says that
its result is made of words its input is made of and of fillers (`Telling`), up
to the payload (`PayloadIn`). `SearchInv` uses that with a set of words which
depends on the state: in the messages of the orchestrator nothing is said of a
tool found unless the tool is active by then, under its short name (`Talk`,
`Told`); and while the upstream is called each tool of the request is active once
or deferred, and active if the client's messages refer to it (`Offer`). A search
moves the two sides together: the names it tells are those it promotes, and those
told before stay active. `FoundToolsOffered` follows, and `OwnNames` with it: the
map a name is restored by holds all active tools. Assumed is that a client's
tools have different names, none that of the proxy's own search tool, and that
shortening, by 13 digits of a hash, keeps them different (`ToolsAssumption`).
`AnsweredOnce` has an invariant of its own, `Gate`: nothing is delivered but
through the open gate, which opens for streams only.

`PayloadWellFormed` relates neighbouring messages. From Normalize's first pass on
the messages are `Tidy`: a message of the user's that has results stands right
behind the assistant's whose uses they answer, unless all its results are those
of a given set, the ones a developer's messages came with (`Excepted`). Textualizing makes it so
(`OrphansTidy`, and `AllTidy` without tools); merging takes in only text, and
leaves the uses in the last message (`EndsAs`, `MergedTidy`); a filler goes
between two messages of one role, where the later one, by `Tidy`, can have no
results (`AlternatedTidy`); and in the end the roles take turns (`InTurn`). Each
entry of the history is then the turn of its message (`TurnOf`), the results in
the order of the uses (`ReorderAnswers`), and the system prompt's pair shifts all
by two (`PlacedTurns`, `TurnsFit`), which gives `PayloadTurns` for any messages
that are `Proper`, which is to say that a string holds no results. The exception is
the code's: `textualizeOrphanToolResults` passes over messages of any role but
"user", and `normalizeRoles` makes a developer's the user's only afterwards.
`Forms` is the invariant that says what clients write and the orchestrator adds
is proper, and `RequestProper` says so of what
translateMessages makes of an OpenAI conversation.

Only model-checked: everything under fairness (TLAPS has no proof rule here for
ENABLED), and `NothingLost` of ToolSearch, which counts words: with it each fold
would have to be a permutation of what it was given, an induction over bags of
words for which the library has no facts.

## The plan

Done: the models of all the parts above, and the proofs of the vault and what is
built on it, Pool, Rotation and MessageCall, Server, SSEStream and OpenAIStream,
LogSink, the accumulator, and the names and turns of ToolSearch. Left:
`NothingLost` for every conversation.

## Not modelled

- Inbound keys: each operation is one SQL statement, and no request depends on a
  key (see above).
- Routing, the validation of requests, recovery from panics, readiness, the
  dashboard's ring of recent requests, settings: reads and single assignments.
- Binary frames and checksums of the event stream: SSEStream takes how a stream
  ends as a choice.
- Schema sanitizing, cache points and the thinking tool in the conversion of
  tools; sampling parameters and models of the OpenAI route.
- ForcePoll, which nothing calls, and the figures of usage, which only scale
  weights.
- Metrics, logging formats, tracing, configuration, static tables and pages, the
  browser automation that onboards accounts, load tests: they keep no state the
  program reads back.
