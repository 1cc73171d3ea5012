# PII-Guard in TLA+

PII-Guard is a local proxy between a coding agent and a language-model provider.
It replaces personal data and secrets in outgoing requests by placeholder tokens
(`[EMAIL_1]`, `[API_KEY_1_BLOCKED]`), refuses requests that hold what must not
leave, and puts the original values back into the replies that it reads. Around
the proxy are an optional NER process, a policy file that is reloaded while the
program runs, an audit ledger on disk and a few operating tools.

This directory holds TLA+ modules of those parts, the TLC runs that check them
on small instances, and proofs of the safety properties that matter most for
instances of any size. `PROJECT.json` lists the components, runs, mutants,
theorems and hazards, and for every definition the source lines it stands for.
Paths below are relative to `src/pii_guard/` unless they begin with `src/`.

    tlc -workers 2 -config MCTools.cfg MCTools.tla     one run
    tlapm LedgerProofs.tla                             one module of proofs

Contents: 1 inventory, 2 how the parts interact, 3 the modules, 4 the runs,
5 fairness, 6 what is proved, 7 what is only model-checked, 8 what the models
show about the code, 9 abstractions, 10 what is not modelled, 11 plan.

## 1. Inventory

| Part | Source | State it keeps | Operations | What is hard | What makes it correct |
|---|---|---|---|---|---|
| Session map | `session_map.py` | two dictionaries value-token, one counter per category | `encode`, `decode`, `rehydrate`, `reset` | check-then-act over three dictionaries with no lock of its own; a value met again under another category | one token per value and one value per token until `reset` |
| Look-ahead buffer | `streaming_buffer.py` | text held back | `feed`, `flush`, `reset` | placeholders cut at any position by deltas; deltas longer than the buffer | nothing lost or reordered, little held back, no placeholder cut |
| Streaming rehydration | `streaming_rehydrator.py`, `proxy.py` `_forward_streaming` | parser buffer, look-ahead buffer | read, feed, write, flush | event, chunk and character boundaries; either end going away; the only server thread | the client reads a prefix of the restored reply, in the order sent, and only a client or an upstream that goes on sending keeps the thread |
| Request pipeline | `proxy.py`, `engine.py`, `masker.py`, `tripwire.py` | session map, engine lock; per request the payload, `should_block`, gaps | accept, scrub place by place, sweep, refuse or forward, restore | failure of one scan among several; secrets in fields nobody visits; crash with a session in memory | nothing raw leaves but by policy, what is refused stays, what is quoted comes back |
| Provider scrubbers | `providers/claude.py`, `openai.py`, `gemini.py` | none | walk a request | which fields are visited at all | every place is scanned, refused or knowingly passed |
| Response rehydrator | `response_rehydrator.py` | none | walk a reply | which fields are restored | as above, for replies |
| Stage-2 runner, worker | `stage2/runner.py`, `stage2/_workers.py` | two queues of length 1, a process with or without its model | `warmup`, `scan`, `close`; the worker's loop | timeouts against late answers, idle exit, kill, restart | an answer belongs to its own text; no call hangs |
| Detection and redaction | `detector.py`, `proximity.py`, `masker.py`, `runner.py` `_merge_detections` | none | `scan_text`, `merge`, `apply_redactions` | three different rules for overlaps in sequence | what a later stage uncovers of an earlier one's finds is known; text is neither lost nor doubled |
| Policy loader, watcher | `policy.py` | policy in force, known mtime, hash of the last pin-list | construction, `reload_if_changed`, watcher thread | reads outside the lock, two loading threads, debounce, invalid or missing files | what is on disk comes into force, and no pin-list that was not allowed to |
| Pin-list guard and gate | `pinlist_guard.py`, `pinlist_approval.py` | gate state, staged proposal | `check`, `propose`, `approve`, `reject` | a read-modify-write of a file with other writers | as above |
| Audit ledger | `ledger.py`, `cli.py` `ledger purge` | active file, numbered archives | `record_*`, `rotate`, `apply_retention`, `purge`, `initialize` | several system calls per operation, each may fail or be the last; a second process | the files are one history; only the oldest entries go |
| Request vault, mask styles | `vault.py` | a token store per request | assign, restore, mask in three styles | overlapping spans; several texts with one store; styles that cannot be undone | what was hidden can be restored; what stays raw is accounted for |
| Decision engine | `decision.py`, `stage2/policy_layer.py`, `policy.py` | the parsed policy, the hash of its pin-list | decide, failure actions, apply | settings from five sources, each absent, wrong or valid; a pin-list that is replaced without approval | no decision its callers cannot act on; an unapproved list decides as the old one |
| Egress lockdown | `pf_manager.py`, `cli.py` | packet-filter rules, one flag per object | enable, disable, status | one or two external calls per operation, each may fail; several processes share the rules | rules have an owner; who is told *off* can rely on it |
| Signed rule updates | `updater.py` | key file, manifest | make a key, sign, verify, load | files replaced, damaged or cut short between the steps | what is loaded was signed with the verifier's key |
| Launcher | `launcher.py` | `os.environ` | `env_patch` | blocks that overlap without nesting, in several threads | the environment is restored; no child goes round the proxy |
| Coverage alarm, schema coverage | `providers/coverage_alarm.py`, `schema_coverage.py`, `*_parser.py` | none | parse, compare, report | four walks over one format, written apart | map and scrubber agree; a strict configuration lets through only what is listed |
| Command line | `cli.py` | none | serve, ledger, egress, pin-list | processes beside the proxy | with the components it drives |
| NER backends | `stage2/gliner_ner.py` and others | a model | predict | errors swallowed by `predict` | out of a model checker's reach |
| Categories, boundary report, demo page, offline scripts | `categories.py`, `boundary.py`, `src/ui`, `src/training`, `src/benchmarks`, `src/validation`, `src/scripts`, `corpus` | none or presentation | - | - | - |

The hazards of these parts, each at its line and with the properties that would
show it going wrong, are the list `hazards` of `PROJECT.json`.

## 2. How the parts interact

*One thread serves all clients.* The proxy is an `HTTPServer`, not a threading
one, so requests come one after another; `_engine_lock` is taken around masking
and restoring all the same. Both ends can hold that thread for as long as
they like: a client that does not finish its request or does not read its answer
(its socket has no timeout), and an upstream that keeps sending, however slowly
(the 30 s of `proxy.py:527` bound each read of the socket, not the call). The
session map lives as long as the process and is
shared by all clients and providers. A request is scrubbed place by place: each
text goes through the regular expressions, the context rules and, if there is a
runner, the worker process; the detections left over are replaced by tokens of
the session map. The tripwire looks at every string of the result again. What
the upstream answers is restored with the session map of that moment, at once
or event by event, if the proxy can read it: a body that is no JSON object or is
compressed is passed on as it came.

*The Stage-2 worker* is a process with two queues; it is started, killed and
replaced by the calls of the runner, and leaves by itself after a minute.

*The policy file* is written by the user's editor and by the approval gate and
read by the loader's two threads. *The ledger's files* are written by the
process that records and purged by it or by the command line. Neither the
loader nor the ledger is wired into the proxy at this commit (nothing in
`proxy.py` or `engine.py` imports them): they are library components with their
own tests, and are modelled as such. The same is true of `decision.py`,
`vault.py`, `coverage_alarm.py`, `updater.py` and `launcher.py`.

*The coverage alarm* compares a request with the known schema and may refuse it;
the parsers list what is to be scanned. Together with the scrubbers these are
walks over the same JSON kept in different files: nothing makes them agree but
the care of who edits them.

*The tools* share things outside the process. All `PfManager` objects of a host,
in `with` blocks and in the `egress` commands, load and flush one anchor of the
packet filter. `env_patch` changes `os.environ`, which all threads of a process
share. Signer and verifier read one key file, and manifests are files that
others write.

## 3. The modules

| Module | Models | State and actions |
|---|---|---|
| `Pseudonyms` | abstract: what any token store promises | a set of (value, token) pairs; Register, Forget |
| `SessionMap` | `session_map.py` | `v2p`, `p2v`, `counters` are the three dictionaries; Encode, Reset. Refines `Pseudonyms` |
| `SharedSession` | one `SessionMap` used by several threads | extends it with a program counter per thread; `encode` is taken apart at each read and write of a dictionary. `UseLock` is the proxy's lock or the demo page's lack of one. Refines `Pseudonyms` under the lock |
| `LookAheadBuffer` | `streaming_buffer.py` | `buf`, with the history of what was fed and returned; Feed, Flush, Reset |
| `StreamRelay` | `_forward_streaming` and the rehydrator | extends `LookAheadBuffer` with the upstream, the events written and the ways either end goes away, falls silent or stops reading |
| `WireFormats` | scrubbers and response rehydrator | tables: what happens to the content of each place of each format |
| `ProxyPipeline` | `_handle_post` from body to answer | composes `SessionMap` and `WireFormats`; one action per place scanned, per sweep, forwarding, reply, failure, crash, and per wait of the thread for a client or the upstream |
| `Stage2Runner` | runner and worker process | both queues, the worker and its model; one action per put, get, timeout, load, exit |
| `Redaction` | `Engine.scan` on one text | hits are arbitrary intervals; one action per stage |
| `PolicyControl` | loader, watcher, guard, gate, user | the file with its mtime, the loader's three fields, a program counter per thread; one action per read, stat, swap, poll, write, removal |
| `Ledger` | ledger and `ledger purge` | the files by number, a program counter per process; one action per system call, any of which may fail |
| `JsonValues` | - | parsed JSON, paths, and what a walk records of a place; used by the next three |
| `ClaudeRequests`, `OpenAIRequests`, `GeminiRequests` | the scrubber's, parser's and schema's walk of one provider | three operators `Scrub`, `Parse`, `Diff` on a request, one helper per method of the code; `Unread` says what the three leave out |
| `Coverage` | `coverage_alarm.py` over these walks | the request, the differences found, the alarms, the map, the scrubbed places; one action per walk |
| `Decision` | `decision.py`, `policy_layer.py`, parsing in `policy.py` | the policy in force and the hash of its pin-list; LoadPolicy, ApplyDecisions |
| `Vault` | `vault.py` | tokens and counters, the texts masked so far; MaskText |
| `Lockdown` | `pf_manager.py`, `egress` commands | rules and table of the anchor, a flag and a program counter per process; one action per call of `pfctl` |
| `Launcher` | `env_patch`, `ProcessLauncher` | one variable of the environment, the value each block saved; enter, patch, leave, start a child |
| `Updates` | `updater.py` | key file, keys held by signer and verifier, manifest file; make, read, sign, damage, load |
| `DataLemmas` | - | lemmas about least numbers, finite sets, recursive functions and joined sequences, used by the next row |
| `StreamProofs`, `RequestProofs` | - | proofs about `LookAheadBuffer` and `StreamRelay`; about `Redaction`, `Decision` and `Vault` |
| `EngineProofs`, `ProxyPipelineProofs` | - | proofs about `SharedSession` and `Stage2Runner`; about `SessionMap`, `ProxyPipeline` and `PolicyControl` |
| `CoverageProofs`, `LedgerProofs`, `ToolsProofs` | - | proofs about `Coverage` and the requests it walks over; `Ledger`; `Lockdown`, `Launcher` and `Updates` |

The `MC*` modules give the constants of their module values. Five of them put
modules with no state in common into one run (`MCEngine`, `MCStreamRelay`,
`MCProxy`, `MCRequests`, `MCTools`): their variable `part` says which module a
behaviour is about, and what belongs to the others stays as it is. Nothing is
hidden by this: each part's behaviours are those it would have alone.

Definitions that carry the remark *mutant* or *slip*, or whose name says so
(`ResetKeepsReverse`, `CloseWithoutFlush`), are plausible bugs of the operator they
precede; they are used only to see that a property would notice.

Definitions keep the names of the source where they can: `Encode`,
`FindSafeBoundary`, `EnsureWorkerAlive`, `StatFile`, `UnlinkOldest`. Variables
are the fields of the objects; the comments beside them give the Python names.
Variables marked *history* are read by properties only.

## 4. The runs

| Run | Question | Bounds | Distinct states |
|---|---|---|---|
| `engine` | Does the engine lock make `encode` atomic across requests? Does each Stage-2 call return, with its own answer or none? | 2 threads, 2 values, 2 categories; 4 calls | 438 600 |
| `relay` | What reaches the client of a stream, however it is cut, framed or broken? Does the buffer delay text, or cut a placeholder? | 3 events, 1 in flight, 1 delta that overfills the buffer; placeholder 3, buffer 6, text 8 characters | 1 293 643 |
| `stream_tokens` | *violated:* does no token ever reach the client? | as above, with tool calls | - |
| `proxy` | What leaves raw, what is refused, what comes back, across requests and a crash? Who can keep the server thread? And which policy may come into force, and does what is on disk? | 2 requests, all 3 formats, all places and unknown paths, 4 values, 1 crash; 2 writes, any removals, 1 gate, with debounce | 224 731 and 298 153 |
| `pipeline_gap` | *violated:* is a failed Stage 2 reported? | 1 request | - |
| `stage2_cold` | *violated:* does warmup spare later scans the loading of the model? | 3 calls | - |
| `requests` | Do the walks over a request agree? Are overlaps resolved, policies decided and vaults restored as promised? | one message per kind of content; 4 positions, 3 hits, 2 more of each later stage; each setting by itself; 2 texts of 5 characters | 39 526 |
| `redaction_priority` | *violated:* does the hit of higher priority win? | 2 hits | - |
| `stage_one_priority` | *violated:* does the NER only fill the gaps of Stage 1? | 1 hit of each | - |
| `policy_stale` | *violated:* is the next write always picked up? | as in `proxy` | - |
| `pins_unsigned` | *violated:* does a pin-list need `pin_list_approved: true`? | as in `proxy` | - |
| `tools` | Which ledger entries can be lost, what does a purge leave, are the archives in order? Who answers for the firewall's rules, is the environment restored, was what is loaded signed? | 2 archives, 1 entry per file, 2 entries; 2 blocks and 1 command, 1 of them astray; 3 blocks; 2 keys, 2 signatures | 717 475 and 676 642 |

What the properties say is in the comment above each. Why the bounds suffice:

- *Threads and values.* Two threads can already meet on one value (both miss the
  lookup) and on one counter (both load it); a third adds no new pair of
  conflicting accesses.
- *Placeholder and buffer.* With a placeholder of 3 characters and a buffer of
  6 (twice that, the least the constructor admits) a delta can hold a whole
  placeholder before, across and behind the forced cut, and 8 characters hold
  one cut in every way with text on both sides. The code compares lengths with
  these two constants only.
- *Relay.* Three events cut the token in every way, and one of them may overfill
  the buffer, so that the forced cut severs a token or spares it; nothing in the
  relay depends on how many events went before but the buffer's content.
- *Pipeline.* The pipeline treats places by their treatment alone, so requests of
  two places, one of each treatment, show every order of success and failure;
  requests of one place go through every place of every format. The second
  request meets the session of the first, or what is left after a crash.
- *Runner.* A call can be affected by what the last one left behind, and that
  call by a warmup; the fourth shows that nothing accumulates.
- *Requests.* The walks look at one object and the kind of its value at a time, so
  requests with one kind of content each, and one key too many or none, reach
  every branch; `ClaudePayloads` and its like go through the types the code
  names, values of the wrong type, absent ones and one type it does not know.
- *Decisions.* Settings are parsed one by one and the first error decides; what one
  setting is does not matter to another, so one is varied at a time. Pin-lists
  of two entries show order, doubles and spellings, and a second file meets the
  policy that the first left.
- *Vault.* Two detections in one text nest, touch, coincide or overlap in part;
  a second text meets the tokens of the first.
- *Tools.* A second block and a command meet the first block between its two
  calls; one process astray shows what its failure leaves to the others. Three
  blocks of the launcher nest, overlap and follow one another. Two keys and two
  signatures are an old and a new one.
- *Redaction.* On four positions two intervals nest, touch, coincide and overlap
  in part, and a third can bridge them.
- *Policy.* A load can be overtaken by one write and this one by a second; the
  safety properties were also checked with three writes (4.3 million states)
  and are proved for any number.
- *Ledger.* Two entries and two archives make every archive full, and explicit
  rotations move them beyond the last. Its safety is proved for any numbers.

`CHECK_DEADLOCK FALSE` stands where a bound, a closed stream or a finished user
lets the model stop: nothing in those states waits. In `engine` it is the bound on
the calls; that its two threads never wait on each other needs no run, since
they share one lock.

Each passing run's properties are accompanied in `PROJECT.json` by a mutant, a
changed definition with which TLC finds the property violated.

## 5. Fairness

- `StreamRelay`: weak fairness of the timeout, strong fairness of the relay's own
  step. A read from an upstream that has fallen silent ends after 30 s
  (`proxy.py:527`); while something keeps coming, no timeout expires. The server
  thread runs, and a write that the client has read goes through; it is strong
  fairness because a client may stop and resume reading again and again, and each
  time it resumes the write is done. That the client reads at all is not assumed,
  nor that an upstream stops or falls silent. `StreamEnds` therefore says what the
  code gives: a stream ends, or its upstream stays open and never falls silent,
  or its client neither reads nor leaves for good. `MaxEvents` cannot end a stream
  by itself: an upstream that has sent that many may stay open.
- `ProxyPipeline`: weak fairness of the proxy's step, which counts the timeout of a
  read from a silent upstream, and not the sending, receiving or reading of others.
  `RequestsAnswered` has the three waits without a bound as its exceptions:
  `receive` and `write` for the client, `await` for an upstream that goes on
  sending. A reply is never owed. Short answers of the proxy's own (400, 502, a
  refusal) fit into the socket's buffer and do not wait.
- `Stage2Runner`: weak fairness of the caller's step; its waits have timeouts.
  The worker is owed nothing and may hang for ever. `MCEngine` states the same of
  its part `runner`, and `MCProxy` of its parts what their modules state.
- `PolicyControl`: weak fairness of a load that has begun and of the watcher's
  poll, since threads that run keep running. `Settle`, the moment the debounce
  time has passed, is strongly fair: time passes between polls, so a change that
  persists is not met before its debounce time at every poll. `Converges`
  assumes a watcher that is started and never stopped for good; nothing starts
  one by itself.
- `SharedSession`, `LookAheadBuffer`, `Redaction`, `Ledger`, and the modules of
  requests and tools, are checked for safety alone and state no fairness. A tool
  whose process stalls owes nobody anything.

## 6. What is proved

TLAPS checks the theorems below for every value of the constants: any values,
categories, threads, deltas, hits, policy files and numbers of calls, writes,
archives and entries. A bound like `MaxWrites` is any natural, so every finite
behaviour is covered. `theorems` of `PROJECT.json` lists them with the property of a
run that each one states; theorems without one (types, `TokensKeepMeaning`,
the inductive invariants) are only proved.

**Assumptions.** They are the named `ASSUME`s of the modules, which TLC evaluates in
every run, and no theorem has another hypothesis about constants, but for
`UseLock`. Most only type a constant or say that it is not empty. The others, and
why the code justifies them:

- `BufferAssumption`: the buffer is at least twice a placeholder, which `__init__`
  checks. Deltas are any texts, empty ones too.
- `RelayAssumption`: `MaxLen >= 3`. The model's token has three characters; the
  code's placeholders may have 64.
- `PipelineAssumption`: values are no tokens (a user who types a token is in
  `Redaction`'s and `Vault`'s scope, and is an item of its own in the pipeline's
  requests); a value that only Stage 2 can find is not one the expressions
  find, which is what the three sets of values mean.
- `SharedAssumption` leaves open whether there is a lock. `OwnTokensDecode` and
  `StepsAreAtomic` have `UseLock` as a hypothesis: it is how `proxy.py` uses the
  map. Without it they are false (section 8, demo page).
- `LedgerAssumption`: `backup_count` is at least 1; what happens at 0 is in
  section 8.
- `DecisionAssumption`: the built-in table of categories holds legal words, as
  `categories.py` does; detections have categories that a policy file may name.
- `VaultAssumption`: detections are spans of their text, of categories that have a
  name, and no mask style is called `raw` or `allow`, the model's own tags of
  pieces. Whether spans overlap, are empty or inverted, and what the text holds,
  tokens included, is left open.
- `RedactionAssumption`: categories are kept in a fixed order, which
  `categories.py` gives.
- `JsonAssumption`: `Positions`, the path elements that stand for positions of an
  array, differ from each other, from `Anywhere` and from all keys. `Depth` is any
  number.
- `CoverageAssumption`: a request is an object, its keys are strings, its arrays
  are no longer than `Positions` and its values nested no deeper than `Depth`. Both
  can be as large as one likes, and a body that arrived is finite. An `Encoded`
  string stands only where the code parses one, in OpenAI's `arguments`.
- `StringAssumption` says that eight key names are strings, which the provers do
  not see by themselves.

**Session map** (`ProxyPipelineProofs`, first part). `MapsInverse`: the dictionaries
are inverse to each other; `IndicesUnique`: no index is given out twice in a
category; `TokensKeepMeaning`: no call but `reset` rebinds a token;
`ImplementsPseudonyms`: the map implements the abstract store; `TypeCorrect`.
`Inverse` is not inductive: the next token must be known to be fresh, and only
the counter says so. The inductive invariant is
`IInv == TypeOK /\ Inverse /\ IndexOnce`, with `IndexOnce` bounding each index by
its counter. The step that matters is `Assign`; that it maps to `Register` of the
abstract store needs `IInv` again.

**Session map under threads** (`EngineProofs`). Here `encode` is eight statements.
`SharedInv` says who holds the lock (any thread that masks), and that what this
thread has read still holds: the value missing from the map, the counter it
loaded, the token it built, with one dictionary written and the other not yet.
Every thread's earlier tokens decode because nobody rebinds one.
`StepsAreAtomic` maps the statement that writes `p2v` to `Register` and all others
to stutters.

**Runner** (`EngineProofs`). `AnswersOwn`, `CallsStartClean`, `WarmServes`.
`RunnerInv` ties the text in a queue or in the worker's hand to the call in
progress: a call that gives up kills the worker and replaces both queues before
it returns, so at most one of the three places holds a text, and it is the
caller's.

**Pipeline** (`ProxyPipelineProofs`). `RawLeavesByPolicy`, `RefusedIsNotSent`,
`QuotesAreRestored`, `HeldTokensAreRestored`, `UpstreamSeesPseudonyms`, and that the
pipeline uses the session map as the abstract store allows
(`PipelineImplementsPseudonyms`, `PipelineMapsInverse`). `PipelineInv` says of each
place scanned so far what became of it (kept, masked by a token that decodes to
it, or dropped with the request) and what it had to leave behind in
`should_block` and the gaps; that tokens held by clients and seen by the upstream
decode to what they were given for; and that the map only grows while the
process lives, which carries all of it over from one request to the next.
The two theorems on restoring speak of replies that the rehydrator reads,
`IsRestored`: JSON objects, there the places it walks, or every string if the path
is none of a provider's. Replies may also quote in other places, or have a body
that is not read at all; such tokens are those that clients hold, and when one is
written into a later request, of whatever path, it comes back as its value.

**Streams** (`StreamProofs`). `TextIsNotDelayed` (`HeldBack`),
`PlaceholdersStayWhole` (`OnlyForceSplits`) and `EventsInPlace`.
`OnlyForceSplits` is about placeholders that later deltas complete. So its
invariant `Uncrossed` also rules out that, from before an unforced cut, the text
could *become* a placeholder; and `ForcedLeaves` says that a forced emission
leaves `MaxLen` characters, past the end of whatever began before it.
`NoTokenLeavesTheRelay` and `ClientReadsTheReply` state `NoTokenDelivered` and
`ClientTextRestored` as the run checks them, with one proviso on the buffer, `~
Severed`: a forced emission may cut a token in two (`streaming_buffer.py:299`
leaves 64 characters behind, wherever a token begins), and neither half is
restored; forced anywhere else it does no harm. `Delivered` says that the client
has the restored text of what the buffer returned. Restoring is local: where no
token reaches over a place, both sides can be restored one by one
(`RestoredJoin`). An unforced cut is such a place by `Uncrossed`, whatever is
fed later. So is a forced one that severs nothing yet: by `ForcedLeaves` at
least a token's length of text already lies behind it, so no later delta can
complete a token over it. That restored text has no token left needs what the
restored text ends with, since a value could complete one with its neighbours
(`Ends`); the value itself is no bracket.

**Redaction** (`RequestProofs`). `RedactedTextIsWhole` (`RoundTrip`),
`HitsStayMasked`, `FloorLosesOnlyTails` (`RawTailsFollowNer`) and
`ContextOnlyMasksMore`, for a text of any length with any hits. `KeepDisjoint`
is found to keep exactly what overlaps nothing kept that comes before it
(`Kept`): such a set exists by removing the last element, and it is disjoint
because no two overlapping spans have the same key. For `FloorLosesOnlyTails`:
what a detection of Stage 1 gave way to overlaps it and is of the NER, as those
of Stage 1 are disjoint, and it starts earlier, by the order of the merge; so
all that can be raw lies behind its end. The pieces of the redacted text tile it
because the detections kept are disjoint and sorted.

**Decisions** (`RequestProofs`). `DecisionsAreLegal`: whoever acts on a decision
is given a word it knows, under any policy file (`LegalPolicy` of each policy
that parsing can yield). `PinsNeedApproval` (`UnapprovedPinsDecideAlike`): the
hash kept is that of the list in force, and lists of equal hash have the same
entries, so unless two contradict each other they decide alike in any order.

**Vault** (`RequestProofs`). `EveryRawCharacterExplained` (`RawExplained`) and
`HiddenIsRestored` (`RestoresWhatItHides`), for any number of texts of any length
with any detections. `VaultInv` says that each index is bounded by its counter, so
no token and no original is in the vault twice (`Sound`); that each text so far is
laid out in pieces that follow one another to its end, of which the hidden ones
stand in the vault (`Laid`); and that each detection is a piece of its own or begins
within an accepted one (`Accounted`). For the last the detections must be sorted:
what `sorted` yields is shown to exist by removing the last element
(`ArrangedExists`). A later text only adds to the vault, which keeps all of this of
the earlier ones (`LaidGrown`). Rehydration replaces token after token; replacing
distributes over the pieces (`ReplaceJoin`), and a token's piece becomes its
original when its turn comes and is not touched before or after, in whatever
order the turns come, as long as no original holds a token (`PlainVault`). So the
length of a token, by which `rehydrate` sorts, does not matter here.

**Coverage** (`CoverageProofs`). `ScrubberFollowsTheMap` (`ScrubberFollowsMap`)
and `StrictLetsNoOtherThrough` (`StrictLetsThroughOnly`), for any request of the
three formats, whatever the types of its values, however long its arrays and
however deep its objects. `CoverageInv` says that the differences, the map and
the scrubbed places are what the walks give for one and the same request;
`CoverageInvariance` is its invariance, and the rest is about the walks,
function by function. For the first, `Agrees` relates what the scrubber and the
parser find at and below a place. It holds of a single string, is kept by unions
(`AgreesGathers`), and so holds of a block if it holds of its fields, up to the
request. What they treat differently is left standing in `Agrees` itself: array
elements that are no objects. For the second, a text that went through unscanned
is followed from the root of the request to its place (`Passes`; one key or
position further, `Onward`). At each function of the scrubber it goes on under a
key that the schema knows, or there is a difference; if the scrubber goes down
the same way, the next function is responsible, and if not, the key or the wrong
type of the value is one that `Unread` names (`ClaudeKeyLeft`, `ClaudeItem` and
their like). At the end are walks that read every string (`SpanIsRead`,
`JsonIsRead`, `EncodedIsRead`). Levels of a value and values along a path are
recursive functions, whose equations are shown first (`LevelsAre`,
`ValueFollows`).

**Policy** (`ProxyPipelineProofs`, last part). `PinListsGuarded`: no pin-list
comes into force that the file has not held without an explicit
`pin_list_approved: false` beside it (that the docs ask for an explicit *true*
is another matter, section 8); `KnownFileInForce`: unless a write fell between a
read and the stat that ends it, the file whose mtime the loader knows is the one
in force; `PolicyTypeCorrect`. A load puts in force what it has read some steps
earlier, so `PInv` adds what threads hold in between: every text a thread or the
file holds is backed by an offer (`AllBacked`), what is about to be swapped is
the file unless it has raced (`SwapsFile`), known mtimes are not of the future
(`MtimesPast`), and a loader that has loaded nothing has the defaults
(`UnloadedIsDefault`).

**Ledger** (`LedgerProofs`). `ChronicleKept`: whatever calls fail, whichever
process dies between any two, and however the two interleave, entries stay in
order over the files, none is missing from the middle or the end, and only the
oldest go; `PurgeComplete`: a purge that began on contiguous archives, alone and
undisturbed, leaves no file; `OrderOnDisk`; `LedgerTypeCorrect`. `Chronicle` needs
`LInv`: a rename must find its target free (`Room`), or it would overwrite a file.
`Room` holds of the rotation's own loop, which empties its targets from the top,
and also after one that was given up half-way, because the next one starts at
the top again. A purge by the other process only removes files, which keeps
`Room`; that the other process never appends is `PurgerPurges`. For retention,
no entry is younger than its file's mtime (`IdsBounded`); for the purge, nothing
is left below its index (`PurgedBelow`). `OnlyOldestGo` is an action property and
is shown by each step beside the invariant, in `Kept`.
`Orderly` speaks of the time between methods of an undisturbed ledger only. Its
invariant says for each point of each method which archives may be missing
(`Shape`: one at the index a rotation has just moved, the lowest ones in a purge),
and that archives expire from the highest number down (`Ageing`), without which
a retention pass would leave gaps.

**Tools** (`ToolsProofs`). `NoRulesLeftBehind` (`RulesClaimed`) and the action
property `ReportsAreTrue`: `LockdownInv` follows who loaded the rules that are
there and which of them a process that disables has already outlived.
`EnvironmentRestored`: open blocks of which none is tangled form a stack, in
which each saved what the one below it left (`LauncherInv`).
`OnlySignedIsLoaded`: a mac that verifies was made from that key and payload,
wherever the file came from (`UpdatesInv`).

*Form of the inductions.* The prover cannot instantiate a theorem that takes an
operator, so induction over data is done with sets: a set of numbers that is
not empty has a least one, a set of finite sets that is not empty a smallest
one (`Least`, `SmallestSet`, `StepByStep` of `DataLemmas`). Recursive functions are
unfolded with `Recursion`, flattened sequences with `Joins`.

## 7. What is only model-checked

- Liveness (`StreamEnds`, `RequestsAnswered`, `EveryCallReturns`, `Converges`),
  since the prover has no rules for `ENABLED`.

## 8. What the models show about the code

Seven runs end in a violation of something the repository says of itself; the
entries `findings` of `PROJECT.json` quote it.

1. `pipeline_gap`. A request whose Stage-2 scan failed is forwarded with no
   coverage gap reported: the three `_scan_span` write `coverage_gap=False`
   whenever `scan` returns (`providers/claude.py:598`).
2. `stage2_cold`. The worker's idle exit (`stage2/_workers.py:98`) unloads the
   model that `warmup` loaded; the cold worker that replaces it cannot load it
   within the 10 s of a scan, is killed for that, and so on.
3. `redaction_priority`. Overlaps are resolved by start before priority
   (`detector.py:95`), so a hit to be blocked gives way to a masked one that
   begins before it.
4. `stage_one_priority`. `_merge_detections` sorts both stages by start
   (`stage2/runner.py:435`): an NER span that starts before a detection of Stage 1
   and ends inside it takes its place, and the rest of what Stage 1 had found is
   sent raw, although `stage2/runner.py:415` gives Stage 1 the priority. How much
   can be uncovered is what `RawTailsFollowNer` says.
5. `stream_tokens`. The deltas of tool calls, of thinking and of further choices go
   out as they came (`streaming_rehydrator.py:460`), although lines 34-36 say no
   token ever reaches the client.
6. `policy_stale`. `_try_load` reads the text and takes the mtime later
   (`policy.py:993`): a write or removal in between is never looked at again.
7. `pins_unsigned`. An absent `pin_list_approved` counts as true (`policy.py:232`),
   so an edit by hand that leaves it out brings a new pin-list into force.
   `policy.py:24`, `pinlist_guard.py:23`, `pinlist_approval.py:19` and `:222` and
   `src/tests/test_policy.py:764` all say that the flag must be there.

Others are modelled as the code has them and are the reason for a proviso in a
property, or were seen while reading:

- *Demo page.* Its threads share one Engine with no lock (`src/ui/app.py:40`). With
  `UseLock = FALSE`, `OwnTokenDecodes` fails: two threads load one counter and
  give one token to two values.
- *Streams.* `NoTokenDelivered` excludes streams with the payloads of
  `stream_tokens`, and a token that the force-emit path severs. `read1` is
  called below the decoder of chunked encoding (`proxy.py:605`), so chunk-size
  lines can fall into an event; a character cut by two reads decodes to
  replacement characters (`streaming_rehydrator.py:233`); one look-ahead buffer
  serves all blocks, so held text moves to the next block and the tail to block
  0; the force-emit path can cut a placeholder, which `OnlyForceSplits` says is
  the only way.
- *Replies.* `response_rehydrator.py:85` says of the body handed to the agent
  that all known tokens in it have been replaced. A body that is no JSON object
  is passed on as it came (`response_rehydrator.py:471`), and a compressed one
  is no JSON: the client's `Accept-Encoding` goes upstream (`proxy.py:517`), and
  nothing decompresses the answer. Fields that no provider's walk reads keep
  their tokens as well. On a path of no provider every string is restored
  (`response_rehydrator.py:534`), where the docstring of `process` (line 451)
  says that the response is returned verbatim. `ReplyPlaces` and `IsRestored`
  have all of this.
- *Server thread.* It is the only one, and the timeouts it has are those of
  reads from the upstream. A client that stops half-way through its request or
  its reading, or an upstream that sends a byte now and then, holds the proxy
  for all others: the exceptions of `StreamEnds` and `RequestsAnswered`.
- *Requests.* On a path of no provider nothing is scanned, so `RawOnlyByPolicy`
  and `RefusedStaysHere` do not speak of it. Fields no scrubber visits, like
  OpenAI's legacy `prompt`, are seen by the tripwire only. The body of an HTTP
  error is passed on with the tokens it quotes (`proxy.py:545`). A token that
  reached a client unrestored can mean another value after a restart, as
  counters start over (`HeldTokensComeBack` speaks of one process). A JSON body
  that is no object raises in the handler.
- *Ledger.* After a death or failed call in the middle of a rotation or a
  retention pass, the archive numbers have a gap, and `purge` and retention stop
  at it (`ledger.py:340` and `:566` rely on contiguous numbers): archives beyond
  it stay until later rotations have pushed the gap past the last archive.
  `Orderly` and `PurgeLeavesNothing` therefore speak of undisturbed ledgers,
  `Chronicle` of all of them. An append after the other process purged creates
  the file with the umask's mode. Outside the model's constants:
  `backup_count=0` still keeps `.1`, and archives beyond a lowered
  `backup_count` are only removed by age or purge.
- *Approval gate.* `approve` reads the file again and replaces it: an edit made
  since the diff was shown is kept unseen or, if it falls before the replacement,
  lost; a file that cannot be read is replaced by one without its settings. The
  diff compares hashes only, so a changed action shows no difference
  (`pinlist_approval.py:414`). The flag it sets stays, so later edits by hand pass
  the guard as well, as those without a flag do (`pins_unsigned`). `PinsGuarded` is
  therefore about explicit refusals.
- *Schema and scrubbers.* `schema_coverage.py:20` says false negatives are
  forbidden; what stays unread all the same is spelled out in `Unread` of each
  provider's module. The schema never looks into `tool_choice` of Claude,
  `functions[*]` of OpenAI, a `source` nested in a `tool_result`, or below the
  known keys of `functionCall`, and a block of unknown type may have the keys of
  any. Known keys that nothing scans are those of API words and numbers
  (`is_error`, `media_type` and `url` of a text source, `cache_control` at every
  level, `max_tokens`, `seed`), whose values nobody checks: a text or an object
  put there passes. That the list in `Unread` is complete is what
  `StrictLetsNoOtherThrough` proves. A part of Gemini that has `text` and
  `inlineData` counts as text, and the second passes without an alarm. Keys of
  the objects in tool arguments are scanned by nobody. Arguments of OpenAI that
  are no string, lists included, are noted and never block. A block whose `type`
  is an array or object raises `TypeError` in the schema's lookup
  (`schema_coverage.py:809`, `:821`); the model treats it as an unknown type.
- *Policy and decisions.* An unhashable YAML value (`action: [a]`) raises
  `TypeError` out of the loader, though `policy.py:913` says a wrong file keeps
  the last valid one. `_KNOWN_KEYS` (`policy.py:660`) lacks `proximity` and
  `stage2`, which are applied with a warning that they are ignored. Reordering a
  pin-list is no change to the guard, but the first of two contradicting entries
  wins: `Ambiguous` in `UnapprovedPinsDecideAlike`.
- *Vault.* `_partial_mask` called with `reveal_chars=0`, which nothing in the
  repository does, would show all of the value behind the stars
  (`vault.py:108`). The format preserving mask leaves Korean letters as they
  are. An allowed span hides a blocked one that overlaps it and starts later. A
  value masked first and blocked later keeps its first token. What the user
  wrote in the form of a token is replaced on the way back. `RawExplained` and
  `RestoresWhatItHides` name all of these.
- *Lockdown.* `disable` and `status` look at no exit code of `pfctl`
  (`pf_manager.py:607`, `:614`, `:635`), the first by design (`:593`). When
  `pfctl` refuses, for want of rights say, `egress disable` reports *disabled*
  and `egress status` *not active* over rules that are loaded, and both return
  0, where `cli.py:250` and `:278` promise 1. `ReportsTrue` exempts a reporter
  whose own call failed, and with it these cases. With `check_output=False`
  `enable` sets its flag though nothing was loaded. Two processes that disable
  at once can flush what another has just loaded, or leave its rules with an
  empty table: `evicted` in `RulesClaimed`.
- *Launcher.* Blocks that overlap without nesting restore each other's values, and
  a block entered while another one is between saving and patching leaves its
  children without the proxy: `tangled` in `EnvRestored`.
- *Updates.* `load_verified` promises `UpdateRejectedError`, but JSON that is no
  object or a signature that is no string raises `AttributeError`.
  `ALLOWED_KINDS` and `ALLOWED_ENTRY_KINDS` are enforced nowhere. A manifest
  signed long ago still verifies (`updater.py:449`): `LoadedWasSigned` says by
  whom, not when.
- *Not modelled, read only.* `predict` of the NER backends returns an empty list
  when the model raises (`stage2/gliner_ner.py:155`), which counts as a complete
  scan.

## 9. Abstractions

- *Texts and tokens.* A value is a model value, a token a record of category,
  index and blocked flag: `TokenOf` is injective because no category ends in
  digits or `_BLOCKED`. In the buffer, characters are the five classes its tests
  tell apart.
- *Streams.* A compressed event stream, which the relay would forward as bytes
  it cannot read, is left out; of whole replies it is modelled. One event per
  read; cuts inside an event are the features `cut` and `chunked`. A text
  contains one token, `[A]`.
- *Requests.* A place holds one value or one token, and the reply quotes one
  place; a body that is not read is one place of its own. `--log-masked` output,
  GET and the control endpoint are left out.
- *Detection.* What the expressions, checksums and models hit is any set of
  intervals within the bounds.
- *Runner.* Time is not counted: a timeout can come at any moment while waiting,
  idleness whenever the worker holds no request. `slow` says whether loading
  outlasts a scan's timeout. Calls are sequential, as under the engine lock.
  `put` raises for other reasons than a full queue, for which the code has a branch
  that `NothingLeftOver` shows is never taken. A worker's answer has one of the two
  forms it sends.
- *Policy.* All settings but the pin-list are one value. Each write has a new
  mtime (two writes within the clock's resolution are not considered), an error
  of `stat` other than a missing file is left out, files that are unreadable or
  hold no mapping are one form of wrong file, mappings that break the schema
  another: the gate keeps what it finds in those. The hash of a pin-list ignores
  labels, as in the code. `stop_watcher`'s join ends with the watcher idle.
- *Ledger.* An entry is its number, time is counted in entries, a file's size is
  its number of entries. Each `unlink`, `rename`, open and chmod is one step
  that happens or fails; a half-written line is not considered. The scan limits
  of `purge` (`backup_count + 99`) and retention (`+ 200`) lie beyond any
  archive of a ledger whose `backup_count` does not change and is the same for
  both processes (`ledger purge` takes the default, `cli.py:343`); so no
  property speaks of archives past it.
- *JSON.* The one string whose content matters is `Text`, what a user wrote.
  Numbers and booleans are `Zero`, which Python takes for false, or `Number`. A
  position in an array is an element of `Positions` (three in the run, any
  number in the proofs), and a pattern of paths has `Anywhere` in its place;
  `Depth` (9 in the run) bounds the nesting. A string of JSON in OpenAI's
  `arguments` is `Encoded`. Of the 36 keys of Gemini's `generationConfig` a few
  stand for all.
- *Decisions.* The table of categories is a constant of two; sections of the policy
  file that no decision reads are one flag, valid or not.
- *Vault.* A text is a sequence of characters with a class; a token is one
  character. Indices have one digit.
- *Lockdown.* One anchor with one table, loaded together. `sudo` missing is the one
  way a call raises. How the addresses are collected is left out.
- *Launcher.* One variable stands for all, as the loop treats each alike.
- *Updates.* A mac is the pair of key and payload. The mode of the key file, set
  after it is written, is left out; the write itself may be cut short.

## 10. What is not modelled

- *Categories* are a table of expressions and checksums, *NER models* and what they
  recognise are statistics: both decide which spans are hit, and the models take
  any hits. The backends' filters are string predicates.
- *The boundary report* is a fixed text, *the demo page* presentation but for its
  threads; *training, benchmarks, corpus and validation* are offline scripts that
  read a file and write another.
- *Of the command line*, argument parsing, printing and start-up; *of the
  proxy*, GET, the pin-list control endpoint and `--log-masked`, which keep no
  state.
- *Of the gate*, the text of the diff; *of the guard*, the check for agent-sourced
  changes, which refuses whatever it is given.

Three hazards of `PROJECT.json` have no property: `approve` losing an edit, the
archives beyond a gap, and what `predict` swallows. Each has a note.

## 11. Plan

Done, in this order: the session map with its abstract store and threads; the
buffer and the relay on top of it; formats and pipeline on top of both; the
worker; redaction; policy; ledger; requests, decisions and vault; the tools;
then the proofs of section 6.

Models to come, if the code grows: the loader and the ledger as parts of the
proxy, once they are wired in; until then a composition would be invented. What
`predict` swallows could become an outcome of the worker's answer.
