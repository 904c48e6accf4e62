# A TLA+ model of go-sieve

go-sieve is a Sieve (RFC 5228) interpreter with a ManageSieve (RFC 5804) server
and client. This directory holds TLA+ modules of its stateful parts, TLC
configurations that check them on small instances, and TLAPS proofs.

## The system and its parts

* **Interpreter** (`interp/`). A loaded script is a tree of commands that run over
  one `RuntimeData`: action commands append to a log that the host carries out,
  control commands decide what runs, tests ask the message or the host.
* **Loading** (`lexer/`, `parser/`, `interp/load*.go`, `interp/binary.go`). One
  loader per command and test matches arguments and asks for extensions; `require`
  and `ihave` grant them.
* **ManageSieve** (`managesieve/`). A server with one goroutine per connection
  over a storage backend, an in-memory storage, a wire codec and a client.

`PROJECT.json` lists every part, modelled or not, with the reason.

## Modules

| Module | Models | State and actions |
|---|---|---|
| `ScriptExecute` | `Script.Execute`, `DefaultOnAction`, every command that emits an action | the log `appliedActions` and the fields kept beside it; one action per command, `End` for the implicit keep |
| `ControlFlow` | if/elsif/else, foreverypart/break, include/return, stop and errors | Go's call stack as `stack`, the Go error on its way up as `signal`, the shared `ifResult`, `partStack`, include stack; one step per command, end of block, or frame unwound |
| `ScriptStore` | what a script store promises (abstract) | `scripts`, `active`; one step per ManageSieve command |
| `MemorySession` | `MemorySession`, several clients | adds `putting`, since `PutScript` checks before it locks |
| `ManageSieveServer` | `Server.Serve`, `Server.Close`, `Conn.serve`, `Conn.Close`, all handlers | a place `pc` per connection; one step per access to what goroutines share |
| `Wire` | the wire codec | no state: reading operators over streams of tokens that say "ok", "more" or "err" with what is left |
| `ClientServer` | `Client` against one `Conn`, over `Wire` and a store | `c2s`, `s2c`, the client's operation `op`, the server's `phase`; one action per call, per part of a reply the client reads, and per command the server serves |
| `LoadSpec` | `LoadSpec`, the argument matcher | no state: `MatchArgs`, and the reference `WellFormed` |
| `Loaders` | the loader of every command and test | no state: tables `commands` and `tests` |
| `ScriptLoading` | `loadRequire`, `loadCondBlock`, `RequiresExtension`, `Extensions`, `SaveTo`, `RestoreFrom` | `extensions`, `guarded`, `guardedUsed`, open blocks; one action per command loaded, block ended, command run, save and restore |
| `HeaderFields` | what addheader and deleteheader promise (abstract) | the fields of each name, edited in place |
| `HeaderEdits` | `CmdAddHeader`, `CmdDeleteHeader`, `applyHeaderEditsToValues` | the recorded `edits`, replayed on the original fields |
| `MimeEdits` | foreverypart/break, `CmdReplace`, `CmdEnclose`, `runFilter` | a `heap` of parts as Go's pointers make it, the cached `root`, running `loops`, `filtered` |
| `MessageEdits` | header and MIME edits of one script | composes the two |
| `DuplicateTracker` | `TestDuplicate.Check`, `MemoryDuplicateTracker` | `entries`, the `clock`, and per delivery what it is about to ask |

`MC*` modules and the `.cfg` files instantiate them. `*Proofs` modules hold the
theorems. A definition marked `Mutant` is a plausible bug; it is no part of a
specification and documents what breaks the property it is paired with.

What is abstracted: texts, addresses, flags and the wording of replies. A script is
not fixed: any command may come next (`ScriptExecute`, `MessageEdits`), blocks are
made up as they run (`ControlFlow`; the block of a loop may differ between
iterations, as tests on the part could make it), or as they load (`ScriptLoading`).
The loader ties neither `else` to an `if` nor `break` to a loop, so the model lets
them stand anywhere. Storage sessions are external: identities with a count of
their closings.

`Wire` keeps the structure of a stream (atoms, quoted strings, literal headers,
each byte of a literal, spaces, line ends) and the limits on literals, arguments
and commands; an atom or quoted string counts as one byte, so its own limit is left
out. Both ends write a text that cannot be quoted as a literal. The limits are two
sets: the server's are options (`MaxLiteralBytes`, `MaxCommandArgs`,
`MaxNonLiteralCommandLen`), the client's limit on literals is a constant of its
package (`ClientMaxLiteralBytes`), so the server may send what the client refuses.
The server's steps in `ClientServer` are whole commands, since one connection
has one goroutine; its interleaving with `Server.Close` is `ManageSieveServer`'s
subject. A SASL exchange is a number of rounds that ends in success, with or without
data for the client, or in failure; its challenge and response, and the values of
capabilities, may be literals within the reader's limit (`ExchangeAssumption`).

In `Loaders` an argument stands for the class of values the loaders' checks tell
apart. `ScriptLoading` uses one command or test per script, as often as it likes,
together with require and ihave: commands meet only in the extensions they need. A
string may refer to a variable of a namespace or name it; each loader says which of its
arguments are expanded when the command runs, taken as a name, or used as keys of a
`matcherTest`, and which of them it checks. Values are left out, so a key that refers to
a variable may, expanded a second time, refer to any other.

`Conn.state` and `Conn.session` are data races in the code: the goroutine
writes them without the mutex `Conn.Close` takes. The model interleaves single
reads and writes and takes each as atomic. The session is an interface value of
two words, so `Conn.Close` could also read one half-written by `Authorize` or
UNAUTHENTICATE, with the type set and the data nil. `MemorySession.Close` ignores
its receiver and does nothing there; what another `Storage` would do on a nil
receiver is not covered.

## Runs

| Run | Shows | Bounds |
|---|---|---|
| `execute` | the log, the implicit keep and the deprecated fields agree in every run; no mailbox is filed into twice, and within the limit no program is piped to twice | limit 2, log up to 4: the limit is met, exceeded by an explicit action, by the implicit keep, and by several `:try` pipes |
| `session` | two clients see an atomic store: refinement of `ScriptStore`, quota, active script kept | 4 names (1 invalid), 3 texts (1 broken), quota 2: the quota is met between check and store |
| `server` | a handler past the gate has a session, open and its own; TLS before authentication; clean end; no command after LOGOUT; a closed connection ends; Close returns; afterwards nothing accepts; only late registrations survive | 2 listeners, so that Close finds one Serve accepting and another about to; 1 connection, accepted, registered or leaving when Close comes; 2 sessions (authenticate twice), 2 pipelined commands |
| `blocks` | an else is decided by its own chain; loops' parts are exact and nested; scripts end | 4 frames, 2 commands per block, a MIME tree of depth 2 |
| `includes` | depth and recursion, scopes restored, `:once` | depth 2 (4 in the code) with 3 interchangeable scripts, so that the limit is met |
| `protocol` | between operations nothing is left unread and both ends agree on state and TLS; what results told the caller is what is stored; every call returns | names that are quoted or literals, texts that are within both limits or within the server's alone (3 bytes against 2), challenge, response and capability values as literals, 1 SASL round, quota 1; 1 operation after one that was given up, 2 before authentication |
| `loading` | guards count open blocks; the host hears of every extension used; `LoadSpec` takes exactly the well-formed argument lists; a script fails its run-time checks only over what a guard alone granted or a variable its loader did not check; a restored script has the extensions of the saved one, and what ran there is allowed to run | every command and test with each tag and kind of value; every list of up to 2 arguments; 3 steps in blocks nested 2 deep, so that two guards on one name are up at once; 2 names to a `require` or `ihave`, longer lists being several of them |
| `message` | recorded header edits are edits in place (refinement); parts still to be visited stay in the message; a replace shows unless its part was taken out | 2 names over repeated values that differ in space; a tree of depth 2 |
| `duplicate` | new only after expiry; no duplicate without an original | 2 deliveries, 2 keys, 5 instants, so that readings of the clock are used out of order |

Deadlock checking is off in the runs where the system may stop: a script that has
ended, a server or client that is closed, a bound that is reached.

Three runs show a comment, an assertion and a test that the code contradicts
(`findings` in `PROJECT.json`):

* `limit_try`: execution "aborts as soon as the limit is exceeded", but a pipe with
  `:try` swallows the error of `DefaultOnAction` and the script goes on.
* `unusable_variable`: `expandVars` panics on a variable that is not usable, which it
  takes for impossible. `LoadSpec`'s check of variable names is an empty branch, so
  `fileinto "${env.x}"` loads without the environment extension.
* `restored_tests`: the tests run every script again after saving and restoring it and
  expect the same actions. gob leaves out the unexported `matcherTest`, so restored
  tests have no keys and cannot match.

The interpreter's properties say where a stronger statement would be false:

* `PipedOnceWithinLimit`: past the limit a swallowed `:try` pipe stays in the log and
  is forgotten, so its program may be piped to again.
* `OneDisposition` speaks of runs that reach their end: after `stop` the log has no
  entry for the implicit keep, only the deprecated `ImplicitKeep` tells.
* `OnceRunsOnce` counts includes with `:once`. Its comment has `:once` skip "if already
  included", but a plain include is not remembered, so `:once` runs the script again.
* `RequiredSuffices` excepts scripts that use something on a guard alone: the guard of a
  true ihave is lowered once its block is loaded, and pipe, filter, execute and report
  ask again when they run, although a block "may use what the test names". It also
  excepts what loaders do not check. They check the arguments of
  programs, messages of debug_log and names that are set, and only when "variables" is
  already required; every other text is expanded unchecked.
* `RestoredAsSaved` is about extensions and run-time checks, not about what restored
  tests match (`restored_tests`). It rests on what gob was told of: `TestIhave` is not
  registered, so a script with guards cannot be saved. With it registered the property
  fails, since guards are not saved.
* `ReplaysAsEdited`: in `HeaderFields` a deletion that matches an empty value deletes
  every field of the name, since a recorded deletion without value means all.
* `ReplaceShownIfAttached`: a part that an enclose, or the replacement of a part
  around it, took out of the tree can still be current; replacing it is lost.
* `InStep`, `AuthenticatedAtBothEnds` and `CallerSeesStore` stop at an exchange that is
  given up half way (no answer to a SASL challenge, a reader that fails within a
  literal, a failed handshake, a name or script over the client's limit). The client
  stays usable then, but out of step.
* `TakesWellFormed`: a tag without its value is accepted at the very end. The bound
  `MaxStrCount: -1` of the arguments of pipe, filter and execute refuses every list.

The server model also shows limits of what holds, and its properties say so:
where `Server.Close` races `Authorize`, the session just opened may never be
closed and state may go from Logout back to Authenticated, so that commands
already read are still handled; where it races UNAUTHENTICATE, a session may be
closed twice; a connection accepted before Close and registered after it is
served on. Hence "unless closed by the server" in `UsesOwnOpenSession`,
`EndedCleanly` and `LogoutStops`, and `late` in `SurvivorsRegisteredLate`.

## Fairness

`ManageSieveServer`: weak fairness of Server.Close once called, of every
Conn.Close under way, of every connection's goroutine (`New` gives both timeouts
a positive default, so a read or write that gets nowhere fails) and of a Serve
whose listener is closed. Storage calls are assumed to return. Nothing is assumed
of clients. `ClientServer`: weak fairness of the server's goroutine, whose deadlines
end every wait, and of the client's operation once called, which includes that the
reader it copies a script from returns. Calls themselves are not fair. `ControlFlow`:
weak fairness of the one goroutine that runs the script.

## Proofs

`PROJECT.json` lists the theorems. All hold for every value of the constants that
the named `ASSUME`s allow; TLC evaluates these on the runs' instances.

**`ExecutionProofs`** (what a run of a script leaves behind).

* Every property of run `execute`, for any limit, mailboxes and programs. The
  inductive invariant `IInv` adds to them that the log of a running script holds no
  implicit keep, which only the last step of a run emits, and that a program piped to
  within the limit is in `pipedPrograms` while the script runs; without the first the
  flag and the log could disagree at the end, without the second a program could be
  piped to twice. A lemma for emitting an action carries each conjunct over, and the
  step for each command rests on it.
* `Replays`: `HeaderEdits` implements `HeaderFields` (`ReplaysAsEdited`) for any
  message, edits and patterns. One more edit at the end of the record is one more edit
  of what the record replays to, by induction over the record; a deletion by pattern
  records several edits, and a second induction, over the values they were recorded
  for, shows that together they delete the matching ones. `FieldsAssumption`: the empty
  value is a value, and trimming leaves it empty.

**`SharedStateProofs`** (what several goroutines share).

* For any number of clients and any quota: the type invariant, `ActiveStored`,
  `QuotaRespected`, `OnlyCheckedStored`, the action property `ActiveTextKept`, and that
  `MemorySession` implements `ScriptStore` (`PutScriptLoad` maps to a stutter,
  `PutScriptStore` to `Put` or a stutter). `SInv` joins the conjuncts; finiteness of the
  stored names is part of it, since the quota speaks of their number.
* Both properties of run `duplicate` for any number of deliveries, keys and times.
  `EntriesKept`, the strengthening, ties `entries` to the time last promised for each
  key and the clock: an entry that is gone was over by a reading of the clock, and no
  reading is ahead of it.

**`ManageSieveServerProofs`**: every safety property of run `server`, for any number of
listeners, connections and sessions: what two connections do to each other is settled
here. `IInv` adds four facts:

* `WgCounts`: the wait group counts the calls of Serve that accept. Otherwise
  `wg.Done` could make it negative.
* `PlacesAgree`: where Server.Close, its copies and every goroutine are. A served
  connection is in `conns`, and once Close took its copy it is in the copy, closed,
  or late.
* `StateAgrees`: what `state`, `session` and `fresh` are at each place of the
  goroutine. State Authenticated means a session, except inside UNAUTHENTICATE; the
  converse fails, since Close writes `state` from outside.
* `SessionsCounted`: unless Close interfered, an opened session was closed once, or
  its connection still holds it and it was not closed.

There is a lemma for each conjunct, by cases on the actions. For `SessionsCounted`
a lemma first sets aside the quiet steps, all but eight actions.

**`ControlFlowProofs`**: every safety property of the runs `blocks` and `includes`, for
any MIME tree, scripts and bounds. The properties speak of the frames of one kind on
the stack; `IInv` says where they are. `Loops` and `Includes` give a strictly
increasing list of places (`Positions`) that matches `partStack` and the include stack
one to one, with what each frame saved; `Remembered` says that a script run by `:once`
is remembered or still running. Every step pushes, replaces or pops the top frame
(`StepKinds`), and lemmas about `Positions` under those three carry each conjunct over.

**`ScriptLoadingProofs`**: every property of run `loading`.

* `Guards`: the counter of an extension is the number of open blocks whose ihave named
  it. `IInv` adds that only available names are guarded and that a loaded script has no
  open block.
* `Reports`, `Suffices` and `Restores` need `UInv` on top: a guard that is or was up
  means that an `ihave` was loaded, so a script that could be saved has none; and where
  nothing was let in on a guard, all that loaded commands ask for again and all that
  their loaders checked is required. Guards, once lowered, and requires, which only
  grow, leave nothing else to fail over than variables no loader checked.
* `LoadSpecTakes`, hence `TakesGrammar`: `MatchArgs` takes exactly the well-formed
  argument lists, of any length. What the loop knows after `n` arguments (`Carries`) is
  proved by induction over `n`. `CallsAssumption`: the commands and tests looked at are
  among the tables', and their tags have names.

**`WireProofs`**: what one end writes, quoted or as a literal, the other end's codec
reads, for every text and limit. A command with up to two arguments is read as it was written or refused as a
whole, and one that stops at the header of a literal is not taken (`ReadsCommands`); a status
line, a capability response (`Announced`), a listing in any order (`ListReplyIs`) and a
script's text (`TextRead`) are read back, with exactly the rest of the stream left,
or start with a literal over the client's limit.

**`ServerStepsProofs`** and **`ClientServerProofs`**: `InStep`,
`AuthenticatedAtBothEnds` and `CallerSeesStore`, for any names, texts, limits, quota and
number of operations. None is inductive, since each speaks of the time between
operations. `Inv` says where the two ends are in the meantime: at one of thirteen
places of an exchange (`Place`), from the command on its way over the reply half read
to rest. Each place fixes the client's operation, the server's phase and both streams,
up to what is carried, and says what the caller knows or is about to learn. The server's
step from each place is a lemma of the first module, the client's (but for copying a
literal) of the second; that the bytes lead to the next place and no other is what
`WireProofs` shows.
`ProtocolAssumption`: names, scripts and the words of the protocol are texts, texts have
a length, only the empty one has length 0, and limits are natural numbers.
`ExchangeAssumption`: challenges, responses and capability values are within the limit
of the end that reads them.

Induction. The library's induction theorems take a predicate, which the provers cannot
instantiate. `Induct` is stated for a set of numbers instead and follows from the
well-foundedness of `<`; that a loop written as a recursive function exists follows from
it (`Recursion`, `LoopRuns`).

Only model-checked:

* liveness (`ClosedConnEnds`, `CloseReturns`, `Terminates`, `CallReturns`), which is out
  of the prover's reach;
* `LeafEditsStayAttached` and `ReplaceShownIfAttached`, whose MIME tree is reached by
  recursion over the heap in `RECURSIVE` operators;
* the findings, which are counterexamples.

## Not modelled

* Lexer and parser: sequential text processing without state between calls. Models
  start from parsed commands.
* Matching, comparators, value modifiers, dates, relational tests: pure functions over
  text, partly Go's regexp. Their loaders are modelled; what matches is a set of values
  or a free choice.
* Tests that ask the host or the clock (environment, metadata, mailboxes, lists,
  spamtest): stateless. Their loaders are modelled.
* Values of variables, IMAP flags, vacation's answer: assignments in one sequential
  run, on text. Modelled are which variables of a namespace a command refers to or
  names, which its loader checks, whether they are usable when it runs, and the scopes
  of included scripts; not the numbers of match variables, nor the limits on the number
  and length of variables beyond a name that is too long to set.
* Parsing of messages, the MIME header tests and extracttext: they change no tree.
  extracttext reads the body a multipart was parsed from, not what replace made of it.
* What SCRAM computes: a library.
* The Dovecot test suite's commands and the command line: a harness. This includes
  `RuntimeData.Copy`, which only it calls and which empties the flags of the original.
