# Verification of corestack-peky

TLA+ models of the stateful parts of the repository: the Raft node and its log
file, the finger tables of Chord, the daemons of the shell's system programs with the
files they share, the shell itself with its line editor, builtins and children, and the
file transfer over the secure channel. TLC checks the models on small instances. TLAPS proves
the most important results for every size. Paths are relative to the repository,
which the files of this project call `src/`; `raft.c`, `chord.c`, `dplant.c`,
`dspawn.c`, `dkill.c` and `dcheck.c` are in `src/tetrish/system_programs/`, `shell.c`,
`builtin.c` and `cmdline.c` in `src/tetrish/`, `common.c` in `src/libtetrissh/`.

## The system

| Part | State | Operations | Meets others through |
| --- | --- | --- | --- |
| Raft elections (`raft.c`) | role, term, vote, leader id, candidate counters | `raft_timeout`, `HandleRequestVoteRequest`, `HandleRequestVoteResponse`, `update_term_locked` | messages that `tetrisd` is to carry; the log file |
| Raft replication (`raft.c`) | log, commit index, last applied, `next_index`, `match_index` | `raft_leader_send_command`, `raft_append_entries`, `heartbeat_tick`, `HandleAppendEntriesRequest`, `HandleAppendEntriesResponse`, `AdvanceCommitIndex_locked`, `raft_commit_entry` | the same |
| Raft log file (`raft.c`) | a text file of `STATE`, `TRUNCATE` and `ENTRY` lines | the three `persist_*` functions, `restore_pstate` | read at start-up, written inside the handlers |
| Chord (`chord.c`) | a node's finger table | `calculate_fingertable`, `calculate_fingertable_known_nodes` | nothing yet; `main` is its test |
| Daemons (`dplant.c`, `dspawn.c`, `dkill.c`) | `tmp/daemons.reg`, `tmp/cematary.reg`, `tmp/plant_<name>.lock` | start, respawn, register, kill, bury | several processes share the files |
| Plants (`dplant.c`) | `tmp/<name>.state` and the daemon's copy of it | load, save, initialise, water, one cycle per minute | the daemon and the water commands share the file |
| `dcheck` | none | prints the register and the graveyard | reads the files |
| `tetrisd`, `tetrisu`, `tetrisctl`, `tetrislog` | stubs | none that call Raft or Chord | |
| Line editor (`cmdline.c`) | line, cursor, ring of history lines | one byte of `line_read`: type, erase, move, recall, complete, enter | the shell calls it; names to complete from `builtin.c`, `PATH` and the directory |
| Shell loop (`shell.c`, `cmdline.c`) | `argv` and who allocated it, signal dispositions, the terminal's settings and the saved ones | `startup`, `run_rc`, `expand_alias`, `fork_child`, `line_raw_init`, `restore_cooked`, `catch_and_restore` | the terminal and the children share its settings; keys signal all of them |
| Builtins (`builtin.c`) | list of aliases, environment, working directory | `cd`, `setenv`, `unsetenv`, `alias`, `unalias`, `exit`, and listings | called by the prompt and by the rc file |
| Secure channel (`common.c`) | sockets, OpenSSL objects | `send_all`, `read_bytes`, conversions, keys, signatures, tokens | called by the reference programs |
| Client and server (`reference/pa2`) | session key, name of the file to come, received files | authenticate, send the key, send names and data, close | one connection |
| `backup`, `sys`, `ld`, `ldr`, `find` | none | one-shot input and output | |
| `auth/`, scripts | none | key generation, clean-up | |

What is hard here: Raft under lost, repeated and reordered messages, failing writes
and restarts between any two steps; several processes that read, decide and then
write the same files without a lock that lasts; a daemon that works on a copy of a
file others change; numbers at their limits (wrapping rings, unsigned indexes,
`MAX_DAEMONS`); a terminal that the shell, its children and the signal handlers all set;
messages that arrive in pieces from a peer that may be gone. `PROJECT.json` lists each such hazard at its line.

What makes each part correct:

- elections: one vote per node and term, one winner per term, and a node's idea of
  its leader is that winner, also after restarts and failed writes;
- replication: logs agree up to a common entry, committed entries stay, are in every
  later leader's log and in the files of a majority, and only they are handed out;
- log file: a restart gives back what was in memory;
- Chord: a finger names the owner of its start, and the intervals cover the ring;
- daemons: one per plant, each listed in the register under a name of its own;
- plants: stats within their bounds, a watering that counts, a state that is not lost;
- line editor: the line stays in its buffer, edits happen at the cursor, and the history
  holds the latest lines in order and is walked line by line;
- shell: the terminal is given back as it was found, keys reach programs and not the
  shell, the prompt returns, only copies are freed, and a builtin changes what it names;
- channel: both sides agree where a message starts, files are stored in order and under
  their own names, and nobody waits for a peer that is gone.

## Modules

| Module | Models |
| --- | --- |
| `RaftStorage` | what `restore_pstate` makes of one more record (`ReplayState`, `ReplayTruncate`, `ReplayEntries`); the file is kept as the result of replaying it |
| `Raft` | a group of nodes and the messages between them; one action per function of `raft.c` |
| `RaftElection`, `RaftLog`, `RaftCommit` | the invariants behind the safety of elections, the agreement of logs and the safety of what is committed, each on top of the one before |
| `RaftLogProofs`, `RaftCommitProofs` | theorems about `Raft`: types, elections and logs in the first, commits in the second |
| `Chord`, `ChordProofs` | finger tables on every ring of the keyspace; theorems about it |
| `DaemonRegistry`, `DaemonRegistryProofs` | commands and daemons on the register, the graveyard and the plant locks; theorems about it |
| `PlantState`, `PlantStateProofs` | one plant's file and its users; theorems about it |
| `PromptLine` | what a prompt promises: text on both sides of a cursor, and the latest lines |
| `LineEditor`, `LineEditorProofs` | `cmdline.c` byte by byte, with `PromptLine` as its abstraction; theorems about it |
| `Session` | what the builtins promise: aliases, environment and working directory |
| `Shell`, `ShellProofs` | `shell.c` and `builtin.c` with the terminal and the children, `Session` as its abstraction; theorems about it |
| `FileTransfer` | what client and server promise together: files taken in order, each under its name |
| `SecureChannel`, `SecureChannelProofs` | the two programs and `common.c` on one connection, with `FileTransfer` as its abstraction; theorems about it |
| `MCRaft`, `MCChord`, `MCDaemonRegistry`, `MCPlantState`, `MCLineEditor`, `MCShell`, `MCSecureChannel` | the modules TLC runs on, with symmetry sets and the values of constants |

### Raft

The variables of `Raft` are the fields of `raft_node` (`role` is `r->state`, `log` and
`logLen` are `pstate.log` and `pstate.log_len`, and so on), the file (`disk`), whether
the descriptor is open (`fd`), and the messages in flight (`net`, a set). Four
variables are history that no action reads: the votes given (`votes`), the elections
won (`elected`), the entries `AdvanceCommitIndex_locked` counted (`committed`) and whether a
follower took over a commit position past its request's entries (`overran`).

A handler is one action that consumes a message, changes the node and its file, and
sends the response, since the code holds `r->mu` for it. A write may fail: `Outcome`
is that nothing was written, that the record is in the file though `write` or
`fdatasync` reported a failure, or that all went well, and every early return behind
a failed `persist_*` call is a case of its own. `Restart` is a node that dies between
two handlers and starts again with `initialise_raft_sm`, also when the file cannot be
opened. Dying inside a handler is the same as a failed write followed by a restart,
except that no response is sent, which a lost message covers.

The transport and the caller's loop are not in the tree (`tetrisd.c` is a stub). They
are modelled as `raft.c` expects them: any peer, any delay, any order; with `Lossy`
messages may also be lost or delivered twice. `UseHeartbeat` says whether the caller
uses `heartbeat_tick` besides `raft_append_entries`.

`raft.c` does not compile at this commit (a missing `;` at line 674, `project_root` not
declared, a prototype that differs from its definition, `entry.index` on a pointer in
`persist_log_entry_locked`, `create_log_file` without a return). The model takes the
evident intention of these lines and every other line as it stands.

### Daemons and plants

In `DaemonRegistry` a process is one command together with the daemon it becomes, and
each reading or writing of a shared file is a step. A registered name is the sequence
of its parts (`<<x>>`, `<<x, 1>>`), which is what counting namesakes tells apart. The
lock of a plant is given up by the loop in `spawn_plant` that closes all descriptors.
With `Overlap` false commands run one after the other, which is how the shell's user
meets them; `UseRespawn` adds `dplant <name> respawn`. Up to `MaxFaults` calls fail: an
`open` or `fopen`, a `fork`, a `kill`. A daemon that cannot open the register works without
a line (`dplant.c:206`, `dspawn.c:143`), one that cannot read it takes it for empty, and
`dkill` empties it after a `kill` that failed (`dkill.c:159`) or crashes if it cannot. No
other harm comes of such a call than to the process it was about, and `mishap` is the history
of that: who had a call fail, who was respawned, and who was missing from the list of a
`dkill` that emptied the register, because its list was full or for another reason. The
properties name the ones they leave aside.

In `PlantState` a save is two steps, because `open` with `O_TRUNC` empties the file
before `flock` is asked for. The numbers are those of the code. The times in the struct
are replaced by a choice of how many minutes have passed.

### Chord

`Init` chooses any non-empty set of nodes as the ring; every node then computes its
table. The tables are compared with definitions written from the README's own terms:
distance clockwise, owner of a key, interval that may wrap.

### Line editor

A step of `LineEditor` is one byte that `getchar` returns; `mode` is how far `line_read`
is in an escape sequence, the malformed ones included, which eat bytes up to the next
that is not printable. A character is kept as its class (letter or digit, space, other),
since that is all the code looks at. `buf` and `pos` are the first `len` bytes of `out`
and the cursor; `hist`, `hlen`, `hhead` and `hcur` are the variables of the same names.
`KeepsPrompt` maps them to `PromptLine`: the text before and after the cursor, and the ring
read from its oldest line on.

### Shell

`phase` is where the shell is in `main`, `startup`, `run_rc` or `fork_child`. A child is a
process with steps of its own (`RestoreCooked`, then `Exec`), so that signals come between
them. `tty` are the settings of the terminal and `orig` the saved ones: "cooked", "raw", or
"zero", the state of the global before `line_raw_init` has run. Programs, keys and signals
are external: a program may make the terminal raw and leave it so, remove a directory,
stop, go on and end at any time. `spoilt` and `touched` are history. `waitpid` with the
process -1, which is what a failed `fork` leaves, waits for any child.

Words of a command are strings; for a word with an equals sign, `Assign` gives the name and
the words of the value. `owner` is whose memory `argv` points to. `KeepsSession` maps the
list of aliases to a table of what `alias_lookup` finds, and shows that each builtin does
what `Session` says. `Session` gives the effect of a whole command, without lists and loops:
which of its arguments are definitions, the last of them for each name, and what is kept
when an argument is malformed or a quote is not closed. Doing less than that, or changing
another name, is no step of `Session`; every command is a step, counted in `entered`.
`bi_cd` uses `getcwd`'s buffer without a look at its result; the model leaves any value of
`Stack` in `OLDPWD` when the directory left no longer exists.

### Secure channel

The client and the server are sequential; `pc` is the call each has come to, `out` what it
has still to send there and `want` how much it reads then. `Send` and `Receive` are one
turn of the loops in `send_all` and `read_bytes` and move any part of the rest. A byte is a
digit of an integer or a numbered part of a blob, so that a message read from the wrong
place shows. OpenSSL is ideal and external: blobs open with their key if they are whole.
Any library or system call may fail once per `MaxFaults`, each with the code's own reaction,
the missing checks included: the server uses a NULL from `read_bytes` unseen in six places
("crashed"), and `send_all`'s result is looked at in `auth` only. A session key that cannot
be encrypted is announced all the same (`ClientWithSecurityCP2.c` 248): with length 0, or
with 128 when `rsa_encrypt_block` has been told the size (`common.c` 331) before it fails;
`send_all` of a null pointer then sends nothing, and the server takes the next messages for
the key. `InStep` makes that one exception (`keyless`), and what comes of it is checked with
the rest: they do not decrypt, so the server ends, and no file is stored.

## Runs

| Run | Checks | Result |
| --- | --- | --- |
| `raft_log` | `CommitInv`, `LogMatching`, `LeaderCompleteness`, `StateMachineSafety`, `MatchIsDurable`, `DurableQuorum`, `CommittedPrefixStable` | hold |
| `raft_faults` | `TypeOK`, `VoteOnce`, `ElectionSafety`, `LeaderIsElected`, `ElectionInv`, `RestoreMatchesMemory` | hold |
| `raft_progress` | `BacklogCommits` | holds |
| `raft_lone_entry` | `CommandCommits` | violated: the last command is never committed (line 836) |
| `raft_vote_reply` | `MajorityWins` | violated: a vote comes with the voter's old term and is dropped (line 862) |
| `chord_fingers` | `TypeOK`, `FingersNameOwners`, `IntervalsTile`, `HopsApproach` | hold |
| `daemon_sequential` | `OneDaemonPerPlant`, `EveryDaemonListed`, `NamesDistinct` | hold |
| `daemon_overlap` | `TypeOK`, `SpawnsExclusively`, `NameStaysListed`, `LockIsReleased` | hold |
| `plant_life` | `TypeOK`, `StaysAtLevelOne`, `PlantsWither` | hold |
| `line_editor` | `TypeOK`, `KeepsPrompt` (implements `PromptLine`), `WalksByAge` | hold |
| `shell_session` | `TerminalGivenBack`, `FreesItsOwn`, `KeysHitPrograms`, `PromptReturns`, `KeepsSession` (implements `Session`) | hold |
| `secure_channel` | `InStep`, `KeepsTransfer` (implements `FileTransfer`), `NobodyHangs`, `ClosesWhenDone` | hold |

To read them together: the elections of the Raft nodes are safe in any case, and as long as
no write fails so is what a leader commits. What the followers hand out is safe until one of
them takes over a commit position past the entries its request covered (`overran`): the code
lets it (`raft.c:792`), and nothing is said from that step on. It is progress that suffers
in any case. The first election among fresh nodes is not won by its votes, but by the
votes of nodes that have already heard of the term, and a command waits for the next.

More can be seen by changing a configuration.

- With `UseHeartbeat = TRUE` in `MCRaftLog.cfg`, a follower soon sets `overran`: a heartbeat
  has `prevLogIndex` 0 and the leader's commit index (`raft.c:196`), so it commits up to its
  own last entry (`raft.c:792`), which the leader may never have had. The properties hold
  there too (952,000 states, longer than the other runs take); without its `~overran`
  `StateMachineSafety` fails after 30 steps. In `raft_log` itself `overran` stays FALSE, so
  its two properties are checked without the exemption.
- With `MaxFaults = 1` there, `MatchIsDurable` fails, and `DurableQuorum` when it is checked
  alone: no handler refuses to work in state `FAILED`; after a failed `fdatasync` the leader's
  retry writes the entry a second time and is acknowledged, and replay stops at it
  (`raft.c:118` and `782`).
- With `Overlap = TRUE` in `MCDaemonSequential.cfg`, `NamesDistinct` and `OneDaemonPerPlant`
  fail: the lock of a plant is gone before its name is registered (`dplant.c:113`).
- Without the exemptions that `Unharmed` makes, `EveryDaemonListed` and `OneDaemonPerPlant`
  fail, although nothing overlaps. A daemon that could not open the register has no line, and
  the next `dplant` starts a twin. `respawn_plant` registers nothing when the name is still
  listed (`dplant.c:589`), so the register keeps the dead pid and the next respawn starts a
  twin. And 'a' empties the register although `dkill` has listed and killed only the first
  `MAX_DAEMONS` (`dkill.c:108` and `159`). What the two properties say is that nobody else is
  harmed by that.

`PlantsWither` holds for a poor reason: a daemon never reads its file again, so its next
save undoes a watering, and no amount of water keeps a plant alive.

What the properties of the shell leave out says as much as what they state. The terminal
is not given back after a failed `fork`, which leaves raw settings to be saved as the
original ones, nor after a program that left it raw or was stopped while it was; and an
`exit` in the rc file, or SIGTERM while it runs, applies settings that were never saved.
A program of the rc file that is stopped holds the shell, as `run_rc` waits without
`WUNTRACED`. In the editor the arrow up walks into slots that were never filled, one press
each, and shows nothing; a full history keeps its oldest line out of reach of it.

Mutants (`*_Name` definitions just before the definition they stand in for) are
plausible slips in the code. `PROJECT.json` pairs each property with one that breaks it.

### Bounds

- Raft: three nodes are the smallest group with a majority that is not everybody, and
  two terms give an old leader, a new one and a node that missed the change. One
  command name is enough, since entries differ by index and term. Two log cells let a
  conflict have a predecessor. Two messages in flight let a late one overtake a new
  one. `Batch` is as long as the log in every run. `raft_progress` and
  `raft_lone_entry` have two nodes and three log cells or two, so that one command
  follows another. A group of one, which leads as soon as it times out, is in the model
  and the proofs but not in a run.
- Chord: the three bits of `chord.h`, all 255 rings.
- Daemons: two plants and five commands one after the other with two failing calls, and
  two plants and three commands at once with two. Each race needs two commands; the third
  kills or restarts. `MaxDaemons` is 2 and 1, so that the limit is passed in both. With four
  commands at once `daemon_overlap` has 1.6 million states and passes too, in more time.
- Plants: a daemon, its successor and one water command at a time, run as often as one
  likes, so that a dry plant can be filled again. Gaps of 1 and of 20 minutes are the
  usual cycle and the one that empties a full plant.
- Line editor: a buffer of four bytes and a ring of three slots, so that both overflow;
  three characters typed or completed in all, which is a full line or three lines. Two
  commands, one a prefix of the other, and one file, which is a directory.
- Shell: two programs, so that one is waited for while another is stopped; four command
  lines, enough to define an alias, change it, use it and run a program behind it; an
  `argv` of four places, so that an alias can be too long; one failed fork.
- Secure channel: three files, two with the same last part and one empty; integers of two
  digits to the base 3, blobs of one to six bytes, a socket that holds four. Two faults.

`CHECK_DEADLOCK` is off in every run, because each behaviour ends when the bounded
number of commands, elections, restarts or daemons is used up.

### Fairness

- `raft_progress`, `raft_lone_entry`: a message that has arrived is handled, and the
  leader keeps calling `raft_append_entries` for each peer, which is what a caller that
  polls does. Nothing is assumed of timeouts, of new commands or of restarts, and the
  transport loses nothing (`Lossy` is false).
- `daemon_overlap`: whoever holds a lock gets its turn. The calls it makes return, with or
  without success; the only lock is taken with `LOCK_NB`.
- `plant_life`: a daemon's loop goes on (`sleep(10)` returns and minutes pass), and a
  water command that has started ends. Nobody has to start, kill or water anything.
- `shell_session`: the shell takes its next step, and a child that has been forked goes on
  to its program. Nothing is assumed of programs, of the user or of signals.
- `secure_channel`: each program goes on when no call keeps it, and a call returns when it
  can. Nothing is assumed of the user at the prompt, and a broken connection is noticed
  because the kernel tells.

## Proofs

All theorems hold for every value of the constants under the named assumptions in the
modules (`NodeAssumption`, `CommandAssumption`, `BoundAssumption`, `RegistryAssumption`,
`NameAssumption`, `GapsAssumption`, `EditorAssumption`, `ShellAssumption`,
`WordAssumption`, `ChannelAssumption`, `FitsAssumption`, and those of `Chord` and
`RaftStorage`): the group is finite and not empty, capacities are positive, gaps are whole
minutes, names are lines of characters, command lines and the values of aliases are
sequences of words, and Nil is none of the values it stands beside. Two leave something
out: `NameAssumption` that a user starts a plant with the name that `dspawn` gives its own
daemons, whose lines it would then share, and `FitsAssumption` a length that does not fit
the bytes it is sent in (eight in the code, which `int_to_bytes` would cut).

- `RaftLogProofs!TypeCorrect`: `Spec => []TypeOK`. Inductive as it stands, once it says
  that a leader's `next_index` is at least 1, without which `next_index - 1` in
  `raft_append_entries` would wrap. One lemma per handler and per way it can return.
- `RaftLogProofs!ElectionInvariant`: `Spec => []ElectionInv`. `VoteOnce` and
  `ElectionSafety` are not inductive: they say nothing about what a voter remembers.
  `ElectionInv` adds that a node whose descriptor is open is pledged in memory to every
  vote it gave, and its file too as long as it can be replayed; that a request in flight
  is backed by the sender's own vote; that a granting response stands for a vote in an
  election the receiver held, perhaps of a later term than the response says (the code
  fills in the term too early); that candidates count only such votes; and that every
  winner had a majority. A restart with a good file gives the pledges back; one with a
  file that does not open leaves a node that can neither vote nor stand. Two majorities
  share a voter, so `VoteOnce` makes the winners of a term equal.
  `VotesOnce`, `ElectionsSafe` and `LeadersElected` follow.
- `RaftLogProofs!LogInvariant`: `Spec => []LogInv`, with failing writes, heartbeats and any
  batch, which `raft_log` leaves out. `LogMatching` compares the logs in memory only. What
  makes it inductive is to compare every stretch of a log there is, a run: the one in
  memory, the one replay would give, and the entries of a request together with the term of
  the entry before them. `RunsAgree` says that two runs with an entry of the same index and
  term agree from there down, as far as both go. A request that passes the check of
  `prevLogIndex` is joined to the follower's log where the two agree, so the result, which
  is a piece of one on a piece of the other, agrees with every third run. A new entry of
  `raft_leader_send_command` can clash with none, because a leader holds all entries of its
  term (`LeaderHoldsTerm`), which rests on one winner per term and on a winner not having
  won before (`CandidateIsFresh`). `LogsMatch` follows. `RestoresMemory` is a part: a node
  that can write and has not failed would restore what it has; for the others `LogInv` keeps
  that one of file and memory is a prefix of the other (`FileFollowsMemory`).
- `RaftCommitProofs!CommitInvariant`: `MaxFaults = 0` implies `Spec => []CommitInv`. The
  hypothesis is needed: a node in `FAILED` goes on to acknowledge, and `MatchIsDurable` is
  then false (see above). Heartbeats and short batches are allowed. The argument in short:
  `TermsInv`: terms rise along a log, were all won, and a leader is ahead in its own.
  `TalkInv`: what a message stands for while its sender is still in the term. A request for
  votes shows the candidate's log, a request to append is a part of the leader's log, an
  acknowledgement is kept by who gave it. An entry is `Safe` when every log as up to date as
  it, in the order of `checkLog`, has it, when every leader since has it, and when no request
  under way would cut it. Safety alone is not inductive, since a candidate may be about to
  win: a node `Supports` an entry when it has it and has voted, since, for nobody who might
  win without. `OpenIsSafe` says this of an entry before it is committed, as soon as the
  leader could still get there: each node of a majority has acknowledged it or is not yet
  beyond the leader's term. So what `AdvanceCommitIndex_locked` counts is already safe
  (`CommittedIsSafe`). An entry of an earlier term is committed only below one of the
  leader's own, which the code checks. Most steps make a log that is a part of others
  (`Gradual` in the proofs), and one lemma serves them all; `raft_leader_send_command` is
  the step that adds an entry nobody has.
  `LeadersComplete`, `MatchesAreDurable`, `CommitsAreDurable` and `CommitsAreOnce` follow.
- `RaftCommitProofs!AppliedInvariant`: `MaxFaults = 0` implies `Spec => [](~overran =>
  AppliedInv)`, with heartbeats and for any batch. A follower moves `commitIndex` up to its
  own last entry, checked or not (`raft.c:792`); Raft has it stop at the last entry of the
  request. `overran` remembers that a follower did not. It happens with `heartbeat_tick`, and
  without it too. With a batch of 2, let a leader of term 4 have four entries committed and a
  follower the first two of them and one of its own: refusals delivered twice, or requests
  sent again before the answers to the first, lower `next_index` to 1, the request has entries
  1 and 2 and commit position 4, and the follower hands out its own entry 3. With a batch of
  64 that takes a follower that is refused some 64 times too often. What is proved is that
  this is the only way: before it, nothing wrong is handed out.
  What is inductive: `commitIndex` is over entries committed no later than the node's term;
  the commit position in a request likewise, as far as the request goes: up to `prevLogIndex`
  through one entry that was counted and that a log passing the check must have, beyond it
  through the entries sent; and what was handed out is committed. That a request of a later
  term cuts none of these is `Safe`, from `CommitInv`.
  `AppliesAreSafe` (`StateMachineSafety`) and `PrefixIsStable` (`CommittedPrefixStable`, also
  in the step that sets `overran`) follow.
- `DaemonRegistryProofs!RegistryInvariant`: however commands overlap, a process between
  `plant_lock` and the end of `spawn_plant` holds its plant's lock (`SpawnsAlone`), and the name
  of a daemon at work is in the register unless a call failed for it, or a `dkill` emptied the
  register without having it in its list (`NamesStay`): `Excused` says that whoever survives
  an emptied register has one of these reasons.
- `DaemonRegistryProofs!NamesAreDistinct`: with commands one after the other. The count of
  namesakes is still true when the line is written, because nobody else is on the way
  to one (`FoundStillHolds`), and the numbers in the register are below it
  (`LinesAreNumbered`), because lines are only ever added or all removed.
- `DaemonRegistryProofs!ListsTyped`: `TypeOK`, as a part of `ListsInv`. With one line for each
  process in the register, `Namesakes` counts no more than there are processes, and `dkill`
  offers no more than it found. What is left to show is that `Kill` keeps the graveyard a
  list of lines: its fold is over positions, and a smallest set of positions for which it
  did not is empty, or is one position more than a smaller one.
- `DaemonRegistryProofs!DaemonsListed` and `OneDaemonEach`: with commands one after the other,
  any number of failing calls, respawns and full lists. What is inductive
  (`SequentialInv`) adds that a process has one line, that nobody unharmed works for a plant
  that somebody unharmed is starting, and that a waiting `dkill` whose list is not full
  offers every daemon that is unharmed.
- `PlantStateProofs!StatsInBounds` and `LevelStays`: the two properties are inductive
  together. The level rests on the water being at most 100, and that on what the file
  holds, which any process may have written.
- `ShellProofs!GivesTerminalBack` and `KeysReachPrograms` follow from `TerminalInvariant`,
  for any number of processes. What is inductive says, phase by phase, what `tty` and `orig`
  are: saved and raw at the prompt; in `wait`, cooked, unless the child has yet to restore
  it or is using the terminal itself. It also says who that can be: only the process
  waited for is between `fork` and `exec` or has changed the terminal, which is what makes
  it right that `line_raw_init` saves the settings again. All this is under "not spoilt"; the
  part on signals holds always.
- `ShellProofs!FreesOwnCopies`: the flag matches from `expand_alias` on (`FlagInv`), not only
  in `wait`, where main needs it.
- `ShellProofs!ShellKeepsSession`: the refinement `KeepsSession`. What is inductive
  (`SessionInv`) is that `alist` names each alias once, for `remove` to make it as if it had
  never been there, that `env` is an environment, and that no command is read before the rc
  file. `alias` and `setenv` go through their arguments by folds. What they leave is shown
  one argument at a time to be what `Session` says of the whole command (the first argument
  that would break it cannot exist): for `setenv` the values of the arguments before the
  first malformed one (`SetenvMeans`), for `alias` the definitions that are complete so far,
  and at most one whose quote is open, which stands behind all of them (`AliasMeans`).
- `LineEditorProofs!LineFits`: `TypeOK` with the lines of the ring, which come back into the
  buffer, short enough too (`HistoryFits`). The searches for the ends of words are by CHOOSE;
  that they find a place in the line follows from a least and a greatest element.
- `LineEditorProofs!ArrowsWalk` and `EditorKeepsPrompt`: `WalksByAge` and the refinement
  `KeepsPrompt`. Both need to know which slots of the ring are filled (`RingFilled`): those
  below `hlen`, and until all are, the next line goes right above them. `Age` then counts back
  from `hhead` through filled slots only, so the sequence of lines by age, which is what
  `PromptLine` has for a history, loses its first and gains a last when a line is added
  to a full ring. The text before and behind the cursor are two pieces of the buffer, and each
  edit moves the place where it is cut or one of the pieces' ends.
- `ChordProofs!TablesTyped`, `OwnersNamed`, `IntervalsMeet`, `HopsComeCloser`: `TypeOK`,
  `FingersNameOwners`, `IntervalsTile` and `HopsApproach`. `ChordInv` says that `peers` is the
  sorted list of the ring and that a table has the right starts and ends and the owner of
  each start; the loop of `find_successor_linear` finds it because the list is sorted, and
  past the last node the owner is the first. That 2^(i+1) is twice 2^i the
  provers learn from the sizes of power sets, a theorem of the library.
  The starts go once round the ring, `2^i` further each, so a key has one interval; the
  owner of its start is not past the owner of the key because distances round the ring add.
- `SecureChannelProofs!ChannelInvariant`: `Spec => []ChannelInv`. `InStep` says what `got` is
  when a read returns, and depends on everything that was sent before. `ChannelInv` looks at
  the stream towards each side: what it has received, what is on the wire, and what its peer
  has yet to send, one after the other. Sockets only move bytes within it (`SocketMoves`).
  There is a flow along it, which says of each position which message of the protocol, which
  part (type, length or blob) and which byte of it stands there; parts are whole, except
  the last on a connection that has broken; a key that could not be encrypted has no blob,
  and the server that waits for it finds a digit where the blob should begin
  (`KeyDoesNotOpen`) and can only end. The reader's `pc` and `want` follow from the place where
  the flow begins (`ServerAt`, `ClientAt`), its variables likewise (`ServerHas`), and the place
  where it ends is where the writer has come to (`ClientSent`, `ServerSent`). `Tracks` says how
  many files were offered before a message, and `ClientSent` that the close message comes
  after all of them. Reading a part takes it off the front, sending a message adds one at the
  end. That `bytes_to_int` undoes `int_to_bytes` is by counting the turns of the two loops
  (`IntComesBack`), and needs `FitsAssumption`. `ChannelInv` says that there is a flow, among
  infinitely many functions, so TLC cannot evaluate it; it checks the three properties.
- `SecureChannelProofs!ChannelInStep`, `ChannelKeepsTransfer` and `ChannelClosesWhenDone`
  follow: a part read from the front is the one the program is at; the data message at the
  front is that of the next file offered, whose name the server has; and at a close
  message no offered file is left.

Only model-checked: the liveness properties `BacklogCommits`, `LockIsReleased`,
`PlantsWither`, `PromptReturns` and `NobodyHangs`, which are out of the prover's reach. Every invariant, action
property and refinement that a passing run checks has a theorem, under the hypotheses named
here; those of `CommitInvariant`, of what rests on it and of the theorems on daemons are
conditions without which the property is false, and the runs that check it are within them.

## Not modelled

- The reads `HandleAppendEntriesResponse` and `HandleRequestVoteRequest` make before they
  lock `r->mu` (lines 807-812 and 861-864).
- A line of the log file cut in the middle: a failed write here leaves all or nothing.
- Batches shorter than the log (`RAFT_APPEND_BATCH` is 64, `RAFT_LOG_CAP` 1024) in the runs;
  the theorems are for any batch, and what a short one allows is `overran`.
- Election timers: a timeout may come at any time, which includes when it would.
- The drawing of the prompt and the listings, log lines and directories of the shell.
- `load_cert_file` and `encrypt_file`, which nothing calls, and `decrypt_file`, which the
  server reaches only when data comes before a session key.
- `dcheck`, the stubs, the one-shot programs and the scripts, for the reasons
  `PROJECT.json` gives.

## Plan

1. `RaftThreads`: the unlocked reads as steps of their own. `RaftLogFile`: the file as
   lines, with a torn one, refining `RaftStorage`. Batches shorter than the log.
2. An abstract specification of the group (a log that only grows) that `Raft` without
   heartbeats and failed writes implements.
