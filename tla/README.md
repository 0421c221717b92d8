# Formal models of the Astonia 3 area server

This directory holds TLA+ models of the server in the repository's top
directory (the `*.c` files under `src/`), the TLC configurations that check them
on small instances, and proofs of their main theorems for TLAPS. It is a model
of the code as it is, including the places where the code does not do what its
comments say; those are in the section *Where the code surprises*.

## 1. The system

An Astonia world is a set of *area servers*. Each is one process that serves one
area (`areaID`) in one copy of it (`areaM`, the mirror). Characters walk from
area to area, so their data has to move from process to process; all processes
share one MySQL database, and a small *chat server* process that distributes
messages among them. Players connect with a client program.

Inside an area server there are two threads:

* The **main thread** runs the game loop in `server.c` (24 ticks a second):
  every tick it calls timers, the character and item drivers, player input and
  output, `tick_login`, effects and periodic work, under `lock_server`. It never
  talks to the database.
* The **database thread** (`db_thread` in `database.c`) takes queries from a
  FIFO list (`add_query`, `remove_top_query`) and executes them. It hands results
  back through structures protected by `data_mutex` (`login`, the storage
  requests), and takes the server lock where it looks at characters in memory.

### Inventory

| Component | Source | State | Operations | Hard part | What makes it correct | Module |
|---|---|---|---|---|---|---|
| Character sessions | `database.c`, `player.c`, `lostcon.c`, `server.c` | table `chars` (who holds a character, where it may go, its data), query list, structure `login`, `ch[]`, `area[][]` | login (`find_login`, `load_char`, `tick_login`, `read_login`), usurping, logout, backup, change of area, rescue, start, quit, crash | two threads per server, several servers, delayed writes, crashes, stale area list | a character is in one memory only; nothing newer is overwritten by older data; every login is answered; who lost the connection leaves | CharSession |
| Versioned storage and its users | `database.c` (`*_storage`), `clan.c` (`tick_clan`), `arena.c`, `military.c` | table `storage` (blob and version); the structures `cs`, `us`, `rs`; version and data in the memory of each user | create, update if the version is unchanged, read, poll for the answer | several servers write one blob; all users of a server share three structures; the content is read from live memory; a statement may be sent twice | nothing written is lost; an answer goes to who asked; memory is the version it claims to be; readers catch up | Storage, CasRegister |
| Task queue | `task.c`, `database.c` (`check_task`) | table `task`, table locks, characters in memory or in rows | `add_task`, `check_task`, `set_task` | the character may be in memory here, elsewhere, just being loaded or saved; statements fail, locks are lost with the connection | a task is done once, or at least stays; what was done is not undone | TaskQueue |
| Connection of a client | `io.c`, the client's `client.c` | `tbuf`, ring buffer `obuf` with `iptr`, `optr`; the client's `inbuf`, `lastticksize` | `psend`, `pflush`, `csend`, `send_player`, `exit_player`, `new_player`; `poll_network`, `next_tick` | partial sends and receives, wrap-around, full buffer, headers of one and two bytes, reconnects | the client takes the frames whole and in order | FrameStream, FrameChannel |
| Characters in the game loop | `create.c`, `act.c`, `timer.c`, `death.c`, `respawn.c`, `map.c`, `do.c`, `drvlib.c` | used and free lists in `ch[]`, serial numbers, sorted timers, `map[].ch`, `MF_TMOVEBLOCK`, action of a character | `alloc_char`, `free_char`, `tick_char`, `set_timer`, `tick_timer`, walk, kill, die, respawn, and what others do to a character: hurt, move, swap, remove | loops over lists that their bodies change; a character is freed in the turn of another | lists partition the array; map, flags and characters agree; each spot has its character or one timer; nobody misses a turn | World |
| Chat | `chat.c`, `chatserver.c` | connection, input and output buffers on both sides | connect, `tick_chat`, `send_chat`; the hub's accept, `rec_chat`, `csend`, kick | connections that break in a packet, slow readers, partial sends | packets whole, in one order, without gaps | Chat, ChatBus |
| Relations between clans | `clan.c`, `clanmaster.c` | relation in force, relation wanted, date of the wish, raid switch, per clan and other clan | found, go broke, `set_clan_relation`, `update_relations` | two entries per pair, times of notice, numbers used again | both entries agree; no relation ends without notice; consent is granted | ClanRelations |
| Membership of clans | `clan.c`, `clanmaster.c` | clan table of each server, number and serial of each member, invitations | found, delete, join, leave, `get_char_clan`, read, write | stale copies, crashes, lost answers, numbers used again | no member of an old clan counts as one of a new | ClanRoll |
| Other database queries | `database.c` | notes, karma log, lastseen, statistics, clubs, clan log, names, IP log | one statement each | results for a character that may have left | a result goes to the character that asked | – |
| Bytes from the client, commands, map updates | `io.c` (`rec_player`), `player.c` | input buffer, what the client has been told | command parser, differences | partial commands | the client's view converges to the server's | – |
| Items and effects | `create.c`, `effect.c`, `container.c`, `consistency.c`, `do.c`, `expire.c` | `it[]`, `ef[]`, `item[]`, `citem`, containers | alloc, free, take, drop, give, swap, expire | an item referenced twice | an item is in one place | – |
| Messages | `notify.c` | message list of a character | `notify_char`, area notification | | order, bounded memory | – |
| Light, sight, path | `light.c`, `los.c`, `see.c`, `sector.c`, `path.c` | light, visibility caches | incremental updates | incremental light | light equals the recomputed value | – |
| Treasury of clans; clubs | `clan.c`, `club.c`, `clanlog.c` | jewels, debt, money, bonuses | treasury pass, training | amounts | money is neither lost nor made | – |
| Bank, merchants, stores, depots | `bank.c`, `merchant.c`, `store.c`, `depot.c`, `mail.c` | money, stocks | buy, sell, deposit, store | storage updates that fail | money and items conserved | – |
| Memory, logs, statistics, configuration, tools | `mem.c`, `log.c`, `prof.c`, `statistics.c`, `config.c`, `badip.c`, `lookup.c` and others | counters, caches | | | | – |
| Combat, skills, texts, generators | `skill.c`, `tool.c`, `talk.c`, `create_*.c`, ... | one character | arithmetic | | | – |
| Area drivers and minigames | `libload.c` and some fifty drivers | quest state of a character | one script each | | | – |
| Second copy, zones, packaging | `astonia_community_server3/`, `zones/`, `launcher/`, ... | | | | | – |

The components interact in three ways: function calls in the main thread, the
query list towards the database thread with the results it leaves behind, and,
between processes, rows of the shared tables and messages of the chat server.

### How the modules fit together

```
 CharSession            who has a character; its queue and ownership rule are
    |                   taken up by TaskQueue, its logins and exits by World
 TaskQueue              tasks done in memory or in rows
 World                  what happens to characters inside one server
 Storage -> CasRegister the clan table and other blobs
    |
 ClanRelations, ClanRoll   what is in the clan table (reads and writes are
                           one step there: Storage shows that this is sound)
 FrameStream -> FrameChannel   server to client
 Chat -> ChatBus               server to server
```

`A -> B` means that A is shown to implement the abstract B. Each run asks the
safety questions and the refinement of its module together, so that they are
about the same instance, and the liveness questions where the code's scheduling
justifies fairness.

## 2. CharSession

### State and code

| Variable | Code |
|---|---|
| `row[c]` | the row of `chars`: `cur` is `current_area`/`current_mirror` (`NoServer` for 0/0), `allowed` is `allowed_area`, `mirror` the preferred mirror, `ver` stands for `chr`, `item` and `ppd` |
| `alive[s]` | table `area`: is `alive_time` younger than five minutes |
| `up[s]` | the process: `down`, `up` (game loop), `leaving` (logging everybody out), `closing` (draining the queue) |
| `queue[s]` | the list `wquery` of `database.c` |
| `login[s]` | the structure `login`; `stale` is `ticker > login.age + 2` |
| `chr[s][k]` | `ch[]`: `used` is `flags`, `id` is `ID`, `link` is who drives it (`player`, the driver `CDR_LOSTCON`, nobody) |
| `view[s]` | `area[][].status` as `update_arealist` last read it |
| `client[s]` | characters for which some `player[]` is in `ST_CONNECT` |
| `robbed` | a history variable: characters a rescue took from a server that was running |

One action is one step of one thread. The handlers of the main thread run under
`lock_server` and do not wait for the database; a query of the database thread
is one SQL statement, or runs under `LOCK TABLES`. `find_login` is split by the
status it finds (`FindLoginStart`, `FindLoginStale`, `Collect*`), `tick_login` by
its outcome (`Usurp`, `UsurpMissed`, `CreateChar`, `CreateNoSlot`,
`CreateNoItem`, `CreateNoTile`), `load_char` likewise (`DbLoad*`). All the ways a
character is made to leave by the game (logout, idling, kick, death without a
player, payment, illegal position) are one action, `ExitChar`, because they make
the same call.

The data of a character is a *version* that grows with each change in the game,
so that "older" and "newer" can be told; version 0 is a half-built character.

### Runs

| Run | Instance | Shows |
|---|---|---|
| `areas` | two areas, one character whose data changes twice, one entry per server, a queued backup; server B may be told to quit, crash or fall silent | `SingleOwner`, `MemoryIsFresh`, `NoLostUpdate`, and the inductive invariant `OwnershipInv` |
| `accounts` | two servers, two characters of one account | `OneCharPerAccount` |
| `live` | one server that may be told to quit, two characters of different accounts, NPCs that take entries as they become free, items that run out; fairness | `AnswerIsOwn`, `LoginAnswered`, `LostconLeaves`, `QuitTerminates` |
| `rescue` | two areas, one character | a counterexample to the comment at the head of `database.c`, see *Where the code surprises* |

### Bounds

`LoginReserve` is the 16 of `read_login`, scaled to the few entries an instance
has. `MaxVer` bounds how often data changes: two versions suffice for older
and newer. `MaxBackup` and `MaxPeriodic` keep `backup_players` and the periodic
queries from growing the queue without end; logouts, releases, loads and
rescues are never bounded, so the interesting orders all occur. `NpcSlots` says
which entries other characters may use, `Stopping` which servers are told to
quit, and `Fragile` which of them crash or fall silent; two servers of which one
is fragile show every pairing of a healthy and a failing one. `ItemsCanRunOut` is
TRUE only in the run `live`: once a half-built copy is in memory, freshness is
lost for good, which is listed as a hazard. The constraint `Unrobbed` cuts
behaviours after a rescue took a character from a running server; with one
character nothing is promised from then on.

### Fairness

`LiveSpec` assumes weak fairness of the database thread (it works until
`db_thread_quit` and its list is empty), of what the game loop does in every tick
(`tick_login`, `read_login` for clients that wait, the lost-connection driver) and of the
steps of a shutdown. Clients, operators, the game and crashes owe nothing.
`LoginAges` is fair because ticks pass.

## 3. Storage

Some data belongs to no character: the table of all clans, the arena's list of
the best, the points of the military masters. Each is a *blob* in the table
`storage` with a version, and an UPDATE names the version it replaces
(`where ID=%d and version=%d`). Two kinds of users work with it:

* `tick_clan` on every server reads the clan table again and again; the servers
  of area 3, and only they, change and write it.
* A *keeper*, a character of the arena or the military, creates, reads and then
  keeps writing its blob. The state machine is the same in four places
  (`arena.c:594`, `arena.c:793`, `military.c:756`, `military.c:1043`).

### State and code

| Variable | Code |
|---|---|
| `table[b]` | the row of `storage`: `ver` (0: no row) and `data` |
| `slot[s][o]` | the structures `cs`, `us`, `rs` of `database.c`, `o` being `create`, `update`, `read`: state, who asked, version; `found`, `new` are what a read has fetched |
| `queue[s]` | the storage queries in the query list |
| `step[c]` | `update_state` of `tick_clan` and `storage_state` of a keeper, by name instead of number |
| `ver[c]`, `data[c]`, `dirty[c]` | version and content in the memory of a user, `clan_changed` |
| `up`, `news` | the process; chat about clan dungeons on its way to each server |
| `unsent` | a bound: changes that have not happened yet |
| `calm` | history: nothing has failed, been refused or crashed |

The content of a blob is a count per *change* (a clan order, a fight, a raid):
how often the content reflects it. So "has at least" and "counts once" can be
said, and nothing else of the content matters to the properties.

A user's step in the main thread is one action (`CreateAsk` … `KeeperUpdated`);
a query of the database thread is one (`DbCreate`, `DbUpdate`, `DbRead`).
`db_update_storage` takes the content from the live memory of the user when it
builds the statement, and executes the statement afterwards. The model does both
in one step: what may come between is a change on the same server, which then
has simply happened after the write, and a write of another server, which makes
the version not fit. `db_read_storage` is two statements, the version and then
version and content together; the row the second one finds is what counts, and
the first only decides whether there is a second, so it is one step, too.

`mysql_query_con` repeats a statement when the connection is lost. One that was
executed before the connection broke finds nothing to do the second time and is
reported as failed: `Reply` allows a failure after every statement, done or not.

### What it promises

`CasRegister` is the specification: a register per blob, with calls `create`,
`update` (compare-and-set on the version) and `read`. A call takes effect at one
moment between being made and being answered, or fails; a failed call may have
taken effect, and the answer goes to the client that called. `Calls` in Storage
maps the three structures to the one call a user has under way, and `IsRegister`
says that every behaviour of Storage is one of the register.

### Runs

| Run | Instance | Shows |
|---|---|---|
| `storage_clans` | two mirrors of area 3, two changes, three versions, failing and repeated statements, one server crashes | `StorageInv` (inductive), `NoLostWrite`, `IsRegister`; `WriterKeeps` until something fails |
| `storage_failing` | a server of area 3 with a keeper, a server that reads; statements fail, the first server crashes; fairness | `CountedOnce`, `RequestAnswered`; `KeeperInStep`, `ReaderCatchesUp` until something fails |

### Bounds and fairness

`MaxVer` stops users from asking for one more write; two or three versions let a
write be refused, be repeated, and be overtaken by another. Every change happens
at most once per behaviour, so that a second effect of it is visible as a count
above one. `Crashing` names the servers that crash (any number of times) and
`SqlFails` says whether statements fail. `CountedOnce` holds for one server of
area 3; with two each applies the chat message, see the hazards. `KeeperInStep`,
`WriterKeeps` and `ReaderCatchesUp` speak of calm times: after a failed write a
keeper's version is ahead of the table for good, and `tick_clan` reads again and
forgets what it had not written.

Weak fairness is assumed of every user on a running server (`tick_clan` and the
character drivers are called every tick or every few) and of the database
thread. The game, crashes and restarts owe nothing.

## 4. FrameStream

What the server tells a client goes through four buffers. During a tick `psend`
collects it in `tbuf`; `pflush` makes a *frame* of it, a header of one or two
bytes and a body that is compressed unless it is short; `csend` copies the frame
into the ring `obuf` in at most a few pieces; `send_player` hands the socket what
lies in one piece of the ring; the client appends to `inbuf`, counts the ticks it
sees there (`poll_network`) and takes them out (`next_tick`).

| Variable | Code |
|---|---|
| `open` | the entry of `player[]` is in use |
| `tptr`, `obuf`, `iptr`, `optr` | the fields of `struct player` |
| `rest` | what `csend` has still to copy: its `buf`, `len` |
| `wire` | bytes the network carries |
| `linked`, `inbuf`, `ticksize` | the client's socket, `inbuf`/`inused`, `lastticksize` |
| `got`, `frames`, `at`, `stream` | history: frames taken and sent, where each starts, all bytes |

Bytes are numbers, and the base of the number system is a parameter: `Small`
stands for 64, so the two flags of a header are `Small` and `2 * Small`, and a
byte is below `4 * Small`. With `Small = 3` all the cases of the real header
occur in rings of 36 bytes: a short body whose header is the byte 255 (here 11),
which is also the start of a long tick; a body that just needs two header bytes;
the largest frame the ring takes; one too many; and one whose length needs more
than the 14 bits of the header. `ZipBodies` gives deflate any of the bodies the
instance names; what the code relies on, the first byte of compressed data not
being 255, is the named assumption `BodyAssumption`.

`Csend` copies one piece, `CsendOverflow` is its early return through
`exit_player`. `PsendOverflow`, `PflushFails`, `FindBroken` and `Kick` are the
other ways a connection ends on the server's side. `Connect` is the client
opening the connection again and `new_player` on the server.

The abstract module `FrameChannel` is a channel of frames: `Send`, `Take` in
order, `End`, `Renew`. `IsChannel` is the refinement.

Run `frames`: `StreamInv` (ring, network and `inbuf` hold the stream in order),
`HeaderFits`, `TicksCounted`, `IsChannel`, and with fairness `FrameArrives`. The
instance has two connections of two frames, `psend`s that leave room, just fill
or overflow `tbuf`, sockets that take one byte or all, and a network that breaks.
Weak fairness: the main loop calls `csend` to its end and sends again and again,
the client polls and decodes as long as it runs, the network delivers.
`CHECK_DEADLOCK FALSE` because the number of connections is bounded: when the
last one is gone nothing is left to do.

## 5. World

One thread, but loops over lists that the loop bodies change. `tick_timer` runs
through the sorted list of timers while callbacks set new ones; `tick_char` runs
through the used characters with the next one fetched beforehand, while the turn
of one kills, destroys, creates or moves others. So a timer that fires, a
character's turn and its driver's decision are a step each, and `pc` says where
the loop stands.

In between, what the code that runs does to any character is an action of its own
(`Suffer`): `Hurt` (`hurt` that kills, `kill_char` of a driver's own character),
`MoveChar` (`teleport_char_driver`, by drivers, items, timers and commands on others as
well as on their own character, and the saves of `hurt`, `death.c:744-790`, through it
or through `transfer_to_restarea`), `SwapChars` (`char_swap`), `DoorSwap` (the door of a
clan spawner, `base.c:1008`), `RemoveChar` (`exit_char`, `kick_char`,
`remove_destroy_char`, and a save with no place to go to). `MoveChar` and `DoorSwap` set
action, step and duration to 0 without a look at `CF_DEAD`, as the code does: a
character may be dead and idle, and then waits for its next turn like anybody else.
`Reached` is the one restriction: `tick_char` itself does such a thing only to the
player whose turn begins (`tile_special_check`). When code does several things in one
call, they are several steps without a turn in between; a character that dies or goes
before its own turn has done the rest has its own fate last in the model, which
commutes, as the rest is about others.

| Variable | Code |
|---|---|
| `used`, `free` | the lists from `uchar` and `fchar` through `next`/`prev` of `ch[]` |
| `kind`, `dead`, `serial` | what a character is (of a spot of the zone, player, spawned by a driver), `CF_DEAD`, `serial` |
| `action`, `left` | `action`, `duration - step` |
| `at`, `to` | `x, y` and `tox, toy` |
| `on`, `block` | `map[].ch`, `MF_TMOVEBLOCK` |
| `timers`, `fired` | the list `next_t` of `timer.c`, and how many of it this `tick_timer` has called |
| `cur`, `nxt` | the character whose driver runs; `next` of `tick_char` |
| `known` | `respawn[]` of the respawn checker |
| `waiting`, `upset` | history: who has not had its turn in this tick; a turn has freed the very entry fetched as the next one |

Ticks are counted backwards (`left` until due), so the clock needs no bound. A
serial number is compared together with its entry only; `NewSerial` takes one
that nobody holds for that entry, which is all that the comparison tells apart.
So the model needs no bound on the number of characters that come and go. The run
takes states that differ only in the numbers of entries for one (`VIEW Seen` of
`MCWorld`, which names entries by their place in the lists): no action and no
property depends on a number but through the lists. The durations are one tick (an
action, the next try of a respawn) or two (dying, a respawn), so that timers are set in
front of and behind others, and a character can respawn before the dead one is gone.

Run `world`: two spots, three entries of `ch[]` and three tiles, so that both
entries and tiles run out: a respawn may find its tile occupied, no free entry,
or a driver that refuses. `WorldInv` (the lists partition `ch[]`, map and
characters agree, exactly the tiles that are stood on or stepped to are blocked),
`Population` (each spot has its character, or one timer that brings it back),
`RespawnCheckOk` (what `respawn_check` looks for every now and then and logs is never
there: it knows the living character of each spot under its serial number, and nobody
while it is dead, although the dying one may be moved and stay, its entry be used
again and respawns fail), `OnTime` (no due timer is left behind by an insertion into the list
that is being run through) and `TurnsInv` (nobody is left out of a tick or has two
turns, unless the next entry itself was freed, which ends the loop).

## 6. TaskQueue

A *task* changes a character that may be anywhere: online here, online on
another server, being loaded or saved, or at rest in its row. Every server's
database thread goes through the table `task` now and then, with the tables
locked (`check_task`), and does those whose character it finds in memory
(under the server lock) or in a row that names no server.

| Variable | Code |
|---|---|
| `mem[s]` | the character in `ch[]`: not there, loaded by the database thread but not built yet (`login`), or in the game |
| `queue[s]` | the query list, shared with logins and saves |
| `step[s]`, `todo[s]`, `copy[s]` | where `check_task` is, the result of its select, the row it has read |
| `row`, `table`, `lock` | the row of `chars`, the table `task`, the table locks |
| `issued`, `trouble` | history: tasks that exist; what has failed so far, in order |

The data of a character is how often each task was done to it, so doing a task
twice shows. Ownership of rows is what CharSession proves; here the queries are
the same but the main thread is reduced to login, backup and logout. `Troubles`
are failing statements, broken connections (which give up the locks and repeat
the statement) and crashes, at most `MaxTrouble` of them in any order.

Run `tasks`: two servers, one task, two troubles, two logins. `TaskOnce` (done
once or waiting, as long as nothing fails), `TaskKept` (never lost before a crash
or a broken connection), `NoTaskUndone` (no save replaces a row by one that
lacks a task, crashes included), `TaskDone` (done in the end). Fairness is weak for
the main loop and strong for the database thread, because MySQL gives a lock to
those that wait for it in turn.

## 7. Chat

Each server keeps one connection to the chat server, the *hub*, which sends every
packet it receives to all connections. Without a connection a server hears only
itself. The stream of a connection is a sequence of *pieces*, `PacketLen` to a
packet; sockets take and give any number of pieces.

| Variable | Code |
|---|---|
| `state`, `cur`, `inbuf` | `chat.c`: 0, 1 or connected; the socket; `inbuf`/`ilen` |
| `hub`, `hin`, `hout` | `chatserver.c`: the entry of a connection, its `inbuf` and `obuf` |
| `owner`, `up`, `down`, `broken` | the connections and what the network carries either way |
| `log`, `from`, `heard`, `said` | history: the order of the hub, where a server tuned in, what it has heard, what was said |
| `torn` | history: half a packet was taken for the start of another |

Two steps of the code tear the stream: `send_chat` takes a send that was cut
short for a whole one (`SayPart`), and `connect_chat` keeps `ilen` of the old
connection (`Connect` with something in `inbuf`). From then on nothing is
promised, which `torn` says.

`ChatBus` is the abstract specification: one order of all messages; a listener
hears them in that order from where it tuned in. Run `chat`: `ChatInv` (buffers
and network hold exactly the packets not heard yet, cut anywhere; after a kick a
first part of them), `IsBus`, and with fairness `MessageHeard`. Two servers, two
messages, three connections one after the other, one trouble, a hub buffer of a
packet and a half, so that the hub kicks the slow. Weak fairness: `tick_chat` is
called in every tick, the hub goes round its loop. `CHECK_DEADLOCK FALSE`:
connections and messages are bounded, so the system may stop.

## 8. ClanRelations

What is in force between two clans stands in the entry of each; what a clan
*wants* stands in its own, with the date of the wish. `update_relations` visits
every ordered pair: equal wishes are granted at once, against the wish of one
the relation moves one step after a time of notice (an hour at neutral, a day
from treaty and alliance), and both entries are written.

`cur`, `want`, `age` are `status.current_relation`, `want_relation` and the age of
`want_date`; `named` the clans with a name, `raid` is `dungeon.doraid`, `since` a
history of how long a clan has wanted worse than `Border`. `Found` clears the
entry and what the others thought of the last clan of that number
(`zero_relation`), `Broke` only takes the name.

Run `clan_relations`: `ClanInv` (both entries agree), `Notice` (no relation gets
worse than the border without the consent of both or one side having insisted for
the time of notice, whatever changes of mind, of raiding or of owner of the number
come in between), `WishGranted` (liveness: lasting consent, or a lasting wish for war, is granted).
Ages are cut off above a day; the border of the run is neutral, the proof covers
all three. Weak fairness of `update_relations` (`tick_clan` returns to it after
each save) and of the clock.

## 9. ClanRoll

A character carries the number of its clan and the *serial* that clan had. A
clan that goes broke counts its serial up, and its number is given to the next
clan. Whoever is looked at is compared with the clan table of the server it is on
(`get_char_clan`). That copy may be empty, old or lost in a crash; what the keeper
founds or deletes may not have been written, or been written without the keeper
learning of it.

`table`, `saved` are the clan table of each server and of the database; `ready`,
`known`, `state`, `changed` are `update_done`, "has a version", `update_state`,
`clan_changed`; `member`, `row`, `fnd`, `place`, `invite` the characters, their rows,
`DRD_CLANFOUND`, where they are, the clan master's invitation. `era` numbers the
foundings and is history. How a table is stored is Storage; a read or a write is
one step here, which the refinement of Storage justifies.

Run `clan_roll`: two numbers, three foundings, a character that moves between the
keeper and another server. `OldMembers`: no member of an earlier clan of a number
counts as a member of a later one on a server that has read the table, if the
earlier one was ever saved. `RollInv` is its inductive strengthening, see below.
Three foundings and two serial numbers let a number be given up and used again
twice while the other stays.

## 10. Proofs

No theorem assumes a bound: servers, characters, users, blobs, versions, changes,
clans and times are arbitrary, subject to the named assumptions of the modules.

### CharSession_proofs

* `TypeCorrect`: `Spec => []TypeOK`. The sets `Queries`, `Copies` and `Logins`
  carry the facts later steps need (a queued save names a character; an answer
  `ok` names an entry), which makes `TypeOK` inductive by itself.
* `Ownership`: `Spec => []OwnershipInv`, and from it `Owner` (`SingleOwner`) and
  `RowOwner` (`RowNamesOwner`).

`SingleOwner` is not inductive: two memories could come to hold a character
because a query that frees the row is still queued. `OwnershipInv` says why that
does not happen. At each server, if the character is in memory its row names the server
and nothing queued will free the row; everything still to be written comes
before the query that frees the row (`SavesFirst`); while a login waits in the
queue neither a second login nor a release comes behind it (`LoadLast`); and a
login that is about to build a character holds the row, with no copy and no
queued write left. The proof has one step per action. Steps of one server leave
the conjuncts of the others alone except through the row (`OtherServers`), and
the steps that change the row (`DbLoadHere`, a logout, a release, a rescue, a restart)
use that the row names at most one server.

The second half of the module is about the data of characters:

* `OwnAnswer`: `Spec => []AnswerIsOwn`; `AccountOnce`: `Spec => []OneCharPerAccount`.
* `Fresh`: `Spec => []MemoryIsFresh`, and `NoneLost`: `Spec => NoLostUpdate`, both
  under the hypothesis `ItemsCanRunOut = FALSE` (with it the half-built character
  of `database.c:1779` is played and saved).

`AccountOnce` is the easy one of these: the rows of two characters of an account
never both name a server (`RowOnce`), because only a login makes a row name one, under
the lock under which it looked at the others; `RowNamesOwner` carries that to the
memories. For the last two `FreshInv` orders all copies of a character's
data by age: row, then the queued saves in the order of the queue, then the
memory; and a login about to build the character has read what the row still
holds. Ownership makes it inductive: a character that is not at a server has
nothing there that could be stale (`Absent`). Each action is first reduced to what it does
to entries, structure and queue (`Entries`, `Struct`, `QueueStep`); `FreshHere` and
`FreshThere` then cover all of them at once but building a character
(`FreshCreate`) and writing a row (`FreshSave`).

### Storage_proofs

* `Invariant`: `StorageSpec => []StorageInv`, and from it `StorageTypes`,
  `Answers` (`AnswerToAsker`) and `Snapshot` (`ClanSnapshot`).
* `NoWriteLost`: `StorageSpec => NoLostWrite`.
* `Register`: `StorageSpec => IsRegister`, the refinement.

`NoLostWrite` needs that a user whose version fits has seen the content it
replaces. That is `ClanSnapshot`, which is not inductive: version and content
come out of a structure some steps after the database thread put them there, and
a write adds to the version before the writer knows. `SlotsKnow` therefore says
the same of what is under way: a read that found something found a version no
newer than the table's, with the table's content if it is as new; a write that
was done has left the table with a version above the writer's, and if it is just one
above, with no more than the writer has. The versions only grow
(`NextVersion`): when the table moves on, everything known of the version it had
stays true and says nothing of the new one, so that only the user at work needs
a look. `SlotsAgree` and `QueueAgrees` tie structures, steps of users and the
queue together; that a user waits in one structure only (`OnlyOneSlot`) makes
the steps of one user harmless for the others.

For the refinement, the same agreement shows that the structures hold at most
one call per user (`OneHeld`, `NoneHeld`, `SameHeld`), and each action is then
matched with the action of the register it implements (`AskIsCall`,
`DbCreateIsCreate`, `DbUpdateIsUpdate`, `DbReadIsRead`, `AnswerIsTake`,
`CrashIsAbandon`) or leaves table and structures alone.

Three more theorems are about the users of the storage:

* `WriterNeverForgets`: `StorageSpec => WriterKeeps`, for any number of mirrors. What
  could make a writer forget is an answer to a read that is older than its memory, or a
  failure after which it reads again: `CalmWriters` says that in calm times a writer
  reads only while it knows no version, and no update has failed.
* `KeeperKnows`: `StorageSpec => []KeeperInStep`, assuming `OwnBlobs`: no two keepers
  have the same blob. The zone files give every such character a number of its own (`storage=`
  in `zones/3` and `zones/29`; the top list of the arena has 49), so this holds where an area
  is not mirrored; the keepers of two mirrors do share blobs, and nothing is said of them. The strengthening `VersionKnown` follows a keeper through its requests: before
  the database thread has done an update the table has the keeper's version, after it the
  next one, which is what the keeper counts up to without being told.
* `CountsOnce`: `StorageSpec => []CountedOnce`, assuming `OneWriter`: one server of
  area 3, with any crashes and failing statements. `OnceInv` extends the limit to the answers
  to reads nobody has taken yet, and says of a change that is still *pending* (has not
  happened, or is in a chat message for the writer) that it counts nowhere; when it happens
  it is pending no more (`OnceHappens`), and everything else only copies (`OnceCopied`). With
  two mirrors the invariant is false, because each of them applies the message.

### ClanRelations_proofs

* `TypeCorrect`, and `Agreement`: `Spec => []ClanInv`, both entries of a pair agree.
  `update_relations` visits a pair twice, and the second visit starts from what
  the first one wrote.
* `NoticeGiven`: `Spec => Notice`, for any border from alliance to neutral and any
  hour and day. The date the code compares is that of the *last change* of the
  wish, the notice is about the time the wish has been *bad*: the strengthening
  `Timely` says that a wish beyond the border has at least the age of its date,
  `age <= since`, through changes of mind, founding, and the clock. A visit that
  goes beyond the border must then come from consent or from a date that old.

### ClanRoll_proofs

* `Membership`: `Spec => []RollInv`.

`OldMembers` compares a member with the table of one server, and says nothing of
why the two can be compared. The strengthening speaks of *claims*: a character, a
row, a table a server has read, or the saved table says that founding `e` has number `n`
and serial `k`. `Unique`: two foundings that are saved, or may still be saved,
never made the same claim. A founding makes a new claim, with the serial the
keeper knows; `Fits` (for the keeper's table and for the saved one) says that
claims of the clan that had the number last lie below that serial, `Grounded` and
`Ahead` that for any clan ever saved the saved table has passed its claims and the
keeper is not behind the saved table. `Sources` is where the keeper's own failed
start comes in: what it founds before it has read the table is never written.
Each action is first reduced to what it does to claims (`Founded`, `Deleted`,
`Joined`, `ReadBy`, `Crashed`, `Quiet`), and `CoreKept` covers all that make no new
claim about a saved clan.

### TaskQueue_proofs

* `TypeCorrect`: `Spec => []TypeOK`, in particular `check_task` never works on a
  row its result does not have.
* `NothingUndone`: `Spec => NoTaskUndone`.
* `TasksKept`: `Spec => []TaskKept`; `TasksOnce`: `Spec => []TaskOnce`.

That no save is older than the row it replaces needs to know where every older
copy can be. `Steady` says so, for as long as no connection has broken: a
character in memory is at least as new as every save queued for it, and as its row, which
names the server; saves in a queue get newer and newer, no save follows the end of a
stay and no query of the character follows a load (`OrderedQueue`); a row that
somebody still has to save names that server; and who is anywhere in `check_task` has the
lock, so that what it read of a row without owner is still there when it
writes. Of the last part a broken connection leaves nothing, and `TLC` shows that
then a task is undone. A step is shown to keep all of that for its own server,
and to reach the others only through a row that is theirs in none of the cases (`StepOK`,
`OthersStay`).

`TaskKept` and `TaskOnce` count the effects of a task, and one invariant, `TaskInv`, gives
both. As long as no server has crashed and no connection has broken a task that was added is
in exactly one queue at one place (`Queued`), or waits in the table, or has been done to
the copy of the character that counts (`Count`); and without failing statements exactly
one of the last two holds. Which copy counts (`Current`) is what makes this hard: it moves from the row into
memory, into a queued logout, and back. `Stay` makes the moves harmless: a character that is
being loaded is as in its row with nothing of it queued at that server, and one that has left
memory with saves queued has its logout queued too. `Listed` says what `check_task` may rely on of the rest
of its result: every task in it is still in the table, and in the result once. A task that has been
done and not deleted yet (`Deletes`) waits no more, so that its effect and its row are not
counted twice between the two statements.

### FrameStream_proofs

* `FramesDelivered`: `Spec => IsChannel`, the refinement of section 4.
* `LengthFits`: `Spec => []HeaderFits`.
* `BytesInOrder`: `Spec => []` of the parts of `StreamInv` that are not about types or counts.
* `TicksAreCounted`: `Spec => []TicksCounted`; `Streams`: `Spec => []StreamInv`, the whole.

They hold for any size of the ring buffer up to what two bytes can announce, any `Small`
and `MinZip` that leave room between them, any bodies and any pieces. That
each buffer holds its part of the stream says nothing about the next step as long as it is
not known where the parts lie: `Places` orders them, `Ascending` and `FramesInv` lay the
frames end to end, `AtFrame` says that the client stands between two frames.
`HeaderRead` is the lemma about headers: what `TickAt` makes of the first bytes of
a frame, however few have come, is nothing or its header, although a small
compressed frame of 63 bytes starts with the byte that announces a big one. It needs
bodies below 16384 bytes, and `pflush` makes longer ones; `InRing` and `Fits` show that
`csend` runs out of room before anything of such a frame is sent, because nothing is
sent while it copies. A step of `Connect` finds the ring buffer empty
(`Places`, last conjunct), whatever `iptr` is.

`TicksCounted` is about `Counted`, the loop of `poll_network` that goes from header
to header and is a recursive function here. Which ticks it finds is shown by
induction on the frames that are left: `Induction` gets that, for one set of
numbers, from the well-foundedness of `<` (`WFMin`), without a library
theorem that takes an operator. The loop started at the end of any frame whose beginning lies in `inbuf`
gets to the end of the last header in it (`CountsOn`, `UpTo`), so that counting on from
`lastticksize`, as the code does, finds what counting from the start would; taking a
tick shifts everything by its length.

### World_proofs

For any number of entries of `ch[]`, any tiles, any finite set of spots on different
tiles that fit into `ch[]`, and any positive durations:

* `WorldInOrder`: `Spec => []WorldInv`;
* `SpotsPopulated`: `Spec => []Population`;
* `SpotsKnown`: `Spec => []RespawnCheckOk`;
* `TurnsTaken`: `Spec => []TurnsInv`;
* `TimersOnTime`: `Spec => OnTime`.

All follow from one invariant, `IInv`. `Walking` and `Loop` are what the map needs:
between the end of a walk and the reset of the action a character is said to walk
and goes nowhere, and the driver is asked only for a character that goes nowhere,
dead or alive, so what it decides blocks and frees the right tiles. `Dying` (who dies
was killed) is the only thing left of "the killed die": the converse is false, as the
dying may be moved. It is what `Population` and `RespawnCheckOk` need of `die_char`: who
is freed there is not the living one of a spot. `TimersInv` (the list is in
order, those called are due) makes a timer with a positive delay land behind those
that were called (`SetLater`), where `tick_timer` will find it: `EachSpot` says
`Population` without counting, and `PutReturns` carries it over an insertion.
`TurnsInv` needs `Apart`, that the character whose driver runs is not the one fetched as
the next; `AllocPlaces` and `FreePlaces` show that whoever comes goes to the front and
whoever goes leaves the others in their order, so that the rest of the list from
`nxt` on stays who has not had a turn. The assumption that matters is that delays are
positive: a timer set for now while timers are called would be put among those
already called and be lost; the comment above `set_timer` asks its callers to see to
it, and nothing in `timer.c` guards against it.

### Chat_proofs

For any servers and messages, any length of a packet above one piece, any buffer of the hub, and
any number of connections and of troubles:

* `OnTheWayInOrder`: `Spec => []ChatInv`;
* `OneOrder`: `Spec => IsBus`, the refinement of `ChatBus`.

`ChatInv` says nothing of the other direction, from servers to the hub, and there it is not
inductive: a message that is cut in two in `hin` and `up` must come out as itself. `Carries`
says that for each connection that lives there is a sequence of messages whose packets are what
`hin` and `up` hold together; those messages have been said, are all different, and are not in the
log. The hub cuts that sequence at a packet (`CutAnywhere`), wherever the socket has cut the
stream. `Hearing` is `OnTheWay` with the missing rest named: behind `inbuf` and `down` comes some
`z` so that all is the packets not heard yet, and `z` is the hub's buffer as long as the hub
still sends; a kick or a break forgets `z`, a step of `tick_chat` takes the first packet
(`FirstPacket`), a new connection starts with nothing. All of it holds only while no
stream is torn, and `torn` stays (`StaysTorn`). `Packets` gives the pieces of a sequence of
messages by position, so that lemmas about division take the place of an induction over
messages (`OneDivision`, `PacketsConcat`, `MessagesBack`).

### Only model-checked

The liveness properties: `LoginAnswered`, `LostconLeaves` and `QuitTerminates` of CharSession,
`RequestAnswered` and `ReaderCatchesUp` of Storage, `FrameArrives` of FrameStream, `TaskDone` of
TaskQueue, `MessageHeard` of Chat, `WishGranted` of ClanRelations. They rest on fairness and
`ENABLED`, which the prover does not handle. Every other property of a passing run is a theorem, with the hypotheses
named above: `MemoryIsFresh` and `NoLostUpdate` if `alloc_item` does not fail,
`CountedOnce` with one server of area 3, `KeeperInStep` with a blob for each keeper. The bounds
of the models (`MaxVer`, `MaxConns`, `MaxTrouble`, `MaxQueue` and so on) stay in the actions as
guards, but the theorems hold for every value of them.

## 11. Where the code surprises

One disagreement with a comment has a run that finds the counterexample:

* `rescue`: the head of `database.c` wants every save of character data guarded
  by `where current_area=areaID`. `db_rescue_char` is not. A server whose area
  list is out of date can rescue a character from a server that plays it.

The following were seen while modelling. Where the model reaches them, the
properties are stated so that they hold all the same, and say so.

*Sessions.* Undoing a stale login (`database.c:1457`) destroys whatever uses the
entry by then, an NPC for example. When `alloc_char` fails (`database.c:1753`) the
row stays marked as online and trying again does not help. The race
`read_login` calls avoided ("shouldnt happen anymore!", `player.c:245`) is
reachable. A login nobody collects is undone only when somebody else logs in.
`update_arealist` logs a mirror out of range and writes the entry nevertheless
(`database.c:2442`); the update of `charinfo` at a logout has no `where current_area`
(`database.c:396`).

*Storage.* A keeper takes an update that fits no row for a success and counts
its version up (`arena.c:623`, `arena.c:823`, `military.c:783`, `military.c:1070`); with two
mirrors its next write replaces the other's.

*Input from clients.* `read_login` removes 20 of the 72 bytes of a login, and
the rest is taken for commands in the next tick and thrown away; a text of the
largest length needs 257 bytes of a buffer of 256, so the server stops hearing
that client until it is kicked for idling; after a handler that got the player
kicked `remove_input` works on an entry that has been freed.

*Game loop.* `do_idle` does not look at `CF_DEAD`, and moving a character that is
dying resets its action (`drvlib.c:2162`, `base.c:1016`) while the flag stays: it does not
die any more, its driver is asked again, and nothing in the code ends that state. The
model does this (`MoveChar`, `DoorSwap`), and no property of World says otherwise;
`act.c:1003` compares an action with a constant of effects; `respawn_callback`
says one second and waits ten; a timer set from a callback and due at once would
be lost (none is).

*Tasks.* `check_task` returns with the tables locked when its select fails; a
broken connection gives up the locks and may insert a task twice; a crash before
the next save loses a task done in memory; toggling a flag (`task.c:170`) undoes
itself when done twice; the tasks about clans do not check the clan's serial
number; `punish_player` and `unpunish_player` are void functions called through a
pointer to one that returns int.

*Chat.* Besides the two steps that tear the stream (section 7): `recv` returning
0 or -1 goes unnoticed by a server, and what it says until a `send` fails is lost.
A torn length above the size of the buffer makes the server deaf for good.

*Clans.* One pass of `update_relations` may take two steps (alliance, treaty,
neutral), because the date of the wish is not renewed in between and each pair is
visited twice; `clan.h` can be read either way. A first read that fails, or a
stale copy, erases memberships although `clan.c:199` says "dont erase clans because
the serial numbers havent been read yet". A founding lost in a crash leaves its
founder a member of the next clan of that number, and an invitation that is
accepted after the clan was deleted makes a member of the number, not of a clan:
the two exceptions of `OldMembers`. `kill_clan` does not set `clan_changed`. Raiding
switched off calms only the wish of the clan with the lower number.
`clan_dungeon_chat` uses the number in a message as an index unchecked.

## 12. Not modelled

In CharSession: the single-threaded option `multi = 0`; failing SQL statements
(the code logs them and goes on); the table `charinfo`, which mirrors part of
`chars` for outside tools; passwords, payment and bans beyond "the login is
refused"; deletion and renaming of characters.

In Storage: a save of the arena that becomes due while the previous one is under
way (`arena.c:468`, `arena.c:728` put the state to 5 whatever it was; it takes a
write of many minutes); a keeper that is removed while its blob is in use; the
sizes of blobs.

In World: the actions that only change items, effects and numbers of a
character; bodies and graves; timers other than those of respawns (what their
callbacks do to characters is in `Suffer`). In Chat: what
`rec_chat` does with each channel, the delay between two tries, the full table of
the hub. In the clan modules: amounts (jewels, debts, money, bonuses, training),
ranks, clan dungeons. In TaskQueue: what the single kinds of tasks change.

The rest of the inventory: the other database queries are single statements that
share the queue modelled here and keep little state; input of the client is a
sequential parser; items, containers, depots and money are a component of its own
that would come next (an item is on the map, carried or in a container, and there
once); light, sight and path finding are numeric computations on large arrays;
skills, generators and area drivers are long sequential scripts over one
character, the larger part of the repository by lines; memory management, logs and
statistics keep no protocol. `astonia_community_server3/` holds a second copy of
the server; of it only the client's network code is modelled, since the server's
own repository has none.
