# Specifications of the Electrum lightning hub and the programs beside it

This directory holds TLA+ modules, TLC configurations and TLAPS proofs about the
programs of this repository:

* the hub that lets an lnd without keys use an Electrum wallet
  (`electrum-lightning-hub/`);
* the older experiment in which lnd has its inputs signed over a websocket
  (`electrum-lnd/`, `electrum.patch`);
* the two programs in C and C++ that the build of bitcoin-core uses
  (`bitcoin-core/`): `patchelf` 0.9, which edits the interpreter, the search path
  and the libraries of an ELF file, and `sltar`, which packs and unpacks archives.

To repeat a run or the proofs of a module:

    tlc -config MCRepeater_general.cfg MCRepeater
    tlapm Repeater_proofs.tla

`PROJECT.json` lists the components, runs, mutants, hazards, findings and
theorems, and maps every definition to the source lines it models.

## 1. Inventory

### 1.1 The hub (`electrum-lightning-hub/`)

One Python process, one asyncio event loop, one *chain* per wallet:

    lnd --gRPC over HTTP/2--> H2Protocol --writeQueue--> SOCKS handler --TCP--> Electrum
    lnd <--------------------  done2    <--readQueue---  SOCKS handler <------- Electrum
    lnd --invoice updates--> receiveStreamingUpdates --writeQueue--^

| component | state | operations | what makes it correct |
|---|---|---|---|
| `H2Protocol` (repeater_and_rpc.py 44-193) | `serialNumber`, `stream_data`, one `H2Connection` | `request_received`, `receive_data`, `stream_complete`, `done2` | every call answered, once, with its own reply |
| `Queues` (260-264) | `readQueue`, `writeQueue`, `killQueue` | put, get | nothing lost, nothing copied |
| SOCKS handler (socksserver.py 7-59) | `req`, `data`, the two stream ends | take, write, read until it parses, put back | a request survives any connection that fails |
| `receiveStreamingUpdates` (284-301) | none between subscriptions | put an update on `writeQueue`, resubscribe after 5 s | updates reach the wallet, once |
| `RealPortsSupplier`, `make_chain`, `get_lnd_server` (239-280, 303-389) | `keysToOffset`, `KEY_TO_PORT`, `assoc`, `PEERPORTS_TO_PUBKEYS`, files of lnd | `get` of a wallet key, start of lnd, peering | one chain, one lnd and one set of ports per wallet |
| persistence in `main` (397-431) | file `key_to_port` | load at start, save on interrupt | a wallet gets its number back |
| `queueMonitor` (socksserver.py 61-90) | a reverse connection | moves items between the port and the queues | drains `killQueue` |
| servers table (195-204) | `servers[port]` | one `H2Protocol` per port | lnd can reconnect |
| `lncli_endpoint` | a child process per request | call `get`, run lncli, return its output | every request answered |

Everything is cooperative: a task runs until it awaits something that is not
ready. The hard part is what happens between two awaits of one task: connections
close, the read timeout races the reply, other handlers and calls use the same
queues, asyncio queues wake a getter without reserving the item for it, and a
second `get` of a key finds what the first has half done.

### 1.2 The remote signer (`electrum-lnd/`, `electrum.patch`)

    SignOutputRaw, ComputeInputScript <--rx--> writePump --websocket--> on_message
                                      <--rx--> readPump  <--websocket-- (answer)

`LightningProxy` has a flag `connected`, the root key and **one unbuffered
channel** `rx` on which callers send requests and wait for answers, `writePump`
receives requests and `readPump` sends answers. HTTP handlers run in goroutines of
their own. `on_message` in the wallet takes the first frame for the key and asserts
on everything it does not implement, in this repository both methods. What has to
hold: an answer gets to the call it belongs to, one signer at a time, the key
before any request, lnd exits only for a reason.

### 1.3 The programs of the build (`bitcoin-core/`)

| component | state | operations | what makes it correct |
|---|---|---|---|
| patchelf (`patchelf.cc`, `elf.h`) | the file in memory, its headers, `replacedSections`, `changed` | eleven edits and prints in a fixed order, laying the file out again, writing it | the loader sees what the options say and nothing else; the file can be loaded and patched again |
| sltar (`sltar.c`) | a position in the archive, the file being copied, the file system | `c`, `x`, `t` | extraction gives every name its last entry, and files come back as they were |

Both are sequential. What is hard to test is the data: a section that grows into
its neighbour, offsets and addresses that must agree in the page, a second run on
what the first has left; an entry that cannot be created but must be read, a size
at the end of a block, an archive that ends too early.

### 1.4 The rest

The sign descriptor codec, Electrum's script signing, the shachain code of
`ComputeInputScript_test.go`, scripts, Docker files, patches of other programs and
configurations: see section 5.

The hazards of all components, with the line where each bites and the property
that watches it, are in `PROJECT.json`.

## 2. Modules

| module | what it is |
|---|---|
| `ReverseRpc` | what both bridges promise: a call is answered once, by its own reply, eventually |
| `Repeater` | one wallet's chain: calls, queues, SOCKS handlers, connections, invoice updates |
| `PortDirectory` | what the hub promises about numbers: the lowest free one, kept for ever |
| `PortsSupplier` | `get`, `make_chain`, lnd's start-up, peering, `key_to_port`, interrupts and crashes |
| `LightningProxy` | callers, channel, pumps, HTTP handlers, remote signer |
| `Elf` | cells, structures and strings of an object file; what the dynamic loader sees of it |
| `ElfFile` | class `ElfFile`: reading, replacing sections, laying the file out again |
| `ElfDynamic` | the methods that edit the dynamic section |
| `ElfEdits` | what patchelf promises: the loader's view changes as the options say |
| `PatchElf` | `main` and `patchElf2`: runs of the program, one after the other, on one file |
| `Sltar` | the three commands of sltar, block by block |
| `MCRepeater`, `MCPortsSupplier`, `MCLightningProxy`, `MCPatchElf`, `MCSltar` | constants for TLC |
| `Repeater_proofs`, `PortsSupplier_proofs`, `LightningProxy_proofs`, `SignerMessages_proofs`, `Sltar_proofs` | theorems |
| `PatchElf_proofs`, then `PatchElfEdits_proofs`, then `PatchElfLayout_proofs` | theorems about patchelf: types and folds; what each edit makes of the dynamic section and its strings; laying the file out, and whole runs |

Definitions whose comment begins with *Fault* are the mutants of `PROJECT.json`:
a plausible bug in the definition below them, used to show that the property named
there is able to fail.

### 2.1 `Repeater`

* A call is a number (`serialNumber`), a request or an update a record with its
  kind, a reply the call it answers. JSON, protobuf and gRPC framing are left out,
  but for two of their effects: a reply arrives in `Frags` pieces of which a read
  returns any prefix, and only exactly one whole reply parses; a reply parsed into
  the response of another method gives the empty response (`Parse`). In the code a
  foreign reply whose field names happen to fit gives a wrong response, not the
  empty one; both differ from the call's own reply.
* `getters` and `ready` are the two places of a `readQueue.get()` in asyncio:
  blocked, or scheduled on the event loop. `put` moves the oldest getter from one
  to the other and reserves nothing for it; a `get()` scheduled before it takes the
  item. This is `asyncio.Queue` as it is, and it matters (see 3).
* `StreamComplete` merges the hops of the event loop between `stream_complete` and
  the `get()` (put, `done`, `get`): nothing else looks at what they change, and a
  reply put during them is an interleaving of the model too.
* `handler[h]` is the handler's place: `"get"` (before `toWrite.get()`), `"read"`
  (in the `while`), `"returned"`, `"crashed"`. `PutBack` stands for lines 54-58
  including the return to the top of the loop.
* `peer[h]` is what the hub's kernel knows: `"open"`, `"eof"` (the wallet closed;
  writes still succeed and their bytes are lost), `"gone"` (the write was refused;
  the next drain raises), `"reset"` (the network broke it; reads raise).
* Environment: Electrum answers every request it reads, in order and with a result
  (an error reply would give the empty response), and opens, closes and reads
  connections; the network may reset them. These actions are external.
* Bounds: `MaxCalls`, `MaxOutstanding`, `MaxTimeouts`, `Invoices`, `Conns`, `Frags`.

### 2.2 `PortsSupplier`

* All ports of a chain follow from one number, `chosenPort`; the tables hold
  numbers, and `ChainPorts` has the ports they stand for.
* `get` awaits nothing until `tls.cert` is missing, so `Get` is one action up to
  there: it chooses the number, registers it in `KEY_TO_PORT`, runs `make_chain`
  with its two assertions (the queues are registered between them, `MakeChain`),
  starts the tasks and notes the known lnds. `Wake` is the rest of `get`, when the
  file has appeared. A `get` of a registered key returns at once (`OldChain`), be
  lnd up or not.
* Clients are connections of wallets (`Socks`) and requests to `lncli_endpoint`,
  which the web server cancels when the client goes away while `get` sleeps.
* `Interrupt` and `Save` are the two steps of `open(..., "w")` and `write`; `Crash`
  may come between them, and then `key_to_port` is empty and no start on testnet
  gets past `json.loads` (`hub = "broken"`). The lnds are children of the hub and
  end with it; their directories, and so the two files, stay.
* lnd is external: it makes `tls.cert`, `admin.macaroon`, then serves `lncli`.
* `Cut` stands for every key that a read has cut short; it is a key like others,
  which no wallet has.
* Bounds: `MaxStarts`, `MaxAttempts` (10 in the code), `Clients`, `Keys`.

### 2.3 `LightningProxy`

* Goroutines are records of a role and an owner; `at[g]` is where one is, `got[g]`
  the message it took from `rx`. `Send` and `Receive` are Go's unbuffered channel,
  with its two queues of waiters: the second to arrive serves the oldest waiter.
  The order of waiters is kept because the pairings that go wrong depend on it.
* `Decodes`: `ComputeInputScript` can tell an answer to `ComputeInputScript` from
  anything else, since the two leading bytes of a request or of a signature announce
  more witness items than there are bytes; it cannot tell whose answer it is.
  `SignOutputRaw` returns any bytes.
* `Connect` is a request of a signer, which ends lnd or starts a handler, `Handle` the
  rest of the handler. A signer in `Steady` surely connects, the others may.
* Reading and setting `connected` are two actions. `log.Fatal` sets `status`, and
  no action is enabled afterwards.
* `Implemented` is the set of methods the signer answers. In the repository it is
  empty: every call waits for ever. The runs about answers use both methods, as the
  `TODO`s intend, so that what is shown does not hang on the missing code.

### 2.4 `Elf`, `ElfFile`, `ElfDynamic`, `ElfEdits`, `PatchElf`

* A file is a sequence of *cells*. A character takes one, a structure (header,
  program header, section header, dynamic entry, symbol) `Word` of them. A copy
  that is too long or goes to the wrong offset destroys what it destroys in the
  real file, although a file has a hundred cells and not a million bytes. The name
  of a section is in its header and not in `.shstrtab`; patchelf never changes names.
* The methods of class `ElfFile` are operators from an object to an object. The
  object has the file's contents, the headers, `replacedSections` (`rep`) and `err`,
  which tells an `error()` from an assertion that fails and from undefined
  behaviour. `rewriteSections` is the largest: the executable's way (pages in front,
  the first sections moved there) and the library's way (a new segment at the end).
* `ties`: `std::sort` may leave sections of equal offset in either order; `Rewrite`
  chooses.
* Files of the other byte order: `Foreign`, `Raw` and `Swapped` are at the places
  where the code forgets `rdi()` or `wri()`.
* `PatchElf` has one action per option, per part of `patchElf2`, and for reading,
  laying out, writing and a write that fails after the truncation. `LoaderView`
  follows segments and the dynamic entries, never sections, as the loader does;
  the edits go by sections. That the two agree afterwards is what the properties
  are about. `seen` is the view of the file on disk, an auxiliary variable that saves
  its evaluation in every state; `Evaluated` in `Elf` has TLC compute a sequence once.
* Bounds: `MaxRuns`, `Cases` (a file, the options tried on it, how many at a time).

### 2.5 `Sltar`

* An archive is a sequence of blocks of 512 bytes: headers, data known by an id, and
  zero blocks. A name leads to a node by number, so that hard links are two names of
  one node; unlinking a name leaves the node to the others.
* `sltar c` is `MainC`, `C`, `CFile`, `CData` with the walk of a directory; `x` and
  `t` are `MainXT`, `TarHeader`, `XLink`, `XReg`, `XOther`, `T`, `Copy`. `Fread` keeps
  the old block at the end of the input, as the unchecked `fread` does.
* `Strtol` is the conversion of the size field: digits up to a NUL, and beyond the
  field if there is none.
* Of a mode `writable` says whether files can be made in the directory; the user is
  not a superuser. `Nameless` are the files whose owner or group `getpwuid` or `getgrgid`
  does not know: `c_file` crashes on them (`CFileCrashes`).

## 3. Runs

| run | bounds | shows |
|---|---|---|
| `bridge_general` | 2 calls at once, 2 connections (1 may close or be reset), 1 racing timeout, replies in 2 pieces, 1 invoice | `TypeOK`, `SingleCopy`, `OneTicket`, `Balanced`, `ResponseFinal`, `Answered` |
| `bridge_sequential` | 3 calls, one at a time, 2 connections (1 may close), no racing timeout | `OwnReply` and the refinement of `ReverseRpc`, liveness included |
| `bridge_late_reply` | 2 calls, one at a time, 1 racing timeout | **violates** `OwnReply` |
| `ports_general` | 3 clients of 2 wallets, 0, 2 or 8 wallets in the file, 2 starts in either mode, crashes, 2 attempts | `TypeOK`, `WalletsIsolated`, `PortsDistinct`, `RefusedOnlyIfFull`, `OneStream`, `PeersOnce`, `Supplies` |
| `ports_restart` | 2 clients, cut keys, 3 starts on testnet, interrupts only | the refinement of `PortDirectory` |
| `signer_general` | 3 calls of 2 callers, 2 signers, failures | `TypeOK`, `OneMessagePerCall` |
| `signer_sole_caller` | 3 calls of 1 caller, no failures, one signer that surely connects and one that may | `GreetedFirst`, `RequestTaken`, safety refinement of `ReverseRpc` |
| `signer_lost_answer` | 1 call | **violates** `Returns` |
| `patchelf_general` | 2 runs of patchelf, 11 kinds of files, pages of 8 cells, structures of 2, failing writes | `TypeOK`, `Loadable`, `HeadersInMemory`, `NothingOverlaps`, `NoAssertFails`, `PrintedIsSeen`, `ReferencesKept`, `StaysWellFormed` (a file as a linker makes it stays one, so that the next run may start from it), `IdleRunKeepsFile`, the refinement of `ElfEdits` (`Implements`) |
| `patchelf_force_rpath` | 1 run on a library with both tags | **violates** `PathIsSet` |
| `sltar_general` | archives of 1 to 3 of 11 entries with and without an end, cut off ones, 11 argument lists of `c` and the archives they make | `TypeOK`, `Aligned`, `Extracted`, `ListedAll`, `RoundTrip`, `OthersKept`, `Ends` |
| `sltar_directory` | the same with directories of today | **violates** `RoundTrip` |

**Why the bounds are enough.**

* Bridge: two calls are needed for one to get the other's reply and three for a
  shifted reply to come back to the method of the first; two connections for two
  handlers to compete and for one to take over from the other; two pieces for a read
  that does not parse, and for two replies in one read; one racing timeout for a
  surplus reply. Timeouts on a silent connection, when neither a request nor a reply
  is under way, are not bounded: there the timer is the only thing left to happen,
  and without it two replies read together would block the model where the program
  goes on.
* Ports: eight earlier wallets leave one number below the limit of nine, so that the
  second new wallet meets the assertion and the tenth chain's ports would collide;
  two clients of one wallet are needed for a `get` to find a half finished one;
  two starts for a crash to lose numbers, three for a number to survive two
  interrupts.
* Patchelf: a page has room for four structures, so that sections that grow and
  tables that move cross pages; edits that fit in place are there too. Two runs, since the first
  moves sections to where the second finds them. The kinds are a program, one with
  its section headers first, one with wide alignment, a library, one of the other
  byte order, a position independent program with a large `.bss`, libraries with both
  search path tags and one string or two, a program for printing, a truncated file
  and an object file.
* sltar: sizes 0, 1, 512 and 513 decide how many blocks follow; three entries for a
  link to a file that a third entry replaces.

**Deadlock** is not checked: all calls answered, the hub stopped for the last time
or a program that has ended is where a finite run ends, and in `LightningProxy` the
process may exit.

**Fairness.** `Repeater`: the event loop runs ready tasks (`Respond`, `Block`,
`Handler`) and expired timers on a silent connection (`asyncio.wait_for`); Electrum
reads and answers while its connection is open; a connection in `Steady` is opened
and not closed; the refusal of a write to a closed connection arrives. No fairness
on calls, invoices, closes, resets or the timeouts that race a reply.
`PortsSupplier`: tasks that sleep are woken (`Wake`) and a running lnd makes its
files and serves; none on clients, peering, starts or stops.
`LightningProxy`: goroutines are scheduled, and a signer in `Steady` connects and reads;
`signer_sole_caller` has one of them. Nothing makes another signer connect: where none
does the process goes on, and `RequestTaken` is about the one signer; where one does it
may end lnd ("already connected") or race past the check. None on calls, failures or
`SetWallet`.
`Sltar`: the program goes on by itself (`WF_vars(Next)`); every step is one of a
sequential program and needs nobody else. `PatchElf` states none and claims no
liveness.

### What the violations say

* **Replies are matched by order, not by id.** `done2` never looks at the id which
  the wallet echoes. Two ways lead to a wrong answer: a timeout that races the reply
  leaves a surplus reply that shifts all later ones, even if lnd makes one call at a
  time; with two calls at once a `get()` may overtake the getter that was woken
  (`MaxOutstanding = 2`, `MaxTimeouts = 0` shows it).
  `bridge_sequential` is the other side: one call at a time and no racing timeout,
  and the bridge is correct in spite of connections that close at any point.
* **The signer's channel is shared both ways.** `writePump` can take an answer and
  echo it to the signer, and the call never returns. With one caller a wrong answer
  is not possible (`signer_sole_caller`); with two it is, since one can take the
  other's answer: there the refinement of `ReverseRpc` does not hold.
* **`--force-rpath` may write the wrong string.** If a file has both tags with
  strings of their own and the new path is not longer, it is written over the string
  of the tag that is made void, and the loader searches the old path.
* **sltar cannot read the directories it writes.** The size field of what is not a
  regular file has no NUL, so the size runs on into the modification time; only a
  time of 0 makes it readable (`DirTime`).

Other weaknesses that the models show without a run of their own. A reset loses a
request: the handler catches only the timeout around `reader.read`; `Balanced` says
that this is the only way to lose one, and `Answered` that otherwise every call is
answered. A part of a key is taken for a key, since `reader.read(6)` returns what has
arrived, and gets an lnd and one of the nine numbers for ever (`Cut`).
`connected` is not reset when an upgrade fails, so the next signer ends lnd, and it
is not atomic, so two handlers may serve two signers; a signer that connects before
`SetWallet` takes an empty frame for its key (`signerKey = "empty"`). A `get` that
finds `tls.cert` before `admin.macaroon` exists, or is cancelled, leaves a wallet
whose invoices nobody receives until the hub is started again: `OneStream` says that
these are the only ways. A crash loses the numbers since the last interrupt, so the
refinement of `PortDirectory` needs `CanCrash = FALSE`; a hub on simnet overwrites
the numbers of testnet, so it needs `Modes = {FALSE}` too. `WalletsIsolated` needs
neither. `sltar x` gives a directory its mode before its files, so that one which is not
writable comes back empty (`TakesFiles`; `Regular` excludes it), and `sltar c` reads the
name of an owner that has none (`CFileCrashes`).

## 4. Proofs

All proofs hold for every value of the constants that satisfies the named
assumption of the module: any number of calls, wallets, clients, connections,
blocks and files.

| theorem | statement | inductive invariant and why it is needed |
|---|---|---|
| `Repeater_proofs!TypeCorrect` | `Spec => []TypeOK` | `Typing`: `TypeOK` and a handler that reads holds a request. Otherwise `PutBack` could put anything on the queue |
| `Repeater_proofs!NoItemCopied` | `Spec => []SingleCopy` | `CopyInv`: `SingleCopy` and no item not yet issued is held anywhere. Otherwise the first put of an item could be its second copy |
| `Repeater_proofs!OneGetPerCall` | `Spec => []OneTicket` | `TicketInv`: `OneTicket` and a call not yet made has no response. Otherwise a new call might not wait |
| `Repeater_proofs!ResponsesFinal` | `Spec => ResponseFinal` | `TicketInv`: the call at the head of `ready` is waiting, so `Respond` writes only an empty response |
| `Repeater_proofs!BooksBalance` | `Spec => []Balanced` | `BooksInv`: the three above, `Balanced`, only a handler that reads holds a request, and the lost ones are finitely many. Each step is one of three cases for the sum: a call is made, a request leaves the hub for good, or none is counted anew |
| `Repeater_proofs!RepliesMatchCalls` | `Spec => []OwnReply`, if lnd makes one call at a time and no timer races a reply | `SequentialInv`: `BooksInv`; at most one call waits, and every request in the hub and every reply in `readQueue` is its own (`ReplyInv`); on every connection the request of the reading handler is under way, or its reply is, or the wallet has closed it, and between two requests nothing is left (`WireInv`) |
| `Repeater_proofs!BridgeIsRpc` | `Spec => Rpc!Safety`, on the same conditions | `SequentialInv`: `Respond` is `Answer` of `ReverseRpc` since the reply is the call's own; everything else is a call or a stutter |
| `PortsSupplier_proofs!SupplierTypeCorrect` | `Spec => []TypeOK` | `Inv`, below |
| `PortsSupplier_proofs!WalletsStayIsolated` | `Spec => []WalletsIsolated` | `Inv`: numbers are distinct in the file and in memory, a chain has the number of its key, is registered and at most `Highest`, a client has the number of its key's chain, an lnd that runs belongs to a chain, and nothing runs while the hub is down |
| `PortsSupplier_proofs!PortsStayDistinct` | `Spec => []PortsDistinct` | `Inv`, then arithmetic: for numbers from 0 to 8 the five ports are different, from those of another number and from the hub's |
| `PortsSupplier_proofs!RefusesOnlyWhenFull` | `Spec => []RefusedOnlyIfFull` | `NumberInv`: below a number in use all numbers are in use, in memory and in the file (`NoneSkipped`), and `get` begins its search above such numbers (`SearchedBelow`). So a number above the highest one means that nine others have the rest |
| `PortsSupplier_proofs!OneStreamPerWallet` | `Spec => []OneStream` | `StreamInv`: of a chain either the invoice task runs, or exactly one `get` has yet to start it or has failed before it did |
| `PortsSupplier_proofs!PeersConnectedOnce` | `Spec => []PeersOnce` | `PeerInv`: what a chain is to connect to, or has, are numbers of chains, and of two chains one has it |
| `PortsSupplier_proofs!KeepsDirectory` | `Spec => RefinesDirectory`, without crashes and simnet | `NumberInv` and `NotBroken`: `key_to_port` is empty only while it is saved |
| `LightningProxy_proofs!SignerTypeCorrect` | `Spec => []TypeOK` | `Inv` of that module: who has received from `rx` holds a message (`GotMessage`), and `writePump` never waits to send, and waits to receive only on a connection that is served (`Queues`) |
| `LightningProxy_proofs!KeyIsGreeting` | `Spec => []GreetedFirst` | `Inv`: a connection that is not yet greeted is silent, one that is has the greeting at the head of what its signer has not read |
| `SignerMessages_proofs!NoMessageMultiplied` | `Spec => []OneMessagePerCall` | `MsgInv`: the five places where a message can be (offered on `rx`, held, returned, under way in either direction) hold at most one of a call together, and none of a call not yet made |
| `SignerMessages_proofs!SoleCallerIsRpc` | `Spec => RefinesReverseRpc`, if all callers are one | `SoleInv`: `MsgInv`; only answers come from the signer and from `readPump`; all calls but the one under way have returned their answers. The answer that the caller takes is the one message of its call (`OwnAnswer`) |
| `Sltar_proofs!TypeCorrect` | `Spec => []TypeOK` | `TypeOK` itself, with the position in the archive |
| `Sltar_proofs!ReadingAligned` | `Spec => []Aligned` | `AlignedInv`: while an entry is read, what is left of it ends where the next begins (`NextEntry`), also if it could not be created |
| `Sltar_proofs!OtherFilesKept` | `Spec => OthersKept` | `OwnFile` and `OpenOnlyToCopy`: the file that is being written was made by this entry and no other name leads to it |
| `Sltar_proofs!EveryEntryListed` | `Spec => []ListedAll` | `ReadInv` (`AlignedInv`, and every header passed is that of an entry) and `ListInv`: what is printed is the names of the headers passed, in order |
| `Sltar_proofs!LastEntryExtracted` | `Spec => []Extracted`, if sizes of regular files end with a NUL | `ExtractInv`: of every name, what the last entry passed says is there (`LastHolds`), the directories that must be there are (`BaseDirsMade`, `DirsFromEntries`), and the open file is that of the entry being read (`OpenIsEntry`) |
| `Sltar_proofs!TreeComesBack` | `Spec => []RoundTrip`, for plain trees | `ExtractInv` and `CreateInv`: while `sltar c` runs, the archive has whole entries of files it was asked for, and each file of the arguments taken is there or still to be walked. `ArchiveOfTree` shows that extraction of such an archive fails nowhere and `DataBack` that the data come back |
| `PatchElf_proofs!PatchElfTypeCorrect` | `Spec => []TypeOK`, for any file | `Inv`: `TypeOK`; the file on disk consists of cells, so that what is read at any offset, also outside of the file, is a structure; while a run works, the object is in the set `Object`; a soname is only set if one is given |
| `PatchElf_proofs!SortingKeepsReferences` | of any object that is `WellLinked`, `sortShdrs` renumbers the sections one to one, by offset, and every `sh_link`, `e_shstrndx` and `sh_info` of a relocation section with them | none, it is about one operator: the place of a section is the number of those before it (`PlacesInOrder`, `PermutedPlaces`), and where a name is looked up in the sorted table that place is found (`NewIndexIsPlace`) |
| `PatchElfLayout_proofs!PatchElfNoAssertFails` | `Spec => [](WellFormed(disk) /\ OneGrowth => NoAssertFails)`, if `UIntRange` consists of whole pages | `RunInv`: `Inv`; a run that writes has no error; and of the object that `parse` makes of such a file, whatever part the run is at has kept the frame, all cells outside of `.dynamic` and `.dynstr`, and the names of the replaced sections (`KeptAs`), and as long as nothing has grown the dynamic section still lists entries whose strings are in `.dynstr` (`Ready`) |

The argument in `Repeater_proofs`: `PutDistinct`, `GetDistinct` and
`RotateDistinct` say what a queue of distinct items does under put, get and put
back; `PutNewCopy`, `TakeCopy` and `ReleaseCopy` lift them to the three things that
happen to an item. The lemmas on the books lift them once more, to sets that are
counted. In `PortsSupplier_proofs`, `NumberGiven` says that a free number
keeps the wallets apart, and `EndedInv` deals with all ways in which the hub ends;
there is a lemma for each way in which `get` ends, and `Quiet` for
the steps that touch no number. `SignerMessages_proofs` counts with
`Lone` and `Empty` (at most one, none) in place of cardinalities, place by place.
`Sltar_proofs` speaks of the headers up to a block (`HeadersTo`) where the properties
fold over the archive: one block more adds one header or none, so that no
induction is needed but that of the run itself.
`PatchElf_proofs` has a lemma for each operator of `ElfFile` and `ElfDynamic`: it maps
a member of `Object` to a member of `Object`. Few arguments are deep and many are not
obvious: a copy outside of a section changes nothing, a section moved to another
index leaves as many, an offset that is a difference is not negative since `parse`,
`FirstReserved` or a comparison before it has seen to that. The folds of
the community modules are recursive functions over finite sets; what all their steps
keep, the fold keeps, since a least set for which it failed would have a smaller one
(`SetFold`, `LeftFold`). This takes the place of induction, which the provers cannot do.

`PatchElfNoAssertFails` is the theorem about the heart of patchelf: no `assert` fails,
`parse` writes no name behind the table of names by number, no first page is computed
below the program, and `error()` is the only way to give up. It says nothing of what is
read: `err` does not record a read outside of a section or of the file. It has two halves.

* *The edits* (`PatchElfEdits_proofs`). `Good(e, g, E, T)` says that `g`, made of `e`, has
  the dynamic entries `E`, ended by a `DT_NULL`, and the strings `T`, and that every
  entry that names a string names one of `T` which ends there. Each helper
  (`addString`, `addEntry`, `wipeString`, `setEntry`, the compaction of `removeNeeded`)
  keeps it, which is why a growing section is found with room for what is copied into
  it: `replaceSection` leaves at least the length of the old contents, and strings
  are put behind the old end, each behind the one before (`PosApart`). From these
  follows what each method leaves (`Outcome`): an object that can be laid out, or
  an `error()`; and for those that let nothing grow (`setInterpreter`, `removeRPath`,
  `removeNeeded`) one that is ready for the next method (`ReadyAgain`).
* *The layout* (`PatchElfLayout_proofs`). An object is `Sane` if no assertion has failed
  with it and every number that a section had in the file has its name. `writeReplacedSections` ends
  exactly where the sum of the rounded sizes of the replaced sections says, in
  `rewriteSectionsLibrary` as in `rewriteSectionsExecutable`, so its assertion that the
  space taken is the space reserved holds; the sections of an executable that
  have to move end with the last one that is replaced, which `sortShdrs` has not moved
  away (a replaced section exists) and behind which another comes; the first one that
  stays has an offset that fits its address, and is not below it; `sortShdrs` keeps names,
  so `rewriteHeaders` finds every section it looks up.

In all of them the invariance step has one step per action.

The assumptions are `RepeaterAssumption` and `NoItemAssumption`, `PortsAssumption`
(finitely many keys; numbers in the file distinct), `SavedAssumption` (the file was
written by a hub: no number below one in it is free), `ProxyAssumption`,
`SltarAssumption`, and for patchelf `ElfAssumption` and `ElfFileAssumption` (sizes are
positive, no character looks like a structure) and `PatchElfAssumption`: files consist of
cells and options are options. Nothing is assumed of what the cells
are. TLC evaluates each in the runs of its module. Seven theorems have
hypotheses of their own, and each is what a run that passes has, and needed:

* `RepliesMatchCalls` and `BridgeIsRpc`: `MaxOutstanding <= 1` and `MaxTimeouts = 0`.
  `bridge_late_reply` shows what happens otherwise.
* `KeepsDirectory`: `~CanCrash` and `TRUE \notin Modes`, since a crash loses numbers and
  a hub on simnet overwrites them.
* `SoleCallerIsRpc`: one caller. Two callers can take each other's answers.
* `LastEntryExtracted`: of a regular file's size that fills its field `strtol` reads
  the digits of the time too. `sltar c` writes no such size.
* `TreeComesBack`: `PlainTree` says that the tree is one (a directory contains its
  files, data have the length of the size) and excludes what `sltar c` gets wrong: a
  directory with a time other than 0 (`sltar_directory`), a symbolic link inside a
  directory, whose target is packed, and a device, which gets the number of the disk.
* `SortingKeepsReferences`: `WellLinked` says that no two sections have one name, that
  entry 0 comes first and that indices are in the table. Every table that is sorted in
  `patchelf_general` is such a one. Without it a name is found at the wrong section.
* `PatchElfNoAssertFails`: `UIntRange % PageSize = 0`, since `startPage` is computed with
  unsigned integers of 32 bits and a page is a power of two on every machine. `WellFormed`
  of the file says what a linker sees to: the file has the machine's byte order, its
  headers and sections do not overlap, sections have names of their own, `.dynamic`
  ends with a `DT_NULL` and its strings are in `.dynstr`, which ends with a NUL; and in a
  program some code stays in place, the sections before it begin at one address, whole
  pages apart from their offsets, and another section comes behind all that may be replaced. All kinds of file of `patchelf_general` but `big` (the other byte
  order), `cut` and `object` (which `parse` refuses) are so, and stay so for the next run
  (`StaysWellFormed`). `OneGrowth`: the page size is the machine's, and behind
  the option that may make `.dynstr` or `.dynamic` grow only `--set-interpreter` and
  `--print-needed` are asked for; before it there may be any that print or remove.
  Every run of `patchelf_general` with the machine's page size is so. Two options
  that grow are the hazard at `patchelf.cc:985`.

**Only model-checked.** The other properties of `PatchElf`. `Loadable`, `HeadersInMemory`,
`NothingOverlaps`, `PrintedIsSeen`, `StaysWellFormed` and the refinement of `ElfEdits` speak
of the file that was written, cell by cell, as the loader or the next run reads it: what
is proved of a run (where each replaced section goes, that the frame is kept, what the
dynamic entries and strings are before the layout) is a part of what they need, and the
rest is where every single program header, `DT_` address and symbol points after
`rewriteHeaders`. Of `ReferencesKept` the sorting is proved, not the symbols.
`IdleRunKeepsFile` is about the whole run too. Of files that no linker makes nothing but
`TypeOK` holds; the liveness
half of the refinement of `ReverseRpc` by the bridge, `RequestTaken`, `Answered`,
`Supplies` and `Ends`, since the prover does not handle fairness.

## 5. Not modelled

| part | why |
|---|---|
| HTTP/2 side of `H2Protocol`, servers table, flow control | it is the behaviour of the h2 library, which is not in the repository; the calls that come out of it are in `Repeater` |
| `queueMonitor` | it waits for something that listens on the reverse port; nothing in the repository does, so only its connection attempts ever run |
| child processes of `lncli_endpoint` | its calls of `get` are in `PortsSupplier`; what follows is one child per request, without state in the hub |
| start of electrumx and bitcoind, command lines of lnd | nothing the hub does depends on them |
| sign descriptor codec (`serialize`, `decodeSigndesc`) | byte formats of protobuf and of Go's binary encoding; `LightningProxy` has messages as records |
| Electrum's signing in Python | curve arithmetic and hashes in a straight line; `on_message` discards the result |
| shachain and script templates in `ComputeInputScript_test.go` | a test that copies code of btcd and lnd |
| `test.sh`, funding and channel scripts, Docker files | sequential calls of command line tools |
| patches of btcd, btcwallet, electrumx, bitcoin-core, noTLS | constants, logging and switches of other programs |

Left out of modelled parts: in `patchelf` debug output, checks of header sizes in
`parse` (a structure has one size here), and two options that both grow `.dynstr` in
one run, which the manual page excludes ("The single option given operates on a
given FILE"); runs on files of the other byte order are possible in the model but
mostly end in `parse`. `--print-soname` of a file without DT_SONAME prints nothing,
where the manual page says it raises an error; no property is about it. Of
`modifySoname` the string that it makes of `strTab + d_val` for every DT_INIT entry
(patchelf.cc:952-953) is left out: `d_val` is an address, so the read leaves `.dynstr`,
and for a library at a high address the file; the string is never used. In `sltar`
names of 100 bytes and more, sizes of 2 GB and more, the modes of what is no
directory, and owners and checksums, which only change messages. A hub that is
killed ends its lnds in the model; lnds that the shell has started survive it in
the system, and then hold their ports when the hub is started again.
