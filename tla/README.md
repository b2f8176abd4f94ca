# TLA+ models of btc-runtime

`btc-runtime` is the AssemblyScript runtime that OP_NET smart contracts are compiled with. This
directory holds TLA+ modules for the parts of it that keep state, TLC configurations that check
them on small instances, and TLAPS proofs of what matters most for every instance. Paths below
are relative to `src/runtime/` unless they start with `docs/` or `tests/`.

1. [The system](#1-the-system)
2. [Modules](#2-modules)
3. [Runs](#3-runs)
4. [Proofs](#4-proofs)
5. [Where the code and its documents disagree](#5-where-the-code-and-its-documents-disagree)
6. [What is not modelled](#6-what-is-not-modelled)
7. [Plan](#7-plan)

Tools: `tlc -config <run>.cfg <module>` for a run; `tlapm <module>.tla` for the seven modules whose
names end in `_proofs`, and for `BasicFacts`. `PROJECT.json` maps every definition to the lines it models and lists the
mutants that show each property can fail.

## 1. The system

A contract is a WebAssembly module. The host (the OP_NET VM, outside this repository) calls one of
the exports of `exports/index.ts`; the runtime reads the calldata, runs the hooks, dispatches on a
4-byte selector and returns a buffer. **Every call is a new instance** with empty memory
(`docs/getting-started/first-contract.md:166`, `docs/contracts/op-net-base.md:186`): what lives
longer is the host's storage, a map from 32-byte pointers to 32-byte values. A call that throws
exits with status 1, and the host undoes what it wrote
(`docs/advanced/cross-contract-calls.md:90`).

There are no threads. What makes the system hard is that contracts call each other, directly and
through callbacks, while they hold values read from storage; that instances cache storage; that a
failure may be caught by the caller; and that structures are spread over several slots, of which
each operation updates some.

### Components

| Component | State it keeps | Operations | Hard behaviour | What makes it correct |
|---|---|---|---|---|
| Execution environment: `env/BlockchainEnvironment.ts`, `exports/index.ts`, `abort/` | per instance: a write-through storage cache, the transaction and block; in the host: storage | `execute`, `onDeploy`, `onUpdate`, `getStorageAt`, `setStorageAt`, `call`, `updateContractFromExisting`, `deployContract` | nested calls, caught failures, a cache the callee's instance does not see | a resumed caller does not work on stale values; a failure undoes exactly the callee |
| Reentrancy guard: `contracts/ReentrancyGuard.ts` | `locked` and `depth` in storage | hooks before and after each method, excluded selectors | the hooks run in different instances of one contract; the release must survive every exit | mutual exclusion; the lock says who is inside; it is always released |
| Scalar storage: `storage/Stored*.ts` | one cached value each, or several in one slot | `value`, `value=`, `add`, `get`, `set`, `save`, `addNoCommit`, `commit` | lazy load, packed slots shared by several fields | no lost update; neighbours in a slot are kept |
| OP20: `contracts/OP20.ts` | balances, allowances, nonces, supply, cap | transfers, safe transfers, allowances (direct and signed), mint, burn | receiver callback in the middle; 256-bit limits; signatures replayed or reordered | supply conserved; allowances bound spending; a signature acts once |
| OP20S: `contracts/OP20S.ts` | peg authority, pending authority, rate, block of update | two-step authority transfer, rate updates | `u64` sums at the limit | only the authority acts; a fresh rate is never called stale |
| OP721: `contracts/OP721.ts` | owner, per-owner lists, indexes, balances, approvals, operators, URIs, nonces | mint, burn, transfers, approvals (direct and signed), URIs | five maps and a list change together; removal from the middle; ids minted again | lists, indexes and owners agree; nothing is inherited from a burned token |
| Update timelock: `contracts/Updatable.ts`, `plugins/UpdatablePlugin.ts` | pending source and submission block | submit, apply, cancel | races over blocks; sources that change meanwhile; the delay is in the code being replaced | the delay is kept; events tell the pending update |
| Plugins and dispatch: `contracts/OP_NET.ts`, `plugins/Plugin.ts` | list of plugins, the calldata reader they share | `execute`, hooks, `registerPlugin` | one reader passed on; position restored only by `execute` | every handler reads from its own start |
| Packed arrays: `storage/arrays/StoredPackedArray.ts` and seven subclasses | header, ring of packed slots, loaded slots, hot slot, change marks | get, set, push, shift, delete…, `save`, `reset`, `deleteAll`, start index methods | two caches, change marks, wrap-around, raw and logical indexes | a sequence that survives its transaction |
| Boolean array: `storage/arrays/StoredBooleanArray.ts` | the same, 256 bits per slot, buffers shared with the storage cache | the same | changes in place seen through the other owner of the buffer | the same |
| Stored strings: `storage/BaseStoredString.ts` and two subclasses | header with length, chunks in following slots | load, save, clear | rewrites with another length | what is written is read |
| Storage maps and pointers: `memory/`, `storage/maps/`, `math/` | none of their own | pointers from fields, keys and indexes | cells found by adding or joining, mostly without a hash | no cell belongs to two structures or keys |
| In-memory maps: `generic/` | parallel key and value arrays, last index | get, set, delete, clear | the last-index cache across removal | the latest value of a key |
| Checked arithmetic: `types/SafeMath.ts`, `SafeMathI128.ts` | none | add … mulmod, modInverse, pow, sqrt, shifts, logs | intermediate overflow; rounding of the fixed-point series | equals integer arithmetic or throws; logarithms agree with each other |
| Byte codec: `buffer/` | read or write position | typed reads and writes | bounds and order | reading returns what was written |
| Addresses and signatures: `types/*Address*.ts`, `env/consensus/` | cached keys; consensus flags | `verifySignature` chooses a scheme | the flag changes over time | no scheme is accepted that the flag refuses |
| Bitcoin scripts: `script/` | reader position | builders, recognisers, number codec, Bech32, address verification | minimal encodings; two checksums; scripts that differ by an opcode | a script or address stands for one set of parameters; verification accepts only what they give |
| Transaction decoding, events, token helpers, hashing, host interface | caches of read-only data | – | – | – |

### How they interact

```
        host ── execute / onUpdate ──▶ exports/index.ts
                                        │ onExecutionStarted (plugins, then ReentrancyGuard)
                                        │ contract.execute(selector) ── OP20 / OP721 / Updatable / derived contract
                                        │        │  ├─ Stored*, maps, arrays ─▶ getStorageAt / setStorageAt ─▶ cache ─▶ host storage
                                        │        │  ├─ Blockchain.call ─▶ host ─▶ another instance (maybe of the same contract)
                                        │        │  └─ updateContractFromExisting ─▶ host ─▶ onUpdate of the new bytecode
                                        │ onExecutionCompleted (plugins, then ReentrancyGuard)
        host ◀── env_exit / abort ──────┘
```

OP20 and OP721 extend `ReentrancyGuard`, call the receiver of a safe transfer after they have
changed their maps, and rely on the guard to keep everyone else out and on the host to undo
everything if the receiver refuses. OP721 keeps each owner's tokens in a `StoredU256Array`.
`Updatable` and `UpdatablePlugin` end in `updateContractFromExisting`, which runs the `onUpdate`
hook between the same `onExecutionStarted` and `onExecutionCompleted` as a method.

The hazards that follow, each at its line and with the properties that cover it, are listed in
`PROJECT.json`.

## 2. Modules

| Module | Models | Abstract specification it is shown to implement |
|---|---|---|
| `ContractExecution` | execution environment, guard, one `StoredU256` per contract | `ExclusiveEntry`: per guarded contract, at most one execution inside |
| `OP20` | fungible token | `TokenLedger`: amounts are only created by Mint, destroyed by Burn, moved whole or not at all |
| `OP721` | non-fungible token | `TokenRegistry`: one owner per token, a spender that is forgotten whenever the token moves |
| `Updatable` | timelock, several contracts that are sources of each other | – |
| `StoredPackedArray` | base class of the packed arrays | `SavedSequence`: a sequence, saved and made permanent or undone with its transaction |
| `StoredBooleanArray` | array of bits with shared buffers | `SavedSequence` |
| `KeyedMap` | the five classes of in-memory maps | `Dictionary`: a function with a partial domain |
| `PluginDispatch` | one call: hooks, dispatch over plugins, the reader they share | – |
| `StoredString` | string over storage cells | – (a register, as history variables) |
| `PackedScalars` | `StoredU64`, `StoredU32` | – (likewise) |
| `PegAuthority` | `OP20S` | – |
| `SafeMath` | checked and fixed-point arithmetic over words of a parameter's width | integer arithmetic |
| `SafeMathCalls` | one call of each checked function with any operands, and what all of them promise | |
| `ByteCodec` | `BytesWriter` and `BytesReader` | – |
| `CodecFields` | one field that a contract writes, of any type and value, and what the codec promises of it | |
| `BitcoinScripts` | script numbers, script builder and reader, witness script templates | – |
| `SegwitAddresses` | Bech32 and Bech32m, segwit addresses, verified address pairs | – |
| `StoragePointers` | pointers, and the cells of every stored structure | – |
| `StorageLayout` | the structures of a contract, and the conditions under which they share no cell | – |
| `Outcomes`, `Powers`, `Inputs` | the outcome of a call that reverts; powers by multiplication; a state that is the input of a function | |
| `Components` | instances of the smaller components with state, one of which moves in each behaviour; its properties are those of the run and of the theorems | |
| `ContractExecution_proofs`, `OP20_proofs`, `OP721_proofs`, `Updatable_proofs` | theorems about the modules they are named for | |
| `Components_proofs` | theorems about every part of `Components` | |
| `SafeMath_proofs` | the checked arithmetic, for words of every width | |
| `Bytes_proofs` | bytes, digits and pointers, the cells of every structure, and the fields of the codec | |
| `BasicFacts` | lemmas that these proofs share: division, powers, sequences, induction and recursion over sets and numbers | |
| `MCComponents` | the constants of `Components` that a configuration cannot write | |
| `MCPureFunctions` | inputs and reference definitions for the components without state, all of which it composes | |
| other `MC…` | constants of the runs | |

The models meet at two abstractions, each of which another module justifies:

- In `OP20` and `OP721` an action is a whole transaction that succeeds. A call that throws is undone
  by the host, so the conditions under which the code throws are guards. That nobody else enters the
  token while the receiver of a safe transfer runs is what `ContractExecution` shows of the guard,
  for the levels both tokens use; a safe transfer is therefore two steps, between which no other
  action of the token is enabled.
- In `OP721` an owner's list is a sequence, which is what `StoredPackedArray` is shown to be when its
  raw methods are not used. OP721 loads and saves a list in every call that uses it.

### ContractExecution

`stack` holds the instances of the running transaction, innermost last. A frame has the contract, the
selector, a phase, its storage cache, the local variable of its body (`reg`) and the state the host
restores when it fails (`before`). `host` is the storage: the lock and depth of the guard and one data
slot per contract. Slots are modelled with the encoding that matters: a `StoredBoolean` slot that was
never written reads as zero and is initialised by its first read (`Unset`, `False`, `True`), as in
`storage/StoredBoolean.ts`.

| Action | Code |
|---|---|
| `BeginTransaction` | the host calls `execute` of a contract |
| `StartUnguarded`, `StartGuarded`, `StartRefused` | `onExecutionStarted`: `nonReentrantBefore`, unless the selector is excluded |
| `Complete` | `onExecutionCompleted`: `nonReentrantAfter` |
| `Return` | `env_exit(0)` |
| `Throw`, `Unwind` | a revert; the host undoes the frame, and the caller exits too or goes on with `success = false` (`call` with `stopExecutionOnFailure`) |
| `Call`, `CallRefused` | `Blockchain.call` |
| `UpdateSelf` | `updateContractFromExisting` and the `onUpdate` hook it leads to |
| `ObserveGuard` | `reentrancyGuardEntered`, `getCurrentDepth` |
| `Load`, `Store`, `Add`, `AddOverflow` | `StoredU256` |

What the body of a method does is the derived contract's business, so the model lets it do these
things in any order until the gas is used up. `entered`, `applied` and `bypassed` are history
variables: who holds the guard, how many increments were not rolled back, and which contracts had
their data written by a frame the guard is not applied to.

### OP20 and OP721

Variables are the storage maps under their names in the code. `pending` is the safe transfer that
waits for its receiver; it keeps what the host restores if the receiver refuses. Histories
(`granted`, `spent`, `signed`, `used`) are what the properties compare the maps with. Signed messages
are records; anybody may submit any signed message at any time, again and in any order, and
`VerifySignature` checks nonce, deadline and scheme in the code's order. `unsafe` in OP20 is the
consensus flag that allows Schnorr signatures; `QuantumTransition` ends it. `OP721` assumes that the
derived contract calls `_setTokenURI` only after `instantiate`, because `instantiate` sets the URI
counter back to zero.

### Updatable

One record of storage per contract (`pendingUpdateAddress`, `pendingUpdateBlock`), its bytecode now and
from the next block on, the events, and the block number. A method of the timelock exists only in
bytecodes that contain it, and its delay is the bytecode's. `events` carries, besides the fields of the
code's events, the block and the bytecode that was there, for the properties to look back at.

### StoredPackedArray and StoredBooleanArray

An instance of the array over a sequence of transactions: `storage` (or `host`) is what the running
transaction sees, `permanent` what earlier ones left; `Commit` and `Abort` end a transaction and make
a new instance, and `Abort` is also what a call that throws amounts to. A call never saves by itself;
`Save` is the contract's call of `save()`. `raw` records that the contract has used methods that
address cells rather than elements (`setPhysical`, `push` with `isPhysical`, the start index methods,
`setMaxLength`), after which the array is no longer meant to be a plain sequence; the other
properties hold for those contracts too.

`StoredBooleanArray` changes slot buffers in place, and the storage cache of the runtime holds the same
buffers. The module therefore has a heap of buffers, and maps from slots to buffers for the array
(`values`) and for the cache (`cached`).

### KeyedMap, PluginDispatch, StoredString, PackedScalars, PegAuthority

- `KeyedMap` has the parallel arrays (`keys`, `values`) and `lastIndex` of `generic/`. A class is a pair of
  choices the sources make differently: whether `delete` removes the pair from the middle or swaps in the
  last one, and what it leaves in `lastIndex`. Every call records what it answers and on which key, so
  that `Dictionary` can say what the answer has to be.
- `PluginDispatch` is one instance of `exports/index.ts` with several plugins. A plugin is a number; those
  in `handlers` answer the method that is called, 0 is the contract's own method. `offset` is the position of the
  one `BytesReader` they share: a hook or a method that is tried may move it, `Plugin.execute` puts it
  back before the next one. `seen` records where each found it.
- `StoredString` keeps the cells of a string; a setter that throws leaves the cells as it found them
  half way (`failed`) until the host undoes the transaction.
- `PackedScalars` is one slot with several numbers, loaded and saved together. The flag
  `ResetUnloaded` allows `reset` before the first read, which loses the reset (section 5); the run has
  it off.
- `PegAuthority` has the maps of `OP20S` as variables. `quotedAt` remembers the block of the last quote,
  which `updatedAt` is supposed to hold.

Each has a history of what the contract asked for (`text`, `wanted`, `saved`, …), and `Commit` and
`Abort` where it is stored.

### SafeMath, ByteCodec, BitcoinScripts, SegwitAddresses

Operators, one per function of the source, with `Throw` for a revert and `Null` for an absent result; loops and
recursion are recursive functions. `SafeMath` takes the width of a segment as a parameter (`SegmentBits`: 64 in the code, four
segments to a word) and builds the multi-word steps (multiplication, `mulmod`, `divmod`,
square root, logarithms) as the source does, on words of a few bits. `ByteCodec` takes the base of a byte as
a parameter, so that all values of a byte can be enumerated. What a method writes does not depend on where it is written, so a
field is encoded first and then written whole; reading goes through a reader with its offset, value by value, as in the code.
`CodecFields` has the set of all fields (`AnyField`): a record of the method, the byte order and a value of any length; every
type is there in both orders, also those that the code does not read back (`Misread`). `SegwitAddresses` and `BitcoinScripts` need
real bytes, and characters are their ASCII codes. Hashes are parameters, of which `SegwitAddresses` needs
only that the scripts compared do not collide.

### StoragePointers and StorageLayout

One operator per way to make a pointer, and the set of cells each structure takes when it holds as much
as it can. Every size is a parameter: the base of a byte (256 in the code), the bytes of an identifier (2), of a subpointer
(30) and of a word (32), the cells of a string, the header and cell sizes. `StorageLayout` states what a contract has
to see to, as named assumptions that TLC evaluates for the structures of the run and the theorem uses: every field has an identifier of
its own (except the URIs of OP721, which share theirs with the map of their indexes), strings do not count beyond their subpointers,
the lists of two owners are further apart than they are long, and the hash does not collide, nor meet a key that was not hashed.
A storage key is the identifier followed by the subpointer; only `StoredMapU256`, `Nested` and `KeyMerger` hash. Two
addresses that agree in the first 30 bytes share a list and a map entry, which the comment at
`contracts/OP721.ts:955` accepts and `Separate` states. An owner's list begins where its address does, and addresses are hashes, which is why they may be
assumed to be far apart.

## 3. Runs

Every property of a passing run has a mutant in `PROJECT.json`: a plausible slip in one definition
under which the property fails in the same run.

| Run | What it shows | Bounds | Why they are enough |
|---|---|---|---|
| `ExecNested` | `MutualExclusion`, `LockMirrorsEntry`, `GuardCacheFresh`, refinement of `ExclusiveEntry` | two guarded contracts, one per level; depth 3; gas 3; data up to 2 | depth 3 is A→B→A and A→A→A; one gas unit is one call or storage operation of a body, so both contracts are called, observed and updated with every failure in between |
| `ExecUpdates` | `DataCacheFresh`, `NoLostUpdate`, `GuardReleased`, `TypeOK` | a CALLBACK contract and one without guard; depth 2; gas 4; fairness | a lost update takes a load, a call, an increment by the callee and a store: four operations |
| `Op20Ledger` | supply (with nothing at the zero address), allowances, increases, refinement of `TokenLedger` | zero, two accounts and a receiver contract; amounts up to 2 (`u256.Max`); the zero address and one account as spenders; no signatures | the limits of the word are within two steps, so saturation, overflow and "unlimited" all occur; self-transfers and transfers through a spender are included |
| `Op20Signatures` | signatures act once; none after the transition | one account; amounts up to 1; block 0–1; two signed messages | two messages give replay, reordering and competing nonces, two blocks an expired deadline |
| `Op721Tokens` | lists and supply (`EnumerationExact`), blank tokens and URI slots (`RecordsAreSeparate`), signatures used once, refinement of `TokenRegistry` | three tokens (symmetric), an account and a receiver contract, two URIs set, two messages signed by the account; at most three of existing tokens and signed messages together (`MaxTokensAndMessages`) | three tokens are the fewest with a removal from the middle; two holders suffice to move between lists; two messages of both kinds compete for one nonce while a token exists to approve |
| `UpdTimelock` | events, delay, reviewed code | three contracts with one deployer gone; delay 1; block up to 4; 4 events per contract | four events are two submissions with their ends; a source can be updated while it is pending elsewhere. Blocks and events are bounded, so behaviours end and deadlock is not checked |
| `Components` | the parts of the module `Components`, one at a time: arrays refine `SavedSequence`, maps refine `Dictionary`; strings and packed numbers keep what is set; every plugin reads from its own start; the peg | arrays: 3 cells in slots of 2, 6 calls (5 for a packed array once a raw method was used), `deleteAll` of the bits with at most one slot loaded; maps: 3 keys, 2 values; dispatch: 3 plugins, reader position up to 4; strings: every length from 0 to 8 of at most 7, in cells of 2 and 3 bytes; packed: 2 numbers of 3 values; peg: two accounts, blocks 0–4 with `MaxU64` 4 | a partly filled last slot, wrap-around within and across slots, and a save, commit or abort anywhere between the calls; removal from the front, middle and end of a map; three cells of a string, each partly or wholly filled, and rewrites between all lengths; a sum of blocks that wraps |
| `PureFunctions` | checked arithmetic is exact or reverts; logarithms agree; what is written is read; scripts and addresses are canonical; verified pairs match; stored structures share no cell | every pair of 8-bit words with two moduli each (4-bit words for the signed operations); logarithms of 1–160 and factors up to 32 in 20-bit words at scale 1000; bytes of two values in every type of field, in both orders, and arrays of up to 4 (the buffers in them of 0, 1, 2 or 6 bytes); real bytes in scripts, keys of 0–256 bytes, multisigs up to 17 keys, blocks around every boundary; addresses of two-byte programs with every slip of one character out of six; every pair of structures of the nine fields of a token (and of a contract with `KeyMerger`), with seven addresses or keys, strings of up to 17 indexes and lists that fill the room between two owners | 8 bits are four segments, so every carry between segments occurs; logarithms cross several powers of two; buffers are checked with the exact size, one byte short on either side; lengths of 0 and 6 (0110 in bytes of two values) are the same in both orders, 1 and 2 are not; a string fills its place up to the first cell of the next |

The parts of `Components` share no variables: in each behaviour `part` says which component moves, and the
others keep their initial values. It is a sum, not a product, of the state spaces. Deadlock is not checked
in it, because a peg without authority at the last block can do nothing, nor can an array out of calls.

`TokenSymmetry` in `Op721Tokens` is sound: tokens are model values, `CHOOSE` is not applied to them, and
no liveness is checked in that run. The data type limits are parameters (`MaxU256`, `MaxU64`, `MaxU32`), and
arithmetic that wraps in the code wraps in the model.

Four runs check what a comment or a document says and find it violated: `ExecUpdateHook`,
`BooleanDeleteAll`, `Op721FirstUri` and `CodecSignedWords` (section 5).

### Fairness

`ExecUpdates` is the only run with liveness. `FairSpec` adds weak fairness of `Execute`, the
disjunction of all steps of a running transaction: the host runs a transaction to its end, and gas
bounds it. Nothing is assumed of which step is taken, of users sending transactions, or of
callees succeeding. `GuardReleased` says that a taken guard is released under exactly this assumption.
`WF` is on the whole disjunction because the code is sequential: while a transaction runs some step of
`Execute` is enabled, and the gas makes the choice of calls and storage operations finite.

## 4. Proofs

### ContractExecution

`ContractExecution_proofs` proves, for every set of contracts, every assignment of levels and every
`MaxDepth`, `MaxGas` and `MaxValue` that satisfy the assumptions of `ContractExecution`:

| Theorem | States |
|---|---|
| `TypeCorrect` | `Spec => []TypeOK` |
| `GuardIsExclusive` | `Spec => []MutualExclusion` |
| `LockIsAccurate` | `Spec => []LockMirrorsEntry` |
| `Invariance` | `Spec => []IInv`, from which those three follow |
| `GuardCacheIsFresh` | `Spec => []GuardCacheFresh` |
| `DataCacheIsFresh` | `Spec => []DataCacheFresh` |
| `NoUpdateIsLost` | `Spec => []NoLostUpdate` |
| `GuardIsAnExclusiveSection` | `Spec => ImplementsExclusiveEntry` |

`MutualExclusion` is not inductive: nothing in it connects the frames to the lock they are supposed to
hold. `LockMirrorsEntry` is not either: after a failure the storage is what it was when the failed frame
started, about which it says nothing. `IInv` adds what is missing:

- `FramesOK`: only the last frame runs, the others wait in a call; whether a frame holds the guard
  follows from its phase and selector; a frame that holds a CALLBACK guard has depth 1 in its cache,
  so that it releases to 0 without reading the host; no cache holds an uninitialised lock.
- `GuardAgrees(host, Len(stack))`: lock and depth in storage agree with the frames on the stack.
- `GuardAgrees(stack[i].before.host, i - 1)` for every frame: what the host would restore agrees with the
  frames that would be left. This is what carries the invariant over `Unwind`, at any depth.

The argument: a new frame enters only if its (uncached) read of the lock says that nobody is inside,
and by `GuardAgrees` nobody is. It writes the lock through to the storage before its body runs.
Frames of other contracts leave the slots alone, frames of the same contract that the guard does not
apply to write at most the initial `False` to a lock that is not taken, and a failure brings back a
storage that agreed with the shorter stack. The lemmas `ContinueStep`, `NeutralStep`, `PushStep` and
their like treat the steps by their shape; `NextInv` has a step for each action.

The caches need a second invariant on top of it, `FreshInv`. A frame in the middle of the stack may well hold a stale
copy of the lock: the callees above it take and release the guard meanwhile. So `CacheOK(i)` does not compare a cache
with the storage; it says that frame `i` has cached *who was inside when it was on top* (`HoldsBelow`), which is again so
when it is on top again. `WorldOK` says the same of the data: in storage, history and the frames that are inside a
contract, as long as no frame without the guard has written it. It is required of the world now with all frames, and of the
world each frame would bring back (`before`) with the frames outside it, which carries it over any failure.

For the refinement, the number of frames inside a contract is a cardinality; `HoldersCount` shows that it is 0 or 1, and `IInv`
then tells which contract each step enters or leaves. A failure removes the last frame only, so it leaves at most one section.

### OP20

`OP20_proofs` proves, for every set of addresses and messages, every limit of the amounts and blocks:

| Theorem | States |
|---|---|
| `TokenTypeCorrect` | `Spec => []TypeOK` |
| `AllowancesAreGranted` | `Spec => []AllowanceWithinGrant` |
| `IncreasesOnlyRaise` | `Spec => IncreaseNeverLowers` |
| `SignaturesActOnce` | `Spec => []EachSignatureUsedOnce` |
| `SupplyIsConserved` | `Spec => []SupplyConserved` |
| `SignedChangesEnd` | `Spec => NoneAcceptedAfterTransition` |
| `TokenIsALedger` | `Spec => ImplementsTokenLedger` |

Four invariants carry them, each proved with a step for each action. `GrantInv` is the types and
`AllowanceWithinGrant`, also *of what the host would restore*: while a safe transfer waits for its receiver, the saved
allowances and histories have to satisfy what the current ones do, or a refusal would break it. The
arithmetic is that of an increase that saturates and of a decrease that stops at zero. `NonceInv` says that the messages used
are finitely many and each has a nonce its owner is past; an accepted message has the current nonce, so it is
not among them, and one for which that holds cannot be accepted again. `LedgerInv` says that a pending transfer is one the ledger
allowed when it started, so that the answer of the receiver maps to a move of `TokenLedger`, or to a stutter. `SupplyInv` says that the balances
add up to the supply, now and in what the host would restore, and that the zero address has nothing, to spend either.

The sum of the balances is a fold, and the prover has no induction for it. It is shown by a smallest counterexample
instead: `SmallestSet` gives, among the subsets of a finite set that violate a claim, one whose proper subsets satisfy it
(from the library's well-foundedness of the strict subset relation). `SumsAgree` and `SumExists` obtain that
way that the recursion in the fold has one solution, and `SumChanges` that changing one balance changes the sum by as much.
The set of addresses is assumed to be finite, which 32 bytes are.

### OP721

`OP721_proofs` proves, for every set of addresses and URIs, every finite set of tokens and every bound on URIs and
signed messages; that the signers are not the zero address is assumed, for which nobody has a key:

| Theorem | States |
|---|---|
| `Op721TypeCorrect` | `Spec => []TypeOK` |
| `EnumerationStaysExact` | `Spec => []EnumerationExact` |
| `RecordsStaySeparate` | `Spec => []RecordsAreSeparate` |
| `Op721SignaturesActOnce` | `Spec => []EachSignatureUsedOnce` |
| `TokenIsARegistry` | `Spec => ImplementsTokenRegistry` |

`OwnershipInv` is what the first three need and the last relies on: lists, indexes, balances and owners agree (`Exact`) now and
in what the host restores when a receiver refuses; a pending transfer is one token that moved and lost its
approval (`Moving`), which is the move the registry makes when the receiver accepts; the supply counts the tokens; and a token that does not exist has
no URI. The lists carry the proof. `_removeTokenFromOwnerEnumeration` moves the last token of a list to the place of the one that leaves
and shortens the list; the lemmas on lists say where every token is after that, also when it is itself the last one, and
after it is appended to the list it was just taken from. `NonceInv` is as in OP20, with both kinds of messages under one nonce.

### Updatable

`Updatable_proofs` proves, for every set of contracts and bytecodes, every `MaxU64` and `MaxBlock`:

| Theorem | States |
|---|---|
| `EventsTell` | `Spec => []EventsTellPendingUpdate` |
| `AnnouncedBlockIsHonoured` | if all bytecodes have the same delay (`SameDelays`), `Spec => []EffectiveBlockHonoured` |
| `ReviewedIsInstalled` | `Spec => []ReviewedCodeIsInstalled` |

`LogInv` reads the log: events have the block they were sent in, submissions alternate with what ends
them, and the last event agrees with what is stored. `DelayInv` adds that every submission announced the sum the code computes,
which an application compares with the block once more; without `SameDelays` it computes another sum (section 5), so the
assumption is needed. `SourceInv` is about contracts whose bytecode cannot change any more: nothing is
scheduled for them, so the bytecode an open submission from such a source was reviewed with is still the one that is installed.

### The parts of Components

`ComponentsSpec` lets one part move in each behaviour. The theorems are about it because the run is; each is a step-wise proof
about the module the part is an instance of. Those on the peg are about `Spec` of `PegAuthority`, which `Components` extends.

| Theorem of `Components_proofs` | States `ComponentsSpec =>` | For every |
|---|---|---|
| `CallsReachTheirHandler` | `[]DispatchReachesTheHandler` | number of plugins, set of handlers, reader position |
| `PackedNumbersStay` | `[]PackedNumbersAreKept` | number of fields of a slot, set of values |
| `TextStays` | `[]TextIsKept` | size of the header and of a cell, longest string that the cells hold (`TextAssumption`) |
| `MapPlacesExist` | `[]MapPlaceWithinArrays` | set of keys and values |
| `MapsAreDictionaries` | `MapImplementsDictionary` | set of keys and values |
| `HotSlotStaysCurrent` | `[]ArrayHotSlotIsCurrent` | element set, slot size, ring, width of an index |
| `ElementsStayApart` | `[]ArrayElementsHaveOwnCells` | the same, with `RingFits` |
| `ArraysAreSequences` | `ArrayImplementsSavedSequence` | the same, with `RingFits` |
| `BitsAreSequences` | `BitsImplementSavedSequence` | slot size and length |

| Theorem of `Components_proofs` | States `Spec =>` | For every |
|---|---|---|
| `PegTypeCorrect` | `[]TypeOK` | set of addresses and rates, width `MaxU64` and `MaxBlock` within it |
| `StalenessIsReported` | `[]StaleRateIsReported` | the same |
| `RenouncingIsFinal` | `RenouncedIsFinal` | the same |
| `PegInvariance` | `[]PegInv`, from which the others follow | the same |

`PegInv` adds two facts to the types. *No offer is open without an authority*: an offer is made by the authority, and
whoever leaves that office (by renouncing, or by being succeeded) leaves none open. Without it, `RenouncedIsFinal` would not
be inductive: a renounced peg with an open offer could come back to life by `AcceptPegAuthority`, which
checks only the offer. *The stored block is the block of the quote*, and not later than now, which lets the wrapped sum of
`IsStale` be compared with an age.

- `CallInv` says which hooks have run at each phase of a call, in order; that every plugin that was asked found the reader at the
  start of the arguments; and that none that handles the method was passed over.
- `PackedInv`: what is marked as unchanged is what is stored, and changed implies loaded. Without the latter a set
  would write zeros over its neighbours.
- `TextInv`: the stored cells are *exactly* the string written into empty cells (`Packed`), so nothing of an earlier string is
  left. That clearing the chunks of the old length and writing those of the new one has this result is the lemma the proof turns on; it
  needs that every byte has a cell and a place (`BytesHavePlaces`), by division.
- `MapInv`: keys are distinct and the remembered place is one the arrays have. It serves both ways to delete; the lemmas
  on `Holding` say what function the arrays stand for after either.

`ArrayInv` says of the packed array that a loaded slot without a mark is as stored, that the slot at hand is one of the loaded ones and equal to it, the same
of the header, and that the ring is the whole one unless a raw method was used. Each action of the module is a
read or a write of one cell with a change of the header (`ReadKeepsCells`, `WriteChangesOneCell`); for the refinement the view
after each is computed from the cell that changed. Elements have their own cells because `start + index` and `start + other` differ
by less than the ring. This holds as long as the sums fit into 32 bits: `RingFits == 2 * MaxElements - 2 <= MaxU32` admits every ring of at most
2^31 elements, wherever it starts. Beyond it the statement is false (section 5), so the hypothesis is needed and not a convenience;
`HotSlotStaysCurrent` does without it.

For the boolean array everything depends on who shares a buffer. `BuffersInv`: the array's buffer of a slot is the cache's buffer
of that slot, and two slots never share one. `deleteAll` with two loaded slots breaks it (section 5), so the theorem is, as the run is, for
contracts that call it with at most one (`DeleteMany` is `FALSE` in `Components`); `BooleanDeleteAll` shows the other case.
`SteadyInv`, for contracts without the raw methods: every bit below the length whose slot is not marked is stored. It speaks of bits and not of slots,
because `reset` drops the marks while the cache keeps the changed buffers: those bits are beyond the new length until `push` writes and marks them.

Both refinements state, as the properties do, that the steps of contracts without the raw methods are steps of `SavedSequence`; what
the raw methods leave intact is in the other invariants.

### Induction and recursion

The prover has no induction: the library's theorems take an operator as a parameter, which none of its backends can
instantiate. `BasicFacts` therefore states it with sets and functions as parameters. `SetInduction` says that
a set with 0, and with n + 1 whenever with n, has every natural number, from a smallest counterexample;
`RankInduction` is induction over any set with a rank. `Recursion` and `RecursionType` obtain from it that the recursion of
a function definition has a solution on a ranked set, and `NatRecursion`, `ListRecursion` and `LoopExists` are its cases for
numbers, sequences and loops with a bound. `PowersLaw` and its corollaries give the laws of powers; the model multiplies (`Powers`),
since the backends know no law of `^`. With these, what a recursive function returns for *every* input can be proved, as long as it is not
declared `RECURSIVE`.

### Arithmetic

| Theorem of `SafeMath_proofs` | States | For every |
|---|---|---|
| `ArithmeticHolds` | `CallsSpec => []ArithmeticIsExact` | number of bits in a segment, hence width of a word |

Each function has a lemma that says which integer it returns, or that it reverts because that is no word. What they turn on:

- sums, differences and products: a wrapped result that passes the check of the code (`c >= a`, or division giving the
  other factor back) is the integer;
- signed operations: the two's complement that wraps stands for the same number;
- `mulmod`: a turn of the loop keeps `res + a * b` modulo the modulus, and no sum in it exceeds a word (`MulModLoopExact`);
- `pow`: a turn keeps what the loop will return, where a factor that has overflowed counts as a revert (`PowTurn`). The square for a turn
  that never comes is not computed, so `pow` reverts only if the power is no word;
- `sqrt`: whatever the guess, the next one of Newton's method is at least the root, and if it is not smaller the guess was at most the
  root (`NewtonStep`); the sum in the step does not wrap (`NewtonFits`);
- `modInverse`: the coefficients of the extended Euclid take turns in sign and stay below the modulus, so the magnitudes with a sign beside them,
  as the code keeps them, are exact (`NextCoefficientExact`, `EuclidTurn`);
- shifts: the segments of the result are the digits of the shifted number (`JoinedSegmentExact`, `Weights`), and the bit length is
  that of the top segment that is not zero (`TopSegment`).

### Cells

| Theorem of `Bytes_proofs` | States | For every |
|---|---|---|
| `LayoutHolds` | `LayoutSpec => []CellsAreSeparate` | contract (set of structures and keys), base of a byte, size of identifier, subpointer, word, string, header and cell, hash |

A cell is a string of bytes, and the question is when two that are computed differently can be equal.

- *Numbers and digits stand for each other* (`NumberOfDigits`, `DigitsOfNumber`, `DigitsOfJoined`), so the byte-wise sum with carry of `bigEndianAdd` is addition
  (`CountingOn`), and an identifier and a subpointer joined tell both apart (`JoinedTell`).
- *Every structure has its cells* where its identifier and a set of subpointers say (`EveryHasCells`): one for a scalar, a row for
  a string and a list, one for a key. The sums do not carry out of the subpointer because of the assumptions on strings and owners.
- *Hashed keys tell what they were made of* (`U256KeysTell`, `NestedKeysTell`, `MergedKeysTell`). `KeyMerger` puts the length of a part, as a decimal
  number (`DecimalTells`) and a colon, before it: two pairs of parts never give the same string.
- Structures of different fields differ in the identifier (`FieldsApart`); of one field, in the subpointers (`SubsApart`, by the pairs of types that can share one).

The only way two keys share a cell is the exception in `Separate`: addresses that agree in the bytes of a subpointer.
This is what `OP20`, `OP721` and `Components` take for granted when they treat a map as a function from keys.

### Codec

| Theorem of `Bytes_proofs` | States | For every |
|---|---|---|
| `FieldsRoundTrip` | `FieldsSpec => []CodecRoundTrips` | base of a byte, and field of any value and length |

The field is written with a mark of one byte behind it, into exactly the bytes that the contract reserves (`Size`).

- *What stands in a buffer is read* (`Holds`, `ReadBytesIs`): bytes that stand at the offset of a reader are what it returns, and it moves on by their
  number; of two lists one behind the other, the second stands where the first ends (`HoldsParts`).
- *One value* (`OneIs`): each type is read back from its encoding, wherever that stands. A length in front of bytes is exact because `Number` undoes
  `Digits` (`CountIs`); text is read to its end because it has no zero byte (`TextIs`).
- *Lists* (`ManyIs`): after i elements the reader has returned the first i values and stands behind their encodings; that is a solution of the recursion of
  `ReadMany`, and there is but one (`ReadUpToIsOne`).
- *Fields* (`FieldIs`): the encoding has just the size that is reserved, `estimateArrayOfBufferLength` included (`FlatEstimate`), and reading it gives the
  value, or throws if a map has a key twice. `RefusedIs` covers what cannot be written at all.
- *What does not come back* (`MisreadIs`, `MisreadDoesNotComeBack`): a signed word in the default order is returned reversed (`SignedMisread`). An array of
  buffers in little-endian order is read with lengths in the other order. If it came back as it went in, every length read would have been the length of the
  buffer, from the first one on, hence the same in both orders (`ReadBackTellsLengths`).
- *Round trip* (`FieldRoundTrips`): with room for field and mark both are written, and read back if and only if the field is not `Misread`; with a byte less
  the writer throws, and so does the reader of what comes back otherwise.

The property leaves no field out: it states for each whether it comes back. The two cases of `Misread` are defects of the code (section 5).

### Assumptions of the theorems

They are the named `ASSUME`s of the modules, which TLC evaluates in the runs: positive limits and sizes; `Zero`, receivers,
deployers and signers among the addresses; addresses of OP20 and tokens of OP721 finite; enough cells for the longest string; zero among the
values of numbers and elements. `SafeMathAssumption` and `CodecAssumption` bound the width of a segment and the base of a byte from
below, and `CodecAssumption` and `ReadsAssumption` say that a revert is told apart from every writer, buffer and value read; the conditions of `StorageLayout` are described with that module. Three theorems have a hypothesis of their own, `SameDelays` or `RingFits`, each with a finding that shows what happens without it.

### Not proved

- `GuardReleased` is liveness, which is beyond the prover.
- `LogarithmsAgree`: the tolerance between two fixed-point series is a matter of their constants (`Scale`, `Ln2`, the factors of the run); it is no
  law that holds for all of them, and TLC evaluates it for one choice.
- `ScriptsAreRecognised`, `AddressesAreCanonical` and `VerifiedPairsMatch`: they compare what readers and recognisers make
  of every input with what builders make. That a Bech32 checksum refuses every slip of one character is a fact about one
  polynomial, found by trying all; the scripts go through chains of a dozen parsing steps on concrete bytes. TLC covers the bounds of the
  run and no more.
- The four properties that are violated (section 5).

Every other invariant and action property of the passing runs is a theorem.

## 5. Where the code and its documents disagree

`PROJECT.json` quotes the lines. Shown by a run:

- **A guarded contract cannot update itself from a method.** `onUpdate` passes through the guard with
  selector 0, which is not excluded, while the method that applies the update holds it
  (`ExecUpdateHook`). The model takes from `docs/contracts/updatable.md:299` that the hook runs when the
  update is applied, on the same storage; the host is not in this repository.
- **`deleteAll` of the boolean array makes slots share a buffer** (`BooleanDeleteAll`).
- **The first custom URI of a collection is not returned** (`Op721FirstUri`).
- **`readI16` and `readI32` swap the bytes** that `writeI16` and `writeI32` wrote with their default order
  (`CodecSignedWords`).
- **Signed changes end with the consensus transition**: `NoneAcceptedAfterTransition` holds in
  `Op20Signatures`, although a comment announces ML-DSA signatures.

Stated by a property that the code satisfies and its documentation does not expect:

- **`readArrayOfBuffer` does not read what `writeArrayOfBuffer` wrote in little-endian order**: the writer passes
  the order on to the length of each buffer (`BytesWriter.ts:228`), the reader reads it in the default order
  (`BytesReader.ts:309`). `CodecRoundTrips` says that this and the signed words are the only fields that do
  not come back, and that they do not unless both orders give the same bytes; `PureFunctions` checks it
  and `FieldsRoundTrip` proves it.

Read in the code, and modelled as the code has it, without a run of their own:

- the CALLBACK level is documented to allow one level of reentrancy, and admits none: the code refuses at
  depth 1. Except for the excluded selectors it behaves like STANDARD, which is why `ExclusiveEntry` is
  the specification of both levels;
- `instantiate` of a token with maximum supply zero can be repeated;
- `approveBySignature` of OP721 requires the sender to be the owner or an operator;
- `updateEffectiveBlock` wraps, and the delay of a pending update is the delay of the bytecode that
  applies it;
- the place of an element in a packed array is `start + index` as a 32-bit sum that wraps before the remainder by `MAX_LENGTH` is taken
  (`storage/arrays/StoredPackedArray.ts:569`). With the default `MAX_LENGTH` of 2^32 - 2, an array that starts beyond the first
  cell can reach the wrap, and two elements then share a cell; with six elements and sums up to 7, four pushes after
  `setStartingIndex(5)` show it. `RingFits` is the condition under which it cannot happen;
- `get` of a packed array does not check the length;
- plugins are dispatched last;
- `p2wpkh` accepts 33-byte keys only, and `strictMinimalPush` lets some pushes of one byte pass;
- `preciseLog` reverts for most arguments beyond 2^236;
- `reset` of `StoredU64` before the first read is overwritten by that read (`ResetUnloaded`);
- OP20S has no signature methods of its own;
- a storage key is identifier and subpointer one behind the other, where `docs/core-concepts/pointers.md:7` and `:60` say that
  it is a SHA-256; only `encodePointerUnknownLength` hashes. The comment on `encodePointer` says that the first two
  bytes of a key of 32 are overwritten: the code takes the first 30, so the last two are lost, and its
  example writes the identifier in the other byte order.

## 6. What is not modelled

- **Values and layouts.** Amounts are small integers with a parameter as limit; names, symbols, icons,
  calldata and packed bytes are left out, except where an encoding matters (`StoredBoolean`).
- **Pointers.** The components treat a map as a function from keys, and a structure as its own cells;
  `CellsAreSeparate` is what allows it. That SHA-256 has no collisions, also in its first 30 bytes, is assumed. `u256To30Bytes`, the
  selectors of `math/abi.ts` and the bit helpers of `math/bytes.ts` are left out.
- **Cryptography.** A signature verifies when its owner has signed the message with the scheme the
  consensus flag asks for.
- **The host.** It undoes what a failed instance wrote, gives each call a new instance, bounds depth and
  gas, and installs new bytecode at the next block (`docs/advanced/contract-updates.md`).
- **Transient storage, deployments, emit**: no model; transient storage is not enabled in the code, and
  the others hand bytes to the host.
- **Views, and metadata setters of the tokens**: they change single fields that nothing else reads.
- **`StoredAddress`, and the uncommitted operations of `StoredU256`** (`addNoCommit`, `commit`): planned.
- **`StoredBooleanArray.reset` after start index methods**: left out of that module's contracts, since
  the changed buffers stay in the storage cache unsaved; listed as a hazard.
- **A second `initializePeg`**: it is a protected method without a check of its own, which a derived contract
  calls in `onDeployment`; the model lets it be called once, with any arguments.
- **The logarithms on 256-bit arguments**: the runs compare them on small words with their laws; how far the
  fixed-point series is from the real logarithm is not stated.
- **Signs in the codec**: integers are their bytes, which tells every position and order apart but not a sign. In `PureFunctions` a byte has two
  values, lengths are those of short arrays, and the limit of 65535 elements is 3, what two bytes of two values can count; the theorem has
  no such bounds. Text with a zero byte, where the reader stops early, is in `ReadString` but in no property.
- The components with status `not_modelled` in `PROJECT.json`: hashing and curve arithmetic (pure
  computation on wide words), transaction decoding (read-only data), token helpers (one call each), events
  and host declarations.

## 7. Plan

Done: the modules of section 2. What a next step would add:

1. Uncommitted operations of `StoredU256` in `PackedScalars`: `commit` writes what was computed, and nothing
   is written without it.
2. Compositions: OP721's lists as `StoredPackedArray` instances; the timelock inside
   `ContractExecution`.
3. Theorems: the stateful components, the checked arithmetic, the cells and the codec are done. `NumberOfDigits`, `Joined` and
   `SetInduction` are what a proof that script numbers are canonical would start from.
