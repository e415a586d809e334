# Verification of the nRF54L post-quantum cryptography project

The repository ports ML-KEM, ML-DSA and SLH-DSA to the nRF54L and nRF54LM20:
to their Cortex-M33 and to their RISC-V core ("FLPR" or "VPR"). It adds what a
bare chip needs (a launcher, a UARTE driver, printing) and instruments the code
to find out where the cycles go. This directory models the parts that keep
state, checks them with TLC and proves the most important results with TLAPS.

## 1. The system

The tree holds three overlapping copies: `dayviper_pqc`, `vpr_pqc_copy` (the
former and more) and `pqc_m33`. ML-KEM's reference code occurs five times and
differs in its instrumentation only. The modules are translated from
`vpr_pqc_copy/apps/vpr/mlkem_ref` (ML-KEM), `pqc_m33/dilithium_ref` (ML-DSA),
`pqc_m33/slh` (SLH-DSA) and `vpr_pqc_copy/{drivers,apps}` (the rest).

| part | state it keeps | operations | used by | what is hard | what makes it correct |
|---|---|---|---|---|---|
| `fips202.c` | `keccak_state`: 25 lanes, `pos` | init, absorb, finalize, squeeze, absorb_once, squeezeblocks, one-shot functions | all of ML-KEM, ML-DSA | message and output cut anywhere; blocks that are exactly full; reuse | output = the FIPS 202 stream of the message |
| `sha3_api.c` | `sha3_ctx_t`: lanes, `pt`, `rsiz`, `mdlen` | init, update, final, shake_out | SLH-DSA | shake_out pads on its first call only | the same |
| `gen_matrix`, `poly_uniform`, `poly_uniform_eta` | buffer, its length, the coefficients so far | squeeze, examine, carry, refill | key generation, encryption, signing | candidates across block ends; unbounded loop | the coefficients are the accepted candidates in order |
| `kem.c`, `randombytes.c` | secret key (s, pk, H(pk), z) | keypair, enc, dec; the getrandom loop | applications, tests | changed ciphertexts, overwritten keys, partial answers of the system | secrets agree for the right key and ciphertext only |
| launcher, start-up, `uarte.c` | RAM, SPU/VPR registers, `m_initialized`, `m_tx_buf` | copy, start the core, clear .bss, write a character | everything that prints | two cores and a DMA; resets with a RAM that outlives them | the program runs from a complete image, no character is lost |
| `test_speed.c` and the counters | `n_*`, `*_cyc` | count, average, print, reset | the thesis' tables | counters in several files; a wrapping cycle counter | a figure belongs to the phase it is printed for |
| `sign.c`, `packing.c` of ML-DSA | nonce, `sig` used for three purposes | sign (rejection loop), verify, sign/open in place | benchmark | retries over one buffer; in-place copies; hint encoding | what is signed verifies; one encoding per signature |
| `slh_dsa.c` and hashes | ADRS shared by all, node stacks | keygen, sign, verify | KAT test | fields of ADRS left over; stack of nodes | verification computes the root that signing used |
| `sha2_256.c`, `sha2_512.c`, `slh_sha2.c` | chaining value, block, length; contexts of the seed | update, final, chain, H_msg, PRF_msg | SLH-DSA with SHA-2 | padding that needs a second block; contexts that are copied; a block reused along a chain | digests are those of FIPS 180-4 |
| `reduce.c`, `ntt.c`, `poly.c`, `polyvec.c` | a polynomial in place | NTT, products, inverse, sums | ML-KEM, ML-DSA | reductions are left out where the author counted on the ranges | nothing overflows; the product is that of the ring |
| compression of `poly.c`, `polyvec.c`; `indcpa.c` | packed bytes | (de)compress, encrypt, decrypt | `kem.c` | division by q replaced by a multiplication; signs | rounding is exact; the message comes back |
| `rounding.c` | none | decompose, make_hint, use_hint | `sign.c` | the interval at the wrap of the high bits | the verifier finds the signer's high bits |
| `print_lib.c` | 12-byte buffer | printf | everything that prints | widths, signs, the limit of the buffer | the line is that of the C standard |
| `kyber_opt` | as ML-KEM | as `kem.c` | benchmark on the M33 | as `kem.c`, with one hash more | as `kem.c` |
| `retarget.c`, `stack_usage.c`, `vpr_clic.h` | heap end; stack pattern; CLIC registers | _sbrk, check_stack, enable | nobody, or tests | limits; read-modify-write | - |

Everything runs on one thread per core; there are no interrupts. Concurrency is
between the two cores (one starts the other), and between a core and the DMA of
the UARTE. Failures are a reset, an error or a partial answer of getrandom, and
a channel that changes or repeats ciphertexts.

## 2. The modules

| module | models | state and actions |
|---|---|---|
| `Keccak` | the lanes of `fips202.c`, `sha3_api.c` | A byte is the set of its one bits, so XOR is symmetric difference and a padding bit that meets a message bit cancels as in C. A state is the sequence of blocks it was permuted with and what was XORed in since: two states are equal exactly if every injective permutation makes them equal. |
| `Fips202` | FIPS 202 on whole messages | The reference: padding, blocks, output stream as functions of the message. |
| `Xof` | what an incremental XOF object promises | Absorb, Finalize, Produce over the message and the output stream; no blocks, no position. |
| `Sponge` | `fips202.c` | One action per API call, one per loop iteration of `keccak_absorb`, `keccak_absorb_once`, `keccak_squeeze`, `keccak_squeezeblocks`. `mode` is what the API lets the caller do next; it is the caller that is restricted, not the code. `Implements`: it refines `Xof`. |
| `Sha3Api` | `sha3_api.c` | One action per byte of `sha3_update` and `shake_out`. Refines the same `Xof`. |
| `Filter` | what sampling promises | The accepted candidates of a stream in order. |
| `RejSample` | the samplers of `indcpa.c` and ML-DSA's `poly.c` | One algorithm with constants for the unit (3 bytes or 1), candidates per unit, block size, first blocks, and whether a partial unit is carried. A byte is its index in the stream. `Implements`: it refines `Filter`. |
| `Kem` | `kem.c`, `randombytes.c` | Free constructors for hashes, PRF and `indcpa_enc`; `Messages` is what `indcpa_dec` may return. Each call draws coins (`Draw`, `Getrandom`, `GetrandomFails`) and then runs. `build` is `linux`, `chip` (randombytes is a stub) or `opt` (`kyber_opt`: hashed message, KDF, on the chip only). |
| `Reduce`, `Ntt` | `reduce.c`, `ntt.c` of both schemes | Montgomery and Barrett reduction in integers of w bits (`Keep` is the assignment to one). One action per block of butterflies; what a block stores is kept as an exact integer, too, so that an overflow shows. |
| `KemPoly`, `DsaPoly` | the sums of products in `indcpa.c` and `sign.c` with `poly.c`, `polyvec.c` | EXTEND `Ntt`. From the transforms to the last reduction, step by step as the callers call them; `use` says which caller. `IInv` has the range of every coefficient at every step. |
| `KemPolyRef`, `DsaPolyRef` | what they are to compute | Products in the ring, compared through remainders (ML-KEM) or values at the roots (ML-DSA), by Horner's rule: nothing of the transforms is used. |
| `Compress`, `Codec` | compression and packing of ML-KEM | The multiplications that replace divisions, for each format, with the q they stand for (`KYBER_Q`), and the bits of eight coefficients laid end to end in bytes; `Codec` sends a polynomial through them twice with noise in between. |
| `IndCpa` | `indcpa.c` | Keys, encryption, decryption in a ring of eight coefficients, through bytes. |
| `Uarte` | `uarte.c` and the peripheral | Driver steps against the DMA's `Fetch` and `Send`. The peripheral is modelled from how the driver uses it. |
| `Console` | what a terminal may see | Prefixes of a text; begins anew when the console is reset. |
| `Boot` | `vpr_launcher/startup.S`, the FLPR start-up code, the print loop of `uarte/main.c` | EXTENDS `Uarte`. A word of the image per `CopyWord`; registers; `Reset` at any time, with a RAM that keeps what it held. |
| `Bench` | the counters, `test_speed.c` | A call with its duration, the end of a phase with `reset_vals`. Five functions stand for all that are instrumented alike. |
| `Sign` | `sign.c` of ML-DSA | A memory in which `sm` and `m` may be one buffer; one action per byte copied, per attempt, per check. Arithmetic and hashes are left out: an attempt is the message, the context, the streams of y and the set of checks its values fail, and a cell of the signature is named by the attempt it comes from. |
| `Hints` | the hint vector in `pack_sig`, `unpack_sig` | One action per polynomial; a polynomial is the set of the positions of its ones. Begins with hints that are packed, or with any bytes, of any number of polynomials, positions and ones. |
| `Rounding` | `rounding.c`, its use in `sign.c` | One coefficient: decompose, subtract c\*s2, add c\*t0, each with its check, make the hint, and what the verifier does with it. q, GAMMA2, BETA and the multipliers of the three parameter sets are definitions (`Modes`); the coefficients are parameters. |
| `SlhHash` | `slh_adrs.h`, `slh_shake.c` | The ADRS as a record of its words. A hash value is its address, and its input unless that is the one FIPS 205 has there (`Input`): values are equal exactly if address and input are, and the names stay small. |
| `Slh` | `slh_dsa.c` | EXTENDS `SlhHash`. Keygen, sign and verify loop by loop: `xmss_node` and `fors_node` with their stacks, FORS, WOTS+, the layers. `h_msg` and `split_digest` are the choice of a digest; the digits of a value are dealt out when first asked for. |
| `Sha2` | `sha2_256.c`, `sha2_512.c`, the functions of `slh_sha2.c` that do more than pass bytes on | Block buffering, padding, copies of a context; chains in one block and MGF1 with an action per round of their loops, HMAC. The compression function is a free constructor. Beside it stands FIPS 180-4 on whole messages (`Padded`, `SHA`). |
| `PrintLib` | `print_lib.c` of the VPR core | One conversion or character of the format in a step, over a buffer of `BufLen` bytes. |
| `SpongeProof` | | The proofs of `Sponge` and `Sha3Api` (named instance `A`). |
| `KemProof` | | The proofs of `Kem` and `RejSample`. They share a module, so the definitions of `Kem` are `KemInit`, `KemNext`, `KemSpec`. |
| `VprProof` | | The proofs of the programs of the VPR core: `Boot`, and `Bench` (`BenchInit`, `BenchNext`, `BenchSpec`). |
| `NttProof` | | Lemmas about `Reduce` and `Ntt`, for the next two. |
| `KemPolyProof` | | The proofs of the data of ML-KEM: `KemPoly` and `Codec` (`CodecSpec`). |
| `SignProof` | | The proofs of `Sign`. |
| `DsaPolyProof` | | The proofs of the data of ML-DSA: `DsaPoly`, `Hints` (`HintsSpec`) and `Rounding` (`RoundSpec`). |
| `SlhProof` | | The proofs of `Slh` and `Sha2` (`Sha2Spec`). |

Composition: `Boot` composes launcher, core, driver and peripheral by sharing
variables, and implements `Console`. `Sponge` and `Sha3Api` implement `Xof`.
`RejSample` takes a stream where the code calls squeezeblocks, and `Kem` takes
hashes as constructors: what justifies this is `Sponge => Xof`. `IndCpa` takes
products in the ring, justified by `ProductRight`, and `Kem` takes indcpa_dec to
return the message of an unchanged ciphertext, justified by `Recovered`. `Sign`
takes a signature with accepted hints to verify, justified by `HintRecovers`.
`Slh` names what is hashed, and `Sha2` shows that the functions hash it.

## 3. The runs

| run | question | result |
|---|---|---|
| `sponge` | does `fips202.c` give FIPS 202 however it is called? | `IInv`, `Implements`, `OneShotExact`, `CallsReturn` hold |
| `sha3api` | does `sha3_api.c`? | `Implements` holds |
| `rejsample` | do refills and carried bytes matter? | they do not: `IInv`, `Implements`, `Terminates` hold |
| `kem` | who ends up with whose secret? | `SecretShared`, `Rejects`, `NoByteTwice` hold |
| `kem_stub` | are the coins random, as `kem.c` says? | not on the bare chip: `FreshCoins` is violated |
| `boot` | does every start print the whole text? | `RunsFromImage`, `Prints`, `TextPrinted` hold |
| `bench` | are the figures those of the phase, and the lines as the standard says? | `CallsReported`, `CyclesReported` hold for the counters that exist and are reset; `Printed` holds for the conversions `print_lib.c` knows |
| `sign` | what leaves `crypto_sign`, and what does `crypto_sign_open` return? | `Released`, `OpenExact`, `FreshY` hold |
| `slh` | do signer and verifier of SLH-DSA compute the same tree, from digests that are right? | they do: `NodesRight`, `Agreed`, `OneTime`, `NoDominance`, `HashRight` hold |
| `kempoly` | does the data of ML-KEM stay in range, and does decryption decrypt? | `IInv`, `NoOverflow`, `ProductRight` hold for the arithmetic; `Rounded`, `Survives` for compression; `Recovered` for encryption |
| `dsapoly` | does the data of ML-DSA, and do hints recover what was rounded? | `IInv`, `NoOverflow`, `ProductRight` hold for the arithmetic; `HintRecovers`, `HighKept` for the rounding; `OneEncoding`, `RoundTrip` for packed hints |
| `bench_reset` | are all counters reset? | no: `CountersReset` is violated by `poly_add_cyc` |

Runs with several parts (`bench`, `slh`, `kempoly`, `dsapoly`) put modules that do
not share state side by side: `which` chooses the part, the others stand still.

Bounds, and why they are enough:

- `sponge`, `sha3api`: `Rate` 3, messages to 7 bytes, output to 8: empty, partly
  filled, exactly full and two full blocks occur, in one call and over several,
  with the padding in the first, a middle and the last byte of a block (there it
  meets the final bit). The separator shares a bit with the message.
  `Garbage` holds an object that was used before.
- `rejsample`: units of three bytes with two candidates, blocks of four, so that
  one, then two, then no bytes are carried; all 2^8 streams of four units that
  hold at least `N` = 3 accepted candidates. `MaxSq` bounds the
  bytes squeezed at the end of those four units.
- `kem`: two key slots, `SymBytes` 1 (a key then takes two draws, and getrandom
  may give one of them), seven draws (two keys and three messages, or one key
  overwritten), two decapsulations. A violation needs at most two of them.
- `boot`: three characters, two of them alike (so that one that is lost cannot
  pass for its neighbour unnoticed), two resets at any step.
- `bench`: the cycle counter has eight values and calls take one or three, so it
  wraps in most phases; four calls a phase. For `Printed`, ints of nine bits and
  a buffer of five bytes are as tight as 32 bits and twelve are ("-256" and
  "-2147483648" fill it); widths from none to two figures, both flags, ints at
  all boundaries.
- `sign`: a signature of three cells (challenge, z, hints) and messages of none,
  three and five, so that in place the copy has nothing to do, just misses its
  source, and overlaps it by two cells; two contexts and one that is too long; three attempts
  of L = 2 polynomials, in any of which any of the four checks may fail; three
  calls, of which the second may open what the first signed, damaged or
  cut anywhere, into either buffer. `Range16` = 8 leaves room for the streams of
  three attempts, as 2^16 does for those of 2^16 / L.
- `slh`: FORS trees with eight leaves and XMSS trees with four, so that
  the stack holds three nodes and two merges follow one another; two FORS trees;
  two layers; chains of three values and a checksum of two digits. Three
  digests: two that meet in all keys (and differ in the FORS leaves), one with a
  tree of its own. Three calls: two signatures share the upper layer, any value
  of a signature may be changed before it is verified. SHA-2 has blocks of eight
  bytes, two of them for the length: messages end before, in and after the
  place of the length, and the block of a chain is filled to its last byte (in
  the code to the last but one).
- `kempoly`: the constants and the table `zetas` of the code and `KYBER_K` = 2, on
  polynomials at the ends of their ranges, sparse ones, and constants, whose sums
  keep growing; that the ranges hold for every input is proved. Compression: all
  3329 coefficients (417 groups of eight) in each of the six formats, with the largest noise that
  `Survives` admits, in two patterns of directions; that noise in any direction changes nothing is
  proved. Encryption: eight coefficients with the formats of
  ML-KEM-512 and of ML-KEM-1024, noise of the largest size.
- `dsapoly`: TLC has integers of 32 bits, in which products of the code's
  coefficients do not fit. The arithmetic has `Q` = 449, `N` = 32 and ints of 15 bits:
  256 * 8380417 is 99.9 % of 2^31, 32 * 449 is 88 % of 2^14, and one layer more,
  or inputs twice as large, overflow in both; 449 is 2^9 - 2^6 + 1, as
  8380417 is 2^23 - 2^13 + 1. `Rounding` has the code's numbers for all three
  parameter sets, at the coefficients next to each boundary of an interval, and
  `HighKept` is about every change within BETA; that it and `HintRecovers` hold at all other coefficients is proved. Hints:
  `N` = 5 positions, `K` = 2 polynomials, `OMEGA` = 3 ones: all 5^5 byte arrays,
  all hint vectors.

Deadlock is checked but in `kem`, `kem_stub` (an application may run out of
draws; an error of getrandom ends it), `boot` (both cores sleep at the end),
`sign` and `slh` (the bounds on calls and attempts), `kempoly` and `dsapoly` (a
computation ends).

Fairness: `Sponge`'s `Step` (a call that began goes on; nothing preempts it) for
`CallsReturn`; `Next` of `RejSample` for `Terminates`; `Launcher`, `Vpr` and
`Hardware` of `Boot`, each weakly: a core executes its next instruction, and the
DMA and the line make progress. The last is an assumption about the receiver,
too: with flow control enabled a terminal that never raises CTS stops the
program for ever, as `uarte.c` waits without a timeout.

## 4. The proofs

The runs check small constants; the theorems hold for every value that the
ASSUMEs in the modules admit (a positive rate, a separator that is a byte, a
digest no longer than a block, a text that is not empty, ...).

- `SpongeProof`. `IInv` relates the lanes to the history: what was permuted is
  the sequence of padded blocks of `msg`, and what is in the lanes is the rest of
  it up to `pos` (while absorbing), or nothing (while squeezing), with the part
  of the call's input that is still to come in `in`. It is inductive
  (`InitInv`, `NextInv` with one step per action). `SpongeInvariant` is
  `Spec => []IInv` (its part `OutputInv` says that each byte handed out is the FIPS 202
  byte of its index), `OneShotComplete` is the action property `OneShotExact`, and `Refinement` is `Spec => Implements`:
  `Xof` is implemented with message, separator and output as they are. The
  block arithmetic (`n * Rate` with a symbolic rate) is in lemmas of its own.
  `SApiInv` does for `sha3_ctx_t` what `IInv` does for `keccak_state`; it says what
  `mdlen` tells (whether `shake_out` still has to pad) and what `pt` is before and after.
  `Sha3ApiRefinement` shows that the same `Xof` is implemented.
- `KemProof`. For `RejSample`, `IInv` says that the buffer holds the last `buflen` bytes of
  the stream, that a refill is due only when less than a unit is left, and that
  no index leaves its array. `SamplingIsFilter` is `Spec => Implements`; the refill maps
  to a stutter because it keeps `sq - buflen + pos`. For `Kem`, `KemInv` says of what each key, ciphertext and secret in the
  history is made. From it follow `SecretSharedExactly` and `ImplicitRejection`,
  without a bound on keys, draws or decapsulations. `BytesUsedOnce` is
  `NoByteTwice`: `FreshInv` adds that all that exists is made of draws up to
  `Base`, and that the coins of the call under way are the draws after it.
- `VprProof`. `BootInv` has one part per actor: what the launcher has copied
  (`CopyInv`), in which order registers are set (`OrderInv`), that a core before
  main leaves the UARTE alone (`QuietInv`), and for each place in the driver what
  buffer, DMA and terminal hold (`DriverInv`): the character before `next` is in
  `ch`, in `m_tx_buf`, in `shift` or on the wire, and in one of them only. It
  gives `CompleteImage` and, as a refinement of `Console`, `TextInOrder`, for
  every text and any number of resets. For `Bench`, `BenchInv` ties each counter to
  the calls of the phase, and each sum of cycles to their durations: `CallsCounted`
  and `CyclesWithin`. `reset_vals` forgets one counter of cycles, that of `rkprf`;
  by the invariant it is still zero before decapsulation, so no printed figure changes.
- `SignProof`. `SignInv` follows the one buffer through its three purposes.
  `CopyInv`: what the backward copy has moved, and that in place it has not yet run
  over what is still to move. `TryInv`: while an attempt is checked, it is of the message
  and context that were asked for, its challenge is in place, and the checks behind it were passed.
  `SmInv`: a signed message that is opened is as it was made, or has a trace of what the
  application did to it. `OutInv`, `BadInv`: what opening has written, and
  that in place it has not overtaken what it still reads. `FreshInv`, apart from these:
  attempt n has the streams of nonce n - 1, modulo 2^16. From them follow `ReleasedOnlyPassed`, `OpenedExactly` and `StreamsFresh`.
- `SlhProof`. `Inv1` is the conjunction of `TypeInv` and
  - `FlowInv`: which loop runs for whom, and its bounds;
  - `AdrsInv`: the words of the shared ADRS that are right whoever wrote it last;
  - `NodeInv`: the stack of `xmss_node` and `fors_node`. The nodes on it cut the
    leaves done so far into subtrees as the bits of their number say (`Cut`), with
    heights that fall from slot to slot but for the two on top while they merge, and each slot holds
    the right value. That the stack fits h[] is the part `Room`. `NodesAreRight` follows, for trees
    of every height: the runs have heights 2 and 3, the code up to 14 and 9;
  - `DigitsInv`: different values have different digits, and enough are left for
    the calls to come. `NoDominated` follows with `ShorterChain`: if no chain of one value
    were shorter, its checksum would be smaller, so a digit of it would be, too.

  `Inv2` builds on it. The address in the name of a value says where it belongs, so what a
  signature of a digest has to hold can be written down (`ForsPart`, `WotsPart`, `AuthPart`):
  - `PathInv`, `RootInv`: `tree` and `leaf` are those of the digest in this layer, and
    `root` is the root of the top layer;
  - `SigInv`: the signer has filled in the right parts so far; afterwards `sig` is the whole
    signature of `signed.dg`, or has a wrong value somewhere and, in the WOTS+ part, no value that would
    fit another digest;
  - `ForsInv`, `MInv`: what the verifier has computed is the right root or node exactly if
    each part of the signature that went into it is right. The direction that is hard is
    that a chain of a damaged or foreign signature does not end in the right place: the verifier
    takes the digits of its own value `m`, so the chains fit only if these are the
    digits of what was signed, and different values have different digits;
  - `KeysInv`: what a WOTS+ key signed is a function of its place.

  `KeysSignOnce` is `KeysInv`; `VerifierAgrees` puts `MInv` at the top layer and `RootInv` together.

  These proofs need induction over heights, lengths of chains and digits. It is done with sets:
  `SetInduction` derives it from the well-foundedness of < on the naturals, which the library states
  without an operator parameter. 2 ^ n, which no prover here interprets, is the number of
  subsets of 1 .. n (`TwoSubsets`); its laws come from the theorems about cardinalities.
  The assumptions `SizesAssumption` and `HashSizesAssumption` say that there is a digest, that
  `Deals` has digits for each layer of each call, and Len1 * (W - 1) < W^Len2. The last
  is what `get_len2` computes and asserts.

  For SHA-2, `Sha2Inv` says that every object that may be used has absorbed what was put into
  it (`Absorbed`): whole blocks in the chaining value, the rest at the beginning of the block,
  anything behind it. `UpdateHolds` shows that `sha256_update` keeps that
  whether the input ends in the block, fills it, or goes on for blocks; `PadIs`, that
  `sha256_final_pad` leaves the last block of the padded message, in one block or in two. While a chain
  runs, its first object is the second block of a padded hash (`Chained`), and since all hashes of the
  chain have one length, only digest and hash address differ (`SamePadding`,
  `ChainRoundRight`); while MGF1 runs, its buffer is the seed, until the digest that is
  cut is the last one (`MgfInv`). `DigestsRight` follows. Its assumption says that the message
  of a chain leaves room for the length in its block, as 22 + 32 + 1 <= 56, and that
  Base^k is a positive number, since no prover here interprets powers.
- `KemPolyProof`, `DsaPolyProof`, with lemmas about reductions and
  blocks of butterflies (`NttProof`). `IInv` has the range of each coefficient at
  each step. Forward, a layer adds `Q` (a Montgomery product is
  smaller than `Q`); behind the block at work the bound is one `Q` larger than ahead
  of it. Backward, ML-KEM reduces the sums and ML-DSA does not: there the
  bound doubles per layer, to `N * Q`. An accumulated product adds `2 * Q` in ML-KEM and
  `Q` in ML-DSA. From it follow `KemNoOverflow` and `DsaNoOverflow` (nothing leaves its
  width), `KemPacked` (adding q once makes what is packed standard). That decompose, power2round and use_hint
  get standard representatives is the part `Standard` of the invariant of ML-DSA. The assumptions `KemPolyAssumption` and `DsaPolyAssumption`
  are inequalities that the parameters of the code meet: ML-KEM needs
  (7 + 1) * 3329 and, for K = 4, 2 * 4 * 3329 <= 2^15; both are 26632. ML-DSA needs 256 * 8380417 =
  2145386752 <= 2^31 and, for L = 7, 2 * (7 + 2) * 8380417 <= 2^31.
- `DsaPolyProof`, on hints and rounding. `HintsInv` says that the bytes written or read so far encode the
  polynomials so far: an end per polynomial, and each position of a one at the index that is the number of
  ones before it. When bytes are read, that number has to be counted; the order that `unpack_sig`
  insists on makes the positions of a polynomial a set with as many members as bytes, and each byte's rank its
  index. `EncodingUnique` (bytes that are accepted are those that `pack_sig` writes) and
  `HintsReturn` follow, for any `K`, `OMEGA` and number of positions. `RoundInv` says that
  high and low bits stand for w + moved modulo q, with low bits within the bound of the last check.
  `HighBitsKept` and `HintsRecover` follow from the uniqueness of such a representation, with the
  wrap of the high bits as a case of its own, for every w, c\*s2 and c\*t0.
- `KemPolyProof`, on compression. `QuotientRounded` is about the five multipliers: in a format of d bits,
  coefficient * 2^d plus the half is q * quotient + remainder; the error of the multiplier, times the quotient,
  does not carry the product over the next integer. For d = 10 and 11 it would at large quotients with an
  extreme remainder, which no coefficient has. For d = 1 `poly_tomsg`
  takes a negative coefficient as it is: it is q short, so its quotient is off by 2, and of the quotient only the last bit is kept.
  `Unpacked` shows that packing loses nothing, from the position of each bit (`Position`); `CodeKept`, that
  a code is the nearest one to what it was decompressed to, also after the noise. `CodecInv` adds the order of the
  steps, and `CompressionRounds` and `RecompressionKeepsBytes` follow, for all coefficients.
  The assumption `CodecAssumption` names the formats and says that coefficients are as `poly_reduce` leaves them.

Only model-checked:

- liveness (`CallsReturn`, `Terminates`, `TextPrinted`), which needs ENABLED;
- that the transforms compute products of the ring (`ProductRight`, and `Recovered`, which rests on
  it), an identity about sums over all coefficients, and `Printed`, about the figures of a number
  and the concatenation of all items: they need induction over data.
## 5. Disagreements between code and text

- `randombytes.c:74-77` against `kem.c:20-21`: run `kem_stub`.
- `test_speed.c:86-133` against its comment at line 88: run `bench_reset`.

Disagreements that the models contain and no run is made of, since no property
of the code depends on them:

- `cbd.c:138`: `poly_cbd_eta2` increments the counter of `poly_cbd_eta1`, so that
  `test_speed.c:218` prints 0 for it, and `cbd.c:129` tests the address of
  `poly_cbd_eta1` where other functions test their `*_cyc`: the first average of
  eta1 is halved. `Counter` and `Averages` in `Bench`.
- `dilithium_ref/reduce.c:8-9` promises results between -Q and Q for
  a <= Q\*2^31; for a = Q\*2^31 itself the result is Q. `NttProof` needs a < Q\*2^31.
- `dilithium_ref/polyvec.c:258-260` says that inputs of the inverse transform need to be
  less than 2\*Q; 256 \* 2\*Q leaves int32_t. `ntt.c` and `poly.c` say Q, which is
  what the callers give and what `DsaPolyInv` needs.
- `dilithium_ref/polyvec.c:243-244` says that coefficients grow by 16\*Q in the forward
  transform, `poly.c` by 8\*Q, which `IInv` confirms.
- `sha2_api.h:58` says that the final functions clear the state; `sha256_final_len` (`sha2_256.c:257-263`)
  and `sha512_final_len` (`sha2_512.c:292-297`) only copy the digest out of it, as `Final` in `Sha2` does.
  No digest depends on it (`HashRight`): every use of an object begins with an initialisation or a copy.
- `print_lib.c` of the VPR core skips a conversion that it does not know and prints what follows:
  "%ld" in `retarget.c:307` prints "d". "%-0d" fills with zeros on the right.
  `print_lib.c:207` of `pqc_m33` compares a character with the constant of two
  characters '.f', which is never equal, so that "%.2f%%" of `kat_test.c:140` prints
  "%". `Printed` speaks of the conversions that are known.

## 6. What is left

Modelled in part, and what is missing:

1. ML-DSA: power2round, the packing of the vectors, `poly_challenge`.
2. SLH-DSA: `adrsc_22`, which compresses an ADRS for SHA-2.
3. `kyber_opt`: `indcpa.c`, which works on one polynomial at a time, and its
   assembly.
4. `Bench`: `print_results`, the median and the average over the tests.
5. `PrintLib`: the branch for floating point in the copy of `pqc_m33`.

Abstractions a reader should know of: `IndCpa` keeps keys untransformed; the shifts and ORs of packing are
named by where they put each bit; `HighPart` of `Compress` splits a product that TLC cannot
hold (the bits it returns are those of the product); hashes, PRFs and permutations
are free constructors.

Not modelled, and why: `vpr_clic.h` has no caller; `retarget.c` is stubs;
`stack_usage.c` is about addresses of the stack, which no model has; experiments with
custom instructions (`eqv_check`, `ntt_eqv_check`, `load64_test`, `custominst`)
keep no state; known-answer tests, loggers, results and vendored headers are not
the program. Of the lines of the tree, nearly all are vendored headers that
describe devices (nrfx, mdk) and further copies of the code modelled here, which is why the
models name a small share of it. Timing (constant time in `verify.c`) is outside
of what these models see.
