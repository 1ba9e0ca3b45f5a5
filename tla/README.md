# Sifir: a TLA+ model of the attested gateway

Sifir's proof of concept (`poc/`) sends a prompt to an inference server only
after the client has checked, inside the TLS handshake, that the server runs in
an attested machine (RA-TLS). This directory models that path from the command
line of the gateway to the answer on the client's terminal, with the programs
behind the gateway, checks it with TLC and proves its central guarantees with
TLAPS.

## The system

| Part | State | Operations | Hard because of |
|---|---|---|---|
| `sifir-attest` (report, mock signer, AMD chain, extension, `verify`) | none: pure functions | build and check reports, chains, extensions | order of checks, encodings that two programs must agree on, roots and keys that are not compared |
| `sifir-server` setup (`main.rs`, `tls.rs`, `amd_attestation.rs`, `gpu_attestation.rs`) | TLS key, report, chain, token, certificate: computed once, kept for the life of the process | dispatch on arguments and features, key generation, `SNP_GET_REPORT`, two KDS requests, GPU script, certificate, bind, accept | a failure between any two steps, timeouts, a subprocess without one, restarts with a new key |
| `sifir-server` requests (`main.rs`, `proxy.rs`) | one task per connection | TLS accept, echo or forward, pass the answer on | no timeout and no limit, an accept error ends everything, lost bodies |
| `sifir-client` | one run of the program | parse options, connect, verify in the handshake, one POST, print | the verdict is used after it was reached; endpoints that replay certificates |
| `inference/gpu_attest.py` | none | nonce check, token from NVIDIA's service | exit codes, an SDK that may end the script, no timeout |
| `inference/server.py` | one shared model | `/v1/generate`, `/health` | thread pool around one model object whose calls are not atomic |
| governance, tokens, metering (`docs/`) | - | - | designs without code |

The gateway calls the processor (ioctl), AMD's key distribution service (HTTPS),
the GPU script (subprocess) and the inference server (HTTP); the client talks to
the gateway over TLS. There is no shared state between gateway and client other
than the certificate, and nothing is persisted: a restart loses the TLS key.

What makes it correct: a prompt reaches only an endpoint that holds the attested
key; with AMD attestation, only a machine that runs the expected image (and GPU
mode) at the time of delivery; modes do not mix; a gateway that does what the
client asks for is accepted, if AMD's keys are of the kind the client can use; and
everything ends except where the code waits without a timeout.

## Modules

* **`Attestation`** - the pure part: `sifir-attest`, `verifier.rs` and
  `gpu_verify.rs` as operators with the names of the code. Cryptography is
  symbolic: `Sha256(x)`, `Hex(x)`, `B64(x)`, `Json(x)` and `Sign(key, msg)` are
  records, so each is injective and undone only by its own decoder; a decoder that
  fails returns `None`. Verification functions return `"Ok"` or the name of the
  first error, in the order of the code. Byte offsets are abstracted into fields.
* **`ServerSetup`** (extends `Attestation`) - gateway processes. `proc[h]` is the
  process on host `h`: a program counter over the steps that wait (`ioctl`, `vcek`,
  `chain`, `gpu`, `bind`, ...), the locals computed so far, and as history the GPU mode
  at the time of the token (`cc`); `machine[h]` its chip, image and GPU mode; `nextKey` the next fresh TLS key; `published` the
  certificates ever served (a history variable: what another endpoint may have
  seen). One action per step, `SetupFails` for the failure of each, `AcceptError`
  and `Crash` for the end of the process. `Reprovision` redeploys or replaces a machine
  on which no process runs (image and processor are those of the confidential VM that a
  process lives in); `ChangeCcMode` resets the GPU into another mode at any time, under a
  process that listens too, which never looks again. A build without asynchronous calls (`build_mock_setup`,
  certificate generation) is one step.
* **`RaTls`** (extends `ServerSetup`) - the composition with clients. `run[c]`
  holds both ends of one connection: the client's progress, what it was shown, the
  verdict, the handler's response, and who read the prompt (`receiver`). The
  address may lead to a gateway or to the *stranger*, an endpoint that presents
  served certificates, their extensions under its own key, or certificates of its
  own making, but holds only its own TLS keys. It also states all properties.
* **`AttestedChannel`** - the abstract specification: a prompt is read once, by one
  of the readers its client would have at that moment, or never; an answer comes only
  after that. No keys, certificates or processes.
* **`RaTlsRefinement`** (extends `RaTls`) - the refinement mapping. `Wanted` derives
  the readers from a client's options and the chain it was shown (no promise without
  an image, in mock mode, or under a root other than AMD's), `Phase` and `Reader`
  forget the protocol.
* **`ReportLayout`** - the report as 1184 bytes, each named by the value it belongs to.
  The mock signer (`mock.rs`), the accessors (`report.rs`), the KDS request
  (`amd_attestation.rs`) and the printed measurement (`tls.rs`) use their own offsets,
  as in the code; the firmware writes the fields where `poc/PLAN.md` lists them. `verify`
  is modelled for mock reports only: `with_signature` is "the convention used by the mock
  signer" (`report.rs`), and the format of the firmware's signature is left open. This
  justifies the record `Report` of `Attestation`, for processors' reports as far as the
  fields go.
* **`PemBundle`** - `parse_pem_bundle` as a loop over lines, and the two certificates
  `fetch_vcek_chain` takes. A certificate is the set of its line numbers. `Block`,
  `Body` and `WellFormed` define PEM blocks without a loop. Base64 quads broken over
  two lines are left out.
* **`GpuAttest`** - `gpu_attest.py` from its arguments to its exit status, and
  `get_gpu_jwt`, which reads status and output. NVIDIA's SDK may be missing, log to
  standard output, raise, return anything, never return, or end the script itself with any
  status (`SdkExits`: `SystemExit` and `KeyboardInterrupt` pass `except Exception`,
  `os._exit` passes everything); a signal may come at any point, and an operator may ask
  for `--help`. `ender` remembers who ended the script. `ServerSetup!GetGpuJwt` and
  `SetupFails` are its results.
* **`Gateway`** - the accept loop, the task of each connection and the requests in it.
  `conn[c]` is where a connection is, `req[c][s]` the request on stream `s` (one at a
  time over HTTP/1), `fds` the descriptors of what is in progress. `reqwest::Client::new()`
  in the handler means a socket of its own for each forwarded request. That socket belongs
  to a task that the HTTP client spawns: when the request is answered or dropped, the task
  is only told (`Release` moves the descriptor to `leaving`) and closes it when it is
  polled (`BackendTaskEnds`). Dropping a task drops the handler it polls; over HTTP/2 each
  stream has a task of its own (`TokioExecutor`) and is dropped a step later. `accept4`
  takes a descriptor before it looks at the queue: while the listener counts as ready
  (`ready`) the loop's next call blocks on an empty queue (`AcceptBlocks`) or, with no
  descriptor left, fails and ends `main` (`AcceptFails`), queue or not. Errors of `accept` other than the
  lack of descriptors are `ServerSetup!AcceptError`.
* **`Inference`** - `server.py`: validation, the pool of threads that FastAPI runs plain
  functions on, `/health`, and the one object `llm`. llama-cpp-python is external: a
  call keeps the prefix that its prompt shares with the tokens on record (`Begin`),
  evaluates the rest, and samples and evaluates token by token. An evaluation is three
  steps, between which other threads run: `EvalStart` drops the cells past the record and
  reads `n_past`, `Decode` computes cells with the interpreter's lock released, `Record`
  writes the batch into `input_ids` and raises `n_tokens`. So `context` (what is on
  record), `cache` and `garbled` (what the cells were really computed from) and `logits`
  are variables of their own, and races make them differ. `disturbed` (history) holds the
  requests whose calls overlapped or kept what overlapping calls had left in the context
  (`tainted`). A request that gets 422 or 500, or whose answer is delivered, is forgotten.
* **`GenerationService`** - the abstract specification of `Inference`: a request is let in,
  and then fails or is answered once, with a whole text within its limits that rests on its
  own prompt, unless the request was disturbed: by one that was open at the same time, or
  by what such requests had left. No threads, no queue, no context.
* **`InferenceRefinement`** (extends `Inference`) - the refinement mapping. A request is open
  from its validation to its answer, and nothing of the text is seen before.
* **`RaTlsProofs`, `RaTlsAcceptance`, `RaTlsRefinementProofs`, `ReportLayoutProofs`,
  `PemBundleProofs`, `GpuAttestProofs`, `GatewayProofs`, `InferenceProofs`** - the proofs.
* **`MCRaTls`, `MCRefinement`, `MCInference`** - values of the constants for TLC.

`ReportLayout`, `PemBundle`, `GpuAttest`, `Gateway` and `Inference` are not composed with
`RaTls`: each is a component that
`RaTls` or `ServerSetup` sees through its results (a bundle, a token, an answer, the end
of a process), and the composition would multiply states that do not influence each
other.

Definitions whose comment starts with "Mutant" are faulty variants of the
definition that follows them; no specification uses them. They document which bug
each property detects.

## Properties and runs

| Run | Module, instance | Checks |
|---|---|---|
| `amd` | `MCRefinement`; 1 host, 1 client, 2 TLS keys; AMD, AMD+GPU and mock gateways; machines with images `m1`/`m2` and GPU on/off, which changes at any time; KDS with a VCEK or garbage, a good, an RSA and a short bundle; clients with and without expected image and `--gpu-cc`; stranger with its own processor, wrong issuer, own root, broken chain, no extension | `TypeOK`, `AttestedReceiver`, `HonestGatewayAccepted`, `ImplementsChannel` |
| `mixed` | `MCRaTls`; 1 host, 1 client, 2 keys, fairness; mock gateways with and without backend, AMD and GPU gateways; clients of both modes; stranger with mock reports and damaged encodings | `SameMode`, `BoundReceiver`, `OnlyBackendDelays`, `SetupResolves` |
| `pem` | `PemBundle`; all texts of up to 7 lines | `TypeOK`, `CertsAreTheBlocks`, `AcceptsExactlyBundles`, `ChainOrder` |
| `layout` | `ReportLayout`; mock reports with every byte changed once, the processor's report for its fields | `AcceptedIffIntact`, `PrintedIsMeasured`, `ReadBack` |
| `gpu_script` | `GpuAttest`; nonces of 4 characters, arguments of up to 5, no argument, `--help`, fairness | `TokenFromSuccess`, `ExitCodes`, `GatewayLearns` |
| `gateway` | `Gateway`; 2 peers, 2 streams, 3 descriptors, fairness | `DescriptorsMatch`, `EchoStaysUp`, `ExitsOnlyFull`, `QueuedIsAccepted`, `RequestsResolve`, `ClosedIsReleased` |
| `inference` | `MCInference`; 2 requests, 1 probe, 2 threads, 3 prompts over 2 tokens, `max_tokens` of 0, 2 and 3 (limit 2), a context of 3, fairness | `AnswerWithinLimits`, `LoneCallsUnmixed`, `ImplementsService`, `EveryJobAnswered` |
| `unpinned_root` | `MCRaTls`; violation | `AcceptedChainIsAmdRooted` |
| `gpu_flag` | `MCRaTls`; violation | `GpuFlagHonoured` |
| `hardware_swap` | `MCRaTls`; violation, 1 host, 2 clients, no certificate of the stranger's own | `HardwareSwapRefused` |
| `kds_request` | `ReportLayout`; violation | `KdsRequestNamesChip` |
| `inference_shared` | `MCInference`; violation, 2 requests at a time | `OwnPromptOnly` |

* `AttestedReceiver`: a prompt of an `--amd` client that names its image, under a
  chain ending at AMD's root, is read only by a gateway whose machine runs that
  image *when it reads it*; under `--gpu-cc` its GPU was in confidential mode when this
  process asked for its token, and may have left it since. Restart, redeployment and
  replay between verdict and delivery are all in the run.
* `BoundReceiver`: in every mode, who reads a prompt holds the key that the
  accepted report binds.
* `SameMode`: the server's statement of its mode cannot change the trust anchor.
* `HonestGatewayAccepted`: completeness. The hypothesis `Fulfils` is about what comes from
  outside: the machine, the token's claims, and the answers of the KDS, which are the VCEK
  and a bundle with the ASK before the ARK, "per AMD documentation" (`fetch_vcek_chain`).
  The order of the chain in the extension, the encodings and the nonce are the gateway's
  doing and are what is checked. It also assumes that AMD's keys for the product are P-384:
  those of Milan, the default product (`main.rs:38`), are RSA keys, and the client refuses
  its chain (`amd_certs.rs:17`, `DEVIATIONS.md` D6, `TESTING.md:163`). Key extraction
  from the certificate is the identity in the model, so a slip there is not caught.
* `OnlyBackendDelays`, `SetupResolves`: the only endless waits are on the backend of a
  gateway that lives and on the GPU script, where the code sets no timeout. A gateway that
  dies while it waits for its backend leaves no client hanging.
* `ImplementsChannel`: the composition is an `AttestedChannel`. Beyond the invariants
  it says that a prompt is read at most once, in the step in which a machine the client
  asked for is there, that an answer follows only that, and that failure is final: one
  retry anywhere between client and backend would break it.
* `CertsAreTheBlocks`, `AcceptsExactlyBundles`, `ChainOrder`: no text of an abandoned
  block enters a certificate, a damaged block is an error and never dropped, text around
  blocks is allowed, and the pair in the chain is the first and the second block.
* `AcceptedIffIntact`, `PrintedIsMeasured`, `ReadBack`: a client accepts a mock report
  exactly if no byte outside the padding was changed; the measurement that members copy from the
  gateway's output is the one their clients compare.
* `TokenFromSuccess`, `ExitCodes`, `GatewayLearns`: a complete result of a script that
  then failed does not count; the documented statuses hold whenever the script itself comes
  to an end. When the SDK ends it they need not (0 without a result, 2 after the SDK ran);
  then the output alone can be relied on, which the gateway asks for as well.
* `DescriptorsMatch`, `ExitsOnlyFull`: whatever ends a connection, in the middle of
  forwarded requests too, gives back what it held, at once or through the task of the
  backend's socket, so that only the lack of descriptors, never a failed handshake or
  request, ends the gateway.
* `EchoStaysUp`: without a backend, one descriptor more than there are peers keeps the
  gateway up. With as many as peers it may exit with nobody queued.
* `QueuedIsAccepted`, `RequestsResolve`, `ClosedIsReleased`: no connection waits behind
  a silent one; at the limit a request is answered (502) and does not wait; a peer that
  leaves frees the backend sockets of requests that nobody answers.
* `AnswerWithinLimits`, `LoneCallsUnmixed`, `EveryJobAnswered`: what survives the shared
  model beside what does not (`OwnPromptOnly`). Limits and progress do. A call that runs
  alone answers from its own prompt too, with one exception: if it keeps a prefix that
  overlapping calls left on record, the cells under it need not be those tokens'.
* `ImplementsService`: beyond the invariants, a request is let in once and its answer or
  failure is final, nobody's call is disturbed before it was let in or after it was
  answered, and no answer is visible in parts. A retry of a failed request would break it.

**Bounds.** Clients do not influence each other (a connection is a task of its
own, nothing is shared but descriptors, which `Gateway` has), so one client suffices
except where a property compares two. Two keys give one restart, the event that
separates "the process I verified" from "the process that listens now", and let the
stranger present the certificate of a gateway that ran in another mode. More hosts are
covered by the theorems, which fix no number of hosts for any safety property. `MaxKeys` bounds `Launch` only, so no process is cut off half
way. Seven PEM lines hold two blocks with a body line and a stray line, or three empty
ones. Three descriptors for two peers with two streams let the limit be met by
connections, by requests, by sockets on their way out, and by mixtures, and are the least
that `EchoStaysUp` asks for. A context of 3 tokens with prompts of 1 to 3 tokens, one of
which can keep a part of what another has left, and `max_tokens` below, at and above the
limit has the interesting relations of prompt, context and limit; two threads and two
requests have every overlap of two evaluations. In
`GpuAttest` the length of 64 is a constant; 4 leaves room for odd and misplaced white
space.

**Fairness.** `FairSpec` assumes weak fairness of the steps the two async runtimes
take by themselves (handshake, sending, handling, receiving, noticing the end of
the peer's process) and of setup steps other than the GPU script: KDS requests
carry a 10 s timeout, after which they fail. `Crash` is the death of a process on a
host that stays up, so TCP reports it. The loss of a whole host, which TCP would
not report and against which neither side sets a timeout, is outside the model.
The backend, the GPU script and the stranger are not assumed to make progress. In
`Gateway`, tokio polls the accept loop, ready handlers, and the tasks of backend sockets
whose clients are gone; handshakes, requests and the
backend's answers depend on others and are not fair. In `Inference`, the event loop hands
out free threads and the system schedules each thread. In `GpuAttest`, the script's own
steps and the gateway's wait are fair, the call of the SDK is not.

**Findings** (the violation runs). The root of the chain is not compared with
AMD's key, which `poc/PLAN.md` requires and the source marks as a TODO; this is
why `AttestedReceiver` and `Wanted` are stated for chains rooted at AMD. `--gpu-cc`
without `--amd` is silently dropped by the gateway. The chip identity is never checked,
so clients do not notice a hardware swap with the same image, against T6 of
`docs/threat-model.md`: in the trace the only endpoint is one gateway, which two clients
with the same options accept before and after `Reprovision` has replaced its processor. The request for the VCEK is cut out of the report at offsets
0x038 and 0x188, where neither `report.rs` nor `poc/PLAN.md` has the reported TCB and
the chip identity, so it names 24 reserved bytes and part of the chip. The inference
server calls one model object from several threads without a lock: in the trace a second
prompt is evaluated, in the same cells, between the evaluation of the first and the
sampling of its answer.

Noted on the way, without a run: `validate_nonce` of `gpu_attest.py` accepts 64 characters
that hold white space between digits, because `bytes.fromhex` does (`fromhex` in
`GpuAttest`); the gateway passes digits only.

## Proofs

Every safety property that a passing run checks is also proved, for all values of the
constants. The liveness properties (`OnlyBackendDelays`, `SetupResolves`,
`QueuedIsAccepted`, `RequestsResolve`, `ClosedIsReleased`, `EveryJobAnswered`,
`GatewayLearns`) are checked by TLC only: fairness is beyond the proof system. Out
of reach as well is induction over data, which a proof that the recursive `fromhex` of
`GpuAttest` accepts the gateway's nonce at every length would need.

`RaTlsProofs` proves, for all values of the constants,

* `TypeCorrect`: `Spec => []TypeOK`,
* `ReceiverIsBound`: `Spec => []BoundReceiver`,
* `ReceiverIsAttested`: `Spec => []AttestedReceiver`,
* `ModesMatch`: `Spec => []SameMode`.

Assumptions: `NoneAssumption` (the absence of a value is none of the values that the
data model builds), `DataAssumption`, `SetupAssumption`, `ClientAssumption` (types; keys of
gateways and of the stranger differ; the mock key and those of processors are P-384 keys,
AMD's are P-384 or RSA keys) and
`PkiAssumption`: AMD signs certificates only for its own keys, and a processor's
report that binds the stranger's key is not about an image of the gateway, because
the gateway asks for reports on its own key only. TLC evaluates all five on every
run.

None of them is inductive. `IInv` adds, per process, which locals exist at
which step (`SetupOK`: a certificate is typed only because report, chain and token
were computed before it, and states the mode the process was started in) and that they describe the machine (`TruthOK`); that keys
are fresh (`KeysOK`) and no process but the one connected to can have a
connection's key (`PeerOK`: this is what makes a restart visible); and what each run
has established (`ConnOK`: a reader of a prompt passed the checks, a gateway's
certificate was true at delivery, the stranger's certificate is its own or binds a
gateway's key). Two lemmas, `ProcStep` and `RunStep`, reduce every action to the new
value of one process or one run; then there is one lemma per action. `AcceptedCert`
turns a positive verdict into facts about the certificate. In `InvAttested` the
stranger is excluded: a replayed extension binds a gateway's key, which the stranger
does not hold, and a foreign certificate under AMD's root carries a processor's
report about another image (`ForeignReportImage`). `IInv` was checked with TLC on
the instances of `amd` and `mixed` before it was proved.

`RaTlsAcceptance` proves the converse, `HonestIsAccepted` (`HonestGatewayAccepted`), from
the same assumptions; that AMD's keys are P-384 is a hypothesis of the property. `IInv`
says that what a gateway claims is true; it does not say that the claim can be checked.
`HonestInv` adds it, from the step that computes a value to the run that is shown it: the
report has the hash of the process's own key and is signed by the chip it names or by the
mock key, a readable token has the hash as its nonce, and the chain is made of the KDS's
answers in the order that the client expects (`HonestProc`, `ChainOf`); so is everything
in the certificate (`HonestCert`, `ShowsChain`), and the verdict of a run is that on the
certificate it was shown (`HonestRun`). In `HonestPasses` the option values and KDS answers
that `HonestGatewayAccepted` asks for lead through each check of the client:
`GenuineChainVerifies` decodes the chain in the extension and follows its signatures to
the chip's key, `PassingCert` collects the rest.

`RaTlsRefinementProofs` proves `ChannelIsImplemented`: `Spec => Channel!Spec` under the
mapping, from `IInv` and the extra assumption `ReaderAssumption` (the absence of a reader
is no reader). `InitMaps` and `StepMaps` are the two halves; in `StepMaps` a step of one
client maps to `Ask`, `Deliver`, `Answer`, `GiveUp` or a stutter (`ClientMoves`), a step
of a gateway to `Redeploy` or a stutter. `Delivers` is where the invariant is needed: the
reader is wanted because of `InvAttested`.

`PemBundleProofs` proves the four properties of `PemBundle` for texts of any length. The
loop invariant `LoopInv` ties `in_cert`, `b64` and `certs` to the lines read so far: the
open block is the one after the last marker, `b64` its non-blank lines, and every END read
has closed a block that decodes.

`GatewayProofs` proves `DescriptorsAccounted` (`DescriptorsMatch`), `ExitsFull`
(`ExitsOnlyFull`), `EchoGatewayStaysUp` (`EchoStaysUp`) and `GatewayTypeCorrect`, for any
number of peers, streams and descriptors. The invariant `Books` keeps the descriptor table
(`Table`: no descriptor has two uses, nothing has two descriptors) and what it is for
apart: what is in the table is in use (`Used`), accepted peers are in it (`Own`), and
without a backend nothing is forwarded (`Echo`). The kernel's queue holds a peer once
(`Queue`): accepting its head must not open a second socket for it. `ReleaseTable` says
that letting go of any set of sockets keeps the table, whichever of them close at once.
`FullOfPeers` counts: if nothing is free in echo mode, every descriptor is a peer's own
socket, so there are no more descriptors than peers.

`InferenceProofs` proves `LimitsHold` (`AnswerWithinLimits`) for any number of requests,
threads and tokens. `JobOK` bounds the answer of a job at each of its steps, `Admitted`
remembers that `max_tokens` was validated when the job was taken in, `QueueOK` and
`ProbesOK` that only such jobs reach the model; none of this depends on what the cells
hold. `LoneCallsAreRight` (`LoneCallsUnmixed`) rests on `LoneInv`: while the context is not
tainted, at most one call runs, what is on record is what the cells were computed from
(`Sound`), and at each of the three steps of an evaluation the record, the cells, what is
pending and the logits are together the prompt of that call and what it has sampled
(`OwnCall`). `BeginLone` establishes it: from a sound context, because the tokens that are
reused are a prefix of the prompt, or from any context whatsoever if nothing is reused.
`SerialCallsAreRight` adds that a pool of one thread (`OneThread`: nothing is ever tainted)
gives `OwnPromptOnly`, the property of the violation run: what `server.py` lacks is mutual
exclusion and nothing else.

`ServiceIsImplemented` is `Spec => Service!Spec` under the mapping of `InferenceRefinement`.
`StatusMoves` and `StatusStays` say what a new job means for the mapped reply; each action
then has its lemma: `ReceiveMaps` maps to `LetIn`, `BeginMaps` to `Call` or `End`,
`EvalMaps` to a stutter or `End`, `SampleMaps` to `Answer`, `End` or a stutter, and whatever
forgets a job to `End` (`ForgetMaps`). `AnswerMaps` is where the invariants are needed: the
limits come from `JobOK`, the claim about the prompt from `LoneCallsUnmixed` after the step.

`GpuAttestProofs` proves `TokensAreGenuine` (`TokenFromSuccess`) and `StatusIsTrue`
(`ExitCodes`), for any length of nonces. `BeforeSdk` and `AfterSdk` tie the result and the
output of the script to the step it has reached, `StatusMeans` its status to both if the
script itself ended, and says what the output may be however it ended; `GatewayOK` ties the
gateway's token to an exit with status 0.

`ReportLayoutProofs` is about bytes. `CopyInto` and `Kept` say what a copy writes and what
it leaves, and following them through the writers gives `MockWellFormed` and
`FirmwareWellFormed`: each field at the offset where `report.rs` reads it. The signature is
written next to the fields of a mock report (`SignedWellFormed`); what the firmware writes
as its signature is not assumed to be anything that the code could read.
`OnlySignedBytesPass` goes beyond the run `layout`: whatever byte string the client reads in
mock mode, and not only a report with one byte changed, `verify` accepts it exactly if it
agrees with the signed report outside the padding. For the runs of the module, `LayoutInv`
says that the report is the one that was built up to the byte that was altered, which is told from all others because no writer writes it
(`Clean`); `VerdictIsRight`, `PrintedMeasurementIsRight` and `FieldsAreReadBack`
(`AcceptedIffIntact`, `PrintedIsMeasured`, `ReadBack`) follow. That a signature is good for
one region only is the model's (`TheSignature`), as everywhere here.

Like `IInv`, each of these invariants was checked with TLC on the instance of its run before
it was proved.

## Not modelled

* Two KDS answers that disagree with the chip, other than by their certificates: the KDS
  is external, and its answer to the request of `kds_request` is unknown.
* The format of the firmware's signature, and so the verdict on a processor's report as
  bytes: `report.rs` notes that the convention is the mock's and unverified on hardware. In
  `Attestation` a genuine report has a signature that verifies, as an assumption.
* The extraction of a public key from a certificate: an identity in `Attestation`.
* HTTP redirects, name resolution and its sockets, keep-alive of backend connections, the
  sizes of bodies (axum's limit shows as a local answer in `Gateway`), retries inside
  `hyper` and `reqwest`.
* Base64 quads that are broken over lines, and line endings, in `PemBundle`.
* What llama-cpp-python computes: only which tokens it was computed from, and how many. A
  race of two evaluations that aborts the process, or makes the library evaluate or sample
  a token again, is left out as well: a race garbles cells and goes on. The model file and its loading (`MODEL_PATH`, `N_CTX`) are the initial state.
* The loss of a whole host, which neither side would notice (see Fairness).
* Certificate validity times and server names: the verifier ignores them.
* Governance, tokens and metering: no code. Logging and formatting.

## Plan

1. An abstract specification of `Gateway`: a pool of descriptors that connections and
   requests take from and give back to, which ends only when it is empty.
2. For `SetupResolves` and the other liveness properties, the safety half that the proof
   system reaches: that a waiting state always has a step left to take.
