# TLA+ models of the BSC NAT media-gateway core (openbsc)

This directory holds TLA+ models of `src/openbsc/src/osmo-bsc_nat/bsc_mgcp_utils.c`,
the MGCP part of the BSC NAT, and of the paging requests of
`src/openbsc/src/libmsc/gsm_subscriber.c`. It also holds the TLC configurations that check
the models, the TLAPS proofs about them, and `PROJECT.json`, which maps every
definition to the lines of code it models and lists the runs, mutants,
findings and hazards.

## The system

The NAT sits between an MSC's Call Agent and many BSCs, and it shares one
trunk of Call Agent endpoints among them.

- **Assignment patcher** (`bsc_mgcp_assign_patch`). When the MSC sends an
  ASSIGNMENT REQUEST on an SCCP connection (a call), the patcher:
  - decodes its CIC into a Call Agent endpoint `msc_endp`;
  - tears down every other call bound to that endpoint;
  - allocates an endpoint of the call's BSC (`bsc_endp`);
  - rewrites the CIC in the message.
- **Allocator** (`bsc_assign_endpoint`). It keeps a status byte per BSC
  endpoint and scans cyclically from the BSC's `last_endpoint` cursor, skipping
  timeslots 0 and 31.
- **Policy callback** (`bsc_mgcp_policy_cb`). The MGCP parser calls it for
  each CRCX/MDCX/DLCX from the Call Agent. It finds the call that owns the
  endpoint (`bsc_mgcp_find_con`) and then does one of two things:
  - it relays the rewritten command to that call's BSC and parks the
    transaction in the endpoint's pending slot (`nat->bsc_endpoints[e]`),
    returning DEFER;
  - or it lets the parser answer itself (REJECT / CONTINUE).
  A DLCX also tears the call down.
- **Reply forwarder** (`bsc_mgcp_forward`). It matches a BSC reply against
  the pending slots of that BSC by transaction id:
  - a reply with a CI is forwarded to the Call Agent;
  - a reply without one frees the slot (`free_chan_downstream`) and, for a
    CRCX, sends a DLCX down.
- **Teardown** (`bsc_mgcp_dlcx`) clears a call's status byte, sends a DLCX
  to the BSC, frees the pending slot and unbinds the call.
- **BSC loss** (`bsc_mgcp_clear_endpoints_for`) frees every slot the lost
  BSC holds.
- **Rewriter** (`bsc_mgcp_rewrite`, `patch_mgcp`). It is called by the policy
  callback (with the call's BSC endpoint) and by the forwarder (with -1). It
  rewrites a message line by line: command lines get the endpoint, `c=IN
  IP4` lines the NAT's address, `m=audio` lines the NAT's port, and an
  `a=fmtp` line is appended after the last payload.
- **Paging** (`gsm_subscriber.c`, in the MSC, not the NAT). Callers queue
  requests on a subscriber being paged. A paging response runs the security
  procedure, whose callback dispatches the queued requests.

## Modules

| module | models | kind |
|---|---|---|
| `BscEndpoints` | endpoint/CIC numbering (`bsc_mgcp_nr_multiplexes`, `create_cic`, the CIC decode of lines 192-197, the `mgcp.h` helpers) and the allocator's choice in closed form (`AssignEndpoint`) | operators, no recursion |
| `EndpointAllocator` | one BSC's status array and cursor; `bsc_assign_endpoint` as the code runs it, iteration by iteration (`Normalize` = lines 123-143, `ScanCandidates`, `ScanAssign`); release by `bsc_mgcp_dlcx` | state machine, TLC only (recursive function) |
| `CicCodec` | every 16-bit CIC, decoded as the patcher decodes it | pure check |
| `MgcpNat` | the NAT core: calls, both endpoint bindings, per-BSC status arrays and cursors, pending slots, trunk CIs, and an environment of BSCs and a Call Agent | state machine |
| `CallAgentTransactions` | what the NAT promises the Call Agent about its MGCP transactions (spec sections 4.2, 4.4, 5): each is new, pending or closed, and answered at most once, never after it closed | abstract spec |
| `MgcpNatTransactions` | the refinement mapping from `MgcpNat` to `CallAgentTransactions`, and the property `TransactionsRefined` | refinement |
| `BscEndpointsProofs`, `CicCodecProofs` | TLAPS lemmas and theorems on the numbering, the CIC decode and the allocator's choice | theorems |
| `EndpointAllocatorProofs` | TLAPS theorem on one iteration of the allocator's scan (`Normalize`) | theorems |
| `CallAgentTransactionsProofs` | TLAPS proof of the abstract spec's invariant `AnsweredOnlyWhenClosed` | theorems |
| `MgcpNatProofs`, `MgcpNatAnswerProofs`, `MgcpNatTransactionProofs` | TLAPS proofs about `MgcpNat` and its refinement | theorems |
| `MgcpRewrite` | `bsc_mgcp_rewrite` and `patch_mgcp` as a state machine over one call: the length check, one step per iteration of the `strsep` loop, the `a=fmtp` append; and the spec's rewrite (`SpecRewrite`) as a reference | state machine |
| `PagingRequests` | the subscriber paging functions of `gsm_subscriber.c` as this build compiles them | state machine |
| `MCMgcpNat`, `MCEndpointAllocator`, `MCMgcpRewrite` | instances for TLC | model constants |

### `MgcpRewrite`: how the rewriter is abstracted

A message is a sequence of segments, the text between LFs. Each segment is
a record: its kind (a verb, `c=IN IP4 `, `m=audio`, `a=fmtp:` or other),
whether it ends in CR, its length, the length of its transaction-id token,
and its payload type. A payload type of -1 marks an `m=audio` line that
`sscanf` cannot parse. The output is the sequence of pieces the
`msgb_put` calls append. Each piece has the byte count the code computes
(`PieceLen`, with `%d` and `%x` widths; a negative endpoint prints as 8 hex
digits). The state keeps `output->l3h` and the fill as byte offsets. So
`SprintfAtL3h` models exactly what `patch_mgcp` does: it prints at `l3h`,
which is the start of the last piece put, not the tail. As `strsep` does,
the model never processes the last segment (no LF follows it). The
message's bytes are never built: the properties only need lengths and line
kinds.

### `PagingRequests`

The variables are `is_paging`, the request queue and the paging reference of
each subscriber, the security procedures in flight (the `param` their
callback will receive), and whether an assertion aborted the process.
`paging_request` is under `#if 0`, with `rc = -ENOTSUP`, so
`subscr_request_channel` on a subscriber that is not paged returns `NULL`
and changes nothing. `RequestChannel` and `RemoveRequest` can therefore
fire only on a subscriber being paged, which never happens in this build.
`gsm48_secure_channel` is not in this repository. The model assumes only
that it ends by calling `subscr_paging_sec_cb` with the `cb_data` it was
given.

### `MgcpNat`: how state and actions follow the code

Variables:

| variable | code state |
|---|---|
| `conBsc[c]` | `con->bsc`; a connection is open when `conBsc[c] # NoBsc` |
| `mscEndp[c]` | `con->msc_endp` |
| `bscEndp[c]` | `con->bsc_endp` |
| `endpInit[b]` | `_endpoint_status` has been allocated |
| `inUse[b]` | the endpoints whose status byte is 1 |
| `lastEndp[b]` | `last_endpoint` |
| `slots[e]` | `transaction_id`, `transaction_state` and `bsc` of `nat->bsc_endpoints[e]` |
| `ci[e]` | the trunk endpoint's `ci` |

The environment has four variables:

- `toBsc[b]`: the transactions relayed to BSC `b`. The BSC may answer any of
  them at any time, any number of times, with or without a CI. This models
  late and duplicated replies.
- `bscView[b]`: the endpoints `b` was sent a CRCX for, with no DLCX since.
- `usedTids`: the Call Agent uses each transaction id once.
- `answers[t]`: how many answers the Call Agent got for transaction `t`. The
  count saturates at 2.

Each action models a whole handler:

- `AssignPatch` follows the code's order: the range check, then the
  stale-call teardown, then `msc_endp` is set, then the status array is
  allocated, then the allocator runs. When the allocator fails, the call
  keeps its `msc_endp`.
- `Policy` resets the slot, then takes one of three outcomes. With no owner,
  or when the rewrite fails, the parser answers. Otherwise `PolicyRelay`
  takes the verb's branch:
  - CRCX and MDCX are parked and sent to the BSC;
  - DLCX parks the slot, then runs `bsc_mgcp_dlcx`.
- `Forward` has two branches:
  - a reply with a CI sets the CI, clears the id and state (the slot keeps
    its `bsc`) and answers the Call Agent if the rewrite succeeds;
  - a reply without a CI frees the slot and, for a pending CRCX of this
    BSC's call, sends a DLCX.
  Replies that match nothing change nothing: that is a stutter.
- `CloseConn` is the end of a call (`bsc_mgcp_dlcx`, then removal).
- `BscDisconnect` frees the lost BSC's slots and trunk CIs. It also drops the
  BSC's calls and its status array. That part happens outside this file and
  is modelled from the spec.

Data is abstracted away:

- the message text;
- SDP;
- the socket I/O;
- the fake MDCX after a CRCX (it carries no transaction).

The outcome of `bsc_mgcp_rewrite` is a boolean chosen nondeterministically.

## Runs

**Passing runs**

- `nat_core` (`MCMgcpNat.cfg`).
  - **Instance:** 2 BSCs, 2 calls, 2 transaction ids, trunk endpoints 1-2
    (`number_endpoints = 3`), and `max_endpoints = 3`, so each BSC has
    endpoints 1-2. The CICs are 1, 2 and 3; CIC 3 is out of range. Symmetry
    is over BSCs, calls and transaction ids, which are interchangeable model
    values.
  - **Why these bounds are enough:** two calls can collide on one Call Agent
    endpoint, from the same BSC or from different BSCs. Two calls exhaust a
    BSC, so the allocator fails. Replies can be duplicated, late, or without
    a CI.
  - **What it checks** (286,496 distinct states):
    - `TypeOK`;
    - `MscEndpUnique`: at most one call per Call Agent endpoint, so
      `bsc_mgcp_find_con` is unambiguous;
    - `SoundAllocation`: a held BSC endpoint is marked and held by no other
      call of its BSC;
    - `TeardownSlotInBounds`: a call that holds a BSC endpoint has a valid
      Call Agent endpoint, so `bsc_mgcp_dlcx` never indexes slot -1;
    - `BscConnectionsReserved`: an endpoint the BSC may still use is marked;
    - `AnsweredAtMostOnce`;
    - `AnswerClosesTransaction`: the abstract invariant
      `AnsweredOnlyWhenClosed` read through the mapping. A transaction
      is answered at most once, and only when it is closed: never while
      the Call Agent has not used its id, and never while it is parked and
      relayed. The mutant `ForwardKeepsTransaction` breaks it. That mutant
      answers a BSC reply but leaves the slot holding the id;
    - `TransactionsRefined`: the NAT implements `CallAgentTransactions`
      (see below). The mutant `ForwardKeepsTransaction` breaks it: a second
      reply is answered while the transaction stays pending.
- `mc_allocator` (`max_endpoints = 40`, two multiplexes). It checks
  `ScanFollowsCyclicOrder`: the code's scan visits every handable endpoint
  once, in cyclic order after the cursor, and picks what `AssignEndpoint`
  picks, whatever one more endpoint in use would be. This justifies using the
  closed form in `MgcpNat`. Forty endpoints make the scan skip timeslots 31
  and 0 into multiplex 1 and take the restart past endpoint 39. The
  multiplex wrap of lines 133-134 always lands where that restart would, at
  (0, 1), so it needs no instance of its own. The scan is a recursive
  function of depth `max_endpoints`; with coverage on, TLC's stack bounds
  that depth to about 50.
- `allocator_full` (`max_endpoints = 6`, all five endpoints may be held). The
  same check plus `TypeOK`, run through exhaustion.
- `rewriter` (`MCMgcpRewrite.cfg`, 505,742 distinct states). It checks
  `RewriteMatchesSpec`: every message with one command line and up to three
  body lines of every kind, CR and LF endings, endpoints 1 and 33, and
  inputs of 3840 and 3841 bytes at the length check. The rewrite must emit
  exactly the spec's lines, or fail exactly when the spec says it fails.

One-off TLC runs, not kept, found three more departures. They are
recorded as hazards in `PROJECT.json`:

- with `max_endpoints = 2`, the scan hands out only endpoint 1 (line 139);
- `bsc_mgcp_rewrite` with endpoint -1 prints `ffffffff@mgw` (lines 381, 565);
- a transaction id of 40 characters or more overflows `patch_mgcp`'s
  `buf[40]` (line 558).

A one-off TLC run with `max_endpoints = 1` (4 states, too few to keep as a
run) confirmed that the scan hands out endpoint 1. There the restart lands on
1 even though 1 is not below max, and `ValidEndpoints` includes it.

**Violation runs.** Each checks one statement of the spec and shows where the
code departs from it. See `findings` in `PROJECT.json`.

| run | property | what TLC finds |
|---|---|---|
| `status_matches_owners` | `StatusMatchesOwners` | a re-assignment leaks the first BSC endpoint (line 218) |
| `no_ci_reply_tears_down` | `NoCiReplyTearsDown` | a CI-less CRCX reply only sends a DLCX (lines 432-447) |
| `cic_codec` | `CicDecodeMatchesSpec` | the `uint8_t` multiplex aliases CICs modulo 8192 (line 194) |
| `parked_resolved` | `ParkedResolved` | a failed allocation leaves a half-bound call (line 220); a DLCX on it is parked but never sent, and the slot is held forever (line 389) |
| `rewrite_piggyback` | `RewriteMatchesSpec` | a second command line overwrites the previous line and leaves a NUL and stale bytes (line 565) |
| `rewrite_fits_buffer` | `RewriteFitsBuffer` | many short `c=` lines in an accepted input outgrow the 128-byte slack and `msgb_put` panics (line 652) |
| `paging_response` | `PagingResponseSafe` | every paging response reaches `OSMO_ASSERT(vsub && ...)` with `vsub = NULL` (`gsm_subscriber.c` lines 142, 76) |

Every property of a passing run is broken by a mutant of the code it rests
on. For example, dropping the stale-call loop of `bsc_mgcp_assign_patch`
breaks `MscEndpUnique`, and setting `msc_endp` before that loop breaks
`TeardownSlotInBounds`. The full list is in `PROJECT.json`.

**Fairness.** `Spec` assumes none. `LiveSpec` adds weak fairness on
`BscAnswers(b, t)`: BSC `b` gives transaction `t` a final reply that carries a
CI. The NAT never times a transaction out (spec section 5), so without some
assumption on the BSC nothing is ever resolved. Only the CI reply is assumed,
because it is the reply the BSC's own media gateway gives to a command it
accepted. A reply without a CI may come, but is not forced. Nothing is
assumed of the Call Agent, the MSC or the calls. Under this fairness the
run `parked_resolved` checks `ParkedResolved` (every parked transaction is
eventually resolved) and finds it violated. A DLCX on a half-bound call is
parked with nothing sent, so no BSC reply can free it.

## Proofs (TLAPS)

The theorems hold for all values of the constants. They rest on these
assumptions from `MgcpNat`:

- `NumEndpoints` is a positive natural;
- `MaxEndpoints` is a natural;
- every CIC is a natural `=< 65535`;
- `NoBsc` and `NoTid` are not in `BSCs` and `Tids`.

Theorems:

- `TypeCorrect`: `Spec => []TypeOK`. There is one lemma per action. They rest
  on three facts, proved in `BscEndpointsProofs`:
  - `AssignEndpointRange`: the allocator returns `NoEndp` or a free valid
    endpoint;
  - `LeastIsMinimum`: `Least` of a non-empty set of naturals is its minimum,
    proved through well-foundedness of `<` on `Nat`;
  - `CicToEndpointNat`.
- `MscEndpointsUnique`, `AllocationSound` and `ConnectionsReserved`:
  `Spec => []MscEndpUnique`, `[]SoundAllocation` and
  `[]BscConnectionsReserved`. All three follow from the inductive invariant
  `IInv`.

`IInv` is the conjunction of:

- `TypeOK`;
- `MscEndpUnique`;
- `SoundAllocation`;
- `BscConnectionsReserved`;
- `EndpStatusAllocated`: a call that holds a BSC endpoint belongs to a BSC
  whose status array exists.

None of these properties is inductive alone, and they depend on each other:

- **Teardown.** `bsc_mgcp_dlcx` frees the endpoint only when the status array
  exists. `EndpStatusAllocated` ensures that every held endpoint really is
  freed.
- **Allocation.** `SoundAllocation` is preserved by allocation because of
  itself: the allocator picks an endpoint not in `inUse`, and every endpoint
  still held by another call is in `inUse`, so the new endpoint is held by no
  one.
- **CRCX relay.** `BscConnectionsReserved` after a CRCX relay needs
  `SoundAllocation`: the endpoint sent to the BSC is the call's own, and that
  endpoint is marked.

`IInv` was model-checked as an invariant of the `nat_core` instance before it
was proved. The proof has one lemma per action, with a step per conjunct the
action can disturb. The two teardown lemmas are shared by `CloseConn`,
`AssignPatch` and the DLCX branch of `PolicyRelay`:

- `TeardownKeepsOthers`: a surviving call's endpoint stays marked;
- `TeardownKeepsReserved`.

`MgcpNatAnswerProofs` proves two more theorems:

- `AnsweredOnce`: `Spec => []AnsweredAtMostOnce`. The inductive invariant
  `AInv` is the conjunction of:
  - `TypeOK`;
  - `AnsweredAtMostOnce`;
  - `FreshTidsUnused`: a transaction id the Call Agent has not used yet has
    no answer, no message to a BSC, and no slot;
  - `TidInOneSlot`: a transaction is parked in at most one slot;
  - `AwaitedUnanswered`: a parked transaction that its BSC still has to
    answer is unanswered.

  The forwarder answers only what is parked. After answering, it clears the
  slot's id. So a second reply, or a duplicate of it, matches no slot.
  Freshness is what makes a new command's answer the first.
- `TeardownInBounds`: `Spec => []TeardownSlotInBounds`. It uses the
  invariant `BInv`: `TypeOK` and `BscEndpNeedsMscEndp`, which says that a
  call holding a BSC endpoint holds a Call Agent endpoint. The only step
  that binds a BSC endpoint is `AssignPatch`, and it sets `msc_endp` first.

Both invariants were model-checked on the `nat_core` instance before they
were proved.

### Refinement: `MgcpNatTransactionProofs`

`CallAgentTransactions` is the Call Agent's view. Each transaction id has a
phase, `new`, `pending` or `closed`, and an answer count. Its actions are:

- `Send(t)`: a new transaction becomes pending (relayed to a BSC);
- `AnswerAtOnce(t)`: a new transaction is closed with one answer (the
  parser's own answer);
- `Reply(t)`: a pending transaction is closed with one answer (a forwarded
  BSC reply);
- `Abandon`: pending transactions are closed without an answer.

The first two may also close other pending transactions, since a command
replaces what the endpoint's slot held. Nothing ever leaves `closed`, and
nothing is answered outside `AnswerAtOnce` and `Reply`.

The mapping (`MgcpNatTransactions`) is `phaseBar`. A transaction is `new`
while it is not in `usedTids`. It is `pending` while some slot holds it and
that slot's BSC has it in `toBsc` (`Awaited`, built from `Relayed`). It is
`closed` otherwise. The answer counts are the NAT's own.

`TransactionsRefine: Spec => TransactionsRefined` is proved as in the TLAPS
refinement examples. `Init` maps to the abstract `Init`, and
`NextRefines: AInv /\ [Next]_vars => [CA!Next]_CA!vars` has one lemma per
action:

- `Policy` maps to `AnswerAtOnce` (when not deferred, and for a DLCX) or to
  `Send` (a CRCX or MDCX relay);
- `Forward` with a CI and a successful rewrite maps to `Reply`. Every other
  matched reply maps to `Abandon`;
- `CloseConn`, `AssignPatch` and `BscDisconnect` only clear slots and
  `toBsc`, so they map to `Abandon` (lemma `ClearingAbandons`). `OpenConn`
  is a stutter, which `Abandon` also allows.

The shared lemma `StepMayClose` says that a step which parks, relays and uses
no id outside a set `T` only closes pending transactions outside `T`. The
invariant `AInv` is needed three times:

- `FreshTidsUnused` makes a new id's phase change exactly one abstract step;
- `AwaitedUnanswered` makes the forwarded answer the count 1 that `Reply`
  demands;
- `TidInOneSlot` makes the transaction closed once its one slot is cleared.

The abstract spec's own promise is proved in `CallAgentTransactionsProofs`.
`AnsweredOnlyWhenClosedHolds: Spec => []AnsweredOnlyWhenClosed` needs only
`TypeOK` as a strengthening. The lemma `MayCloseKeeps` covers the
transactions a step may close without answering them. A phase other than
`closed` after such a step is the phase it had before.

`AnswersCloseTransactions: Spec => []AnswerClosesTransaction` (in
`MgcpNatTransactionProofs`) carries this over to the NAT. It instantiates
`CallAgentTransactionsProofs` with `phase <- phaseBar` and cites
`TransactionsRefine`. It uses no new fact about the NAT's code. The
invariant relates the answer counts to slots, `toBsc` and `usedTids`. As a
direct proof it would need the whole of `AInv` again.

### Operators: `BscEndpointsProofs`, `CicCodecProofs`, `EndpointAllocatorProofs`

`BscEndpointsProofs` holds `LeastIsMinimum`, `AssignEndpointRange`,
`CicToEndpointNat`, and two theorems on the allocator's closed form
`AssignEndpoint`:

- `AssignEndpointFailsOnlyWhenFull`: the result is -1 exactly when every
  handable endpoint is in use;
- `AssignEndpointFirstInScan`: the result comes strictly before every other
  free endpoint in the cyclic scan from the cursor (`ScanRank`).

Together with the TLC-checked `ScanFollowsCyclicOrder` (the scan equals
`AssignEndpoint`), they say the code's allocator is a round-robin allocator
that refuses only when full.

`CicCodecProofs` determines the CIC finding for every value:

- `CicToEndpointMod`: the patcher decodes a CIC to `cic % 8192`;
- `CicDecodeAgreesExactlyBelow8192`: it agrees with the spec's decoding
  exactly for CICs below 8192, and every larger CIC aliases the CIC 8192
  lower;
- `CicRoundTrip`: `create_cic` and the decode are inverse on endpoints below
  8192.

The run `cic_codec` only exhibits one bad CIC.

`EndpointAllocatorProofs` proves one iteration of the code's scan for every
`max_endpoints`. `ScanStepsToNextHandable` takes the cursor 0 or a handable
endpoint `l`, as a (multiplex, timeslot) pair with the timeslot advanced by
one. That is the position of lines 117-118 and of line 153. It shows that
`Normalize` (lines 123-143) maps this to the pair of `NextHandable(l)`: the
least handable endpoint above `l`, or 1 when there is none.

The result has the same form, so the iterations chain. The proof splits on
the four ways through the loop body:

- the plain step;
- the restart past `max_endpoints`;
- the skip of timeslots 31 and 0 into the next multiplex;
- that skip followed by the wrap or the restart.

It rests on `NrMultiplexesCovers` (32 times `bsc_mgcp_nr_multiplexes` is at
least `max_endpoints`) and on `SkipsTimeslots31And0`.

### What stays with TLC

- The equivalence of the code's scan with `AssignEndpoint`
  (`ScanFollowsCyclicOrder`), and `EndpointAllocator.TypeOK`, which needs
  that equivalence. Both are statements about the recursive function
  `walk`. Each iteration is proved (`ScanStepsToNextHandable`). That every
  element of `walk[max]` is such an iteration is induction over `walk`. It
  needs the defining equation of a recursive function local to a LET, and
  the installed provers cannot instantiate the library theorems that give
  it.
- Liveness (`ParkedResolved`, a violation run) and anything with ENABLED.
- The rewriter (`RewriteMatchesSpec`). It is written with `FoldLeft` and
  `SequencesExt`, which reach RECURSIVE definitions, and it is a statement
  about bounded inputs.
- The paging model. Its one property is violated.

## Not modelled

- Inside `MgcpNat`, the rewrite is seen only as success or failure. It is
  modelled on its own in `MgcpRewrite`. `bsc_mgcp_parse_response` and
  `bsc_mgcp_extract_ci` only parse, and the NAT model chooses whether a reply
  carries a CI.
- Socket set-up and I/O (`init_mgcp_socket`, `mgcp_do_read`,
  `mgcp_do_write`, `send_direct`).
- The config failure of `bsc_init_endps_if_needed`: a BSC without a
  configuration. The model assumes every BSC has one.
- In `gsm_subscriber.c`: `connection_for_subscr` (a read-only lookup) and
  `vlr_subscr_to_bsc_sub`, used only by code under `#if 0`. The `paging_request`
  path itself is not compiled.
- The rewriter's byte content. Lines are abstract, and only lengths, kinds
  and order are checked. Messages with an `a=fmtp` line before `m=audio`
  are not enumerated: the spec and the code word the rule differently there.

## Plan

1. A composition of `MgcpNat` with `MgcpRewrite`'s outcome for the message
   that the policy callback actually rewrites.
2. Larger liveness instances (two BSCs, symmetry off).
