# TLA+ verification of the CXF JavaScript client runtime

This directory holds TLA+ models of the client runtime in
`src/rt/javascript/src/main/resources/org/apache/cxf/javascript/cxf-utils.js`
(below, `cxf-utils.js:N` is line N of that file). It also holds TLC
configurations that model-check them, and TLAPS proofs about them.

## 1. Inventory

### Components and their state

| Component | Code | State it keeps | Operations |
|---|---|---|---|
| CxfApacheOrgUtil (`jsutils`) | 18-36, 42-512, 933-1039 | `client`: the last client constructed on it (520) | helpers; `packageMtom`, `deserializeBase64orMom` go through `this.client` |
| HttpTransport (`CxfApacheOrgClient`) | 517-534, 621-754, 882-931 | `req`, `url`, `sync`, `method`, `mtomparts`, `parts`, `mpResponseXML`, `onsuccess`, `onerror`, `soapAction`, `messageType` | constructor, `request`, `onReadyState`, `getXMLHttpRequest` |
| XMLHttpRequest host | outside `cxf-utils.js`; its behaviour is asserted in `XMLHttpRequestTests.js` | `readyState` 0..4, status, `responseXML`, `responseText` | `open`, `send`, readystatechange events |
| MimeMultipartParser | 756-880 | writes `client.parts` and `client.mpResponseXML` | `parseMultipartRelated`, keyword/value parsing, trim |
| MTOM | 471-512, 933-943 | `client.mtomparts` (request); reads `client.parts` (response) | `packageMtom`, `deserializeBase64orMom` |
| Base64Codec | 279-469 | none | encode/decode of byte arrays, UTF-16 and UTF-8 |
| NamespaceResolver | 52-97, 141-158 | none (reads the DOM) | `getNamespaceURI`, `findNamespace`, `getPrefix`, `getLocalName` |
| AnyTypeMatcher / AnyTypeDeserializer | 99-139, 945-1039 | matcher: style, tns, nslist, nextLocalPart | `match`, any holders, `get_xsi_type`, `deserialize_anyType` |
| UUID generator | 536-606 | none (uses `Math.random`) | `make_uuid`, `random_hex_string`, `pad_string` |
| DOM/XML helpers | 160-277 | none | element navigation, node text, `isElementNil`, escaping, SOAP envelope |
| Generated service code | not in `src/` | `this.client`, `this.jsutils`, `this.synchronous`, deserializer registry | one function per operation; generated `onsuccess`/`onerror` |

### How the components interact

Each operation of a generated service object goes through the same steps:

1. It runs `new CxfApacheOrgClient(this.jsutils)`. The constructor stores the
   new client in the shared jsutils object (`utils.client = this`, line 520).
2. It serializes the request. `packageMtom` pushes MTOM parts to
   `utils.client.mtomparts`.
3. It calls `client.request`. This opens an XMLHttpRequest, asynchronous
   unless `sync` is set (700). It then sets the headers and sends either the
   XML or a multipart/related package.

The host calls `onreadystatechange` as the request advances. Only
`readyState == DONE` matters there (888). The DONE branch then does this:

- It reads `req.status`. A throw here goes to `onerror(e)` (890-900).
- Any status other than 200 or 0 goes to `onerror(this)`.
- Otherwise, when the host parsed no `responseXML`, it runs
  `parseMultipartRelated`. On success it calls `onsuccess(this, mpResponseXML)`.
  A body that is not multipart goes to `onerror`.
- Otherwise it calls `onsuccess(this, responseXML)`.

The generated `onsuccess` deserializes the response. For an MTOM element,
`deserializeBase64orMom` looks the `cid:` up in `this.client.parts` of the
jsutils object (503). That is the table of the last client constructed on
this service, not necessarily the client being answered.

### What is hard

- **Interleaving of calls.** Everything runs on one JavaScript thread. Still,
  asynchronous calls interleave at the granularity of events. A synchronous
  call blocks the script, and its own callbacks run inside `send`. The shared
  `utils.client` is the one piece of state that outstanding calls share.
- **Failure paths.**
  - A connection error shows up only as an exception when reading `status`.
  - A malformed multipart body throws inside the handler (859). The exception
    then escapes to the host and no callback runs.
  - A missing attachment degrades to `''`.
- **Ordering.** States are monotonic, may skip, and DONE comes once. The early
  `return`s after each callback decide whether a call is answered once.
- **Data edges.** These affect base64 (empty input, unpadded input, four-byte
  UTF-8), the MIME header scan (where the data of a part begins and ends) and
  the namespace walk (a detached element).

### Properties that make each component correct

- **HttpTransport**
  - every sent call is answered exactly once;
  - the answer is a success exactly when the status is 200/0 and the body is
    usable;
  - the answer carries this call's own data, its attachments included.
- **MimeMultipartParser**: parsing the package a client sends yields its parts
  with their content ids and their data verbatim. A bad part is dropped and
  parsing goes on.
- **Base64Codec**: decode after encode is the identity, on bytes and on
  strings.
- **NamespaceResolver**: the result is the declaration of the nearest
  ancestor-or-self element, or null.
- **AnyTypeMatcher**: it agrees with the XML Schema wildcard semantics for
  each style.
- **UUID**: version nibble 4, variant bits 10, 36 characters.

## 2. Plan

Modules, in order of importance. Later modules are self-contained
algorithms; `MimeMultipart` composes with `CxfClient` through the package that
`request` sends.

1. **`CxfClient`** (done). It models the lifecycle of calls on shared
   jsutils objects, the host request, the DONE handler, and the lookup of
   attachments through `utils.client`.
2. **`MimeMultipart`** (done, section 5). It models the text level of
   `request`'s MTOM body (705-749, `packageMtom` 933-941) and of
   `parseMultipartRelated` (796-878) as token sequences. Property: parsing the
   body `request` built gives back each part's content id and content type.
   Reuse of a client with `mtomparts` never cleared was dropped as a hazard:
   the generated code makes a fresh client for every call.
3. **`Base64`** (done, section 4). It models `encode64array`,
   `decode64array` and the UTF-8/UTF-16 paths as operators over sequences
   (arithmetic, no Bitwise), checked by round trips on bounded inputs.
4. **`Namespaces`** (done, section 6). It models `getNamespaceURI` over a
   small DOM the page edits, against a reference "nearest declaring
   ancestor".
5. **`AnyType`** (done, section 6). It models `match` for each style, and
   `deserialize_anyType` with a registry, on the `Namespaces` DOM.
6. **`Uuid`** (dropped). `make_uuid` is one computation on random numbers,
   whose bits a unit test covers on all 256 values of the variant byte.
   The uniqueness the runtime relies on comes from `Math.random`, so
   `MimeMultipart` draws fresh uuids instead (section 8).
7. **Abstract specification `CallAbstract`** (done, section 3). Each call is answered at most
   once, with its own response. `CxfClient` under `CallerWaits` should refine
   it through a mapping from `cb`. The refinement is to be proved with TLAPS.

Proofs planned:

- `CallbackMatchesResponse` for every instance (done:
  `CallbackMatchesResponseHolds`).
- The refinement `CxfClient => CallAbstract!Spec` (its safety half is proved).
- Lemmas on base64 group arithmetic (`enc1*4 + enc2 \div 16 = chr1`, etc.)
  (done: `GroupRoundTrip`, `UnpaddedGroupGainsZeros`, `Utf8UnitRoundTrip`).
- The matcher against spec.md 4.3 for all names (done: `MatchAgreesWithSpec`).

## 3. The `CxfClient` model

### State

| Variable | Code |
|---|---|
| `rs[c]` | `req.readyState` of call `c`'s XMLHttpRequest (each call constructs one client with one `req`) |
| `client[s]` | `utils.client` of service `s`'s jsutils (520) |
| `blocking` | the call blocked in a synchronous `send` (700, 751), or `None` |
| `parts[c]` | content ids in client `c`'s `this.parts` (818, 861), or `None` while it is undefined |
| `resp[c]` | the status and body shape the host delivered at DONE (model bookkeeping) |
| `cb[c]` | the callbacks that reached call `c`'s caller, in order |

Data abstraction:

- A response carries at most one attachment.
- Its content id and its data are both identified with the call.
- A delivered attachment is either that call or `None` (the `''` fallback).
- Bodies are shapes: `xml`, `mtom`, `mtomNoCid` or `other`.

### Actions

- **`Invoke(c)`** is the generated operation: `NewClient` (constructor), then
  `request` (`open`, then `send`). It is synchronous when the service's flag
  says so, in which case nothing else runs until that request is DONE.
- **`Progress(c)`** is the host moving to HEADERS_RECEIVED or LOADING. The
  handler ignores these states.
- **`Complete(c)`** is the host reaching DONE with any status in
  `StatusCodes`, or an unreadable status, and any body in `Bodies`. It runs
  `OnReadyStateDone`, whose parts are described below.
- **`Quiescent`** is the idle page with nothing in flight.

`OnReadyStateDone` is built from these parts:

- `StatusUnreadable`;
- the non-success status;
- `responseXML` present;
- `NoResponseXML`, which runs `ParseMultipartRelated` and then `OnSuccess` or
  `onerror`, or throws.

`OnSuccess` is the generated deserializer, reaching `DeserializeBase64orMom`
through `client[Svc[c]]`.

### Runs

All runs use 3 calls and 2 services, with `c1` and `c2` on `s1` and `c3` on
`s2`. Status codes are {0, 200, 500}, plus unreadable, and both sync modes are
allowed. Two calls on one service are the smallest case where `utils.client`
is shared. A third call on another service makes cross-service interleavings
happen. Each call is sent once, so the state space is finite without further
bounds.

| Run | Config | Checks | Result |
|---|---|---|---|
| `client_any_usage` | `MC_CxfClient.cfg`: no caller discipline, all bodies | `TypeOK`, `CallbackMatchesResponse` | pass, 22,019 states |
| `client_callers_wait` | `MC_CxfClient_wait.cfg`: callers wait, well-formed bodies | `AttachmentIntegrity`, `ImplementsCallAbstract` | pass, 8,677 states |
| `client_overlap` | `MC_CxfClient_overlap.cfg`: no discipline | `AttachmentIntegrity` | violated |
| `client_missing_cid` | `MC_CxfClient_nocid.cfg`: callers wait, `mtomNoCid` bodies | `EveryCallAnswered` | violated |

The two violations are findings. Both contradict `spec.md`:

- **`client_overlap`**. Call `c1` is sent, then `c2` on the same service. The
  host answers `c2`, then `c1` with an MTOM body. `c1`'s attachment is looked
  up in `c2`'s table and comes back as `''`. If `c1` is answered first, the
  lookup goes to `c2`'s still-undefined table, throws, and `c1` is never
  answered. The spec (§5) says the attachment table belongs exclusively to
  one transaction, and that nothing but the UUID generator is shared.
- **`client_missing_cid`**. An attachment part without `Content-ID` throws at
  `cid.substr` (859). Neither callback runs. The spec (§4.4) says the part is
  dropped with a diagnostic and parsing continues.

### Refinement of `CallAbstract`

`CallAbstract.tla` states what a generated operation promises its caller,
apart from any transport. It has the calls made (`requested`) and the
callbacks each caller has received (`answers`). `Request(c)` makes a call.
`Answer(c)` answers a call that was made and is still unanswered, once, with
an error or with a success carrying the call's own data. Weak fairness on
`Answer` says no call is dropped.

`CxfClient` maps onto it with `Abs == INSTANCE CallAbstract WITH requested <-
{c : rs[c] # UNSENT}, answers <- cb`. `Invoke` is `Request`, and a `Complete`
that calls back is `Answer`. `Progress`, `Quiescent` and a `Complete` whose
callback throws are stutters. The run `client_callers_wait` checks
`ImplementsCallAbstract == Abs!Spec` as a PROPERTY. It subsumes the old
`EveryCallAnswered` there, which is now checked only by the violation run
`client_missing_cid`. The refinement fails without the caller discipline:
`client_overlap` answers a success with `''`, which is not an `Outcome`.

Each property of the passing runs has a mutant in `PROJECT.json` that TLC
catches:

- a content id stored with its angle brackets (`TypeOK`,
  `AttachmentIntegrity`);
- a missing `return` after `onerror` in the no-responseXML path
  (`CallbackMatchesResponse`, and `ImplementsCallAbstract`, where the second
  callback is a step `CallAbstract` cannot take).

### Fairness

`WF_vars(Complete(c))` for each call: the host eventually completes every
request it was given. The code has no timeout of its own, so this is an
assumption about the host and network, not something the code guarantees. The
spec's §8 says a request that never gets a response never reaches DONE.
Without this assumption `EveryCallAnswered` and the liveness half of
`ImplementsCallAbstract` fail trivially.

Callers are not fair: nothing obliges a call to be made. Deadlock checking
stays on. `Quiescent` lets an idle page stutter, and any state with a request
in flight has `Complete` enabled.

## 4. The `Base64` model

`Base64.tla` translates the `org_apache_cxf_base64_*` functions
(cxf-utils.js 279-469). The functions are pure, so the module holds them as
operators:

- A base64 text is a sequence of indices into `keyStr`. 0..63 are digits and
  `Pad` (64) is `=`. `Junk` (-1) is any character that the cleanup regular
  expression (386) removes.
- A JavaScript string is the sequence of its UTF-16 code units.
- Shifts and masks become `\div` and `%` by powers of two, and `|` becomes
  `+` where the operands cannot share a bit. At line 391 (chr1) they can
  share one: `64 >> 4 = 4` meets `enc1 << 2`. `Chr1` writes that or out on
  the operands' ranges: it adds `enc2 >> 4` unless enc2 is `=` and enc1 is
  odd. The assumption `BitOrCases` in `Base64` makes TLC compare it, on
  every run, with `BitOr` (a recursive function, bit by bit) on all 65 x 65
  pairs of indices. `decode64Unicode` composes `(hi << 8) | lo`. A
  malformed text can decode to a value above 255, up to 260, and then the
  two operands can share bit 8. `Or16` writes that or out too, and
  `BitOrCases` compares it with `BitOr` on all 261 x 261 pairs.
- Reads past the end are modelled as the code performs them:
  - `input[0]` of an empty array is `undefined`, which a shift turns into 0.
  - `charAt` past the end is `""`, and `keyStr.indexOf("")` is 0, not 64.
  - `undefined & 63` is 0.

The bodies of the four loops live in `Base64Groups.tla`, a module with no
recursion and no Bitwise, so that TLAPS can reason about them (section 7).
`Base64` extends it and runs the loops.

| Operator | Module | Code |
|---|---|---|
| `EncGroup` | `Base64Groups` | 303-318: one group of three bytes, `count` of them read, the pads |
| `encode64array` | `Base64` | 281-320: the do-while over groups of three, `count`; each iteration appends four characters, so the output is written in closed form (character k is character (k-1) % 4 of group (k-1) \div 4) |
| `Chr1`, `DecGroup` | `Base64Groups` | 391-402: one group of four indices, chr2/chr3 only when enc3/enc4 is not `=` |
| `decode64array` | `Base64` | 376-406: cleanup, the do-while over groups of four |
| `UnitBytes` | `Base64Groups` | 357-370: the 1/2/3 bytes of one code unit |
| `Utf8Data` | `Base64` | 334-374: the array `encode64UTF8` builds |
| `Utf16Data` | `Base64` | 322-332: the array `encode64Unicode` builds (mark FF FE, low byte first) |
| `Utf8Width`, `Utf8Unit` | `Base64Groups` | 452-466: one step of the walk over lead bytes |
| `decode64UTF8` | `Base64` | 441-469: the walk, a recursive function on the position |
| `Or16`, `Utf16Unit` | `Base64Groups` | 431-436: one unit, `(hi << 8) \| lo`, `fromCharCode`'s 16 bits |
| `decode64Unicode` | `Base64` | 418-439: the mark test, `swap`, pairs from byte 2 |

Both encoders end with `return encode64array(data)`. That name is not
defined (the function is `org_apache_cxf_base64_encode64array`), so both
throw a ReferenceError. The model stops at the array they build. The
properties compose it with `encode64array`, which is the call the code means.
`d2h` is unused and not modelled.

The two variables `bytes` and `text` only enumerate inputs. They grow one
element at a time up to `MaxBytes`/`MaxChars` from `ByteVals`/`Units`, and
the properties are invariants over them. The enumeration ends at the bounds,
so these runs have `CHECK_DEADLOCK FALSE`.

| Run | Checks | Result |
|---|---|---|
| `base64_round_trips` | `TypeOK`, `RoundTripNonEmpty` on arrays of up to 5 bytes over {0,1,63,128,192,255} (9,331 arrays); `Utf8RoundTrip`, `Utf16RoundTrip` on strings of up to 3 units over 0, 0x41, 0x7F, 0x80, 0x7FF, 0x800, a surrogate pair's halves, 0xFFFF (820 strings) | pass |
| `base64_empty` | `RoundTrip` including `<<>>` | violated: `<<>>` gives `AA==`, which decodes to `<<0>>` |
| `base64_unpadded` | `UnpaddedNotCorrupted` | violated: `AA` decodes to `<<0,0,0>>`, where spec.md 4.2 wants it flagged |
| `base64_supplementary` | `Utf8DecodeStandard` | violated: F0 9F 98 80 (U+1F600) is read as a 3-byte sequence and a stray continuation byte |

Why the bounds are enough:

- Five bytes make one full group plus a second group that ends in each
  padding variant.
- The byte values set bit 0, bits 0-5 and bits 6 and 7, in every position of
  a group. That covers each shift and mask.
- The code units sit on both sides of each UTF-8 width boundary.
- Units 2-3 include surrogates, which the encoder writes as 3-byte sequences
  and the decoder reads back.

Each group is encoded and decoded independently of the others, so longer
arrays repeat the cases already checked. For one group and one code unit,
section 7 proves the round trips for every byte and every unit. The claim
for every length would need induction over sequences, which is out of the
prover's reach (section 7).

Mutants:

| Mutant | Killed by |
|---|---|
| `EncGroupUnmasked` drops `& 15` | `TypeOK` |
| `EncGroupTwoPad` writes `count >= 1` | `RoundTripNonEmpty` |
| `UnitBytesWide` writes `<= 0x0800` | `Utf8RoundTrip` |
| `decode64UnicodeMarkSwapped` tests FE FF for `swap` | `Utf16RoundTrip` |

## 5. The `MimeMultipart` model

`MimeMultipart.tla` (TLC only: it declares RECURSIVE operators) models both
ends of the multipart/related text:

- **Sending.** `PackageMtom` is `org_apache_cxf_package_mtom` (933-941). It
  takes a fresh uuid from `Uuids` and a value from `Values`, and appends
  `MtomObject(u, v)` to `mtomparts`. `RequestBody` is the `dataToSend` of
  `request` (736-749): the boundary line, `MTOM_REQUEST_HEADER` (664), the
  XML, each part after its own boundary line, and the closing `--`.
  `RequestContentType` is `ctHeader` (705-711).
- **Receiving.** `ParseMultipartRelated` is `parseMultipartRelated`
  (796-878). It splits the Content-Type at `\s*;\s*` (`SplitParams`),
  lower-cases the main type, and takes `boundary` from
  `KeywordValuePairs` (`parse_mime_keyword_value_pairs` 761-781, with the
  trim and the positional removal of quotes in `ParamValue`). It splits the
  text on `"--" + boundary` and, for each part, runs the header-line loop
  with its `continue` and `break` (`ScanHeaders`). It then takes the data
  offset (852-854) and the Content-ID with its brackets cut off
  (`StripCid`, 857-860). A missing Content-ID is the `TypeError` outcome.

Strings are sequences of tokens. CR and LF are tokens of their own, and a
header name, a value or the XML is a single string token. So `indexOf('\r')`,
`slice`, `substr` and `split` work on positions as the JS ones do, while
wording stays out of the state. `Lower` maps the few spellings the inputs use.

**State.** `mtomparts` (the client's array), `attached` (the uuids handed out)
and `contentType`, the form of the header the server answers with. It ranges
over `ContentTypeForms`: the client's own header, a bare boundary parameter,
mixed case with blanks around `;` and `=`, and single quotes among other
parameters.

**Runs.**

- `mtom_round_trip` (`MimeMultipart.cfg`) checks `RequestRoundTrip` with up
  to 2 parts, 3 uuids and the values `""`, `"a"`, CR LF, and a value that
  holds a blank line. In every reachable state and under every header form,
  parsing the body `request` would send gives outcome `parsed` and a table
  keyed by exactly the uuids handed out. Each part's content type is also
  the one `packageMtom` wrote. It has 436 distinct states.
- `mtom_part_data` (`MimeMultipart_verbatim.cfg`, violation) checks
  `PartDataVerbatim`: the data of each part is what follows its blank
  line. TLC refutes it with one part. The header loop leaves through
  `break` before its update `x = endX + 1`, so `x` still points at the CR of
  the blank line, and line 852 only steps to its LF. Every part's data (and
  the primary XML) starts with a line feed. spec.md 4.4 says the body is
  taken verbatim.

The mutants keep the brackets of the Content-ID (`CidKeepsBrackets`) or skip
the trim of a parameter value (`ParamValueUntrimmed`). Both break
`RequestRoundTrip`: the first on every state with a part, the second on the
header form with blanks around `=`.

## 6. The `Namespaces` and `AnyType` models

`Namespaces.tla` (TLC only: `GetNamespaceURI` is RECURSIVE) models the
namespace resolver that generated deserializers call.

- **Resolver.** `GetNamespaceURI(n, prefix)` is `getNamespaceURI` (53-67).
  It returns `Null` at the document node. On an element it takes
  `FindNamespace`, and on `Null` it recurses to `parent[n]`. A `parentNode`
  of null (`NoNode`) gives `TypeError`, because line 55 reads
  `null.nodeType`.
- **One element.** `FindNamespace(attrs, prefix)`, in `NamespaceNames.tla`,
  is `findNamespace` (70-90). It scans the attribute names in
  `AttrOrder`, the `attributes.item(x)` order, and returns the value of the
  first present one that `Declares` the prefix (the least such index):
  `xmlns` for the null prefix, `xmlns:<prefix>` otherwise. With no
  attributes it returns `undefined`, which `== null` treats like null.
- **Names.** `GetPrefix` and `GetLocalName` (141-158), also in
  `NamespaceNames`, cut at the first `:` token (`ColonIndex`, `indexOf`).
  `GetElementNamespaceURI` (93-96) resolves a tag's own prefix.

`NamespaceNames` holds the per-element half, which has no recursion, so
that TLAPS can reason about it (section 7); `Namespaces` extends it with
the walk over the ancestors and the DOM.

The resolver keeps no state. The state is the DOM it reads:
`parent[e]` (an element, `Doc` or `NoNode`) and `attrs[e]` (a function from
attribute names to values). The actions are the page's edits between two
lookups: `SetAttribute`, `RemoveAttribute`, `AppendChild` (no cycles, one
element under the document) and `RemoveChild`. These are host operations,
not runtime code. They are there because spec.md 4.1 promises a correct
answer however the DOM changes, since nothing is cached.

### AnyType: the xsd:any code on the same DOM

`AnyType.tla` EXTENDS `Namespaces` and `AnyMatcher`. Its operators are
evaluated on the elements of the DOM, with the names the resolver gives, as
a generated deserializer calls them. The matcher is a pure function of a
wildcard and a name, so it has a module of its own, `AnyMatcher.tla`, with
spec.md 4.3's reading of it (`SpecMatch`) beside it. That module uses no
recursion, so TLAPS can reason about it (section 7). `Null` and `TypeError`
are in `JsValues.tla`, which both modules share.

- `Match(m, ns, ln)` is `org_apache_cxf_any_ns_matcher_match` (114-137).
  `##any` matches everything; `##other` needs `ns # tns`; `##local` needs
  `Unqualified(ns)` (null or `""`). For `listed`, some entry must hit
  (`ListedHit`): a `"##local"` entry needs an unqualified element, a
  non-null `nextLocalPart` and a different local name; any other entry must
  equal `ns`.
- `GetXsiType(e)` is `get_xsi_type` (979-999). It returns the value of the
  first attribute, in attribute order, whose local name is `type` and whose
  prefix `GetNamespaceURI` maps to the XSI namespace.
- `DeserializeAnyType(e)` is `deserialize_anyType` (1003-1039). It resolves
  the prefix written in the type value at the element. The XSD namespace
  gives `Convert` of the first child's text (null without one). `Convert`
  records which parse is applied: `parseInt`, `parseFloat`, the comparison
  with `'true'`, or the raw text. A `{uri}localName` in `Registry` gives
  the deserializer's object. Anything else gives the element.

**Runs.**

- `namespaces_anytype` (`AnyType.cfg` on `MC_AnyType`, 233,280 states)
  composes the resolver with the xsd:any code. It has three elements with
  tags `a:x`, `y` and `z`. The attributes are `xmlns` (XSD or `""`),
  `xmlns:a` (XSI or XSD) and `a:type="T"`, and `{}T` is registered. The
  run reaches every tree shape of three elements, chains of depth three
  included, with every combination of these attributes on each element.
  It checks three invariants on every element in the document:
  - `ResolvesInScopeNamespace`: for the null prefix, `a` and each tag's
    prefix, `getNamespaceURI` returns `InScope`. That is the declaration on
    the nearest ancestor-or-self element that declares the prefix, or null.
    `InScope` is computed from the ancestor relation (`AncestorOrSelf`:
    parent steps up to |Elements|), not from the code's walk. It follows
    that an inner `xmlns=""` shadows an outer default, a default
    declaration does not answer `a`, and a declaration removed or moved
    away is no longer seen. Mutant `DeclaresAnyPrefix` lets a default
    declaration answer every prefix.
  - `MatchFollowsSpec`: for four wildcards (one per style; the listed one
    holds the XSI namespace and `"##local"`), `Match` on the resolved name
    is spec.md 4.3's predicate on the namespace in scope. Mutant
    `UnqualifiedNullOnly` forgets `== ''`, so it misses an unprefixed
    element under `xmlns=""`. The check is restricted to wildcards given a
    next local part. Without one, the code's `##local` entry matches
    nothing, and the spec leaves that case open (hazard at 128).
  - `DeserializeFollowsXsiType`: the result is what spec.md 4.5 says for
    the xsi:type attribute bound in scope, with the value's prefix (here the
    default) resolved in scope. That gives XSD conversion under an XSD
    default (null for `y`, which has no text), the registered object under
    `xmlns=""`, and the element when `a` is bound to XSD or is undeclared,
    or the default is undeclared. Mutant `GetXsiTypeAnyNamespace` takes
    any attribute named `type`.

- `namespaces_detached` (`Namespaces_detached.cfg` on `MC_Namespaces`,
  violation) checks
  `UnresolvedIsNull`, spec.md 4.1's "no error is raised for an unresolved
  prefix". The initial state already refutes it: a detached element with
  no declarations recurses to a null `parentNode` and throws. Generated
  deserializers resolve names on the elements of a parsed response
  document, whose chain always ends at the document, so they do not meet
  this. A caller that resolves on an element it built and has not appended
  does.

## 7. Proofs (TLAPS)

Five modules hold proofs: `CxfClient_proofs.tla` for the client,
`Base64Groups_proofs.tla` for the codec's loop bodies, `Base64_proofs.tla`
for the codec's type invariant, `AnyMatcher_proofs.tla` for the xsd:any
matcher and `NamespaceNames_proofs.tla` for the resolver's step on one
element.

### The client (`CxfClient_proofs.tla`)

The proofs rest on `ConstantsAssumption`:

- `Svc` is a function from calls to services;
- status codes are naturals;
- `None` is neither a call nor a response record;
- `Unreadable` is not a natural.

**`TypeCorrect`**: `Spec => []TypeOK` for all values of the constants. The
proof is a lemma per helper of the DONE branch (`DeliverType`, `ParseType`,
`OnSuccessType`, `OnReadyStateDoneType`) and a step lemma `TypeStep` with one
case per action.

**`CallbackMatchesResponseHolds`**: `Spec => []CallbackMatchesResponse` for
all values of the constants, whether or not callers wait. The property is
not inductive on its own: a `Complete` step appends to a call's log, and
only knowing the log was empty makes its length 1. The inductive invariant
`CInv` is `TypeOK /\ NotDoneUnanswered /\ CallbackMatchesResponse`, where
`NotDoneUnanswered` says that a call not yet DONE has no answer and no
response. The argument runs as follows:

- `Invoke` and `Progress` move a call between states below DONE and touch
  neither `cb` nor `resp`.
- `Complete(c)` runs only below DONE, so `cb[c]` is empty and `resp[c]`
  unset. The lemma `OnReadyStateDoneAnswer` takes one case per branch of
  the DONE handler. Each branch leaves the log empty or appends one record,
  of kind `success` exactly when `st` is 200/0 and `b` is `xml` or `mtom`.
  The `mtomNoCid` throw leaves the log empty. `OnSuccessAnswer` and
  `DeliverOne` are the lemmas for the two ways a record is appended.
- Once DONE, no action touches the call again, since every action's guard
  needs a readyState below DONE.

**`AttachmentIntegrityWhenCallersWait`**: under `CallerWaits`,
`Spec => []AttachmentIntegrity`. `AttachmentIntegrity` is not inductive,
because the answering step reads `utils.client`. The inductive invariant
`IInv` conjoins five parts:

- `TypeOK`;
- `AnsweredOnlyWhenDone`: a call not DONE has no answer;
- `PendingOwnsUtils`: a call in flight is its service's `utils.client`;
- `TableHoldsOwnCid`: a client's table holds only its own content id;
- `AttachmentIntegrity`.

The argument runs as follows:

- `Invoke` on a service whose earlier calls are all answered finds none of
  them in flight, by `AnsweredOnlyWhenDone`. So replacing `utils.client`
  disturbs no pending call.
- `Complete` answers a call whose client is `utils.client`. The lemma
  `OnReadyStateDoneIntegrity` shows the answer is then empty, an error, or a
  success carrying the call's own attachment.

TLC checked `IInv` as an invariant of `client_callers_wait` before the proof
was written.

The step of that induction is the lemma `IInvStep`. It is shared with the
refinement proof.

**`ImplementsCallAbstractSafety`**: under `CallerWaits`,
`Spec => Abs!SafeSpec`, the safety part of the refinement. `RefinementInit`
shows that the initial state maps to `CallAbstract`'s. `RefinementStep`
shows, from `IInv`, that every step maps to a `CallAbstract` step or a stutter:

- `Invoke(c)` adds exactly `c` to the calls made, and `c` was not among them;
- `Progress` changes neither set;
- `Complete(c)` leaves the calls made unchanged, since `c` was already sent.
  By `OnReadyStateDoneIntegrity` it leaves `cb` unchanged, or gives the
  unanswered `c` one `Outcome(c)` and touches no other call.

`IInv` is needed for the same reason as above: only `PendingOwnsUtils` makes
the success carry `c` and not `''`.

### The codec's loop bodies (`Base64Groups_proofs.tla`)

These theorems are about the operators of `Base64Groups`, for all values of
their arguments. The runs of `Base64` check the whole functions on 6 byte
values and 10 code units; these proofs cover every byte 0..255 and every
unit 0..65535 for one iteration of each loop. They need no assumption
beyond the ranges in their hypotheses, which are the values the code
passes.

- **`EncGroupIndices`**: `EncGroup` emits key-string indices only. Its first
  two are digits. The third is `=` exactly when the group read one byte,
  the fourth exactly when it read fewer than three.
- **`GroupRoundTrip`**: `DecGroup` of `EncGroup(c1, c2, c3, count)` is the
  first `count` of `<<c1, c2, c3>>`, whatever the unread bytes hold. The
  step that matters is `Chr1`: `enc2` is a digit here, so the or is the sum
  and `(c1 \div 4) * 4 + (c1 % 4) = c1`.
- **`UnpaddedGroupGainsZeros`**: with its `=` pads dropped, a short last
  group decodes to three bytes, its own followed by zeros. The decoder
  completes it with `A` (index 0), which is not `=`, so chr2 and chr3 are
  emitted. This is the `base64_unpadded` finding, for every byte value.
- **`DecGroupRange`**: on any four indices, a malformed group from a
  server included, the decoded values after the first are bytes. The first,
  chr1, is a byte exactly when the group's first character is not `=`, and
  is at most 260. This is what the code does at the hazard at line 392,
  which spec.md leaves open. TLC checked the statement on all 65^4 index
  tuples before the proof.
- **`Utf8UnitRoundTrip`**: the bytes `UnitBytes(u)` gives are bytes. Their
  lead byte makes `Utf8Width` consume exactly them, and `Utf8Unit`
  composes `u` again, whatever bytes follow. The proof has a case per
  branch of the encoder. The lead byte falls in 0..127, 194..223 or
  224..239, the three branches of the decoder. The boundary mutant
  `UnitBytesWide` breaks this at `u = 2048`.
- **`Utf16UnitRoundTrip`**: the two bytes `Utf16Data` writes for a code
  unit, low byte first, are bytes. The swapped read that the mark FF FE
  selects, `Utf16Unit(b[x + 1], b[x])`, gives the unit back.

The lemmas `TupleConcat` and `TuplePrefix` state what `\o` and `SubSeq` do
on tuples of up to three elements. They come from `SequenceTheorems`'
`ConcatProperties`, `SubSeqProperties` and `SeqEqual`.

### The xsd:any matcher (`AnyMatcher_proofs.tla`)

**`MatchAgreesWithSpec`**: for every wildcard of one of the four styles
whose caller passes a next local part, every namespace and every local
name, `Match(m, ns, ln) = SpecMatch(m, ns, ln)`. The run
`namespaces_anytype` checks this on the names its DOM resolves to (as
`MatchFollowsSpec`); the theorem covers every name. The proof has one case
per style. The listed style rests on the lemma `ListedMatch`: some entry is
hit exactly when the namespace is listed, or `"##local"` is listed and the
element is unqualified and not the next one.

The theorem has one hypothesis beyond the wildcard's: the namespace is not
the string `"##local"` itself. The loop tests an entry for `"##local"`
before it compares it with the namespace, so a namespace of that name would
never match its own entry. No namespace name is that string, since it is
not a URI. Without the hypothesis the proof fails at exactly that step.
With `nextLocalPart` null, the `"##local"` entry matches nothing. spec.md
leaves that case open (hazard at 128), so the theorem does not cover it.

### The codec's type invariant (`Base64_proofs.tla`)

**`TypeCorrect`**: `Spec => []TypeOK` for every bound, every set of byte
values and every set of code units that `ConstantsAssumption` allows
(bytes are in 0..255, units in 0..65535). `TypeOK` says that the inputs are
arrays of the enumerated values and that `encode64array` emits only
key-string indices (0..63 and `Pad`) on every byte array the enumeration
builds. The invariant is inductive as it stands: the step extends an array
by one element, and the output clause is proved for every array at once.

It rests on the lemma `EncodeIndices`: for every byte array `b`,
`encode64array(b) \in Seq(0 .. Pad)`. The loop has `groups` iterations
(one for the empty array, since it is a do-while), each reads `count` bytes
in 1..3 and past the end reads 0 (`input[i]` of undefined shifted), so each
group is an `EncGroup` of bytes and `EncGroupIndices` bounds its four
characters. The closed form of `encode64array` (character k from group
(k-1) \div 4) is what makes this a statement about one group; the loop as a
`FlattenSeq` of groups would need induction over the groups.

### The resolver on one element (`NamespaceNames_proofs.tla`)

**`FindNamespaceFindsDeclaration`**: for every list of attribute names
`AttrOrder` and every prefix `p` (a sequence of strings, or null), if the
element's attributes are among those names, then
`FindNamespace(attrs, p)` is the value of `DeclName(p)` (`xmlns` for null,
`xmlns:` followed by `p` otherwise) when the element has that attribute,
and null when it does not. The order in which the loop visits the
attributes, and names that look like a declaration (a default `xmlns` when
a prefix is asked for, a name that merely ends in `p`, a `p` that itself
holds `:`), do not change the answer. Every lookup the `Namespaces` run
makes satisfies the hypotheses: `SetAttribute` only adds names of
`AttrOrder`, and the prefixes are null or cut from names.

The assumption it needs is `AttrOrderAssumption`: no token of an attribute
name is the token the model writes null with (`<< "(null)" >>`). A DOM
attribute name is a string, never null.

The argument:
- `LeastElement`/`MinIsLeast`: a non-empty set of naturals has a least
  element, and `Min` is it. It is proved from `WellFoundedInduction`'s
  `WFMin` and `NatLessThanWellFounded`, which are first-order, not from an
  induction rule with an operator parameter.
- `ColonIndexFirst` and `ColonSplit`: where a name has a `:`, `indexOf`
  gives the first one and `getPrefix`/`getLocalName` are the slices around
  it.
- `DeclNameSplits`: `xmlns:<p>` splits into `xmlns` and `p`, whatever `p`
  contains.
- `DeclaresIsDeclName`: the loop's test holds exactly when the name is
  `DeclName(p)`. The direction from the test to the name rebuilds the name
  from its two slices (`SubSeqOne`, `SplitAtTwo`); `SliceNotNull` rules out
  the null prefix and suffix, which is where `AttrOrderAssumption` is used.
- The theorem: the set of indices the loop would stop at is the set of
  indices of `DeclName(p)`, so its least element, if any, names that
  attribute.

The lemmas about names take the token set as a parameter `T` rather than
`STRING`: the provers cannot show that a literal such as `"xmlns"` is in
`STRING`, though they can tell two literals apart. Two habits of the SMT
back end shaped the proofs. An opaque term such as `Min(I)` in arithmetic
needs its type stated as a fact (`Min(I) \in Nat`). An equation between a
slice and a tuple among the hypotheses defeats it, so such equations are
stated as implications in the goal.

### What stays with TLC

Liveness (`EveryCallAnswered`, the fairness half of `ImplementsCallAbstract`)
needs fairness and ENABLED, which are out of
TLAPS's reach here. So are the properties of `Base64`, `MimeMultipart`,
`Namespaces` and `AnyType`. Those modules define RECURSIVE operators or use
`SequencesExt` (`FlattenSeq`, `SelectSeq` over whole arrays), and what they
compute for every input is induction over data. For `Base64`, the part
without that induction (one group, one code unit, and the type invariant)
is proved above; for `AnyType`, the matcher is. The resolver's step on one
element is proved; the walk over the ancestors (`ResolvesInScopeNamespace`)
is recursive and stays with TLC, as do `MatchFollowsSpec` and
`DeserializeFollowsXsiType`, which evaluate on that walk's answers. The
composition over a whole array (`RoundTripNonEmpty`, `Utf8RoundTrip`) stays
with TLC.

## 8. Not modelled, and why

- **Request headers and URL/method choice.** They change no state the
  properties distinguish.
- **`getXMLHttpRequest` failure.** It is a synchronous throw to the caller,
  raised before anything is sent.
- **The SOAP envelope strings and `escapeXmlEntities`.** These are stateless
  string functions.
- **The UUID generator (536-606).** See plan item 6. The model replaces it
  by a fresh choice from a set of uuids.
- **The DOM helpers beyond the resolver (160-259).** `getFirstElementChild`,
  `getNextElementSibling` and `getNodeText` walk child lists, which the DOM
  model does not hold. `isNodeNamedNS` compares with the host's
  `node.namespaceURI`. Two hazards are recorded without a property.
  `isElementNil`'s fallback for hosts without `getAttributeNS` looks for the
  literal name `xsi:nil` (200). `getNodeText` appends the `nodeValue` of
  every child, comments and elements included (254).
- **The any holders (949-977).** These are constructors that store their
  arguments. The serializer that reads them is generated code outside
  src/. The typed raw holder carries the raw holder's `typeMarker`, so a
  reader can tell the two apart only by `xsiType`.
- **Test drivers, samples and demo clients.** They are consumers of the
  runtime.
- **Handlers left null.** Generated code always sets both `onsuccess` and
  `onerror`. So the branches where `onerror == null` leads to
  `onsuccess(this, null)` are unreachable from generated code.
