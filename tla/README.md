# A TLA+ model of axonius_api_client

`axonius_api_client` is the Python client of a REST API for asset management: it
logs in, pages through assets, saved queries, histories and tasks, exports and
labels what it fetches, changes settings, and runs enforcement sets against
assets. The program is single threaded. What makes it hard is what is on the
other side: a server whose data changes between two requests, a network that
loses and delays them, callers who stop half way through a generator, and state
(a session, a state dict, cached models) that several classes share.

This directory holds TLA+ modules for the parts of it that have such behaviour,
TLC runs that check them on small instances, and proofs that TLAPS checks for
every instance. Paths below are relative to `src/axonius_api_client/`.

## The system and its parts

| part | state | operations | hard because | correct when |
|---|---|---|---|---|
| Asset fetch: `api/assets/asset_mixin.py`, `api/json_api/assets/asset_response.py` | the `state` dict (offset, counters, limits), the cursor in the request object | `get_generator`, `count`, `_get`; `create_state`, `process_page`, `process_row`, `process_loop` | the result changes between pages; counters are updated by three methods of two classes; the caller may let go at any `yield` | the rows are those of one result, in order, each once, or no more is wrong than the changes explain; limits hold; it ends |
| Asset callbacks: `api/asset_callbacks/base*.py`, `api/assets/labels.py` | export file, `_fd`, `_rows`, `TAG_ROWS_ADD`, `TAG_ROWS_REMOVE` | `start`, `process_row`, `stop` | failures between them, rows that come twice | whole files, no file lost, labels for exactly the rows kept, once, at the end |
| Paging state: `api/json_api/paging_state.py` (used by `saved_query.py`, `enforcements/tasks.py`, `adapters/adapters.py`) | `row_number`, totals, `stop_paging` | `page`, `rows`, `check_stop`, `stop` | as for assets, and a loop that only an exception ends | as for assets |
| HTTP: `http.py` | the session, `LAST_REQUEST`, `LAST_RESPONSE`, `HISTORY`, `MAX_RETRIES` | `__call__` | an attempt that timed out may still be handled | bounded attempts, calls in order, a last response that is what it says |
| Enforcement runner: `api/assets/runner.py` | `verified`, `_executed`, `_count_result` | `verify`, `run`, `verify_and_run`, `init` | any order of calls, a count that goes stale, retries of a request that is not idempotent | no unforced run without a reason, `executed` tells the truth |
| Connect and auth: `connect.py`, `auth/*.py`, `api/mixins.py` | `STARTED`, `API_CACHE`, `is_logged_in`, the keys in the shared session | `start`, `login`, `logout`, `_get_model`, requests of models | three requests per login; two auth models on one session | only validated clients are used; keys are sent when logged in and not after |
| System settings: `api/system/settings.py`, `parsers/config.py` | none (the server's settings) | `update_section`, `update_sub_section`, the CA and CSR methods | reads all, changes a part, writes all | only what is named changes, or what another client changed meanwhile is lost for that reason alone |
| Connections: `api/adapters/cnx.py` | none (the server's connections) | `add`, `update_cnx`, `set_cnx_active`, `set_cnx_label`, `delete_cnx`, by id or with one at hand | write and read back; fetched connections go stale; UUIDs change | only what is named changes, but for what is stale or not sent back |
| Saved queries: `api/assets/saved_query.py`, `api/json_api/saved_queries.py` | query objects at hand | `get_by_multi`, `add`, `copy`, `update_*`, `delete` | check a name, then use it; look a query up by name or UUID; read an object, write it whole | the query meant is the one changed; unique names |
| Folders: `api/folders/folders.py`, `api/json_api/folders/` | the tree a folder was loaded from, its refresh time | `find`, `create`, `move`, `rename`, `delete` | checks against trees of different age, ids of different requests | a tree; siblings of different names; nothing deleted unseen |
| Enforcement sets: `api/enforcements/enforcements.py`, `api/json_api/enforcements.py` | set objects at hand | `get_set`, `create`, `copy`, `update_*`, `move`, `delete` | a lookup is a page request and a request per set, again and again; a set is made, then moved | as for saved queries, and the set is where it was wanted |
| Users and roles: `api/system/system_users.py`, `api/system/system_roles.py`, `api/json_api/system_users.py` | roles kept for a minute | `add`, the setters, `delete_by_name` | whole objects written back; exceptions of a lookup taken as its answer | only what is named changes; a name that is taken is noticed |
| Row callbacks: `api/asset_callbacks/base.py`, `parsers/fields.py` | `final_schemas`, `final_columns`, `schemas_selected`, computed once | the callbacks of `do_row`, in their order | each rewrites what the one before made, for rows of different shapes | rows fit the columns; no item is lost or misplaced |
| Query wizards: `api/wizards/wizard.py`, `wizard_csv.py` | the bracket tracker, the entries it writes into, `SQS` and `SQ_ENTRIES` | `parse` | what one filter means depends on its neighbours | brackets balance and mean what was written |
| Tasks, data scopes, dashboards, instances, discovery (`api/enforcements/tasks.py`, `api/system/`) | none | single requests and reports | | |
| Endpoints and models: `api/api_endpoint.py`, `api/json_api/` | none | serialize, send, check the status, deserialize | | bad answers raise |
| Fields, parsers of text, tools, `cli/`, `projects/`, logging, setup | none to speak of | conversions, option parsing, output | | conversions right |

How they interact: a `Connect` holds one `Http`, two auth models and a cache of
API models. Each API model sends requests through endpoints, which call `Http`.
`get_generator` makes a callbacks object, gives it its own `state` dict, feeds
it rows behind each page, and stops it when `StopFetch` ends the loop. The
callbacks call back into the asset model (`labels.add`). `asset_mixin.run_enforcement`
makes a `Runner`, which counts and runs through the same model. The methods that
edit what the server keeps share nothing but the server: two programs, or two
objects in one program, meet there, between any two requests of a method.

`PROJECT.json` lists every part with its status, and every hazard at its line.

## Modules

| module | models | abstraction |
|---|---|---|
| `ServerPage` | the server's side of one page request (external) | a result is a sequence |
| `AssetPage` | `AssetsPage.create_state`, `process_page`, `process_row`, `process_loop`, `load_response` as operators on the `state` record | an argument that is no integer is -1; texts and timings of the dict are left out |
| `AssetCallbacks` | `Base`, `Json`, `Csv`, `Table`, `ExportMixins`, label requests, as fragments of actions | text is tokens: `[`, `]`, `header`, an asset |
| `AssetFetch` | `AssetMixin.get_generator` with the two above, a changing population, failures, and a caller who may abandon the generator | the query is fixed; one `pc` value per point at which something else can happen |
| `RowStream` | the abstract specification: the rows of one result, in order, until the end or a cut | no pages, offsets, cursors, counters |
| `PagingState` | `PagingState`, `Page` and the loop of their users | as `AssetFetch` |
| `HttpSend` | `Http.__call__` and the network, as fragments of actions | a request is the number of its call and of its attempt |
| `EnforcementRun` | `Runner`, composed with `HttpSend`, and the server's count and run endpoints | the IDs are their number |
| `Session` | `Connect`, the auth models, the session they share, `API_CACHE` | keys are generations |
| `ApiClient` | programs that call methods, a request per step; what all `*Edit` modules extend | a request that fails raises; one that writes may have been carried out |
| `SettingsEdit` | `update_section`, `update_sub_section`, `ca_enable`, `ca_add`, `ca_remove`, `csr_create`, `csr_cancel`, with `config_build` and `config_unchanged` | a place is a section, a sub section and a key |
| `CnxEdit` | `add`, `update_cnx` and what calls it, `delete_cnx`, the two requests that fetch a connection, `ErrorMap` | a UUID is an id and a generation |
| `SavedQueryEdit` | `get_by_multi`, `add`, `copy`, the updates and `delete`, of the API and of query objects | the body of a query is one value; the list is read at once |
| `FolderEdit` | `refresh`, `find`, `create`, `move`, `rename`, `delete` of folders | a path is a sequence of names |
| `EnforcementEdit` | lookups, `create`, the updates, `copy`, `move`, `delete` of enforcement sets | query, schedule and conditions are one value, `trigger` |
| `AccessEdit` | `SystemUsers` and `SystemRoles` with the list of roles that is kept | a permission is a model value, a data scope too |
| `RowShape` | the callbacks that rewrite rows, schemas and columns | a sample of fields; a value is a list or a single one |
| `Wizard` | `_parse_flags`, `_parse_entries`, `parse`, and the rows of `WizardCsv` | a filter is its flags and whether its text is refused |
| `MCAssetFetch`, `MCPagingState`, `MCEnforcementRun`, `MCSession`, `MCServerEdits`, `MCRowsAndFilters` | instances for TLC | |
| `PagingLemmas` | lemmas about `ServerPage` (pages, and rows that come and go), and induction over numbers and along recursive functions | |
| `AssetFetchProofs` | theorems about `AssetFetch` | |
| `PagingProofs` | theorems about `PagingState` | |
| `EnforcementProofs` | theorems about `HttpSend` and `EnforcementRun` | |
| `SessionProofs` | theorems about `Session` | |
| `EditProofs` | theorems about `SettingsEdit`, `CnxEdit`, `SavedQueryEdit`, `FolderEdit` | |
| `AccessProofs` | theorems about `AccessEdit`, `EnforcementEdit`, and about `MCServerEdits`, which composes all six | |
| `RowsAndFiltersProofs` | theorems about `Wizard`, `RowShape`, and about `MCRowsAndFilters`, which composes them | |

State and code correspond name by name: `state` is the dict of `create_state`
(without what is only logged), `page` is `page.assets`, `next` the position of the
`for` loop, `cursor` is `request_obj.cursor_id`, `fd` is `_fd`, `table` is
`Table._rows`, `tag_rows_add` is `TAG_ROWS_ADD`; in `PagingState` the variables have
the attributes' names; in `HttpSend` `attempt` is the loop variable and
`max_retries` is `MAX_RETRIES`; in `Session` `headers` stands for the two key headers
of `http.session`. An action is what the code does between two points at which
somebody else can act: a request (the server changes while no request of this
client is under way, which covers changes at any time because a request is
answered from one state of the server), a `yield`, a prompt, the return to the
program. `callbacks.stop()` is three actions because two requests happen in it.
Variables named under "What happened, for the properties only" are history: no
action reads them.

Points that are easy to get wrong, and how the modules have them:

* `parse_int_min_max` replaces a value out of bounds by the default; it does
  not clamp. `page_start` is multiplied by the page size the caller asked for,
  before that is corrected (`StartOf`).
* `do_pre_row` counts a row before `Table.check_stop` looks at the count
  (`TakeRow`, `TableFull`).
* The Csv header is written with the first row, not by `start` (`WithHeader`).
* `process_row` of the page runs behind the `yield`: `max_rows` is tested when
  the caller asks for the next row (`Resume`).
* A row dropped by a custom callback is still yielded, as its id, by Json and
  Csv (`Yields`).
* `Http` sends the same prepared request again; nothing takes an attempt back
  that was given up, so a copy may be handled after later calls (`Handle`).
* In `PagingState` the offset counts rows given to the caller, not rows fetched.
* `update_section` sends every key that was read, but drops those of the section
  written that its schema does not describe (`Built`, `Dropped`).
* A connection is sent as the program holds it, label, tunnel and activity
  included, with the keys of its configuration that have a schema (`Carried`),
  and with its discovery switched off (`Sent`); the label comes by a request of
  its own (`WithLabel`).
* Details are not filled in with nulls, so a row may lack an announced column of
  theirs (`WithoutDetails`).
* A saved query is looked for by the name OR the UUID of the one at hand, and
  the first match of a new list is taken (`Matches`); so is an enforcement set
  (`EcFull`).
* A folder at hand has two trees: the one it was loaded from (`own`), with its
  path, parent and children, and the one that folders are looked for in
  (`view`). `rename` looks for siblings under the parent that `own` names, in
  `view`; `create` takes the children of `own` for those there are.
* `get_sets_generator` counts the rows it was given and asks for those behind
  them (`NextOffset`), and each row costs a request before the next page
  (`EcFull`); `PageLimit` stands for `MAX_PAGE_SIZE`.
* `_update` and `_create` of an enforcement set are given a folder that their
  request has no attribute for (`EcSent`).
* `get_by_name` of users raises `NotFoundError` also for a role that is not among
  those kept, and `add` takes that for a free name (`AcListed`).
* Columns are computed from the schemas when they are first asked for
  (`FinalColumns`), keys by each callback on its own (`Named`, `Flattened`,
  `PerEntity`).
* `Wizard` writes the brackets it adds into the entries it was given, also into
  the one before (`Closing`).

## Runs

| run | instance | shows |
|---|---|---|
| `asset_fetch` | up to 3 assets at first out of 4, `MaxPageSize` 3, a server that repeats the cursor; 2 changes, 1 malformed item, 1 count without a value; 144 calls that combine limits, size (one beyond the maximum), start and cursor, 4 with labels and callbacks that drop rows, 36 with the other formats, file situations and the table limit; failing rows and requests in all | `TypeOK`, `Accounting`, `ExactWindow`, `LimitsRespected`, `FaultsExplained`, `TagsOnceAtTheEnd`, `ExportWhole`, `OldFileKept`, `ImplementsRowStream`, `Terminates` |
| `asset_table_rows` | table exports limited to 1, 2, 3 rows | violates `TableShowsMaxRows` (finding 1) |
| `enforcement_run` | 1 or 2 IDs, error limit 2, `MAX_RETRIES` 0 or 2, 3 requests, every order of calls | `RunTypeOK`, `CallsInOrder`, `LastResponseOfLastAnswered`, `UnforcedRunsGrounded`, `RunsExplained`, `MethodsReturn` |
| `enforcement_limit` | the same | violates `LimitedAsNoted` (finding 2) |
| `enforcement_retries` | the same with `MAX_RETRIES` 1 or 2 | violates `RetriesAsDocumented` (finding 5) |
| `session` | 2 models and signup, both kinds of credentials, 2 key resets | `SessionTypeOK`, `UsableOnlyValidated`, `LoggedInSendsValidated`, `QuietAfterLogout` |
| `session_null` | the same | violates `NullSendsNoCredentials` (finding 3) |
| `paging_state` | up to 4 rows, page sizes 1 to 3, starts 0, 1, 3, `row_stop` None, 0 to 3, 2 changes | `PagingTypeOK`, `OffsetFollowsCaller`, `PagingFaultsExplained`, `FollowsRowStream`, `PagingEnds` |
| `paging_row_stop` | the same | violates `StopsAtRowStop` (finding 4) |
| `server_edits` | 2 clients; 3 calls to settings (7 places) or saved queries (3 UUIDs), 2 to connections, folders (2 roots, 2 nested below, one to be made), enforcement sets (2 of 3, pages of 1) or users and roles (2 of 3 each) by programs that may have fetched an object before | `EditsTypeOK`, `SettingsOnlyNamed`, `CnxOnlyNamed`, `SavedQueryOnlyMeant`, `NamesUnique`, `FoldersStayTree`, `FolderDeleteSparesUnseen`, `SetOnlyMeant`, `AccessOnlyMeant`, `AccessAddTold` |
| `rows_and_filters` | every combination of the arguments that meet in the code, a first row and a later one of another shape; CSV files of up to 5 rows with 7 sets of flags | `RowsAndFiltersTypeOK`, `RowsMatchColumns`, `ItemsKept`, `FiltersGrouped` |
| `rows_correlated` | the same | violates `FlatCorrelated` (finding 6) |

The properties of `server_edits` are exact: a method that reads, decides and
writes cannot promise that nothing is lost when somebody else writes in between,
and the API has no conditional writes. Each property says that a write does
nothing its caller did not ask for BUT FOR named reasons, each a reading that
went stale between two requests, recorded as history by the step that made it
stale. `NamesUnique` is for saved queries and enforcement sets together, as the
same check, name and use is in both. `FaultsExplained` and `PagingFaultsExplained`
say that only rows that appeared make rows come twice, and only rows that
disappeared make rows be missed.

Why the bounds are enough: three assets in pages of one or two give a first, a
middle and a last page, full and partial, and the empty page behind them; a page
of three holds the whole result. Two changes are one insertion and one deletion,
or two of a kind, before, at or behind the offset. A limit of one is less than a
page, three is more than a page of two and all of the result. One malformed item
moves the offset off the server's once, and the first time is what matters. Two
attempts are a first and a last one, and three requests are a verification that
has to be made again, or a run that follows another. A second key reset
invalidates keys that a login took after the first.

In `server_edits` two calls are one that is under way and one that makes what it
has read stale; the third is another call of the first client with what it was
left with, and where two suffice programs hold an object, or kept roles, from
before the first. A behaviour is of one component (`which`), because components
share nothing on the server and a call is of one: this is a sum of six instances,
not a product. Folders are two deep below a root and
three with the one that is made, enough for a move below itself and for a path
whose last part is missing, or lost again while the call goes along it. Pages of one set make the lookup
miss one when another is deleted, as pages of 2000 do. The symmetry (clients,
UUIDs of queries) is sound as only invariants and action properties are checked.
In `rows_and_filters` a first row fixes the columns and a later one, fuller or
emptier, meets them; an entity with two items beside one with one tells rows per
entity from rows per item; five rows of a file are two saved queries and three
filters, the least that can open, continue and close a bracket with flags before
and behind.

The names of the bounds: `MaxPending`, `MaxChanges`, `MaxMalformed` (`AssetFetch`),
`MaxCalls` (`ApiClient`), `CnxCalls`, `FolderCalls`, `SetCalls`, `AccessCalls`
(`MCServerEdits`), `MaxGeneration` (`CnxEdit`), `MaxRows` (`Wizard`),
`MaxChanges` (`PagingState`, `EnforcementRun`), `MaxCalls` (`EnforcementRun`),
`MaxResets` (`Session`). `RepeatsCursor` says whether the server sends the cursor
with every page; where it does not, the code forgets it, and a fetch by cursor
becomes one by offset. `asset_fetch` has a server that repeats it; fetches by cursor
from one that does not are left to the proofs, which assume nothing of
`RepeatsCursor`.

Every property is paired with a mutant, a plausible bug in a mapped definition
that makes TLC find the property violated (`PROJECT.json`, "mutants").

### Fairness

`AssetFetch` and `PagingState` assume weak fairness of the client's steps: the
generator runs in the caller's thread, a caller who keeps asking drives it, and
`requests` returns or raises (the client always passes timeouts). Failing,
and letting go of the generator, stay possible and are never forced in
`PagingState`. Nothing is assumed of the server, whose changes are bounded.
`EnforcementRun` assumes weak fairness of the Runner's own steps, among them that
an attempt without an answer times out; nothing of the program, the user or the
server. `Session`, the `*Edit` modules,
`RowShape` and `Wizard` claim no liveness: a program may stop between any two
calls, and a method is a fixed number of requests but for the paged lookups,
which end as those of `PagingState` do.

## Findings

1. `api/asset_callbacks/base_table.py:165`: a table limited to N rows has N - 1.
2. `api/assets/runner.py:260`: `verify()` refuses `$count_ids` equal to `$count_error`,
   its notes only more than that.
3. `connect.py:856`: the model that authenticates with no credentials shares the
   client's session and sends the keys once the client has logged in.
4. `api/json_api/paging_state.py:260`: `row_stop` is documented as a row to stop
   at, and is a number of rows.
5. `http.py:679`: `MAX_RETRIES` is documented as how often a failed request is
   repeated (`http.py:176`, `http.py:275`, `connect.py:337`), and is how often it is
   sent: with 1 it is never repeated.
6. `api/asset_callbacks/base.py:698`: flattened sub-fields are documented to be
   correlated by their index (`base.py:72`), but the list that an item has is
   spliced into its column, so that values behind it stand beside those of
   another item.

Behaviours met on the way that no run claims to be wrong: `run()` of a Runner made
with `verified=True` needs no `verify()` and so skips `$count_error`; `max_pages` counts
pages from the first row of the result, not from `page_start`; `init(redo=True)`
keeps `$verified`; `session_reset` loses the keys while `is_logged_in` stays set; a
login that fails leaves its keys in the session and `logout()` then does nothing;
a failing label request leaves the export file without its end; the initial
count is asked for without a limit; `PagingState` does not refuse a page size
below one.

Of the methods that edit: every update of a connection switches off its own
discovery, which no argument of `update_cnx` names; with `parse_config` a key that is
in the configuration but not in the schemas is lost; `get_by_uuid`, which reads back
a connection just made or updated, raises `NotFoundError` when that is on another
node or tunnel by then; an update of a user (`SystemUsers._update`) has no
parameters for title, department and `allowed_scopes_impersonation`, so these are
sent as their defaults; `SystemUsers.add` makes a second user of a name when any
user has a role that is not among those kept (`NotFoundError` of the role is
taken for that of the user); `SystemRoles.add` swallows "Invalid input"; the folder
given to `_create` and `_update` of an enforcement set is not sent; `copy` of the
enforcement API checks no name; `rename` of a folder asks the parent it had, and
`create` its own children, about names that are taken.

Of rows and filters: an excluded field comes back out of its `_details` under
`explode_entities`; excluding `adapters` (a default of the table format) with
`explode_entities` drops every row; a sub-field is excluded by the short name of
an unrelated field; `include_details` with `field_flatten` leaves keys that have no column; entity
explosion drops the columns of reports; the keys of each row are added to
the `fieldnames` of a CSV file behind its header, so `csv_key_extras="raise"`
(`base_csv.py:68`) raises nothing, and values stand behind the last column; `_add_report_software_whitelist`
tests `any([...])` of a list that is never empty of lists, so the extra and missing
software are not what their names say; the wizards write flags into the entries
of their caller.

## What is proved

TLAPS checks the theorems below for all values of the constants, that is for
every number of clients, rows, pages, calls, attempts and changes, and without
the bounds of the runs. `PROJECT.json` lists them with the properties they are
about. Each rests on an inductive invariant, which TLC checked on the instance
of the component's run before it was proved.

What is assumed is what the modules' ASSUMEs say, and TLC evaluates them in every
run: types of the constants; that the rows of a first result are distinct
(`IsInjective`: the server gives an id once); that the server's list of enforcement
sets has each of them, and that an added one moves no other forward in it
(`SetListsAssumption`: the code pages through the list by offset and relies on
this, as it asks for no order; sets that are deleted do move others, and the
theorem about names says so); that the file tokens are no assets;
that the values which stand for "none" and "deleted" are neither ids nor
records (`NoCnxAssumption`, `NoQueryAssumption`, `FirstSetsAssumption`,
`FirstAccessAssumption`), which the code gets from `None` and from an id that is
missing in an answer; that folders are finitely many and each first
one is in the root or in a folder listed (`FolderAssumption`); and of rows that a call asks for fields of the sample and
excludes any (`RowArgsAssumption`), that what the server sends are values, with
items in a complex field and in its details, and its adapters, which the program
always asks for (`RowsAssumption`), what the strings are that are put together for
the fields of the sample (`TextsAssumption`: the provers do not compute strings, TLC
does), and that no two names get the same title or the same short name
(`NamesAssumption`: a title is the name behind a prefix, and no key that is sent is
the short name of another; the code would let one value overwrite the other).

### Asset fetch (`AssetFetchProofs`)

`TypeCorrect`, `AccountingCorrect` and `OldFileNeverLost` follow from

    IInv == TypeOK /\ Untouched /\ OldFileKept /\ Consumed /\ Accounting

`Accounting` is not inductive by itself: that a page is consumed when the next
request is made has to be known (`Consumed`), else `process_page` would forget
rows of the old one; and `next \in 0..Len(page)` comes from `TypeOK`.
`OldFileKept` needs that nothing touches the file before `start` (`Untouched`).
The others are proved on top of `IInv`:

* `WindowExact` (`ExactWindow`) from `WindowInv`: nothing is there before the first
  page (`Fresh`); what the server pages over is still the first result as long as
  the fetch is undisturbed, whether it comes from the cursor or the population
  (`SameResult`); the page held is the piece of that result that ends at the offset
  (`PageInWindow`, for which `Accounting` places the offset); and the rows seen are
  its beginning from the start on. At an empty page the offset is at or beyond
  the end.
* `LimitsNeverOverrun` (`LimitsRespected`) from `LimitInv`: wherever a row may be
  taken, or a page asked for, the limit has not been reached (`RowsLeft`,
  `PagesLeft`), and what was fetched is a number of full pages, or the result has
  ended (`PagesFull`).
* `ExportIsWhole` (`ExportWhole`) from `ExportInv`, which says at each point between
  `start` and `stop` what the file holds of the rows kept (`FileSoFar`).
* `TagsAreSentOnce` (`TagsOnceAtTheEnd`) from `TagInv`: what is remembered for a
  label is the set of rows let through, once each, but behind a failing row,
  where nothing is sent any more (`RememberedOnce`).
* `FetchFaults` (`FaultsExplained`) from `FaultsInv`. The rows behind an offset decide
  what is still to come: until one appears in the server's result none of those
  handed over is among them (`ComesOnce`), until one disappears all that were
  wanted and have not come are (`NoneMissed`). A fetch may turn from a cursor to
  offsets, so the two results, the cursor's and the population's, have to be
  compared as well (`CursorBehind`).
* `FetchImplementsStream`: every step of a fetch that is not disturbed is a step
  of `RowStream`, or changes nothing there (`StreamStep`); and
  `CursorImplementsStream`: where all calls use a cursor that every response
  repeats, and no item is malformed, `Spec => Stream!StreamSpec` without a
  condition on what changes. This is the safety part; that the stream ends is
  `Terminates`, for a stream is open until the fetch has ended.

### Paging state (`PagingProofs`)

`PagingTypeCorrect` and `OffsetFollows` come from `CountInv`: the offset is right
behind the last row yielded, the loop stands inside the page it goes through
(`LoopPosition`), and where it takes a row `row_stop` leaves room for one
(`RoomForRow`).
`PagingImplementsStream` proves the run's property `FollowsRowStream`, a step
refinement of `RowStream` while the rows do not change, from an invariant like
that of assets; `PagingFaults` (`PagingFaultsExplained`) is as `FetchFaults` with
one result instead of two.

### HTTP and the Runner (`EnforcementProofs`)

`CallsAreInOrder` and `LastResponseIsOfLastAnswered` come from `HttpInv`. The
server may handle a copy at any time after it was sent, so the invariant is about
all copies there have been: each is of an attempt that was made, handled once, a
further attempt is of a call that failed before, and a call that returned was
handled before each later one (`OneCopyEach`, `FurtherFailed`, `ReturnedFirst`).
`UnforcedAreGrounded`, `RunsAreExplained` and `RunTypeCorrect` come from `RunnerInv`,
which relates the Runner to the request it is in (`InRequest`), an answer that is
still on its way to what the server knew (`CountsMatched`), and says that unless a
run was forced, forgotten or refused there is at most one request for it that
went without failure (`OneGoodRun`).

### Session (`SessionProofs`)

The four properties of run `session`, from their conjunction and two additions: a
login under way has ended what a logout began (`LoginEndsQuiet`), and only a
validation logs in (`LoggedInIsValidated`).

### Methods that edit (`EditProofs`, `AccessProofs`)

Each component has a specification of its own here (`SettingsSpec`, `CnxSpec`,
`SavedQuerySpec`, `AccessSpec`, `EnforcementSpec`): its Init and Next with the
clients', without the bounds on calls of `MCServerEdits`. A behaviour of that
module is of one component, which it names in `which`, and each of its steps is a
step of that one and leaves the others' variables alone; so what a theorem says of
a component holds of the behaviours of the run that are about it.

The properties have one shape: a write changes only what its call is for, or what
the history says was changed since the call read it. The invariants have too:

* what a client holds, and what its call works with, is a copy of something that
  there was, and equals what there is now in every part the history does not name
  (`SeenUntouched`, `Copied`, `SqCopy`, `FoundIn`, `EcCopy`); ids are not used again,
  so a copy of something deleted stays harmless;
* at each request a call has read what it needs, and for one it may make
  (`SeenUnrefused`, `HasReading`, `UserLook`, `EcLooks`, `EcWorks`);
* what a name check found is remembered: who has the name since it was free is
  among those noted (`NamedNoted`, `FreeBut`), and a copy knows whether its name
  was shared (`SharedNoted`, `EcSharedNoted`); while the check of a set's name is
  still reading pages, each set is noted, in the page at hand, behind the offset,
  or has another name (`EcNamesOK`), which a page that is taken, a row that is
  looked at and any write of another client keep (`EcPageTaken`, `EcRowTaken`,
  `EcNamesWritten`).

The operators take the table as an argument, so that a lemma about what one
client's write does to the copies of another (`EcAwareCopies` and its like) can be
used of the table before and after the step. From these follow
`SettingsWritesOnlyNamed`, `CnxWritesOnlyNamed`,
`SavedQueryWritesOnlyMeant`, `SavedQueryNamesAreUnique`, `AccessWritesOnlyMeant`,
`AccessAddIsTold`, `EnforcementWritesOnlyMeant`, `EnforcementNamesAreUnique`, and
the types of all six components. The type of saved queries needs that the rows a
call still has to look at (`todo`) are some of the list it looked through, that of
enforcement sets that position and offset stay within page and list (`EcLookOK`).

Folders (`FolderTypeCorrect`, `FoldersRemainTree`, `DeleteSparesUnseen`) rest on
`FolderInv`. The server's folders are a `Tree`: each has a parent that is listed, or
the root. Cycles are not excluded, for two moves that cross can make one, and the
theorem says when. `Knows` says of each of the two trees a client holds that
it agrees with the server's on every folder that has not changed since, and that
a folder which came into one it lists is among the changed; `FoundOut`
says what the call knows by its step (before the move: the name is free below the
target, and the target is not inside the folder), `Counted` what `delete` has
counted. What is above a folder is a recursive function, a set for each level;
lemmas by induction over the levels say that the paths of two trees agree up to
the first folder that differs, that the folders on a path have the path's
beginnings, and which folders a changed parent moves
along. The proof of `FoldersRemainTree` met a counterexample to an earlier statement of
the property that no run had reached, because it takes a third call, and TLC
confirmed it: `move(create=True)` makes the target's last folder, and before it
moves, another client moves that folder below the one to be moved. The reason is a
folder that `move` knows itself and has put into its tree, and the property now
names it.

A behaviour of `MCServerEdits` is a behaviour of the component it names in `which`
and leaves the others as they were (`Chosen`, and a lemma for each component, such
as `SettingsChosen`); what the components' theorems say then holds of the whole:
`EditsTypeCorrect` and `NamesAreUnique` state the run's `EditsTypeOK` and `NamesUnique`
for every instance.

### Rows and filters (`RowsAndFiltersProofs`)

The pass of a wizard over the filters is a recursive function `Seen` of their
number. Induction over it gives what it has after `n` entries: which of them are
completed (`EntriesSoFar`), whether a bracket is open, and since when. Whether a
bracket stands before or behind an entry is then said without the pass (`Opens`,
`Shuts`), and counting these says that brackets balance and are weighed. A second
pass over what the first has written finds the same brackets, because a bracket it
adds is one that it finds there. `WizardInv` says that each saved query has the
filters between its row and the next; `FiltersAreGrouped` follows.

`RowsMatch` follows the keys of a row through the callbacks. `Fits` says what a row
may have before complex fields are taken apart: fields that are kept, strays, and
when nulls are filled in and entities are not taken apart, all that are kept but
details, which nulls are not filled into. Then a field of the sample has its final
column whether or not details are there (`PlainFinal`). `Shaped` says it behind that, of the
final fields; the two agree because `final_schemas` and the callbacks take the
software apart in the same cases (`FinalIs`, `SplitIt`), which needs that a field to be
exploded was found (`NotFound`). `Done` says it of the columns, with
their names. Neither needs to know the rows before: schemas and columns
are kept from the first row, and hold for any other (`SchemasAreOK`).

`ItemsAreKept` follows the values, from the assets or entities that a row stands for
(`Sources`) to the columns. `Known` says what the row of a source has of it before
complex fields are taken apart; that nulls are filled into its items and excluded
sub-fields trimmed tells none of them apart from what came (`SameSubs`,
`CleanKeeps`). A source then becomes a block of rows, one for each item (`BlockIs`),
that show it (`FieldsShown`) and have all else from the one row (`FromRow`); because
names stay different, a value is found again by the name of its column
(`NamedKeeps`), and rows that are alike but for their items still are
(`NamedAlike`). Blocks and the rows to expect are flattened from two lists of the
same lengths, so what was at one place still is (`FlattenedTogether`). The invariant
is that the schemas have the details of the fields that were asked for
(`SchemasFull`), without which an entity would lose them. The column of a sub-field
is what the items have of it, one behind the other (`InOrder`); where each has a single
value it stands at the item's place. That it does so always is refuted (finding 6).

`RowsAndFiltersTypeCorrect` is for the composition, as with the methods that edit.

Lemmas of use elsewhere: those of `PagingLemmas` (what is behind an offset after a
row came or went: `BehindInsertAt`, `BehindRemoveAt`; what a page is of that:
`WindowOfBehind`, `NextOfBehind`), those for induction
(`SetInduction`: a set of numbers that has 0 and each successor has all;
`StepsTaken`, `StepsAlike`: a recursive function exists, and two that start and go on
alike are alike), `FlattenedSeq`, `FlattenedElements`, `FlattenedSingles` and
`FlattenedTogether` about the community modules' `FlattenSeq`, and of `AssetFetchProofs` `LoadResponseType`,
`ProcessPageType`, `TakeRowTypes`.

### Only model-checked

Liveness: `Terminates`, `MethodsReturn` and `PagingEnds`. The prover does not reason about `ENABLED`, so this stays with TLC for good. Every
invariant and every action property that a run checks is stated by a theorem.

What recursive functions compute is proved by induction over sets of
numbers, where each step of the pass or level of the tree is in the module as a
function; the library's induction theorems, which take an operator, are not used.
No module declares a RECURSIVE operator.

## Not modelled

* Of assets: building queries and lists of fields, lookups by value
  (`get_by_*`), history dates, expiring labels, `invert_selection`, the trimming of
  joined text, the Xlsx, Xml and JsonToCsv formats: formatting, or variants of
  what is modelled. Exports to a file object that the caller has opened
  (`export_fd`, `export_fd_close`: `base.py:1317-1330`, `1341`, `1392-1396`). The count of the Runner asks once where the code asks until
  it gets a number, and the lookup of its enforcement set is left out.
* Of settings: the upload and reset of the GUI certificate (single requests).
  `_cert_settings` sends two more sections as `{}` (`settings.py:534-542`,
  `system_settings.py:235-262`).
  Of connections: testing one, moving one to another node, and lookups by other
  values than the id, which change nothing. Of saved queries: building, import and
  export, and the updates that are refused for what the query is
  (`saved_queries.py:402-409`). Of folders:
  searching the objects in them (`search_objects`), and copying, moving and
  deleting those found, which is a loop of `SavedQueryEdit`'s and
  `EnforcementEdit`'s methods. Of enforcement sets: how schedules and conditions
  are computed, how an action's configuration is checked, `run`. Of users and
  roles: password links and mails, that the user `admin` is not
  deleted, the parsing of permissions, and the methods
  of data scopes, whose list is kept for a minute as that of roles is.
* Of sessions: the requests of the line that is logged behind a start
  (`connect.py:463`), which change nothing.
* Of rows: a field is excluded by any of its names, also by one of a sub-field
  (`base.py:1003-1009`: excluding `software.labels` excludes `labels` too).
* Of wizards: rows of a file that are refused for their fields, page size or
  booleans (`wizard_csv.py:281-298`); that a value which ends in brackets loses them
  when flags are split off a second time (`wizard.py:393-398`).
* How the wizards split the text of a filter, find its field and check its
  value; parsers, the schemas of settings beyond required, default and unknown
  keys, the command line, certificate tools, logging, environment files:
  conversions and I/O without a protocol.
* Discovery, dashboards, instances, metadata, logs, remote support: single
  requests and reports. `projects/cf_token` is a chain of fallbacks around a
  subprocess (with `error=False` it raises all the same for a token or URL that
  was supplied and is invalid).
* Endpoints and data models are reduced to "answers or raises".

## Plan

Order of work; done so far: 1 to 11.

1. `AssetPage`, `AssetCallbacks`, `AssetFetch` with runs `asset_*`.
2. `RowStream`, implemented by `AssetFetch` (cursor) and `PagingState` (steady rows).
3. `HttpSend` and `EnforcementRun`, composed.
4. `Session`.
5. `ServerPage`, `PagingState`.
6. `AssetFetchProofs`: types, counters, files, exact window.
7. `ApiClient` with `SettingsEdit`, `CnxEdit`, `SavedQueryEdit`, `FolderEdit`,
   `EnforcementEdit`, `AccessEdit`; run `server_edits`.
8. `RowShape` and `Wizard`; run `rows_and_filters`.
9. More proofs: limits, files, labels and faults of a fetch, and that it refines
   `RowStream` step by step; the same for `PagingState`; the invariants of
   `HttpSend` with `EnforcementRun` and of `Session`; that the methods that edit
   change only what they are meant to.
10. Proofs about trees and passes, by induction: folders, the wizards; the columns of
    rows; the types of all that is edited, and of the compositions.
11. That no item of a row is lost or misplaced, proved with an account of what each
    callback keeps of a source.
12. Where it pays: `invert_selection` and the remaining formats in `AssetCallbacks`; the
    count loop of the Runner.
