# TLA+ models of the littlelambocoin GUI and installer scripts

This directory holds TLA+ models of the parts of the repository that have
concurrent, asynchronous or failure-dependent behaviour. It also holds the
TLC configurations that check those models. Every model is translated from
the source. `PROJECT.json` maps each definition to the lines it models.

## The system

The repository slice holds these parts:

* **The GUI packages** (`littlelambocoin-blockchain-gui/packages/*`). This is
  an Electron/React front end talking to the wallet and full-node daemons
  over RPC.
  * *api*: service names and a floating-point unit converter.
  * *core*: the block-reward schedule, the locale menu, the logo, and the CAT
    send form that shares `Logo.tsx`.
  * *wallets*: the RTK Query cache subscription handler
    (`useIsWalletSynced.ts`), the offer import screen, and the wallet
    lists and icons.
  * *gui*: settings, the passphrase dialogs, pool selection and dashboard
    cards.
* **The installer build scripts** (`build_scripts/*.sh`, the rpm script in
  `unnamed/part_004`, `Install.ps1`, and the Windows workflow). They package
  the daemon with pyinstaller and the GUI with electron-packager, then build
  a deb, rpm or dmg.

The parts interact in three ways:

* The GUI screens call the daemons through RTK Query endpoints.
* The cache handler keeps RTK Query's cache in step with the daemon's push
  notifications.
* The build scripts rewrite the GUI's `package.json` while packaging it.

## Modules

| Module | Models | Source |
|---|---|---|
| `SubscriptionLifecycle` | The abstract promise of the push-synchronisation layer for one cache entry. Subscriptions open only after the entry's data loaded, close only after the entry is removed, and are never reopened. After removal, every open subscription eventually closes. | spec sections 3 and 5 |
| `CacheInvalidate` | `onCacheEntryAddedInvalidate`: cacheDataLoaded, the Promise.all of `rtkQuery` subscribe calls, pushes, and teardown in `finally`. | `wallets/src/hooks/useIsWalletSynced.ts` 10–67 |
| `OfferImport` | `SelectOfferFile`: drop, file dialog, paste, the `fs.stat` callback, `continueOpen`, `parseOfferSummary`, and the shared `isParsing` state. | `wallets/src/components/offers/OfferImport.tsx` |
| `BlockRewards` | `calculatePoolReward` and `calculateBaseFarmerReward`, as operators. | `core/src/utils/blockRewards.ts` |
| `WalletCATSend` | The CAT send form: `canSubmit`, the checks and address normalisation of `handleSubmit`, `spendCAT`, the result dialog and the form reset. | `core/src/components/Logo/Logo.tsx` 62–272 |
| `SecurityCard` | The passphrase card: the keyring status query, the buttons it shows, the three prompt flags, the success handlers with their alerts, cancel, and leaving and returning to the page. | `gui/src/components/settings/Settings.tsx` 50–235 |
| `PlotNFTSelectPool` | The pool selection form: the render branches on the wallet, `handleSubmit` with its loading flag and `finally`, and `prepareSubmitData` with the `getPoolInfo` await and its checks. | `gui/src/components/settings/Settings.tsx` 279–420 |
| `LocaleToggle` | The locale menu: the `useToggle` flag, the anchor, the current locale, the three handlers and "Help translate", and the Menu's exit transition. | `core/src/components/LocaleToggle/LocaleToggle.tsx` 12–67 |
| `MC_Wallets` | `OfferImport` and `WalletCATSend` interleaved, for one run over both wallet forms. | — |
| `MC_Settings` | `SecurityCard` and `PlotNFTSelectPool` interleaved, for one run over both stateful components of `Settings.tsx`. | — |
| `BuildInstaller` | The deb, rpm and macOS arm64 scripts as steps whose commands may fail. | `build_scripts/build_linux_deb.sh`, `unnamed/part_004`, `build_scripts/build_macos_m1.sh` |

Each `MC_*` module gives the constants small values for TLC.

### CacheInvalidate

**State.**

* `entry` is the RTK cache entry: loading, loaded or removed.
* `pc` is the await the handler is suspended on: `awaitLoaded` (line 29),
  `subscribing` (Promise.all, line 31), `awaitRemoved` (line 63) or `done`.
* `call[d]` is the state of the subscribe call of descriptor `d`: idle,
  pending, open, noData, rejected or closed.
* `unsubscribes` is the array of line 27.
* `cached` and `refetches` are the effects of pushes.

**Actions.** Each action is one macrotask together with the microtask
continuations it releases, because that is how the browser runs `await`
chains.

* `CacheDataLoaded` issues every call (the `map`, lines 31–34).
* `RtkQueryResponse(d, o)` settles one call. It pushes `response.data`
  (lines 58–60) and, when this settles Promise.all, resumes the handler into
  `finally`. Promise.all settles when all calls settle, or at the first
  rejection.
* `CacheEntryRemoved` resumes whatever await is pending.
* `PushData` runs the push callback (lines 37–55): skip, onUpdate through
  `updateCachedData`, or a forced refetch of the endpoint.

**Refinement.** `Lifecycle == INSTANCE SubscriptionLifecycle WITH subs <- ...`
maps `call` to the abstract open/closed/none state. `ImplementsLifecycle`
checks the whole handler against it.

**Pushes during teardown.** A push that arrives after removal, but before
`finally` has unsubscribed, still updates the cache or dispatches a
refetch. Spec §4.1 awaits removal and only then closes the handles, so
this window is within the contract. `RemovalEventuallyClosesAll` checks
that the window always ends.

### OfferImport

**State.**

* `pc[i]` is where import `i` is suspended: idle, file dialog, paste
  dialog, `fs.stat`, or the RPC.
* `isParsing` and `mounted`.
* `shown[i]` counts the error dialogs and navigations of import `i`.
* `started[i]` records that import `i` got past its dialog.

**Actions.** There is one action per handler or callback: `HandleDrop`,
`ClickSelectOfferFile`/`OpenDialogResult`,
`ClickPasteOfferData`/`PasteDialogResult`, `StatCallback`, and
`OfferSummaryResult`. Several import slots run at once, because no button is
disabled while an import runs.

### BlockRewards

Amounts are kept in 1/64 coin. Every amount the code produces is a whole
number of these units, and TLC's integers are 32 bits. The reference
`ScheduledReward` halves 2 coins once per three years of blocks, using a
RECURSIVE `Halve`. The state is one height, and it walks up through
`Heights`. The two functions each carry their own copy of the tier ladder
(`PoolBaseEighths`, `FarmerBaseEighths`), as the code does, so a tier edited
in one and not the other shows against the reference.

### WalletCATSend

An address is a model value that stands for one of the shapes the checks
tell apart: bech32, `retire`, hex with `0x`, `0X` or no prefix,
`colour_addr://` for this asset or another, `colour_desc`, and
`littlelambocoin_addr`. `CheckAddress` is the chain of lines 130–155,
written as an operator.

**State.**

* `state`, `currency` and `loading` are the wallet's sync status, the
  currency code, and the wallet's loading flag. Each changes on its own.
* `pending` counts the `spendCAT` calls in flight.
* `dialog` is the result dialog that `handleSubmit` awaits.
* `form` is typed or emptied by `methods.reset()`.
* `sent` is the set of addresses `spendCAT` received.

**Actions.**

* `Submit` is a click. It runs `handleSubmit` up to the `spendCAT` await,
  and is guarded by `canSubmit`, which also disables the Send button.
* `SpendResult` is the reply.
* `DialogClosed` resumes `handleSubmit`, which then resets the form.

Two branches are dead, and the operator reproduces both:

* The `colour_addr://` branch: every such address contains `colour` and is
  rejected at line 135.
* The `littlelambocoin_addr://` strip: it compares 12 characters with a
  23-character prefix.

`MC_Wallets` composes this module with `OfferImport`. The two share no
state, and their instances rename apart the variable `shown` that both
declare. Each step of the composition is a step of one of them that leaves
the other's variables unchanged, so every state of each component is
reached as it is alone.

### SecurityCard

**State.**

* `keyring` is the daemon's keyring: whether a passphrase is set, and
  whether it still needs migration. A keyring that needs migration has no
  passphrase.
* `isLoading` and `keyringStatus` are the query's cached copy of the
  keyring.
* `open` holds the three `useState` flags.
* `alert` is the AlertDialog that a success handler awaits.
* `skipMigration` and `mounted` (the settings page is the current route).

**Actions.**

* `KeyringStatusFetched` copies the keyring into the cache.
* `KeyringChangedElsewhere` is another client of the daemon (the command
  line's passphrase and migration commands) changing the keyring.
* `Click(p)`, `ClickMigrate`, `Succeeded(p)`, `Cancelled(p)` and
  `AlertClosed` are the card's handlers. `Succeeded` also writes the
  keyring, since the prompt calls `onSuccess` only after its mutation was
  accepted.
* `Leave` and `Return` unmount and remount the card, which resets its
  flags.

A button is visible for the cached status, as `ActionButtons` and
`DisplayChangePassphrase` decide (`ButtonVisible`). `Shown(p)` is the
render condition of each prompt. Prompts and alerts are modal: no button
can be clicked while one is shown. `PassphraseFeatureStatus` only picks an
icon and a text, and is left out.

### PlotNFTSelectPool

The form is modelled as used stand-alone. That is the only case in which it
renders its own submit button; with `onCancel`, the parent submits through
`getSubmitData`, in code outside the repository.

**State.**

* `walletLoading` and `hasBalance` come from `useStandardWallet`.
* `loading` is the button's `useState` flag.
* `pc` says where `handleSubmit` is waiting: on `getPoolInfo`, on
  `onSubmit`, or nowhere.
* `target` is the `initialTargetState` being built.
* `answer` is the pool's last answer.

**Actions.**

* `HandleSubmit` needs the form to be rendered (`SubmitButtonShown`: no
  spinner and no faucet) and the button to be enabled. It sets `loading`
  and goes to `getPoolInfo` when a pool URL is given with self pooling
  off, and straight to `onSubmit` otherwise. The form's inputs are chosen
  with `\E`.
* `PoolInfoAnswered` takes every answer `getPoolInfo` can give: a
  rejection, or a record with or without a puzzle hash and with a lock
  height that is missing (the field is absent, as in JSON), 0 or positive.
  `PoolAnswerRejected` is the two checks of `prepareSubmitData`. A rejected
  answer throws into the `finally` block (`Finally`).
* `OnSubmitSettled` is the parent's `onSubmit` resolving or rejecting.
  Both paths end in `Finally`.
* `WalletUpdated` is `useStandardWallet` refetching.

The fee conversion and `normalizeUrl` are left out, because no property
tells their results apart.

`MC_Settings` composes this module with `SecurityCard`. They share no
state, so each step of the composition is a step of one of them that leaves
the other's variables unchanged. TLC's action coverage names the two
disjuncts of `MCNext`; the expression coverage shows that every action of
both modules, and both branches of `PoolInfoAnswered`, fire.

### LocaleToggle

**State.**

* `open` is the `useToggle` flag.
* `anchorEl` is the anchor: the button, or null.
* `currentLocale` comes from `useLocale`.
* `exiting` says the Menu's exit transition is running.

**Actions.**

* `HandleClick`, `HandleClose`, `HandleHelpTranslate` and `HandleSelect`
  are the component's handlers. Each one flips the flag with `ToggleOpen`.
* `ExitTransitionEnded` is Material-UI hiding the menu's layer.

Material-UI v4 keeps the Menu's modal layer and its items in the page
until the exit transition ends. The items do not check whether the menu is
still open, so a click can reach "Help translate" or a locale after the
flag went false. `MenuInPage` is that window. Whether a click lands in it
is a matter of timing, so the model allows it. The backdrop, whose click or
Escape calls `onClose`, is rendered only while the menu is open, so
`HandleClose` needs `open`. While the layer is up, it covers the button.

### BuildInstaller

A step groups commands whose failure has the same effect. A step's outcome
is `ok`, `softFail` or `hardFail`:

* `softFail`: an unchecked command failed. It ends the script only under
  `set -e`, which the macOS script runs with.
* `hardFail`: a checked command failed, or a `cd ... || exit`.

The order of steps is the same in all three scripts:

1. `Start`, `Prep`, `Pyinstaller`, `NpmBuild`.
2. `Stamp` (copy `package.json`, then jq-stamp the version).
3. `Package` (electron-packager), `Restore` (move the copy back),
   `CheckPackage`.
4. The installer: `InstallerDeb`, `InstallerRpm`, or
   `SignMacos`/`DmgMacos`/`NotarizeMacos`.

`NOTARIZE` may be set, empty or unset. The argument may be absent, `amd64`
or `arm64`.

## Runs

| Run | cfg | Expect | What it shows |
|---|---|---|---|
| cache_subscriptions | CacheInvalidate.cfg | pass | Calls resolve with or without data. Every subscription opened closes after removal (`RemovalEventuallyClosesAll`), none stays open once the handler is done (`NoOrphanSubscription`), and the handler refines the lifecycle. |
| cache_orphan_on_reject | CacheInvalidateOrphan.cfg | violation | Load, then removal, then one call rejects. Promise.all rejects, `finally` unsubscribes nothing, and a sibling that resolves later stays subscribed forever. |
| wallet_forms | Wallets.cfg | pass | The offer import screen and the CAT send form, interleaved. **Offer import:** twelve imports in a row, one at a time, along every path. Each import ends with exactly one error dialog or navigation, and the Dropzone shows processing whenever a file is read or summarised. **CAT send:** every address shape, with sync and loading changing at any time. `spendCAT` never gets a prefixed or coloured address. |
| offer_import_stuck | OfferImportStuck.cfg | violation | A stat error leaves `isParsing` true with nothing running. |
| offer_import_overlap | OfferImportOverlap.cfg | violation | Two imports overlap, and the first to end clears `isParsing` under the second. |
| locale_menu_reopen | LocaleToggleReopen.cfg | violation | The user opens the menu and closes it, and a click on "Help translate" lands during the exit transition. `handleClose` flips the toggle back: the menu is open again, with a null anchor. A double click on a locale reopens it the same way. |
| block_rewards | BlockRewards.cfg | pass | `calculatePoolReward` and `calculateBaseFarmerReward` each repeat the tier ladder. At every tier boundary they give 7/8 and 1/8 of the reference schedule, so the two copies of the ladder agree with it and with each other. |
| build_installers | BuildInstaller.cfg | pass | In all three scripts, exit 0 implies an installer exists, and a run with no failing command produces one. NOTARIZE is set or empty here. The deb and rpm scripts always move `package.json.orig` back (`LinuxPackageJsonRestored`). |
| build_macos_restore | BuildMacosRestore.cfg | violation | Under `set -e`, an electron-packager failure exits before the restore. |
| build_macos_notarize_unset | BuildMacosNotarizeUnset.cfg | violation | With NOTARIZE unset, `set -u` aborts at line 75, before the DMG. |
| settings_components | Settings.cfg | pass | Both components of `Settings.tsx`, interleaved. The cached keyring status lags the daemon and other clients change the keyring. All the while, the pool form's button spins exactly while `handleSubmit` runs, even when `getPoolInfo` or `onSubmit` throws (`PoolLoadingWhileSubmitting`). |
| security_card_stale_prompt | SecurityCardStalePrompt.cfg | violation | The user opens Change on a stale status, for example just after removing the passphrase. A refetch then hides the prompt, but `changePassphraseOpen` stays set. When a passphrase is set again, the Change prompt reappears by itself, over the alert. No other client is needed. |

The violations are listed in `PROJECT.json` "findings".

### Bounds

* **Cache handler.** Three descriptors cover every case:
  * one with `onUpdate` and a skip predicate;
  * one endpoint descriptor with a skip predicate;
  * one endpoint descriptor without.

  There are two payloads, one that passes skip and one that does not.
  `MaxPushes = 3` lets pushes happen before removal, during teardown and
  after it. Every interleaving of load, removal and the three replies is
  explored.
* **Offer import.** Two import slots are enough for the overlap run. The
  number of imports is bounded by `MaxImports`. The passing run uses one
  slot and 12 imports, so that every path of an import follows every other.
  The slots share only `isParsing` and `mounted`, so a second slot adds
  nothing to `ExactlyOneOutcome`.
* **Block rewards.** Heights are 0, 1 and 2, plus every height within 12 of
  each tier boundary (3, 6, 9, 12 years) and of 15 years.
* **CAT send form.** Every address shape is included. Three submits are
  enough for a send, a failed send and a resend, and for a second click
  during a pending spend, which the mutant of `canSubmit` needs.
* **Passphrase card.** There is no bound to choose. Every keyring state,
  every cached status and every flag combination is reachable, and the
  state space is finite.
* **Pool form.** There is no bound to choose. The answers cover a missing
  and a present puzzle hash, a missing, zero and positive lock height, and
  a rejection. Zero is the edge that a falsiness test would get wrong.
* **Build scripts.** There is no bound to choose: the scripts are finite.
  Every combination of command outcomes, arguments and NOTARIZE values is
  explored.

### Fairness

* **CacheInvalidate** assumes weak fairness on each call's reply. The
  handler has no timeout or retry, so it relies on the daemon answering
  every subscribe request. Pushes, loading and removal get no fairness;
  they may never happen.
* **OfferImport** assumes that the `fs.stat` callback and the wallet's RPC
  reply eventually arrive. Its pass runs check safety only.
* **The build scripts** are finite sequences, and their runs check safety
  only.
* **WalletCATSend** checks safety only. The user need not click.
* **SecurityCard** checks safety only. A refetch is not guaranteed to
  come, and neither is a click.
* **PlotNFTSelectPool** checks safety only. The user need not submit.
* **LocaleToggle**'s run is a safety violation, and needs no fairness.
* **The compositions** `MC_Wallets` and `MC_Settings` conjoin no fairness,
  because their runs check safety only.

Deadlock checking is off in some cfgs and on in others, and with reason:

* The handler, an import screen at rest, the walk up the heights, and a
  finished script all legitimately stop.
* Deadlock checking is on in `Wallets.cfg`, `Settings.cfg`,
  `SecurityCardStalePrompt.cfg` and `LocaleToggleReopen.cfg`.
  * In `Wallets.cfg` the offer import screen may stop, but the composition
    does not, because the send form's wallet sync status can always change.
  * The locale menu can always be opened or closed. Likewise the passphrase card
never stops, because another client can always change the keyring.

## Not modelled

* **`ServiceName.ts`**: the unit converter works in JavaScript floats, which
  TLC cannot represent. The rest is an enum and rendering.
* **Rendering-only components**: the wallet lists, icons and badges, the
  dashboard cards, `Logo`, the Mode map, `useIsMainnet` and the icon
  (`unnamed/part_000`, `part_001` and `part_003`).
* **`Install.ps1`, the Windows workflow and `clean-runner.sh`**: linear
  environment checks.
* **`WalletCATCreateNew`**: a loading flag around one awaited call, and
  its create RPC is commented out.
* **`WalletsDropdown`'s memoised options.** The options are memoised on
  `wallets`, `walletId` and `isLoading`, but not on `trans`. After a locale
  change, they keep the wallet type names of the old language. The names
  come from `useTrans` and the lingui catalogue, which are outside the
  repository, and the component has no other state.
* **A failed keyring status fetch.** `SecurityCard` checks only
  `isLoading` before destructuring the status. A first fetch that fails
  would therefore throw while rendering. The model's fetch always returns
  a status, because whether `keyring_status` can fail depends on the RPC
  layer, which is not in the repository.
* **The unit converter in `ServiceName.ts`** has a numeric hazard that is
  recorded in `PROJECT.json`: a mojo-to-coin round trip through doubles.
  TLC cannot check it.
