----------------------------- MODULE SecurityCard -----------------------------
(***************************************************************************)
(* SecurityCard (gui/src/components/settings/Settings.tsx): the passphrase *)
(* settings.  The card renders the keyring status of                       *)
(* useGetKeyringStatusQuery, a button per operation the status allows, and *)
(* a prompt per React flag changePassphraseOpen, removePassphraseOpen and  *)
(* addPassphraseOpen.  A prompt's onSuccess closes it and awaits an alert. *)
(*                                                                         *)
(* The keyring belongs to the daemon; the card sees the query's cached     *)
(* copy of it, which a fetch brings up to date.  Other clients of the      *)
(* daemon (the command line's passphrase and migration commands) may       *)
(* change the keyring at any time.  Prompts and alerts are modal dialogs:  *)
(* while one is shown no button of the card can be clicked.                *)
(***************************************************************************)
EXTENDS Naturals

\* The three prompts, named by the operation they perform.
Prompts == {"change", "remove", "set"}

\* Keyring statuses: userPassphraseIsSet and needsMigration.  A keyring
\* still to be migrated has no passphrase.
KeyringStates ==
    {k \in [set : BOOLEAN, migrate : BOOLEAN] : ~(k.set /\ k.migrate)}

VARIABLES
    keyring,        \* the daemon's keyring
    isLoading,      \* useGetKeyringStatusQuery: the first fetch is pending
    keyringStatus,  \* its data, meaningless while isLoading
    open,           \* [Prompts -> BOOLEAN]: the three useState flags
    alert,          \* the AlertDialog a success handler awaits, or "none"
    skipMigration,  \* useSkipMigration()
    mounted         \* the settings page is the current route

vars == <<keyring, isLoading, keyringStatus, open, alert, skipMigration, mounted>>

TypeOK ==
    /\ keyring \in KeyringStates
    /\ isLoading \in BOOLEAN
    /\ keyringStatus \in KeyringStates
    /\ open \in [Prompts -> BOOLEAN]
    /\ alert \in Prompts \cup {"none"}
    /\ skipMigration \in BOOLEAN
    /\ mounted \in BOOLEAN

\* The card is mounted past the migration prompt, so migration was skipped.
Init ==
    /\ keyring \in KeyringStates
    /\ isLoading = TRUE
    /\ keyringStatus = keyring
    /\ open = [p \in Prompts |-> FALSE]
    /\ alert = "none"
    /\ skipMigration = TRUE
    /\ mounted = TRUE

-----------------------------------------------------------------------------
(* Rendering                                                               *)

Loaded == mounted /\ ~isLoading

\* The button of ActionButtons and DisplayChangePassphrase for an operation,
\* as the cached status shows it.
ButtonVisible(b) ==
    /\ Loaded
    /\ CASE b = "migrate" -> keyringStatus.migrate
         [] b = "set"     -> ~keyringStatus.migrate /\ ~keyringStatus.set
         [] OTHER         -> ~keyringStatus.migrate /\ keyringStatus.set

\* A prompt is mounted when its flag is set; ChangePassphrasePrompt only
\* inside DisplayChangePassphrase, which needs a set passphrase.
Shown(p) ==
    /\ Loaded
    /\ open[p]
    /\ p = "change" => ~keyringStatus.migrate /\ keyringStatus.set

\* A modal dialog covers the card.
Modal == alert # "none" \/ \E p \in Prompts : Shown(p)

\* What a successful prompt writes to the daemon's keyring, and whether
\* the daemon accepts it (else the prompt shows the error and stays open).
Write(p) == [keyring EXCEPT !.set = (p # "remove")]
Accepts(p) ==
    IF p = "set" THEN ~keyring.set /\ ~keyring.migrate ELSE keyring.set

-----------------------------------------------------------------------------
(* Actions                                                                 *)

\* The query's fetch resolves: the first load ends isLoading, a later one
\* replaces the cached status.
KeyringStatusFetched ==
    /\ isLoading \/ keyringStatus # keyring
    /\ isLoading' = FALSE
    /\ keyringStatus' = keyring
    /\ UNCHANGED <<keyring, open, alert, skipMigration, mounted>>

\* Another client changes the keyring: sets or removes the passphrase, or
\* migrates it.  A migrated keyring never needs migration again.
KeyringChangedElsewhere ==
    /\ \E k \in KeyringStates :
          /\ k # keyring
          /\ k.migrate => keyring.migrate
          /\ keyring' = k
    /\ UNCHANGED <<isLoading, keyringStatus, open, alert, skipMigration, mounted>>

\* "Change Passphrase", "Remove Passphrase" or "Set Passphrase" is clicked:
\* setChangePassphraseOpen(true) and its siblings.
Click(p) ==
    /\ ~Modal
    /\ ButtonVisible(p)
    /\ open' = [open EXCEPT ![p] = TRUE]
    /\ UNCHANGED <<keyring, isLoading, keyringStatus, alert, skipMigration, mounted>>

\* "Migrate Keyring": setSkipMigration(false) hands over to the app's
\* migration prompt.
ClickMigrate ==
    /\ ~Modal
    /\ ButtonVisible("migrate")
    /\ skipMigration
    /\ skipMigration' = FALSE
    /\ UNCHANGED <<keyring, isLoading, keyringStatus, open, alert, mounted>>

\* closeChangePassphrase, closeSetPassphrase, closeRemovePassphrase.
Close(p) == open' = [open EXCEPT ![p] = FALSE]

\* The prompt's mutation succeeded and it calls onSuccess:
\* changePassphraseSucceeded and its siblings close the prompt, then await
\* openDialog(<AlertDialog>).
Succeeded(p) ==
    /\ Shown(p)
    /\ Accepts(p)
    /\ keyring' = Write(p)
    /\ Close(p)
    /\ alert' = p
    /\ UNCHANGED <<isLoading, keyringStatus, skipMigration, mounted>>

\* The prompt's onCancel.
Cancelled(p) ==
    /\ Shown(p)
    /\ Close(p)
    /\ UNCHANGED <<keyring, isLoading, keyringStatus, alert, skipMigration, mounted>>

\* The alert is dismissed and the awaiting success handler returns.
AlertClosed ==
    /\ alert # "none"
    /\ alert' = "none"
    /\ UNCHANGED <<keyring, isLoading, keyringStatus, open, skipMigration, mounted>>

\* The user navigates away (no modal dialog is up): the card unmounts and
\* its useState flags are lost; the query's cache entry stays.
Leave ==
    /\ mounted
    /\ ~Modal
    /\ mounted' = FALSE
    /\ UNCHANGED <<keyring, isLoading, keyringStatus, open, alert, skipMigration>>

\* The user returns to the settings page: SecurityCard mounts with its
\* three flags false.
Return ==
    /\ ~mounted
    /\ mounted' = TRUE
    /\ open' = [p \in Prompts |-> FALSE]
    /\ UNCHANGED <<keyring, isLoading, keyringStatus, alert, skipMigration>>

Next ==
    \/ KeyringStatusFetched
    \/ KeyringChangedElsewhere
    \/ \E p \in Prompts : Click(p) \/ Succeeded(p) \/ Cancelled(p)
    \/ ClickMigrate
    \/ AlertClosed
    \/ Leave
    \/ Return

Spec == Init /\ [][Next]_vars

-----------------------------------------------------------------------------
(* Properties                                                              *)

\* A prompt appears only when the user clicks its button.  The flags live
\* in the card's state, not in DisplayChangePassphrase, so a change prompt
\* hidden by a status change keeps changePassphraseOpen set.
PromptOnlyOnClick ==
    [][\A p \in Prompts : ~Shown(p) /\ Shown(p)' => ~open[p] /\ open'[p]]_vars

=============================================================================
