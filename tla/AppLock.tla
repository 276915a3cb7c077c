------------------------------- MODULE AppLock -------------------------------
(***************************************************************************)
(* The app's lock, its PIN and its key over several starts of the app.     *)
(*                                                                         *)
(* The PIN is a salt and a token in the secure storage, written and read   *)
(* one after the other; the switch that asks for it is in the settings.    *)
(* The key that encrypts the accounts is made from the stored salt when    *)
(* the app starts.  Between two awaits anything else may happen: the app   *)
(* is paused, resumed or killed, digits are deleted and typed again while  *)
(* a PIN is still being verified, the sheet that sets or removes the PIN   *)
(* is dismissed while it writes.                                           *)
(*                                                                         *)
(* Time is left out: a timer fires, a cool-down ends, at any moment.       *)
(***************************************************************************)
EXTENDS FiniteSets, Naturals

CONSTANTS
    Pins, Salts,
    Checks,         \* slots: verifications under way at one time
    FreeAttempts,   \* failed attempts that start a cool-down: 5 in the code
    MaxAccounts,    \* bound: keys the accounts were saved with
    None            \* nothing stored; also the key of 32 zero bytes

ASSUME NoneAssumption == None \notin Salts \cup Pins
ASSUME AttemptsAssumption == FreeAttempts \in Nat \ {0}

VARIABLES
    salt, token,    \* secure storage: pin_salt and pin_token
    pinSaved,       \* secure storage: the settings' pinEnabled
    accounts,       \* database: the keys its accounts are encrypted with
    life,           \* "dead", "resumed" or "paused"
    pinEnabled,     \* settings in memory
    status,         \* AppLockState.status
    attempts,       \* AppLockState.failedAttempts, counted up to FreeAttempts
    cooling,        \* cooldownUntil lies ahead
    key,            \* the salt the CryptoService's key was made from
    timer,          \* _lockTimer is running
    disabled,       \* the numpad, as it was last built
    checks,         \* _verifyPin and _authenticateBiometric of the lock screen
    sheet,          \* the PinSetupDialog
    proved          \* history: a check was passed since the app started or lock() was called

disk == <<salt, token, pinSaved, accounts>>
lockState == <<status, attempts, cooling>>
vars == <<salt, token, pinSaved, accounts, life, pinEnabled, status, attempts, cooling,
          key, timer, disabled, checks, sheet, proved>>

\* The token decrypts with the key of one PIN and one salt.
Token == [pin : Pins, salt : Salts]

\* got: the token that was read.  From "derive" on its salt was read as well.  old: the
\* lock screen it was started on is being faded out.
CheckSteps == {"none", "token", "salt", "derive", "greet", "biometric", "wrong", "passed"}
Check == [step : CheckSteps, pin : Pins \cup {None}, got : Token \cup {None},
          with : Salts \cup {None}, old : BOOLEAN]
NoCheck == [step |-> "none", pin |-> None, got |-> None, with |-> None, old |-> FALSE]

\* open: the sheet is on screen; section: the settings below it, which may be fading out.
SheetSteps == {"none", "entry", "verified", "derive", "salt", "delToken", "delSalt", "done"}
Sheet == [mode : {"none", "create", "remove"}, step : SheetSteps, pin : Pins \cup {None},
          open : BOOLEAN, section : {"shown", "leaving", "gone"}]
NoSheet == [mode |-> "none", step |-> "none", pin |-> None, open |-> FALSE, section |-> "gone"]

TypeOK ==
    /\ salt \in Salts \cup {None} /\ token \in Token \cup {None}
    /\ pinSaved \in BOOLEAN /\ accounts \subseteq Salts \cup {None}
    /\ life \in {"dead", "resumed", "paused"}
    /\ pinEnabled \in BOOLEAN /\ status \in {"locked", "unlocked"}
    /\ attempts \in 0..FreeAttempts /\ cooling \in BOOLEAN
    /\ key \in Salts \cup {None}
    /\ timer \in BOOLEAN /\ disabled \in BOOLEAN
    /\ checks \in [Checks -> Check]
    /\ sheet \in Sheet
    /\ proved \in {"no", "stale", "yes"}

\* The first thing that happens is a start of the app, on a device that has no PIN.
Init ==
    /\ salt = None /\ token = None /\ pinSaved = FALSE /\ accounts = {}
    /\ life = "dead" /\ pinEnabled = FALSE
    /\ status = "locked" /\ attempts = 0 /\ cooling = FALSE
    /\ key = None /\ timer = FALSE /\ disabled = FALSE
    /\ checks = [c \in Checks |-> NoCheck] /\ sheet = NoSheet
    /\ proved = "no"

ShowApp == status = "unlocked" \/ ~pinEnabled
OnLockScreen == life # "dead" /\ ~ShowApp
UsingApp == life = "resumed" /\ ShowApp /\ ~sheet.open

-----------------------------------------------------------------------------
(***************************************************************************)
(* The app's life.  main() makes the key from the stored salt and loads    *)
(* the settings before the first frame.                                    *)
(***************************************************************************)
\* Mutant of InitialStatus: the app starts unlocked.
InitialUnlocked == "unlocked"

InitialStatus == "locked"

\* A lock screen that is built asks for fingerprint or face (initState), if it can: the
\* checks there may be then.  Bound: not without a free slot.
Greeting ==
    {checks} \cup {[checks EXCEPT ![c] = [NoCheck EXCEPT !.step = "greet"]] :
                      c \in {c \in Checks : checks[c] = NoCheck}}

Start ==
    /\ life = "dead"
    /\ life' = "resumed"
    /\ key' = salt
    /\ pinEnabled' = pinSaved
    /\ status' = InitialStatus /\ attempts' = 0 /\ cooling' = FALSE
    /\ timer' = FALSE /\ disabled' = FALSE
    /\ checks' \in IF ShowApp' THEN {checks} ELSE Greeting
    /\ UNCHANGED <<disk, sheet, proved>>

\* What is in memory is gone, and so is every write that was not made.
Kill ==
    /\ life # "dead"
    /\ life' = "dead"
    /\ checks' = [c \in Checks |-> NoCheck] /\ sheet' = NoSheet /\ proved' = "no"
    /\ UNCHANGED <<disk, lockState, pinEnabled, key, timer, disabled>>

\* lock(): when the app is on screen a lock screen is built, and the settings below an
\* open sheet begin to fade out.  A check passed just before is remembered as such.
Lock ==
    /\ status' = "locked"
    /\ disabled' = cooling
    /\ proved' = IF \E c \in Checks : checks[c].step = "passed" THEN "stale" ELSE "no"
    /\ checks' \in IF ShowApp /\ pinEnabled THEN Greeting ELSE {checks}
    /\ sheet' = [sheet EXCEPT !.section = IF @ = "shown" THEN "leaving" ELSE @]
    /\ UNCHANGED <<attempts, cooling>>

\* didChangeAppLifecycleState; the timeout is a setting that may be anything by now.
Pause ==
    /\ life = "resumed"
    /\ life' = "paused"
    /\ \/ pinEnabled /\ Lock /\ UNCHANGED timer
       \/ pinEnabled /\ timer' = TRUE /\ UNCHANGED <<lockState, disabled, checks, sheet, proved>>
       \/ ~pinEnabled /\ UNCHANGED <<lockState, disabled, checks, sheet, timer, proved>>
    /\ UNCHANGED <<disk, pinEnabled, key>>

\* The timer is cancelled, whether or not its time is over.
Resume ==
    /\ life = "paused"
    /\ life' = "resumed" /\ timer' = FALSE
    /\ UNCHANGED <<disk, lockState, pinEnabled, key, disabled, checks, sheet, proved>>

TimerFires ==
    /\ life = "paused" /\ timer
    /\ timer' = FALSE
    /\ Lock
    /\ UNCHANGED <<disk, life, pinEnabled, key>>

\* Nothing builds the numpad again when the time is over.
CooldownEnds ==
    /\ life # "dead" /\ cooling
    /\ cooling' = FALSE
    /\ UNCHANGED <<disk, life, status, attempts, pinEnabled, key, timer, disabled, checks,
                   sheet, proved>>

\* An account is saved, with the key of this start.  Bound: MaxAccounts keys in use.
AddAccount ==
    /\ UsingApp
    /\ Cardinality(accounts) < MaxAccounts
    /\ accounts' = accounts \cup {key}
    /\ UNCHANGED <<salt, token, pinSaved, life, lockState, pinEnabled, key, timer, disabled,
                   checks, sheet, proved>>

-----------------------------------------------------------------------------
(***************************************************************************)
(* The lock screen.  When the app is shown the lock screen is faded out;   *)
(* its checks go on, as old ones, until it is disposed of.                 *)
(***************************************************************************)
Unlocking == \E c \in Checks : checks[c].step = "passed" /\ ~checks[c].old

FadedOut(running) ==
    [c \in Checks |-> [running[c] EXCEPT !.old = running[c] # NoCheck]]

Dispose(c) ==
    /\ checks[c].old
    /\ checks' = [checks EXCEPT ![c] = NoCheck]
    /\ UNCHANGED <<disk, life, lockState, pinEnabled, key, timer, disabled, sheet, proved>>

Checking(c, check) ==
    /\ checks' = [checks EXCEPT ![c] = check]
    /\ UNCHANGED <<disk, life, lockState, pinEnabled, key, timer, disabled, sheet, proved>>

\* The sixth digit; what is typed while another check awaits starts one more.
TypePin(c) ==
    /\ OnLockScreen /\ life = "resumed" /\ ~sheet.open
    /\ ~disabled /\ ~Unlocking
    /\ checks[c] = NoCheck
    /\ \E p \in Pins : Checking(c, [NoCheck EXCEPT !.step = "token", !.pin = p])

\* The button for fingerprint or face, as it was last built.
StartBiometric(c) ==
    /\ OnLockScreen /\ life = "resumed" /\ ~sheet.open
    /\ ~disabled /\ ~Unlocking
    /\ checks[c] = NoCheck
    /\ Checking(c, [NoCheck EXCEPT !.step = "biometric"])

\* _initBiometric: when the device has it and the settings say so, cool-down or not.
InitBiometric(c) ==
    /\ checks[c].step = "greet" /\ life = "resumed"
    /\ Checking(c, [checks[c] EXCEPT !.step = "biometric"]) \/ Checking(c, NoCheck)

\* verifyStoredPin reads the token and then the salt, and derives the key.
ReadToken(c) ==
    /\ checks[c].step = "token"
    /\ Checking(c, [checks[c] EXCEPT !.step = "salt", !.got = token])

ReadSalt(c) ==
    /\ checks[c].step = "salt"
    /\ Checking(c, [checks[c] EXCEPT !.step = "derive", !.with = salt])

\* With nothing stored, verifyStoredPin answers null, and that is a pass.
Accepts(k) == k.got = None \/ k.with = None \/ k.got = [pin |-> k.pin, salt |-> k.with]

Judged(c, passed) ==
    /\ checks' = [checks EXCEPT ![c].step = IF passed THEN "passed" ELSE "wrong"]
    /\ proved' = IF passed THEN "yes" ELSE proved
    /\ UNCHANGED <<disk, life, lockState, pinEnabled, key, timer, disabled, sheet>>

Verify(c) == checks[c].step = "derive" /\ Judged(c, Accepts(checks[c]))

BiometricPasses(c) == checks[c].step = "biometric" /\ Judged(c, TRUE)
BiometricFails(c) == checks[c].step = "biometric" /\ Checking(c, NoCheck)

\* Mutant of Dropped: a wrong PIN ends the other checks as well.
DroppedAll(c) == [d \in Checks |-> NoCheck]

Dropped(c) == [checks EXCEPT ![c] = NoCheck]

\* recordFailedAttempt, and the lock screen is built again.
RecordFailedAttempt(c) ==
    /\ checks[c].step = "wrong"
    /\ attempts' = IF attempts < FreeAttempts THEN attempts + 1 ELSE attempts
    /\ cooling' = (cooling \/ attempts' = FreeAttempts)
    /\ disabled' = cooling'
    /\ checks' = Dropped(c)
    /\ UNCHANGED <<disk, life, status, pinEnabled, key, timer, sheet, proved>>

\* 900 ms after a check was passed, whatever has happened since.
Unlock(c) ==
    /\ checks[c].step = "passed"
    /\ status' = "unlocked"
    /\ checks' = FadedOut(Dropped(c))
    /\ UNCHANGED <<disk, life, attempts, cooling, pinEnabled, key, timer, disabled, sheet, proved>>

Progress(c) ==
    \/ ReadToken(c) \/ ReadSalt(c) \/ Verify(c)
    \/ InitBiometric(c) \/ BiometricPasses(c) \/ BiometricFails(c)
    \/ RecordFailedAttempt(c) \/ Unlock(c)

-----------------------------------------------------------------------------
(***************************************************************************)
(* The PIN switch of the settings.  The sheet may be dismissed at any      *)
(* time, and its _confirm goes on; only "Done" tells the switch.  One      *)
(* sheet at a time, also of those that still write after their dismissal.  *)
(***************************************************************************)
Setting(s) ==
    /\ sheet' = s
    /\ UNCHANGED <<life, lockState, pinEnabled, key, timer, disabled, checks, proved>>

OpenSheet ==
    /\ UsingApp /\ sheet = NoSheet
    /\ Setting([NoSheet EXCEPT !.mode = IF pinEnabled THEN "remove" ELSE "create",
                               !.step = "entry", !.open = TRUE, !.section = "shown"])
    /\ UNCHANGED disk

\* A flow whose sheet is gone is forgotten when it is over.
At(mode, step) == sheet.mode = mode /\ sheet.step = step
Then(step) == IF step = "done" /\ ~sheet.open THEN NoSheet ELSE [sheet EXCEPT !.step = step]

\* The same PIN twice: _confirm starts with the key derivation.  The settings were written
\* long before twelve digits were typed.
ConfirmCreate ==
    /\ At("create", "entry") /\ sheet.open /\ life = "resumed"
    /\ pinSaved = pinEnabled
    /\ \E p \in Pins : Setting([sheet EXCEPT !.step = "derive", !.pin = p])
    /\ UNCHANGED disk

\* generateSalt never gives the same twice.
NewSalt(s) == s \notin {salt, key} \cup accounts /\ (token # None => s # token.salt)

WriteSalt ==
    /\ At("create", "derive")
    /\ \E s \in Salts : NewSalt(s) /\ salt' = s
    /\ Setting(Then("salt"))
    /\ UNCHANGED <<token, pinSaved, accounts>>

\* Mutant of TokenOf: the token is made with the key of the session.
TokenOfSession(p) == [pin |-> p, salt |-> key]

TokenOf(p) == [pin |-> p, salt |-> salt]

WriteToken ==
    /\ At("create", "salt")
    /\ token' = TokenOf(sheet.pin)
    /\ Setting(Then("done"))
    /\ UNCHANGED <<salt, pinSaved, accounts>>

\* _verifyOldPin; with nothing stored it returns, and the sheet stays as it is.
VerifyOld ==
    /\ At("remove", "entry") /\ sheet.open /\ life = "resumed"
    /\ token # None /\ salt # None /\ token.salt = salt
    /\ Setting([sheet EXCEPT !.step = "verified"])
    /\ UNCHANGED disk

ConfirmRemove ==
    /\ At("remove", "verified") /\ sheet.open /\ life = "resumed"
    /\ Setting([sheet EXCEPT !.step = "delToken"])
    /\ UNCHANGED disk

DeleteToken ==
    /\ At("remove", "delToken")
    /\ token' = None
    /\ Setting(Then("delSalt"))
    /\ UNCHANGED <<salt, pinSaved, accounts>>

DeleteSalt ==
    /\ At("remove", "delSalt")
    /\ salt' = None
    /\ Setting(Then("done"))
    /\ UNCHANGED <<token, pinSaved, accounts>>

\* Swiped away: the switch is not told, whatever was written.
Dismiss ==
    /\ sheet.open /\ life = "resumed"
    /\ Setting(IF sheet.step \in {"entry", "verified", "done"} THEN NoSheet
               ELSE [sheet EXCEPT !.open = FALSE])
    /\ UNCHANGED disk

\* Mutant of Finished: success is shown before the second write.
FinishedEarly == sheet.step \in {"salt", "done"}

Finished == sheet.step = "done"

SectionDisposed ==
    /\ sheet.section = "leaving"
    /\ Setting([sheet EXCEPT !.section = "gone"])
    /\ UNCHANGED disk

\* setPinEnabled, if the settings below the sheet are still there: the app is hidden or
\* shown as Lock and Unlock do.
Done ==
    /\ sheet.open /\ Finished /\ life = "resumed"
    /\ sheet' = NoSheet
    /\ pinEnabled' = IF sheet.section # "gone" THEN sheet.mode = "create" ELSE pinEnabled
    /\ disabled' = cooling
    /\ UNCHANGED <<disk, life, lockState, key, timer, proved>>
    /\ checks' \in IF ShowApp' THEN {FadedOut(checks)}
                   ELSE IF ShowApp THEN Greeting ELSE {checks}

\* _persist is not awaited.
Persist ==
    /\ life # "dead" /\ pinSaved # pinEnabled
    /\ pinSaved' = pinEnabled
    /\ UNCHANGED <<salt, token, accounts, life, lockState, pinEnabled, key, timer, disabled,
                   checks, sheet, proved>>

-----------------------------------------------------------------------------
Next ==
    \/ Start \/ Kill \/ Pause \/ Resume \/ TimerFires \/ CooldownEnds \/ AddAccount
    \/ \E c \in Checks : TypePin(c) \/ StartBiometric(c) \/ Progress(c) \/ Dispose(c)
    \/ OpenSheet \/ ConfirmCreate \/ WriteSalt \/ WriteToken
    \/ VerifyOld \/ ConfirmRemove \/ DeleteToken \/ DeleteSalt \/ Dismiss \/ Done
    \/ SectionDisposed \/ Persist

Spec == Init /\ [][Next]_vars

-----------------------------------------------------------------------------
(***************************************************************************)
(* Nobody is locked out: when the lock screen is up, or will be at the     *)
(* next start, some PIN passes, or nothing is stored and any does.  Salt   *)
(* and token are two writes, and a kill, a dismissal or a lock may fall    *)
(* between them, but not while the switch asks for the PIN.                *)
(***************************************************************************)
SomePinPasses == token = None \/ salt = None \/ token.salt = salt

NobodyIsLockedOut == (life # "dead" /\ pinEnabled) \/ pinSaved => SomePinPasses

(***************************************************************************)
(* With the switch on, the app is shown only if a check was passed after   *)
(* it started and after lock() was last called, or within the 900 ms       *)
(* before that call, whatever sheets, switches, pauses, kills and older    *)
(* checks come between.                                                    *)
(***************************************************************************)
ShownAfterCheck == life # "dead" /\ pinEnabled /\ ShowApp => proved # "no"

(***************************************************************************)
(* FR-4.3, docs/05: auto-lock on pause.  With the switch on, the app is    *)
(* shown only if a check was passed after lock() was last called.          *)
(***************************************************************************)
ShownAfterLock == life # "dead" /\ pinEnabled /\ ShowApp => proved = "yes"

(***************************************************************************)
(* The right PIN opens: its verification reads the token and then the salt *)
(* and derives a key, and at each of these awaits other checks may fail    *)
(* and start a cool-down, the app may be paused and locked, the PIN may be *)
(* removed.  It is neither refused nor dropped: it goes on until the app   *)
(* is shown or killed.                                                     *)
(***************************************************************************)
OnTheWay(check) ==
    /\ ~check.old
    /\ \/ check.step = "token" /\ Accepts([check EXCEPT !.got = token, !.with = salt])
       \/ check.step = "salt" /\ Accepts([check EXCEPT !.with = salt])
       \/ check.step = "derive" /\ Accepts(check)
       \/ check.step = "passed"

RightPinOpens ==
    [][\A c \in Checks :
          OnTheWay(checks[c]) => OnTheWay(checks[c])' \/ ShowApp' \/ life' = "dead"]_vars

(***************************************************************************)
(* The accounts can be read with the key the app made when it started.     *)
(***************************************************************************)
AccountsAreReadable == life # "dead" => accounts \subseteq {key}
=============================================================================
