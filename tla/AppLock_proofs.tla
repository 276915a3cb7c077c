---------------------------- MODULE AppLock_proofs ----------------------------
(***************************************************************************)
(* What holds of the app's lock for every set of PINs, salts and checks    *)
(* and every number of free attempts.                                      *)
(***************************************************************************)
EXTENDS AppLock, TLAPS

\* The sheet: one that creates a PIN was opened while the switch was off, and it stays off until
\* "Done" is pressed.
Flow ==
    /\ life = "dead" => sheet = NoSheet
    /\ sheet.mode = "create" => ~pinEnabled
    /\ sheet.mode = "create" /\ sheet.step \in {"derive", "salt"} =>
          ~pinSaved /\ sheet.pin \in Pins
    /\ sheet.mode = "create" /\ sheet.step = "salt" => salt \in Salts
    /\ sheet.mode = "create" /\ sheet.step = "done" => SomePinPasses

\* A check that was passed has not been forgotten, and nothing else unlocks the app.
Gate ==
    /\ \A c \in Checks : checks[c].step = "passed" => proved # "no"
    /\ life # "dead" /\ status = "unlocked" => proved # "no"

\* The inductive invariant.
IInv == TypeOK /\ NobodyIsLockedOut /\ Flow /\ Gate

-----------------------------------------------------------------------------
\* The records.
LEMMA NoCheckRecord == NoCheck \in Check /\ NoCheck.step = "none"
BY DEF NoCheck, Check, CheckSteps

\* A new lock screen and a faded one pass no check.
PassesNone(running) ==
    /\ running \in [Checks -> Check]
    /\ \A c \in Checks : running[c].step = "passed" => checks[c].step = "passed"

LEMMA GreetingTypes == ASSUME TypeOK PROVE \A running \in Greeting : PassesNone(running)
<1>1. checks \in [Checks -> Check]
  BY DEF TypeOK
<1>2. /\ [NoCheck EXCEPT !.step = "greet"] \in Check
      /\ [NoCheck EXCEPT !.step = "greet"].step = "greet"
  BY DEF NoCheck, Check, CheckSteps
<1>3. ASSUME NEW c \in Checks
      PROVE  PassesNone([checks EXCEPT ![c] = [NoCheck EXCEPT !.step = "greet"]])
  <2> DEFINE k == [NoCheck EXCEPT !.step = "greet"]
  <2> HIDE DEF k
  <2>1. k \in Check /\ k.step = "greet"
    BY <1>2 DEF k
  <2>2. PassesNone([checks EXCEPT ![c] = k])
    BY <1>1, <2>1 DEF PassesNone
  <2>3. QED
    BY <2>2 DEF k
<1>4. QED
  BY <1>1, <1>3 DEF Greeting, PassesNone

LEMMA FadedOutTypes ==
    ASSUME NEW running \in [Checks -> Check]
    PROVE  /\ FadedOut(running) \in [Checks -> Check]
           /\ \A c \in Checks : FadedOut(running)[c].step = running[c].step
<1>1. \A k \in Check, b \in BOOLEAN :
        [k EXCEPT !.old = b] \in Check /\ [k EXCEPT !.old = b].step = k.step
  BY DEF Check
<1>2. \A c \in Checks : running[c] \in Check /\ (running[c] # NoCheck) \in BOOLEAN
  OBVIOUS
<1>3. QED
  BY <1>1, <1>2 DEF FadedOut

LEMMA CheckStep ==
    ASSUME NEW k \in Check, NEW s \in CheckSteps
    PROVE  [k EXCEPT !.step = s] \in Check /\ [k EXCEPT !.step = s].step = s
BY DEF Check

LEMMA CheckPin ==
    ASSUME NEW k \in Check, NEW s \in CheckSteps, NEW p \in Pins
    PROVE  /\ [k EXCEPT !.step = s, !.pin = p] \in Check
           /\ [k EXCEPT !.step = s, !.pin = p].step = s
BY DEF Check

LEMMA CheckGot ==
    ASSUME NEW k \in Check, NEW s \in CheckSteps, NEW t \in Token \cup {None}
    PROVE  /\ [k EXCEPT !.step = s, !.got = t] \in Check
           /\ [k EXCEPT !.step = s, !.got = t].step = s
BY DEF Check

LEMMA CheckWith ==
    ASSUME NEW k \in Check, NEW s \in CheckSteps, NEW w \in Salts \cup {None}
    PROVE  /\ [k EXCEPT !.step = s, !.with = w] \in Check
           /\ [k EXCEPT !.step = s, !.with = w].step = s
BY DEF Check

LEMMA NoSheetRecord ==
    /\ NoSheet \in Sheet
    /\ NoSheet.mode = "none" /\ NoSheet.step = "none"
BY DEF NoSheet, Sheet, SheetSteps

LEMMA SheetStep ==
    ASSUME NEW h \in Sheet, NEW s \in SheetSteps
    PROVE  /\ [h EXCEPT !.step = s] \in Sheet
           /\ [h EXCEPT !.step = s].step = s /\ [h EXCEPT !.step = s].mode = h.mode
           /\ [h EXCEPT !.step = s].pin = h.pin
BY DEF Sheet

LEMMA SheetSection ==
    ASSUME NEW h \in Sheet, NEW s \in {"shown", "leaving", "gone"}
    PROVE  /\ [h EXCEPT !.section = s] \in Sheet
           /\ [h EXCEPT !.section = s].step = h.step
           /\ [h EXCEPT !.section = s].mode = h.mode /\ [h EXCEPT !.section = s].pin = h.pin
BY DEF Sheet

LEMMA SheetOpen ==
    ASSUME NEW h \in Sheet
    PROVE  /\ [h EXCEPT !.open = FALSE] \in Sheet
           /\ [h EXCEPT !.open = FALSE].step = h.step
           /\ [h EXCEPT !.open = FALSE].mode = h.mode /\ [h EXCEPT !.open = FALSE].pin = h.pin
BY DEF Sheet

\* A flow that is over is forgotten or shows "Done".
LEMMA ThenSheet ==
    ASSUME IInv, NEW s \in SheetSteps, NEW m \in {"create", "remove"}, sheet.mode = m
    PROVE  /\ Then(s) \in Sheet
           /\ \/ Then(s) = NoSheet
              \/ /\ Then(s).mode = m /\ Then(s).step = s
                 /\ Then(s).pin = sheet.pin
<1>1. PICK h \in Sheet : h = sheet
  BY DEF IInv, TypeOK
<1>2. Then(s) = NoSheet \/ Then(s) = [h EXCEPT !.step = s]
  BY <1>1 DEF Then
<1>3. CASE Then(s) = [h EXCEPT !.step = s]
  BY <1>1, <1>3, SheetStep
<1>4. QED
  BY <1>2, <1>3, NoSheetRecord

-----------------------------------------------------------------------------
\* A check goes on, or ends, and has not been passed.
LEMMA CheckingKeeps ==
    ASSUME IInv, NEW c \in Checks, NEW k \in Check, Checking(c, k), k.step # "passed"
    PROVE  IInv'
<1>1. checks' \in [Checks -> Check] /\ checks'[c] = k
      /\ \A d \in Checks \ {c} : checks'[d] = checks[d]
  BY DEF Checking, IInv, TypeOK
<1>2. /\ salt' = salt /\ token' = token /\ pinSaved' = pinSaved /\ accounts' = accounts
      /\ life' = life /\ status' = status /\ attempts' = attempts /\ cooling' = cooling
      /\ pinEnabled' = pinEnabled /\ key' = key /\ timer' = timer /\ disabled' = disabled
      /\ sheet' = sheet /\ proved' = proved
  BY DEF Checking, disk, lockState
<1>3. TypeOK'
  BY <1>1, <1>2 DEF IInv, TypeOK
<1>4. NobodyIsLockedOut' /\ Flow'
  BY <1>2 DEF IInv, NobodyIsLockedOut, SomePinPasses, Flow
<1>5. Gate'
  BY <1>1, <1>2 DEF IInv, Gate
<1>6. QED
  BY <1>3, <1>4, <1>5 DEF IInv

LEMMA JudgedKeeps ==
    ASSUME IInv, NEW c \in Checks, NEW b \in BOOLEAN, Judged(c, b)
    PROVE  IInv'
<1>1. PICK k \in Check : k = checks[c]
  BY DEF IInv, TypeOK
<1>2. PICK s \in CheckSteps : s = IF b THEN "passed" ELSE "wrong"
  BY DEF CheckSteps
<1>3. /\ checks' \in [Checks -> Check] /\ checks'[c].step = s
      /\ \A d \in Checks \ {c} : checks'[d] = checks[d]
  <2>1. [k EXCEPT !.step = s] \in Check /\ [k EXCEPT !.step = s].step = s
    BY CheckStep
  <2>2. checks' = [checks EXCEPT ![c] = [k EXCEPT !.step = s]]
    BY <1>1, <1>2 DEF Judged, IInv, TypeOK
  <2>3. QED
    BY <2>1, <2>2 DEF IInv, TypeOK
<1>4. /\ salt' = salt /\ token' = token /\ pinSaved' = pinSaved /\ accounts' = accounts
      /\ life' = life /\ status' = status /\ attempts' = attempts /\ cooling' = cooling
      /\ pinEnabled' = pinEnabled /\ key' = key /\ timer' = timer /\ disabled' = disabled
      /\ sheet' = sheet /\ proved' = IF b THEN "yes" ELSE proved
  BY DEF Judged, disk, lockState
<1>5. TypeOK'
  BY <1>3, <1>4 DEF IInv, TypeOK
<1>6. NobodyIsLockedOut' /\ Flow'
  BY <1>4 DEF IInv, NobodyIsLockedOut, SomePinPasses, Flow
<1>7. Gate'
  BY <1>2, <1>3, <1>4 DEF IInv, Gate
<1>8. QED
  BY <1>5, <1>6, <1>7 DEF IInv

LEMMA ProgressKeeps ==
    ASSUME IInv, NEW c \in Checks, TypePin(c) \/ StartBiometric(c) \/ Progress(c) \/ Dispose(c)
    PROVE  IInv'
<1>1. checks[c] \in Check
  BY DEF IInv, TypeOK
<1>2. CASE TypePin(c)
  <2>1. PICK p \in Pins : Checking(c, [NoCheck EXCEPT !.step = "token", !.pin = p])
    BY <1>2 DEF TypePin
  <2>2. /\ [NoCheck EXCEPT !.step = "token", !.pin = p] \in Check
        /\ [NoCheck EXCEPT !.step = "token", !.pin = p].step = "token"
    BY NoCheckRecord, CheckPin DEF CheckSteps
  <2>3. QED
    BY <1>2, <2>1, <2>2, CheckingKeeps
<1>3. CASE StartBiometric(c)
  <2>1. /\ [NoCheck EXCEPT !.step = "biometric"] \in Check
        /\ [NoCheck EXCEPT !.step = "biometric"].step = "biometric"
    BY NoCheckRecord, CheckStep DEF CheckSteps
  <2>2. QED
    BY <1>3, <2>1, CheckingKeeps DEF StartBiometric
<1>4. CASE ReadToken(c)
  <2>1. token \in Token \cup {None}
    BY DEF IInv, TypeOK
  <2>2. /\ [checks[c] EXCEPT !.step = "salt", !.got = token] \in Check
        /\ [checks[c] EXCEPT !.step = "salt", !.got = token].step = "salt"
    BY <1>1, <2>1, CheckGot DEF CheckSteps
  <2>3. QED
    BY <1>1, <1>4, <2>2, CheckingKeeps DEF ReadToken
<1>5. CASE ReadSalt(c)
  <2>1. salt \in Salts \cup {None}
    BY DEF IInv, TypeOK
  <2>2. /\ [checks[c] EXCEPT !.step = "derive", !.with = salt] \in Check
        /\ [checks[c] EXCEPT !.step = "derive", !.with = salt].step = "derive"
    BY <1>1, <2>1, CheckWith DEF CheckSteps
  <2>3. QED
    BY <1>1, <1>5, <2>2, CheckingKeeps DEF ReadSalt
<1>6. CASE Verify(c)
  <2>1. PICK b \in BOOLEAN : b = Accepts(checks[c])
    BY DEF Accepts
  <2>2. Judged(c, b)
    BY <1>6, <2>1 DEF Verify
  <2>3. QED
    BY <2>2, JudgedKeeps
<1>7. CASE BiometricPasses(c)
  BY <1>7, JudgedKeeps DEF BiometricPasses
<1>8. CASE BiometricFails(c)
  BY <1>8, NoCheckRecord, CheckingKeeps DEF BiometricFails
<1>9. CASE RecordFailedAttempt(c)
  <2>1. /\ checks' \in [Checks -> Check] /\ checks'[c] = NoCheck
        /\ \A d \in Checks \ {c} : checks'[d] = checks[d]
    BY <1>9, NoCheckRecord DEF RecordFailedAttempt, Dropped, IInv, TypeOK
  <2>2. /\ salt' = salt /\ token' = token /\ pinSaved' = pinSaved /\ accounts' = accounts
        /\ life' = life /\ status' = status /\ pinEnabled' = pinEnabled /\ key' = key
        /\ timer' = timer /\ sheet' = sheet /\ proved' = proved
    BY <1>9 DEF RecordFailedAttempt, disk
  <2>3. attempts' \in 0..FreeAttempts /\ cooling' \in BOOLEAN /\ disabled' \in BOOLEAN
    BY <1>9, AttemptsAssumption DEF RecordFailedAttempt, IInv, TypeOK
  <2>4. TypeOK'
    BY <2>1, <2>2, <2>3 DEF IInv, TypeOK
  <2>5. NobodyIsLockedOut' /\ Flow'
    BY <2>2 DEF IInv, NobodyIsLockedOut, SomePinPasses, Flow
  <2>6. Gate'
    BY <2>1, <2>2, NoCheckRecord DEF IInv, Gate
  <2>7. QED
    BY <2>4, <2>5, <2>6 DEF IInv
<1>10. CASE Unlock(c)
  <2>1. /\ Dropped(c) \in [Checks -> Check]
        /\ \A d \in Checks : Dropped(c)[d].step = "passed" => checks[d].step = "passed"
    BY NoCheckRecord DEF Dropped, IInv, TypeOK
  <2>2. /\ checks' \in [Checks -> Check]
        /\ \A d \in Checks : checks'[d].step = "passed" => checks[d].step = "passed"
    BY <1>10, <2>1, FadedOutTypes DEF Unlock
  <2>3. /\ salt' = salt /\ token' = token /\ pinSaved' = pinSaved /\ accounts' = accounts
        /\ life' = life /\ status' = "unlocked" /\ attempts' = attempts /\ cooling' = cooling
        /\ pinEnabled' = pinEnabled /\ key' = key /\ timer' = timer /\ disabled' = disabled
        /\ sheet' = sheet /\ proved' = proved
    BY <1>10 DEF Unlock, disk
  <2>4. proved # "no"
    BY <1>10 DEF Unlock, IInv, Gate
  <2>5. TypeOK'
    BY <2>2, <2>3 DEF IInv, TypeOK
  <2>6. NobodyIsLockedOut' /\ Flow'
    BY <2>3 DEF IInv, NobodyIsLockedOut, SomePinPasses, Flow
  <2>7. Gate'
    BY <2>3, <2>4 DEF Gate
  <2>8. QED
    BY <2>5, <2>6, <2>7 DEF IInv
<1>11. CASE Dispose(c)
  <2>1. Checking(c, NoCheck)
    BY <1>11 DEF Dispose, Checking
  <2>2. QED
    BY <2>1, NoCheckRecord, CheckingKeeps
<1>12. CASE InitBiometric(c)
  <2>1. /\ [checks[c] EXCEPT !.step = "biometric"] \in Check
        /\ [checks[c] EXCEPT !.step = "biometric"].step = "biometric"
    BY <1>1, CheckStep DEF CheckSteps
  <2>2. QED
    BY <1>12, <2>1, NoCheckRecord, CheckingKeeps DEF InitBiometric
<1>13. QED
  BY <1>2, <1>3, <1>4, <1>5, <1>6, <1>7, <1>8, <1>9, <1>10, <1>11, <1>12 DEF Progress

-----------------------------------------------------------------------------
\* The app starts, is killed, hidden and shown.
LEMMA StartKeeps == ASSUME IInv, Start PROVE IInv'
<1>1. /\ salt' = salt /\ token' = token /\ pinSaved' = pinSaved /\ accounts' = accounts
      /\ life' = "resumed" /\ key' = salt /\ pinEnabled' = pinSaved /\ status' = "locked"
      /\ attempts' = 0 /\ cooling' = FALSE /\ timer' = FALSE /\ disabled' = FALSE
      /\ sheet' = sheet /\ proved' = proved
  BY DEF Start, InitialStatus, disk
<1>2. PassesNone(checks')
  <2>1. checks' \in {checks} \cup Greeting
    BY DEF Start
  <2>2. QED
    BY <2>1, GreetingTypes DEF IInv, TypeOK, PassesNone
<1>3. TypeOK'
  <2>1. 0 \in 0..FreeAttempts
    BY AttemptsAssumption
  <2>2. QED
    BY <1>1, <1>2, <2>1 DEF IInv, TypeOK, PassesNone
<1>4. NobodyIsLockedOut'
  BY <1>1 DEF IInv, NobodyIsLockedOut, SomePinPasses
<1>5. sheet = NoSheet
  BY DEF Start, IInv, Flow
<1>6. Flow' /\ Gate'
  BY <1>1, <1>2, <1>5, NoSheetRecord DEF IInv, Flow, Gate, PassesNone
<1>7. QED
  BY <1>3, <1>4, <1>6 DEF IInv

LEMMA KillKeeps == ASSUME IInv, Kill PROVE IInv'
<1>1. /\ salt' = salt /\ token' = token /\ pinSaved' = pinSaved /\ accounts' = accounts
      /\ life' = "dead" /\ key' = key /\ pinEnabled' = pinEnabled /\ status' = status
      /\ attempts' = attempts /\ cooling' = cooling /\ timer' = timer /\ disabled' = disabled
      /\ checks' \in [Checks -> Check] /\ \A c \in Checks : checks'[c] = NoCheck
      /\ sheet' = NoSheet /\ proved' = "no"
  BY NoCheckRecord DEF Kill, disk, lockState
<1>2. TypeOK'
  BY <1>1, NoSheetRecord DEF IInv, TypeOK
<1>3. NobodyIsLockedOut'
  BY <1>1 DEF IInv, NobodyIsLockedOut, SomePinPasses
<1>4. Flow' /\ Gate'
  BY <1>1, NoSheetRecord, NoCheckRecord DEF Flow, Gate
<1>5. QED
  BY <1>2, <1>3, <1>4 DEF IInv

\* lock(), by itself or with a change of the app's life.
LEMMA LockKeeps ==
    ASSUME IInv, Lock, life # "dead", life' \in {"resumed", "paused"}, timer' \in BOOLEAN,
           UNCHANGED <<disk, pinEnabled, key>>
    PROVE  IInv'
<1>1. PICK h \in Sheet : h = sheet
  BY DEF IInv, TypeOK
<1>2. PICK s \in {"shown", "leaving", "gone"} : sheet' = [h EXCEPT !.section = s]
  BY <1>1 DEF Lock, Sheet
<1>3. /\ salt' = salt /\ token' = token /\ pinSaved' = pinSaved /\ accounts' = accounts
      /\ key' = key /\ pinEnabled' = pinEnabled /\ status' = "locked"
      /\ attempts' = attempts /\ cooling' = cooling /\ disabled' = cooling
      /\ proved' = IF \E c \in Checks : checks[c].step = "passed" THEN "stale" ELSE "no"
  BY DEF Lock, disk
<1>4. PassesNone(checks')
  <2>1. checks' \in {checks} \cup Greeting
    BY DEF Lock
  <2>2. QED
    BY <2>1, GreetingTypes DEF IInv, TypeOK, PassesNone
<1>5. TypeOK'
  BY <1>2, <1>3, <1>4, SheetSection DEF IInv, TypeOK, PassesNone
<1>6. NobodyIsLockedOut'
  BY <1>3 DEF IInv, NobodyIsLockedOut, SomePinPasses
<1>7. Flow'
  BY <1>1, <1>2, <1>3, SheetSection DEF IInv, Flow, SomePinPasses
<1>8. Gate'
  BY <1>3, <1>4 DEF Gate, PassesNone
<1>9. QED
  BY <1>5, <1>6, <1>7, <1>8 DEF IInv

\* Steps that change nothing the invariant relates.
LEMMA IdleKeeps ==
    ASSUME IInv, life # "dead", life' \in {"resumed", "paused"}, timer' \in BOOLEAN,
           cooling' \in BOOLEAN, accounts' \subseteq Salts \cup {None},
           UNCHANGED <<salt, token, pinSaved, pinEnabled, status, attempts, key, disabled,
                       checks, sheet, proved>>
    PROVE  IInv'
<1>1. TypeOK'
  BY DEF IInv, TypeOK
<1>2. NobodyIsLockedOut' /\ Flow' /\ Gate'
  BY DEF IInv, NobodyIsLockedOut, SomePinPasses, Flow, Gate
<1>3. QED
  BY <1>1, <1>2 DEF IInv

LEMMA LifeKeeps ==
    ASSUME IInv, Pause \/ Resume \/ TimerFires \/ CooldownEnds \/ AddAccount PROVE IInv'
<1>1. /\ life # "dead" => life \in {"resumed", "paused"}
      /\ timer \in BOOLEAN /\ cooling \in BOOLEAN
      /\ key \in Salts \cup {None} /\ accounts \subseteq Salts \cup {None}
  BY DEF IInv, TypeOK
<1>2. CASE Pause
  <2>1. CASE Lock
    BY <1>1, <1>2, <2>1, LockKeeps DEF Pause
  <2>2. CASE UNCHANGED <<lockState, disabled, checks, sheet, proved>>
    BY <1>1, <1>2, <2>2, IdleKeeps DEF Pause, disk, lockState
  <2>3. QED
    BY <1>2, <2>1, <2>2 DEF Pause
<1>3. CASE Resume
  BY <1>1, <1>3, IdleKeeps DEF Resume, disk, lockState
<1>4. CASE TimerFires
  BY <1>1, <1>4, LockKeeps DEF TimerFires
<1>5. CASE CooldownEnds
  BY <1>1, <1>5, IdleKeeps DEF CooldownEnds, disk
<1>6. CASE AddAccount
  BY <1>1, <1>6, IdleKeeps DEF AddAccount, UsingApp, lockState
<1>7. QED
  BY <1>2, <1>3, <1>4, <1>5, <1>6

-----------------------------------------------------------------------------
\* The sheet.
LEMMA SettingKeeps ==
    ASSUME IInv, NEW h \in Sheet, Setting(h), UNCHANGED <<pinSaved, accounts>>,
           salt' \in Salts \cup {None}, token' \in Token \cup {None},
           NobodyIsLockedOut',
           h = NoSheet \/ life # "dead",
           h.mode = "create" => ~pinEnabled,
           h.mode = "create" /\ h.step \in {"derive", "salt"} => ~pinSaved /\ h.pin \in Pins,
           h.mode = "create" /\ h.step = "salt" => salt' \in Salts,
           h.mode = "create" /\ h.step = "done" => SomePinPasses'
    PROVE  IInv'
<1>1. /\ life' = life /\ status' = status /\ attempts' = attempts /\ cooling' = cooling
      /\ pinEnabled' = pinEnabled /\ key' = key /\ timer' = timer /\ disabled' = disabled
      /\ checks' = checks /\ proved' = proved /\ sheet' = h
      /\ pinSaved' = pinSaved /\ accounts' = accounts
  BY DEF Setting, lockState
<1>2. TypeOK'
  BY <1>1 DEF IInv, TypeOK
<1>3. Flow'
  BY <1>1 DEF IInv, Flow
<1>4. Gate'
  BY <1>1 DEF IInv, Gate
<1>5. QED
  BY <1>2, <1>3, <1>4 DEF IInv

LEMMA OpenSheetKeeps == ASSUME IInv, OpenSheet PROVE IInv'
<1> DEFINE m == IF pinEnabled THEN "remove" ELSE "create"
           h == [NoSheet EXCEPT !.mode = m, !.step = "entry", !.open = TRUE, !.section = "shown"]
<1>1. h \in Sheet /\ h.mode = m /\ h.step = "entry"
  BY DEF NoSheet, Sheet, SheetSteps
<1>2. Setting(h) /\ UNCHANGED disk /\ life = "resumed" /\ ShowApp
  BY DEF OpenSheet, UsingApp
<1>3. salt' = salt /\ token' = token /\ UNCHANGED <<pinSaved, accounts>>
  BY <1>2 DEF disk
<1>4. salt' \in Salts \cup {None} /\ token' \in Token \cup {None}
  BY <1>3 DEF IInv, TypeOK
<1>5. NobodyIsLockedOut'
  BY <1>2, <1>3 DEF Setting, IInv, NobodyIsLockedOut, SomePinPasses
<1>6. m = "create" => ~pinEnabled
  OBVIOUS
<1> HIDE DEF h, m
<1>7. QED
  BY <1>1, <1>2, <1>3, <1>4, <1>5, <1>6, SettingKeeps

\* Steps of the sheet that write nothing.
LEMMA SheetMoves ==
    ASSUME IInv, ConfirmCreate \/ VerifyOld \/ ConfirmRemove \/ Dismiss PROVE IInv'
<1>1. PICK h \in Sheet : h = sheet
  BY DEF IInv, TypeOK
<1>2. /\ salt' = salt /\ token' = token /\ UNCHANGED <<pinSaved, accounts>>
      /\ life = "resumed" /\ UNCHANGED <<life, pinEnabled>>
  BY DEF ConfirmCreate, VerifyOld, ConfirmRemove, Dismiss, Setting, disk
<1>3. salt' \in Salts \cup {None} /\ token' \in Token \cup {None}
  BY <1>2 DEF IInv, TypeOK
<1>4. NobodyIsLockedOut' /\ (SomePinPasses => SomePinPasses')
  BY <1>2 DEF IInv, NobodyIsLockedOut, SomePinPasses
<1>5. CASE ConfirmCreate
  <2>1. PICK p \in Pins : Setting([h EXCEPT !.step = "derive", !.pin = p])
    BY <1>1, <1>5 DEF ConfirmCreate
  <2> DEFINE g == [h EXCEPT !.step = "derive", !.pin = p]
  <2>2. g \in Sheet /\ g.step = "derive" /\ g.pin = p /\ g.mode = h.mode
    <3>1. "derive" \in SheetSteps
      BY DEF SheetSteps
    <3>2. QED
      BY <3>1 DEF Sheet
  <2>3. Setting(g) /\ h.mode = "create" /\ ~pinEnabled /\ ~pinSaved
    BY <1>1, <1>5, <2>1 DEF ConfirmCreate, At, IInv, Flow
  <2> HIDE DEF g
  <2>4. QED
    BY <1>1, <1>2, <1>3, <1>4, <2>2, <2>3, SettingKeeps
<1>6. CASE VerifyOld
  <2> DEFINE g == [h EXCEPT !.step = "verified"]
  <2>1. g \in Sheet /\ g.mode = h.mode
    BY SheetStep DEF SheetSteps
  <2>2. h.mode = "remove" /\ Setting(g)
    BY <1>1, <1>6 DEF VerifyOld, At
  <2> HIDE DEF g
  <2>3. QED
    BY <1>1, <1>2, <1>3, <1>4, <2>1, <2>2, SettingKeeps
<1>7. CASE ConfirmRemove
  <2> DEFINE g == [h EXCEPT !.step = "delToken"]
  <2>1. g \in Sheet /\ g.mode = h.mode
    BY SheetStep DEF SheetSteps
  <2>2. h.mode = "remove" /\ Setting(g)
    BY <1>1, <1>7 DEF ConfirmRemove, At
  <2> HIDE DEF g
  <2>3. QED
    BY <1>1, <1>2, <1>3, <1>4, <2>1, <2>2, SettingKeeps
<1>8. CASE Dismiss
  <2>1. CASE Setting(NoSheet)
    BY <1>2, <1>3, <1>4, <2>1, NoSheetRecord, SettingKeeps
  <2>2. CASE Setting([h EXCEPT !.open = FALSE])
    <3>1. PICK g \in Sheet :
              /\ g = [h EXCEPT !.open = FALSE]
              /\ g.mode = h.mode /\ g.step = h.step /\ g.pin = h.pin
      BY SheetOpen
    <3>2. Setting(g)
      BY <2>2, <3>1
    <3>3. /\ g.mode = "create" => ~pinEnabled
          /\ g.mode = "create" /\ g.step \in {"derive", "salt"} => ~pinSaved /\ g.pin \in Pins
          /\ g.mode = "create" /\ g.step = "salt" => salt' \in Salts
          /\ g.mode = "create" /\ g.step = "done" => SomePinPasses'
      BY <1>1, <1>2, <1>4, <3>1 DEF IInv, Flow
    <3>4. QED
      BY <1>1, <1>2, <1>3, <1>4, <3>1, <3>2, <3>3, SettingKeeps
  <2>3. QED
    BY <1>1, <1>8, <2>1, <2>2 DEF Dismiss
<1>9. QED
  BY <1>5, <1>6, <1>7, <1>8

\* Steps of the sheet that write, also after its dismissal.
LEMMA SheetWrites ==
    ASSUME IInv, WriteSalt \/ WriteToken \/ DeleteToken \/ DeleteSalt PROVE IInv'
<1>1. PICK s \in SheetSteps, m \in {"create", "remove"} :
          /\ sheet.mode = m /\ Setting(Then(s)) /\ UNCHANGED <<pinSaved, accounts>>
          /\ \/ WriteSalt /\ m = "create" /\ s = "salt"
             \/ WriteToken /\ m = "create" /\ s = "done"
             \/ DeleteToken /\ m = "remove" /\ s = "delSalt"
             \/ DeleteSalt /\ m = "remove" /\ s = "done"
  BY DEF WriteSalt, WriteToken, DeleteToken, DeleteSalt, At, SheetSteps
<1>2. PICK h \in Sheet :
          /\ h = Then(s)
          /\ \/ h = NoSheet
             \/ h.mode = m /\ h.step = s /\ h.pin = sheet.pin
  BY <1>1, ThenSheet
<1>3. life # "dead" /\ UNCHANGED <<life, pinEnabled>>
  BY <1>1, NoSheetRecord DEF Setting, IInv, Flow
<1>4. /\ salt \in Salts \cup {None} /\ token \in Token \cup {None}
      /\ WriteSalt \/ WriteToken => ~pinSaved /\ ~pinEnabled /\ sheet.pin \in Pins
      /\ WriteToken => salt \in Salts
  BY DEF WriteSalt, WriteToken, At, IInv, TypeOK, Flow
<1>5. CASE WriteSalt /\ m = "create" /\ s = "salt"
  <2>1. salt' \in Salts /\ token' = token
    BY <1>5 DEF WriteSalt
  <2>2. NobodyIsLockedOut'
    BY <1>1, <1>3, <1>4, <1>5 DEF NobodyIsLockedOut
  <2>3. QED
    BY <1>1, <1>2, <1>3, <1>4, <1>5, <2>1, <2>2, NoSheetRecord, SettingKeeps
<1>6. CASE WriteToken /\ m = "create" /\ s = "done"
  <2>1. token' = [pin |-> sheet.pin, salt |-> salt] /\ salt' = salt
    BY <1>6 DEF WriteToken, TokenOf
  <2>2. token' \in Token /\ token'.salt = salt'
    BY <1>4, <1>6, <2>1 DEF Token
  <2>3. SomePinPasses' /\ NobodyIsLockedOut'
    BY <2>2 DEF SomePinPasses, NobodyIsLockedOut
  <2>4. salt' \in Salts \cup {None} /\ token' \in Token \cup {None}
    BY <1>4, <2>1, <2>2
  <2>5. QED
    BY <1>1, <1>2, <1>3, <1>4, <1>6, <2>3, <2>4, NoSheetRecord, SettingKeeps
<1>7. CASE (DeleteToken \/ DeleteSalt) /\ m = "remove"
  <2>1. \/ token' = None /\ salt' = salt
        \/ salt' = None /\ token' = token
    BY <1>7 DEF DeleteToken, DeleteSalt
  <2>2. SomePinPasses' /\ NobodyIsLockedOut'
    BY <2>1 DEF SomePinPasses, NobodyIsLockedOut
  <2>3. salt' \in Salts \cup {None} /\ token' \in Token \cup {None}
    BY <1>4, <2>1
  <2>4. QED
    BY <1>1, <1>2, <1>3, <1>7, <2>2, <2>3, NoSheetRecord, SettingKeeps
<1>8. QED
  BY <1>1, <1>5, <1>6, <1>7

\* "Done": the switch is told only if the settings are still there.
LEMMA DoneKeeps == ASSUME IInv, Done PROVE IInv'
<1>1. /\ salt' = salt /\ token' = token /\ pinSaved' = pinSaved /\ accounts' = accounts
      /\ life' = life /\ life = "resumed" /\ status' = status
      /\ attempts' = attempts /\ cooling' = cooling /\ key' = key /\ timer' = timer
      /\ proved' = proved
      /\ sheet' = NoSheet /\ sheet.step = "done" /\ disabled' = cooling
      /\ pinEnabled' = IF sheet.section # "gone" THEN sheet.mode = "create" ELSE pinEnabled
  BY DEF Done, Finished, disk, lockState
<1>2. pinEnabled' \in BOOLEAN
  BY <1>1 DEF IInv, TypeOK
<1>3. PassesNone(checks')
  <2>1. checks' \in {checks, FadedOut(checks)} \cup Greeting
    BY DEF Done
  <2>2. checks \in [Checks -> Check]
    BY DEF IInv, TypeOK
  <2>3. PassesNone(checks) /\ PassesNone(FadedOut(checks))
    BY <2>2, FadedOutTypes DEF PassesNone
  <2>4. QED
    BY <2>1, <2>3, GreetingTypes DEF IInv
<1>4. TypeOK'
  BY <1>1, <1>2, <1>3, NoSheetRecord DEF IInv, TypeOK, PassesNone
<1>5. NobodyIsLockedOut'
  BY <1>1 DEF IInv, NobodyIsLockedOut, Flow, SomePinPasses
<1>6. Flow'
  BY <1>1, NoSheetRecord DEF Flow
<1>7. Gate'
  BY <1>1, <1>3 DEF IInv, Gate, PassesNone
<1>8. QED
  BY <1>4, <1>5, <1>6, <1>7 DEF IInv

\* The settings below the sheet have faded out.
LEMMA SectionKeeps == ASSUME IInv, SectionDisposed PROVE IInv'
<1>1. PICK h \in Sheet : h = sheet
  BY DEF IInv, TypeOK
<1> DEFINE g == [h EXCEPT !.section = "gone"]
<1>2. g \in Sheet /\ g.step = h.step /\ g.mode = h.mode /\ g.pin = h.pin
  BY SheetSection
<1>3. /\ Setting(g) /\ salt' = salt /\ token' = token /\ UNCHANGED <<pinSaved, accounts>>
      /\ UNCHANGED <<life, pinEnabled>>
  BY <1>1 DEF SectionDisposed, Setting, disk
<1>4. life # "dead"
  BY DEF SectionDisposed, IInv, Flow, NoSheet
<1>5. salt' \in Salts \cup {None} /\ token' \in Token \cup {None}
  BY <1>3 DEF IInv, TypeOK
<1>6. NobodyIsLockedOut' /\ (SomePinPasses => SomePinPasses')
  BY <1>3 DEF IInv, NobodyIsLockedOut, SomePinPasses
<1>7. /\ g.mode = "create" => ~pinEnabled
      /\ g.mode = "create" /\ g.step \in {"derive", "salt"} => ~pinSaved /\ g.pin \in Pins
      /\ g.mode = "create" /\ g.step = "salt" => salt' \in Salts
      /\ g.mode = "create" /\ g.step = "done" => SomePinPasses'
  BY <1>1, <1>2, <1>3, <1>6 DEF IInv, Flow
<1> HIDE DEF g
<1>8. QED
  BY <1>2, <1>3, <1>4, <1>5, <1>6, <1>7, SettingKeeps

LEMMA PersistKeeps == ASSUME IInv, Persist PROVE IInv'
<1>1. /\ salt' = salt /\ token' = token /\ pinSaved' = pinEnabled /\ accounts' = accounts
      /\ life' = life /\ life # "dead" /\ pinSaved # pinEnabled
      /\ status' = status /\ pinEnabled' = pinEnabled
      /\ attempts' = attempts /\ cooling' = cooling /\ key' = key /\ timer' = timer
      /\ disabled' = disabled /\ checks' = checks /\ proved' = proved /\ sheet' = sheet
  BY DEF Persist, lockState
<1>2. TypeOK'
  BY <1>1 DEF IInv, TypeOK
<1>3. NobodyIsLockedOut'
  BY <1>1 DEF IInv, NobodyIsLockedOut, SomePinPasses
<1>4. Flow' /\ Gate'
  BY <1>1 DEF IInv, Flow, Gate, SomePinPasses
<1>5. QED
  BY <1>2, <1>3, <1>4 DEF IInv

-----------------------------------------------------------------------------
LEMMA InitIInv == Init => IInv
<1> SUFFICES ASSUME Init PROVE IInv
  OBVIOUS
<1>1. TypeOK
  <2>1. 0 \in 0..FreeAttempts
    BY AttemptsAssumption
  <2>2. QED
    BY <2>1, NoCheckRecord, NoSheetRecord DEF Init, TypeOK
<1>2. NobodyIsLockedOut /\ Flow /\ Gate
  BY NoCheckRecord, NoSheetRecord DEF Init, NobodyIsLockedOut, Flow, Gate
<1>3. QED
  BY <1>1, <1>2 DEF IInv

LEMMA NextIInv == IInv /\ [Next]_vars => IInv'
<1> SUFFICES ASSUME IInv, [Next]_vars PROVE IInv'
  OBVIOUS
<1>1. CASE Start \/ Kill
  BY <1>1, StartKeeps, KillKeeps
<1>2. CASE Pause \/ Resume \/ TimerFires \/ CooldownEnds \/ AddAccount
  BY <1>2, LifeKeeps
<1>3. ASSUME NEW c \in Checks, TypePin(c) \/ StartBiometric(c) \/ Progress(c) \/ Dispose(c)
      PROVE  IInv'
  BY <1>3, ProgressKeeps
<1>4. CASE \/ OpenSheet \/ ConfirmCreate \/ WriteSalt \/ WriteToken \/ VerifyOld
           \/ ConfirmRemove \/ DeleteToken \/ DeleteSalt \/ Dismiss \/ Done
           \/ SectionDisposed \/ Persist
  BY <1>4, OpenSheetKeeps, SheetMoves, SheetWrites, DoneKeeps, SectionKeeps, PersistKeeps
<1>5. CASE UNCHANGED vars
  BY <1>5 DEF vars, IInv, TypeOK, NobodyIsLockedOut, SomePinPasses, Flow, Gate
<1>6. QED
  BY <1>1, <1>2, <1>3, <1>4, <1>5 DEF Next

LEMMA Invariance == Spec => []IInv
  BY InitIInv, NextIInv, PTL DEF Spec

(***************************************************************************)
(* Every variable keeps its type: a token is only ever made from a PIN     *)
(* that was typed and a salt that is stored.                               *)
(***************************************************************************)
THEOREM TypeCorrect == Spec => []TypeOK
<1>1. IInv => TypeOK
  BY DEF IInv
<1>2. QED
  BY <1>1, Invariance, PTL

(***************************************************************************)
(* A kill, a dismissal or a lock between the writes of a PIN's salt and    *)
(* token locks nobody out.                                                 *)
(***************************************************************************)
THEOREM NoLockOut == Spec => []NobodyIsLockedOut
<1>1. IInv => NobodyIsLockedOut
  BY DEF IInv
<1>2. QED
  BY <1>1, Invariance, PTL

(***************************************************************************)
(* With the switch on, the app is shown only after a check was passed: one *)
(* since the app started and since lock() was last called, or within the   *)
(* 900 ms before that call.                                                *)
(***************************************************************************)
THEOREM ShownOnlyAfterCheck == Spec => []ShownAfterCheck
<1>1. IInv => ShownAfterCheck
  BY DEF IInv, Gate, ShownAfterCheck, ShowApp
<1>2. QED
  BY <1>1, Invariance, PTL

-----------------------------------------------------------------------------
(***************************************************************************)
(* The right PIN.                                                          *)
(***************************************************************************)
\* A check on its way is one of the lock screen's, and is none that failed or waits for a finger.
LEMMA OnTheWayIsUnderWay ==
    ASSUME NEW c \in Checks, OnTheWay(checks[c])
    PROVE  /\ checks[c] # NoCheck /\ ~checks[c].old
           /\ checks[c].step \in {"token", "salt", "derive", "passed"}
BY DEF OnTheWay, NoCheck

\* What is read later was not touched or was removed, and with nothing stored any PIN passes.
LEMMA Waits ==
    ASSUME IInv, NEW c \in Checks, OnTheWay(checks[c]), checks'[c] = checks[c],
           salt' \in {salt, None}, token' \in {token, None}
    PROVE  OnTheWay(checks[c])'
<1>1. PICK k \in Check : k = checks[c]
  BY DEF IInv, TypeOK
<1>2. OnTheWay(k)
  BY <1>1
<1>3. /\ ~k.old
      /\ \/ k.step = "token" /\ Accepts([k EXCEPT !.got = token', !.with = salt'])
         \/ k.step = "salt" /\ Accepts([k EXCEPT !.with = salt'])
         \/ k.step = "derive" /\ Accepts(k)
         \/ k.step = "passed"
  BY <1>2 DEF OnTheWay, Accepts, Check
<1>4. checks'[c] = k
  BY <1>1
<1>5. QED
  BY <1>3, <1>4 DEF OnTheWay, Accepts

\* The check itself goes on.
LEMMA GoesOn ==
    ASSUME IInv, NEW c \in Checks, OnTheWay(checks[c]), ReadToken(c) \/ ReadSalt(c) \/ Verify(c)
    PROVE  OnTheWay(checks[c])'
<1>1. PICK k \in Check : k = checks[c]
  BY DEF IInv, TypeOK
<1>2. OnTheWay(k) /\ checks \in [Checks -> Check]
  BY <1>1 DEF IInv, TypeOK
<1>3. CASE ReadToken(c)
  <2>1. checks'[c] = [k EXCEPT !.step = "salt", !.got = token] /\ salt' = salt
    BY <1>1, <1>2, <1>3 DEF ReadToken, Checking, disk
  <2>2. k.step = "token" /\ ~k.old /\ Accepts([k EXCEPT !.got = token, !.with = salt])
    BY <1>1, <1>2, <1>3 DEF ReadToken, OnTheWay
  <2>3. PICK g \in Check : g = [k EXCEPT !.step = "salt", !.got = token]
    <3>1. token \in Token \cup {None} /\ "salt" \in CheckSteps
      BY DEF IInv, TypeOK, CheckSteps
    <3>2. QED
      BY <3>1, CheckGot
  <2>4. g.step = "salt" /\ ~g.old /\ Accepts([g EXCEPT !.with = salt])
    BY <2>2, <2>3 DEF Accepts, Check
  <2>5. checks'[c] = g
    BY <2>1, <2>3
  <2>6. QED
    BY <2>1, <2>4, <2>5 DEF OnTheWay, Accepts
<1>4. CASE ReadSalt(c)
  <2>1. checks'[c] = [k EXCEPT !.step = "derive", !.with = salt]
    BY <1>1, <1>2, <1>4 DEF ReadSalt, Checking
  <2>2. k.step = "salt" /\ ~k.old /\ Accepts([k EXCEPT !.with = salt])
    BY <1>1, <1>2, <1>4 DEF ReadSalt, OnTheWay
  <2> DEFINE g == [k EXCEPT !.step = "derive", !.with = salt]
  <2>3. g.step = "derive" /\ ~g.old /\ Accepts(g)
    BY <2>2 DEF Accepts, Check
  <2>4. checks'[c] = g
    BY <2>1
  <2> HIDE DEF g
  <2>5. QED
    BY <2>3, <2>4 DEF OnTheWay, Accepts
<1>5. CASE Verify(c)
  <2>1. Accepts(k) /\ ~k.old
    BY <1>1, <1>2, <1>5 DEF Verify, OnTheWay
  <2>2. checks'[c] = [k EXCEPT !.step = "passed"]
    BY <1>1, <1>2, <1>5, <2>1 DEF Verify, Judged
  <2>3. checks'[c].step = "passed" /\ ~checks'[c].old
    BY <2>1, <2>2 DEF Check
  <2>4. QED
    BY <2>3 DEF OnTheWay
<1>6. QED
  BY <1>3, <1>4, <1>5

\* The steps of any check: another's leave this one alone, or show the app.
LEMMA ChecksKeepOn ==
    ASSUME IInv, NEW c \in Checks, OnTheWay(checks[c]),
           NEW d \in Checks, TypePin(d) \/ StartBiometric(d) \/ Progress(d) \/ Dispose(d)
    PROVE  OnTheWay(checks[c])' \/ ShowApp'
<1>1. /\ checks[c] # NoCheck /\ ~checks[c].old
      /\ checks[c].step \in {"token", "salt", "derive", "passed"}
  BY OnTheWayIsUnderWay
<1>2. checks \in [Checks -> Check]
  BY DEF IInv, TypeOK
<1>3. CASE d = c /\ (ReadToken(c) \/ ReadSalt(c) \/ Verify(c))
  BY <1>3, GoesOn
<1>4. CASE Unlock(d)
  BY <1>4 DEF Unlock, ShowApp
<1>5. CASE /\ ~(d = c /\ (ReadToken(c) \/ ReadSalt(c) \/ Verify(c)))
           /\ ~Unlock(d)
  <2>1. d # c
    BY <1>1, <1>5 DEF TypePin, StartBiometric, Progress, Dispose, InitBiometric, BiometricPasses,
                      BiometricFails, RecordFailedAttempt
  <2>2. checks'[c] = checks[c] /\ salt' = salt /\ token' = token
    BY <1>2, <1>5, <2>1 DEF TypePin, StartBiometric, Progress, Dispose, InitBiometric, ReadToken,
          ReadSalt, Verify, BiometricPasses, BiometricFails, RecordFailedAttempt, Checking, Judged,
          Dropped, disk
  <2>3. QED
    BY <2>2, Waits
<1>6. QED
  BY <1>3, <1>4, <1>5

\* A lock screen that is built takes a free slot.
LEMMA GreetingWaits ==
    ASSUME IInv, NEW c \in Checks, checks[c] # NoCheck, NEW running \in Greeting
    PROVE  running[c] = checks[c]
BY DEF Greeting, IInv, TypeOK

LEMMA LifeWaits ==
    ASSUME IInv, NEW c \in Checks, OnTheWay(checks[c]),
           Start \/ Pause \/ Resume \/ TimerFires \/ CooldownEnds \/ AddAccount
    PROVE  OnTheWay(checks[c])'
<1>1. checks[c] # NoCheck
  BY OnTheWayIsUnderWay
<1>2. checks' \in {checks} \cup Greeting
  BY DEF Start, Pause, Resume, TimerFires, CooldownEnds, AddAccount, Lock
<1>3. checks'[c] = checks[c]
  BY <1>1, <1>2, GreetingWaits
<1>4. salt' = salt /\ token' = token
  BY DEF Start, Pause, Resume, TimerFires, CooldownEnds, AddAccount, disk
<1>5. QED
  BY <1>3, <1>4, Waits

\* While a PIN is created the switch is off, and the app is shown.
LEMMA SheetWaits ==
    ASSUME IInv, NEW c \in Checks, OnTheWay(checks[c]),
           \/ OpenSheet \/ ConfirmCreate \/ WriteSalt \/ WriteToken \/ VerifyOld
           \/ ConfirmRemove \/ DeleteToken \/ DeleteSalt \/ Dismiss \/ Done
           \/ SectionDisposed \/ Persist
    PROVE  OnTheWay(checks[c])' \/ ShowApp'
<1>1. CASE WriteSalt \/ WriteToken
  <2>1. ~pinEnabled /\ pinEnabled' = pinEnabled
    BY <1>1 DEF WriteSalt, WriteToken, At, Setting, IInv, Flow
  <2>2. QED
    BY <2>1 DEF ShowApp
<1>2. CASE Done
  <2>1. ShowApp' \/ checks' \in {checks} \cup Greeting
    BY <1>2 DEF Done
  <2>2. CASE checks' \in {checks} \cup Greeting
    <3>1. checks'[c] = checks[c]
      BY <2>2, OnTheWayIsUnderWay, GreetingWaits
    <3>2. salt' = salt /\ token' = token
      BY <1>2 DEF Done, disk
    <3>3. QED
      BY <3>1, <3>2, Waits
  <2>3. QED
    BY <2>1, <2>2
<1>3. CASE \/ OpenSheet \/ ConfirmCreate \/ VerifyOld \/ ConfirmRemove \/ DeleteToken
           \/ DeleteSalt \/ Dismiss \/ SectionDisposed \/ Persist
  <2>1. checks' = checks /\ salt' \in {salt, None} /\ token' \in {token, None}
    BY <1>3 DEF OpenSheet, ConfirmCreate, VerifyOld, ConfirmRemove, DeleteToken, DeleteSalt,
                Dismiss, SectionDisposed, Persist, Setting, disk
  <2>2. QED
    BY <2>1, Waits
<1>4. QED
  BY <1>1, <1>2, <1>3

(***************************************************************************)
(* A check of the right PIN goes on to the unlock, whatever other checks,  *)
(* cool-downs, locks and the settings do, until the app is shown or killed.*)
(***************************************************************************)
THEOREM RightPinIsKept == Spec => RightPinOpens
<1> DEFINE Kept(c) == OnTheWay(checks[c]) => OnTheWay(checks[c])' \/ ShowApp' \/ life' = "dead"
<1>1. ASSUME IInv, [Next]_vars, NEW c \in Checks PROVE Kept(c) \/ UNCHANGED vars
  <2> SUFFICES ASSUME Next, OnTheWay(checks[c])
               PROVE  OnTheWay(checks[c])' \/ ShowApp' \/ life' = "dead"
    BY <1>1
  <2>1. CASE Kill
    BY <2>1 DEF Kill
  <2>2. CASE Start \/ Pause \/ Resume \/ TimerFires \/ CooldownEnds \/ AddAccount
    BY <1>1, <2>2, LifeWaits
  <2>3. ASSUME NEW d \in Checks,
               TypePin(d) \/ StartBiometric(d) \/ Progress(d) \/ Dispose(d)
        PROVE  OnTheWay(checks[c])' \/ ShowApp'
    BY <1>1, <2>3, ChecksKeepOn
  <2>4. CASE \/ OpenSheet \/ ConfirmCreate \/ WriteSalt \/ WriteToken \/ VerifyOld
             \/ ConfirmRemove \/ DeleteToken \/ DeleteSalt \/ Dismiss \/ Done
             \/ SectionDisposed \/ Persist
    BY <1>1, <2>4, SheetWaits
  <2>5. QED
    BY <2>1, <2>2, <2>3, <2>4 DEF Next
<1>2. IInv /\ [Next]_vars => [\A c \in Checks : Kept(c)]_vars
  BY <1>1
<1>3. QED
  BY <1>2, Invariance, PTL DEF Spec, RightPinOpens
=============================================================================
