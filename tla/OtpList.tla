------------------------------- MODULE OtpList -------------------------------
(***************************************************************************)
(* The list of codes on the home screen.  The repository is polled once a  *)
(* second; each answer replaces the list by one without codes and starts   *)
(* to compute them, one await per code.  A timer looks once a second for   *)
(* codes that have just run out and computes those anew, on a copy of the  *)
(* list.  Nothing waits for the others but by the flag _isRefreshing.      *)
(*                                                                         *)
(* A code is the window (the TOTP counter) it was computed for.            *)
(***************************************************************************)
EXTENDS Subsequences

CONSTANTS
    N,              \* accounts 1..N, in the order of the list
    Period,         \* each account's period in seconds
    Broken,         \* accounts whose secret gives no code
    Loads,          \* slots: loads computing their codes at one time
    MaxTime,        \* bound: seconds that pass
    MaxChanges,     \* bound: accounts added, edited and deleted
    None            \* the code '------'; nothing under way

Ids == 1..N
ASSUME PeriodAssumption == Period \in [Ids -> Nat \ {0}]
ASSUME BoundsAssumption == N \in Nat /\ MaxTime \in Nat /\ MaxChanges \in Nat

VARIABLES
    stored,         \* otp_accounts: each account's revision, 0 when there is none
    changes,        \* changes made so far, the revision of the last
    now,            \* the clock, in seconds
    due,            \* the timer has not fired since the clock went on
    auto,           \* _refreshTimer is running
    polled,         \* the answer of getAll on its way to the listener
    loads,          \* each load: rows without a code yet, items with one
    state,          \* the list on screen
    isRefreshing,
    regen,          \* _regenerateAndUpdate: indices to come, and its copy of the list
    overlapped      \* history: a load began while another computed its codes

vars == <<stored, changes, now, due, auto, polled, loads, state, isRefreshing, regen, overlapped>>

Row == [id : Ids, rev : 1..MaxChanges + 1]
Window == 0..MaxTime
\* No list is longer than the accounts there can be.
Lists(S) == UNION {[1..n -> S] : n \in 0..N}
Items == Lists([row : Row, code : Window \cup {None}])

ASSUME NullAssumption ==
    None \notin [todo : Lists(Row), done : Items] \cup [todo : Lists(Ids), updated : Items]

TypeOK ==
    /\ stored \in [Ids -> 0..MaxChanges + 1] /\ changes \in 0..MaxChanges
    /\ now \in 0..MaxTime
    /\ due \in BOOLEAN /\ auto \in BOOLEAN /\ isRefreshing \in BOOLEAN /\ overlapped \in BOOLEAN
    /\ polled = None \/ polled \in Lists(Row)
    /\ DOMAIN loads = Loads
    /\ \A l \in Loads :
          loads[l] = None \/ (loads[l].todo \in Lists(Row) /\ loads[l].done \in Items)
    /\ state \in Items
    /\ regen = None \/ (regen.todo \in Lists(Ids) /\ regen.updated \in Items)

\* main() has set the repository; the list is empty and some accounts are stored.
Init ==
    /\ stored \in [Ids -> {0, 1}] /\ changes = 0
    /\ now = 0 /\ due = FALSE /\ auto = FALSE
    /\ polled = None /\ loads = [l \in Loads |-> None]
    /\ state = <<>> /\ isRefreshing = FALSE /\ regen = None
    /\ overlapped = FALSE

\* Mutant of Rows: deleted accounts as well.
RowsDeleted == [i \in Ids |-> [id |-> i, rev |-> stored[i]]]

\* getAllAccounts, in its order.
Rows ==
    LET rows == [i \in Ids |-> [id |-> i, rev |-> stored[i]]]
    IN Only(rows, {row \in Elements(rows) : row.rev > 0})

\* generateCode's counter.
Counter(period) == now \div period

Item(row, code) == [row |-> row, code |-> code]

\* calculateTimeLeft and its two copies: seconds until the next window.
TimeLeft(period) == period - (now % period)

-----------------------------------------------------------------------------
\* An account is added, edited or deleted, by the user or a sync.
Change ==
    /\ changes < MaxChanges
    /\ changes' = changes + 1
    /\ \E i \in Ids, rev \in {0, changes + 2} :
          rev # stored[i] /\ stored' = [stored EXCEPT ![i] = rev]
    /\ UNCHANGED <<now, due, auto, polled, loads, state, isRefreshing, regen, overlapped>>

Tick ==
    /\ now < MaxTime
    /\ now' = now + 1 /\ due' = TRUE
    /\ UNCHANGED <<stored, changes, auto, polled, loads, state, isRefreshing, regen, overlapped>>

\* startAutoRefresh when the home screen is shown or resumed, stopAutoRefresh when it is not.
SetAutoRefresh ==
    /\ auto' = ~auto
    /\ UNCHANGED <<stored, changes, now, due, polled, loads, state, isRefreshing, regen, overlapped>>

-----------------------------------------------------------------------------
\* watchAll: the rows are read at once, decrypting them is awaited, and no other poll meanwhile.
Poll ==
    /\ polled = None
    /\ polled' = Rows
    /\ UNCHANGED <<stored, changes, now, due, auto, loads, state, isRefreshing, regen, overlapped>>

\* Mutant of Listening: the list is loaded during a refresh as well.
ListeningAlways == TRUE

Listening == ~isRefreshing

\* The listener drops the answer while codes are being refreshed.
Drop ==
    /\ polled # None /\ ~Listening
    /\ polled' = None
    /\ UNCHANGED <<stored, changes, now, due, auto, loads, state, isRefreshing, regen, overlapped>>

\* loadAccounts up to its first await.
Load(l) ==
    /\ polled # None /\ Listening
    /\ loads[l] = None
    /\ polled' = None
    /\ state' = [i \in DOMAIN polled |-> Item(polled[i], None)]
    /\ loads' = [loads EXCEPT ![l] = [todo |-> polled, done |-> <<>>]]
    /\ overlapped' = (overlapped \/ \E k \in Loads : loads[k] # None)
    /\ UNCHANGED <<stored, changes, now, due, auto, isRefreshing, regen>>

\* _generateAllCodes: the next code.
Generate(l) ==
    /\ loads[l] # None /\ loads[l].todo # <<>>
    /\ LET row == Head(loads[l].todo)
           code == IF row.id \in Broken THEN None ELSE Counter(Period[row.id])
       IN loads' = [loads EXCEPT ![l] = [todo |-> Tail(@.todo), done |-> Append(@.done, Item(row, code))]]
    /\ UNCHANGED <<stored, changes, now, due, auto, polled, state, isRefreshing, regen, overlapped>>

StoreCodes(l) ==
    /\ loads[l] # None /\ loads[l].todo = <<>>
    /\ state' = loads[l].done
    /\ loads' = [loads EXCEPT ![l] = None]
    /\ UNCHANGED <<stored, changes, now, due, auto, polled, isRefreshing, regen, overlapped>>

-----------------------------------------------------------------------------
\* The items whose code has just run out.
RolledOver ==
    Only([i \in DOMAIN state |-> i],
         {i \in DOMAIN state : TimeLeft(Period[state[i].row.id]) = Period[state[i].row.id]})

\* One round of _regenerateAndUpdate's loop: the item is read from the list of this moment and
\* put into the copy; a code that cannot be computed leaves the copy as it is.
Regenerated(updated, i) ==
    LET row == state[i].row
    IN IF row.id \in Broken THEN updated
       ELSE [updated EXCEPT ![i] = Item(row, Counter(Period[row.id]))]

\* checkTokenRotation, and _regenerateAndUpdate up to its first await.
CheckTokenRotation ==
    /\ auto /\ due
    /\ due' = FALSE
    /\ IF isRefreshing \/ RolledOver = <<>> THEN UNCHANGED <<isRefreshing, regen>>
       ELSE /\ isRefreshing' = TRUE
            /\ regen' = [todo |-> Tail(RolledOver), updated |-> Regenerated(state, Head(RolledOver))]
    /\ UNCHANGED <<stored, changes, now, auto, polled, loads, state, overlapped>>

\* An index that the list of this moment does not have throws a RangeError: nothing catches it,
\* and _isRefreshing stays set.
Regenerate ==
    /\ regen # None /\ regen.todo # <<>>
    /\ regen' = IF Head(regen.todo) \in DOMAIN state
                THEN [todo |-> Tail(regen.todo),
                      updated |-> Regenerated(regen.updated, Head(regen.todo))]
                ELSE None
    /\ UNCHANGED <<stored, changes, now, due, auto, polled, loads, state, isRefreshing, overlapped>>

\* Mutant of Refreshed: the flag is not reset.
RefreshedStill == TRUE

\* _isRefreshing when the copy has been stored.
Refreshed == FALSE

StoreRegenerated ==
    /\ regen # None /\ regen.todo = <<>>
    /\ state' = regen.updated
    /\ regen' = None
    /\ isRefreshing' = Refreshed
    /\ UNCHANGED <<stored, changes, now, due, auto, polled, loads, overlapped>>

-----------------------------------------------------------------------------
Deliver == Drop \/ \E l \in Loads : Load(l)
Finish(l) == Generate(l) \/ StoreCodes(l)
Refresh == Regenerate \/ StoreRegenerated

Next ==
    \/ Change \/ Tick \/ SetAutoRefresh \/ CheckTokenRotation
    \/ Poll \/ Deliver \/ Refresh
    \/ \E l \in Loads : Finish(l)

Spec == Init /\ [][Next]_vars

-----------------------------------------------------------------------------
\* The refresh ended with a RangeError: the list is never loaded again.
Stuck == isRefreshing /\ regen = None

(***************************************************************************)
(* The flag that keeps polls and refreshes apart does its work: a refresh  *)
(* that works on a copy of the list, and on indices into it, always ends   *)
(* and resets the flag, however accounts come and go.  The exception is a  *)
(* load that began while another one still computed its codes (more than   *)
(* the second between two polls): the flag does not keep those apart.      *)
(***************************************************************************)
StuckByOverlap == Stuck /\ overlapped

RefreshEnds == Stuck => StuckByOverlap

(***************************************************************************)
(* The list catches up: once no account is changed and no window ends any  *)
(* more (MaxTime), it has exactly the accounts that are stored, in order,  *)
(* as they are, whatever older loads and copies are stored late.           *)
(***************************************************************************)
ListCatchesUp == <>[](StuckByOverlap \/ [i \in DOMAIN state |-> state[i].row] = Rows)
=============================================================================
