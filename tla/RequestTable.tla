---------------------------- MODULE RequestTable ----------------------------
(***************************************************************************)
(* The request table of one connection (src/src/connection/table.rs): the  *)
(* rows keyed by multiplex id, the deadline index kept beside them, and    *)
(* the two counters, charging and retired.                                 *)
(*                                                                         *)
(* The module holds the table's state and what each method does to it.     *)
(* The actor that calls the methods is module Connection.                  *)
(*                                                                         *)
(* Instants are modelled by the time left until them: now + d is d, and    *)
(* one unit of time passing (Elapse) takes one from every deadline, down   *)
(* to 0, which is a deadline the clock has reached.  No instant before now *)
(* is ever told from another, so nothing is lost and the clock needs no    *)
(* bound.                                                                  *)
(***************************************************************************)
EXTENDS Integers, FiniteSets

CONSTANTS
    Calls,             \* everything the connection may be asked to issue
    Nobody,            \* the owner of a row that holds no request
    LastMid,           \* LAST_MID, the largest multiplex id issued
    Limit,             \* the admission limit
    RetirementBudget,  \* RETIREMENT_BUDGET
    GiveUpDeadlines,   \* GIVE_UP_DEADLINES
    PerRequest,        \* Timeouts::per_request
    Overall            \* Timeouts::overall

ASSUME TableAssumption ==
    /\ Nobody \notin Calls
    /\ LastMid \in Nat
    /\ Limit \in Nat \ {0}
    /\ RetirementBudget \in Nat \ {0}
    /\ GiveUpDeadlines \in Nat \ {0}
    /\ PerRequest \in Nat \ {0}
    /\ Overall \in Nat \ {0}

VARIABLES
    table,     \* entries, as a function that is FreeRow where no row is held
    expiry,    \* the deadline index: pairs of a deadline and an id
    charging,  \* how many requests charge capacity
    retired,   \* how many ids have been retired
    cursor     \* where the next allocation starts looking

tableVars == <<table, expiry, charging, retired, cursor>>

Mids == 0 .. LastMid

GiveUp == GiveUpDeadlines * Overall

Earlier(a, b) == IF a <= b THEN a ELSE b

-----------------------------------------------------------------------------
(* The rows. *)

Row == [state   : {"Free", "OnWire", "Lapsed", "Retired"},
        owner   : Calls \cup {Nobody},
        silence : 0 .. PerRequest,
        overall : 0 .. Overall,
        giveUp  : 0 .. GiveUp]

FreeRow == [state |-> "Free", owner |-> Nobody,
            silence |-> 0, overall |-> 0, giveUp |-> 0]

OnWireRow(c) == [state |-> "OnWire", owner |-> c,
                 silence |-> PerRequest, overall |-> Overall, giveUp |-> 0]

\* The lapse of expire(): the id stays held and the give-up clock starts.
LapsedRow(row) == [row EXCEPT !.state = "Lapsed", !.silence = 0,
                              !.overall = 0, !.giveUp = GiveUp]

\* A mutant of RetiredRow: the id returns to the pool.
ReturnedRow(row) == FreeRow

\* retire: the identity outlives the request it belonged to.
RetiredRow(row) == [row EXCEPT !.state = "Retired", !.silence = 0,
                               !.overall = 0, !.giveUp = 0]

\* Entry::charges.
Charges(row) == row.state = "OnWire"

\* Entry::expires_at of a row that carries a deadline.
HasDeadline(row) == row.state \in {"OnWire", "Lapsed"}

ExpiresAt(row) == IF row.state = "OnWire"
                  THEN Earlier(row.silence, row.overall)
                  ELSE row.giveUp

\* A mutant of Touch: every deadline starts over.
TouchAll(row) ==
    [row EXCEPT !.silence = PerRequest, !.overall = Overall, !.giveUp = GiveUp]

\* Entry::touch: any message restarts the silence clock of a charging row, and
\* never its overall deadline, nor anything of a lapsed row.
Touch(row) == IF Charges(row) THEN [row EXCEPT !.silence = PerRequest] ELSE row

OnWire == {m \in Mids : Charges(table[m])}

FreeMids == {m \in Mids : table[m].state = "Free"}

TableInit ==
    /\ table = [m \in Mids |-> FreeRow]
    /\ expiry = {}
    /\ charging = 0
    /\ retired = 0
    /\ cursor = 0

-----------------------------------------------------------------------------
(* The methods.  Each says what becomes of the five variables.             *)

\* allocate: the first id at or after the cursor that no row holds, going
\* round at LAST_MID; there is none exactly when every id is held.
Distance(m) == (m - cursor) % (LastMid + 1)

Allocates(m) ==
    /\ m \in FreeMids
    /\ \A k \in FreeMids : Distance(m) <= Distance(k)

\* A mutant of CursorAfter: the reserved id after LAST_MID is reached.
CursorPast(m) == m + 1

CursorAfter(m) == IF m = LastMid THEN 0 ELSE m + 1

\* dispatch: the row is entered on the wire with both clocks started.
Dispatch(m, c) ==
    /\ table' = [table EXCEPT ![m] = OnWireRow(c)]
    /\ expiry' = expiry \cup {<<Earlier(PerRequest, Overall), m>>}
    /\ charging' = charging + 1
    /\ UNCHANGED <<retired, cursor>>

\* The index entry of row m, if it has a deadline.
Indexed(m, row) == IF HasDeadline(row) THEN {<<ExpiresAt(row), m>>} ELSE {}

\* accept, once the message has been matched to a row and the step it makes is
\* known: the row goes on, leaves the table, or is retired.
RowAfter(row, step) ==
    CASE step = "Continuing" -> Touch(row)
      [] step = "Completed"  -> FreeRow
      [] step = "Corrupted"  -> RetiredRow(row)

\* A mutant of Reindex: the entry for the old deadline stays.
ReindexAdding(m, before, after) == expiry \cup Indexed(m, after)

\* The index once row m is after where it was before.
Reindex(m, before, after) ==
    (expiry \ Indexed(m, before)) \cup Indexed(m, after)

\* A mutant of ChargingAfter: whatever ends gives capacity back.
ChargingAfterAny(row, step) ==
    IF step # "Continuing" THEN charging - 1 ELSE charging

\* Only a row that charged gives its capacity back.
ChargingAfter(row, step) ==
    IF Charges(row) /\ step # "Continuing" THEN charging - 1 ELSE charging

Accept(m, step) ==
    LET row == table[m]
        after == RowAfter(row, step)
    IN  /\ table' = [table EXCEPT ![m] = after]
        /\ expiry' = Reindex(m, row, after)
        /\ charging' = ChargingAfter(row, step)
        /\ retired' = IF step = "Corrupted" THEN retired + 1 ELSE retired
        /\ UNCHANGED cursor

\* retire fails the connection when it spends the last of the budget.
BudgetSpent(n) == n > 0 /\ retired + n >= RetirementBudget

\* expire: every deadline the clock has reached fires.  A row on the wire
\* lapses; a lapsed row is given up on and its id retired.
Due == {m \in Mids : <<0, m>> \in expiry}

Lapsing == {m \in Due : Charges(table[m])}

GivenUp == Due \ Lapsing

Expire ==
    /\ table' = [m \in Mids |-> IF m \in Lapsing THEN LapsedRow(table[m])
                                ELSE IF m \in GivenUp THEN RetiredRow(table[m])
                                ELSE table[m]]
    /\ expiry' = (expiry \ {<<0, m>> : m \in Due})
                   \cup {<<GiveUp, m>> : m \in Lapsing}
    /\ charging' = charging - Cardinality(Lapsing)
    /\ retired' = retired + Cardinality(GivenUp)
    /\ UNCHANGED cursor

\* fail_all: every row goes.  Who is told is the actor's business.
FailAll ==
    /\ table' = [m \in Mids |-> FreeRow]
    /\ expiry' = {}
    /\ charging' = 0

\* One unit of time passes.
Down(n) == IF n = 0 THEN 0 ELSE n - 1

Elapse ==
    /\ table' = [m \in Mids |-> [table[m] EXCEPT !.silence = Down(@),
                                                 !.overall = Down(@),
                                                 !.giveUp = Down(@)]]
    /\ expiry' = {<<Down(e[1]), e[2]>> : e \in expiry}
    /\ UNCHANGED <<charging, retired, cursor>>

-----------------------------------------------------------------------------
(* What the table's methods rely on between calls. *)

TableTypeOK ==
    /\ table \in [Mids -> Row]
    /\ expiry \in SUBSET (Nat \X Mids)
    /\ charging \in Nat
    /\ retired \in Nat
    /\ cursor \in Mids

\* "The expiry index and the table agree": the panic message of expire().  The
\* index holds one entry for each row with a deadline, at that deadline, and
\* no other: an entry too many panics the actor in expire(), one too few is a
\* request that never lapses.
IndexAgrees ==
    expiry = {<<ExpiresAt(table[m]), m>> :
                m \in {k \in Mids : HasDeadline(table[k])}}

\* The counter that admission reads counts the rows that charge capacity, so
\* it never strands capacity and never underflows in accept() or expire().
ChargingCounts == charging = Cardinality(OnWire)
=============================================================================
