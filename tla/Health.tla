------------------------------- MODULE Health -------------------------------
(***************************************************************************)
(* The assessment of one ledger entry (internal/health/health.go): how     *)
(* much of its TTL is left at the ledger it was read at, under the         *)
(* thresholds of its kind.  Pure operators.                                *)
(***************************************************************************)
EXTENDS Integers

Statuses == {"healthy", "unknown", "warning", "critical", "expired", "missing"}

Severity ==
    [healthy |-> 0, unknown |-> 1, warning |-> 2, critical |-> 3, expired |-> 4,
     missing |-> 5]

(* The status that no other one in S exceeds; healthy of none.             *)
Worst(S) ==
    CHOOSE s \in S \cup {"healthy"} :
        \A t \in S \cup {"healthy"} : Severity[t] <= Severity[s]

Kinds == {"instance", "code", "data"}

(* A threshold that is not overridden: a nil pointer in the code.          *)
Unset == -1

Thresholds == [warn : Nat, critical : Nat]
ThresholdOverrides == [Kinds -> [warn : Nat \cup {Unset}, critical : Nat \cup {Unset}]]

OrElse(value, fallback) == IF value = Unset THEN fallback ELSE value

(* Each of the two values falls back on its own.                           *)
ResolveThresholds(kind, global, overrides) ==
    [warn     |-> OrElse(overrides[kind].warn, global.warn),
     critical |-> OrElse(overrides[kind].critical, global.critical)]

(* What an RPC answer says of one key: no entry, an entry without a TTL,   *)
(* or one that lives until a ledger.                                       *)
Gone == [kind |-> "gone", until |-> 0]
Untimed == [kind |-> "untimed", until |-> 0]
Timed(until) == [kind |-> "timed", until |-> until]

Entries(Ledgers) == {Gone, Untimed} \cup {Timed(u) : u \in Ledgers}

(* Slip: an entry is expired at the last ledger it lives until.            *)
EvaluateEarly(entry, ledger, t) ==
    LET remaining == entry.until - ledger
    IN  IF entry.kind = "untimed" THEN "unknown"
        ELSE IF remaining <= 0 THEN "expired"
        ELSE IF remaining <= t.critical THEN "critical"
        ELSE IF remaining <= t.warn THEN "warning"
        ELSE "healthy"

(* EvaluateWithCloseTime, for an entry that is there.  It is live at the   *)
(* very ledger it lives until.  The subtraction is in int64 and exact.     *)
Evaluate(entry, ledger, t) ==
    LET remaining == entry.until - ledger
    IN  IF entry.kind = "untimed" THEN "unknown"
        ELSE IF remaining < 0 THEN "expired"
        ELSE IF remaining <= t.critical THEN "critical"
        ELSE IF remaining <= t.warn THEN "warning"
        ELSE "healthy"

(* The TTL of an entry that may not be there: Absent or Evaluate.          *)
Assess(entry, ledger, t) ==
    [entry |-> entry, ledger |-> ledger,
     status |-> IF entry = Gone THEN "missing" ELSE Evaluate(entry, ledger, t)]

=============================================================================
